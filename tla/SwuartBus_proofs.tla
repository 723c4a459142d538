-------------------------- MODULE SwuartBus_proofs --------------------------
(***************************************************************************)
(* Proofs about SwuartBus, for frames of any length, any set of builds and *)
(* any peer.                                                               *)
(***************************************************************************)
EXTENDS SwuartBus, SequenceTheorems, TLAPS

\* NeverDeaf needs no more than the shape of main, which Goto changes.
MainOK == main = [pc |-> main.pc, r24 |-> main.r24]
IInv == MainOK /\ NeverDeaf

\* Goto(pc) leads to pc.
LEMMA GotoStep ==
  ASSUME MainOK, NEW pc, Goto(pc)
  PROVE  MainOK' /\ main'.pc = pc
  <1>1. main' = [pc |-> pc, r24 |-> main.r24]
    BY DEF MainOK, Goto
  <1> QED
    BY <1>1 DEF MainOK

\* The handlers exchange START_IE and MATCH_IE.
LEMMA HandlersStep ==
  ASSUME IInv, Handlers
  PROVE  IInv'
  <1>1. main' = main
    BY DEF Handlers, StartIgnored, StartBit, RxData, RxStop, TxData, TxLost, TxStop
  <1>2. CASE StartIgnored \/ RxData \/ TxData \/ TxLost
    BY <1>1, <1>2 DEF IInv, MainOK, NeverDeaf, StartIgnored, RxData, TxData, TxLost
  <1>3. CASE StartBit \/ RxStop \/ TxStop
    BY <1>1, <1>3 DEF IInv, MainOK, NeverDeaf, StartBit, RxStop, TxStop
  <1> QED
    BY <1>2, <1>3 DEF Handlers

\* putbyte gives up START_IE before it sets MATCH_IE: NeverDeaf tells in
\* between by its program counter.
LEMMA DeviceStep ==
  ASSUME IInv, GetWait \/ GetClear \/ GetLoad \/ PutWait \/ PutSlot \/ PutOff \/ PutStart
  PROVE  IInv'
  <1> USE DEF IInv
  <1>1. CASE GetWait
    BY <1>1, GotoStep DEF NeverDeaf, GetWait, At, registers
  <1>2. CASE GetClear
    BY <1>2, GotoStep DEF NeverDeaf, GetClear, At, registers
  <1>3. CASE GetLoad
    BY <1>3 DEF MainOK, NeverDeaf, GetLoad, At, registers
  <1>4. CASE PutWait
    BY <1>4, GotoStep DEF NeverDeaf, PutWait, At, registers
  <1>5. CASE PutSlot
    BY <1>5, GotoStep DEF NeverDeaf, PutSlot, At, registers
  <1>6. CASE PutOff
    BY <1>6, GotoStep DEF NeverDeaf, PutOff
  <1>7. CASE PutStart
    BY <1>7, GotoStep DEF NeverDeaf, PutStart
  <1> QED
    BY <1>1, <1>2, <1>3, <1>4, <1>5, <1>6, <1>7

\* The application only calls a function when the last one has returned.
LEMMA CallStep ==
  ASSUME IInv, CallGet \/ Clear \/ \E b \in Byte : CallPut(b)
  PROVE  IInv'
  <1> USE DEF IInv
  <1>1. CASE CallGet
    BY <1>1, GotoStep DEF NeverDeaf, CallGet, At, registers
  <1>2. CASE Clear
    BY <1>2 DEF MainOK, NeverDeaf, Clear, registers
  <1>3. ASSUME NEW b \in Byte, CallPut(b) PROVE IInv'
    BY <1>3 DEF MainOK, NeverDeaf, CallPut, At, registers
  <1> QED
    BY <1>1, <1>2, <1>3

\* Neither time nor the peer touches the masks.
LEMMA LineStep ==
  ASSUME IInv, Elapse \/ \E b \in Byte : PeerStart(b)
  PROVE  IInv'
  BY DEF IInv, MainOK, NeverDeaf, Elapse, PeerStart

LEMMA NextIInv == IInv /\ [Next]_vars => IInv'
  <1> SUFFICES ASSUME IInv, [Next]_vars PROVE IInv'
    OBVIOUS
  <1>1. CASE Read \/ AnyCall \/ \E b \in Byte : Write(b)
    BY <1>1, CallStep DEF Read, AnyCall, Write
  <1>2. CASE Device
    BY <1>2, DeviceStep DEF Device, Wait, Return, Start
  <1>3. CASE Interrupt
    BY <1>3, HandlersStep DEF Interrupt
  <1>4. CASE Tick \/ \E b \in Byte : Disturb(b) \/ \E n \in 1..MaxReply : Ask(b, n)
    BY <1>4, LineStep DEF Tick, Disturb, Ask
  <1>5. CASE UNCHANGED vars
    BY <1>5 DEF vars, uart, IInv, MainOK, NeverDeaf
  <1> QED
    BY <1>1, <1>2, <1>3, <1>4, <1>5 DEF Next

\* The UART always listens, is in a frame, or is about to send one: putbyte and
\* the handlers never give up START_IE for good (swuarta.sx 257, 483, 627, 709).
THEOREM NeverDeafCorrect == Spec => []NeverDeaf
  <1>1. Init => IInv
    BY DEF Init, UartInit, IInv, MainOK, NeverDeaf
  <1> QED
    BY <1>1, NextIInv, PTL DEF Spec, IInv

-----------------------------------------------------------------------------
(* Sequences of bits.                                                      *)

\* A register that was shifted.
LEMMA ShiftedByte ==
  ASSUME NEW s \in Byte, NEW x \in Bit
  PROVE  /\ Shifted(s, x) \in Byte
         /\ Shifted(s, x)[NB] = x
         /\ \A i \in 1..(NB - 1) : Shifted(s, x)[i] = s[i + 1]
         /\ Head(s) = s[1] /\ Head(s) \in Bit
  <1>1. s \in Seq(Bit) /\ Len(s) = NB
    BY FrameAssumption, SeqDef, LenProperties DEF Byte
  <1>2. s # <<>>
    BY <1>1, FrameAssumption, EmptySeq
  <1>3. /\ Tail(s) \in Seq(Bit) /\ Len(Tail(s)) = NB - 1
        /\ \A i \in 1..(NB - 1) : Tail(s)[i] = s[i + 1]
        /\ Head(s) \in Bit
    BY <1>1, <1>2, HeadTailProperties
  <1>4. Head(s) = s[1]
    BY <1>1, <1>2
  <1>5. /\ Shifted(s, x) \in Seq(Bit) /\ Len(Shifted(s, x)) = NB
        /\ Shifted(s, x)[NB] = x
        /\ \A i \in 1..(NB - 1) : Shifted(s, x)[i] = Tail(s)[i]
    BY <1>3, FrameAssumption, AppendProperties DEF Shifted
  <1>6. Shifted(s, x) \in Byte
    BY <1>5, LenProperties DEF Byte
  <1> QED
    BY <1>3, <1>4, <1>5, <1>6

\* The half bits of a frame.
LEMMA FrameBits ==
  ASSUME NEW b \in Byte
  PROVE  /\ Frame(b) \in Seq(Bit) /\ Len(Frame(b)) = 2 * NB + 4
         /\ Frame(b)[1] = 0
         /\ \A i \in 1..NB : Frame(b)[2 * i + 2] = b[i]
         /\ Frame(b)[2 * NB + 4] = 1
  <1> DEFINE bits == <<0>> \o b \o <<1>>
  <1>1. b \in Seq(Bit) /\ Len(b) = NB
    BY FrameAssumption, SeqDef, LenProperties DEF Byte
  <1>2. /\ <<0>> \in Seq(Bit) /\ <<1>> \in Seq(Bit)
        /\ Len(<<0>>) = 1 /\ Len(<<1>>) = 1
    BY DEF Bit
  <1>3. /\ <<0>> \o b \in Seq(Bit) /\ Len(<<0>> \o b) = NB + 1
        /\ (<<0>> \o b)[1] = 0
        /\ \A i \in 1..NB : (<<0>> \o b)[i + 1] = b[i]
    BY <1>1, <1>2, FrameAssumption, ConcatProperties
  <1>4. /\ bits \in Seq(Bit) /\ Len(bits) = NB + 2
        /\ bits[1] = 0 /\ bits[NB + 2] = 1
        /\ \A i \in 1..NB : bits[i + 1] = b[i]
    BY <1>2, <1>3, FrameAssumption, ConcatProperties
  <1>5. \A i \in 1..(NB + 2) : bits[i] \in Bit
    BY <1>4, ElementOfSeq
  <1>12. Frame(b) = [i \in 1..(2 * Len(bits)) |-> bits[(i + 1) \div 2]]
    BY Zenon DEF Frame
  <1> HIDE DEF bits
  <1>6. Frame(b) = [i \in 1..(2 * NB + 4) |-> bits[(i + 1) \div 2]]
    BY <1>4, <1>12, FrameAssumption
  <1>7. \A i \in 1..(2 * NB + 4) : (i + 1) \div 2 \in 1..(NB + 2)
    BY FrameAssumption
  <1>8. Frame(b) \in [1..(2 * NB + 4) -> Bit]
    BY <1>5, <1>6, <1>7
  <1>9. Frame(b) \in Seq(Bit) /\ Len(Frame(b)) = 2 * NB + 4
    BY <1>8, FrameAssumption, SeqDef, LenProperties
  <1>10. \A i \in 1..NB : (2 * i + 2 + 1) \div 2 = i + 1 /\ 2 * i + 2 \in 1..(2 * NB + 4)
    BY FrameAssumption
  <1>11. (2 * NB + 4 + 1) \div 2 = NB + 2 /\ (1 + 1) \div 2 = 1
    BY FrameAssumption
  <1>13. \A i \in 1..NB : Frame(b)[2 * i + 2] = bits[i + 1]
    BY <1>6, <1>10
  <1>14. Frame(b)[1] = bits[1] /\ Frame(b)[2 * NB + 4] = bits[NB + 2]
    BY <1>6, <1>11, FrameAssumption
  <1> QED
    BY <1>4, <1>9, <1>13, <1>14

-----------------------------------------------------------------------------
(* Types of the UART's own variables.  A frame counts its bits down to 0,  *)
(* its stop bit makes it -1.                                               *)

UartInv == UartTypeOK /\ (matchIE => nbit >= 0)

LEMMA Levels ==
  ASSUME UartTypeOK
  PROVE  /\ PeerLevel(out) \in Bit /\ Rxd \in Bit /\ Txd \in Bit
         /\ \A p, d, o : Edge(p, d, o) \in BOOLEAN
  <1>1. PeerLevel(out) \in Bit
    <2>1. CASE out = <<>>
      BY <2>1 DEF PeerLevel, Bit
    <2>2. CASE out # <<>>
      BY <2>2, HeadTailProperties DEF PeerLevel, UartTypeOK
    <2> QED
      BY <2>1, <2>2
  <1>2. Driven(port, ddr) \in Bit
    BY DEF Driven, UartTypeOK, Bit
  <1>3. Rxd \in Bit
    BY <1>1 DEF Rxd, RxdLevel, Bit
  <1>4. Txd \in Bit
    BY <1>2, <1>3 DEF Txd
  <1>5. \A p, d, o : Edge(p, d, o) \in BOOLEAN
    BY DEF Edge, UartTypeOK
  <1> QED
    BY <1>1, <1>3, <1>4, <1>5

\* The handlers.
LEMMA HandlerTypes ==
  ASSUME UartInv, Handlers
  PROVE  UartInv'
  <1> USE DEF UartInv
  <1>0. /\ Rxd \in Bit /\ (\A p, d, o : Edge(p, d, o) \in BOOLEAN)
        /\ Shifted(shift, Rxd) \in Byte /\ Shifted(shift, 0) \in Byte
        /\ Head(shift) \in Bit
        /\ Zeros \in Byte /\ One \in Byte
    BY Levels, ShiftedByte, Zenon DEF UartTypeOK, Zeros, One, Byte, Bit
  <1>1. CASE StartIgnored
    BY <1>1 DEF UartTypeOK, StartIgnored
  <1>2. CASE StartBit
    <2>1. nbit' \in -1..NB /\ (matchIE' => nbit' >= 0) /\ toMatch' \in 0..dt0
      BY <1>2, FrameAssumption DEF UartTypeOK, StartBit, dt0, dtn
    <2>2. {startIE', startIF', matchIE', matchIF'} \subseteq BOOLEAN
      BY <1>0, <1>2 DEF UartTypeOK, StartBit
    <2>3. data' \in Byte /\ shift' \in Byte /\ stat' \in Status
      BY <1>0, <1>2 DEF UartTypeOK, StartBit, Status
    <2>4. port' \in Bit /\ ddr' \in Bit
      BY <1>0, <1>2 DEF UartTypeOK, StartBit, Bit
    <2>5. mode' = mode /\ main' = main /\ out' = out
      BY <1>2 DEF StartBit
    <2> QED
      BY <2>1, <2>2, <2>3, <2>4, <2>5, Zenon DEF UartTypeOK
  <1>3. CASE RxData
    <2>1. nbit' \in -1..NB /\ (matchIE' => nbit' >= 0) /\ toMatch' \in 0..dt0
      BY <1>3, FrameAssumption DEF UartTypeOK, RxData, Receiving, NextBit, MatchIRQ, dt0, dtn
    <2>2. {startIE', startIF', matchIE', matchIF'} \subseteq BOOLEAN
      BY <1>0, <1>3 DEF UartTypeOK, RxData, Receiving, NextBit, MatchIRQ
    <2>3. data' \in Byte /\ shift' \in Byte /\ stat' \in Status
      BY <1>0, <1>3 DEF UartTypeOK, RxData, Receiving, NextBit, MatchIRQ, Status
    <2>4. port' \in Bit /\ ddr' \in Bit
      BY <1>0, <1>3 DEF UartTypeOK, RxData, Receiving, NextBit, MatchIRQ, Bit
    <2>5. mode' = mode /\ main' = main /\ out' = out
      BY <1>3 DEF RxData
    <2> QED
      BY <2>1, <2>2, <2>3, <2>4, <2>5, Zenon DEF UartTypeOK
  <1>4. CASE RxStop
    <2>1. nbit' \in -1..NB /\ (matchIE' => nbit' >= 0) /\ toMatch' \in 0..dt0
      BY <1>4, FrameAssumption DEF UartTypeOK, RxStop, Receiving, NextBit, MatchIRQ, dt0, dtn
    <2>2. {startIE', startIF', matchIE', matchIF'} \subseteq BOOLEAN
      BY <1>0, <1>4 DEF UartTypeOK, RxStop, Receiving, NextBit, MatchIRQ
    <2>3. data' \in Byte /\ shift' \in Byte /\ stat' \in Status
      BY <1>0, <1>4 DEF UartTypeOK, RxStop, Receiving, NextBit, MatchIRQ, Status
    <2>4. port' \in Bit /\ ddr' \in Bit
      BY <1>0, <1>4 DEF UartTypeOK, RxStop, Receiving, NextBit, MatchIRQ, Bit
    <2>5. mode' = mode /\ main' = main /\ out' = out
      BY <1>4 DEF RxStop
    <2> QED
      BY <2>1, <2>2, <2>3, <2>4, <2>5, Zenon DEF UartTypeOK
  <1>5. CASE TxData
    <2>1. nbit' \in -1..NB /\ (matchIE' => nbit' >= 0) /\ toMatch' \in 0..dt0
      BY <1>5, FrameAssumption DEF UartTypeOK, TxData, Transmitting, NextBit, MatchIRQ, dt0, dtn
    <2>2. {startIE', startIF', matchIE', matchIF'} \subseteq BOOLEAN
      BY <1>0, <1>5 DEF UartTypeOK, TxData, Transmitting, NextBit, MatchIRQ
    <2>3. data' \in Byte /\ shift' \in Byte /\ stat' \in Status
      BY <1>0, <1>5 DEF UartTypeOK, TxData, Transmitting, NextBit, MatchIRQ, Status
    <2>4. port' \in Bit /\ ddr' \in Bit
      BY <1>0, <1>5 DEF UartTypeOK, TxData, Transmitting, NextBit, MatchIRQ, Bit
    <2>5. mode' = mode /\ main' = main /\ out' = out
      BY <1>5 DEF TxData
    <2> QED
      BY <2>1, <2>2, <2>3, <2>4, <2>5, Zenon DEF UartTypeOK
  <1>6. CASE TxLost
    <2>1. nbit' \in -1..NB /\ (matchIE' => nbit' >= 0) /\ toMatch' \in 0..dt0
      BY <1>6, FrameAssumption DEF UartTypeOK, TxLost, Transmitting, NextBit, MatchIRQ, dt0, dtn
    <2>2. {startIE', startIF', matchIE', matchIF'} \subseteq BOOLEAN
      BY <1>0, <1>6 DEF UartTypeOK, TxLost, Transmitting, NextBit, MatchIRQ
    <2>3. data' \in Byte /\ shift' \in Byte /\ stat' \in Status
      BY <1>0, <1>6 DEF UartTypeOK, TxLost, Transmitting, NextBit, MatchIRQ, Status
    <2>4. port' \in Bit /\ ddr' \in Bit
      BY <1>0, <1>6 DEF UartTypeOK, TxLost, Transmitting, NextBit, MatchIRQ, Bit
    <2>5. mode' = mode /\ main' = main /\ out' = out
      BY <1>6 DEF TxLost
    <2> QED
      BY <2>1, <2>2, <2>3, <2>4, <2>5, Zenon DEF UartTypeOK
  <1>7. CASE TxStop
    <2>1. nbit' \in -1..NB /\ (matchIE' => nbit' >= 0) /\ toMatch' \in 0..dt0
      BY <1>7, FrameAssumption DEF UartTypeOK, TxStop, Transmitting, NextBit, MatchIRQ, dt0, dtn
    <2>2. {startIE', startIF', matchIE', matchIF'} \subseteq BOOLEAN
      BY <1>0, <1>7 DEF UartTypeOK, TxStop, Transmitting, NextBit, MatchIRQ
    <2>3. data' \in Byte /\ shift' \in Byte /\ stat' \in Status
      BY <1>0, <1>7 DEF UartTypeOK, TxStop, Transmitting, NextBit, MatchIRQ, Status
    <2>4. port' \in Bit /\ ddr' \in Bit
      BY <1>0, <1>7 DEF UartTypeOK, TxStop, Transmitting, NextBit, MatchIRQ, Bit
    <2>5. mode' = mode /\ main' = main /\ out' = out
      BY <1>7 DEF TxStop
    <2> QED
      BY <2>1, <2>2, <2>3, <2>4, <2>5, Zenon DEF UartTypeOK
  <1> QED
    BY <1>1, <1>2, <1>3, <1>4, <1>5, <1>6, <1>7 DEF Handlers

\* getbyte, putbyte and the calls.
LEMMA ProgramTypes ==
  ASSUME UartInv,
         \/ GetWait \/ GetClear \/ GetLoad \/ PutWait \/ PutSlot \/ PutOff \/ PutStart
         \/ CallGet \/ Clear \/ \E b \in Byte : CallPut(b)
  PROVE  UartInv'
  <1> USE DEF UartInv
  <1>1. CASE GetWait \/ PutSlot \/ PutOff \/ CallGet
    <2>1. /\ mode' = mode /\ stat' = stat /\ data' = data /\ shift' = shift
          /\ nbit' = nbit /\ startIE' \in {startIE, FALSE} /\ startIF' = startIF
          /\ matchIE' = matchIE /\ matchIF' = matchIF /\ toMatch' = toMatch
          /\ port' = port /\ ddr' = ddr /\ out' = out
      BY <1>1 DEF GetWait, PutSlot, PutOff, CallGet, registers, pin
    <2>2. main' \in [pc : {"app", "get", "get_clear", "get_load", "put",
                          "put_slot", "put_off", "put_start"}, r24 : Byte]
      BY <1>1 DEF UartTypeOK, GetWait, PutSlot, PutOff, CallGet, Goto
    <2>3. {startIE', startIF', matchIE', matchIF'} \subseteq BOOLEAN
      BY <2>1 DEF UartTypeOK
    <2> QED
      BY <2>1, <2>2, <2>3, Zenon DEF UartTypeOK
  <1>2. CASE GetClear \/ PutWait \/ Clear
    <2>1. stat' \in Status
      BY <1>2 DEF UartTypeOK, GetClear, PutWait, Clear, Status
    <2> QED
      BY <1>2, <2>1 DEF UartTypeOK, GetClear, PutWait, Clear, Goto, registers, pin
  <1>3. CASE GetLoad \/ \E b \in Byte : CallPut(b)
    <2>1. /\ mode' = mode /\ stat' = stat /\ data' = data /\ shift' = shift
          /\ nbit' = nbit /\ startIE' = startIE /\ startIF' = startIF
          /\ matchIE' = matchIE /\ matchIF' = matchIF /\ toMatch' = toMatch
          /\ port' = port /\ ddr' = ddr /\ out' = out
      BY <1>3 DEF GetLoad, CallPut, registers, pin
    <2>2. main' \in [pc : {"app", "get", "get_clear", "get_load", "put",
                          "put_slot", "put_off", "put_start"}, r24 : Byte]
      BY <1>3 DEF UartTypeOK, GetLoad, CallPut
    <2> QED
      BY <2>1, <2>2, Zenon DEF UartTypeOK
  <1>4. CASE PutStart
    <2>1. stat' \in Status
      BY <1>4 DEF UartTypeOK, PutStart, Status
    <2>2. startIF' \in BOOLEAN
      BY <1>4, Levels DEF PutStart
    <2>3. ddr' \in Bit /\ port' \in Bit
      BY <1>4 DEF UartTypeOK, PutStart, Bit
    <2>4. nbit' \in -1..NB /\ (matchIE' => nbit' >= 0) /\ toMatch' \in 0..dt0
      BY <1>4, FrameAssumption DEF PutStart, dt0, dtn
    <2>5. {startIE', startIF', matchIE', matchIF'} \subseteq BOOLEAN
      BY <1>4, <2>2 DEF UartTypeOK, PutStart
    <2>6. data' \in Byte /\ shift' \in Byte
      BY <1>4 DEF UartTypeOK, PutStart
    <2>7. main' \in [pc : {"app", "get", "get_clear", "get_load", "put",
                          "put_slot", "put_off", "put_start"}, r24 : Byte]
      BY <1>4 DEF UartTypeOK, PutStart, Goto
    <2>8. mode' = mode /\ out' = out
      BY <1>4 DEF PutStart
    <2> QED
      BY <2>1, <2>3, <2>4, <2>5, <2>6, <2>7, <2>8, Zenon DEF UartTypeOK
  <1> QED
    BY <1>1, <1>2, <1>3, <1>4

\* Time and the peer.
LEMMA LineTypes ==
  ASSUME UartInv, Elapse \/ \E b \in Byte : PeerStart(b)
  PROVE  UartInv'
  <1> USE DEF UartInv
  <1>1. CASE Elapse
    <2>1. out' \in Seq(Bit) /\ Len(out') <= 2 * (NB + 2)
      <3>1. CASE out = <<>>
        BY <1>1, <3>1 DEF Elapse, UartTypeOK
      <3>2. CASE out # <<>>
        BY <1>1, <3>2, FrameAssumption, HeadTailProperties DEF Elapse, UartTypeOK
      <3> QED
        BY <3>1, <3>2
    <2>2. toMatch' \in 0..dt0
      BY <1>1 DEF Elapse, UartTypeOK, dt0
    <2>3. startIF' \in BOOLEAN
      BY <1>1, Levels DEF Elapse
    <2>4. matchIF' \in BOOLEAN
      BY <1>1, Zenon DEF Elapse
    <2> QED
      BY <1>1, <2>1, <2>2, <2>3, <2>4 DEF Elapse, UartTypeOK, pin
  <1>2. ASSUME NEW b \in Byte, PeerStart(b)
        PROVE  UartInv'
    <2>1. out' \in Seq(Bit) /\ Len(out') <= 2 * (NB + 2)
      BY <1>2, FrameBits, FrameAssumption DEF PeerStart
    <2>2. startIF' \in BOOLEAN
      BY <1>2, Levels DEF PeerStart
    <2> QED
      BY <1>2, <2>1, <2>2 DEF PeerStart, UartTypeOK, pin
  <1> QED
    BY <1>1, <1>2

-----------------------------------------------------------------------------
(* The invariant of the exchange with a polite peer: where the frame on    *)
(* the line is, told by nbit and toMatch on the UART's side, by out or ear *)
(* on the peer's side.                                                     *)

\* The pin does not drive the line (one wire), or holds it at 1 (two wires).
Released == IF mode.onewire THEN ddr = 0 ELSE ddr = 1 /\ port = 1

\* What is left of the peer's frame of byte b.
Rest(b) == /\ Len(out) <= 2 * NB + 4
           /\ \A i \in 1..Len(out) : out[i] = Frame(b)[2 * NB + 4 - Len(out) + i]

\* A byte given to putbyte that is not on the line yet.
Putting == {"put", "put_slot", "put_off", "put_start"}
Pending == IF main.pc \in Putting THEN <<main.r24>> ELSE <<>>

\* Between two frames: the slot of the stop bit lasts until matchIF.
Slot ==
  /\ ~ matchIE /\ ~ stat.rxtx /\ stat.wbtx
  /\ toMatch <= 2 /\ (matchIF => toMatch = 0)
  /\ out \in {<<>>, <<1>>} /\ (toMatch <= 1 => out = <<>>)

Quiet ==
  /\ ear = None /\ app = "reading" /\ sent = <<>> /\ due = 0 /\ out = <<>>
  /\ main.pc \in {"app", "get"}
  /\ startIE /\ ~ matchIE /\ ~ stat.rxtx /\ ~ stat.rxc
  /\ Released

\* The peer's frame has just started.
Ringing(b) ==
  /\ startIE /\ startIF /\ ~ matchIE /\ ~ stat.rxtx /\ ~ stat.rxc
  /\ main.pc \in {"app", "get"}
  /\ out = Frame(b)

Arriving(b) ==
  /\ ~ startIE /\ matchIE /\ ~ stat.rxtx /\ ~ stat.rxc
  /\ main.pc \in {"app", "get"}
  /\ matchIF <=> toMatch = 0
  /\ Rest(b) /\ Len(out) = 2 * nbit + 1 + toMatch
  /\ \A i \in 1..(NB - nbit) : shift[nbit + i] = b[i]
  /\ nbit = 0 => data = b

Arrived(b) ==
  /\ startIE /\ Slot /\ data = b
  /\ \/ stat.rxc /\ main.pc \in {"app", "get", "get_clear"}
     \/ ~ stat.rxc /\ main.pc = "get_load"

Asked ==
  /\ ear = Listening /\ app = "reading" /\ due > 0
  /\ Released
  /\ \E b \in Byte : sent = <<b>> /\ (Ringing(b) \/ Arriving(b) \/ Arrived(b))

Sending(b) ==
  /\ ~ startIE /\ matchIE /\ stat.rxtx
  /\ main.pc \in {"app", "get", "put"}
  /\ (matchIF <=> toMatch = 0) /\ toMatch <= 2
  /\ toMatch = 2 * (NB - nbit) - 1 - 2 * Len(ear.bits) + ear.toSample
  /\ ddr = 1 /\ port = IF nbit = NB THEN 0 ELSE b[NB - nbit]
  /\ nbit = 0 => shift[1] = 1
  /\ \A i \in 1..nbit : shift[i] = b[NB - nbit + i]
  /\ mode.checktx /\ stat.wbtx => port = 1

Ending ==
  /\ startIE /\ Slot /\ toMatch = 2 /\ Released
  /\ main.pc \in {"app", "get", "put", "put_slot"}
  /\ Len(ear.bits) = NB /\ ear.toSample = 1

\* The peer waits for a byte of the reply.
Between ==
  /\ ear = Listening
  /\ Slot /\ Released
  /\ startIE <=> main.pc # "put_start"
  /\ main.pc \in {"put_off", "put_start"} => matchIF
  /\ sent = Pending /\ (sent # <<>> \/ due > 0)

\* A byte of the reply is on the line.
Answering ==
  /\ ear \in Sampling /\ out = <<>>
  /\ \E b \in Byte : /\ sent = <<b>> \o Pending
                     /\ \A i \in 1..Len(ear.bits) : ear.bits[i] = b[i]
                     /\ Sending(b) \/ Ending

Reply ==
  /\ app \in {"reading", "writing"} /\ (due > 0 <=> app = "writing")
  /\ Len(sent) + due <= MaxReply
  /\ ~ stat.rxc
  /\ main.pc \in {"app", "get"} \cup Putting /\ (main.pc = "get" => app = "reading")
  /\ Between \/ Answering

\* With any other peer nothing is promised.
Free == ear = None /\ app = "any" /\ sent = <<>> /\ due = 0

Phases  == IF mode.polite THEN Quiet \/ Asked \/ Reply ELSE Free
LinkInv == TypeOK /\ UartInv /\ Phases

\* The build never changes.
LEMMA ModeKept == Next => mode' = mode
  <1>1. Handlers => mode' = mode
    BY DEF Handlers, StartIgnored, StartBit, RxData, RxStop, TxData, TxLost, TxStop
  <1>2. GetWait \/ GetClear \/ GetLoad \/ PutWait \/ PutSlot \/ PutOff \/ PutStart =>
          mode' = mode
    BY DEF GetWait, GetClear, GetLoad, PutWait, PutSlot, PutOff, PutStart
  <1>3. CallGet \/ Clear \/ (\E b \in Byte : CallPut(b)) => mode' = mode
    BY DEF CallGet, Clear, CallPut
  <1>4. Elapse \/ (\E b \in Byte : PeerStart(b)) => mode' = mode
    BY DEF Elapse, PeerStart
  <1> QED
    BY <1>1, <1>2, <1>3, <1>4, Zenon
    DEF Next, Read, AnyCall, Device, Wait, Return, Start, Interrupt, Tick, Write, Disturb, Ask

\* The line when the UART leaves it alone, and when it sends.
LEMMA Line ==
  ASSUME UartTypeOK
  PROVE  /\ Released => Rxd = PeerLevel(out)
         /\ Released /\ out \in {<<>>, <<1>>} => Rxd = 1 /\ Txd = 1
         /\ ddr = 1 /\ out = <<>> => Txd = port
  <1>1. port \in Bit /\ ddr \in Bit /\ PeerLevel(out) \in Bit
    BY Levels DEF UartTypeOK
  <1>2. ASSUME Released
        PROVE  Driven(port, ddr) = 1 /\ Rxd = PeerLevel(out)
    BY <1>1, <1>2 DEF Released, Driven, Rxd, RxdLevel, Bit
  <1>3. out \in {<<>>, <<1>>} => PeerLevel(out) = 1
    BY DEF PeerLevel
  <1>4. ASSUME ddr = 1, out = <<>>
        PROVE  Txd = port
    BY <1>1, <1>3, <1>4 DEF Txd, Rxd, RxdLevel, Driven, Bit
  <1> QED
    BY <1>2, <1>3, <1>4 DEF Txd

LEMMA SameByte ==
  ASSUME NEW s \in Byte, NEW t \in Byte, \A i \in 1..NB : s[i] = t[i]
  PROVE  s = t
  <1>1. s \in Seq(Bit) /\ Len(s) = NB /\ t \in Seq(Bit) /\ Len(t) = NB
    BY FrameAssumption, SeqDef, LenProperties DEF Byte
  <1> QED
    BY <1>1, SeqEqual, Zenon

LEMMA OneBit ==
  ASSUME NEW s \in Seq(Bit), Len(s) = 1, s[1] = 1
  PROVE  s = <<1>>
  <1>1. <<1>> \in Seq(Bit) /\ Len(<<1>>) = 1 /\ <<1>>[1] = 1
    BY DEF Bit
  <1>2. \A i \in 1..Len(s) : s[i] = <<1>>[i]
    BY <1>1
  <1> HIDE <1>2
  <1> QED
    BY <1>1, <1>2, SeqEqual

\* Which handler runs.
LEMMA Which ==
  /\ StartIgnored => StartIRQ /\ Rxd = 1
  /\ StartBit => StartIRQ /\ Rxd = 0
  /\ RxData => MatchIRQ /\ ~ stat.rxtx /\ nbit > 0
  /\ RxStop => MatchIRQ /\ ~ stat.rxtx /\ nbit <= 0
  /\ TxData => MatchIRQ /\ stat.rxtx /\ nbit > 0
  /\ TxLost => MatchIRQ /\ stat.rxtx /\ nbit > 0 /\ BusLost
  /\ TxStop => MatchIRQ /\ stat.rxtx /\ nbit <= 0
  <1>1. StartIgnored => StartIRQ /\ Rxd = 1
    BY Zenon DEF StartIgnored
  <1>2. StartBit => StartIRQ /\ Rxd = 0
    BY Zenon DEF StartBit
  <1>3. RxData => MatchIRQ /\ ~ stat.rxtx /\ nbit > 0
    BY Zenon DEF RxData, Receiving, NextBit
  <1>4. RxStop => MatchIRQ /\ ~ stat.rxtx /\ nbit <= 0
    BY Zenon DEF RxStop, Receiving, NextBit
  <1>5. TxData => MatchIRQ /\ stat.rxtx /\ nbit > 0
    BY Zenon DEF TxData, Transmitting, NextBit
  <1>6. TxLost => MatchIRQ /\ stat.rxtx /\ nbit > 0 /\ BusLost
    BY Zenon DEF TxLost, Transmitting, NextBit
  <1>7. TxStop => MatchIRQ /\ stat.rxtx /\ nbit <= 0
    BY Zenon DEF TxStop, Transmitting, NextBit
  <1> QED
    BY <1>1, <1>2, <1>3, <1>4, <1>5, <1>6, <1>7, Zenon

\* What a released line gives: only a low level makes the UART do something.
LEMMA Ignored ==
  ASSUME Handlers, ~ matchIE, Rxd = 1
  PROVE  /\ StartIRQ /\ startIF' = FALSE
         /\ mode' = mode /\ stat' = stat /\ data' = data /\ shift' = shift
         /\ nbit' = nbit /\ startIE' = startIE /\ matchIE' = matchIE
         /\ matchIF' = matchIF /\ toMatch' = toMatch /\ port' = port
         /\ ddr' = ddr /\ main' = main /\ out' = out
  <1>1. StartIgnored
    BY Which DEF Handlers, MatchIRQ
  <1> QED
    BY <1>1 DEF StartIgnored

-----------------------------------------------------------------------------
(* The handlers preserve the phases.                                       *)

\* The falling edge of the peer's start bit.
LEMMA StartBitSeen ==
  ASSUME UartInv, mode.polite, Handlers, Released,
         NEW b \in Byte, Ringing(b)
  PROVE  Arriving(b)' /\ Released'
  <1>1. Rxd = 0
    <2>1. Len(Frame(b)) > 0 /\ Frame(b)[1] = 0
      BY FrameBits, FrameAssumption
    <2>2. Frame(b) # <<>>
      BY <2>1
    <2> QED
      BY <2>1, <2>2, Line DEF Ringing, PeerLevel, UartInv
  <1>2. StartBit
    BY <1>1, Which DEF Handlers, MatchIRQ, Ringing
  <1>3. /\ startIE' = FALSE /\ toMatch' = 3 /\ nbit' = NB
        /\ matchIF' = FALSE /\ matchIE' = TRUE /\ stat' = stat /\ data' = data
        /\ shift' = shift /\ main' = main /\ out' = Frame(b)
        /\ port' = port /\ ddr' = ddr /\ mode' = mode
    BY <1>2 DEF StartBit, Ringing, dt0
  <1>4. Rest(b)'
    BY <1>3, FrameBits, FrameAssumption DEF Rest
  <1>5. Len(out') = 2 * nbit' + 1 + toMatch'
    BY <1>3, FrameBits, FrameAssumption
  <1>6. (nbit' = 0 => data' = b) /\ \A i \in 1..(NB - nbit') : shift'[nbit' + i] = b[i]
    BY <1>3, FrameAssumption
  <1>7. (matchIF <=> toMatch = 0)'
    BY <1>3
  <1> QED
    BY <1>3, <1>4, <1>5, <1>6, <1>7 DEF Arriving, Ringing, Released

\* A bit of the peer's frame.
LEMMA BitReceived ==
  ASSUME UartInv, mode.polite, Handlers, Released,
         NEW b \in Byte, Arriving(b)
  PROVE  (Arriving(b)' \/ Arrived(b)') /\ Released'
  <1>1. RxData \/ RxStop
    BY Which DEF Handlers, StartIRQ, Arriving
  <1>2. matchIF /\ toMatch = 0 /\ nbit \in 0..NB /\ Len(out) = 2 * nbit + 1
    <2>1. MatchIRQ
      BY <1>1, Which
    <2>2. matchIF /\ toMatch = 0 /\ nbit \in -1..NB /\ nbit >= 0
      BY <2>1 DEF MatchIRQ, Arriving, UartInv, UartTypeOK
    <2> QED
      BY <2>2, FrameAssumption DEF Arriving
  <1>3. Rxd = out[1] /\ out[1] = Frame(b)[2 * (NB - nbit) + 4]
    <2>1. out # <<>> /\ 1 \in 1..Len(out) /\ 2 * NB + 4 - Len(out) + 1 = 2 * (NB - nbit) + 4
      BY <1>2, FrameAssumption
    <2>2. Rxd = out[1]
      BY <2>1, Line DEF PeerLevel, UartInv
    <2>3. out[1] = Frame(b)[2 * NB + 4 - Len(out) + 1]
      BY <2>1 DEF Arriving, Rest
    <2> QED
      BY <2>1, <2>2, <2>3
  <1>4. CASE RxData
    <2>1. nbit > 0 /\ nbit' = nbit - 1 /\ toMatch' = 2 /\ matchIF' = FALSE
      BY <1>4 DEF RxData, Receiving, NextBit, dtn
    <2>2. /\ shift' = Shifted(shift, Rxd)
          /\ data' = IF nbit = 1 THEN Shifted(shift, Rxd) ELSE data
          /\ startIE' = startIE /\ matchIE' = matchIE /\ stat' = stat
          /\ main' = main /\ out' = out /\ port' = port /\ ddr' = ddr /\ mode' = mode
      BY <1>4 DEF RxData, Receiving
    <2>3. Rxd = b[NB - nbit + 1]
      <3>1. NB - nbit + 1 \in 1..NB /\ 2 * (NB - nbit + 1) + 2 = 2 * (NB - nbit) + 4
        BY <1>2, <2>1, FrameAssumption
      <3> QED
        BY <1>3, <3>1, FrameBits
    <2>4. /\ Shifted(shift, Rxd) \in Byte
          /\ \A i \in 1..(NB - 1) : Shifted(shift, Rxd)[i] = shift[i + 1]
          /\ Shifted(shift, Rxd)[NB] = Rxd
      BY ShiftedByte, Levels, Zenon DEF UartInv, UartTypeOK
    <2>5. \A i \in 1..(NB - nbit') : shift'[nbit' + i] = b[i]
      <3> SUFFICES ASSUME NEW i \in 1..(NB - nbit')
                   PROVE  shift'[nbit' + i] = b[i]
        OBVIOUS
      <3>1. CASE i = NB - nbit + 1
        <4>1. nbit' + i = NB
          BY <3>1, <1>2, <2>1, FrameAssumption
        <4> QED
          BY <3>1, <4>1, <2>2, <2>3, <2>4
      <3>2. CASE i # NB - nbit + 1
        <4>1. /\ nbit' + i \in 1..(NB - 1) /\ nbit' + i + 1 = nbit + i
              /\ i \in 1..(NB - nbit)
          BY <3>2, <1>2, <2>1, FrameAssumption
        <4>2. shift'[nbit' + i] = shift[nbit + i]
          BY <4>1, <2>2, <2>4
        <4> QED
          BY <4>1, <4>2 DEF Arriving
      <3> QED
        BY <3>1, <3>2
    <2>6. nbit' = 0 => data' = b
      <3> SUFFICES ASSUME nbit' = 0
                   PROVE  data' = b
        OBVIOUS
      <3>1. data' = shift' /\ data' \in Byte
        BY <1>2, <2>1, <2>2, <2>4
      <3>2. \A i \in 1..NB : data'[i] = b[i]
        BY <3>1, <2>5, FrameAssumption
      <3> QED
        BY <3>1, <3>2, SameByte
    <2>7. Rest(b)' /\ Len(out') = 2 * nbit' + 1 + toMatch'
      BY <1>2, <2>1, <2>2 DEF Arriving, Rest
    <2>8. (matchIF <=> toMatch = 0)'
      BY <2>1
    <2> QED
      BY <2>2, <2>5, <2>6, <2>7, <2>8 DEF Arriving, Released
  <1>5. CASE RxStop
    <2>1. nbit = 0 /\ toMatch' = 2 /\ matchIF' = FALSE
      BY <1>2, <1>5 DEF RxStop, Receiving, NextBit, dtn
    <2>2. /\ startIE' = TRUE /\ matchIE' = FALSE /\ data' = data
          /\ main' = main /\ out' = out /\ port' = port /\ ddr' = ddr /\ mode' = mode
          /\ stat' = [stat EXCEPT !.stop = (Rxd = 1), !.wbtx = TRUE, !.rxc = TRUE]
      BY <1>5 DEF RxStop
    <2>3. stat'.rxc = TRUE /\ stat'.wbtx = TRUE /\ stat'.rxtx = stat.rxtx
      BY <2>2 DEF UartInv, UartTypeOK, Status
    <2>4. out = <<1>>
      <3>1. Len(out) = 1 /\ out[1] = Frame(b)[2 * NB + 4]
        BY <1>2, <1>3, <2>1, FrameAssumption
      <3>2. out \in Seq(Bit)
        BY DEF UartInv, UartTypeOK
      <3>3. out[1] = 1
        BY <3>1, FrameBits, Zenon
      <3> QED
        BY <3>1, <3>2, <3>3, OneBit, Zenon
    <2>5. Slot'
      BY <2>1, <2>2, <2>3, <2>4 DEF Slot, Arriving
    <2> QED
      BY <2>1, <2>2, <2>3, <2>5 DEF Arrived, Arriving, Released
  <1> QED
    BY <1>1, <1>4, <1>5

\* A bit of the byte being sent, or the end of its frame.
LEMMA BitSent ==
  ASSUME UartInv, mode.polite, Handlers, ear \in Sampling, ear' = ear, out = <<>>,
         NEW b \in Byte, Sending(b)
  PROVE  /\ Sending(b)' \/ Ending'
         /\ stat'.rxc = stat.rxc /\ main' = main /\ out' = out
  <1>1. ~ BusLost
    BY Line DEF Sending, BusLost, UartInv
  <1>2. MatchIRQ /\ ~ StartIRQ /\ stat.rxtx
    <2>1. ~ StartIRQ /\ stat.rxtx
      BY DEF Sending, StartIRQ
    <2> QED
      BY <2>1, Which, Zenon DEF Handlers
  <1>3. TxData \/ TxStop
    BY <1>1, <1>2, Which, Zenon DEF Handlers
  <1>4. matchIF /\ toMatch = 0 /\ nbit \in 0..NB /\ NB \in Nat
    BY <1>2, FrameAssumption DEF MatchIRQ, Sending, UartInv, UartTypeOK
  <1>5. Len(ear.bits) \in 0..NB /\ ear.toSample \in 1..3
    BY FrameAssumption DEF Sampling, dt0
  <1>6. 2 * Len(ear.bits) = 2 * (NB - nbit) - 1 + ear.toSample
    <2> DEFINE L == Len(ear.bits)
               T == ear.toSample
    <2>1. toMatch = 2 * (NB - nbit) - 1 - 2 * L + T
      BY DEF Sending
    <2>2. L \in Nat /\ T \in Nat /\ nbit \in Nat /\ toMatch = 0 /\ NB \in Nat
      BY <1>4, <1>5
    <2> HIDE DEF L, T
    <2>3. 2 * L = 2 * (NB - nbit) - 1 + T
      BY <2>1, <2>2
    <2> QED
      BY <2>3 DEF L, T
  <1>7. shift \in Byte
    BY DEF UartInv, UartTypeOK
  <1>8. /\ Shifted(shift, 0) \in Byte /\ Head(shift) = shift[1]
        /\ \A i \in 1..(NB - 1) : Shifted(shift, 0)[i] = shift[i + 1]
    BY <1>7, ShiftedByte DEF Bit
  <1>9. CASE TxData
    <2>1. nbit > 0 /\ nbit' = nbit - 1 /\ toMatch' = 2 /\ matchIF' = FALSE
      BY <1>9 DEF TxData, Transmitting, NextBit, dtn
    <2>2. /\ port' = shift[1]
          /\ shift' = IF nbit = 1 THEN One ELSE Shifted(shift, 0)
          /\ stat' = IF mode.checktx
                     THEN [stat EXCEPT !.wbtx = (shift[1] = 1)] ELSE stat
          /\ startIE' = startIE /\ matchIE' = matchIE
          /\ main' = main /\ out' = out /\ ddr' = ddr /\ mode' = mode
      BY <1>8, <1>9 DEF TxData
    <2>3. /\ stat'.rxtx = stat.rxtx
          /\ (mode.checktx)' /\ stat'.wbtx => port' = 1
      BY <2>2 DEF UartInv, UartTypeOK, Status
    <2>4. (port = IF nbit = NB THEN 0 ELSE b[NB - nbit])'
      <3>1. 1 \in 1..nbit /\ NB - nbit' = NB - nbit + 1 /\ nbit' # NB
        BY <1>4, <2>1
      <3>2. shift[1] = b[NB - nbit + 1]
        BY <3>1 DEF Sending
      <3> QED
        BY <3>1, <3>2, <2>2
    <2>5. nbit' = 0 => shift'[1] = 1
      BY <1>4, <2>1, <2>2 DEF One
    <2>6. \A i \in 1..nbit' : shift'[i] = b[NB - nbit' + i]
      <3> SUFFICES ASSUME NEW i \in 1..nbit'
                   PROVE  shift'[i] = b[NB - nbit' + i]
        OBVIOUS
      <3>1. /\ nbit # 1 /\ i \in 1..(NB - 1) /\ i + 1 \in 1..nbit
            /\ NB - nbit' + i = NB - nbit + (i + 1)
        BY <1>4, <2>1
      <3>2. shift'[i] = shift[i + 1]
        BY <3>1, <2>2, <1>8
      <3>3. shift[i + 1] = b[NB - nbit + (i + 1)]
        BY <3>1 DEF Sending
      <3> QED
        BY <3>1, <3>2, <3>3
    <2>7. toMatch' = 2 * (NB - nbit') - 1 - 2 * Len(ear'.bits) + ear'.toSample
      <3> DEFINE L == Len(ear.bits)
                 T == ear.toSample
      <3>1. L \in Nat /\ T \in Nat /\ nbit \in Nat /\ NB \in Nat
        BY <1>4, <1>5
      <3>2. 2 * L = 2 * (NB - nbit) - 1 + T
        BY <1>6
      <3> HIDE DEF L, T
      <3>3. toMatch' = 2 * (NB - nbit') - 1 - 2 * L + T
        BY <3>1, <3>2, <2>1
      <3> QED
        BY <3>3 DEF L, T
    <2>8. (matchIF <=> toMatch = 0)' /\ toMatch' <= 2
      BY <2>1
    <2>9. Sending(b)'
      BY <2>2, <2>3, <2>4, <2>5, <2>6, <2>7, <2>8 DEF Sending
    <2>10. stat'.rxc = stat.rxc
      BY <2>2 DEF UartInv, UartTypeOK, Status
    <2> QED
      BY <2>2, <2>9, <2>10
  <1>10. CASE TxStop
    <2>1. nbit = 0 /\ toMatch' = 2 /\ matchIF' = FALSE
      <3>1. nbit <= 0
        BY <1>10, Which
      <3>2. toMatch' = 2 /\ matchIF' = FALSE
        BY <1>10 DEF TxStop, Transmitting, NextBit, dtn
      <3> QED
        BY <3>1, <3>2, <1>4
    <2>2. /\ startIE' = TRUE /\ matchIE' = FALSE /\ main' = main /\ out' = out
          /\ mode' = mode
          /\ stat' = [stat EXCEPT !.txc = TRUE, !.wbtx = TRUE, !.rxtx = FALSE]
      BY <1>1, <1>10 DEF TxStop
    <2>3. stat'.wbtx = TRUE /\ stat'.rxtx = FALSE /\ stat'.rxc = stat.rxc
      BY <2>2 DEF UartInv, UartTypeOK, Status
    <2>4. Released'
      <3>1. IF mode.onewire THEN ddr' = 0 /\ port' = 0
                            ELSE ddr' = ddr /\ port' = Head(shift)
        BY <1>10 DEF TxStop
      <3> QED
        BY <3>1, <1>8, <2>1, <2>2 DEF Released, Sending
    <2>5. Slot' /\ toMatch' = 2
      BY <2>1, <2>2, <2>3 DEF Slot
    <2>6. Len(ear'.bits) = NB /\ ear'.toSample = 1
      BY <1>4, <1>5, <1>6, <2>1
    <2>7. startIE' /\ main'.pc \in {"app", "get", "put", "put_slot"}
      BY <2>2 DEF Sending
    <2>8. Ending'
      BY <2>4, <2>5, <2>6, <2>7 DEF Ending
    <2> QED
      BY <2>2, <2>3, <2>8
  <1> QED
    BY <1>3, <1>9, <1>10

\* Nothing but a flag changes: every phase stays what it was.
LEMMA InterruptPhases ==
  ASSUME LinkInv, mode.polite, Interrupt
  PROVE  Phases'
  <1>1. /\ ear' = ear /\ app' = app /\ sent' = sent /\ due' = due /\ got' = got
        /\ heard' = heard /\ Handlers
    BY DEF Interrupt, exchange
  <1>2. UartInv /\ UartTypeOK /\ mode' = mode
    BY ModeKept, Zenon DEF LinkInv, UartInv, Next
  <1>3. ASSUME Quiet
        PROVE  Quiet'
    <2>1. ~ matchIE /\ Rxd = 1
      BY <1>2, <1>3, Line DEF Quiet
    <2>2. Quiet'
      BY <1>1, <1>2, <1>3, <2>1, Ignored DEF Quiet, Released
    <2> QED
      BY <2>2
  <1>4. ASSUME Asked
        PROVE  Asked'
    <2>1. PICK b \in Byte : sent = <<b>> /\ (Ringing(b) \/ Arriving(b) \/ Arrived(b))
      BY <1>4 DEF Asked
    <2>2. Released
      BY <1>4 DEF Asked
    <2>3. ASSUME Arrived(b)
          PROVE  Arrived(b)' /\ Released'
      <3>1. ~ matchIE /\ Rxd = 1
        BY <1>2, <2>2, <2>3, Line DEF Arrived, Slot
      <3> QED
        BY <1>1, <1>2, <2>2, <2>3, <3>1, Ignored DEF Arrived, Slot, Released
    <2>4. Released' /\ (Ringing(b)' \/ Arriving(b)' \/ Arrived(b)')
      BY <1>1, <1>2, <2>1, <2>2, <2>3, StartBitSeen, BitReceived
    <2> QED
      BY <1>1, <1>4, <2>1, <2>4 DEF Asked
  <1>5. ASSUME Reply
        PROVE  Reply'
    <2>1. ASSUME Between
          PROVE  Between' /\ stat' = stat /\ main' = main
      <3>1. ~ matchIE /\ Rxd = 1
        BY <1>2, <2>1, Line DEF Between, Slot
      <3>2. Between'
        BY <1>1, <1>2, <2>1, <3>1, Ignored DEF Between, Slot, Released, Pending
      <3> QED
        BY <1>1, <3>1, <3>2, Ignored
    <2>2. ASSUME Answering
          PROVE  Answering' /\ stat'.rxc = stat.rxc /\ main' = main
      <3>1. PICK b \in Byte : /\ sent = <<b>> \o Pending
                              /\ \A i \in 1..Len(ear.bits) : ear.bits[i] = b[i]
                              /\ Sending(b) \/ Ending
        BY <2>2 DEF Answering
      <3>2. ASSUME Ending
            PROVE  Ending' /\ stat' = stat /\ main' = main /\ out' = out
        <4>1. ~ matchIE /\ Rxd = 1
          BY <1>2, <2>2, <3>2, Line DEF Ending, Slot, Answering
        <4>2. Slot' /\ Released' /\ main' = main /\ stat' = stat /\ out' = out
          BY <1>1, <1>2, <3>2, <4>1, Ignored DEF Ending, Slot, Released
        <4>3. startIE' = startIE /\ toMatch' = toMatch
          BY <1>1, <4>1, Ignored
        <4> QED
          BY <1>1, <3>2, <4>2, <4>3 DEF Ending
      <3>3. /\ Sending(b)' \/ Ending'
            /\ stat'.rxc = stat.rxc /\ main' = main /\ out' = out
        BY <1>1, <1>2, <2>2, <3>1, <3>2, BitSent, Zenon DEF Answering
      <3>4. Pending' = Pending
        BY <3>3 DEF Pending
      <3> QED
        BY <1>1, <2>2, <3>1, <3>3, <3>4 DEF Answering, Sampling
    <2>3. stat'.rxc = stat.rxc /\ main' = main /\ (Between' \/ Answering')
      BY <1>5, <2>1, <2>2 DEF Reply
    <2> QED
      BY <1>1, <1>5, <2>3 DEF Reply
  <1> QED
    BY <1>2, <1>3, <1>4, <1>5 DEF LinkInv, Phases

-----------------------------------------------------------------------------
(* Time preserves the phases.                                              *)

Exchange ==
  /\ ear \in {None, Listening} \cup Sampling
  /\ app \in {"reading", "writing", "any"} /\ due \in 0..MaxReply
  /\ sent \in Seq(Byte) /\ Len(sent) <= MaxReply
  /\ {got, heard} \subseteq Byte \cup {None}

\* What half a bit changes.
LEMMA Elapsed ==
  ASSUME UartTypeOK, Elapse
  PROVE  /\ (matchIE => ~ matchIF) /\ (startIE => ~ startIF)
         /\ toMatch' = IF toMatch = 0 THEN 0 ELSE toMatch - 1
         /\ matchIF' <=> (matchIF \/ toMatch = 1)
         /\ out' = IF out = <<>> THEN <<>> ELSE Tail(out)
         /\ mode' = mode /\ stat' = stat /\ data' = data /\ shift' = shift
         /\ nbit' = nbit /\ startIE' = startIE /\ matchIE' = matchIE
         /\ port' = port /\ ddr' = ddr /\ main' = main
         /\ toMatch \in 0..3
  <1>1. matchIF' <=> (matchIF \/ toMatch = 1)
    BY Zenon DEF Elapse
  <1> QED
    BY <1>1 DEF Elapse, Served, StartIRQ, MatchIRQ, pin, UartTypeOK, dt0

LEMMA SlotTick ==
  ASSUME UartTypeOK, Elapse, Slot
  PROVE  Slot' /\ out' = <<>>
  <1>1. out' = <<>>
    <2>1. Tail(<<1>>) = <<>>
      OBVIOUS
    <2> QED
      BY <2>1, Elapsed, Zenon DEF Slot
  <1>2. toMatch' <= 2 /\ (matchIF' => toMatch' = 0)
    BY Elapsed DEF Slot
  <1> QED
    BY <1>1, <1>2, Elapsed DEF Slot

LEMMA ArrivingTick ==
  ASSUME UartInv, Elapse, NEW b \in Byte, Arriving(b)
  PROVE  Arriving(b)'
  <1>1. /\ out \in Seq(Bit) /\ nbit \in 0..NB /\ NB \in Nat /\ UartTypeOK
    BY FrameAssumption DEF UartInv, UartTypeOK, Arriving
  <1>2. toMatch \in 1..3 /\ toMatch' = toMatch - 1 /\ (matchIF' <=> toMatch' = 0)
    BY <1>1, Elapsed DEF Arriving
  <1>3. Len(out) \in Nat \ {0} /\ out # <<>>
    BY <1>1, <1>2 DEF Arriving
  <1>4. out' = Tail(out)
    BY <1>1, <1>3, Elapsed
  <1>5. Len(out') = Len(out) - 1 /\ \A i \in 1..Len(out') : out'[i] = out[i + 1]
    BY <1>1, <1>3, <1>4, HeadTailProperties
  <1>6. Rest(b)'
    <2>1. Len(out') <= 2 * NB + 4
      BY <1>1, <1>3, <1>5 DEF Arriving, Rest
    <2> SUFFICES ASSUME NEW i \in 1..Len(out')
                 PROVE  out'[i] = Frame(b)[2 * NB + 4 - Len(out') + i]
      BY <2>1 DEF Rest
    <2>2. i + 1 \in 1..Len(out)
          /\ 2 * NB + 4 - Len(out) + (i + 1) = 2 * NB + 4 - Len(out') + i
      BY <1>1, <1>3, <1>5
    <2>3. out[i + 1] = Frame(b)[2 * NB + 4 - Len(out) + (i + 1)]
      BY <2>2 DEF Arriving, Rest
    <2> QED
      BY <1>5, <2>2, <2>3
  <1>7. Len(out') = 2 * nbit' + 1 + toMatch'
    BY <1>1, <1>2, <1>3, <1>5, Elapsed DEF Arriving
  <1> QED
    BY <1>1, <1>2, <1>6, <1>7, Elapsed DEF Arriving

\* The peer samples the bit that the UART holds on the line.
LEMMA SendingTick ==
  ASSUME UartInv, Tick, ear \in Sampling, out = <<>>,
         NEW b \in Byte, Sending(b),
         \A i \in 1..Len(ear.bits) : ear.bits[i] = b[i]
  PROVE  /\ Sending(b)' /\ ear' \in Sampling /\ out' = <<>>
         /\ sent' = sent /\ heard' = heard
         /\ \A i \in 1..Len(ear'.bits) : ear'.bits[i] = b[i]
  <1> DEFINE L == Len(ear.bits)
             T == ear.toSample
  <1>1. UartTypeOK /\ Elapse /\ mode' = mode /\ NB \in Nat \ {0}
    BY Elapsed, FrameAssumption DEF Tick, UartInv
  <1>2. L \in 0..NB /\ T \in 1..3
    BY FrameAssumption DEF Sampling, dt0
  <1>3. ear.bits \in Seq(Bit)
    <2>1. PICK n \in 0..NB : ear.bits \in [1..n -> Bit]
      BY DEF Sampling
    <2> QED
      BY <2>1, <1>1, SeqDef
  <1>4. nbit \in 0..NB /\ toMatch \in 1..2 /\ toMatch' = toMatch - 1
        /\ (matchIF' <=> toMatch' = 0) /\ nbit' = nbit /\ out' = <<>>
    <2>1. nbit \in -1..NB /\ (matchIE => nbit >= 0) /\ toMatch \in 0..3
      BY <1>1, Elapsed DEF UartInv, UartTypeOK
    <2>2. matchIE /\ (matchIF <=> toMatch = 0) /\ toMatch <= 2
      BY DEF Sending
    <2> QED
      BY <1>1, <2>1, <2>2, Elapsed
  <1>5. toMatch = 2 * (NB - nbit) - 1 - 2 * L + T
    BY DEF Sending
  <1>6. Txd = port
    BY <1>1, Line DEF Sending
  <1>7. ear \notin {None, Listening}
    BY EarAssumption
  <1>8. /\ startIE' = startIE /\ matchIE' = matchIE /\ stat' = stat /\ main' = main
        /\ ddr' = ddr /\ port' = port /\ shift' = shift /\ mode' = mode
    BY <1>1, Elapsed
  <1>9. ASSUME ear' \in Sampling,
               toMatch' = 2 * (NB - nbit) - 1 - 2 * Len(ear'.bits) + ear'.toSample
        PROVE  Sending(b)'
    <2>1. toMatch' <= 2
      BY <1>4
    <2> QED
      BY <1>4, <1>8, <1>9, <2>1 DEF Sending
  <1>10. CASE T > 1
    <2>1. ear' = [ear EXCEPT !.toSample = T - 1] /\ sent' = sent /\ heard' = heard
      BY <1>7, <1>10, Zenon DEF Tick
    <2>2. ear'.bits = ear.bits /\ ear'.toSample = T - 1 /\ ear' \in Sampling
      BY <1>2, <1>10, <2>1 DEF Sampling, dt0
    <2> HIDE DEF L, T
    <2>3. toMatch' = 2 * (NB - nbit) - 1 - 2 * L + (T - 1)
      BY <1>1, <1>2, <1>4, <1>5
    <2> USE DEF L
    <2> QED
      BY <1>4, <1>9, <2>1, <2>2, <2>3
  <1>11. CASE T = 1
    <2>1. nbit = NB - (L + 1) /\ L < NB /\ toMatch = 2
      <3> HIDE DEF L, T
      <3> QED
        BY <1>1, <1>2, <1>4, <1>5, <1>11
    <2>2. ear' = [bits |-> Append(ear.bits, port), toSample |-> 2]
          /\ sent' = sent /\ heard' = heard
      BY <1>6, <1>7, <1>11, <2>1 DEF Tick, dtn
    <2>3. port = b[L + 1] /\ port \in Bit
      <3>1. nbit # NB /\ NB - nbit = L + 1
        <4> HIDE DEF L
        <4> QED
          BY <1>1, <1>2, <2>1
      <3> QED
        BY <3>1 DEF Sending, UartInv, UartTypeOK
    <2>4. /\ ear'.bits \in Seq(Bit) /\ Len(ear'.bits) = L + 1
          /\ ear'.bits[L + 1] = port
          /\ \A i \in 1..L : ear'.bits[i] = ear.bits[i]
      BY <1>3, <2>2, <2>3, AppendProperties
    <2>5. ear' \in Sampling
      <3>1. ear'.bits \in [1..(L + 1) -> Bit] /\ L + 1 \in 0..NB
        BY <1>1, <1>2, <2>1, <2>4, LenProperties
      <3> HIDE DEF L
      <3> QED
        BY <2>2, <3>1 DEF Sampling, dt0
    <2>6. ear'.toSample = 2
      BY <2>2
    <2>7. \A i \in 1..Len(ear'.bits) : ear'.bits[i] = b[i]
      <3> SUFFICES ASSUME NEW i \in 1..(L + 1)
                   PROVE  ear'.bits[i] = b[i]
        BY <2>4
      <3>1. CASE i = L + 1
        BY <3>1, <2>3, <2>4
      <3>2. CASE i # L + 1
        <4>1. i \in 1..L
          BY <3>2, <1>2
        <4> QED
          BY <4>1, <2>4
      <3> QED
        BY <3>1, <3>2
    <2> HIDE DEF L, T
    <2>8. toMatch' = 2 * (NB - nbit) - 1 - 2 * (L + 1) + 2
      BY <1>1, <1>2, <1>4, <2>1
    <2> QED
      BY <1>4, <1>9, <2>2, <2>4, <2>5, <2>6, <2>7, <2>8
  <1> QED
    BY <1>2, <1>10, <1>11

\* A byte in front of those that wait.
LEMMA Cons ==
  ASSUME NEW b \in Byte, NEW s \in Seq(Byte)
  PROVE  /\ <<b>> \o s \in Seq(Byte) /\ Len(<<b>> \o s) = Len(s) + 1
         /\ <<b>> \o s # <<>> /\ Head(<<b>> \o s) = b /\ Tail(<<b>> \o s) = s
  <1> DEFINE t == <<b>> \o s
  <1>1. <<b>> \in Seq(Byte) /\ Len(<<b>>) = 1 /\ <<b>>[1] = b
    OBVIOUS
  <1>2. /\ t \in Seq(Byte) /\ Len(t) = Len(s) + 1 /\ t[1] = b
        /\ \A i \in 1..Len(s) : t[i + 1] = s[i]
    BY <1>1, ConcatProperties, LenProperties
  <1> HIDE DEF t
  <1>3. t # <<>> /\ Head(t) = b
    BY <1>2, LenProperties
  <1>4. /\ Tail(t) \in Seq(Byte) /\ Len(Tail(t)) = Len(s)
        /\ \A i \in 1..Len(s) : Tail(t)[i] = t[i + 1]
    BY <1>2, <1>3, HeadTailProperties, LenProperties
  <1>5. \A i \in 1..Len(Tail(t)) : Tail(t)[i] = s[i]
    BY <1>2, <1>4
  <1>6. Tail(t) = s
    BY <1>4, <1>5, SeqEqual, Zenon
  <1> QED
    BY <1>2, <1>3, <1>6 DEF t

LEMMA PendingByte ==
  ASSUME UartTypeOK
  PROVE  /\ Pending \in Seq(Byte) /\ main.r24 \in Byte
         /\ Pending = <<>> <=> main.pc \notin Putting
  BY DEF UartTypeOK, Pending

\* The peer hears the stop bit.
LEMMA EndingTick ==
  ASSUME UartInv, Exchange, Tick, Reply, ear \in Sampling, out = <<>>,
         NEW b \in Byte, Ending, sent = <<b>> \o Pending,
         \A i \in 1..Len(ear.bits) : ear.bits[i] = b[i]
  PROVE  /\ heard' = b /\ sent' = Pending /\ sent # <<>> /\ Head(sent) = b
         /\ ear' = IF due = 0 /\ sent' = <<>> THEN None ELSE Listening
         /\ Len(sent') = Len(sent) - 1
         /\ IF due = 0 /\ sent' = <<>> THEN Quiet' ELSE Reply'
  <1>1. UartTypeOK /\ Elapse /\ NB \in Nat \ {0} /\ main.r24 \in Byte
        /\ app' = app /\ due' = due
    BY FrameAssumption DEF Tick, UartInv, UartTypeOK
  <1>2. Txd # 0
    BY <1>1, Line DEF Ending
  <1>3. ear \notin {None, Listening} /\ ear.toSample = 1 /\ Len(ear.bits) = NB
    BY EarAssumption DEF Ending
  <1>4. Hear
    BY <1>1, <1>3 DEF Tick
  <1>5. heard' = ear.bits
    BY <1>2, <1>4 DEF Hear
  <1>6. ear.bits = b
    <2>1. PICK n \in 0..NB : ear.bits \in [1..n -> Bit]
      BY DEF Sampling
    <2>2. ear.bits \in Byte
      BY <2>1, <1>1, <1>3, LenProperties DEF Byte
    <2> QED
      BY <2>2, <1>3, SameByte
  <1>7. /\ sent # <<>> /\ Head(sent) = b /\ Tail(sent) = Pending
        /\ Pending \in Seq(Byte) /\ Len(sent) = Len(Pending) + 1
        /\ (Pending = <<>> <=> main.pc \notin Putting)
    BY <1>1, Cons, PendingByte
  <1>8. sent' = Pending /\ ear' = IF due = 0 /\ sent' = <<>> THEN None ELSE Listening
    BY <1>2, <1>4, <1>7, Zenon DEF Hear
  <1>9. Len(sent') = Len(sent) - 1
    BY <1>7, <1>8
  <1>10. Slot' /\ out' = <<>> /\ Released'
    BY <1>1, SlotTick, Elapsed DEF Ending, Released
  <1>11. Pending' = Pending /\ main' = main /\ stat' = stat /\ startIE' = startIE
    BY <1>1, Elapsed DEF Pending
  <1>12. ASSUME due = 0, sent' = <<>>
         PROVE  Quiet'
    <2>1. app' = "reading" /\ due' = 0 /\ ear' = None
      BY <1>1, <1>8, <1>12 DEF Reply
    <2>2. main'.pc \in {"app", "get"}
      BY <1>7, <1>8, <1>11, <1>12 DEF Reply
    <2>3. ~ stat'.rxc /\ startIE'
      BY <1>11 DEF Reply, Ending
    <2> QED
      BY <1>10, <1>12, <2>1, <2>2, <2>3 DEF Quiet, Slot
  <1>13. ASSUME ~ (due = 0 /\ sent' = <<>>)
         PROVE  Reply'
    <2>1. ear' = Listening
      BY <1>8, <1>13
    <2>2. sent' # <<>> \/ due' > 0
      BY <1>1, <1>13 DEF Exchange
    <2>3. Between'
      BY <1>8, <1>10, <1>11, <2>1, <2>2 DEF Between, Ending
    <2>4. Len(sent') + due' <= MaxReply
      BY <1>1, <1>9, ReplyAssumption DEF Reply, Exchange
    <2> QED
      BY <1>1, <1>11, <2>3, <2>4 DEF Reply
  <1> QED
    BY <1>5, <1>6, <1>7, <1>8, <1>9, <1>12, <1>13

LEMMA TickPhases ==
  ASSUME LinkInv, Exchange, mode.polite, Tick
  PROVE  /\ Phases'
         /\ \/ UNCHANGED <<sent, heard>> /\ (ear' = ear \/ (ear \in Sampling /\ ear' \in Sampling))
            \/ /\ ear \in Sampling /\ sent # <<>> /\ Reply
               /\ heard' = Head(sent) /\ sent' = Tail(sent)
               /\ ear' = IF due = 0 /\ sent' = <<>> THEN None ELSE Listening
  <1>1. UartInv /\ UartTypeOK /\ Elapse /\ mode' = mode
        /\ app' = app /\ due' = due /\ got' = got
    BY Elapsed DEF Tick, LinkInv, UartInv
  <1>2. CASE ear \in {None, Listening}
    <2>1. ear' = ear /\ sent' = sent /\ heard' = heard
      BY <1>2 DEF Tick
    <2>2. ear \notin Sampling
      BY <1>2, EarAssumption
    <2>3. ASSUME Quiet
          PROVE  Quiet'
      <3>1. out' = <<>> /\ main' = main /\ stat' = stat /\ Released'
        BY <1>1, <2>3, Elapsed DEF Quiet, Released
      <3>2. startIE' = startIE /\ matchIE' = matchIE
        BY <1>1, Elapsed
      <3> QED
        BY <1>1, <2>1, <2>3, <3>1, <3>2 DEF Quiet
    <2>4. ASSUME Asked
          PROVE  Asked'
      <3>1. PICK b \in Byte : sent = <<b>> /\ (Ringing(b) \/ Arriving(b) \/ Arrived(b))
        BY <2>4 DEF Asked
      <3>2. ~ Ringing(b)
        BY <1>1, Elapsed DEF Ringing
      <3>3. Arriving(b) => Arriving(b)'
        BY <1>1, ArrivingTick
      <3>4. ASSUME Arrived(b)
            PROVE  Arrived(b)'
        <4>1. Slot'
          BY <1>1, <3>4, SlotTick DEF Arrived
        <4> QED
          BY <1>1, <3>4, <4>1, Elapsed DEF Arrived
      <3>5. Released'
        BY <1>1, <2>4, Elapsed DEF Asked, Released
      <3> QED
        BY <1>1, <2>1, <2>4, <3>1, <3>2, <3>3, <3>4, <3>5 DEF Asked
    <2>5. ASSUME Reply
          PROVE  Reply'
      <3>1. Between
        BY <2>2, <2>5 DEF Reply, Answering
      <3>2. Slot'
        BY <1>1, <3>1, SlotTick DEF Between
      <3>3. matchIF => matchIF'
        BY <1>1, Elapsed
      <3>4. Between'
        BY <1>1, <2>1, <3>1, <3>2, <3>3, Elapsed DEF Between, Released, Pending
      <3>5. stat' = stat /\ main' = main
        BY <1>1, Elapsed
      <3> QED
        BY <1>1, <2>1, <2>5, <3>4, <3>5 DEF Reply
    <2>6. Phases'
      BY <1>1, <2>3, <2>4, <2>5 DEF LinkInv, Phases
    <2> QED
      BY <2>1, <2>6
  <1>3. CASE ear \in Sampling
    <2>1. Reply /\ Answering
      BY <1>3, EarAssumption DEF LinkInv, Phases, Quiet, Asked, Reply, Between
    <2>2. PICK b \in Byte : /\ sent = <<b>> \o Pending
                            /\ \A i \in 1..Len(ear.bits) : ear.bits[i] = b[i]
                            /\ Sending(b) \/ Ending
      BY <2>1 DEF Answering
    <2>3. CASE Sending(b)
      <3>1. /\ Sending(b)' /\ ear' \in Sampling /\ out' = <<>>
            /\ sent' = sent /\ heard' = heard
            /\ \A i \in 1..Len(ear'.bits) : ear'.bits[i] = b[i]
        BY <1>1, <1>3, <2>1, <2>2, <2>3, SendingTick DEF Answering
      <3>2. Pending' = Pending /\ main' = main /\ stat' = stat
        BY <1>1, Elapsed DEF Pending
      <3>3. Answering'
        BY <2>2, <3>1, <3>2 DEF Answering
      <3>4. Reply'
        BY <1>1, <2>1, <3>1, <3>2, <3>3 DEF Reply
      <3> QED
        BY <1>1, <1>3, <3>1, <3>4 DEF Phases
    <2>4. CASE Ending
      <3>1. /\ heard' = b /\ sent' = Pending /\ sent # <<>> /\ Head(sent) = b
            /\ ear' = IF due = 0 /\ sent' = <<>> THEN None ELSE Listening
            /\ IF due = 0 /\ sent' = <<>> THEN Quiet' ELSE Reply'
        BY <1>1, <1>3, <2>1, <2>2, <2>4, EndingTick, Zenon DEF Answering
      <3>2. Tail(sent) = Pending
        BY <1>1, <2>2, Cons, PendingByte
      <3> QED
        BY <1>1, <1>3, <2>1, <3>1, <3>2 DEF Phases
    <2> QED
      BY <2>2, <2>3, <2>4
  <1> QED
    BY <1>2, <1>3 DEF Exchange

-----------------------------------------------------------------------------
(* The peer's request, and the functions of the UART, preserve the phases. *)

LEMMA AskPhases ==
  ASSUME LinkInv, Exchange, mode.polite,
         NEW b \in Byte, NEW n \in 1..MaxReply, Ask(b, n)
  PROVE  Phases' /\ Quiet /\ app' = app
  <1>1. UartTypeOK /\ UartInv
    BY DEF LinkInv, UartInv
  <1>2. Quiet
    <2>1. ear = None
      BY DEF Ask
    <2>2. ~ Asked /\ ~ Reply
      BY <2>1, EarAssumption DEF Asked, Reply, Between, Answering
    <2> QED
      BY <2>2 DEF LinkInv, Phases
  <1>3. /\ out' = Frame(b) /\ startIF' = Edge(port, ddr, Frame(b))
        /\ mode' = mode /\ stat' = stat /\ startIE' = startIE /\ matchIE' = matchIE
        /\ port' = port /\ ddr' = ddr /\ main' = main
        /\ ear' = Listening /\ sent' = <<b>> /\ due' = n /\ app' = app
    BY DEF Ask, PeerStart, pin
  <1>4. startIF'
    <2>1. Rxd = 1
      BY <1>1, <1>2, Line DEF Quiet
    <2>2. Len(Frame(b)) > 0 /\ Frame(b)[1] = 0
      BY FrameBits, FrameAssumption
    <2>3. PeerLevel(Frame(b)) = 0
      <3>1. Frame(b) # <<>>
        BY <2>2
      <3> QED
        BY <2>2, <3>1 DEF PeerLevel
    <2>4. RxdLevel(port, ddr, Frame(b)) = 0
      BY <1>2, <2>3 DEF Quiet, Released, RxdLevel, Driven
    <2>5. RxdLevel(port, ddr, Frame(b)) # Rxd
      BY <2>1, <2>4
    <2> QED
      BY <1>3, <2>5, Zenon DEF Edge
  <1>5. Ringing(b)'
    BY <1>2, <1>3, <1>4 DEF Quiet, Ringing
  <1>6. Asked'
    <2>1. due' > 0
      BY <1>3, ReplyAssumption
    <2> QED
      BY <1>2, <1>3, <1>5, <2>1 DEF Asked, Quiet, Released
  <1> QED
    BY <1>2, <1>3, <1>6 DEF Phases

\* Only the phases of the reply care for what main holds.
LEMMA ReadPhases ==
  ASSUME LinkInv, mode.polite, Read
  PROVE  Phases'
  <1>1. /\ ear' = ear /\ app' = app /\ sent' = sent /\ due' = due /\ app = "reading"
        /\ main.pc = "app" /\ main' = [main EXCEPT !.pc = "get"]
    BY DEF Read, CallGet, At, Goto, exchange
  <1>2. /\ mode' = mode /\ stat' = stat /\ data' = data /\ shift' = shift
        /\ nbit' = nbit /\ startIE' = startIE /\ startIF' = startIF
        /\ matchIE' = matchIE /\ matchIF' = matchIF /\ toMatch' = toMatch
        /\ port' = port /\ ddr' = ddr /\ out' = out
    BY DEF Read, CallGet, registers, pin
  <1>3. main'.pc = "get" /\ main'.r24 = main.r24
    BY <1>1 DEF LinkInv, UartInv, UartTypeOK
  <1>4. Released' = Released /\ Slot' = Slot /\ Pending = <<>> /\ Pending' = <<>>
    BY <1>1, <1>2, <1>3 DEF Released, Slot, Pending, Putting
  <1>5. Quiet => Quiet'
    BY <1>1, <1>2, <1>3, <1>4 DEF Quiet
  <1>6. ASSUME Asked
        PROVE  Asked'
    <2>1. PICK b \in Byte : sent = <<b>> /\ (Ringing(b) \/ Arriving(b) \/ Arrived(b))
      BY <1>6 DEF Asked
    <2>2. Ringing(b) => Ringing(b)'
      BY <1>2, <1>3 DEF Ringing
    <2>3. Arriving(b) => Arriving(b)'
      BY <1>2, <1>3 DEF Arriving, Rest
    <2>4. Arrived(b) => Arrived(b)'
      BY <1>1, <1>2, <1>3, <1>4 DEF Arrived
    <2> QED
      BY <1>1, <1>4, <1>6, <2>1, <2>2, <2>3, <2>4 DEF Asked
  <1>7. ASSUME Reply
        PROVE  Reply'
    <2>1. Between => Between'
      BY <1>1, <1>2, <1>3, <1>4 DEF Between
    <2>2. ASSUME Answering
          PROVE  Answering'
      <3>1. PICK b \in Byte : /\ sent = <<b>> \o Pending
                              /\ \A i \in 1..Len(ear.bits) : ear.bits[i] = b[i]
                              /\ Sending(b) \/ Ending
        BY <2>2 DEF Answering
      <3>2. Sending(b) => Sending(b)'
        BY <1>1, <1>2, <1>3 DEF Sending
      <3>3. Ending => Ending'
        BY <1>1, <1>2, <1>3, <1>4 DEF Ending
      <3> QED
        BY <1>1, <1>2, <1>4, <2>2, <3>1, <3>2, <3>3 DEF Answering, Sampling
    <2> QED
      BY <1>1, <1>2, <1>3, <1>7, <2>1, <2>2 DEF Reply
  <1> QED
    BY <1>2, <1>5, <1>6, <1>7 DEF LinkInv, Phases

LEMMA WritePhases ==
  ASSUME LinkInv, Exchange, mode.polite, NEW c \in Byte, Write(c)
  PROVE  Phases' /\ Reply
  <1>1. /\ ear' = ear /\ app = "writing" /\ sent' = Append(sent, c) /\ due' = due - 1
        /\ app' = IF due = 1 THEN "reading" ELSE "writing"
        /\ main.pc = "app" /\ main' = [pc |-> "put", r24 |-> c]
    BY DEF Write, CallPut, At
  <1>2. /\ mode' = mode /\ stat' = stat /\ data' = data /\ shift' = shift
        /\ nbit' = nbit /\ startIE' = startIE /\ startIF' = startIF
        /\ matchIE' = matchIE /\ matchIF' = matchIF /\ toMatch' = toMatch
        /\ port' = port /\ ddr' = ddr /\ out' = out
    BY DEF Write, CallPut, registers, pin
  <1>3. main'.pc = "put" /\ main'.r24 = c
    BY <1>1
  <1>4. Released' = Released /\ Slot' = Slot /\ Pending = <<>> /\ Pending' = <<c>>
    BY <1>1, <1>2, <1>3 DEF Released, Slot, Pending, Putting
  <1>5. Reply
    BY <1>1 DEF LinkInv, Phases, Quiet, Asked
  <1>6. due \in 1..MaxReply
    BY <1>1, <1>5, ReplyAssumption DEF Reply, Exchange
  <1>7. Len(sent') = Len(sent) + 1
    BY <1>1, AppendProperties DEF Exchange
  <1>8. ASSUME Between
        PROVE  Between'
    <2>1. sent = <<>> /\ sent' = <<c>> /\ sent' # <<>>
      BY <1>1, <1>4, <1>8 DEF Between
    <2> QED
      BY <1>1, <1>2, <1>3, <1>4, <1>8, <2>1 DEF Between
  <1>9. ASSUME Answering
        PROVE  Answering'
    <2>1. PICK b \in Byte : /\ sent = <<b>> \o Pending
                            /\ \A i \in 1..Len(ear.bits) : ear.bits[i] = b[i]
                            /\ Sending(b) \/ Ending
      BY <1>9 DEF Answering
    <2>2. sent' = <<b>> \o <<c>>
      BY <1>1, <1>4, <2>1
    <2>3. Sending(b) => Sending(b)'
      BY <1>1, <1>2, <1>3 DEF Sending
    <2>4. Ending => Ending'
      BY <1>1, <1>2, <1>3, <1>4 DEF Ending
    <2> QED
      BY <1>1, <1>2, <1>4, <1>9, <2>1, <2>2, <2>3, <2>4 DEF Answering, Sampling
  <1>10. Reply'
    <2>1. app' \in {"reading", "writing"} /\ (due' > 0 <=> app' = "writing")
      BY <1>1, <1>6, ReplyAssumption
    <2>2. Len(sent') + due' <= MaxReply
      <3>1. Len(sent) \in Nat /\ Len(sent) + due <= MaxReply
        BY <1>5, LenProperties DEF Reply, Exchange
      <3> QED
        BY <1>1, <1>6, <1>7, <3>1, ReplyAssumption
    <2> QED
      BY <1>2, <1>3, <1>5, <1>8, <1>9, <2>1, <2>2 DEF Reply, Putting
  <1> QED
    BY <1>2, <1>5, <1>10 DEF Phases

\* The loops of getbyte and putbyte, one instruction after the other.
LEMMA WaitPhases ==
  ASSUME LinkInv, mode.polite, Wait
  PROVE  Phases'
  <1>1. /\ ear' = ear /\ app' = app /\ sent' = sent /\ due' = due
        /\ GetWait \/ GetClear \/ PutWait \/ PutSlot \/ PutOff
    BY DEF Wait, exchange
  <1>2. /\ mode' = mode /\ data' = data /\ shift' = shift
        /\ nbit' = nbit /\ startIF' = startIF
        /\ matchIE' = matchIE /\ matchIF' = matchIF /\ toMatch' = toMatch
        /\ port' = port /\ ddr' = ddr /\ out' = out
    BY <1>1 DEF GetWait, GetClear, PutWait, PutSlot, PutOff, registers, pin
  <1>3. main \in [pc : {"app", "get", "get_clear", "get_load", "put",
                        "put_slot", "put_off", "put_start"}, r24 : Byte]
        /\ stat \in Status
    BY DEF LinkInv, UartInv, UartTypeOK
  <1>4. Released' = Released
    BY <1>2 DEF Released
  <1>5. CASE GetWait
    <2>1. /\ main.pc = "get" /\ stat.rxc /\ main'.pc = "get_clear"
          /\ stat' = stat /\ startIE' = startIE
      BY <1>3, <1>5 DEF GetWait, At, Goto
    <2>2. Slot' = Slot
      BY <1>2, <2>1 DEF Slot
    <2>3. Asked /\ Released
      BY <2>1 DEF LinkInv, Phases, Quiet, Reply, Asked
    <2>4. PICK b \in Byte : sent = <<b>> /\ Arrived(b)
      BY <2>1, <2>3 DEF Asked, Ringing, Arriving
    <2>5. Arrived(b)'
      BY <1>2, <2>1, <2>2, <2>4 DEF Arrived
    <2>6. Asked'
      BY <1>1, <1>4, <2>3, <2>4, <2>5 DEF Asked
    <2> QED
      BY <1>2, <2>6 DEF Phases
  <1>6. CASE GetClear
    <2>1. /\ main.pc = "get_clear" /\ ~ stat'.rxc /\ main'.pc = "get_load"
          /\ stat'.wbtx = stat.wbtx /\ stat'.rxtx = stat.rxtx /\ startIE' = startIE
      BY <1>3, <1>6 DEF GetClear, At, Goto, Status
    <2>2. Slot' = Slot
      BY <1>2, <2>1 DEF Slot
    <2>3. Asked /\ Released
      BY <2>1 DEF LinkInv, Phases, Quiet, Reply, Asked, Putting
    <2>4. PICK b \in Byte : sent = <<b>> /\ Arrived(b)
      BY <2>1, <2>3 DEF Asked, Ringing, Arriving
    <2>5. Arrived(b)'
      BY <1>2, <2>1, <2>2, <2>4 DEF Arrived
    <2>6. Asked'
      BY <1>1, <1>4, <2>3, <2>4, <2>5 DEF Asked
    <2> QED
      BY <1>2, <2>6 DEF Phases
  <1>7. CASE PutWait
    <2>1. /\ main.pc = "put" /\ ~ matchIE /\ main'.pc = "put_slot"
          /\ main'.r24 = main.r24 /\ stat'.rxc = stat.rxc
          /\ stat'.wbtx = stat.wbtx /\ stat'.rxtx = stat.rxtx /\ startIE' = startIE
      BY <1>3, <1>7 DEF PutWait, At, Goto, Status
    <2>2. Slot' = Slot /\ Pending' = Pending
      BY <1>2, <2>1 DEF Slot, Pending, Putting
    <2>3. Reply
      BY <2>1 DEF LinkInv, Phases, Quiet, Asked, Ringing, Arriving, Arrived
    <2>4. Between => Between'
      BY <1>1, <1>2, <1>4, <2>1, <2>2 DEF Between
    <2>5. Answering => Answering'
      <3>1. Ending => Ending'
        BY <1>1, <1>2, <1>4, <2>1, <2>2 DEF Ending
      <3>2. \A b \in Byte : ~ Sending(b)
        BY <2>1 DEF Sending
      <3> QED
        BY <1>1, <1>2, <2>2, <3>1, <3>2 DEF Answering, Sampling
    <2>6. Reply'
      BY <1>1, <2>1, <2>3, <2>4, <2>5 DEF Reply, Putting
    <2> QED
      BY <1>2, <2>6 DEF Phases
  <1>8. CASE PutSlot
    <2>1. /\ main.pc = "put_slot" /\ (stat.wbtx => matchIF) /\ main'.pc = "put_off"
          /\ main'.r24 = main.r24 /\ stat' = stat /\ startIE' = startIE
      BY <1>3, <1>8 DEF PutSlot, At, Goto
    <2>2. Slot' = Slot /\ Pending' = Pending
      BY <1>2, <2>1 DEF Slot, Pending, Putting
    <2>3. Reply
      BY <2>1 DEF LinkInv, Phases, Quiet, Asked, Ringing, Arriving, Arrived
    <2>4. ~ Answering
      <3>1. ~ Ending
        BY <2>1 DEF Ending, Slot
      <3>2. \A b \in Byte : ~ Sending(b)
        BY <2>1 DEF Sending
      <3> QED
        BY <3>1, <3>2 DEF Answering
    <2>5. Between'
      BY <1>1, <1>2, <1>4, <2>1, <2>2, <2>3, <2>4 DEF Reply, Between, Slot
    <2>6. Reply'
      BY <1>1, <2>1, <2>3, <2>5 DEF Reply, Putting
    <2> QED
      BY <1>2, <2>6 DEF Phases
  <1>9. CASE PutOff
    <2>1. /\ main.pc = "put_off" /\ ~ startIE' /\ main'.pc = "put_start"
          /\ main'.r24 = main.r24 /\ stat' = stat
      BY <1>3, <1>9 DEF PutOff, At, Goto
    <2>2. Slot' = Slot /\ Pending' = Pending
      BY <1>2, <2>1 DEF Slot, Pending, Putting
    <2>3. Reply
      BY <2>1 DEF LinkInv, Phases, Quiet, Asked, Ringing, Arriving, Arrived
    <2>4. ~ Answering
      BY <2>1 DEF Answering, Sending, Ending
    <2>5. Between'
      BY <1>1, <1>2, <1>4, <2>1, <2>2, <2>3, <2>4 DEF Reply, Between
    <2>6. Reply'
      BY <1>1, <2>1, <2>3, <2>5 DEF Reply, Putting
    <2> QED
      BY <1>2, <2>6 DEF Phases
  <1> QED
    BY <1>1, <1>5, <1>6, <1>7, <1>8, <1>9

\* getbyte returns the byte of the request.
LEMMA ReturnPhases ==
  ASSUME LinkInv, Exchange, mode.polite, Return
  PROVE  /\ Phases' /\ Asked /\ app' = "writing" /\ ear' = ear /\ due' = due
         /\ heard' = heard /\ sent = <<data>> /\ sent' = <<>> /\ got' = data
  <1>1. main.pc = "get_load" /\ main' = [pc |-> "app", r24 |-> data] /\ stat' = stat
        /\ mode' = mode /\ startIE' = startIE /\ ear' = ear
    BY DEF Return, GetLoad, At
  <1>2. /\ matchIE' = matchIE /\ matchIF' = matchIF /\ toMatch' = toMatch
        /\ port' = port /\ ddr' = ddr /\ out' = out
    BY DEF Return, GetLoad, registers, pin
  <1>3. Asked
    BY <1>1 DEF LinkInv, Phases, Quiet, Reply, Asked, Putting
  <1>4. PICK b \in Byte : sent = <<b>> /\ Arrived(b)
    BY <1>1, <1>3 DEF Asked, Ringing, Arriving
  <1>5. data = b /\ Slot /\ startIE /\ ~ stat.rxc
    BY <1>1, <1>4 DEF Arrived
  <1>6. /\ app' = "writing" /\ got' = data /\ sent' = Tail(<<b>>)
        /\ due' = due /\ heard' = heard
    <2>1. app # "any" /\ sent # <<>>
      BY <1>3, <1>4 DEF Asked
    <2> QED
      BY <2>1, <1>4 DEF Return
  <1>7. sent' = <<>>
    BY <1>6
  <1>8. Slot' /\ Released' /\ Pending' = <<>>
    BY <1>1, <1>2, <1>3, <1>5 DEF Slot, Asked, Released, Pending, Putting
  <1>9. Between'
    BY <1>1, <1>3, <1>5, <1>6, <1>7, <1>8 DEF Between, Asked
  <1>10. Reply'
    <2>1. Len(sent') + due' <= MaxReply
      BY <1>6, <1>7, ReplyAssumption DEF Exchange
    <2> QED
      BY <1>1, <1>3, <1>5, <1>6, <1>9, <2>1 DEF Reply, Asked
  <1> QED
    BY <1>1, <1>3, <1>4, <1>5, <1>6, <1>7, <1>10 DEF Phases

\* putbyte starts a frame: the line is free and the peer ready.
LEMMA StartPhases ==
  ASSUME LinkInv, Exchange, mode.polite, Start
  PROVE  /\ Phases' /\ Reply /\ ear = Listening /\ ear' \in Sampling /\ out = <<>>
         /\ app' = app /\ sent' = sent /\ due' = due /\ got' = got /\ heard' = heard
  <1>1. main.pc = "put_start" /\ PutStart
    BY DEF Start, PutStart, At
  <1>2. UartTypeOK /\ NB \in Nat \ {0}
    BY FrameAssumption DEF LinkInv, UartInv
  <1>3. Reply
    BY <1>1 DEF LinkInv, Phases, Quiet, Asked, Ringing, Arriving, Arrived
  <1>4. Between
    BY <1>1, <1>3 DEF Reply, Answering, Sending, Ending
  <1>5. /\ ear = Listening /\ ~ startIE /\ matchIF /\ out = <<>> /\ Released
        /\ sent = Pending
    BY <1>1, <1>4 DEF Between, Slot
  <1>6. PICK b \in Byte : b = main.r24 /\ Pending = <<b>>
    BY <1>1, <1>2 DEF Pending, Putting, UartTypeOK
  <1>7. /\ ear' = [bits |-> <<>>, toSample |-> 3]
        /\ app' = app /\ sent' = sent /\ due' = due /\ got' = got /\ heard' = heard
    BY <1>5 DEF Start, exchange, dt0
  <1>8. ear' \in Sampling
    <2>1. <<>> \in [1..0 -> Bit]
      OBVIOUS
    <2>2. 0 \in 0..NB /\ 3 \in 1..dt0
      BY <1>2 DEF dt0
    <2>3. <<>> \in UNION {[1..n -> Bit] : n \in 0..NB}
      BY <2>1, <2>2
    <2> QED
      BY <1>7, <2>2, <2>3 DEF Sampling
  <1>9. /\ shift' = b /\ nbit' = NB /\ port' = 0 /\ toMatch' = 2
        /\ matchIF' = FALSE /\ matchIE' = TRUE /\ startIE' = startIE /\ out' = out
        /\ mode' = mode /\ ddr' = IF mode.onewire THEN 1 ELSE ddr
    BY <1>1, <1>6 DEF PutStart, dtn
  <1>10. /\ stat'.rxtx = TRUE /\ stat'.rxc = stat.rxc
         /\ ~ (mode.checktx /\ stat'.wbtx)
    BY <1>1, <1>2 DEF PutStart, UartTypeOK, Status
  <1>11. main'.pc = "app"
    BY <1>1, <1>2 DEF PutStart, Goto, UartTypeOK
  <1>12. ddr' = 1
    BY <1>5, <1>9 DEF Released
  <1>13. Sending(b)'
    <2>1. toMatch' = 2 * (NB - nbit') - 1 - 2 * Len(ear'.bits) + ear'.toSample
      <3>1. Len(ear'.bits) = 0 /\ ear'.toSample = 3
        BY <1>7
      <3> QED
        BY <1>2, <1>9, <3>1
    <2>2. port' = IF nbit' = NB THEN 0 ELSE b[NB - nbit']
      BY <1>9
    <2>3. \A i \in 1..nbit' : shift'[i] = b[NB - nbit' + i]
      BY <1>2, <1>9
    <2>4. nbit' # 0 /\ (matchIF' <=> toMatch' = 0) /\ toMatch' <= 2
      BY <1>2, <1>9
    <2> QED
      BY <1>5, <1>9, <1>10, <1>11, <1>12, <2>1, <2>2, <2>3, <2>4 DEF Sending
  <1>14. Answering'
    <2>1. Pending' = <<>>
      BY <1>11 DEF Pending, Putting
    <2>2. sent' = <<b>> \o Pending'
      BY <1>5, <1>6, <1>7, <2>1
    <2>3. \A i \in 1..Len(ear'.bits) : ear'.bits[i] = b[i]
      BY <1>7
    <2> QED
      BY <1>5, <1>8, <1>9, <1>13, <2>2, <2>3 DEF Answering
  <1>15. Reply'
    BY <1>3, <1>7, <1>10, <1>11, <1>14 DEF Reply
  <1> QED
    BY <1>3, <1>5, <1>7, <1>8, <1>9, <1>15 DEF Phases

-----------------------------------------------------------------------------
(* The invariant is inductive.                                             *)

LEMMA TypeParts == TypeOK <=> UartTypeOK /\ Exchange
  BY Zenon DEF TypeOK, Exchange

\* Any other peer: the exchange stays as it is.
LEMMA FreeStep ==
  ASSUME LinkInv, ~ mode.polite, Next
  PROVE  Phases' /\ ear' = ear /\ UNCHANGED exchange
  <1>1. Free /\ mode' = mode
    BY ModeKept DEF LinkInv, Phases
  <1>2. /\ ear = None /\ app = "any" /\ None # Listening
        /\ \A b, n : ~ Write(b) /\ ~ Ask(b, n)
    BY <1>1, EarAssumption DEF Free, Write, Ask
  <1>3. Read \/ AnyCall \/ Wait \/ Interrupt \/ (\E b \in Byte : Disturb(b)) =>
          ear' = ear /\ UNCHANGED exchange
    BY DEF Read, AnyCall, Wait, Interrupt, Disturb
  <1>4. Return => ear' = ear /\ UNCHANGED exchange
    BY <1>2, Zenon DEF Return
  <1>5. Start => ear' = ear /\ UNCHANGED exchange
    BY <1>2, Zenon DEF Start
  <1>6. Tick => ear' = ear /\ UNCHANGED exchange
    BY <1>2 DEF Tick, exchange
  <1>7. ear' = ear /\ UNCHANGED exchange
    BY <1>2, <1>3, <1>4, <1>5, <1>6, Zenon DEF Next, Device
  <1> QED
    BY <1>1, <1>7 DEF Phases, Free, exchange

LEMMA UartStep ==
  ASSUME UartInv, Next
  PROVE  UartInv'
  <1>1. Interrupt => Handlers
    BY DEF Interrupt
  <1>2. Tick => Elapse
    BY DEF Tick
  <1>3. (\E b \in Byte : Disturb(b) \/ \E n \in 1..MaxReply : Ask(b, n)) =>
          \E b \in Byte : PeerStart(b)
    BY DEF Disturb, Ask
  <1>4. Read \/ AnyCall \/ Device \/ (\E b \in Byte : Write(b)) =>
          \/ GetWait \/ GetClear \/ GetLoad \/ PutWait \/ PutSlot \/ PutOff \/ PutStart
          \/ CallGet \/ Clear \/ \E b \in Byte : CallPut(b)
    BY DEF Read, AnyCall, Device, Wait, Return, Start, Write
  <1> QED
    BY <1>1, <1>2, <1>3, <1>4, HandlerTypes, LineTypes, ProgramTypes, Zenon DEF Next

LEMMA ExchangeStep ==
  ASSUME LinkInv, Exchange, Next, mode.polite
  PROVE  Exchange'
  <1>1. UartTypeOK /\ data \in Byte /\ MaxReply \in Nat \ {0}
    BY ReplyAssumption DEF LinkInv, UartInv, UartTypeOK
  <1>2. CASE Read \/ AnyCall \/ Wait \/ Interrupt \/ \E b \in Byte : Disturb(b)
    <2>1. /\ ear' = ear /\ app' = app /\ sent' = sent /\ due' = due
          /\ got' = got /\ heard' = heard
      BY <1>2 DEF Read, AnyCall, Wait, Interrupt, Disturb, exchange
    <2> QED
      BY <2>1 DEF Exchange
  <1>3. ASSUME NEW b \in Byte, Write(b)
        PROVE  Exchange'
    <2>1. /\ ear' = ear /\ app = "writing" /\ sent' = Append(sent, b)
          /\ due' = due - 1 /\ got' = None /\ heard' = heard
          /\ app' \in {"reading", "writing", "any"}
      BY <1>3 DEF Write
    <2>2. /\ Reply
      BY <1>3, WritePhases
    <2>3. Len(sent) \in Nat /\ due \in 1..MaxReply /\ Len(sent) + due <= MaxReply
      BY <1>1, <2>1, <2>2, LenProperties DEF Reply, Exchange
    <2>4. sent' \in Seq(Byte) /\ Len(sent') = Len(sent) + 1
      BY <2>1, AppendProperties DEF Exchange
    <2>5. due' \in 0..MaxReply /\ Len(sent') <= MaxReply
      BY <1>1, <2>1, <2>3, <2>4
    <2> QED
      BY <2>1, <2>4, <2>5 DEF Exchange
  <1>4. ASSUME NEW b \in Byte, NEW n \in 1..MaxReply, Ask(b, n)
        PROVE  Exchange'
    <2>1. /\ ear' = Listening /\ app' = app /\ sent' = <<b>> /\ due' = n
          /\ heard' = None /\ got' = got
      BY <1>4 DEF Ask
    <2>2. n \in 0..MaxReply /\ <<b>> \in Seq(Byte) /\ Len(<<b>>) <= MaxReply
      BY <1>1
    <2> QED
      BY <2>1, <2>2 DEF Exchange
  <1>5. CASE Return
    <2>1. /\ app' = "writing" /\ ear' = ear /\ due' = due
          /\ heard' = heard /\ sent' = <<>> /\ got' = data
      BY <1>5, ReturnPhases
    <2>2. <<>> \in Seq(Byte) /\ Len(<<>>) = 0
      OBVIOUS
    <2> QED
      BY <1>1, <2>1, <2>2 DEF Exchange
  <1>6. CASE Start
    BY <1>6, StartPhases DEF Exchange
  <1>7. CASE Tick
    <2>1. app' = app /\ due' = due /\ got' = got
      BY <1>7 DEF Tick
    <2>2. CASE UNCHANGED <<sent, heard>> /\ (ear' = ear \/ ear' \in Sampling)
      BY <2>1, <2>2 DEF Exchange
    <2>3. CASE /\ sent # <<>> /\ heard' = Head(sent) /\ sent' = Tail(sent)
               /\ ear' \in {None, Listening}
      <3>1. /\ sent' \in Seq(Byte) /\ Len(sent') <= Len(sent) /\ heard' \in Byte
            /\ Len(sent) \in Nat /\ Len(sent') \in Nat
        BY <2>3, HeadTailProperties, LenProperties DEF Exchange
      <3>2. Len(sent') <= MaxReply
        BY <1>1, <3>1 DEF Exchange
      <3> QED
        BY <2>1, <2>3, <3>1, <3>2 DEF Exchange
    <2> QED
      BY <1>7, <2>2, <2>3, TickPhases, Zenon
  <1> QED
    BY <1>2, <1>3, <1>4, <1>5, <1>6, <1>7, Zenon DEF Next, Device

LEMMA LinkInvStep == LinkInv /\ [Next]_vars => LinkInv'
  <1> SUFFICES ASSUME LinkInv, [Next]_vars
               PROVE  LinkInv'
    OBVIOUS
  <1>1. Exchange /\ UartInv /\ UartTypeOK
    BY TypeParts DEF LinkInv
  <1>2. CASE UNCHANGED vars
    <2>1. UartTypeOK' /\ UartInv'
      BY <1>1, <1>2 DEF vars, uart, UartInv, UartTypeOK
    <2>2. Exchange'
      BY <1>1, <1>2 DEF vars, Exchange
    <2>3. Phases'
      <3>1. /\ mode' = mode /\ stat' = stat /\ data' = data /\ shift' = shift
            /\ nbit' = nbit /\ startIE' = startIE /\ startIF' = startIF
            /\ matchIE' = matchIE /\ matchIF' = matchIF /\ toMatch' = toMatch
            /\ port' = port /\ ddr' = ddr /\ main' = main /\ out' = out
            /\ ear' = ear /\ app' = app /\ sent' = sent /\ due' = due
        BY <1>2 DEF vars, uart
      <3>2. Phases
        BY DEF LinkInv
      <3>3. Released' = Released /\ Slot' = Slot /\ Pending' = Pending
        BY <3>1 DEF Released, Slot, Pending
      <3>4. Quiet' = Quiet /\ Free' = Free
        BY <3>1, <3>3 DEF Quiet, Free
      <3>5. \A b \in Byte : /\ Ringing(b)' = Ringing(b) /\ Arriving(b)' = Arriving(b)
                            /\ Arrived(b)' = Arrived(b) /\ Sending(b)' = Sending(b)
        BY <3>1, <3>3 DEF Ringing, Arriving, Arrived, Sending, Rest
      <3>6. Asked' = Asked
        BY <3>1, <3>3, <3>5, Zenon DEF Asked
      <3>7. Between' = Between /\ Ending' = Ending
        BY <3>1, <3>3 DEF Between, Ending
      <3>8. Answering' = Answering
        BY <3>1, <3>3, <3>5, <3>7, Zenon DEF Answering, Sampling
      <3>9. Reply' = Reply
        BY <3>1, <3>7, <3>8, Zenon DEF Reply
      <3> QED
        BY <3>1, <3>2, <3>4, <3>6, <3>9, Zenon DEF Phases
    <2> QED
      BY <2>1, <2>2, <2>3, TypeParts, PTL DEF LinkInv
  <1>3. CASE Next
    <2>1. UartInv' /\ UartTypeOK'
      BY <1>1, <1>3, UartStep DEF UartInv
    <2>2. Exchange' /\ Phases'
      <3>1. CASE mode.polite
        <4>1. ~ AnyCall
          BY <3>1, EarAssumption DEF AnyCall, LinkInv, Phases, Quiet, Asked, Reply
        <4>2. \A b : ~ Disturb(b)
          BY <3>1 DEF Disturb
        <4>3. Phases'
          BY <1>1, <1>3, <3>1, <4>1, <4>2, ReadPhases, WaitPhases, ReturnPhases,
             StartPhases, InterruptPhases, TickPhases, WritePhases, AskPhases, Zenon
          DEF Next, Device
        <4> QED
          BY <1>1, <1>3, <3>1, <4>3, ExchangeStep
      <3>2. CASE ~ mode.polite
        BY <1>1, <1>3, <3>2, FreeStep DEF Exchange, exchange
      <3> QED
        BY <3>1, <3>2
    <2> QED
      BY <2>1, <2>2, TypeParts, PTL DEF LinkInv
  <1> QED
    BY <1>2, <1>3

LEMMA LinkInvInit == Init => LinkInv
  <1> SUFFICES ASSUME Init
               PROVE  LinkInv
    OBVIOUS
  <1>1. Zeros \in Byte
    BY DEF Zeros, Byte, Bit
  <1>2. UartTypeOK /\ UartInv
    <2>1. stat \in Status
      BY Zenon DEF Init, UartInit, Status
    <2>6. data \in Byte /\ shift \in Byte /\ nbit \in -1..NB
      BY <1>1, FrameAssumption DEF Init, UartInit
    <2>2. /\ startIE \in BOOLEAN /\ startIF \in BOOLEAN /\ matchIE \in BOOLEAN
          /\ matchIF \in BOOLEAN /\ ~ matchIE
      BY Zenon DEF Init, UartInit
    <2>7. toMatch \in 0..dt0
      BY DEF Init, UartInit, dt0
    <2>3. mode \in Modes /\ port \in Bit /\ ddr \in Bit
      BY DEF Init, UartInit, Bit
    <2>4. main \in [pc : {"app", "get", "get_clear", "get_load", "put",
                          "put_slot", "put_off", "put_start"}, r24 : Byte]
      BY <1>1 DEF Init, UartInit
    <2>5. out \in Seq(Bit) /\ Len(out) <= 2 * (NB + 2)
      BY FrameAssumption DEF Init, UartInit
    <2> QED
      BY <2>1, <2>2, <2>3, <2>4, <2>5, <2>6, <2>7 DEF UartTypeOK, UartInv
  <1>3. Exchange
    BY ReplyAssumption DEF Init, Exchange
  <1>4. Phases
    BY DEF Init, UartInit, Phases, Quiet, Free, Released
  <1> QED
    BY <1>2, <1>3, <1>4, TypeParts DEF LinkInv

LEMMA LinkInvCorrect == Spec => []LinkInv
  BY LinkInvInit, LinkInvStep, PTL DEF Spec

-----------------------------------------------------------------------------
(* The theorems.                                                           *)

\* The registers of the UART, its variables and the exchange keep their types:
\* nbit and toMatch never leave the range of a frame (swuarta.sx 489-497, 608-628).
THEOREM TypeCorrect == Spec => []TypeOK
  <1>1. LinkInv => TypeOK
    BY DEF LinkInv
  <1> QED
    BY <1>1, LinkInvCorrect, PTL

\* Only Start leaves put_start.
LEMMA OnlyStart ==
  ASSUME UartTypeOK, Next, At("put_start"), ~ At("put_start")'
  PROVE  Start
  <1>1. Interrupt \/ Tick => main' = main
    BY DEF Interrupt, Handlers, StartIgnored, StartBit, RxData, RxStop, TxData, TxLost,
           TxStop, Tick, Elapse
  <1>2. \A b, n : Ask(b, n) \/ Disturb(b) => main' = main
    BY DEF Ask, Disturb, PeerStart
  <1>3. ~ Read /\ ~ AnyCall /\ ~ Wait /\ ~ Return /\ \A b : ~ Write(b)
    BY DEF At, Read, AnyCall, Wait, Return, Write, CallGet, CallPut, Clear, GetWait,
           GetClear, GetLoad, PutWait, PutSlot, PutOff
  <1> QED
    BY <1>1, <1>2, <1>3, Zenon DEF Next, Device, At

\* A polite peer and the device never drive the line at once: putbyte waits
\* until matchIF tells that the slot of the stop bit is over (swuarta.sx
\* 693-697, 705-709), whatever the handlers do between its instructions.
THEOREM NoOverlapCorrect == Spec => NoOverlap
  <1>1. ASSUME LinkInv, [Next]_vars, mode.polite, At("put_start"), ~ At("put_start")'
        PROVE  out = <<>> /\ ear = Listening
    <2>1. Next
      BY <1>1 DEF At, vars, uart
    <2>2. Exchange /\ UartTypeOK
      BY <1>1, TypeParts DEF LinkInv
    <2>3. Start
      BY <1>1, <2>1, <2>2, OnlyStart
    <2> QED
      BY <1>1, <2>2, <2>3, StartPhases
  <1>2. LinkInv /\ [Next]_vars =>
          [mode.polite /\ At("put_start") /\ ~ At("put_start")' =>
             out = <<>> /\ ear = Listening]_vars
    BY <1>1
  <1> QED
    BY <1>2, LinkInvCorrect, PTL DEF Spec, NoOverlap

\* Whose turn it is, in the phases.
LEMMA Turns ==
  /\ Quiet => Turn = "quiet"
  /\ Asked => Turn = "asked"
  /\ Reply => Turn = "reply"
  <1>1. Quiet => Turn = "quiet"
    BY DEF Quiet, Turn
  <1>2. Asked => Turn = "asked"
    BY EarAssumption DEF Asked, Turn
  <1>3. Reply => Turn = "reply"
    BY EarAssumption DEF Reply, Between, Answering, Turn
  <1> QED
    BY <1>1, <1>2, <1>3

\* Every step is one of SwuartLink, or does not concern it.
LEMMA LinkStep ==
  ASSUME LinkInv, Next
  PROVE  [Link!Next]_(Link!vars)
  <1>1. Exchange /\ UartTypeOK /\ None # Listening
        /\ None \notin Sampling /\ Listening \notin Sampling
    BY TypeParts, EarAssumption DEF LinkInv
  <1>2. ASSUME UNCHANGED exchange, ear' = ear
        PROVE  UNCHANGED Link!vars
    BY <1>2 DEF exchange, Turn, Link!vars
  <1>3. CASE ~ mode.polite
    BY <1>2, <1>3, FreeStep
  <1>4. CASE mode.polite
    <2>1. CASE Read \/ AnyCall \/ Wait \/ Interrupt \/ \E b \in Byte : Disturb(b)
      BY <1>2, <2>1 DEF Read, AnyCall, Wait, Interrupt, Disturb
    <2>2. ASSUME NEW b \in Byte, Write(b)
          PROVE  Link!Answer(b)
      <3>1. Reply /\ Turn = "reply" /\ ear # None
        BY <1>1, <1>4, <2>2, WritePhases, Turns DEF Reply, Between, Answering
      <3>2. /\ app = "writing" /\ sent' = Append(sent, b) /\ due' = due - 1
            /\ got' = None /\ heard' = heard /\ ear' = ear
            /\ app' = IF due = 1 THEN "reading" ELSE "writing"
        BY <2>2 DEF Write
      <3>3. due > 0 /\ due \in Nat
        BY <1>1, <3>1, <3>2, ReplyAssumption DEF Reply, Exchange
      <3>4. ~ (app' = "reading" /\ due' > 0)
        BY <3>2, <3>3
      <3>5. Turn' = "reply"
        BY <3>1, <3>2, <3>4 DEF Turn
      <3> QED
        BY <3>1, <3>2, <3>3, <3>5 DEF Link!Answer
    <2>3. ASSUME NEW b \in Byte, NEW n \in 1..MaxReply, Ask(b, n)
          PROVE  Link!Ask(b, n)
      <3>1. Quiet /\ Turn = "quiet" /\ app' = "reading"
        BY <1>1, <1>4, <2>3, AskPhases, Turns DEF Quiet
      <3>2. ear' = Listening /\ sent' = <<b>> /\ due' = n /\ heard' = None /\ got' = got
        BY <2>3 DEF Ask
      <3>3. Turn' = "asked"
        BY <1>1, <3>1, <3>2, ReplyAssumption DEF Turn
      <3> QED
        BY <3>1, <3>2, <3>3 DEF Link!Ask
    <2>4. CASE Return
      <3>1. /\ Asked /\ app' = "writing" /\ ear' = ear /\ due' = due
            /\ heard' = heard /\ sent = <<data>> /\ sent' = <<>> /\ got' = data
        BY <1>1, <1>4, <2>4, ReturnPhases
      <3>2. Turn = "asked" /\ Turn' = "reply"
        BY <1>1, <3>1, Turns DEF Asked, Turn
      <3>3. Head(sent) = data /\ Tail(sent) = <<>>
        BY <3>1
      <3>4. Link!Read
        BY <3>1, <3>2, <3>3 DEF Link!Read
      <3> QED
        BY <3>4 DEF Link!Next
    <2>5. CASE Start
      <3>1. /\ Reply /\ ear = Listening /\ ear' \in Sampling
            /\ app' = app /\ sent' = sent /\ due' = due /\ got' = got /\ heard' = heard
        BY <1>1, <1>4, <2>5, StartPhases
      <3>2. Turn' = Turn
        BY <1>1, <3>1 DEF Turn
      <3> QED
        BY <3>1, <3>2 DEF Link!vars
    <2>6. CASE Tick
      <3>1. app' = app /\ due' = due /\ got' = got
        BY <2>6 DEF Tick
      <3>2. CASE /\ UNCHANGED <<sent, heard>>
                 /\ (ear' = ear \/ (ear \in Sampling /\ ear' \in Sampling))
        <4>1. Turn' = Turn
          BY <1>1, <3>1, <3>2 DEF Turn
        <4> QED
          BY <3>1, <3>2, <4>1 DEF Link!vars
      <3>3. CASE /\ ear \in Sampling /\ sent # <<>> /\ Reply
                 /\ heard' = Head(sent) /\ sent' = Tail(sent)
                 /\ ear' = IF due = 0 /\ sent' = <<>> THEN None ELSE Listening
        <4>1. Turn = "reply"
          BY <3>3, Turns
        <4>2. ~ (app' = "reading" /\ due' > 0)
          BY <3>1, <3>3 DEF Reply
        <4>3. Turn' = IF due = 0 /\ sent' = <<>> THEN "quiet" ELSE "reply"
          BY <1>1, <3>3, <4>2 DEF Turn
        <4>4. Link!Hear
          BY <3>1, <3>3, <4>1, <4>3 DEF Link!Hear
        <4> QED
          BY <4>4 DEF Link!Next
      <3> QED
        BY <1>1, <1>4, <2>6, <3>2, <3>3, TickPhases, Zenon
    <2>7. (\E b \in Byte : Write(b)) \/ (\E b \in Byte, n \in 1..MaxReply : Ask(b, n)) =>
            Link!Next
      BY <2>2, <2>3 DEF Link!Next
    <2> QED
      BY <2>1, <2>4, <2>5, <2>6, <2>7, Zenon DEF Next, Device
  <1> QED
    BY <1>3, <1>4

\* With a polite peer the UART implements SwuartLink: each request is read once
\* and unchanged, each byte of the reply is received unchanged and in order,
\* and the two sides take turns (swuarta.sx START, COMPARE, getbyte, putbyte).
THEOREM LinkCorrect == Spec => ImplementsLink
  <1>1. Init => Link!Init
    BY DEF Init, Link!Init, Turn
  <1>2. LinkInv /\ [Next]_vars => [Link!Next]_(Link!vars)
    <2> SUFFICES ASSUME LinkInv, [Next]_vars
                 PROVE  [Link!Next]_(Link!vars)
      OBVIOUS
    <2>1. CASE UNCHANGED vars
      BY <2>1 DEF vars, Turn, Link!vars
    <2>2. CASE Next
      BY <2>2, LinkStep
    <2> QED
      BY <2>1, <2>2
  <1> QED
    BY <1>1, <1>2, LinkInvCorrect, PTL DEF Spec, ImplementsLink, Link!Spec
=============================================================================
