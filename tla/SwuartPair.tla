----------------------------- MODULE SwuartPair -----------------------------
(***************************************************************************)
(* Several software UARTs on one device (example 05-3-dual-swuart): how    *)
(* the nested handlers of src/atmel/avr/swuarta/swuarta.sx and putbyte     *)
(* share the interrupt mask registers.  The START_IE bits of all the UARTs *)
(* are in one register, the MATCH_IE bits in another.  XCB is one cbi when *)
(* the register is low, and in, andi, out otherwise (avrx.sx 52-61); XSBAI *)
(* and XSBAS are atomic either way (avrx.sx 117-146).                      *)
(*                                                                         *)
(* Only masks, flags and the nesting are modelled; a compare match ends    *)
(* the frame or does not.  Handlers interrupt putbyte and one another as    *)
(* soon as interrupts are enabled, those of the same UART too; the short    *)
(* cli ... sei of XSBAI, XSBAS and putbyte are inside a step here.          *)
(***************************************************************************)
EXTENDS Naturals, Sequences

CONSTANTS
  Uarts,     \* the software UARTs
  Devices,   \* records [uarts, startHigh, matchHigh, apart]: the UARTs in use,
             \*   whether cbi cannot reach the registers of the masks, and
             \*   whether the interrupts of a UART come so far apart that
             \*   none of its handlers is interrupted by another one of it
  Depth      \* bound: routines that interrupt one another

ASSUME DevicesAssumption ==
  Devices \subseteq [uarts : SUBSET Uarts, startHigh : BOOLEAN,
                     matchHigh : BOOLEAN, apart : BOOLEAN]

ASSUME DepthAssumption == Depth \in Nat \ {0}

VARIABLES
  device,
  startIE, startIF,   \* [SUBSET Uarts] masks and flags of the starters
  matchIE, matchIF,   \* [SUBSET Uarts] masks and flags of the compare units
  frame,   \* UARTs whose nbit counts the bits of a frame
  gie,     \* I bit of SREG
  stack    \* routines in progress, the last one is running

vars == <<device, startIE, startIF, matchIE, matchIF, frame, gie, stack>>

\* A routine: START and COMPARE are handlers, PUT is putbyte.  r is the
\* register loaded by XCB.
Routine == [name : {"START", "COMPARE", "PUT"}, uart : Uarts,
            pc : {"sei", "branch", "mask", "store", "arm", "ret"}, r : SUBSET Uarts]

Top     == stack[Len(stack)]
Running(name, pc) == stack # <<>> /\ Top.name \in name /\ Top.pc = pc
Goto(pc) == stack' = [stack EXCEPT ![Len(stack)].pc = pc]

\* A handler of u is in progress.
Handling(u) == \E i \in DOMAIN stack : stack[i].uart = u /\ stack[i].name # "PUT"

\* The processor may enter a handler of u.
Interruptible(u) ==
  gie /\ Len(stack) < Depth /\ (device.apart => ~ Handling(u))

Enter(name, u, pc) ==
  stack' = Append(stack, [name |-> name, uart |-> u, pc |-> pc, r |-> {}])

-----------------------------------------------------------------------------
(* Interrupts.                                                             *)

\* The RXD pin changes.
PinChange(u) ==
  /\ u \in device.uarts
  /\ startIF' = startIF \cup {u}
  /\ UNCHANGED <<device, startIE, matchIE, matchIF, frame, gie, stack>>

\* The counter reaches comp.
Match(u) ==
  /\ u \in device.uarts
  /\ matchIF' = matchIF \cup {u}
  /\ UNCHANGED <<device, startIE, startIF, matchIE, frame, gie, stack>>

\* The processor enters a handler: interrupts are disabled, the flag is down.
StartIRQ(u) ==
  /\ Interruptible(u) /\ u \in startIE \cap startIF
  /\ Enter("START", u, "sei")
  /\ gie' = FALSE /\ startIF' = startIF \ {u}
  /\ UNCHANGED <<device, startIE, matchIE, matchIF, frame>>

MatchIRQ(u) ==
  /\ Interruptible(u) /\ u \in matchIE \cap matchIF
  /\ Enter("COMPARE", u, "sei")
  /\ gie' = FALSE /\ matchIF' = matchIF \ {u}
  /\ UNCHANGED <<device, startIE, startIF, matchIE, frame>>

\* The program calls putbyte and finds MATCH_IE clear.
Put(u) ==
  /\ u \in device.uarts /\ stack = <<>> /\ u \notin matchIE
  /\ Enter("PUT", u, "mask")
  /\ UNCHANGED <<device, startIE, startIF, matchIE, matchIF, frame, gie>>

-----------------------------------------------------------------------------
(* The instructions of the routine that runs.                              *)

\* Both handlers re-enable interrupts as soon as they can.
Sei == /\ Running({"START", "COMPARE"}, "sei")
       /\ gie' = TRUE /\ Goto("branch")
       /\ UNCHANGED <<device, startIE, startIF, matchIE, matchIF, frame>>

\* Not a falling edge; or a bit that is not the last of the frame.
Skip == /\ Running({"START", "COMPARE"}, "branch")
        /\ Goto("ret")
        /\ UNCHANGED <<device, startIE, startIF, matchIE, matchIF, frame, gie>>

\* A start bit; or the end of the frame.
Go == /\ Running({"START", "COMPARE"}, "branch")
      /\ Goto("mask")
      /\ frame' = IF Top.name = "COMPARE" THEN frame \ {Top.uart} ELSE frame
      /\ UNCHANGED <<device, startIE, startIF, matchIE, matchIF, gie>>

\* XCB START_IE
MaskStart ==
  /\ Running({"START", "PUT"}, "mask")
  /\ IF device.startHigh
     THEN /\ stack' = [stack EXCEPT ![Len(stack)].r = startIE \ {Top.uart},
                                    ![Len(stack)].pc = "store"]
          /\ UNCHANGED startIE
     ELSE /\ startIE' = startIE \ {Top.uart} /\ Goto("arm")
  /\ UNCHANGED <<device, startIF, matchIE, matchIF, frame, gie>>

\* A slip for MatchArmed to catch: in, andi, out whatever the address.
MaskMatchAlways ==
  /\ Running({"COMPARE"}, "mask")
  /\ stack' = [stack EXCEPT ![Len(stack)].r = matchIE \ {Top.uart},
                            ![Len(stack)].pc = "store"]
  /\ UNCHANGED <<device, startIE, startIF, matchIE, matchIF, frame, gie>>

\* XCB MATCH_IE
MaskMatch ==
  /\ Running({"COMPARE"}, "mask")
  /\ IF device.matchHigh
     THEN /\ stack' = [stack EXCEPT ![Len(stack)].r = matchIE \ {Top.uart},
                                    ![Len(stack)].pc = "store"]
          /\ UNCHANGED matchIE
     ELSE /\ matchIE' = matchIE \ {Top.uart} /\ Goto("arm")
  /\ UNCHANGED <<device, startIE, startIF, matchIF, frame, gie>>

\* The end of a XCB that is not one instruction.
Store ==
  /\ stack # <<>> /\ Top.pc = "store"
  /\ IF Top.name = "COMPARE" THEN matchIE' = Top.r /\ UNCHANGED startIE
                             ELSE startIE' = Top.r /\ UNCHANGED matchIE
  /\ Goto("arm")
  /\ UNCHANGED <<device, startIF, matchIF, frame, gie>>

\* XCIF MATCH_IF, XSBAI (XSBAS in putbyte) MATCH_IE
ArmMatch ==
  /\ Running({"START", "PUT"}, "arm")
  /\ matchIF' = matchIF \ {Top.uart}
  /\ matchIE' = matchIE \cup {Top.uart}
  /\ frame' = frame \cup {Top.uart}
  /\ Goto("ret")
  /\ UNCHANGED <<device, startIE, startIF, gie>>

\* A slip for NeverDeafAlone to catch: the order of two steps of rxsb, with
\* the flag cleared and the mask left alone.
ArmStartFlag ==
  /\ Running({"COMPARE"}, "arm")
  /\ startIF' = startIF \ {Top.uart}
  /\ Goto("ret")
  /\ UNCHANGED <<device, startIE, matchIE, matchIF, frame, gie>>

\* XCIF START_IF, XSBAI START_IE
ArmStart ==
  /\ Running({"COMPARE"}, "arm")
  /\ startIF' = startIF \ {Top.uart}
  /\ startIE' = startIE \cup {Top.uart}
  /\ Goto("ret")
  /\ UNCHANGED <<device, matchIE, matchIF, frame, gie>>

\* A slip for TypeOK to catch: ret in a handler leaves interrupts disabled.
RetOnly ==
  /\ stack # <<>> /\ Top.pc = "ret"
  /\ stack' = SubSeq(stack, 1, Len(stack) - 1)
  /\ gie' = FALSE
  /\ UNCHANGED <<device, startIE, startIF, matchIE, matchIF, frame>>

\* reti, ret
Return ==
  /\ stack # <<>> /\ Top.pc = "ret"
  /\ stack' = SubSeq(stack, 1, Len(stack) - 1)
  /\ gie' = TRUE
  /\ UNCHANGED <<device, startIE, startIF, matchIE, matchIF, frame>>

-----------------------------------------------------------------------------
Init == /\ device \in Devices
        /\ startIE = device.uarts /\ startIF = {}
        /\ matchIE = {} /\ matchIF = {}
        /\ frame = {} /\ gie = TRUE /\ stack = <<>>

Step == \/ Sei \/ Skip \/ Go \/ MaskStart \/ MaskMatch \/ Store
        \/ ArmMatch \/ ArmStart \/ Return

Next == \/ Step
        \/ \E u \in Uarts : \/ PinChange(u) \/ Match(u)
                            \/ StartIRQ(u) \/ MatchIRQ(u) \/ Put(u)

Spec == Init /\ [][Next]_vars

-----------------------------------------------------------------------------
(* Properties.                                                             *)

\* Interrupts are off only between the entry of a handler and its sei; putbyte
\* interrupts nothing.
TypeOK == /\ device \in Devices
          /\ {startIE, startIF, matchIE, matchIF, frame} \subseteq SUBSET device.uarts
          /\ stack \in Seq(Routine) /\ Len(stack) <= Depth
          /\ \A i \in DOMAIN stack : stack[i].name = "PUT" => i = 1
          /\ gie \in BOOLEAN
          /\ gie \/ Running({"START", "COMPARE"}, "sei")

(* A UART that counts the bits of a frame gets the interrupts of its        *)
(* compare unit as long as XCB MATCH_IE is one instruction (ATtinyX4,       *)
(* counter1: attinyx4.h 886), whatever the handlers of the other UART do    *)
(* in between and wherever putbyte is interrupted.  The interrupts of one   *)
(* UART have to be apart: a START handler that runs between the last bit    *)
(* and XCB MATCH_IE of a COMPARE handler loses its MATCH_IE to it.          *)
MatchArmed == device.apart /\ ~ device.matchHigh => frame \subseteq matchIE

\* A routine of u is between its XCB and the mask it sets in exchange.
Exchanging(u) == \E i \in DOMAIN stack :
                   stack[i].uart = u /\ stack[i].pc \in {"mask", "store", "arm"}

\* UARTs that will not see another interrupt.
Deaf == {u \in device.uarts : ~ Exchanging(u) /\ u \notin startIE \cup matchIE}

(* Alone on its device, the UART is never left without an interrupt: its    *)
(* handlers and putbyte may use XCB on any register and interrupt one       *)
(* another anywhere.                                                        *)
Alone == \A u, v \in device.uarts : u = v
NeverDeafAlone == Alone => Deaf = {}

(* Example 05-3: "Echo what is received from one software UART to both":    *)
(* none of the two is ever left without an interrupt.                       *)
NeverDeaf == Deaf = {}
=============================================================================
