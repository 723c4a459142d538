------------------------- MODULE SwuartPair_proofs -------------------------
(***************************************************************************)
(* Proofs about SwuartPair, for any set of UARTs and any device.           *)
(*                                                                         *)
(* Sound says what a routine in progress, at any depth of the stack, may   *)
(* rely on; it is what makes MatchArmed inductive: a COMPARE handler that  *)
(* ends a frame clears MATCH_IE of a UART that is in no frame any more,    *)
(* because by OwnApart no START handler of that UART runs on top of it and *)
(* putbyte is at the bottom of the stack.                                  *)
(***************************************************************************)
EXTENDS SwuartPair, SequenceTheorems, TLAPS

Sound(a) ==
  /\ a.uart \in device.uarts /\ a.r \subseteq device.uarts
  /\ a.name = "PUT" => a.pc \notin {"sei", "branch"}
  /\ device.apart /\ a.name = "COMPARE" /\ a.pc \in {"mask", "store", "arm"} =>
       a.uart \notin frame
  /\ a.name = "COMPARE" /\ ~ device.matchHigh => a.pc # "store"

RoutinesOK == \A i \in DOMAIN stack : Sound(stack[i])

\* One handler at a time of each UART.
OwnApart ==
  device.apart =>
    \A i, j \in DOMAIN stack :
      stack[i].name # "PUT" /\ stack[j].name # "PUT" /\ stack[i].uart = stack[j].uart
        => i = j

IInv == TypeOK /\ RoutinesOK /\ OwnApart /\ MatchArmed /\ NeverDeafAlone

-----------------------------------------------------------------------------
(* The stack.                                                              *)

\* A running routine is the last element of a stack that is not empty.
LEMMA TopOfStack ==
  ASSUME TypeOK, stack # <<>>
  PROVE  /\ Len(stack) \in Nat \ {0}
         /\ DOMAIN stack = 1..Len(stack)
         /\ Len(stack) \in DOMAIN stack
         /\ Top \in Routine
  BY DEF TypeOK, Top

\* Changing the last element of the stack changes nothing else of it.
LEMMA TopChanged ==
  ASSUME TypeOK, stack # <<>>, NEW t \in Routine,
         stack' = [stack EXCEPT ![Len(stack)] = t]
  PROVE  /\ stack' \in Seq(Routine)
         /\ DOMAIN stack' = DOMAIN stack
         /\ Len(stack') = Len(stack)
         /\ stack'[Len(stack)] = t /\ Top' = t
         /\ \A i \in DOMAIN stack : i # Len(stack) => stack'[i] = stack[i]
  <1>1. /\ Len(stack) \in Nat \ {0} /\ DOMAIN stack = 1..Len(stack)
        /\ stack \in Seq(Routine)
    BY TopOfStack DEF TypeOK
  <1>2. /\ stack' \in Seq(Routine)
        /\ Len(stack') = Len(stack)
        /\ \A j \in 1..Len(stack) :
             stack'[j] = IF j = Len(stack) THEN t ELSE stack[j]
    BY <1>1, ExceptSeq
  <1>3. stack'[Len(stack)] = t
    BY <1>1, <1>2
  <1>4. DOMAIN stack' = 1..Len(stack)
    BY <1>1, <1>2
  <1>5. Top' = t
    BY <1>2, <1>3 DEF Top
  <1> QED
    BY <1>1, <1>2, <1>3, <1>4, <1>5

\* Goto only changes the program counter of the running routine.
LEMMA GotoStep ==
  ASSUME TypeOK, stack # <<>>,
         NEW pc \in {"sei", "branch", "mask", "store", "arm", "ret"}, Goto(pc)
  PROVE  /\ [Top EXCEPT !.pc = pc] \in Routine
         /\ stack' = [stack EXCEPT ![Len(stack)] = [Top EXCEPT !.pc = pc]]
  <1>1. Top \in Routine
    BY TopOfStack
  <1>2. [Top EXCEPT !.pc = pc] \in Routine
    BY <1>1 DEF Routine
  <1> QED
    BY <1>2 DEF Goto, Top

\* A routine that starts is put on top of the others.
LEMMA EnterStep ==
  ASSUME TypeOK, NEW name \in {"START", "COMPARE", "PUT"}, NEW u \in Uarts,
         NEW pc \in {"sei", "branch", "mask", "store", "arm", "ret"},
         Enter(name, u, pc)
  PROVE  /\ stack' \in Seq(Routine) /\ stack' # <<>>
         /\ DOMAIN stack = 1..Len(stack) /\ DOMAIN stack' = 1..(Len(stack) + 1)
         /\ Len(stack) \in Nat
         /\ Len(stack') = Len(stack) + 1
         /\ Top' = [name |-> name, uart |-> u, pc |-> pc, r |-> {}]
         /\ stack'[Len(stack) + 1] = Top'
         /\ \A i \in DOMAIN stack : stack'[i] = stack[i]
  <1> DEFINE t == [name |-> name, uart |-> u, pc |-> pc, r |-> {}]
  <1>1. t \in Routine
    BY DEF Routine
  <1>2. stack \in Seq(Routine) /\ stack' = Append(stack, t)
    BY DEF TypeOK, Enter
  <1> HIDE DEF t
  <1>3. /\ stack' \in Seq(Routine) /\ Len(stack') = Len(stack) + 1
        /\ Len(stack) \in Nat
        /\ stack'[Len(stack) + 1] = t
        /\ \A i \in 1..Len(stack) : stack'[i] = stack[i]
    BY <1>1, <1>2
  <1>4. DOMAIN stack = 1..Len(stack) /\ DOMAIN stack' = 1..(Len(stack) + 1)
    BY <1>2, <1>3
  <1>5. stack' # <<>> /\ Top' = t
    BY <1>3 DEF Top
  <1> QED
    BY <1>3, <1>4, <1>5 DEF t

\* A routine that returns uncovers the one it interrupted.
LEMMA ReturnStep ==
  ASSUME TypeOK, stack # <<>>, stack' = SubSeq(stack, 1, Len(stack) - 1)
  PROVE  /\ stack' \in Seq(Routine)
         /\ DOMAIN stack' = 1..(Len(stack) - 1)
         /\ DOMAIN stack = 1..Len(stack) /\ Len(stack) \in Nat \ {0}
         /\ \A i \in DOMAIN stack' : i \in DOMAIN stack /\ stack'[i] = stack[i]
  <1>1. /\ Len(stack) \in Nat \ {0} /\ DOMAIN stack = 1..Len(stack)
        /\ stack \in Seq(Routine)
    BY TopOfStack DEF TypeOK
  <1>2. /\ stack' \in Seq(Routine)
        /\ Len(stack') = Len(stack) - 1
        /\ \A i \in 1..(Len(stack) - 1) : stack'[i] = stack[i]
    BY <1>1
  <1> QED
    BY <1>1, <1>2

-----------------------------------------------------------------------------
(* The running routine does one more step.                                 *)

\* What a step of the running routine has to establish: t is the routine after
\* the step.
LEMMA TopStep ==
  ASSUME IInv, stack # <<>>, UNCHANGED device,
         NEW t \in Routine, t.uart = Top.uart, t.name = Top.name,
         stack' = [stack EXCEPT ![Len(stack)] = t],
         {startIE, startIF, matchIE, matchIF, frame}' \subseteq SUBSET device.uarts,
         gie' = TRUE, t.pc # "sei",
         t.r \subseteq device.uarts,
         t.name = "PUT" => t.pc # "branch",
         device.apart /\ t.name = "COMPARE" /\ t.pc \in {"mask", "store", "arm"} =>
           t.uart \notin frame',
         t.name = "COMPARE" /\ ~ device.matchHigh => t.pc # "store",
         frame' \subseteq frame \cup {t.uart},
         MatchArmed',
         \/ t.pc \in {"mask", "store", "arm"}
         \/ t.uart \in startIE' \cup matchIE'
         \/ Top.pc \in {"sei", "branch"} /\ UNCHANGED <<startIE, matchIE>>
  PROVE  IInv'
  <1> USE DEF IInv
  <1> DEFINE n == Len(stack)
  <1>1. /\ n \in DOMAIN stack /\ Top = stack[n]
        /\ stack' \in Seq(Routine) /\ DOMAIN stack' = DOMAIN stack
        /\ DOMAIN stack = 1..n /\ Len(stack') = n
        /\ stack'[n] = t /\ Top' = t
        /\ \A i \in DOMAIN stack : i # n => stack'[i] = stack[i]
    BY TopOfStack, TopChanged DEF Top
  <1>d. n <= Depth
    BY DEF TypeOK
  <1> HIDE DEF n
  <1>2. \A i \in DOMAIN stack : /\ stack'[i].uart = stack[i].uart
                               /\ stack'[i].name = stack[i].name
    BY <1>1
  <1>4. TypeOK'
    <2>1. Len(stack') <= Depth
      BY <1>1, <1>d
    <2> QED
      BY <1>1, <1>2, <2>1 DEF TypeOK
  <1>5. RoutinesOK'
    <2> SUFFICES ASSUME NEW i \in DOMAIN stack PROVE Sound(stack[i])'
      BY <1>1 DEF RoutinesOK
    <2>1. Sound(stack[i]) /\ Sound(stack[n])
      BY <1>1 DEF RoutinesOK
    <2>2. CASE i = n
      BY <1>1, <2>1, <2>2 DEF Sound
    <2>3. CASE i # n
      <3>1. CASE t.name = "PUT"
        <4>1. n = 1
          BY <1>1, <3>1 DEF TypeOK
        <4> QED
          BY <1>1, <2>3, <4>1
      <3>2. CASE t.name # "PUT"
        <4>1. device.apart /\ stack[i].name = "COMPARE" => stack[i].uart # t.uart
          BY <1>1, <2>3, <3>2 DEF OwnApart
        <4>2. stack'[i] = stack[i]
          BY <1>1, <2>3
        <4> QED
          BY <2>1, <4>1, <4>2 DEF Sound
      <3> QED
        BY <3>1, <3>2
    <2> QED
      BY <2>2, <2>3
  <1>6. OwnApart'
    BY <1>1, <1>2 DEF OwnApart
  <1>7. Alone' <=> Alone
    BY DEF Alone
  <1>8. ASSUME Alone PROVE Deaf' = {}
    <2>1. \A u \in device.uarts : u = t.uart
      BY <1>1, <1>8 DEF Alone, RoutinesOK, Sound
    <2>2. CASE t.pc \in {"mask", "store", "arm"}
      BY <1>1, <2>1, <2>2 DEF Deaf, Exchanging
    <2>3. CASE t.uart \in startIE' \cup matchIE'
      BY <2>1, <2>3 DEF Deaf
    <2>4. CASE Top.pc \in {"sei", "branch"} /\ UNCHANGED <<startIE, matchIE>>
      <3>1. \A u : Exchanging(u) => Exchanging(u)'
        BY <1>1, <2>4 DEF Exchanging
      <3> QED
        BY <1>8, <2>4, <3>1 DEF NeverDeafAlone, Deaf
    <2> QED
      BY <2>2, <2>3, <2>4
  <1>9. NeverDeafAlone'
    BY <1>7, <1>8 DEF NeverDeafAlone
  <1> QED
    BY <1>4, <1>5, <1>6, <1>9

\* The running routine satisfies Sound; interrupts are enabled unless it has
\* just been entered.
LEMMA RunningFacts ==
  ASSUME IInv, stack # <<>>
  PROVE  /\ Top \in Routine /\ Sound(Top)
         /\ Top.pc # "sei" => gie = TRUE
  BY TopOfStack DEF IInv, RoutinesOK, TypeOK, Running, Top

\* sei: only gie changes.
LEMMA SeiStep ==
  ASSUME IInv, Sei
  PROVE  IInv'
  <1> DEFINE t == [Top EXCEPT !.pc = "branch"]
  <1>1. stack # <<>> /\ Top.name \in {"START", "COMPARE"} /\ Top.pc = "sei"
    BY DEF Sei, Running
  <1>2. t \in Routine /\ stack' = [stack EXCEPT ![Len(stack)] = t]
    BY <1>1, GotoStep DEF Sei, IInv
  <1>3. /\ t.uart = Top.uart /\ t.pc = "branch"
        /\ t.name = Top.name /\ t.r = Top.r
    BY <1>1, RunningFacts DEF Routine
  <1> HIDE DEF t
  <1>4. MatchArmed'
    BY DEF IInv, MatchArmed, Sei
  <1>5. {startIE, startIF, matchIE, matchIF, frame}' \subseteq SUBSET device.uarts
    BY DEF IInv, TypeOK, Sei
  <1> QED
    BY <1>1, <1>2, <1>3, <1>4, <1>5, TopStep, RunningFacts DEF Sei, Sound

\* Nothing to do: the handler returns.
LEMMA SkipStep ==
  ASSUME IInv, Skip
  PROVE  IInv'
  <1> DEFINE t == [Top EXCEPT !.pc = "ret"]
  <1>1. stack # <<>> /\ Top.name \in {"START", "COMPARE"} /\ Top.pc = "branch"
    BY DEF Skip, Running
  <1>2. t \in Routine /\ stack' = [stack EXCEPT ![Len(stack)] = t]
    BY <1>1, GotoStep DEF Skip, IInv
  <1>3. /\ t.uart = Top.uart /\ t.pc = "ret"
        /\ t.name = Top.name /\ t.r = Top.r
    BY <1>1, RunningFacts DEF Routine
  <1> HIDE DEF t
  <1>4. MatchArmed'
    BY DEF IInv, MatchArmed, Skip
  <1>5. {startIE, startIF, matchIE, matchIF, frame}' \subseteq SUBSET device.uarts
    BY DEF IInv, TypeOK, Skip
  <1> QED
    BY <1>1, <1>2, <1>3, <1>4, <1>5, TopStep, RunningFacts DEF Skip, Sound

\* The last bit of a frame leaves its UART out of frame, before XCB MATCH_IE.
LEMMA GoStep ==
  ASSUME IInv, Go
  PROVE  IInv'
  <1> DEFINE t == [Top EXCEPT !.pc = "mask"]
  <1>1. stack # <<>> /\ Top.name \in {"START", "COMPARE"} /\ Top.pc = "branch"
    BY DEF Go, Running
  <1>2. t \in Routine /\ stack' = [stack EXCEPT ![Len(stack)] = t]
    BY <1>1, GotoStep DEF Go, IInv
  <1>3. /\ t.uart = Top.uart /\ t.pc = "mask"
        /\ t.name = Top.name /\ t.r = Top.r
    BY <1>1, RunningFacts DEF Routine
  <1> HIDE DEF t
  <1>4. frame' \subseteq frame
    BY DEF Go
  <1>5. MatchArmed'
    BY <1>4 DEF IInv, MatchArmed, Go
  <1>6. {startIE, startIF, matchIE, matchIF, frame}' \subseteq SUBSET device.uarts
    BY <1>4 DEF IInv, TypeOK, Go
  <1>7. t.name = "COMPARE" => t.uart \notin frame'
    BY <1>3 DEF Go
  <1> QED
    BY <1>1, <1>2, <1>3, <1>4, <1>5, <1>6, <1>7, TopStep, RunningFacts DEF Go, Sound

\* XCB START_IE: nothing relies on START_IE while the routine has not armed
\* MATCH_IE.
LEMMA MaskStartStep ==
  ASSUME IInv, MaskStart
  PROVE  IInv'
  <1>1. stack # <<>> /\ Top.name \in {"START", "PUT"} /\ Top.pc = "mask"
    BY DEF MaskStart, Running
  <1>2. Top \in Routine /\ Sound(Top) /\ gie = TRUE
    BY <1>1, RunningFacts
  <1>3. MatchArmed'
    BY DEF IInv, MatchArmed, MaskStart
  <1>4. {startIE, startIF, matchIE, matchIF, frame}' \subseteq SUBSET device.uarts
    BY DEF IInv, TypeOK, MaskStart
  <1>5. CASE device.startHigh
    <2> DEFINE t == [Top EXCEPT !.r = startIE \ {Top.uart}, !.pc = "store"]
    <2>1. startIE \subseteq device.uarts /\ device.uarts \subseteq Uarts
      BY DevicesAssumption DEF IInv, TypeOK
    <2>2. /\ t \in Routine /\ t.uart = Top.uart /\ t.pc = "store"
          /\ t.name = Top.name /\ t.r \subseteq device.uarts
      BY <1>2, <2>1 DEF Routine
    <2>3. stack' = [stack EXCEPT ![Len(stack)] = t]
      BY <1>5 DEF MaskStart, Top
    <2> HIDE DEF t
    <2> QED
      BY <1>1, <1>2, <1>3, <1>4, <2>2, <2>3, TopStep DEF MaskStart
  <1>6. CASE ~ device.startHigh
    <2> DEFINE t == [Top EXCEPT !.pc = "arm"]
    <2>1. t \in Routine /\ stack' = [stack EXCEPT ![Len(stack)] = t]
      BY <1>1, <1>6, GotoStep DEF MaskStart, IInv
    <2>2. /\ t.uart = Top.uart /\ t.pc = "arm"
          /\ t.name = Top.name /\ t.r = Top.r
      BY <1>2 DEF Routine
    <2> HIDE DEF t
    <2> QED
      BY <1>1, <1>2, <1>3, <1>4, <2>1, <2>2, TopStep DEF MaskStart, Sound
  <1> QED
    BY <1>5, <1>6

\* XCB MATCH_IE: the UART is in no frame; with one instruction, no other
\* UART loses its MATCH_IE.
LEMMA MaskMatchStep ==
  ASSUME IInv, MaskMatch
  PROVE  IInv'
  <1>1. stack # <<>> /\ Top.name = "COMPARE" /\ Top.pc = "mask"
    BY DEF MaskMatch, Running
  <1>2. Top \in Routine /\ Sound(Top) /\ gie = TRUE
    BY <1>1, RunningFacts
  <1>3. device.apart => Top.uart \notin frame
    BY <1>1, <1>2 DEF Sound
  <1>4. MatchArmed'
    BY <1>3 DEF IInv, MatchArmed, MaskMatch
  <1>5. {startIE, startIF, matchIE, matchIF, frame}' \subseteq SUBSET device.uarts
    BY DEF IInv, TypeOK, MaskMatch
  <1>6. CASE device.matchHigh
    <2> DEFINE t == [Top EXCEPT !.r = matchIE \ {Top.uart}, !.pc = "store"]
    <2>1. matchIE \subseteq device.uarts /\ device.uarts \subseteq Uarts
      BY DevicesAssumption DEF IInv, TypeOK
    <2>2. /\ t \in Routine /\ t.uart = Top.uart /\ t.pc = "store"
          /\ t.name = Top.name /\ t.r \subseteq device.uarts
      BY <1>2, <2>1 DEF Routine
    <2>3. stack' = [stack EXCEPT ![Len(stack)] = t]
      BY <1>6 DEF MaskMatch, Top
    <2> HIDE DEF t
    <2> QED
      BY <1>1, <1>2, <1>3, <1>4, <1>5, <1>6, <2>2, <2>3, TopStep DEF MaskMatch
  <1>7. CASE ~ device.matchHigh
    <2> DEFINE t == [Top EXCEPT !.pc = "arm"]
    <2>1. t \in Routine /\ stack' = [stack EXCEPT ![Len(stack)] = t]
      BY <1>1, <1>7, GotoStep DEF MaskMatch, IInv
    <2>2. /\ t.uart = Top.uart /\ t.pc = "arm"
          /\ t.name = Top.name /\ t.r = Top.r
      BY <1>2 DEF Routine
    <2> HIDE DEF t
    <2> QED
      BY <1>1, <1>2, <1>3, <1>4, <1>5, <2>1, <2>2, TopStep DEF MaskMatch, Sound
  <1> QED
    BY <1>6, <1>7

\* The store that ends XCB writes MATCH_IE only on a device with matchHigh.
LEMMA StoreStep ==
  ASSUME IInv, Store
  PROVE  IInv'
  <1> DEFINE t == [Top EXCEPT !.pc = "arm"]
  <1>1. stack # <<>> /\ Top.pc = "store"
    BY DEF Store
  <1>2. Top \in Routine /\ Sound(Top) /\ gie = TRUE
    BY <1>1, RunningFacts
  <1>3. t \in Routine /\ stack' = [stack EXCEPT ![Len(stack)] = t]
    BY <1>1, GotoStep DEF Store, IInv
  <1>4. /\ t.uart = Top.uart /\ t.pc = "arm"
        /\ t.name = Top.name /\ t.r = Top.r
    BY <1>2 DEF Routine
  <1> HIDE DEF t
  <1>5. MatchArmed'
    BY <1>1, <1>2 DEF IInv, MatchArmed, Store, Sound
  <1>6. {startIE, startIF, matchIE, matchIF, frame}' \subseteq SUBSET device.uarts
    BY <1>2 DEF IInv, TypeOK, Store, Sound
  <1> QED
    BY <1>1, <1>2, <1>3, <1>4, <1>5, <1>6, TopStep DEF Store, Sound

\* A frame starts with MATCH_IE set.
LEMMA ArmMatchStep ==
  ASSUME IInv, ArmMatch
  PROVE  IInv'
  <1> DEFINE t == [Top EXCEPT !.pc = "ret"]
  <1>1. stack # <<>> /\ Top.name \in {"START", "PUT"} /\ Top.pc = "arm"
    BY DEF ArmMatch, Running
  <1>2. Top \in Routine /\ Sound(Top) /\ gie = TRUE
    BY <1>1, RunningFacts
  <1>3. t \in Routine /\ stack' = [stack EXCEPT ![Len(stack)] = t]
    BY <1>1, GotoStep DEF ArmMatch, IInv
  <1>4. /\ t.uart = Top.uart /\ t.pc = "ret"
        /\ t.name = Top.name /\ t.r = Top.r
    BY <1>2 DEF Routine
  <1> HIDE DEF t
  <1>5. MatchArmed'
    BY DEF IInv, MatchArmed, ArmMatch
  <1>6. {startIE, startIF, matchIE, matchIF, frame}' \subseteq SUBSET device.uarts
    BY <1>2 DEF IInv, TypeOK, ArmMatch, Sound
  <1>7. /\ frame' \subseteq frame \cup {t.uart}
        /\ t.uart \in startIE' \cup matchIE'
    BY <1>4 DEF ArmMatch
  <1> QED
    BY <1>1, <1>2, <1>3, <1>4, <1>5, <1>6, <1>7, TopStep DEF ArmMatch, Sound

\* The end of a frame leaves START_IE set.
LEMMA ArmStartStep ==
  ASSUME IInv, ArmStart
  PROVE  IInv'
  <1> DEFINE t == [Top EXCEPT !.pc = "ret"]
  <1>1. stack # <<>> /\ Top.name = "COMPARE" /\ Top.pc = "arm"
    BY DEF ArmStart, Running
  <1>2. Top \in Routine /\ Sound(Top) /\ gie = TRUE
    BY <1>1, RunningFacts
  <1>3. t \in Routine /\ stack' = [stack EXCEPT ![Len(stack)] = t]
    BY <1>1, GotoStep DEF ArmStart, IInv
  <1>4. /\ t.uart = Top.uart /\ t.pc = "ret"
        /\ t.name = Top.name /\ t.r = Top.r
    BY <1>2 DEF Routine
  <1> HIDE DEF t
  <1>5. MatchArmed'
    BY DEF IInv, MatchArmed, ArmStart
  <1>6. {startIE, startIF, matchIE, matchIF, frame}' \subseteq SUBSET device.uarts
    BY <1>2 DEF IInv, TypeOK, ArmStart, Sound
  <1>7. t.uart \in startIE' \cup matchIE'
    BY <1>4 DEF ArmStart
  <1> QED
    BY <1>1, <1>2, <1>3, <1>4, <1>5, <1>6, <1>7, TopStep DEF ArmStart, Sound

-----------------------------------------------------------------------------
(* A routine starts, a routine ends.                                       *)

\* What the entry of a routine has to establish.
LEMMA EntryStep ==
  ASSUME IInv, UNCHANGED <<device, startIE, matchIE, frame>>,
         {startIF, matchIF}' \subseteq SUBSET device.uarts,
         NEW name \in {"START", "COMPARE", "PUT"}, NEW u \in device.uarts,
         NEW pc \in {"sei", "mask"}, Enter(name, u, pc), Len(stack) < Depth,
         name = "PUT" => pc = "mask" /\ gie' = TRUE /\ stack = <<>>,
         name # "PUT" => /\ pc = "sei" /\ gie' = FALSE
                         /\ device.apart => ~ Handling(u)
  PROVE  IInv'
  <1> USE DEF IInv
  <1> DEFINE n == Len(stack)
             t == [name |-> name, uart |-> u, pc |-> pc, r |-> {}]
  <1>1. u \in Uarts
    BY DevicesAssumption DEF TypeOK
  <1>2. /\ stack' \in Seq(Routine) /\ stack' # <<>>
        /\ DOMAIN stack = 1..n /\ DOMAIN stack' = 1..(n + 1)
        /\ n \in Nat /\ Len(stack') = n + 1
        /\ Top' = t /\ stack'[n + 1] = t
        /\ \A i \in DOMAIN stack : stack'[i] = stack[i]
    BY <1>1, EnterStep
  <1>3. t.name = name /\ t.uart = u /\ t.pc = pc /\ t.r = {}
    OBVIOUS
  <1>l. Len(stack') <= Depth
    BY <1>2, DepthAssumption
  <1>p. name = "PUT" => n = 0
    OBVIOUS
  <1> HIDE DEF n, t
  <1>4. \A i \in DOMAIN stack' : i = n + 1 \/ i \in DOMAIN stack
    BY <1>2
  <1>5. \A i \in DOMAIN stack' : stack'[i].name = "PUT" => i = 1
    BY <1>2, <1>3, <1>4, <1>p DEF TypeOK
  <1>6. gie' \in BOOLEAN /\ (gie' \/ Running({"START", "COMPARE"}, "sei")')
    BY <1>2, <1>3 DEF Running
  <1>7. TypeOK'
    BY <1>2, <1>5, <1>6, <1>l DEF TypeOK
  <1>8. OwnApart'
    <2> SUFFICES ASSUME device.apart, NEW i \in DOMAIN stack', NEW j \in DOMAIN stack',
                        stack'[i].name # "PUT", stack'[j].name # "PUT",
                        stack'[i].uart = stack'[j].uart
                 PROVE  i = j
      BY DEF OwnApart
    <2>1. \A k \in DOMAIN stack : stack[k].name # "PUT" /\ name # "PUT" => stack[k].uart # u
      BY DEF Handling
    <2>2. CASE i \in DOMAIN stack /\ j \in DOMAIN stack
      BY <1>2, <2>2 DEF OwnApart
    <2>3. CASE i = n + 1 /\ j \in DOMAIN stack
      BY <1>2, <1>3, <2>1, <2>3
    <2>4. CASE i \in DOMAIN stack /\ j = n + 1
      BY <1>2, <1>3, <2>1, <2>4
    <2> QED
      BY <1>4, <2>2, <2>3, <2>4
  <1>9. RoutinesOK'
    <2> SUFFICES ASSUME NEW i \in DOMAIN stack' PROVE Sound(stack[i])'
      BY DEF RoutinesOK
    <2>1. CASE i = n + 1
      BY <1>2, <1>3, <2>1 DEF Sound
    <2>2. CASE i \in DOMAIN stack
      BY <1>2, <2>2 DEF Sound, RoutinesOK
    <2> QED
      BY <1>4, <2>1, <2>2
  <1>10. MatchArmed'
    BY DEF MatchArmed
  <1>11. \A v : Exchanging(v) => Exchanging(v)'
    BY <1>2, <1>4 DEF Exchanging
  <1>12. NeverDeafAlone'
    BY <1>11 DEF NeverDeafAlone, Deaf, Alone
  <1> QED
    BY <1>7, <1>8, <1>9, <1>10, <1>12

LEMMA StartIRQStep ==
  ASSUME IInv, NEW u \in Uarts, StartIRQ(u)
  PROVE  IInv'
  <1>1. u \in device.uarts /\ u \in startIE
    BY DEF IInv, TypeOK, StartIRQ
  <1>2. {startIF, matchIF}' \subseteq SUBSET device.uarts
    BY DEF IInv, TypeOK, StartIRQ
  <1> QED
    BY <1>1, <1>2, EntryStep DEF StartIRQ, Interruptible

LEMMA MatchIRQStep ==
  ASSUME IInv, NEW u \in Uarts, MatchIRQ(u)
  PROVE  IInv'
  <1>1. u \in device.uarts /\ u \in matchIE
    BY DEF IInv, TypeOK, MatchIRQ
  <1>2. {startIF, matchIF}' \subseteq SUBSET device.uarts
    BY DEF IInv, TypeOK, MatchIRQ
  <1> QED
    BY <1>1, <1>2, EntryStep DEF MatchIRQ, Interruptible

\* putbyte is called by the program: no handler runs, interrupts are enabled.
LEMMA PutStep ==
  ASSUME IInv, NEW u \in Uarts, Put(u)
  PROVE  IInv'
  <1>1. u \in device.uarts /\ stack = <<>> /\ gie' = TRUE /\ Len(stack) < Depth
    BY DepthAssumption DEF IInv, TypeOK, Put, Running
  <1>2. {startIF, matchIF}' \subseteq SUBSET device.uarts
    BY DEF IInv, TypeOK, Put
  <1> QED
    BY <1>1, <1>2, EntryStep DEF Put

\* A routine that returns has exchanged its masks, if it had to.
LEMMA ReturnPreserves ==
  ASSUME IInv, Return
  PROVE  IInv'
  <1> USE DEF IInv
  <1>1. /\ stack # <<>> /\ Top.pc = "ret" /\ gie' = TRUE
        /\ UNCHANGED <<device, startIE, startIF, matchIE, matchIF, frame>>
    BY DEF Return
  <1>2. /\ stack' \in Seq(Routine)
        /\ DOMAIN stack' = 1..(Len(stack) - 1)
        /\ DOMAIN stack = 1..Len(stack) /\ Len(stack) \in Nat \ {0}
        /\ \A i \in DOMAIN stack' : i \in DOMAIN stack /\ stack'[i] = stack[i]
    BY ReturnStep DEF Return
  <1>3. TypeOK'
    <2>1. Len(stack') <= Depth
      BY <1>2, DepthAssumption DEF TypeOK
    <2> QED
      BY <1>1, <1>2, <2>1 DEF TypeOK
  <1>4. RoutinesOK' /\ OwnApart'
    BY <1>1, <1>2 DEF RoutinesOK, Sound, OwnApart
  <1>5. MatchArmed'
    BY <1>1 DEF MatchArmed
  <1>6. \A v : Exchanging(v) => Exchanging(v)'
    <2>1. \A i \in DOMAIN stack : i # Len(stack) => i \in DOMAIN stack'
      BY <1>2
    <2> QED
      BY <1>1, <1>2, <2>1 DEF Exchanging, Top
  <1>7. NeverDeafAlone'
    BY <1>1, <1>6 DEF NeverDeafAlone, Deaf, Alone
  <1> QED
    BY <1>3, <1>4, <1>5, <1>7

-----------------------------------------------------------------------------
(* The invariant.                                                          *)

LEMMA InitIInv == Init => IInv
  <1> SUFFICES ASSUME Init PROVE IInv
    OBVIOUS
  <1>1. stack \in Seq(Routine) /\ DOMAIN stack = {}
    BY EmptySeq DEF Init
  <1>2. device \in Devices /\ Deaf = {}
    BY DEF Init, Deaf
  <1> QED
    BY <1>1, <1>2, DepthAssumption DEF Init, IInv, TypeOK, RoutinesOK, OwnApart, MatchArmed,
                                       NeverDeafAlone

\* A flag that rises, or nothing at all, disturbs no part of the invariant.
LEMMA FlagStep ==
  ASSUME IInv, UNCHANGED <<device, startIE, matchIE, frame, gie, stack>>,
         {startIF, matchIF}' \subseteq SUBSET device.uarts
  PROVE  IInv'
  <1>1. TypeOK'
    BY DEF IInv, TypeOK, Running, Top
  <1>2. RoutinesOK' /\ OwnApart' /\ MatchArmed'
    BY DEF IInv, RoutinesOK, OwnApart, Sound, MatchArmed
  <1>3. NeverDeafAlone'
    BY DEF IInv, NeverDeafAlone, Alone, Deaf, Exchanging
  <1> QED
    BY <1>1, <1>2, <1>3 DEF IInv

LEMMA NextIInv == IInv /\ [Next]_vars => IInv'
  <1> SUFFICES ASSUME IInv, [Next]_vars PROVE IInv'
    OBVIOUS
  <1>1. CASE Step
    BY <1>1, SeiStep, SkipStep, GoStep, MaskStartStep, MaskMatchStep, StoreStep,
       ArmMatchStep, ArmStartStep, ReturnPreserves DEF Step
  <1>2. ASSUME NEW u \in Uarts, PinChange(u) PROVE IInv'
    BY <1>2, FlagStep DEF PinChange, IInv, TypeOK
  <1>3. ASSUME NEW u \in Uarts, Match(u) PROVE IInv'
    BY <1>3, FlagStep DEF Match, IInv, TypeOK
  <1>4. CASE UNCHANGED vars
    BY <1>4, FlagStep DEF vars, IInv, TypeOK
  <1> QED
    BY <1>1, <1>2, <1>3, <1>4, StartIRQStep, MatchIRQStep, PutStep DEF Next

LEMMA Invariance == Spec => []IInv
  BY InitIInv, NextIInv, PTL DEF Spec

-----------------------------------------------------------------------------
(* The theorems.                                                           *)

\* Interrupts are off only between the entry of a handler and its sei
\* (swuarta.sx 193-218, 326-381), and putbyte is never on top of a handler.
THEOREM TypeCorrect == Spec => []TypeOK
  BY Invariance, PTL DEF IInv

\* Where XCB MATCH_IE (swuarta.sx 478, 613) is one instruction, a UART in a
\* frame keeps the interrupts of its compare unit, however many UARTs nest
\* their handlers and wherever they interrupt putbyte.
THEOREM MatchArmedCorrect == Spec => []MatchArmed
  BY Invariance, PTL DEF IInv

\* A UART alone on its device always has START_IE or MATCH_IE unless one of its
\* routines is exchanging them, whatever XCB is made of and however its handlers
\* interrupt putbyte and one another.
THEOREM NeverDeafAloneCorrect == Spec => []NeverDeafAlone
  BY Invariance, PTL DEF IInv
=============================================================================
