----------------------------- MODULE MCCounter -----------------------------
(***************************************************************************)
(* Instances of Counter for TLC: for each class, every counting request    *)
(* with one clock and every pair of requests of the compare units, then a  *)
(* second commit; and every clock with a few of them.                      *)
(***************************************************************************)
EXTENDS Counter, FiniteSets, TLC

\* Only these updates and outputs.
Some(calls, updates, outputs) ==
  {c \in calls : c.update \in updates /\ c.output \in outputs}

\* Without the optional arguments: the previous ones stay.
ShortCalls == [clock : {64}, countmode : CountModes, top : {Unset}, overflow : {Unset}]

\* 8-bit counters with two compare units.
Pair(class, updates, outputs) ==
  [class  |-> class,
   rounds |-> << ("counter"  :> CounterCalls(class, {64}))
                 @@ ("compare0" :> CompareArguments8a)
                 @@ ("compare1" :> Some(CompareArguments8a, updates, outputs)),
                 ("counter"  :> ShortCalls)
                 @@ ("compare1" :> Some(CompareArguments8a, {Unset}, {"DIS", "ToM", "SaBCoM"})) >>]

Pair16 ==
  [class  |-> "c16a",
   rounds |-> << ("counter"  :> CounterCalls("c16a", {64}))
                 @@ ("compare0" :> CompareArguments16a)
                 @@ ("compare1" :> Some(CompareArguments16a, {Unset, "at_top"},
                       {Unset, "DIS", "CoM", "CaBSoM", "SmuCmd"})),
                 ("counter" :> ShortCalls) >>]

Triple16 ==
  [class  |-> "c16b",
   rounds |-> << ("counter"  :> CounterCalls("c16b", {64}))
                 @@ ("compare0" :> Some(CompareArguments16a, Updates \cup {Unset},
                       {Unset, "ToM", "SoM", "SaBCoM", "CmuSmd"}))
                 @@ ("compare1" :> Some(CompareArguments16a, {Unset, "at_top"},
                       {Unset, "DIS", "SmuCmd"}))
                 @@ ("compare2" :> Some(CompareArguments16a, {Unset, "at_bottom"},
                       {Unset, "CoM"})),
                 ("counter" :> ShortCalls) >>]

Capturing(class, calls) ==
  [class  |-> class,
   rounds |-> << ("counter"  :> CounterCalls(class, {8})) @@ ("capture0" :> calls),
                 ("capture0" :> calls) >>]

EveryClock(class) ==
  [class  |-> class,
   rounds |-> << ("counter"  :> CounterCalls(class, Clocks(class)))
                 @@ ("compare1" :> Some(CompareArguments8a, {Unset}, {"CoM", "SaBCoM"})) >>]

\* Class _c8b, where the compare units have a complementary pin.
Complementary ==
  [class  |-> "c8b",
   rounds |-> << ("counter"  :> Calls8b({64})) @@ ("irq" :> {0, 1})
                 @@ ("compare0" :> CompareArguments8b) @@ ("compare1" :> CompareArguments8b),
                 ("counter"  :> Calls8b({0, 1024})) @@ ("irq" :> {0, 1})
                 @@ ("compare0" :> CompareArguments8b) >>]

EveryClock8b ==
  [class |-> "c8b", rounds |-> << "counter" :> Calls8b(Clocks("c8b")) >>]

Table ==
     ("c8a" :> Pair("c8a", {Unset, "immediately", "at_bottom"}, Outputs \cup {Unset}))
  @@ ("c8c" :> Pair("c8c", {Unset, "at_top"}, {Unset, "DIS", "CoM", "CaBSoM", "SmuCmd"}))
  @@ ("c16a" :> Pair16) @@ ("c16b" :> Triple16) @@ ("c8b" :> Complementary)
  @@ ("capture a" :> Capturing("c16a", CaptureArguments16a))
  @@ ("capture b" :> Capturing("c16b", CaptureArguments16a))
  @@ ("capture b, input" :> Capturing("c16b", CaptureArguments16b))
  @@ ("clocks a" :> EveryClock("c8a")) @@ ("clocks c" :> EveryClock("c8c"))
  @@ ("clocks 16" :> EveryClock("c16a")) @@ ("clocks b" :> EveryClock8b)

\* The same function as a value that TLC computes once.
MCPrograms == [p \in DOMAIN Table |-> Table[p]]
=============================================================================
