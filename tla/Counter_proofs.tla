--------------------------- MODULE Counter_proofs ---------------------------
(***************************************************************************)
(* The hardware of a counter does what the program asked, for every        *)
(* program of every class and any number of commits.                       *)
(*                                                                         *)
(* The solvers are treated first: what a solution without error says of    *)
(* the mode, and which modes a refusal excludes.  The invariant then says  *)
(* that a committed context is a fixed point of the solver: the registers  *)
(* hold the solution of the very arguments the context keeps, which is not *)
(* obvious since the commit changes them (the default top value is stored, *)
(* what was written is forgotten).                                         *)
(***************************************************************************)
EXTENDS Counter, TLAPS

-----------------------------------------------------------------------------
(* The operators on fields and on checks.                                  *)

LEMMA FieldDomain ==
  ASSUME NEW f, NEW g
  PROVE  DOMAIN Over(f, g) = DOMAIN f \cup DOMAIN g
  BY DEF Over

LEMMA FieldIn ==
  ASSUME NEW f, NEW g, NEW x \in DOMAIN f
  PROVE  Over(f, g)[x] = f[x]
  BY DEF Over

LEMMA FieldNotIn ==
  ASSUME NEW f, NEW g, NEW x \in DOMAIN g, x \notin DOMAIN f
  PROVE  Over(f, g)[x] = g[x]
  BY DEF Over

LEMMA FieldFunction ==
  ASSUME NEW f, NEW g
  PROVE  Over(f, g) = [x \in DOMAIN f \cup DOMAIN g |-> Over(f, g)[x]]
  BY DEF Over

LEMMA OneDomain ==
  ASSUME NEW f, NEW v
  PROVE  DOMAIN Field(f, v) = {f}
  BY DEF Field

LEMMA OneValue ==
  ASSUME NEW f, NEW v
  PROVE  Field(f, v)[f] = v
  BY DEF Field

LEMMA OneMore ==
  ASSUME NEW f, NEW v, NEW g
  PROVE  DOMAIN Over(Field(f, v), g) = {f} \cup DOMAIN g
  <1>1. DOMAIN Over(Field(f, v), g) = DOMAIN Field(f, v) \cup DOMAIN g
    BY FieldDomain
  <1> QED
    BY <1>1, OneDomain, Zenon

LEMMA FieldNone == DOMAIN NoField = {}
  BY DEF NoField

\* A field that is written twice with the same value is written once.
LEMMA OverSame ==
  ASSUME NEW f, NEW D, NEW g, DOMAIN g = D, DOMAIN f \subseteq D,
         g = [x \in D |-> g[x]], \A x \in DOMAIN f : g[x] = f[x]
  PROVE  Over(f, g) = g
  <1>1. DOMAIN f \cup DOMAIN g = D
    OBVIOUS
  <1>2. Over(f, g) = [x \in D |-> g[x]]
    BY <1>1 DEF Over
  <1> QED
    BY <1>2

\* No check fails when all the codes are 0.
LEMMA FirstErrorZero ==
  ASSUME NEW a, NEW b, NEW c, NEW d
  PROVE  FirstError(<<a, b, c, d>>) = 0 <=> a = 0 /\ b = 0 /\ c = 0 /\ d = 0
  <1> DEFINE s == <<a, b, c, d>>
             failed == {i \in 1..4 : s[i] # 0}
  <1>1. DOMAIN s = 1..4
    OBVIOUS
  <1>2. CASE failed # {}
    <2>1. \E i \in failed : \A j \in failed : i <= j
      BY <1>2
    <2>2. PICK k \in failed : k = CHOOSE i \in failed : \A j \in failed : i <= j
      BY <2>1
    <2>3. FirstError(s) = s[k]
      BY <1>1, <1>2, <2>2 DEF FirstError
    <2> QED
      BY <2>3
  <1>3. CASE failed = {}
    <2>1. FirstError(s) = 0
      BY <1>1, <1>3 DEF FirstError
    <2> QED
      BY <1>3, <2>1
  <1> QED
    BY <1>2, <1>3

LEMMA NoCheckNoError == FirstError(<<>>) = 0
  <1>1. DOMAIN <<>> = {}
    OBVIOUS
  <1> QED
    BY <1>1 DEF FirstError

-----------------------------------------------------------------------------
(* What is in the context.                                                 *)

\* The codes of the clocks, 0 for none.
Codes(class) == 0..(IF class = "c8c" THEN 8 ELSE 7)

CounterConfigs(class) ==
  [clock : Codes(class) \cup {Unset}, countmode : CountModes \cup {Unset},
   top : Tops(class) \cup {Unset}, overflow : Overflows \cup {Unset}]

CompareConfigs(class) ==
  IF class = "c8b" THEN CompareArguments8b ELSE CompareArguments8a

(* The arguments that are kept are those of the calls: a counter that has a *)
(* clock has a counting mode, class _c8b keeps nothing of its counter, only *)
(* class _c16b has a third unit that can be configured and only 16-bit      *)
(* counters have a capture unit.                                            *)
ConfigOK(class, c) ==
  /\ DOMAIN c = Units \cup {"counter"} /\ c = [u \in Units \cup {"counter"} |-> c[u]]
  /\ c["counter"] \in CounterConfigs(class)
  /\ c["counter"].clock # Unset => c["counter"].countmode # Unset
  /\ class = "c8b" => c["counter"].clock = Unset
  /\ \A u \in CompareUnits : c[u] \in CompareConfigs(class)
  /\ class # "c16b" => c["compare2"] = NoCompare
  /\ class \notin Bits16 => c["capture0"] = NoCapture
  /\ c["capture0"] \in CaptureArguments16a

LEMMA TopsOf ==
  ASSUME NEW class \in Classes
  PROVE  /\ class \in {"c8a", "c8c"} => Tops(class) = {"max", "compare0"}
         /\ class \in Bits16 =>
              Tops(class) = {"0xFF", "0x1FF", "0x3FF", "max", "capture0", "compare0"}
         /\ class = "c8b" => Tops(class) = {"max", "compare2"}
         /\ Arguments(class).countmodes \subseteq CountModes
         /\ Arguments(class).overflows \subseteq Overflows
  BY DEF Tops, Arguments, Arguments8a, Arguments8b, Arguments8c, Arguments16a,
         Arguments16b, Classes, Bits16, CountModes, Overflows

\* The default top value is stored once.
LEMMA StoredTopStable ==
  ASSUME NEW class \in Classes, NEW c \in CounterConfigs(class)
  PROVE  LET d == [c EXCEPT !.top = StoredTop(c)]
         IN /\ d \in CounterConfigs(class)
            /\ d.clock = c.clock /\ d.countmode = c.countmode /\ d.overflow = c.overflow
            /\ d.top = StoredTop(c)
            /\ c.clock # Unset => d.top # Unset /\ d.top = TopOf(c)
            /\ c.clock # Unset => TopOf(d) = TopOf(c)
            /\ c.clock # Unset => OverflowOf(d) = OverflowOf(c)
            /\ StoredTop(d) = d.top
  BY TopsOf, UnsetAssumption DEF CounterConfigs, StoredTop, TopOf, OverflowOf, Classes, Bits16

-----------------------------------------------------------------------------
(* The solvers against the tables of the data sheets.                      *)

\* The checks of the 8-bit solvers are what the mode allows.
LEMMA Checks8 ==
  ASSUME NEW m \in Modes8, NEW v \in Outputs, NEW update, NEW overflow
  PROVE  /\ OutputA8(m.wgm, v) = 0 <=> v \in m.oca
         /\ OutputB8(m.wgm, v) = 0 <=> v \in m.ocb
         /\ Update8(m.wgm, update) = 0 <=> update = m.update
         /\ Overflow8(m.wgm, overflow) = 0 <=> overflow = m.overflow
  BY DEF Modes8, Mode, OutputA8, OutputB8, Update8, Overflow8, Check

LEMMA Checks16 ==
  ASSUME NEW m \in Modes16, NEW v \in Outputs, NEW update, NEW overflow
  PROVE  /\ OutputA16(m.wgm, v) = 0 <=> v \in m.oca
         /\ OutputB16(m.wgm, v) = 0 <=> v \in m.ocb
         /\ Update16(m.wgm, update) = 0 <=> update = m.update
         /\ Overflow16(m.wgm, overflow) = 0 <=> overflow = m.overflow
  <1>1. OutputA16(m.wgm, v) = 0 <=> v \in m.oca
    BY DEF Modes16, Mode, OutputA16, Check, Top
  <1>2. OutputB16(m.wgm, v) = 0 <=> v \in m.ocb
    BY DEF Modes16, Mode, OutputB16, Check, Top
  <1>3. Update16(m.wgm, update) = 0 <=> update = m.update
    BY DEF Modes16, Mode, Update16, Check
  <1>4. Overflow16(m.wgm, overflow) = 0 <=> overflow = m.overflow
    BY DEF Modes16, Mode, Overflow16, Check
  <1> QED
    BY <1>1, <1>2, <1>3, <1>4

\* The code of an allowed output is that output in the mode.
LEMMA ComMeans ==
  ASSUME NEW m \in Modes8 \cup Modes16, NEW v \in m.oca \cup m.ocb
  PROVE  v \in Outputs /\ Waveform(m, Com(v)) = v
  BY DEF Modes8, Modes16, Mode, Waveform, Com, Normal, Fast, Phase, Outputs, Top

\* A mode has its own number.
LEMMA ModesDistinct ==
  /\ \A m, n \in Modes8 : m.wgm = n.wgm => m = n
  /\ \A m, n \in Modes16 : m.wgm = n.wgm => m = n
  BY DEF Modes8, Modes16, Mode

\* A configured counter of a class with two mode tables.
Solvable(class, c, cmp) ==
  /\ class \in Classes \ {"c8b"}
  /\ c \in CounterConfigs(class)
  /\ c.clock # Unset /\ c.countmode # Unset
  /\ \A u \in CompareUnits : cmp[u] \in CompareArguments8a

\* The mode that is chosen counts as asked.
LEMMA Chosen8 ==
  ASSUME NEW class \in {"c8a", "c8c"}, NEW c, NEW cmp, Solvable(class, c, cmp)
  PROVE  \E m \in Modes8 : m.wgm = Wgm8(c, cmp) /\ m.count = c.countmode /\ m.top = TopOf(c)
  BY TopsOf, UnsetAssumption
     DEF Solvable, Modes8, Mode, Wgm8, TopOf, CountModes, CounterConfigs, Classes

\* There is no mode that counts up and down to the maximum of 16 bits.
LEMMA Chosen16 ==
  ASSUME NEW class \in Bits16, NEW c, NEW cmp, Solvable(class, c, cmp)
  PROVE  \E m \in Modes16 :
           /\ m.wgm = Wgm16(c, cmp) /\ m.count = c.countmode
           /\ TopOf(c) = "max" => c.countmode = "updown_loop" \/ m.top = "max"
           /\ TopOf(c) # "max" => m.top = TopOf(c)
  BY TopsOf, UnsetAssumption
     DEF Solvable, Modes16, Mode, Wgm16, TopOf, CountModes, CounterConfigs, Classes, Bits16


(* Conversely, the solver finds the mode that does everything that is       *)
(* asked, when the overflow and the update of the first unit are stated.    *)
Does(m, c, cmp) ==
  /\ m.count = c.countmode /\ m.top = TopOf(c)
  /\ c.overflow = Unset \/ c.overflow = m.overflow
  /\ \A u \in CompareUnits : cmp[u].update = Unset \/ cmp[u].update = m.update
  /\ cmp["compare0"].output = Unset \/ cmp["compare0"].output \in m.oca
  /\ cmp["compare1"].output = Unset \/ cmp["compare1"].output \in m.ocb

LEMMA Found8 ==
  ASSUME NEW class \in {"c8a", "c8c"}, NEW c, NEW cmp, Solvable(class, c, cmp),
         c.overflow # Unset, cmp["compare0"].update # Unset,
         NEW m \in Modes8, Does(m, c, cmp)
  PROVE  Wgm8(c, cmp) = m.wgm
  BY TopsOf, UnsetAssumption
     DEF Solvable, Does, Modes8, Mode, Wgm8, TopOf, OverflowOf, CompareUpdate, CompareUnits,
         CountModes, CounterConfigs, Classes, Normal, Fast, Phase, FastOutput, Outputs

\* Requests of a 16-bit counter that take another mode: see RefusedTooMuch.
OtherMode16(c, cmp) ==
  \/ /\ c.countmode = "up_loop"
     /\ \/ c.top = "compare0" /\ cmp["compare0"].update = "immediately"
        \/ c.top = "capture0" /\ cmp["compare0"].output = "ToM"
  \/ /\ c.countmode = "updown_loop"
     /\ c.top \in {"compare0", "capture0"} /\ cmp["compare0"].update = "at_top"

LEMMA Found16 ==
  ASSUME NEW class \in Bits16, NEW c, NEW cmp, Solvable(class, c, cmp),
         c.overflow # Unset, cmp["compare0"].update # Unset,
         ~OtherMode16(c, cmp),
         NEW m \in Modes16, Does(m, c, cmp)
  PROVE  Wgm16(c, cmp) = m.wgm
  <1> DEFINE a == cmp["compare0"].output
             b == cmp["compare1"].output
  <1>1. CASE c.countmode = "up_loop"
    BY <1>1, TopsOf, UnsetAssumption
       DEF Solvable, Does, Modes16, Mode, Wgm16, TopOf, OverflowOf, CompareUpdate,
           CompareUnits, CounterConfigs, Classes, Bits16, Outputs, Normal, Fast, Phase, FastOutput,
           Top, OtherMode16
  <1>2. CASE c.countmode = "updown_loop"
    BY <1>2, TopsOf, UnsetAssumption
       DEF Solvable, Does, Modes16, Mode, Wgm16, TopOf, OverflowOf, CompareUpdate,
           CompareUnits, CounterConfigs, Classes, Bits16, Outputs, Normal, Fast, Phase, PhaseOutput,
           Top, OtherMode16
  <1> QED
    BY <1>1, <1>2 DEF Solvable, CounterConfigs, CountModes


\* What the configurations of the compare units ask of the pins' fields.
WithOutput(cmp) == {u \in {"compare0", "compare1"} : cmp[u].output # Unset}

LEMMA ComsOf ==
  ASSUME NEW cmp
  PROVE  /\ DOMAIN Coms(cmp, {"compare0", "compare1"}) = WithOutput(cmp)
         /\ \A u \in WithOutput(cmp) :
              Coms(cmp, {"compare0", "compare1"})[u] = Com(cmp[u].output)
  BY Zenon DEF Coms, WithOutput

LEMMA CounterFieldsOf ==
  ASSUME NEW cs, NEW wgm
  PROVE  /\ DOMAIN CounterFields(cs, wgm) = {"cs", "wgm"}
         /\ CounterFields(cs, wgm)["cs"] = cs /\ CounterFields(cs, wgm)["wgm"] = wgm
  <1>1. DOMAIN CounterFields(cs, wgm) = {"cs", "wgm"}
    BY DEF CounterFields, Over, Field
  <1>2. CounterFields(cs, wgm)["cs"] = cs
    BY DEF CounterFields, Over, Field
  <1>3. CounterFields(cs, wgm)["wgm"] = wgm
    BY DEF CounterFields, Over, Field
  <1> QED
    BY <1>1, <1>2, <1>3

\* The fields of a capture unit that are written.
Asks(class, cap, f) ==
  LET solved == class = "c16a" \/ cap.input # Unset
  IN \/ f = "acic" /\ cap.input # Unset
     \/ f = "ices" /\ solved /\ cap.edge # Unset
     \/ f = "icnc" /\ solved /\ cap.filter # Unset

LEMMA CaptureOf ==
  ASSUME NEW class, NEW cap \in CaptureArguments16a
  PROVE  /\ DOMAIN Capture(class, cap) =
              {f \in {"acic", "ices", "icnc"} : Asks(class, cap, f)}
         /\ Asks(class, cap, "acic") => Capture(class, cap)["acic"] = cap.input - 1
         /\ Asks(class, cap, "ices") => Capture(class, cap)["ices"] = cap.edge - 1
         /\ Asks(class, cap, "icnc") => Capture(class, cap)["icnc"] = cap.filter
  <1> DEFINE solved == class = "c16a" \/ cap.input # Unset
             p == IF cap.input # Unset THEN Field("acic", cap.input - 1) ELSE NoField
             q == IF solved /\ cap.edge # Unset THEN Field("ices", cap.edge - 1) ELSE NoField
             r == IF solved /\ cap.filter # Unset THEN Field("icnc", cap.filter) ELSE NoField
  <1>1. Capture(class, cap) = Over(p, Over(q, r))
    BY DEF Capture
  <1>2. /\ \A x : x \in DOMAIN p <=> cap.input # Unset /\ x = "acic"
        /\ cap.input # Unset => p["acic"] = cap.input - 1
    <2>1. CASE cap.input # Unset
      BY <2>1, OneDomain, OneValue
    <2>2. CASE ~(cap.input # Unset)
      BY <2>2, FieldNone
    <2> QED
      BY <2>1, <2>2
  <1>3. /\ \A x : x \in DOMAIN q <=> solved /\ cap.edge # Unset /\ x = "ices"
        /\ solved /\ cap.edge # Unset => q["ices"] = cap.edge - 1
    <2>1. CASE solved /\ cap.edge # Unset
      BY <2>1, OneDomain, OneValue
    <2>2. CASE ~(solved /\ cap.edge # Unset)
      BY <2>2, FieldNone
    <2> QED
      BY <2>1, <2>2
  <1>4. /\ \A x : x \in DOMAIN r <=> solved /\ cap.filter # Unset /\ x = "icnc"
        /\ solved /\ cap.filter # Unset => r["icnc"] = cap.filter
    <2>1. CASE solved /\ cap.filter # Unset
      BY <2>1, OneDomain, OneValue
    <2>2. CASE ~(solved /\ cap.filter # Unset)
      BY <2>2, FieldNone
    <2> QED
      BY <2>1, <2>2
  <1>a. /\ Asks(class, cap, "acic") <=> cap.input # Unset
        /\ Asks(class, cap, "ices") <=> solved /\ cap.edge # Unset
        /\ Asks(class, cap, "icnc") <=> solved /\ cap.filter # Unset
    BY DEF Asks
  <1> HIDE DEF p, q, r, solved
  <1>5. \A x : x \in DOMAIN Over(q, r) <=> x \in {"ices", "icnc"} /\ Asks(class, cap, x)
    BY <1>3, <1>4, <1>a, FieldDomain
  <1>6. DOMAIN Over(p, Over(q, r)) = {f \in {"acic", "ices", "icnc"} : Asks(class, cap, f)}
    BY <1>2, <1>5, <1>a, FieldDomain
  <1>7. Asks(class, cap, "acic") => Over(p, Over(q, r))["acic"] = p["acic"]
    BY <1>2, <1>a, FieldIn
  <1>8. Asks(class, cap, "ices") => Over(p, Over(q, r))["ices"] = q["ices"]
    <2> SUFFICES ASSUME Asks(class, cap, "ices")
                 PROVE  Over(p, Over(q, r))["ices"] = q["ices"]
      OBVIOUS
    <2>1. Over(q, r)["ices"] = q["ices"]
      BY <1>3, <1>a, FieldIn
    <2>2. "ices" \in DOMAIN Over(q, r) /\ "ices" \notin DOMAIN p
      BY <1>2, <1>5, <1>a
    <2> QED
      BY <2>1, <2>2, FieldNotIn
  <1>9. Asks(class, cap, "icnc") => Over(p, Over(q, r))["icnc"] = r["icnc"]
    <2> SUFFICES ASSUME Asks(class, cap, "icnc")
                 PROVE  Over(p, Over(q, r))["icnc"] = r["icnc"]
      OBVIOUS
    <2>1. "icnc" \in DOMAIN r /\ "icnc" \notin DOMAIN q
      BY <1>3, <1>4, <1>a
    <2>2. Over(q, r)["icnc"] = r["icnc"]
      BY <2>1, FieldNotIn
    <2>3. "icnc" \in DOMAIN Over(q, r) /\ "icnc" \notin DOMAIN p
      BY <1>2, <1>5, <1>a
    <2> QED
      BY <2>2, <2>3, FieldNotIn
  <1> QED
    BY <1>1, <1>2, <1>3, <1>4, <1>a, <1>6, <1>7, <1>8, <1>9

(* What is written for the counter and its first two units.                 *)
Writes(fields, c, cmp, wgm) ==
  /\ {"cs", "wgm"} \cup WithOutput(cmp) \subseteq DOMAIN fields
  /\ fields["cs"] = c.clock /\ fields["wgm"] = wgm
  /\ \A u \in WithOutput(cmp) : fields[u] = Com(cmp[u].output)

LEMMA Fields8 ==
  ASSUME NEW class \in {"c8a", "c8c"}, NEW c, NEW cmp, c.clock # Unset
  PROVE  LET fields == Solve8(class, c, cmp).fields
         IN /\ Writes(fields, c, cmp, Wgm8(c, cmp))
            /\ DOMAIN fields = {"cs", "wgm"} \cup WithOutput(cmp)
  <1> DEFINE k == CounterFields(c.clock, Wgm8(c, cmp))
             o == Coms(cmp, {"compare0", "compare1"})
  <1>1. Solve8(class, c, cmp).fields = Over(k, o)
    BY DEF Solve8, Solved
  <1>2. /\ DOMAIN k = {"cs", "wgm"} /\ k["cs"] = c.clock /\ k["wgm"] = Wgm8(c, cmp)
        /\ DOMAIN o = WithOutput(cmp)
        /\ \A u \in WithOutput(cmp) : o[u] = Com(cmp[u].output)
    BY ComsOf, CounterFieldsOf
  <1> HIDE DEF k, o
  <1>3. "cs" \notin WithOutput(cmp) /\ "wgm" \notin WithOutput(cmp)
    BY DEF WithOutput
  <1>4. DOMAIN Over(k, o) = {"cs", "wgm"} \cup WithOutput(cmp)
    BY <1>2, FieldDomain
  <1>5. Over(k, o)["cs"] = c.clock /\ Over(k, o)["wgm"] = Wgm8(c, cmp)
    BY <1>2, FieldIn
  <1>6. \A u \in WithOutput(cmp) : Over(k, o)[u] = o[u]
    BY <1>2, <1>3, FieldNotIn
  <1> QED
    BY <1>1, <1>2, <1>4, <1>5, <1>6 DEF Writes

LEMMA Fields16 ==
  ASSUME NEW class \in Bits16, NEW c, NEW cmp, NEW cap \in CaptureArguments16a, c.clock # Unset
  PROVE  LET fields == Solve16(class, c, cmp, cap).fields
         IN /\ Writes(fields, c, cmp, Wgm16(c, cmp))
            /\ DOMAIN fields = {"cs", "wgm"} \cup WithOutput(cmp)
                               \cup {f \in {"acic", "ices", "icnc"} : Asks(class, cap, f)}
            /\ Asks(class, cap, "acic") => fields["acic"] = cap.input - 1
            /\ Asks(class, cap, "ices") => fields["ices"] = cap.edge - 1
            /\ Asks(class, cap, "icnc") => fields["icnc"] = cap.filter
  <1> DEFINE k == CounterFields(c.clock, Wgm16(c, cmp))
             o == Coms(cmp, {"compare0", "compare1"})
             p == Capture(class, cap)
             A == {f \in {"acic", "ices", "icnc"} : Asks(class, cap, f)}
  <1>1. Solve16(class, c, cmp, cap).fields = Over(k, Over(o, p))
    BY DEF Solve16, Solved
  <1>2. /\ DOMAIN k = {"cs", "wgm"} /\ k["cs"] = c.clock /\ k["wgm"] = Wgm16(c, cmp)
        /\ DOMAIN o = WithOutput(cmp)
        /\ \A u \in WithOutput(cmp) : o[u] = Com(cmp[u].output)
    BY ComsOf, CounterFieldsOf
  <1>3. /\ DOMAIN p = A
        /\ Asks(class, cap, "acic") => p["acic"] = cap.input - 1
        /\ Asks(class, cap, "ices") => p["ices"] = cap.edge - 1
        /\ Asks(class, cap, "icnc") => p["icnc"] = cap.filter
    BY CaptureOf
  <1> HIDE DEF k, o, p
  <1>4. \A f \in {"cs", "wgm", "acic", "ices", "icnc"} : f \notin WithOutput(cmp)
    BY DEF WithOutput
  <1>5. "cs" \notin A /\ "wgm" \notin A
    OBVIOUS
  <1>6. DOMAIN Over(o, p) = WithOutput(cmp) \cup A
    <2> HIDE DEF A
    <2> QED
      BY <1>2, <1>3, FieldDomain
  <1>7. ASSUME NEW f \in A
        PROVE  Over(o, p)[f] = p[f] /\ Over(k, Over(o, p))[f] = p[f]
    <2>1. f \in DOMAIN p /\ f \notin DOMAIN o /\ f \notin DOMAIN k
      BY <1>2, <1>3, <1>4
    <2> QED
      BY <2>1, <1>3, <1>6, FieldNotIn
  <1>8. ASSUME NEW u \in WithOutput(cmp)
        PROVE  Over(k, Over(o, p))[u] = o[u]
    <2>1. u \in DOMAIN o /\ u \in DOMAIN Over(o, p) /\ u \notin DOMAIN k
      BY <1>2, <1>4, <1>6
    <2> QED
      BY <2>1, FieldIn, FieldNotIn
  <1>9. /\ DOMAIN Over(k, Over(o, p)) = {"cs", "wgm"} \cup WithOutput(cmp) \cup A
        /\ Over(k, Over(o, p))["cs"] = k["cs"] /\ Over(k, Over(o, p))["wgm"] = k["wgm"]
    <2> HIDE DEF A
    <2>1. DOMAIN Over(k, Over(o, p)) = {"cs", "wgm"} \cup (WithOutput(cmp) \cup A)
      <3>1. DOMAIN Over(k, Over(o, p)) = DOMAIN k \cup DOMAIN Over(o, p)
        BY FieldDomain
      <3> QED
        BY <1>2, <1>6, <3>1, Zenon
    <2>2. Over(k, Over(o, p))["cs"] = k["cs"] /\ Over(k, Over(o, p))["wgm"] = k["wgm"]
      BY <1>2, FieldIn
    <2> QED
      BY <2>1, <2>2
  <1>10. Writes(Over(k, Over(o, p)), c, cmp, Wgm16(c, cmp))
    <2> HIDE DEF A
    <2>1. {"cs", "wgm"} \cup WithOutput(cmp) \subseteq DOMAIN Over(k, Over(o, p))
      BY <1>9
    <2>2. \A u \in WithOutput(cmp) : Over(k, Over(o, p))[u] = Com(cmp[u].output)
      BY <1>2, <1>8
    <2> QED
      BY <1>2, <1>9, <2>1, <2>2 DEF Writes
  <1>11. /\ Asks(class, cap, "acic") => Over(k, Over(o, p))["acic"] = cap.input - 1
         /\ Asks(class, cap, "ices") => Over(k, Over(o, p))["ices"] = cap.edge - 1
         /\ Asks(class, cap, "icnc") => Over(k, Over(o, p))["icnc"] = cap.filter
    BY <1>3, <1>7
  <1> QED
    BY <1>1, <1>9, <1>10, <1>11


(* An error of a solver that has checked everything: the updates differ, or *)
(* the mode does not do what is asked.                                      *)
Agree(m, c, cmp) ==
  /\ cmp["compare0"].output = Unset \/ cmp["compare0"].output \in m.oca
  /\ cmp["compare1"].output = Unset \/ cmp["compare1"].output \in m.ocb
  /\ cmp["compare0"].update = Unset \/ cmp["compare0"].update = m.update
  /\ OverflowOf(c) = Unset \/ OverflowOf(c) = m.overflow

LEMMA Error8 ==
  ASSUME NEW class \in {"c8a", "c8c"}, NEW c, NEW cmp, Solvable(class, c, cmp),
         NEW m \in Modes8, m.wgm = Wgm8(c, cmp)
  PROVE  LET error == Solve8(class, c, cmp).error
             checked == class = "c8c" \/ WithOutput(cmp) # {}
         IN error = 0 <=>
              /\ ~UpdatesDiffer(cmp["compare0"].update, cmp["compare1"].update)
              /\ checked => Agree(m, c, cmp)
  <1> DEFINE a == cmp["compare0"].output
             b == cmp["compare1"].output
             update == CompareUpdate(cmp)
             over == OverflowOf(c)
             w == Wgm8(c, cmp)
             all == << IfGiven(a, OutputA8(w, a)), IfGiven(b, OutputB8(w, b)),
                       IfGiven(update, Update8(w, update)), IfGiven(over, Overflow8(w, over)) >>
             none == class = "c8a" /\ a = Unset /\ b = Unset
  <1>1. a \in Outputs \cup {Unset} /\ b \in Outputs \cup {Unset}
    BY DEF Solvable, CompareArguments8a, CompareUnits
  <1>2. Solve8(class, c, cmp).error =
          IF UpdatesDiffer(update, cmp["compare1"].update) THEN 1
          ELSE FirstError(IF none THEN <<>> ELSE all)
    BY DEF Solve8, Solved, Solvable
  <1>3. FirstError(all) = 0 <=> Agree(m, c, cmp)
    <2>1. IfGiven(a, OutputA8(w, a)) = 0 <=> (a = Unset \/ a \in m.oca)
      BY <1>1, Checks8 DEF IfGiven
    <2>2. IfGiven(b, OutputB8(w, b)) = 0 <=> (b = Unset \/ b \in m.ocb)
      BY <1>1, Checks8 DEF IfGiven
    <2>3. IfGiven(update, Update8(w, update)) = 0 <=> (update = Unset \/ update = m.update)
      <3>1. "DIS" \in Outputs
        BY DEF Outputs, Normal
      <3> QED
        BY <3>1, Checks8 DEF IfGiven
    <2>4. IfGiven(over, Overflow8(w, over)) = 0 <=> (over = Unset \/ over = m.overflow)
      <3>1. "DIS" \in Outputs
        BY DEF Outputs, Normal
      <3> QED
        BY <3>1, Checks8 DEF IfGiven
    <2> HIDE DEF w, over
    <2> QED
      BY <2>1, <2>2, <2>3, <2>4, FirstErrorZero DEF Agree, CompareUpdate, over
  <1>4. none <=> ~(class = "c8c" \/ WithOutput(cmp) # {})
    BY DEF WithOutput
  <1> HIDE DEF all, none
  <1> QED
    BY <1>2, <1>3, <1>4, NoCheckNoError DEF CompareUpdate

LEMMA Error16 ==
  ASSUME NEW class \in Bits16, NEW c, NEW cmp, NEW cap, Solvable(class, c, cmp),
         NEW m \in Modes16, m.wgm = Wgm16(c, cmp)
  PROVE  Solve16(class, c, cmp, cap).error = 0 <=>
           /\ ~(IF class = "c16b" THEN UpdatesDiffer16b(cmp)
                ELSE UpdatesDiffer(cmp["compare0"].update, cmp["compare1"].update))
           /\ Agree(m, c, cmp)
  <1> DEFINE a == cmp["compare0"].output
             b == cmp["compare1"].output
             update == CompareUpdate(cmp)
             over == OverflowOf(c)
             w == Wgm16(c, cmp)
             all == << IfGiven(a, OutputA16(w, a)), IfGiven(b, OutputB16(w, b)),
                       IfGiven(update, Update16(w, update)), IfGiven(over, Overflow16(w, over)) >>
             differ == IF class = "c16b" THEN UpdatesDiffer16b(cmp)
                       ELSE UpdatesDiffer(update, cmp["compare1"].update)
  <1>1. a \in Outputs \cup {Unset} /\ b \in Outputs \cup {Unset}
    BY DEF Solvable, CompareArguments8a, CompareUnits
  <1>2. Solve16(class, c, cmp, cap).error = IF differ THEN 1 ELSE FirstError(all)
    BY DEF Solve16, Solved, Solvable
  <1>3. FirstError(all) = 0 <=> Agree(m, c, cmp)
    <2>1. IfGiven(a, OutputA16(w, a)) = 0 <=> (a = Unset \/ a \in m.oca)
      BY <1>1, Checks16 DEF IfGiven
    <2>2. IfGiven(b, OutputB16(w, b)) = 0 <=> (b = Unset \/ b \in m.ocb)
      BY <1>1, Checks16 DEF IfGiven
    <2>3. IfGiven(update, Update16(w, update)) = 0 <=> (update = Unset \/ update = m.update)
      <3>1. "DIS" \in Outputs
        BY DEF Outputs, Normal
      <3> QED
        BY <3>1, Checks16 DEF IfGiven
    <2>4. IfGiven(over, Overflow16(w, over)) = 0 <=> (over = Unset \/ over = m.overflow)
      <3>1. "DIS" \in Outputs
        BY DEF Outputs, Normal
      <3> QED
        BY <3>1, Checks16 DEF IfGiven
    <2> HIDE DEF w, over
    <2> QED
      BY <2>1, <2>2, <2>3, <2>4, FirstErrorZero DEF Agree, CompareUpdate, over
  <1> HIDE DEF all
  <1> QED
    BY <1>2, <1>3 DEF CompareUpdate


-----------------------------------------------------------------------------
(* Class _c8b: the fields of the units, then what the commit writes.       *)

Asks8b(unit) == unit.low = "CaBSoM" \/ unit.output # Unset

\* The complementary pin is used with the output that it complements.
Complement(unit) == unit.low = "CaBSoM" => unit.output = "SaBCoM"

\* What the two pins of a unit are asked to do.
Wanted(unit) == [high |-> unit.output, low |-> IF unit.low = Unset THEN "DIS" ELSE unit.low]

Waves(p, m, unit) ==
  LET f == Solve8bUnit(p, m, unit)
  IN unit.output # Unset /\ Complement(unit) => Waveform8b(f[p], f[m]) = Wanted(unit)

LEMMA Unit8b ==
  ASSUME NEW p, NEW m, p # m, NEW unit \in CompareArguments8b
  PROVE  LET f == Solve8bUnit(p, m, unit)
         IN /\ DOMAIN f = IF Asks8b(unit) THEN {p, m} ELSE {}
            /\ Asks8b(unit) => f[p] \in {0, 1}
            /\ Waves(p, m, unit)
  <1> DEFINE g(v, w) == Over(Field(p, v), Field(m, w))
             f == Solve8bUnit(p, m, unit)
             high == unit.output
  <1>1. ASSUME NEW v, NEW w
        PROVE  DOMAIN g(v, w) = {p, m} /\ g(v, w)[p] = v /\ g(v, w)[m] = w
    BY DEF Over, Field
  <1>2. f = IF unit.low = "CaBSoM" THEN g(1, 1)
            ELSE CASE high = "DIS"    -> g(0, 0)
                   [] high = "ToM"    -> g(0, 1)
                   [] high = "CoM"    -> g(0, 2)
                   [] high = "SoM"    -> g(0, 3)
                   [] high = "SaBCoM" -> g(1, 2)
                   [] high = "CaBSoM" -> g(1, 3)
                   [] OTHER           -> NoField
    BY DEF Solve8bUnit
  <1>3. high \in {"DIS", "ToM", "CoM", "SoM", "SaBCoM", "CaBSoM", Unset}
    BY DEF CompareArguments8b, Normal, Fast
  <1>4. unit.low \in {"DIS", "CaBSoM", Unset}
    BY DEF CompareArguments8b
  <1>5. /\ Unset \notin {"DIS", "ToM", "CoM", "SoM", "SaBCoM", "CaBSoM"}
    BY UnsetAssumption DEF Outputs, Normal, Fast
  <1> HIDE DEF f, g
  <1>6. CASE unit.low = "CaBSoM"
    <2>1. f = g(1, 1)
      BY <1>2, <1>6
    <2> QED
      BY <1>1, <1>6, <2>1, <1>5 DEF Asks8b, Complement, Waveform8b, Waves, Wanted, f
  <1>7. CASE unit.low # "CaBSoM" /\ high = Unset
    <2>1. f = NoField
      BY <1>2, <1>5, <1>7
    <2> QED
      BY <1>7, <2>1, FieldNone DEF Asks8b, Waves, f
  <1>8. CASE unit.low # "CaBSoM" /\ high # Unset
    <2>0. PICK v \in {0, 1}, w \in {0, 1, 2, 3} :
            /\ f = g(v, w)
            /\ Waveform8b(v, w) = [high |-> high, low |-> "DIS"]
      <3>1. \/ high = "DIS" /\ f = g(0, 0)
            \/ high = "ToM" /\ f = g(0, 1)
            \/ high = "CoM" /\ f = g(0, 2)
            \/ high = "SoM" /\ f = g(0, 3)
            \/ high = "SaBCoM" /\ f = g(1, 2)
            \/ high = "CaBSoM" /\ f = g(1, 3)
        BY <1>2, <1>3, <1>5, <1>8
      <3> QED
        BY <3>1 DEF Waveform8b
    <2>1. DOMAIN f = {p, m} /\ f[p] = v /\ f[m] = w
      BY <1>1, <2>0
    <2>2. (IF unit.low = Unset THEN "DIS" ELSE unit.low) = "DIS"
      BY <1>4, <1>8
    <2> QED
      BY <1>8, <2>0, <2>1, <2>2 DEF Asks8b, Waves, Wanted, f
  <1> QED
    BY <1>6, <1>7, <1>8

LEMMA UnitWave ==
  ASSUME NEW p, NEW m, p # m, NEW unit \in CompareArguments8b,
         unit.output # Unset, Complement(unit)
  PROVE  LET f == Solve8bUnit(p, m, unit)
         IN Waveform8b(f[p], f[m]) = Wanted(unit)
  <1>1. Waves(p, m, unit)
    BY Unit8b
  <1> QED
    BY <1>1, Zenon DEF Waves

Unit0(cmp) == Solve8bUnit("pwm0", "mode0", cmp["compare0"])
Unit1(cmp) == Solve8bUnit("pwm1", "mode1", cmp["compare1"])
New8b(cmp, w) == Over(Over(Unit0(cmp), Unit1(cmp)), w)

\* The instructions write these fields themselves.
WrittenOK(w) == DOMAIN w \subseteq {"cs", "ctc", "ie"}

Units8b(cmp) ==
  cmp["compare0"] \in CompareArguments8b /\ cmp["compare1"] \in CompareArguments8b

LEMMA NewFields ==
  ASSUME NEW cmp, NEW w, Units8b(cmp), WrittenOK(w)
  PROVE  /\ DOMAIN New8b(cmp, w) = DOMAIN Unit0(cmp) \cup DOMAIN Unit1(cmp) \cup DOMAIN w
         /\ DOMAIN Unit0(cmp) = IF Asks8b(cmp["compare0"]) THEN {"pwm0", "mode0"} ELSE {}
         /\ DOMAIN Unit1(cmp) = IF Asks8b(cmp["compare1"]) THEN {"pwm1", "mode1"} ELSE {}
         /\ \A x \in DOMAIN Unit0(cmp) : New8b(cmp, w)[x] = Unit0(cmp)[x]
         /\ \A x \in DOMAIN Unit1(cmp) : New8b(cmp, w)[x] = Unit1(cmp)[x]
         /\ \A x \in DOMAIN w : New8b(cmp, w)[x] = w[x]
  <1> DEFINE a == Unit0(cmp)
             b == Unit1(cmp)
  <1>1. DOMAIN a = IF Asks8b(cmp["compare0"]) THEN {"pwm0", "mode0"} ELSE {}
    BY Unit8b DEF Unit0, Units8b
  <1>2. DOMAIN b = IF Asks8b(cmp["compare1"]) THEN {"pwm1", "mode1"} ELSE {}
    BY Unit8b DEF Unit1, Units8b
  <1> HIDE DEF a, b
  <1>3. /\ DOMAIN Over(a, b) = DOMAIN a \cup DOMAIN b
        /\ DOMAIN Over(Over(a, b), w) = DOMAIN Over(a, b) \cup DOMAIN w
    BY FieldDomain
  <1>4. \A x : /\ x \in DOMAIN b \cup DOMAIN w => x \notin DOMAIN a
               /\ x \in DOMAIN w => x \notin DOMAIN b
    BY <1>1, <1>2 DEF WrittenOK
  <1>5. ASSUME NEW x \in DOMAIN a
        PROVE  Over(Over(a, b), w)[x] = a[x]
    <2>1. x \in DOMAIN Over(a, b)
      BY <1>3
    <2> QED
      BY <2>1, FieldIn
  <1>6. ASSUME NEW x \in DOMAIN b
        PROVE  Over(Over(a, b), w)[x] = b[x]
    <2>1. x \in DOMAIN Over(a, b) /\ x \notin DOMAIN a
      BY <1>3, <1>4
    <2> QED
      BY <2>1, FieldIn, FieldNotIn
  <1>7. ASSUME NEW x \in DOMAIN w
        PROVE  Over(Over(a, b), w)[x] = w[x]
    <2>1. x \notin DOMAIN Over(a, b)
      BY <1>3, <1>4
    <2> QED
      BY <2>1, FieldNotIn
  <1>8. DOMAIN Over(Over(a, b), w) = DOMAIN a \cup DOMAIN b \cup DOMAIN w
    BY <1>3, Zenon
  <1> QED
    BY <1>1, <1>2, <1>5, <1>6, <1>7, <1>8 DEF New8b, a, b


(* The solution writes the new fields, and pwm0 when an enabled overflow    *)
(* interrupt with compare2 as top value needs it and nobody asked for a     *)
(* mode.                                                                    *)
Lacks(new, asked0) ==
  /\ MValue(new, asked0, "ie") = 1 /\ MValue(new, asked0, "ctc") = 1
  /\ MValue(new, asked0, "pwm0") = 0 /\ MValue(new, asked0, "pwm1") = 0

PwmAsked(new) == "pwm0" \in DOMAIN new \/ "pwm1" \in DOMAIN new

Mixed(new, asked0) ==
  /\ "pwm0" \in DOMAIN new /\ "pwm1" \in DOMAIN new
  /\ MValue(new, asked0, "pwm0") # MValue(new, asked0, "pwm1")

NoTop(new, asked0) ==
  /\ "ctc" \in DOMAIN new /\ MValue(new, asked0, "ctc") = 0
  /\ PwmAsked(new) /\ MValue(new, asked0, "pwm1") = 1

LEMMA Solution8b ==
  ASSUME NEW cmp, NEW w, NEW asked0
  PROVE  LET s == Solve8b(cmp, w, asked0)
             new == New8b(cmp, w)
         IN /\ s.fields = IF Lacks(new, asked0) /\ ~PwmAsked(new)
                          THEN Over(Field("pwm0", 1), new) ELSE new
            /\ s.error = 0 <=>
                 /\ Complement(cmp["compare0"]) /\ Complement(cmp["compare1"])
                 /\ ~Mixed(new, asked0) /\ ~NoTop(new, asked0)
                 /\ ~(Lacks(new, asked0) /\ PwmAsked(new))
  <1> DEFINE new == New8b(cmp, w)
             badLow == \E u \in {"compare0", "compare1"} :
                         cmp[u].low = "CaBSoM" /\ cmp[u].output # "SaBCoM"
             all == << Check(~badLow, 1), Check(~Mixed(new, asked0), 2),
                       Check(~NoTop(new, asked0), 3),
                       Check(~(Lacks(new, asked0) /\ PwmAsked(new)), 4) >>
  <1>1. Solve8b(cmp, w, asked0) =
          [error |-> FirstError(all),
           fields |-> IF Lacks(new, asked0) /\ ~PwmAsked(new)
                      THEN Over(Field("pwm0", 1), new) ELSE new]
    BY DEF Solve8b, Solved, New8b, Unit0, Unit1, Lacks, Mixed, NoTop, PwmAsked
  <1>2. badLow <=> ~(Complement(cmp["compare0"]) /\ Complement(cmp["compare1"]))
    BY DEF Complement
  <1>3. FirstError(all) = 0 <=>
          /\ ~badLow /\ ~Mixed(new, asked0) /\ ~NoTop(new, asked0)
          /\ ~(Lacks(new, asked0) /\ PwmAsked(new))
    BY FirstErrorZero DEF Check
  <1> HIDE DEF new, badLow, all
  <1> QED
    BY <1>1, <1>2, <1>3 DEF new

AskedOK(v) ==
  /\ DOMAIN v = Fields /\ v = [f \in Fields |-> v[f]]
  /\ v["pwm0"] \in {0, 1} /\ v["pwm1"] \in {0, 1}

\* What was asked of a unit is in the registers v.
UnitWritten(v, pwm, mode, unit) ==
  LET f == Solve8bUnit(pwm, mode, unit)
  IN Asks8b(unit) => v[pwm] = f[pwm] /\ v[mode] = f[mode]

(* A solution without error: v is what the registers then hold.             *)
LEMMA Solved8b ==
  ASSUME NEW cmp, NEW w, NEW asked0, Units8b(cmp), WrittenOK(w), AskedOK(asked0),
         Solve8b(cmp, w, asked0).error = 0
  PROVE  LET fields == Solve8b(cmp, w, asked0).fields
             v == Over(fields, asked0)
             again == Solve8b(cmp, NoField, v)
         IN /\ DOMAIN fields \subseteq Fields
            /\ AskedOK(v)
            /\ Complement(cmp["compare0"]) /\ Complement(cmp["compare1"])
            /\ UnitWritten(v, "pwm0", "mode0", cmp["compare0"])
            /\ UnitWritten(v, "pwm1", "mode1", cmp["compare1"])
            /\ v["ie"] = 1 /\ v["ctc"] = 1 => v["pwm0"] = 1 \/ v["pwm1"] = 1
            /\ again.error = 0
            /\ DOMAIN again.fields \subseteq Fields
            /\ \A x \in DOMAIN again.fields : v[x] = again.fields[x]
  <1> DEFINE s == Solve8b(cmp, w, asked0)
             fields == s.fields
             v == Over(fields, asked0)
             new == New8b(cmp, w)
             a == Unit0(cmp)
             b == Unit1(cmp)
             pwm == Lacks(new, asked0) /\ ~PwmAsked(new)
  <1>1. /\ fields = IF pwm THEN Over(Field("pwm0", 1), new) ELSE new
        /\ Complement(cmp["compare0"]) /\ Complement(cmp["compare1"])
        /\ ~Mixed(new, asked0) /\ ~NoTop(new, asked0)
        /\ ~(Lacks(new, asked0) /\ PwmAsked(new))
    BY Solution8b
  <1>2. /\ DOMAIN new = DOMAIN a \cup DOMAIN b \cup DOMAIN w
        /\ DOMAIN a = IF Asks8b(cmp["compare0"]) THEN {"pwm0", "mode0"} ELSE {}
        /\ DOMAIN b = IF Asks8b(cmp["compare1"]) THEN {"pwm1", "mode1"} ELSE {}
        /\ \A x \in DOMAIN a : new[x] = a[x]
        /\ \A x \in DOMAIN b : new[x] = b[x]
    BY NewFields
  <1>3. /\ Asks8b(cmp["compare0"]) => a["pwm0"] \in {0, 1}
        /\ Asks8b(cmp["compare1"]) => b["pwm1"] \in {0, 1}
    <2>1. Asks8b(cmp["compare0"]) => a["pwm0"] \in {0, 1}
      BY Unit8b, Zenon DEF Unit0, Units8b
    <2>2. Asks8b(cmp["compare1"]) => b["pwm1"] \in {0, 1}
      BY Unit8b, Zenon DEF Unit1, Units8b
    <2> QED
      BY <2>1, <2>2
  <1>4. pwm => "pwm0" \notin DOMAIN new /\ "pwm1" \notin DOMAIN new
    BY DEF PwmAsked
  <1>5. DOMAIN new \subseteq Fields
    BY <1>2 DEF Fields, WrittenOK
  <1> HIDE DEF s, fields, new, a, b, pwm
  <1>6. /\ \A x : x \in DOMAIN fields <=> x \in DOMAIN new \/ (pwm /\ x = "pwm0")
        /\ \A x \in DOMAIN new : fields[x] = new[x]
        /\ pwm => fields["pwm0"] = 1
    <2>1. CASE ~pwm
      BY <1>1, <2>1
    <2>2. CASE pwm
      <3> DEFINE f == Over(Field("pwm0", 1), new)
      <3>1. fields = f
        BY <1>1, <2>2
      <3>0. DOMAIN Field("pwm0", 1) = {"pwm0"}
        BY DEF Field
      <3>2. DOMAIN f = {"pwm0"} \cup DOMAIN new
        BY <3>0, FieldDomain, Zenon
      <3>3. f["pwm0"] = 1
        BY DEF Over, Field
      <3>4. ASSUME NEW x \in DOMAIN new
            PROVE  f[x] = new[x]
        <4>1. x \notin DOMAIN Field("pwm0", 1)
          BY <1>4, <2>2, <3>0
        <4> QED
          BY <4>1, FieldNotIn
      <3> HIDE DEF f
      <3> QED
        BY <2>2, <3>1, <3>2, <3>3, <3>4
    <2> QED
      BY <2>1, <2>2
  <1>7. DOMAIN fields \subseteq Fields
    BY <1>5, <1>6 DEF Fields
  <1>8. /\ DOMAIN v = Fields /\ v = [x \in Fields |-> v[x]]
        /\ \A x \in DOMAIN fields : v[x] = fields[x]
        /\ \A x \in Fields \ DOMAIN fields : v[x] = asked0[x]
    <2>1. DOMAIN asked0 = Fields
      BY DEF AskedOK
    <2>2. DOMAIN fields \cup DOMAIN asked0 = Fields
      BY <1>7, <2>1
    <2>3. DOMAIN v = Fields /\ v = [x \in Fields |-> v[x]]
      BY <2>2, FieldDomain, FieldFunction, Zenon
    <2>4. ASSUME NEW x \in DOMAIN fields
          PROVE  v[x] = fields[x]
      BY FieldIn
    <2>5. ASSUME NEW x \in Fields \ DOMAIN fields
          PROVE  v[x] = asked0[x]
      BY <2>1, FieldNotIn
    <2> HIDE DEF v
    <2> QED
      BY <2>3, <2>4, <2>5
  <1> HIDE DEF v
  <1>9. /\ v["ie"] = MValue(new, asked0, "ie") /\ v["ctc"] = MValue(new, asked0, "ctc")
        /\ v["pwm1"] = MValue(new, asked0, "pwm1")
        /\ v["pwm0"] = IF pwm THEN 1 ELSE MValue(new, asked0, "pwm0")
    BY <1>4, <1>6, <1>8 DEF MValue, Fields
  <1>10. "pwm0" \notin DOMAIN w /\ "pwm1" \notin DOMAIN w /\ "ctc" \notin DOMAIN a \cup DOMAIN b
    BY <1>2 DEF WrittenOK
  <1>11. v["pwm0"] \in {0, 1} /\ v["pwm1"] \in {0, 1}
    <2>1. MValue(new, asked0, "pwm0") \in {0, 1}
      BY <1>2, <1>3, <1>10 DEF MValue, AskedOK
    <2>2. MValue(new, asked0, "pwm1") \in {0, 1}
      BY <1>2, <1>3, <1>10 DEF MValue, AskedOK
    <2> QED
      BY <1>9, <2>1, <2>2
  <1>12. v["ie"] = 1 /\ v["ctc"] = 1 => v["pwm0"] = 1 \/ v["pwm1"] = 1
    BY <1>1, <1>9, <1>11 DEF Lacks, pwm
  <1>13. /\ \A x \in DOMAIN a : v[x] = a[x]
         /\ \A x \in DOMAIN b : v[x] = b[x]
    BY <1>2, <1>6, <1>8
  <1>14. /\ UnitWritten(v, "pwm0", "mode0", cmp["compare0"])
         /\ UnitWritten(v, "pwm1", "mode1", cmp["compare1"])
    BY <1>2, <1>13 DEF UnitWritten, a, b, Unit0, Unit1
  <1> DEFINE new2 == New8b(cmp, NoField)
  <1>15. /\ DOMAIN new2 = DOMAIN a \cup DOMAIN b
         /\ \A x \in DOMAIN new2 : v[x] = new2[x]
    <2>1. WrittenOK(NoField)
      BY FieldNone DEF WrittenOK
    <2>2. /\ DOMAIN new2 = DOMAIN a \cup DOMAIN b \cup DOMAIN NoField
          /\ \A x \in DOMAIN a : new2[x] = a[x]
          /\ \A x \in DOMAIN b : new2[x] = b[x]
      BY <2>1, NewFields DEF a, b
    <2> HIDE DEF new2
    <2> QED
      BY <1>13, <2>2, FieldNone
  <1>16. /\ Solve8b(cmp, NoField, v).fields = IF Lacks(new2, v) /\ ~PwmAsked(new2)
                                             THEN Over(Field("pwm0", 1), new2) ELSE new2
         /\ Solve8b(cmp, NoField, v).error = 0 <=>
              /\ Complement(cmp["compare0"]) /\ Complement(cmp["compare1"])
              /\ ~Mixed(new2, v) /\ ~NoTop(new2, v)
              /\ ~(Lacks(new2, v) /\ PwmAsked(new2))
    BY Solution8b
  <1> HIDE DEF new2
  <1>17. \A x \in {"ie", "ctc", "pwm0", "pwm1"} : MValue(new2, v, x) = v[x]
    BY <1>15 DEF MValue
  <1>18. ~Lacks(new2, v)
    BY <1>12, <1>17 DEF Lacks
  <1>19. ~Mixed(new2, v)
    <2> SUFFICES ASSUME Mixed(new2, v) PROVE FALSE
      OBVIOUS
    <2>1. "pwm0" \in DOMAIN new2 /\ "pwm1" \in DOMAIN new2 /\ v["pwm0"] # v["pwm1"]
      BY <1>17 DEF Mixed
    <2>2. "pwm0" \in DOMAIN new /\ "pwm1" \in DOMAIN new
      BY <1>2, <1>15, <2>1
    <2> QED
      BY <1>1, <1>4, <1>9, <2>1, <2>2 DEF Mixed
  <1>20. ~NoTop(new2, v)
    BY <1>10, <1>15 DEF NoTop
  <1>21. /\ Solve8b(cmp, NoField, v).error = 0
         /\ Solve8b(cmp, NoField, v).fields = new2
    BY <1>1, <1>16, <1>18, <1>19, <1>20
  <1>22. DOMAIN new2 \subseteq Fields
    BY <1>2, <1>5, <1>15
  <1>23. AskedOK(v)
    BY <1>8, <1>11 DEF AskedOK
  <1> QED
    BY <1>1, <1>7, <1>12, <1>14, <1>15, <1>21, <1>22, <1>23 DEF v, fields, s


-----------------------------------------------------------------------------
(* The invariant.                                                          *)

(* Every argument that is kept was given by a call, and the registers are   *)
(* what the context believes.                                               *)
Inv ==
  /\ prog \in DOMAIN Programs
  /\ round \in 1..Len(Rounds)
  /\ left \subseteq DOMAIN Rounds[round]
  /\ ConfigOK(Class, config)
  /\ WrittenOK(written)
  /\ AskedOK(asked) /\ reg = asked

(* What makes the second commit harmless: what is committed is a solution   *)
(* of the arguments that are kept.                                          *)
Settled ==
  Committed =>
    /\ written = NoField
    /\ config["counter"].top = StoredTop(config["counter"])
    /\ Solution.error = 0 /\ Fits(Solution.fields)
    /\ DOMAIN Solution.fields \subseteq Fields
    /\ \A x \in DOMAIN Solution.fields : reg[x] = Solution.fields[x]
    /\ Driven \subseteq pins

(* The fields of class _c8b are also those of its units, and the overflow   *)
(* interrupt has the mode it needs.                                         *)
Settled8b ==
  Committed /\ Class = "c8b" =>
    /\ Complement(config["compare0"]) /\ Complement(config["compare1"])
    /\ UnitWritten(reg, "pwm0", "mode0", config["compare0"])
    /\ UnitWritten(reg, "pwm1", "mode1", config["compare1"])
    /\ reg["ie"] = 1 /\ reg["ctc"] = 1 => reg["pwm0"] = 1 \/ reg["pwm1"] = 1


(* The units differ.                                                        *)
LEMMA UnitNames ==
  /\ Units \cup {"counter"} = {"counter", "compare0", "compare1", "compare2", "capture0"}
  /\ CompareUnits \subseteq Units /\ "capture0" \in Units /\ "counter" \notin Units
  BY DEF Units, CompareUnits

\* A program may be called as it is described.
LEMMA Called ==
  ASSUME Inv, NEW unit \in left
  PROVE  /\ Class \in Classes /\ unit \in UnitsOf(Class)
         /\ Calls(round, unit) \subseteq CallsOf(Class, unit)
  BY ProgramsAssumption DEF Inv, Class, Rounds, Calls

LEMMA RoundsOK ==
  ASSUME Inv
  PROVE  Class \in Classes /\ Len(Rounds) \in Nat \ {0}
  BY ProgramsAssumption DEF Inv, Class, Rounds

LEMMA CsOf ==
  ASSUME NEW class \in Classes \ {"c8b"}, NEW clock \in Clocks(class)
  PROVE  Cs(class, clock) \in Codes(class)
  <1> DEFINE codes == Arguments(class).clocks
             D == DOMAIN codes
  <1>1. D \subseteq Codes(class)
    <2>1. CASE class \in {"c8a", "c16a", "c16b"}
      <3>1. codes = <<1, 8, 64, 256, 1024, ExtRising, ExtFalling>>
        BY <2>1 DEF Arguments, Arguments8a, Arguments16a, Arguments16b
      <3>2. D = 1..7
        BY <3>1
      <3> QED
        BY <2>1, <3>2 DEF Codes
    <2>2. CASE class = "c8c"
      <3>1. codes = <<1, 8, 32, 64, 128, 256, 1024, ExtXosc>>
        BY <2>2 DEF Arguments, Arguments8c
      <3>2. D = 1..8
        BY <3>1
      <3> QED
        BY <2>2, <3>2 DEF Codes
    <2> QED
      BY <2>1, <2>2 DEF Classes
  <1>2. CASE clock = 0
    BY <1>2 DEF Cs, Codes
  <1>3. CASE clock # 0
    <2>1. \E i \in D : codes[i] = clock
      BY <1>3 DEF Clocks
    <2>2. (CHOOSE i \in D : codes[i] = clock) \in D
      BY <2>1
    <2>3. Cs(class, clock) = CHOOSE i \in D : codes[i] = clock
      BY <1>3 DEF Cs
    <2> HIDE DEF D, codes
    <2> QED
      BY <1>1, <2>2, <2>3
  <1> QED
    BY <1>2, <1>3

\* Instructions keep the arguments typed; a counter gets a clock and a mode.
LEMMA GivenCounter ==
  ASSUME NEW class \in Classes \ {"c8b"}, NEW call \in CounterCalls(class, Clocks(class)),
         NEW old \in CounterConfigs(class)
  PROVE  LET c == Given([call EXCEPT !.clock = Cs(class, call.clock)], old)
         IN c \in CounterConfigs(class) /\ c.clock # Unset /\ c.countmode # Unset
  <1> DEFINE cs == Cs(class, call.clock)
             d == [call EXCEPT !.clock = cs]
             c == Given(d, old)
             T == Tops(class) \cup {Unset}
  <1>1. cs \in Codes(class) /\ cs # Unset
    BY CsOf, UnsetAssumption DEF CounterCalls, Codes
  <1>2. /\ call.countmode \in CountModes /\ call.top \in T
        /\ call.overflow \in Overflows \cup {Unset}
        /\ DOMAIN call = {"clock", "countmode", "top", "overflow"}
    BY TopsOf DEF CounterCalls
  <1>3. call.countmode # Unset
    BY <1>2, UnsetAssumption
  <1> HIDE DEF cs
  <1>4. /\ DOMAIN d = {"clock", "countmode", "top", "overflow"}
        /\ d.clock = cs /\ d.countmode = call.countmode /\ d.top = call.top
        /\ d.overflow = call.overflow
    BY <1>2 DEF CounterCalls
  <1> HIDE DEF d, T
  <1>5. old \in [clock : Codes(class) \cup {Unset}, countmode : CountModes \cup {Unset},
                 top : T, overflow : Overflows \cup {Unset}]
    BY DEF CounterConfigs, T
  <1>6. c \in [clock : Codes(class) \cup {Unset}, countmode : CountModes \cup {Unset},
               top : T, overflow : Overflows \cup {Unset}]
    BY <1>1, <1>2, <1>4, <1>5 DEF Given
  <1>7. c.clock = cs /\ c.countmode = call.countmode
    BY <1>1, <1>3, <1>4, <1>5 DEF Given
  <1> HIDE DEF c
  <1> QED
    BY <1>1, <1>3, <1>6, <1>7 DEF CounterConfigs, T, c, d, cs

LEMMA GivenCompare ==
  ASSUME NEW class \in Classes, NEW call \in CompareConfigs(class),
         NEW old \in CompareConfigs(class)
  PROVE  Given(call, old) \in CompareConfigs(class)
  <1>1. CASE class = "c8b"
    <2>1. Given(call, old) \in CompareArguments8b
      BY <1>1 DEF CompareConfigs, CompareArguments8b, Given
    <2> QED
      BY <1>1, <2>1 DEF CompareConfigs
  <1>2. CASE class # "c8b"
    <2>1. Given(call, old) \in CompareArguments8a
      BY <1>2 DEF CompareConfigs, CompareArguments8a, Given
    <2> QED
      BY <1>2, <2>1 DEF CompareConfigs
  <1> QED
    BY <1>1, <1>2

LEMMA GivenCapture ==
  ASSUME NEW call \in CaptureArguments16a, NEW old \in CaptureArguments16a
  PROVE  Given(call, old) \in CaptureArguments16a
  BY DEF CaptureArguments16a, Given


-----------------------------------------------------------------------------
(* The instructions.                                                       *)

\* One configuration is replaced.
LEMMA ConfigReplaced ==
  ASSUME NEW class \in Classes, NEW old, ConfigOK(class, old), NEW unit \in Units \cup {"counter"},
         NEW c,
         unit = "counter" => /\ class # "c8b" /\ c \in CounterConfigs(class)
                             /\ c.clock # Unset => c.countmode # Unset,
         unit \in CompareUnits => c \in CompareConfigs(class),
         unit = "compare2" => class = "c16b",
         unit = "capture0" => class \in Bits16 /\ c \in CaptureArguments16a
  PROVE  ConfigOK(class, [old EXCEPT ![unit] = c])
  <1> DEFINE new == [old EXCEPT ![unit] = c]
             D == Units \cup {"counter"}
  <1>1. DOMAIN new = D /\ new = [u \in D |-> new[u]]
    BY DEF ConfigOK
  <1>2. \A u \in D : new[u] = IF u = unit THEN c ELSE old[u]
    BY DEF ConfigOK
  <1> HIDE DEF new
  <1>3. /\ new["counter"] \in CounterConfigs(class)
        /\ new["counter"].clock # Unset => new["counter"].countmode # Unset
        /\ class = "c8b" => new["counter"].clock = Unset
    BY <1>2 DEF ConfigOK
  <1>4. \A u \in CompareUnits : new[u] \in CompareConfigs(class)
    BY <1>2, UnitNames DEF ConfigOK
  <1>5. class # "c16b" => new["compare2"] = NoCompare
    BY <1>2, UnitNames DEF ConfigOK
  <1>6. /\ class \notin Bits16 => new["capture0"] = NoCapture
        /\ new["capture0"] \in CaptureArguments16a
    BY <1>2, UnitNames DEF ConfigOK
  <1> QED
    BY <1>1, <1>3, <1>4, <1>5, <1>6 DEF ConfigOK, new

LEMMA ConfigureCounterKeeps ==
  ASSUME Inv, ConfigureCounter
  PROVE  /\ Inv' /\ phase' # "committed"
         /\ phase' = "refused" => Refused(Class, config'["counter"])
  <1> USE DEF ConfigureCounter, Calling
  <1>1. PICK call \in Calls(round, "counter") :
          LET c == Given([call EXCEPT !.clock = Cs(Class, call.clock)], config["counter"])
          IN /\ config' = [config EXCEPT !["counter"] = c]
             /\ phase' = IF call.overflow # Unset /\ Refused(Class, c)
                         THEN "refused" ELSE "configuring"
    OBVIOUS
  <1> DEFINE c == Given([call EXCEPT !.clock = Cs(Class, call.clock)], config["counter"])
  <1>2. Class \in Classes \ {"c8b"} /\ call \in CounterCalls(Class, Clocks(Class))
    BY Called DEF CallsOf
  <1>3. c \in CounterConfigs(Class) /\ c.clock # Unset /\ c.countmode # Unset
    BY <1>2, GivenCounter DEF Inv, ConfigOK
  <1>4. /\ config' = [config EXCEPT !["counter"] = c]
        /\ phase' = IF call.overflow # Unset /\ Refused(Class, c)
                    THEN "refused" ELSE "configuring"
    BY <1>1
  <1> HIDE DEF c
  <1>5. ConfigOK(Class, config')
    BY <1>2, <1>3, <1>4, UnitNames, ConfigReplaced DEF Inv
  <1>6. config'["counter"] = c
    BY <1>4 DEF Inv, ConfigOK
  <1>7. Inv'
    BY <1>5 DEF Inv, Class, Rounds
  <1> QED
    BY <1>4, <1>6, <1>7

LEMMA ConfigureUnitKeeps ==
  ASSUME Inv, NEW unit \in Units, ConfigureUnit(unit)
  PROVE  Inv' /\ phase' = "configuring"
  <1> USE DEF ConfigureUnit, Calling
  <1>1. PICK call \in Calls(round, unit) :
          config' = [config EXCEPT ![unit] = Given(call, config[unit])]
    OBVIOUS
  <1>2. Class \in Classes /\ unit \in UnitsOf(Class) /\ call \in CallsOf(Class, unit)
    BY Called
  <1>3. unit # "counter" /\ unit # "irq"
    BY DEF Units
  <1>4. ConfigOK(Class, config)
    BY DEF Inv
  <1>5. unit \in CompareUnits => Given(call, config[unit]) \in CompareConfigs(Class)
    <2> SUFFICES ASSUME unit \in CompareUnits
                 PROVE  Given(call, config[unit]) \in CompareConfigs(Class)
      OBVIOUS
    <2>1. call \in CompareConfigs(Class)
      <3>1. CallsOf(Class, unit) = IF Class = "c8b" THEN CompareArguments8b
              ELSE IF Class \in Bits16 THEN CompareArguments16a ELSE CompareArguments8a
        BY <1>3 DEF CallsOf, CompareUnits
      <3>2. CompareArguments16a = CompareArguments8a
        BY DEF CompareArguments16a, CompareArguments8a
      <3> QED
        BY <1>2, <3>1, <3>2 DEF CompareConfigs
    <2>2. config[unit] \in CompareConfigs(Class)
      BY <1>4 DEF ConfigOK
    <2> QED
      BY <1>2, <2>1, <2>2, GivenCompare
  <1>6. unit = "capture0" => Given(call, config[unit]) \in CaptureArguments16a
    BY <1>2, <1>4, GivenCapture DEF CallsOf, ConfigOK
  <1>7. (unit = "compare2" => Class = "c16b") /\ (unit = "capture0" => Class \in Bits16)
    BY <1>2 DEF UnitsOf
  <1>8. ConfigOK(Class, config')
    BY <1>1, <1>2, <1>3, <1>4, <1>5, <1>6, <1>7, ConfigReplaced
  <1> QED
    BY <1>8 DEF Inv, Class, Rounds

LEMMA ConfigureCounter8bKeeps ==
  ASSUME Inv, ConfigureCounter8b
  PROVE  Inv' /\ phase' = "configuring"
  <1> USE DEF ConfigureCounter8b, Calling
  <1>1. PICK call \in Calls(round, "counter") :
          LET ctc == IF call.top = Unset THEN NoField
                     ELSE Field("ctc", IF call.top = "compare2" THEN 1 ELSE 0)
          IN written' = Over(Field("cs", Cs("c8b", call.clock)), Over(ctc, written))
    OBVIOUS
  <1> DEFINE value == IF call.top = "compare2" THEN 1 ELSE 0
             ctc == IF call.top = Unset THEN NoField ELSE Field("ctc", value)
             cs == Cs("c8b", call.clock)
  <1>2. written' = Over(Field("cs", cs), Over(ctc, written))
    BY <1>1
  <1> HIDE DEF value, cs
  <1>3. DOMAIN ctc \subseteq {"ctc"}
    BY FieldNone, OneDomain
  <1> HIDE DEF ctc
  <1>4. DOMAIN written' = {"cs"} \cup (DOMAIN ctc \cup DOMAIN written)
    <2>1. DOMAIN written' = {"cs"} \cup DOMAIN Over(ctc, written)
      BY <1>2, OneMore, Zenon
    <2>2. DOMAIN Over(ctc, written) = DOMAIN ctc \cup DOMAIN written
      BY FieldDomain
    <2> QED
      BY <2>1, <2>2, Zenon
  <1>5. WrittenOK(written')
    BY <1>3, <1>4 DEF Inv, WrittenOK
  <1> QED
    BY <1>5 DEF Inv, Class, Rounds

LEMMA TurnIrqKeeps ==
  ASSUME Inv, TurnIrq
  PROVE  Inv' /\ phase' = "configuring"
  <1> USE DEF TurnIrq, Calling
  <1>1. PICK state \in Calls(round, "irq") : written' = Over(Field("ie", state), written)
    OBVIOUS
  <1>2. DOMAIN written' = {"ie"} \cup DOMAIN written
    BY <1>1, OneMore, Zenon
  <1>3. WrittenOK(written')
    BY <1>2 DEF Inv, WrittenOK
  <1> QED
    BY <1>3 DEF Inv, Class, Rounds


-----------------------------------------------------------------------------
(* The commit.                                                             *)

Stored(c) == [c EXCEPT !["counter"].top = StoredTop(c["counter"])]

LEMMA StoredOK ==
  ASSUME NEW class \in Classes, NEW c, ConfigOK(class, c)
  PROVE  /\ ConfigOK(class, Stored(c))
         /\ Stored(c)["counter"] = [c["counter"] EXCEPT !.top = StoredTop(c["counter"])]
         /\ \A u \in Units : Stored(c)[u] = c[u]
  <1> DEFINE d == [c["counter"] EXCEPT !.top = StoredTop(c["counter"])]
  <1>1. Stored(c) = [c EXCEPT !["counter"] = d]
    BY DEF Stored, ConfigOK
  <1>2. d \in CounterConfigs(class) /\ d.clock = c["counter"].clock
        /\ d.countmode = c["counter"].countmode
    BY StoredTopStable DEF ConfigOK
  <1> HIDE DEF d
  <1>3. Stored(c)["counter"] = d /\ \A u \in Units : Stored(c)[u] = c[u]
    BY <1>1, UnitNames DEF ConfigOK
  <1>4. DOMAIN Stored(c) = Units \cup {"counter"}
        /\ Stored(c) = [u \in Units \cup {"counter"} |-> Stored(c)[u]]
    BY <1>1 DEF ConfigOK
  <1> HIDE DEF Stored
  <1>5. ConfigOK(class, Stored(c))
    BY <1>2, <1>3, <1>4, UnitNames DEF ConfigOK
  <1> QED
    BY <1>3, <1>5 DEF d

\* The stored top value is the one that was used.
LEMMA SameComs ==
  ASSUME NEW c, NEW d, d["compare0"] = c["compare0"], d["compare1"] = c["compare1"]
  PROVE  Coms(d, {"compare0", "compare1"}) = Coms(c, {"compare0", "compare1"})
  <1> DEFINE C == {v \in {"compare0", "compare1"} : c[v].output # Unset}
             D == {v \in {"compare0", "compare1"} : d[v].output # Unset}
             f(u) == Com(c[u].output)
             g(u) == Com(d[u].output)
  <1>1. C = D
    OBVIOUS
  <1>2. \A u \in C : f(u) = g(u)
    OBVIOUS
  <1> HIDE DEF C, D, f, g
  <1>3. [u \in C |-> f(u)] = [u \in D |-> g(u)]
    BY <1>1, <1>2
  <1> QED
    BY <1>3, Zenon DEF Coms, C, D, f, g

LEMMA SameSolution ==
  ASSUME NEW class \in Classes \ {"c8b"}, NEW c, ConfigOK(class, c)
  PROVE  LET d == Stored(c)
         IN /\ Solve8(class, d["counter"], d) = Solve8(class, c["counter"], c)
            /\ Solve16(class, d["counter"], d, d["capture0"]) =
                 Solve16(class, c["counter"], c, c["capture0"])
  <1> DEFINE d == Stored(c)
             x == c["counter"]
             y == d["counter"]
  <1>1. /\ y = [x EXCEPT !.top = StoredTop(x)]
        /\ d["compare0"] = c["compare0"] /\ d["compare1"] = c["compare1"]
        /\ d["compare2"] = c["compare2"] /\ d["capture0"] = c["capture0"]
    BY StoredOK DEF Units
  <1>2. /\ y.clock = x.clock /\ y.countmode = x.countmode
        /\ x.clock # Unset => TopOf(y) = TopOf(x) /\ OverflowOf(y) = OverflowOf(x)
    BY <1>1, StoredTopStable DEF ConfigOK
  <1>3. Coms(d, {"compare0", "compare1"}) = Coms(c, {"compare0", "compare1"})
    BY <1>1, SameComs
  <1> HIDE DEF d, x, y
  <1>4. CompareUpdate(d) = CompareUpdate(c) /\ UpdatesDiffer16b(d) = UpdatesDiffer16b(c)
    BY <1>1 DEF CompareUpdate, UpdatesDiffer16b
  <1>5. CASE x.clock = Unset
    BY <1>2, <1>5 DEF Solve8, Solve16, x, y, d
  <1>6. CASE x.clock # Unset
    <2>1. Wgm8(y, d) = Wgm8(x, c) /\ Wgm16(y, d) = Wgm16(x, c)
      BY <1>1, <1>2, <1>4, <1>6 DEF Wgm8, Wgm16
    <2>2. Solve8(class, y, d) = Solve8(class, x, c)
      BY <1>1, <1>2, <1>3, <1>4, <1>6, <2>1, SMTT(20) DEF Solve8
    <2>3. Solve16(class, y, d, d["capture0"]) = Solve16(class, x, c, c["capture0"])
      BY <1>1, <1>2, <1>3, <1>4, <1>6, <2>1, SMTT(20) DEF Solve16
    <2> QED
      BY <2>2, <2>3 DEF x, y, d
  <1> QED
    BY <1>5, <1>6


LEMMA SolutionFields ==
  ASSUME NEW class \in Classes \ {"c8b"}, NEW c, ConfigOK(class, c)
  PROVE  LET s == IF class \in {"c8a", "c8c"} THEN Solve8(class, c["counter"], c)
                  ELSE Solve16(class, c["counter"], c, c["capture0"])
         IN DOMAIN s.fields \subseteq Fields \ {"pwm0", "pwm1"}
  <1> DEFINE s8 == Solve8(class, c["counter"], c)
             s16 == Solve16(class, c["counter"], c, c["capture0"])
  <1>0. WithOutput(c) \subseteq {"compare0", "compare1"}
    BY DEF WithOutput
  <1>1. CASE c["counter"].clock = Unset
    <2>1. s8.fields = NoField /\ s16.fields = NoField
      BY <1>1 DEF Solve8, Solve16, Unsolved, Solved
    <2> HIDE DEF s8, s16
    <2> QED
      BY <2>1, FieldNone DEF s8, s16
  <1>2. CASE c["counter"].clock # Unset /\ class \in {"c8a", "c8c"}
    <2>1. DOMAIN s8.fields = {"cs", "wgm"} \cup WithOutput(c)
      BY <1>2, Fields8
    <2> HIDE DEF s8
    <2> QED
      BY <1>0, <1>2, <2>1 DEF Fields, s8
  <1>3. CASE c["counter"].clock # Unset /\ class \in Bits16
    <2>1. DOMAIN s16.fields = {"cs", "wgm"} \cup WithOutput(c)
             \cup {f \in {"acic", "ices", "icnc"} : Asks(class, c["capture0"], f)}
      BY <1>3, Fields16 DEF ConfigOK
    <2>2. class \notin {"c8a", "c8c"}
      BY <1>3 DEF Bits16
    <2> HIDE DEF s16
    <2> QED
      BY <1>0, <1>3, <2>1, <2>2 DEF Fields, s16
  <1> QED
    BY <1>1, <1>2, <1>3 DEF Classes, Bits16

LEMMA WrittenOver ==
  ASSUME NEW f, NEW v, AskedOK(v), DOMAIN f \subseteq Fields
  PROVE  /\ DOMAIN Over(f, v) = Fields /\ Over(f, v) = [x \in Fields |-> Over(f, v)[x]]
         /\ \A x \in DOMAIN f : Over(f, v)[x] = f[x]
         /\ \A x \in Fields \ DOMAIN f : Over(f, v)[x] = v[x]
  <1>1. DOMAIN f \cup DOMAIN v = Fields
    BY DEF AskedOK
  <1>2. DOMAIN Over(f, v) = Fields /\ Over(f, v) = [x \in Fields |-> Over(f, v)[x]]
    BY <1>1, FieldDomain, FieldFunction, Zenon
  <1>3. ASSUME NEW x \in DOMAIN f
        PROVE  Over(f, v)[x] = f[x]
    BY FieldIn
  <1>4. ASSUME NEW x \in Fields \ DOMAIN f
        PROVE  Over(f, v)[x] = v[x]
    <2>1. x \in DOMAIN v
      BY DEF AskedOK
    <2> QED
      BY <2>1, FieldNotIn
  <1> QED
    BY <1>2, <1>3, <1>4

\* What a commit without error does.
Commits ==
  /\ Solution.error = 0 /\ Fits(Solution.fields)
  /\ reg' = Over(Solution.fields, reg) /\ asked' = Over(Solution.fields, asked)
  /\ written' = NoField /\ pins' = pins \cup Driven
  /\ config' = Stored(config)
  /\ round' = IF round < Len(Rounds) THEN round + 1 ELSE round
  /\ left' = IF round < Len(Rounds) THEN DOMAIN Rounds[round + 1] ELSE {}
  /\ prog' = prog /\ phase' = "committed"

Refuses ==
  /\ ~(Solution.error = 0 /\ Fits(Solution.fields)) /\ phase' = "refused"
  /\ UNCHANGED <<prog, round, left, config, written, asked, reg, pins>>

LEMMA CommitCases == ASSUME Commit PROVE Commits \/ Refuses
  BY DEF Commit, Commits, Refuses, Stored

\* The registers hold what was written and stay typed.
LEMMA CommitWrites ==
  ASSUME Inv, Commits
  PROVE  /\ DOMAIN Solution.fields \subseteq Fields
         /\ AskedOK(asked') /\ reg' = asked'
         /\ \A x \in DOMAIN Solution.fields : reg'[x] = Solution.fields[x]
  <1> DEFINE f == Solution.fields
  <1>1. Class \in Classes
    BY RoundsOK
  <1>2. DOMAIN f \subseteq Fields /\ AskedOK(Over(f, asked))
    <2>1. CASE Class = "c8b"
      <3>1. Solution = Solve8b(config, written, asked)
        BY <2>1 DEF Solution, Bits16
      <3>2. Units8b(config)
        BY <2>1 DEF Inv, ConfigOK, CompareConfigs, Units8b, CompareUnits
      <3> QED
        BY <3>1, <3>2, Solved8b DEF Inv, Commits
    <2>2. CASE Class # "c8b"
      <3>1. DOMAIN f \subseteq Fields \ {"pwm0", "pwm1"}
        BY <1>1, <2>2, SolutionFields DEF Solution, Inv, Classes, Bits16
      <3> HIDE DEF f
      <3>2. DOMAIN f \subseteq Fields
        BY <3>1
      <3>3. "pwm0" \in Fields \ DOMAIN f /\ "pwm1" \in Fields \ DOMAIN f
        BY <3>1 DEF Fields
      <3>4. AskedOK(asked)
        BY DEF Inv
      <3>5. /\ DOMAIN Over(f, asked) = Fields
            /\ Over(f, asked) = [x \in Fields |-> Over(f, asked)[x]]
            /\ \A x \in Fields \ DOMAIN f : Over(f, asked)[x] = asked[x]
        BY <3>2, <3>4, WrittenOver
      <3>6. Over(f, asked)["pwm0"] \in {0, 1} /\ Over(f, asked)["pwm1"] \in {0, 1}
        BY <3>3, <3>4, <3>5 DEF AskedOK
      <3> QED
        BY <3>2, <3>5, <3>6 DEF AskedOK
    <2> QED
      BY <2>1, <2>2
  <1>3. \A x \in DOMAIN f : Over(f, asked)[x] = f[x]
    BY <1>2, WrittenOver DEF Inv
  <1> HIDE DEF f
  <1> QED
    BY <1>2, <1>3 DEF Commits, Inv, f


LEMMA CommitInv ==
  ASSUME Inv, Commits
  PROVE  Inv'
  <1> USE DEF Commits
  <1>1. round' \in 1..Len(Rounds) /\ left' \subseteq DOMAIN Rounds[round']
    BY RoundsOK DEF Inv
  <1>2. ConfigOK(Class, config')
    BY RoundsOK, StoredOK DEF Inv
  <1>3. WrittenOK(written')
    BY FieldNone DEF WrittenOK
  <1>4. AskedOK(asked') /\ reg' = asked'
    BY CommitWrites
  <1>5. prog' \in DOMAIN Programs /\ Class' = Class /\ Rounds' = Rounds
    BY DEF Inv, Class, Rounds
  <1> QED
    BY <1>1, <1>2, <1>3, <1>4, <1>5 DEF Inv

\* The solution of what a commit leaves in the context.
LEMMA CommitSettles ==
  ASSUME Inv, Commits
  PROVE  Settled' /\ Settled8b'
  <1> DEFINE s == Solution
  <1>1. Class \in Classes /\ Class' = Class
    BY RoundsOK DEF Class, Commits
  <1>2. ConfigOK(Class, config)
    BY DEF Inv
  <1>3. /\ config'["counter"] = [config["counter"] EXCEPT !.top = StoredTop(config["counter"])]
        /\ \A u \in Units : config'[u] = config[u]
    BY <1>1, <1>2, StoredOK DEF Commits
  <1>4. config'["counter"].top = StoredTop(config'["counter"])
    BY <1>1, <1>2, <1>3, StoredTopStable DEF ConfigOK
  <1>5. Driven' \subseteq pins'
    <2>1. \A u \in CompareUnits : config'[u] = config[u]
      BY <1>3, UnitNames
    <2>2. Driven' = Driven
      BY <2>1 DEF Driven
    <2> QED
      BY <2>2 DEF Commits
  <1>6. CASE Class = "c8b"
    <2> DEFINE v == Over(s.fields, asked)
               again == Solve8b(config, NoField, v)
    <2>1. s = Solve8b(config, written, asked)
      BY <1>6 DEF Solution, Bits16
    <2>2. Units8b(config)
      BY <1>2, <1>6 DEF ConfigOK, CompareConfigs, Units8b, CompareUnits
    <2>3. s.error = 0 /\ reg' = v /\ asked' = v /\ written' = NoField
      BY DEF Commits, Inv
    <2>4. /\ Complement(config["compare0"]) /\ Complement(config["compare1"])
          /\ UnitWritten(v, "pwm0", "mode0", config["compare0"])
          /\ UnitWritten(v, "pwm1", "mode1", config["compare1"])
          /\ v["ie"] = 1 /\ v["ctc"] = 1 => v["pwm0"] = 1 \/ v["pwm1"] = 1
          /\ again.error = 0
          /\ DOMAIN again.fields \subseteq Fields
          /\ \A x \in DOMAIN again.fields : v[x] = again.fields[x]
      BY <2>1, <2>2, <2>3, Solved8b DEF Inv
    <2>5. config'["compare0"] = config["compare0"] /\ config'["compare1"] = config["compare1"]
      BY <1>3 DEF Units
    <2> HIDE DEF s, v
    <2>6. Solution' = Solve8b(config', NoField, v)
      BY <1>1, <1>6, <2>3 DEF Solution, Bits16
    <2>7. Solve8b(config', NoField, v) = again
      <3>1. \A u \in {"compare0", "compare1"} : config'[u] = config[u]
        BY <2>5
      <3> QED
        BY <2>5, <3>1, SMTT(20) DEF Solve8b
    <2> HIDE DEF again
    <2>8. Fits(Solution.fields)'
      BY <1>1, <1>6 DEF Fits
    <2>9. Settled'
      BY <1>4, <1>5, <2>3, <2>4, <2>6, <2>7, <2>8 DEF Settled
    <2>10. Settled8b'
      BY <2>3, <2>4, <2>5 DEF Settled8b
    <2> QED
      BY <2>9, <2>10
  <1>7. CASE Class # "c8b"
    <2>1. Solution' = s
      <3>1. \/ Class \in {"c8a", "c8c"} /\ Class \notin Bits16
            \/ Class \in Bits16 /\ Class \notin {"c8a", "c8c"}
        BY <1>1, <1>7 DEF Classes, Bits16
      <3>2. CASE Class \in {"c8a", "c8c"} /\ Class \notin Bits16
        BY <1>1, <1>2, <1>7, <3>2, SameSolution DEF Solution, Commits
      <3>3. CASE Class \in Bits16 /\ Class \notin {"c8a", "c8c"}
        BY <1>1, <1>2, <1>7, <3>3, SameSolution DEF Solution, Commits
      <3> QED
        BY <3>1, <3>2, <3>3
    <2>2. s.error = 0 /\ Fits(s.fields) /\ written' = NoField
      BY DEF Commits
    <2>3. DOMAIN s.fields \subseteq Fields /\ \A x \in DOMAIN s.fields : reg'[x] = s.fields[x]
      BY CommitWrites
    <2> HIDE DEF s
    <2>4. Solution'.fields = s.fields
      BY <2>1
    <2>5. Fits(Solution.fields)'
      BY <1>1, <2>2, <2>4 DEF Fits
    <2>6. Settled'
      BY <1>4, <1>5, <2>1, <2>2, <2>3, <2>5 DEF Settled
    <2>7. Settled8b'
      BY <1>1, <1>7 DEF Settled8b
    <2> QED
      BY <2>6, <2>7
  <1> QED
    BY <1>6, <1>7


-----------------------------------------------------------------------------
(* The hardware does what was asked.                                       *)

LEMMA CanSolve ==
  ASSUME Inv, Configured
  PROVE  /\ Class \in Classes \ {"c8b"}
         /\ Solvable(Class, config["counter"], config)
         /\ Class \in {"c8a", "c8c"} =>
              Class \notin Bits16 /\ Modes(Class) = Modes8
              /\ Solution = Solve8(Class, config["counter"], config)
         /\ Class \in Bits16 =>
              Class \notin {"c8a", "c8c"} /\ Modes(Class) = Modes16
              /\ Solution = Solve16(Class, config["counter"], config, config["capture0"])
         /\ Class \in {"c8a", "c8c"} \/ Class \in Bits16
  <1>1. Class \in Classes \ {"c8b"}
    BY RoundsOK DEF Inv, ConfigOK, Configured
  <1>2. Solvable(Class, config["counter"], config)
    BY <1>1 DEF Inv, ConfigOK, Configured, Solvable, CompareConfigs
  <1> QED
    BY <1>1, <1>2 DEF Solution, Modes, Classes, Bits16

(* The mode that was chosen, is in the register and does what was asked,    *)
(* everything when the solver has checked.                                  *)
Checked(class, cmp) == class # "c8a" \/ WithOutput(cmp) # {}

LEMMA Chosen ==
  ASSUME Inv, Settled, Committed, Configured
  PROVE  LET c == config["counter"]
         IN \E m \in HardwareModes :
              /\ m \in Modes8 \cup Modes16
              /\ m.count = c.countmode
              /\ ~UpDownToMax => m.top = c.top
              /\ Checked(Class, config) => Agree(m, c, config)
              /\ reg["cs"] = c.clock
              /\ \A u \in WithOutput(config) : reg[u] = Com(config[u].output)
  <1> DEFINE c == config["counter"]
  <1>1. c.top = TopOf(c)
    BY DEF Settled, StoredTop, Configured
  <1>2. /\ Solution.error = 0
        /\ \A x \in DOMAIN Solution.fields : reg[x] = Solution.fields[x]
    BY DEF Settled
  <1>3. ASSUME NEW wgm, Writes(Solution.fields, c, config, wgm)
        PROVE  /\ reg["cs"] = c.clock /\ reg["wgm"] = wgm
               /\ \A u \in WithOutput(config) : reg[u] = Com(config[u].output)
    BY <1>2, <1>3 DEF Writes
  <1>4. CASE Class \in {"c8a", "c8c"}
    <2>1. PICK m \in Modes8 :
            m.wgm = Wgm8(c, config) /\ m.count = c.countmode /\ m.top = TopOf(c)
      BY <1>4, CanSolve, Chosen8
    <2>2. Writes(Solution.fields, c, config, Wgm8(c, config))
      BY <1>4, CanSolve, Fields8 DEF Configured
    <2>3. Class = "c8c" \/ WithOutput(config) # {} => Agree(m, c, config)
      BY <1>2, <1>4, <2>1, CanSolve, Error8
    <2>4. m \in HardwareModes
      BY <1>3, <1>4, <2>1, <2>2, CanSolve DEF HardwareModes
    <2> QED
      BY <1>1, <1>3, <1>4, <2>1, <2>2, <2>3, <2>4 DEF Checked
  <1>5. CASE Class \in Bits16
    <2>1. PICK m \in Modes16 :
            /\ m.wgm = Wgm16(c, config) /\ m.count = c.countmode
            /\ TopOf(c) = "max" => c.countmode = "updown_loop" \/ m.top = "max"
            /\ TopOf(c) # "max" => m.top = TopOf(c)
      BY <1>5, CanSolve, Chosen16
    <2>2. Writes(Solution.fields, c, config, Wgm16(c, config))
      BY <1>5, CanSolve, Fields16 DEF Configured, Inv, ConfigOK
    <2>3. Agree(m, c, config)
      BY <1>2, <1>5, <2>1, CanSolve, Error16
    <2>4. m \in HardwareModes
      BY <1>3, <1>5, <2>1, <2>2, CanSolve DEF HardwareModes
    <2>5. ~UpDownToMax => m.top = c.top
      BY <1>1, <1>5, <2>1 DEF UpDownToMax
    <2> QED
      BY <1>3, <2>1, <2>2, <2>3, <2>4, <2>5
  <1> QED
    BY <1>4, <1>5, CanSolve

LEMMA Counts ==
  ASSUME Inv, Settled
  PROVE  CountsAsAsked
  BY Chosen, Zenon DEF CountsAsAsked

LEMMA DrivenChecked ==
  ASSUME Inv, Class # "c8b", Class # "c8a" \/ Driven # {}
  PROVE  Checked(Class, config)
  <1> SUFFICES ASSUME Class = "c8a", Driven # {}
               PROVE  WithOutput(config) # {}
    BY DEF Checked
  <1>0. /\ \A u \in CompareUnits : config[u] \in CompareArguments8a
        /\ config["compare2"] = NoCompare
    BY DEF Inv, ConfigOK, CompareConfigs
  <1>1. /\ \A u \in CompareUnits : config[u].low = Unset
        /\ config["compare2"].output = Unset
    BY <1>0 DEF CompareArguments8a, NoCompare
  <1>2. \E u \in CompareUnits : config[u].output \notin {Unset, "DIS"}
    BY <1>1 DEF Driven
  <1> QED
    BY <1>1, <1>2 DEF WithOutput, CompareUnits

LEMMA OverflowStated ==
  ASSUME Inv, Settled
  PROVE  OverflowAsStated
  <1> SUFFICES ASSUME Committed, Configured, Class # "c8b", Class # "c8a" \/ Driven # {}
               PROVE  /\ config["counter"].overflow # Unset =>
                           \E m \in HardwareModes : m.overflow = config["counter"].overflow
                      /\ config["compare0"].update # Unset =>
                           \E m \in HardwareModes : m.update = config["compare0"].update
    BY DEF OverflowAsStated
  <1>1. PICK m \in HardwareModes : Agree(m, config["counter"], config)
    BY Chosen, DrivenChecked
  <1> QED
    BY <1>1 DEF Agree, OverflowOf

LEMMA Captures ==
  ASSUME Inv, Settled
  PROVE  CaptureAsStated
  <1> DEFINE cap == config["capture0"]
             solved == Class = "c16a" \/ cap.input # Unset
  <1> SUFFICES ASSUME Committed, Configured, solved
               PROVE  /\ cap.input # Unset => reg["acic"] = (IF cap.input = 2 THEN 1 ELSE 0)
                      /\ cap.edge # Unset => reg["ices"] = (IF cap.edge = 2 THEN 1 ELSE 0)
                      /\ cap.filter # Unset => reg["icnc"] = cap.filter
    BY DEF CaptureAsStated
  <1>1. Class \in Bits16
    BY CanSolve DEF Inv, ConfigOK, NoCapture, Bits16
  <1>2. cap \in CaptureArguments16a
    BY DEF Inv, ConfigOK
  <1> DEFINE f == Solution.fields
  <1>3. /\ DOMAIN f = {"cs", "wgm"} \cup WithOutput(config)
                      \cup {x \in {"acic", "ices", "icnc"} : Asks(Class, cap, x)}
        /\ Asks(Class, cap, "acic") => f["acic"] = cap.input - 1
        /\ Asks(Class, cap, "ices") => f["ices"] = cap.edge - 1
        /\ Asks(Class, cap, "icnc") => f["icnc"] = cap.filter
    BY <1>1, <1>2, CanSolve, Fields16 DEF Configured
  <1>4. \A x \in DOMAIN f : reg[x] = f[x]
    BY DEF Settled
  <1> HIDE DEF f
  <1>5. \A x \in {"acic", "ices", "icnc"} : Asks(Class, cap, x) => reg[x] = f[x]
    BY <1>3, <1>4
  <1>6. /\ cap.input # Unset => Asks(Class, cap, "acic")
        /\ cap.edge # Unset => Asks(Class, cap, "ices")
        /\ cap.filter # Unset => Asks(Class, cap, "icnc")
    BY DEF Asks
  <1> QED
    BY <1>2, <1>3, <1>5, <1>6, UnsetAssumption DEF CaptureArguments16a

LEMMA Flags ==
  ASSUME Inv, Settled, Settled8b
  PROVE  FlagsAsAsked
  BY OverflowStated, Captures DEF FlagsAsAsked, OverflowIrqPossible, Settled8b

LEMMA Waveforms ==
  ASSUME Inv, Settled, Settled8b
  PROVE  WaveformAsAsked
  <1> SUFFICES ASSUME Committed, NEW u \in {"compare0", "compare1"}
      PROVE LET output == config[u].output
                low    == config[u].low
                pwm    == IF u = "compare0" THEN reg["pwm0"] ELSE reg["pwm1"]
                mode   == IF u = "compare0" THEN reg["mode0"] ELSE reg["mode1"]
            IN /\ Configured /\ output # Unset =>
                    \E m \in HardwareModes :
                      /\ Waveform(m, reg[u]) = output
                      /\ output \in (IF u = "compare0" THEN m.oca ELSE m.ocb)
               /\ Class = "c8b" /\ output # Unset =>
                    Waveform8b(pwm, mode) =
                      [high |-> output, low |-> IF low = Unset THEN "DIS" ELSE low]
               /\ output \notin {Unset, "DIS"} => <<u, "high">> \in pins
               /\ low \notin {Unset, "DIS"} => <<u, "low">> \in pins
    BY DEF WaveformAsAsked
  <1> DEFINE output == config[u].output
             low == config[u].low
             wanted == [high |-> output, low |-> IF low = Unset THEN "DIS" ELSE low]
             pwm    == IF u = "compare0" THEN reg["pwm0"] ELSE reg["pwm1"]
             mode   == IF u = "compare0" THEN reg["mode0"] ELSE reg["mode1"]
  <1>1. ASSUME Configured, output # Unset
        PROVE  \E m \in HardwareModes :
                 /\ Waveform(m, reg[u]) = output
                 /\ output \in (IF u = "compare0" THEN m.oca ELSE m.ocb)
    <2>1. u \in WithOutput(config)
      BY <1>1 DEF WithOutput
    <2>2. PICK m \in HardwareModes :
            /\ m \in Modes8 \cup Modes16
            /\ Agree(m, config["counter"], config)
            /\ reg[u] = Com(config[u].output)
      BY <1>1, <2>1, Chosen DEF Checked
    <2>3. output \in (IF u = "compare0" THEN m.oca ELSE m.ocb)
      BY <1>1, <2>2 DEF Agree
    <2>4. Waveform(m, Com(output)) = output
      BY <2>2, <2>3, ComMeans
    <2> QED
      BY <2>2, <2>3, <2>4
  <1>2. ASSUME Class = "c8b", output # Unset
        PROVE  Waveform8b(pwm, mode) = wanted
    <2>0. wanted = Wanted(config[u])
      BY DEF Wanted
    <2> HIDE DEF wanted
    <2>1. config[u] \in CompareArguments8b /\ Complement(config[u]) /\ Asks8b(config[u])
      BY <1>2 DEF Inv, ConfigOK, CompareConfigs, CompareUnits, Settled8b, Asks8b
    <2>2. CASE u = "compare0"
      <3> DEFINE f == Solve8bUnit("pwm0", "mode0", config[u])
      <3>1. pwm = f["pwm0"] /\ mode = f["mode0"]
        BY <1>2, <2>1, <2>2 DEF Settled8b, UnitWritten
      <3>2. Waveform8b(f["pwm0"], f["mode0"]) = wanted
        BY <1>2, <2>0, <2>1, UnitWave
      <3> HIDE DEF f, pwm, mode
      <3> QED
        BY <3>1, <3>2
    <2>3. CASE u = "compare1"
      <3> DEFINE f == Solve8bUnit("pwm1", "mode1", config[u])
      <3>1. pwm = f["pwm1"] /\ mode = f["mode1"]
        BY <1>2, <2>1, <2>3 DEF Settled8b, UnitWritten
      <3>2. Waveform8b(f["pwm1"], f["mode1"]) = wanted
        BY <1>2, <2>0, <2>1, UnitWave
      <3> HIDE DEF f, pwm, mode
      <3> QED
        BY <3>1, <3>2
    <2> QED
      BY <2>2, <2>3
  <1>3. /\ output \notin {Unset, "DIS"} => <<u, "high">> \in pins
        /\ low \notin {Unset, "DIS"} => <<u, "low">> \in pins
    BY DEF Settled, Driven, CompareUnits
  <1> QED
    BY <1>1, <1>2, <1>3


-----------------------------------------------------------------------------
(* A refusal.                                                              *)

LEMMA PossibleDoes ==
  Possible <=> \E m \in Modes(Class) : Does(m, config["counter"], config)
  BY DEF Possible, Does

\* The mode that does everything has no error.
LEMMA DoesAgree ==
  ASSUME NEW m, NEW c, NEW cmp, Does(m, c, cmp), c.overflow # Unset
  PROVE  /\ Agree(m, c, cmp)
         /\ ~UpdatesDiffer(cmp["compare0"].update, cmp["compare1"].update)
         /\ ~UpdatesDiffer16b(cmp)
  BY DEF Does, Agree, OverflowOf, UpdatesDiffer, UpdatesDiffer16b, CompareUnits

\* When it exists the commit does not refuse.
LEMMA NotRefused ==
  ASSUME Inv, Configured, ~RefusedTooMuch, Possible
  PROVE  Solution.error = 0 /\ Fits(Solution.fields)
  <1> DEFINE c == config["counter"]
  <1>1. PICK m \in Modes(Class) : Does(m, c, config)
    BY PossibleDoes
  <1>2. c.overflow # Unset /\ config["compare0"].update # Unset
    BY DEF RefusedTooMuch
  <1>3. /\ Agree(m, c, config)
        /\ ~UpdatesDiffer(config["compare0"].update, config["compare1"].update)
        /\ ~UpdatesDiffer16b(config)
    BY <1>1, <1>2, DoesAgree
  <1>4. c.clock \in Int /\ c.clock < 8
    <2>1. c.clock \in Codes(Class)
      BY DEF Inv, ConfigOK, CounterConfigs, Configured
    <2>2. Class = "c8c" => c.clock # 8
      BY DEF RefusedTooMuch
    <2> QED
      BY <2>1, <2>2 DEF Codes
  <1>5. CASE Class \in {"c8a", "c8c"}
    <2>1. m \in Modes8 /\ Wgm8(c, config) = m.wgm
      BY <1>1, <1>2, <1>5, CanSolve, Found8
    <2>2. Solution.error = 0
      BY <1>3, <1>5, <2>1, CanSolve, Error8
    <2>3. Solution.fields["cs"] = c.clock
      BY <1>5, CanSolve, Fields8 DEF Configured, Writes
    <2> QED
      BY <1>4, <2>2, <2>3 DEF Fits
  <1>6. CASE Class \in Bits16
    <2>1. ~OtherMode16(c, config)
      BY <1>6 DEF RefusedTooMuch, OtherMode16
    <2>2. m \in Modes16 /\ Wgm16(c, config) = m.wgm
      BY <1>1, <1>2, <1>6, <2>1, CanSolve, Found16
    <2>3. Solution.error = 0
      BY <1>3, <1>6, <2>2, CanSolve, Error16
    <2>4. Writes(Solution.fields, c, config, Wgm16(c, config))
      BY <1>6, CanSolve, Fields16 DEF Configured, Inv, ConfigOK
    <2>5. Solution.fields["cs"] = c.clock
      BY <2>4 DEF Writes
    <2> QED
      BY <1>4, <2>3, <2>5 DEF Fits
  <1> QED
    BY <1>5, <1>6, CanSolve

\* An 8-bit counter that counts up has no overflow at the bottom.
LEMMA NoOverflowAtBottom ==
  ASSUME Refused(Class, config["counter"])
  PROVE  ~Possible
  <1>1. Modes(Class) = Modes8
    BY DEF Refused, Modes
  <1>2. \A m \in Modes8 : m.count = "up_loop" => m.overflow # "at_bottom"
    BY DEF Modes8, Mode
  <1>3. "at_bottom" # Unset
    BY UnsetAssumption DEF Overflows
  <1> QED
    BY <1>1, <1>2, <1>3, PossibleDoes DEF Refused, Does

-----------------------------------------------------------------------------
(* Every step.                                                             *)

IndInv == Inv /\ Settled /\ Settled8b /\ RefusesOnlyImpossible

LEMMA Initially == ASSUME Init PROVE IndInv
  <1> USE DEF Init
  <1>1. Class \in Classes /\ round \in 1..Len(Rounds) /\ left \subseteq DOMAIN Rounds[round]
    BY ProgramsAssumption DEF Class, Rounds
  <1>2. ConfigOK(Class, config)
    <2>1. DOMAIN NoConfig = Units \cup {"counter"}
          /\ NoConfig = [u \in Units \cup {"counter"} |-> NoConfig[u]]
      BY DEF NoConfig
    <2>2. NoConfig["counter"] = NoCounter /\ NoConfig["capture0"] = NoCapture
          /\ \A u \in CompareUnits : NoConfig[u] = NoCompare
      BY UnitNames DEF NoConfig, CompareUnits
    <2>3. NoCounter \in CounterConfigs(Class) /\ NoCounter.clock = Unset
      BY DEF NoCounter, CounterConfigs
    <2>4. NoCompare \in CompareConfigs(Class)
      BY DEF NoCompare, CompareConfigs, CompareArguments8a, CompareArguments8b
    <2>5. NoCapture \in CaptureArguments16a
      BY DEF NoCapture, CaptureArguments16a
    <2> HIDE DEF NoConfig, NoCounter, NoCompare, NoCapture
    <2> QED
      BY <2>1, <2>2, <2>3, <2>4, <2>5 DEF ConfigOK, CompareUnits
  <1>3. WrittenOK(written)
    BY FieldNone DEF WrittenOK
  <1>4. AskedOK(asked) /\ reg = asked
    BY DEF AskedOK, Fields
  <1>5. Inv
    BY <1>1, <1>2, <1>3, <1>4 DEF Inv
  <1> QED
    BY <1>5 DEF IndInv, Settled, Settled8b, RefusesOnlyImpossible, Committed

\* While it is configured nothing is said of the hardware.
LEMMA Configuring ==
  ASSUME Inv', phase' = "configuring"
  PROVE  IndInv'
  BY DEF IndInv, Settled, Settled8b, RefusesOnlyImpossible, Committed

LEMMA Step ==
  ASSUME IndInv, [Next]_vars
  PROVE  IndInv'
  <1> USE DEF IndInv
  <1>1. CASE ConfigureCounter
    <2>1. /\ Inv' /\ phase' # "committed"
          /\ phase' = "refused" => Refused(Class, config'["counter"])
      BY <1>1, ConfigureCounterKeeps
    <2>2. Class' = Class
      BY <1>1 DEF ConfigureCounter, Calling, Class
    <2>3. phase' = "refused" => Refused(Class, config["counter"])'
      BY <2>1, <2>2
    <2>4. (Refused(Class, config["counter"]) => ~Possible)'
      BY NoOverflowAtBottom, PTL
    <2>5. RefusesOnlyImpossible'
      BY <2>3, <2>4 DEF RefusesOnlyImpossible
    <2> QED
      BY <2>1, <2>5 DEF Settled, Settled8b, Committed
  <1>2. CASE ConfigureCounter8b
    BY <1>2, ConfigureCounter8bKeeps, Configuring
  <1>3. CASE TurnIrq
    BY <1>3, TurnIrqKeeps, Configuring
  <1>4. ASSUME NEW unit \in Units, ConfigureUnit(unit)
        PROVE  IndInv'
    BY <1>4, ConfigureUnitKeeps, Configuring
  <1>5. CASE Commit
    <2>1. CASE Commits
      <3>1. Inv' /\ Settled' /\ Settled8b'
        BY <2>1, CommitInv, CommitSettles
      <3>2. RefusesOnlyImpossible'
        BY <2>1 DEF Commits, RefusesOnlyImpossible
      <3> QED
        BY <3>1, <3>2
    <2>2. CASE Refuses
      <3>1. Inv'
        BY <2>2 DEF Refuses, Inv, Class, Rounds
      <3>2. Settled' /\ Settled8b'
        BY <2>2 DEF Refuses, Settled, Settled8b, Committed
      <3>3. Configured /\ ~RefusedTooMuch => ~Possible
        BY <2>2, NotRefused DEF Refuses
      <3>4. /\ Configured' <=> Configured
            /\ RefusedTooMuch' <=> RefusedTooMuch
            /\ Possible' <=> Possible
        BY <2>2 DEF Refuses, Configured, RefusedTooMuch, UpDownToMax, Possible, Class
      <3>5. RefusesOnlyImpossible'
        BY <3>3, <3>4 DEF RefusesOnlyImpossible
      <3> QED
        BY <3>1, <3>2, <3>5
    <2> QED
      BY <1>5, <2>1, <2>2, CommitCases
  <1>6. CASE UNCHANGED vars
    BY <1>6 DEF vars, Inv, Settled, Settled8b, RefusesOnlyImpossible, Class, Rounds, Committed,
                Configured, Solution, Fits, Driven, RefusedTooMuch, UpDownToMax, Possible
  <1>7. CASE Refusal
    BY <1>6, <1>7 DEF Refusal
  <1> QED
    BY <1>1, <1>2, <1>3, <1>4, <1>5, <1>6, <1>7 DEF Next

\* A commit after a commit.
LEMMA CommitAgain ==
  ASSUME IndInv, Committed, Commit
  PROVE  UNCHANGED <<config, asked, reg, pins, phase>>
  <1> USE DEF IndInv
  <1>1. /\ config["counter"].top = StoredTop(config["counter"])
        /\ Solution.error = 0 /\ Fits(Solution.fields)
        /\ DOMAIN Solution.fields \subseteq Fields
        /\ \A x \in DOMAIN Solution.fields : reg[x] = Solution.fields[x]
        /\ Driven \subseteq pins
    BY DEF Settled
  <1>2. Commits
    BY <1>1, CommitCases DEF Refuses
  <1>3. Over(Solution.fields, reg) = reg
    <2> DEFINE f == Solution.fields
    <2>1. DOMAIN reg = Fields /\ reg = [x \in Fields |-> reg[x]]
      BY DEF Inv, AskedOK
    <2>2. DOMAIN f \subseteq Fields /\ \A x \in DOMAIN f : reg[x] = f[x]
      BY <1>1
    <2> HIDE DEF f
    <2>3. Over(f, reg) = reg
      BY <2>1, <2>2, OverSame
    <2> QED
      BY <2>3 DEF f
  <1>4. Stored(config) = config
    <2> DEFINE c == config["counter"]
    <2>1. [c EXCEPT !.top = c.top] = c
      BY DEF Inv, ConfigOK, CounterConfigs
    <2>2. Stored(config) = [config EXCEPT !["counter"] = [c EXCEPT !.top = StoredTop(c)]]
      BY DEF Stored, Inv, ConfigOK
    <2>3. Stored(config) = [config EXCEPT !["counter"] = c]
      BY <1>1, <2>1, <2>2
    <2> HIDE DEF c
    <2>4. [config EXCEPT !["counter"] = config["counter"]] = config
      BY DEF Inv, ConfigOK
    <2> QED
      BY <2>3, <2>4 DEF c
  <1>5. pins \cup Driven = pins
    BY <1>1
  <1>6. phase = "committed"
    BY DEF Committed
  <1> QED
    BY <1>2, <1>3, <1>4, <1>5, <1>6 DEF Commits, Inv


-----------------------------------------------------------------------------
(* The theorems, for every table of programs.                              *)

(* Type correctness: in every reachable state the arguments that are kept   *)
(* are arguments, the hardware is what the context knows of it, and what is *)
(* committed is a solution of the arguments that are kept.                  *)
THEOREM CounterCorrect == Spec => []IndInv
  <1>1. Init => IndInv
    BY Initially
  <1>2. IndInv /\ [Next]_vars => IndInv'
    BY Step
  <1> QED
    BY <1>1, <1>2, PTL DEF Spec

(* hwa_commit() programs the clock, the counting mode and the top value     *)
(* that were asked for, after any number of instructions and commits.       *)
THEOREM CountsCorrect == Spec => []CountsAsAsked
  <1>1. IndInv => CountsAsAsked
    BY Counts DEF IndInv
  <1> QED
    BY <1>1, CounterCorrect, PTL

(* The pins of the compare units do what was asked of them.                 *)
THEOREM WaveformCorrect == Spec => []WaveformAsAsked
  <1>1. IndInv => WaveformAsAsked
    BY Waveforms DEF IndInv
  <1> QED
    BY <1>1, CounterCorrect, PTL

(* Flags and updates come when it was asked; the overflow interrupt of      *)
(* class _c8b is possible; the capture unit has its input and its edge.     *)
THEOREM FlagsCorrect == Spec => []FlagsAsAsked
  <1>1. IndInv => FlagsAsAsked
    BY Flags DEF IndInv
  <1> QED
    BY <1>1, CounterCorrect, PTL

(* The solvers refuse a fully described counter only when no mode of the    *)
(* hardware does what is asked.                                             *)
THEOREM RefusalCorrect == Spec => []RefusesOnlyImpossible
  <1>1. IndInv => RefusesOnlyImpossible
    BY DEF IndInv
  <1> QED
    BY <1>1, CounterCorrect, PTL

(* A second hwa_commit() finds the same solution and writes nothing.        *)
THEOREM CommitAgainCorrect == Spec => CommitAgainChangesNothing
  <1>1. IndInv /\ [Next]_vars =>
          [Committed /\ Commit => UNCHANGED <<config, asked, reg, pins, phase>>]_vars
    BY CommitAgain
  <1> QED
    BY <1>1, CounterCorrect, PTL DEF Spec, CommitAgainChangesNothing

=============================================================================
