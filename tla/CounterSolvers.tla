--------------------------- MODULE CounterSolvers ---------------------------
(***************************************************************************)
(* What the commit deduces from the arguments given to a counter and to    *)
(* its compare and capture units: the functions _hwa_solve_c8a, _c8c,      *)
(* _c16a, _c16b and the macros _hwa_solve_c8b, _hwa_solve_cmp8b.  `c` is   *)
(* the counter's configuration, `cmp` the compare units', `cap` the        *)
(* capture unit's.  Error codes are those the functions return; the        *)
(* outputs and their families are those of CounterModes.                   *)
(***************************************************************************)
EXTENDS CounterModes, Sequences

\* The values of some fields: of none, of one, those of f then those of g.
NoField == [f \in {} |-> 0]
Field(f, v) == [g \in {f} |-> v]
Over(f, g) ==
  [x \in DOMAIN f \cup DOMAIN g |-> IF x \in DOMAIN f THEN f[x] ELSE g[x]]

\* A check returns its code when it fails, 0 otherwise; the first failure is
\* the one returned.
Check(holds, code) == IF holds THEN 0 ELSE code

FirstError(checks) ==
  LET failed == {i \in DOMAIN checks : checks[i] # 0}
  IN IF failed = {} THEN 0
     ELSE checks[CHOOSE i \in failed : \A j \in failed : i <= j]

TopOf(c) == IF c.top = Unset THEN "max" ELSE c.top

\* Mutants: the other default is kept; a stated overflow is ignored.
StoredOtherTop(c) == IF c.top = Unset THEN "compare0" ELSE c.top
OverflowIgnored(c) ==
  IF TopOf(c) # "compare0" THEN Unset
  ELSE IF c.countmode = "up_loop" THEN "at_top" ELSE "at_bottom"

\* What the context keeps: the default is stored.
StoredTop(c) == IF c.clock = Unset THEN c.top ELSE TopOf(c)

OverflowOf(c) ==
  IF c.overflow # Unset \/ TopOf(c) # "compare0" THEN c.overflow
  ELSE IF c.countmode = "up_loop" THEN "at_top" ELSE "at_bottom"

\* Two units must not ask for different updates; the first one's is used.
UpdatesDiffer(a, b) == a # Unset /\ b # Unset /\ a # b

CompareUpdate(cmp) == cmp["compare0"].update

\* The field com of a compare unit, from its output.
Com(output) ==
  CASE output = "DIS" -> 0
    [] output = "ToM" -> 1
    [] output \in {"CoM", "SaBCoM", "CmuSmd"} -> 2
    [] OTHER -> 3

FastOutput == {"SaBCoM", "CaBSoM"}
PhaseOutput == {"CmuSmd", "SmuCmd"}

-----------------------------------------------------------------------------
(* 8-bit counters of classes _c8a and _c8c.                                *)

\* Mutant: counting up and down forgets the top value.
Wgm8NoTop(c, cmp) ==
  CASE c.countmode = "up_loop" /\ TopOf(c) = "max" -> 0
    [] c.countmode = "up_loop" /\ TopOf(c) # "max" -> 7
    [] OTHER -> 1

Wgm8(c, cmp) ==
  LET fast == \/ CompareUpdate(cmp) = "at_bottom"
              \/ \E u \in {"compare0", "compare1"} : cmp[u].output \in FastOutput
  IN CASE c.countmode = "up_loop" /\ TopOf(c) = "max" -> IF fast THEN 3 ELSE 0
       [] c.countmode = "up_loop" /\ TopOf(c) # "max" ->
            IF fast \/ OverflowOf(c) = "at_top" THEN 7 ELSE 2
       [] OTHER -> IF TopOf(c) = "max" THEN 1 ELSE 5

\* Mutant: toggling is refused in every PWM mode.
OutputA8NoToggle(wgm, output) ==
  CASE wgm \in {0, 2} -> Check(output \in Normal, 4)
    [] wgm \in {3, 7} -> Check(output \in Fast, 5)
    [] wgm \in {1, 5} -> Check(output \in Phase, 7)

OutputA8(wgm, output) ==
  CASE wgm \in {0, 2} -> Check(output \in Normal, 4)
    [] wgm = 3        -> Check(output \in Fast, 5)
    [] wgm = 7        -> Check(output \in Fast \cup {"ToM"}, 6)
    [] wgm = 1        -> Check(output \in Phase, 7)
    [] wgm = 5        -> Check(output \in Phase \cup {"ToM"}, 8)

\* Mutant: the checks of the first output, copied.
OutputB8Copied(wgm, output) == OutputA8(wgm, output)

OutputB8(wgm, output) ==
  CASE wgm \in {0, 2} -> Check(output \in Normal, 9)
    [] wgm \in {3, 7} -> Check(output \in Fast, 10)
    [] wgm \in {1, 5} -> Check(output \in Phase, 11)

Update8(wgm, update) ==
  CASE wgm \in {0, 2} -> Check(update = "immediately", 12)
    [] wgm \in {3, 7} -> Check(update = "at_bottom", 13)
    [] OTHER          -> Check(update = "at_top", 14)

Overflow8(wgm, overflow) ==
  CASE wgm = 7        -> Check(overflow = "at_top", 15)
    [] wgm \in {1, 5} -> Check(overflow = "at_bottom", 16)
    [] OTHER          -> Check(overflow = "at_max", 17)

-----------------------------------------------------------------------------
(* 16-bit counters.                                                        *)

Wgm16(c, cmp) ==
  LET update == CompareUpdate(cmp)
      atTop  == OverflowOf(c) = "at_top"
      a == cmp["compare0"].output
      b == cmp["compare1"].output
  IN IF c.countmode = "up_loop"
     THEN CASE TopOf(c) = "max"   -> 0
            [] TopOf(c) = "0xFF"  -> 5
            [] TopOf(c) = "0x1FF" -> 6
            [] TopOf(c) = "0x3FF" -> 7
            [] TopOf(c) = "compare0" ->
                 IF atTop \/ update = "immediately" \/ b \in FastOutput
                 THEN 15 ELSE 4
            [] OTHER ->
                 IF \/ atTop \/ update = "at_top"
                    \/ a \in FastOutput \cup {"ToM"} \/ b \in FastOutput
                 THEN 14 ELSE 12
     ELSE CASE TopOf(c) = "0xFF"  -> 1
            [] TopOf(c) = "0x1FF" -> 2
            [] TopOf(c) = "0x3FF" -> 3
            [] TopOf(c) = "compare0" ->
                 IF update = "at_bottom" \/ b \in PhaseOutput THEN 9 ELSE 11
            [] OTHER ->
                 IF \/ update = "at_bottom"
                    \/ a \in PhaseOutput \cup {"ToM"} \/ b \in PhaseOutput
                 THEN 8 ELSE 10

OutputA16(wgm, output) ==
  CASE wgm \in {0, 12}   -> Check(output \in Normal, 4)
    [] wgm \in {5, 6, 7} -> Check(output \in Fast, 5)
    [] wgm = 14          -> Check(output \in Fast \cup {"ToM"}, 6)
    [] wgm \in {1, 2, 3} -> Check(output \in Phase, 7)
    [] wgm \in {8, 10}   -> Check(output \in Phase \cup {"ToM"}, 8)
    [] OTHER             -> Check(output = "DIS", 9)

OutputB16(wgm, output) ==
  CASE wgm \in {0, 4, 12}         -> Check(output \in Normal, 10)
    [] wgm \in {5, 6, 7, 14, 15}  -> Check(output \in Fast, 11)
    [] OTHER                      -> Check(output \in Phase, 12)

Update16(wgm, update) ==
  CASE wgm \in {0, 4, 12} -> Check(update = "immediately", 13)
    [] wgm \in {8, 9}     -> Check(update = "at_bottom", 14)
    [] OTHER              -> Check(update = "at_top", 15)

Overflow16(wgm, overflow) ==
  CASE wgm \in {0, 4, 12}        -> Check(overflow = "at_max", 16)
    [] wgm \in {5, 6, 7, 14, 15} -> Check(overflow = "at_top", 17)
    [] OTHER                     -> Check(overflow = "at_bottom", 18)

-----------------------------------------------------------------------------
(* The functions.                                                          *)

\* An argument that was not given is not checked.
IfGiven(v, check) == IF v = Unset THEN 0 ELSE check

\* A field that is absent is left alone; nothing is solved for a counter that
\* was not configured.
Solved(error, fields) == [error |-> error, fields |-> fields]
Unsolved == Solved(0, NoField)

\* The fields of the units that have an output, named by the unit.
Coms(cmp, units) == [u \in {v \in units : cmp[v].output # Unset} |-> Com(cmp[u].output)]

CounterFields(cs, wgm) == Over(Field("cs", cs), Field("wgm", wgm))

\* _hwa_solve_c8a, _hwa_solve_c8c: the former checks nothing when no compare
\* unit has an output.
Solve8(class, c, cmp) ==
  LET wgm    == Wgm8(c, cmp)
      a      == cmp["compare0"].output
      b      == cmp["compare1"].output
      update == CompareUpdate(cmp)
      over   == OverflowOf(c)
      differ == UpdatesDiffer(update, cmp["compare1"].update)
      checks == IF class = "c8a" /\ a = Unset /\ b = Unset THEN <<>>
                ELSE << IfGiven(a, OutputA8(wgm, a)), IfGiven(b, OutputB8(wgm, b)),
                        IfGiven(update, Update8(wgm, update)),
                        IfGiven(over, Overflow8(wgm, over)) >>
  IN IF c.clock = Unset THEN Unsolved
     ELSE Solved(IF differ THEN 1 ELSE FirstError(checks),
                 Over(CounterFields(c.clock, wgm), Coms(cmp, {"compare0", "compare1"})))

(* The update _hwa_solve_c16b retains: the first unit's again, as the       *)
(* branches of the other two units assign compare0's; a unit is compared    *)
(* with what is retained so far.                                            *)
UpdatesDiffer16b(cmp) ==
  \/ UpdatesDiffer(cmp["compare0"].update, cmp["compare1"].update)
  \/ UpdatesDiffer(cmp["compare0"].update, cmp["compare2"].update)

\* In _hwa_solve_c16b the edge and the filter need an input.
Capture(class, cap) ==
  LET solved == class = "c16a" \/ cap.input # Unset
  IN Over(IF cap.input # Unset THEN Field("acic", cap.input - 1) ELSE NoField,
     Over(IF solved /\ cap.edge # Unset THEN Field("ices", cap.edge - 1) ELSE NoField,
          IF solved /\ cap.filter # Unset THEN Field("icnc", cap.filter) ELSE NoField))

\* _hwa_solve_c16a, _hwa_solve_c16b: com of the third compare unit of the
\* latter is not solved.
Solve16(class, c, cmp, cap) ==
  LET wgm    == Wgm16(c, cmp)
      a      == cmp["compare0"].output
      b      == cmp["compare1"].output
      update == CompareUpdate(cmp)
      over   == OverflowOf(c)
      differ == IF class = "c16b" THEN UpdatesDiffer16b(cmp)
                ELSE UpdatesDiffer(update, cmp["compare1"].update)
      checks == << IfGiven(a, OutputA16(wgm, a)), IfGiven(b, OutputB16(wgm, b)),
                   IfGiven(update, Update16(wgm, update)),
                   IfGiven(over, Overflow16(wgm, over)) >>
  IN IF c.clock = Unset THEN Unsolved
     ELSE Solved(IF differ THEN 1 ELSE FirstError(checks),
                 Over(CounterFields(c.clock, wgm),
                      Over(Coms(cmp, {"compare0", "compare1"}), Capture(class, cap))))

-----------------------------------------------------------------------------
(* The counter of class _c8b writes its registers when it is configured;   *)
(* the commit writes those of the compare units, then checks what is to be *)
(* written (the mask of a field tells that it is).                         *)

\* _hwa_solve_cmp8b: the fields pwm and mode for the two outputs of a unit.
Solve8bUnit(pwm, mode, unit) ==
  LET fields(p, m) == Over(Field(pwm, p), Field(mode, m))
      high == unit.output
  IN IF unit.low = "CaBSoM" THEN fields(1, 1) ELSE
     CASE high = "DIS"        -> fields(0, 0)
       [] high = "ToM"        -> fields(0, 1)
       [] high = "CoM"        -> fields(0, 2)
       [] high = "SoM"        -> fields(0, 3)
       [] high = "SaBCoM"     -> fields(1, 2)
       [] high = "CaBSoM"     -> fields(1, 3)
       [] OTHER               -> NoField

\* A field has the value written since the last commit, or the one before.
MValue(new, asked, f) == IF f \in DOMAIN new THEN new[f] ELSE asked[f]

(* _hwa_solve_c8b: `written` holds what the instructions wrote since the    *)
(* last commit, `asked` every value written in the context, 0 if none.      *)
Solve8b(cmp, written, asked) ==
  LET units == Over(Solve8bUnit("pwm0", "mode0", cmp["compare0"]),
                    Solve8bUnit("pwm1", "mode1", cmp["compare1"]))
      new  == Over(units, written)
      Value(f)   == MValue(new, asked, f)
      Pending(f) == f \in DOMAIN new
      \* an overflow interrupt with top compare2 needs PWM
      lacksPwm == /\ Value("ie") = 1 /\ Value("ctc") = 1
                  /\ Value("pwm0") = 0 /\ Value("pwm1") = 0
      pwmAsked == Pending("pwm0") \/ Pending("pwm1")
      badLow   == \E u \in {"compare0", "compare1"} :
                    cmp[u].low = "CaBSoM" /\ cmp[u].output # "SaBCoM"
      mixed    == /\ Pending("pwm0") /\ Pending("pwm1")
                  /\ Value("pwm0") # Value("pwm1")
      \* as written: the second unit's value in both cases
      noTop    == /\ Pending("ctc") /\ Value("ctc") = 0
                  /\ pwmAsked /\ Value("pwm1") = 1
  IN Solved(FirstError(<< Check(~badLow, 1), Check(~mixed, 2), Check(~noTop, 3),
                          Check(~(lacksPwm /\ pwmAsked), 4) >>),
            IF lacksPwm /\ ~pwmAsked THEN Over(Field("pwm0", 1), new) ELSE new)
=============================================================================
