------------------------------- MODULE Device -------------------------------
(***************************************************************************)
(* A program that configures a device: a context started by hwa_begin() or *)
(* hwa_begin_from_reset(), instructions, and commits that write the copies *)
(* to the registers in the order that the device header fixes, with what   *)
(* watchdogs and PLLs need in between.  The tables of the devices and the  *)
(* expansion of the instructions are constants: the state is what the      *)
(* hardware and the context hold.  HwaContext has the register level with  *)
(* its interleavings; here no event happens while the program configures.  *)
(***************************************************************************)
EXTENDS Instructions, FiniteSets

CONSTANTS
  Tables,    \* the devices: a record Device of a Dev... module by name
  Programs   \* sets of records [device, about, calls]: instructions, as their steps

VARIABLES
  program,     \* the program that runs
  start,       \* "unknown": hwa_begin(), "reset": hwa_begin_from_reset()
  background,  \* what the bits are at first that no reset defines: 0 or 1
  mem,         \* content of the registers written so far, by address
  ctx,         \* the copies written so far, by register: m, v, om, ov
  config,      \* what the instructions left for the commit, by <<object, item>>
  armed,       \* the watchdog accepts a change: its timed window is open
  pc, todo,    \* the next call; what is left of the commit in progress
  phase,       \* "run", "commit", "done", "refused": does not compile
  asked        \* history: bits and values asked for, by register

vars == <<program, start, background, mem, ctx, config, armed, pc, todo, phase, asked>>

DeviceNames == DOMAIN Tables
T == Tables[program.device]

\* f with f[x] = y, x being a new point or not.
Put(f, x, y) == [z \in DOMAIN f \cup {x} |-> IF z = x THEN y ELSE f[z]]

-----------------------------------------------------------------------------
(* The registers of the devices, by address.                               *)

RegistersOf(t) ==
  UNION {{<<o, r>> : r \in DOMAIN t.objects[o].regs} : o \in DOMAIN t.objects}
Registers == [d \in DeviceNames |-> LET t == Tables[d] IN RegistersOf(t)]

BitOf(f, o) == Field(T, o, f)[1].bp

AddressOf(t, k) == t.objects[k[1]].base + RegisterOf(t, k).addr
Address(k)      == AddressOf(T, k)
Width(k)        == 0 .. RegisterOf(T, k).size - 1

\* For each address, the registers there, the bits that can be written, and
\* the flags that a 1 clears.
ByAddress ==
  [d \in DeviceNames |->
    LET t  == Tables[d]
        ks == RegistersOf(t)
    IN  [a \in {AddressOf(t, k) : k \in ks} |->
          LET here == {k \in ks : AddressOf(t, k) = a}
          IN  [regs |-> here,
               rwm  |-> UNION {RegisterOf(t, k).rwm : k \in here},
               rfm  |-> UNION {RegisterOf(t, k).rfm : k \in here}]]]

At(a)         == ByAddress[program.device][a].regs
WritableAt(a) == ByAddress[program.device][a].rwm
FlagsAt(a)    == ByAddress[program.device][a].rfm

\* _hwa_init_: the values that the registers have after a reset.
ResetValues ==
  [d \in DeviceNames |->
    LET t == Tables[d]
        Inits(k) == ContextOf[t.objects[k[1]].class].init
        shared == {<<"shared", r>> : r \in t.shared}
        given  == shared \cup {k \in t.copies \ shared : k[2] \in DOMAIN Inits(k)}
    IN  [k \in given |-> IF k \in shared THEN {} ELSE BitsOf(Inits(k)[k[2]])]]

HasReset(k) == k \in DOMAIN ResetValues[program.device]
ResetOf(k)  == ResetValues[program.device][k]

Unknown == IF background = 1 THEN 0 .. 31 ELSE {}

\* After a reset, flags may have been raised by what the hardware did since.
InitialOf(a, known) ==
  IF start = "reset" /\ known # {}
  THEN UNION {ResetOf(k) : k \in known} \cup (FlagsAt(a) \cap Unknown)
  ELSE Unknown

InitialAt(a) == InitialOf(a, {k \in At(a) : HasReset(k)})

Mem(a) == IF a \in DOMAIN mem THEN mem[a] ELSE InitialAt(a)

-----------------------------------------------------------------------------
(* The hardware: what a store does.  The watchdog's enable bit is cleared, *)
(* and in the class _wdogb its period changed, by the store that follows   *)
(* one with wdce and wde at once; wdrf holds wde.                          *)

Wde == 3
Wdce == 4
WdpBits == {0, 1, 2, 5}

IsWatchdog(a) == "watchdog0" \in DOMAIN T.objects /\ a = Address(<<"watchdog0", "csr">>)
WatchdogHeld  == 3 \in Mem(Address(<<"core0", "mcusr">>))

Guarded == IF T.objects["watchdog0"].class = "wdogb" THEN WdpBits ELSE {}

WatchdogStored(open, old, new) ==
  (new \ (Guarded \cup {Wde, Wdce}))
    \cup ((IF open THEN new ELSE old) \cap Guarded)
    \cup (IF Wde \in new \/ (Wde \in old /\ (WatchdogHeld \/ ~ open)) THEN {Wde} ELSE {})

\* STM32: the source and the multiplier of the PLL cannot be changed while it
\* runs.
PllBits == 16 .. 21

IsPllHeld(a) ==
  /\ program.device = "stm32f103"
  /\ a = Address(<<"rcc", "cfgr">>)
  /\ BitOf("pllon", "rcc") \in Mem(Address(<<"rcc", "cr">>))

\* A register that held old after v is stored in it: what is read only stays,
\* a 1 clears a flag.
Kept(old, v, rwm, rfm) ==
  (old \ rwm) \cup ((rwm \ rfm) \cap v) \cup ((rfm \cap old) \ v)

Settled(a, open, old, new) ==
  CASE IsWatchdog(a) -> WatchdogStored(open, old, new)
    [] IsPllHeld(a)  -> (new \ PllBits) \cup (old \cap PllBits)
    [] OTHER         -> new

\* The content of the register at a after v is stored in it.
Stored(a, open, v) ==
  Settled(a, open, Mem(a), Kept(Mem(a), v, WritableAt(a), FlagsAt(a)))

\* STM32: the register bsrr sets and resets levels of the pins of its port; a
\* bit that is in both halves sets.
SetReset(odr, v) ==
  (odr \ {i \in 0 .. 15 : i + 16 \in v}) \cup (v \cap 0 .. 15)

PortsSetAt(a) ==
  {o \in DOMAIN T.objects : T.objects[o].class = "stm_p16a" /\ a = Address(<<o, "bsrr">>)}

\* The memory f after the register at a has taken the content new: bsrr keeps
\* nothing and changes odr.
After(f, a, new) ==
  IF PortsSetAt(a) = {} THEN Put(f, a, new)
  ELSE LET Set(odr) == Put(Put(f, a, {}), odr, SetReset(Mem(odr), new))
       IN  Set(Address(<<CHOOSE o \in PortsSetAt(a) : TRUE, "odr">>))

Arms(a, v) == IsWatchdog(a) /\ {Wde, Wdce} \subseteq v

\* sbi and cbi reach one bit.
BitStored(a, S, one) ==
  LET rfm == FlagsAt(a)
  IN  IF one THEN (Mem(a) \cup (S \ rfm)) \ (S \cap rfm) ELSE Mem(a) \ (S \ rfm)

\* Reading a register above 0x5F costs two cycles and the window is four.
WindowLasts(a, reads) == ~ reads \/ a < \h60

-----------------------------------------------------------------------------
(* The context.                                                            *)

Empty == [m |-> {}, v |-> {}, om |-> {}, ov |-> {}]

\* The commit list of an object: what its class commits.
Committed ==
  [d \in DeviceNames |->
     LET t == Tables[d]
     IN  UNION {IF e[2] # "all" THEN {e}
                ELSE {<<e[1], r>> : r \in ToSet(ContextOf[t.objects[e[1]].class].commit)} :
                  e \in ToSet(t.commit)}]

\* Mutant: hwa_begin() takes the register for 0.
FreshZero(k) == [m |-> {}, v |-> {}, om |-> Width(k), ov |-> {}]

\* A copy that the program has not touched.  hwa_begin_from_reset() asks for
\* the reset values and commits them without writing: what the commit list
\* of the device leaves out stays asked for.
Fresh(k) ==
  IF start = "unknown" \/ ~ HasReset(k) THEN Empty
  ELSE IF k \in Committed[program.device]
       THEN [m |-> {}, v |-> ResetOf(k), om |-> Width(k), ov |-> ResetOf(k)]
       ELSE [m |-> Width(k), v |-> ResetOf(k), om |-> {}, ov |-> {}]

Entry(k) == IF k \in DOMAIN ctx THEN ctx[k] ELSE Fresh(k)

MaskOf(p) == Group(p.bn, p.bp)

\* _hwa_write__r8: the value is cut to a byte before and after the shift; of
\* a register in two groups each takes its bits of the value.
ValueOf(p, v, whole) ==
  LET width == Width(KeyOf(p))
      bits  == IF whole THEN BitsOf(v) \cap width
               ELSE {i \in 0 .. p.bn - 1 : i + p.vbp \in BitsOf(v)}
  IN  {i + p.bp : i \in bits} \cap width

\* What _hwa_write_r8 accepts.
Accepts(c, k, mask, value) ==
  /\ value \subseteq mask
  /\ mask \subseteq RegisterOf(T, k).rwm
  /\ c.m \cap mask # {} => c.v \cap mask = value
  /\ mask \cap RegisterOf(T, k).rfm # {} => value # {}

\* Mutant: what is asked for is known before it is committed.
WrittenKnown(c, mask, value) ==
  [c EXCEPT !.m = @ \cup mask, !.v = (@ \ mask) \cup value, !.om = @ \cup mask]

Written(c, mask, value) ==
  [c EXCEPT !.m = @ \cup mask, !.v = (@ \ mask) \cup value]

\* The writes of a step, each as the register, the mask and the value: those
\* of a logical register, by its parts, unless the step gives them.
Writes(step) ==
  IF "writes" \in DOMAIN step THEN step.writes
  ELSE [i \in DOMAIN step.parts |->
          LET p == step.parts[i]
          IN  [key |-> KeyOf(p), mask |-> MaskOf(p),
               value |-> ValueOf(p, step.value, Len(step.parts) = 1)]]

AcceptsStep(step) ==
  \A i \in DOMAIN Writes(step) :
    LET w == Writes(step)[i] IN Accepts(Entry(w.key), w.key, w.mask, w.value)

WriteStep(step) ==
  ctx' = FoldLeft(LAMBDA c, w :
                    Put(c, w.key, Written(IF w.key \in DOMAIN c THEN c[w.key]
                                          ELSE Fresh(w.key), w.mask, w.value)),
                  ctx, Writes(step))

AskWrites(writes) ==
  asked' = FoldLeft(LAMBDA g, w :
              LET old == IF w.key \in DOMAIN g THEN g[w.key] ELSE [mask |-> {}, value |-> {}]
              IN  Put(g, w.key, [mask  |-> old.mask \cup w.mask,
                                 value |-> (old.value \ w.mask) \cup w.value]),
                    asked, writes)

Ask(step) == AskWrites(Writes(step))

-----------------------------------------------------------------------------
(* The instructions of the program.                                        *)

Call == program.calls[pc]
Running(do) == phase = "run" /\ pc \in DOMAIN program.calls /\ Call.do = do

Same == UNCHANGED <<program, start, background>>

Refusal == phase' = "refused" /\ UNCHANGED <<mem, ctx, config, armed, pc, todo, asked>> /\ Same

\* hwa( ... )
HwaCall ==
  /\ Running("hwa")
  /\ AcceptsStep(Call)
  /\ WriteStep(Call) /\ Ask(Call)
  /\ pc' = pc + 1
  /\ UNCHANGED <<mem, config, armed, todo, phase>> /\ Same

ConfigCall ==
  /\ Running("config")
  /\ config' = Put(config, <<Call.object, Call.item>>, Call.value)
  /\ pc' = pc + 1
  /\ UNCHANGED <<mem, ctx, armed, todo, phase, asked>> /\ Same

\* STM32: _hwa_do_cfio1a_() changes the copy without a check.
SetCall ==
  /\ Running("set")
  /\ WriteStep(Call) /\ Ask(Call)
  /\ pc' = pc + 1
  /\ UNCHANGED <<mem, config, armed, todo, phase>> /\ Same

\* STM32: hwa( toggle, pin ): the pins to toggle are collected.
Toggles(o) == IF <<o, "toggles">> \in DOMAIN config THEN config[<<o, "toggles">>] ELSE {}

ToggleCall ==
  /\ Running("toggle")
  /\ config' = Put(config, <<Call.object, "toggles">>, Toggles(Call.object) \cup Call.bits)
  /\ pc' = pc + 1
  /\ UNCHANGED <<mem, ctx, armed, todo, phase, asked>> /\ Same

\* The checks of _hw_write_r8.
HwAccepts(w) == w.value \subseteq w.mask /\ w.value \subseteq RegisterOf(T, w.key).rwm

\* The groups of a write that are in one register are written at once.
HwWrites(step) ==
  LET ws == Writes(step)
  IN  IF Len(ws) = 2 /\ ws[1].key = ws[2].key
      THEN <<[ws[1] EXCEPT !.mask = @ \cup ws[2].mask, !.value = @ \cup ws[2].value]>>
      ELSE ws

\* Mutant: the register is not read before it is written.
HwStoredBlind(w) == Stored(Address(w.key), armed, w.value)

\* _hw_write_r8, the write done
HwStored(w) ==
  LET Store(a, R, kept) ==
        IF a < \h40 /\ R.size = 8 /\ Cardinality(w.mask) = 1
        THEN BitStored(a, w.mask, w.value # {})
        ELSE Stored(a, armed, IF kept = {} THEN w.value
                              ELSE (Mem(a) \ (w.mask \cap R.rwm)) \cup w.value)
      Of(R) == Store(Address(w.key), R, (R.rwm \ w.mask) \ R.rfm)
  IN  Of(RegisterOf(T, w.key))

\* hw( ... ): at once, past the context.
HwCall ==
  /\ Running("hw")
  /\ \A i \in DOMAIN HwWrites(Call) : HwAccepts(HwWrites(Call)[i])
  /\ LET ws == HwWrites(Call)
     IN  mem' = FoldLeft(LAMBDA f, w : After(f, Address(w.key), HwStored(w)), mem, ws)
  /\ armed' = FALSE
  /\ Ask(Call)
  /\ pc' = pc + 1
  /\ UNCHANGED <<ctx, config, todo, phase>> /\ Same

\* hw( toggle, pin ): what is read from one register is inverted and stored
\* there (ESP8266), or as levels to set and reset in another (STM32).
ToggleWrite(step) ==
  LET high == Mem(Address(step.from)) \cap step.bits
      low  == step.bits \ high
  IN  IF step.from = step.to THEN [key |-> step.to, mask |-> step.bits, value |-> low]
      ELSE [key |-> step.to, mask |-> 0 .. 31, value |-> low \cup {i + 16 : i \in high}]

HwToggleCall ==
  /\ Running("hwtoggle")
  /\ LET w == ToggleWrite(Call)
     IN  mem' = After(mem, Address(w.key), HwStored(w)) /\ AskWrites(<<w>>)
  /\ pc' = pc + 1
  /\ UNCHANGED <<ctx, config, armed, todo, phase>> /\ Same

RefusedCall ==
  /\ phase = "run" /\ pc \in DOMAIN program.calls
  /\ \/ Call.do = "refuse"
     \/ Call.do = "hwa" /\ ~ AcceptsStep(Call)
     \/ Call.do = "hw" /\ \E i \in DOMAIN HwWrites(Call) : ~ HwAccepts(HwWrites(Call)[i])
  /\ Refusal

-----------------------------------------------------------------------------
(* hwa_commit()                                                            *)

CommitOf(k) == [do |-> "commit", key |-> k]

Configured(o, item) == <<o, item>> \in DOMAIN config

\* _hwa_commit__wdoga, _hwa_commit__wdogb
WatchdogCommit(o) ==
  LET class == T.objects[o].class
      W(f, v) == HwaWrite(T, o, f, v)
      csr == CommitOf(<<o, "csr">>)
      off == <<W("wdrf", 0), CommitOf(<<"core0", "mcusr">>)>>
             \o (IF class = "wdogb" THEN <<W("if", 1)>> ELSE <<>>)
             \o <<W("wdce", 1), W("wde", 1), csr,
                  W("ie", 0), W("wdce", 0), W("wde", 0), W("wdp", 0)>>
      on  == (IF class = "wdogb" THEN <<W("wdce", 1), W("wde", 1), csr, W("wdce", 0)>>
              ELSE <<>>)
             \o <<W("eie", config[<<o, "action">>])>>
             \o (IF Configured(o, "timeout") THEN <<W("wdp", config[<<o, "timeout">>])>>
                 ELSE <<>>)
  IN  (IF ~ Configured(o, "action") THEN <<>>
       ELSE (IF config[<<o, "action">>] = 0 THEN off ELSE on)
            \o (IF class = "wdoga" THEN <<[do |-> "forget", object |-> o]>> ELSE <<>>))
      \o <<csr>>

\* _hwa_commit__pscb: the PLL is started when it is not known to run.
PllCommit(o) ==
  LET csr == CommitOf(<<o, "pllcsr">>)
      W(f, v) == HwaWrite(T, o, f, v)
      plle == Field(T, o, "plle")[1].bp
  IN  (IF ~ Configured(o, "clock") THEN <<>>
       ELSE IF config[<<o, "clock">>] = 0 THEN <<W("pcke", 0)>>
       ELSE IF plle \notin Entry(<<o, "pllcsr">>).ov
            THEN <<W("plle", 1), csr, [do |-> "wait", object |-> o], W("pcke", 1)>>
            ELSE <<>>)
      \o <<csr>>

\* STM32, _hwa_commit__p16a: the toggles come last.
PortCommit(o) ==
  LET regs == ContextOf["stm_p16a"].commit
  IN  [i \in DOMAIN regs |-> CommitOf(<<o, regs[i]>>)]
        \o (IF Configured(o, "toggles") THEN <<[do |-> "toggles", object |-> o]>> ELSE <<>>)

ObjectCommit(o) ==
  CASE T.objects[o].class \in {"wdoga", "wdogb"} -> WatchdogCommit(o)
    [] T.objects[o].class = "pscb"               -> PllCommit(o)
    [] T.objects[o].class = "stm_p16a"           -> PortCommit(o)
    [] OTHER -> LET regs == ContextOf[T.objects[o].class].commit
                IN  [i \in DOMAIN regs |-> CommitOf(<<o, regs[i]>>)]

\* _hwa_commit_context, without the copies in which nothing is asked for:
\* their commit does nothing.
CommitList ==
  LET whole == FoldLeft(LAMBDA s, e : s \o (IF e[2] # "all" THEN <<CommitOf(e)>>
                                            ELSE ObjectCommit(e[1])),
                        <<>>, T.commit)
      special == {i[1] : i \in DOMAIN config}
      Matters(i) == \/ i.do # "commit"
                    \/ Entry(i.key).m # {}
                    \/ i.key[1] \in special \/ (special # {} /\ i.key[1] = "core0")
  IN  SelectSeq(whole, Matters)

StartCommit ==
  /\ Running("commit")
  /\ todo' = CommitList /\ phase' = "commit" /\ pc' = pc + 1
  /\ UNCHANGED <<mem, ctx, config, armed, asked>> /\ Same

Committing(do) == phase = "commit" /\ todo # <<>> /\ Head(todo).do = do

\* The bits of the copy c of the register R that a commit writes, and those
\* that it must read for that.
ToWrite(k, c, R) ==
  R.rwm \cap c.m \cap ((c.ov \ c.v) \cup (c.v \ c.ov) \cup (Width(k) \ c.om))
ToRead(c, R) == (R.rwm \ c.m) \ (R.rfm \cup c.om)

Combined(base, c, R, wm) == ((base \ wm) \cup (c.v \cap wm)) \ R.rfm

CommitNothing(k, c) ==
  ctx' = Put(ctx, k, [c EXCEPT !.om = @ \cup c.m, !.m = {}]) /\ UNCHANGED <<mem, armed>>

CommitBit(k, c, a, wm) ==
  /\ mem' = Put(mem, a, BitStored(a, wm, wm \cap c.v # {}))
  /\ ctx' = Put(ctx, k, [c EXCEPT !.ov = (@ \ wm) \cup (c.v \cap wm),
                                  !.om = @ \cup wm, !.m = {}])
  /\ armed' = FALSE

CommitByte(k, c, R, a, reads, ov) ==
  LET byte == ov \cup (R.rfm \cap c.m \cap c.v)
  IN  /\ mem' = After(mem, a, Stored(a, armed /\ WindowLasts(a, reads), byte))
      /\ ctx' = Put(ctx, k, [c EXCEPT !.ov = ov, !.om = @ \cup c.m, !.m = {}])
      /\ armed' = Arms(a, byte)

CommitCopy(k, c, R, a, wm, rm) ==
  IF wm = {} THEN CommitNothing(k, c)
  ELSE IF a < \h40 /\ R.size = 8 /\ Cardinality(wm) = 1 THEN CommitBit(k, c, a, wm)
  ELSE CommitByte(k, c, R, a, rm # {}, Combined(IF rm = {} THEN c.ov ELSE Mem(a), c, R, wm))

\* _hwa_commit__r8, _hwa_commit__r16
CommitRegister ==
  /\ Committing("commit")
  /\ LET Commit(k, c, R) == CommitCopy(k, c, R, Address(k), ToWrite(k, c, R), ToRead(c, R))
         k == Head(todo).key
     IN  Commit(k, Entry(k), RegisterOf(T, k))
  /\ todo' = Tail(todo)
  /\ UNCHANGED <<config, pc, phase, asked>> /\ Same

\* A write that the commit itself asks for.
CommitRequest ==
  /\ Committing("hwa")
  /\ AcceptsStep(Head(todo))
  /\ WriteStep(Head(todo))
  /\ todo' = Tail(todo)
  /\ UNCHANGED <<mem, config, armed, pc, phase, asked>> /\ Same

CommitRefused ==
  /\ phase = "commit" /\ todo # <<>>
  /\ Head(todo).do = "refuse" \/ (Head(todo).do = "hwa" /\ ~ AcceptsStep(Head(todo)))
  /\ Refusal

\* config.action = config.timeout = 0xFF
CommitForget ==
  /\ Committing("forget")
  /\ config' = [i \in {j \in DOMAIN config : j[1] # Head(todo).object} |-> config[i]]
  /\ todo' = Tail(todo)
  /\ UNCHANGED <<mem, ctx, armed, pc, phase, asked>> /\ Same

\* while( !plock ): the PLL locks when it is enabled.
CommitWait ==
  /\ Committing("wait")
  /\ LET o == Head(todo).object
     IN  Field(T, o, "plle")[1].bp \in Mem(Address(<<o, "pllcsr">>))
  /\ todo' = Tail(todo)
  /\ UNCHANGED <<mem, ctx, config, armed, pc, phase, asked>> /\ Same

\* _hwa_commit_toggles: bsrr is written with what odr is believed to hold.
CommitToggles ==
  /\ Committing("toggles")
  /\ LET o     == Head(todo).object
         c     == Entry(<<o, "odr">>)
         odr   == Address(<<o, "odr">>)
         bsrr  == Address(<<o, "bsrr">>)
         known == 0 .. 15 \subseteq c.om
         base  == IF known THEN c.ov ELSE Mem(odr)
         ov    == (base \ Toggles(o)) \cup (Toggles(o) \ base)
         v     == (Toggles(o) \cap ov) \cup {i + 16 : i \in Toggles(o) \ ov}
     IN  /\ mem' = After(mem, bsrr, v)
         /\ ctx' = Put(Put(ctx, <<o, "odr">>,
                           [c EXCEPT !.ov = ov, !.om = IF known THEN @ ELSE 0 .. 15]),
                       <<o, "bsrr">>,
                       [Entry(<<o, "bsrr">>) EXCEPT !.m = {}, !.ov = {}, !.om = 0 .. 31])
         /\ config' = [i \in DOMAIN config \ {<<o, "toggles">>} |-> config[i]]
  /\ todo' = Tail(todo)
  /\ UNCHANGED <<armed, pc, phase, asked>> /\ Same

EndCommit ==
  /\ phase = "commit" /\ todo = <<>>
  /\ phase' = "run"
  /\ UNCHANGED <<mem, ctx, config, armed, pc, todo, asked>> /\ Same

\* The end of the program.
End ==
  /\ phase = "run" /\ pc \notin DOMAIN program.calls
  /\ phase' = "done"
  /\ UNCHANGED <<mem, ctx, config, armed, pc, todo, asked>> /\ Same

Stopped == phase \in {"done", "refused"} /\ UNCHANGED vars

-----------------------------------------------------------------------------
Init ==
  /\ \E some \in Programs : program \in some
  /\ start \in {"unknown", "reset"} /\ background \in {0, 1}
  /\ mem = <<>> /\ ctx = <<>> /\ config = <<>> /\ asked = <<>>
  /\ armed = FALSE
  /\ pc = 1 /\ todo = <<>> /\ phase = "run"

CommitStep ==
  CommitRegister \/ CommitRequest \/ CommitRefused \/ CommitForget \/ CommitWait
    \/ CommitToggles \/ EndCommit

Next ==
  \/ HwaCall \/ ConfigCall \/ SetCall \/ ToggleCall
  \/ HwCall \/ HwToggleCall \/ RefusedCall
  \/ StartCommit \/ CommitStep
  \/ End \/ Stopped

Spec == Init /\ [][Next]_vars

-----------------------------------------------------------------------------
(* Properties.  program.about says what the program is about: [kind |->    *)
(* "fields"], "irq" with the interrupt irq and its state, "pin" with the   *)
(* pin o and what is asked of it, "watchdog" with the last instruction.    *)

Done == phase = "done"
InitialMem(a) == InitialAt(a)

\* Copies that no commit writes, a defect of the class _c16a and _c16b and
\* of the commit list of attinyx4.
NeverCommitted ==
  IF program.device \notin {"attinyx4", "atmegax8"} THEN {}
  ELSE [attinyx4 |-> {<<"counter1", "ifr">>, <<"shared", "timsk">>,
                      <<"shared", "tifr">>},
        atmegax8 |-> {<<"counter1", "ifr">>}][program.device]

\* Two copies of the register at one address: the rows shared.timsk and
\* shared.tifr of attinyx4, left from attinyx5, and its address of prr.
Twice ==
  IF program.device # "attinyx4" THEN {}
  ELSE {<<"shared", "prr">>, <<"pcic1", "msk">>, <<"shared", "timsk">>,
        <<"counter0", "imsk">>, <<"shared", "tifr">>, <<"counter0", "ifr">>}

\* The levels of the pins of an STM32, which bsrr changes behind odr and its
\* copy, have a property of their own.
Levels == {k \in Registers[program.device] :
             T.objects[k[1]].class = "stm_p16a" /\ k[2] \in {"odr", "bsrr"}}

\* Bits that a PLL may have held: it ran at first, or the program turns it on.
TurnsPllOn(call) ==
  /\ call.do \in {"hwa", "hw"}
  /\ \E i \in DOMAIN Writes(call) : /\ Writes(call)[i].key = <<"rcc", "cr">>
                                   /\ BitOf("pllon", "rcc") \in Writes(call)[i].value

HeldBits(k) ==
  IF /\ k = <<"rcc", "cfgr">>
     /\ \/ BitOf("pllon", "rcc") \in InitialAt(Address(<<"rcc", "cr">>))
        \/ \E i \in DOMAIN program.calls : TurnsPllOn(program.calls[i])
  THEN PllBits ELSE {}

\* Registers with rules of their own: that of the watchdog, of which a bare
\* request reaches a part, what it needs of core0, and that of the PLL.
Managed == {<<"watchdog0", "csr">>} \cup Levels
             \cup {<<i[1], "pllcsr">> : i \in DOMAIN config}
             \cup (IF program.about.kind = "watchdog" THEN {<<"core0", "mcusr">>} ELSE {})

Flag(k) == RegisterOf(T, k).rfm

\* What a program that compiles asked for is in the hardware at its end:
\* the field tables, the copies, the commit list and the merging of the
\* copy with what the register held agree, whatever it held.
RequestsApplied ==
  Done => \A k \in DOMAIN asked \ (NeverCommitted \cup Managed) :
            LET g == asked[k]
                now == Mem(Address(k))
                free == (g.mask \cap RegisterOf(T, k).rwm) \ HeldBits(k)
            IN  /\ now \cap (free \ Flag(k)) = g.value \ (Flag(k) \cup HeldBits(k))
                /\ now \cap g.value \cap Flag(k) = {}

\* A register that no instruction asked for keeps its content, and so do the
\* other bits of one that was: no two fields, registers or objects of the
\* tables share bits that they should not.  hw() may clear other flags of
\* the register it reads and writes back.
RegistersUntouched ==
  Done => \A k \in Registers[program.device] \ (Twice \cup Managed) :
            LET a    == Address(k)
                bits == RegisterOf(T, k).rwm
                          \ (IF k \in DOMAIN asked THEN asked[k].mask ELSE {})
                direct == \E i \in DOMAIN program.calls : program.calls[i].do = "hw"
                kept == IF direct THEN bits \ Flag(k) ELSE bits
            IN  a \in DOMAIN mem => Mem(a) \cap kept = InitialMem(a) \cap kept

\* What a copy believes is what the register holds, so that a later commit
\* that trusts it does not write back something old.
ContextKnowsHardware ==
  phase \in {"run", "done"} =>
    \A k \in DOMAIN ctx \ (Twice \cup Levels \cup {<<"watchdog0", "csr">>}) :
      LET known == (ctx[k].om \cap RegisterOf(T, k).rwm) \ (Flag(k) \cup HeldBits(k))
          direct == \E i \in 1 .. pc - 1 :
                      /\ program.calls[i].do = "hw"
                      /\ \E j \in DOMAIN Writes(program.calls[i]) :
                           Writes(program.calls[i])[j].key = k
      IN  ~ direct => ctx[k].ov \cap known = Mem(Address(k)) \cap known

-----------------------------------------------------------------------------
Resolves(f, o) == Len(Field(T, o, f)) = 1 /\ Exists(T, KeyOf(Field(T, o, f)[1]))
RegOf(f, o) == Address(KeyOf(Field(T, o, f)[1]))

Enabled(i)  == Resolves(i.ie, i.object) /\ BitOf(i.ie, i.object) \in Mem(RegOf(i.ie, i.object))
WasEnabled(i) == /\ Resolves(i.ie, i.object)
                 /\ BitOf(i.ie, i.object) \in InitialMem(RegOf(i.ie, i.object))

\* Two vectors of one interrupt.
SameBit(i, j) == i.object = j.object /\ i.ie = j.ie

\* Turning an interrupt on or off changes the enable bit of that interrupt
\* and of no other of the device.
InterruptsApart ==
  Done /\ program.about.kind = "irq" =>
    \A i \in T.irqs :
      Enabled(i) = IF SameBit(i, program.about.irq) THEN program.about.on ELSE WasEnabled(i)

PinBits(p) == Group(T.pins[p].bn, T.pins[p].bp)
PortAddress(p, f) == Address(<<T.pins[p].port, f>>)

\* The bits of register f of the port that belong to the pin.
PinNow(p, f)    == Mem(PortAddress(p, f)) \cap PinBits(p)
PinBefore(p, f) == InitialMem(PortAddress(p, f)) \cap PinBits(p)
SharesBits(p, q) == T.pins[p].port = T.pins[q].port /\ PinBits(p) \cap PinBits(q) # {}

\* Configuring a pin changes that pin, and the port it is in, only: its
\* direction, its output or pull-up, and its digital input, which the mode
\* analog disables; no other pin of the device moves.
PinsApart ==
  Done /\ program.about.kind = "pin" =>
    \A q \in DOMAIN T.pins : ~ SharesBits(program.about.o, q) =>
      /\ \A f \in {"port", "ddr"} : PinNow(q, f) = PinBefore(q, f)
      /\ T.pins[q].did # <<>> =>
           LET d == Field(T, q, "did")[1]
               a == Address(KeyOf(d))
           IN  Mem(a) \cap {d.bp} = InitialMem(a) \cap {d.bp}

\* Nothing moves but what an instruction asked for: no other register and no
\* other bit of its registers, no other interrupt, no other pin.
OthersUntouched == RegistersUntouched /\ InterruptsApart /\ PinsApart

\* The watchdog does at the end what the last instruction says: the commit
\* respects the timed sequence and clears wdrf first.  Two exceptions, for
\* the action irq: the commit of class _wdoga clears wde without the timed
\* sequence, so that a watchdog that resets goes on to reset; and that of
\* _wdogb does not clear wdrf, which holds wde after a watchdog reset.
StillResets ==
  LET csr    == Address(<<"watchdog0", "csr">>)
      mcusr  == Address(<<"core0", "mcusr">>)
      first  == program.about.first
  IN  /\ program.about.last = "irq"
      /\ IF T.objects["watchdog0"].class = "wdoga"
         THEN \/ first \in {"reset", "irq_or_reset"}
              \/ first = "irq" /\ Wde \in InitialMem(csr)
         ELSE first # "none" /\ BitOf("wdrf", "core0") \in InitialMem(mcusr)

WatchdogAsAsked ==
  Done /\ program.about.kind = "watchdog" =>
    LET csr    == Mem(Address(<<"watchdog0", "csr">>))
        last   == program.about.last
        period == Field(T, "watchdog0", "wdp")
    IN  /\ (Wde \in csr) = (last \in {"reset", "irq_or_reset"} \/ StillResets)
        /\ (BitOf("ie", "watchdog0") \in csr) = (last \in {"irq", "irq_or_reset"})
        /\ last # "none" => csr \cap WdpBits = UNION {Writes([parts |-> period,
                                value |-> program.about.timeout])[i].value : i \in {1, 2}}

\* The clock of the timer is the one asked for last: the PLL is started and
\* waited for before it is selected.  One exception: going back from the
\* system clock to a PLL that runs does not select it.
PllAsAsked ==
  Done /\ program.about.kind = "pll" =>
    LET clocks  == program.about.clocks
        csr     == Address(<<"prescaler1", "pllcsr">>)
        Is(f)   == BitOf(f, "prescaler1") \in Mem(csr)
        last    == clocks[Len(clocks)]
        plls    == SelectSeq(clocks, LAMBDA c : c # "system")
        goesBack == \E j \in DOMAIN clocks :
                      /\ clocks[j] = "system"
                      /\ \/ BitOf("plle", "prescaler1") \in InitialMem(csr)
                         \/ \E i \in 1 .. j - 1 : clocks[i] # "system"
    IN  /\ Is("pcke") = (last # "system" /\ ~ goesBack)
        /\ last # "system" => Is("plle")
        /\ plls # <<>> => Is("lsm") = (plls[Len(plls)] = "pll_32MHz")
=============================================================================
