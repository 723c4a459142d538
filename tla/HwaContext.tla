----------------------------- MODULE HwaContext -----------------------------
(***************************************************************************)
(* The HWA context: for every hardware register, what hwa() instructions   *)
(* asked for (mmask, mvalue) and what the context believes the hardware    *)
(* holds (omask, ovalue), and the two ways of writing a register: through  *)
(* the context (_hwa_write_r8 then _hwa_commit__r8) and at once            *)
(* (_hw_write_r8).  Sources: src/hwa/hwa_1.h, src/hwa/hwa_2.h,             *)
(* src/atmel/avr/hwa_2.h; the 16- and 32-bit commits (also in              *)
(* src/st/stm32/hwa_2.h, src/espressif/hwa_2.h) are the same code without  *)
(* the single-bit path, i.e. registers outside Low.                        *)
(*                                                                         *)
(* A register or a mask is the set of its bits that are 1.  A read of a    *)
(* hardware register and the write that follows it are two steps, between  *)
(* which the hardware may change flags and strobes.                        *)
(***************************************************************************)
EXTENDS FiniteSets

CONSTANTS
  Regs,          \* the registers of the context
  Bits,          \* bit positions
  Writable,      \* [Regs -> SUBSET Bits]: rwm
  Flags,         \* [Regs -> SUBSET Bits]: rfm, raised by hardware, 1 clears
  Strobes,       \* [Regs -> SUBSET Bits]: 1 starts an operation, the hardware
                 \*   clears the bit at its end, writing 0 does nothing
  Low,           \* registers at an address below 0x40: sbi/cbi reach them
  Reset,         \* [Regs -> SUBSET Bits]: value after a system reset
  Fields,        \* [Regs -> set of masks]: logical registers hwa() writes
  DirectFields,  \* [Regs -> set of masks]: logical registers hw() writes
  Programs       \* the sets of registers that a program configures

Masks == [Regs -> SUBSET Bits]

ASSUME RegisterAssumption ==
  /\ Writable \in Masks /\ Flags \in Masks /\ Strobes \in Masks
  /\ Reset \in Masks /\ Low \subseteq Regs
  /\ Programs \subseteq SUBSET Regs
  /\ Fields \in [Regs -> SUBSET SUBSET Bits]
  /\ DirectFields \in [Regs -> SUBSET SUBSET Bits]
  /\ \A r \in Regs : /\ Flags[r] \subseteq Writable[r]
                     /\ Strobes[r] \subseteq Writable[r] \ Flags[r]
                     /\ Reset[r] \cap (Flags[r] \cup Strobes[r]) = {}

VARIABLES
  used,   \* the registers this program configures
  hw,     \* [Regs -> SUBSET Bits]: the hardware registers
  ctx,    \* [Regs -> hwa_r8_t]: the context, without the address
  phase,  \* "none": no context; "open": hwa() allowed; "commit": committing
  todo,   \* registers hwa_commit() has not reached yet
  op      \* the read-modify-write or the hw() instruction in progress

vars == <<used, hw, ctx, phase, todo, op>>

ContextReg == [mmask : SUBSET Bits, mvalue : SUBSET Bits,
               omask : SUBSET Bits, ovalue : SUBSET Bits]

Idle == [kind |-> "idle"]

\* Locals of the code that runs: wm of the commit; mask, value and *p of hw().
Op == {Idle}
   \cup [kind : {"commit"}, reg : Regs, wm : SUBSET Bits]
   \cup [kind : {"issued"}, reg : Regs, mask : SUBSET Bits, value : SUBSET Bits]
   \cup [kind : {"loaded"}, reg : Regs, mask : SUBSET Bits, value : SUBSET Bits,
         seen : SUBSET Bits]

OneBit(S) == \E b \in Bits : S = {b}

-----------------------------------------------------------------------------
(* The hardware side.                                                      *)

\* A register whose content is `old` after the byte `v` was stored in it.
Stored(r, old, v) ==
     (old \ Writable[r])
  \cup ((Writable[r] \ Flags[r]) \cap v)
  \cup (Strobes[r] \cap old)
  \cup ((Flags[r] \cap old) \ v)

\* sbi and cbi reach one bit and leave the others alone.
BitStored(r, old, S, one) ==
  IF one
  THEN (old \cup (S \cap (Writable[r] \ Flags[r]))) \ (S \cap Flags[r])
  ELSE old \ (S \cap (Writable[r] \ (Flags[r] \cup Strobes[r])))

\* A peripheral event sets its flag.
Raise(r, b) ==
  /\ b \in Flags[r]
  /\ hw' = [hw EXCEPT ![r] = @ \cup {b}]
  /\ UNCHANGED <<used, ctx, phase, todo, op>>

\* The operation a strobe started is over.
Finish(r, b) ==
  /\ b \in Strobes[r] \cap hw[r]
  /\ hw' = [hw EXCEPT ![r] = @ \ {b}]
  /\ UNCHANGED <<used, ctx, phase, todo, op>>

-----------------------------------------------------------------------------
(* The context.                                                            *)

\* _hwa_setup__r8
SetUp == [mmask |-> {}, mvalue |-> {}, omask |-> {}, ovalue |-> {}]

\* _hwa_set__r8: every bit of the register is to be written.
SetTo(c, v) == [c EXCEPT !.mmask = Bits, !.mvalue = v]

\* _hwa_commit__r8 with commit = 0: what was asked is now believed.
Believed(c) ==
  [c EXCEPT !.ovalue = ((c.ovalue \cap c.omask) \ c.mmask) \cup (c.mvalue \cap c.mmask),
            !.omask  = c.omask \cup c.mmask,
            !.mmask  = {}]

\* hwa_begin()
Begin ==
  /\ phase # "commit" /\ op = Idle
  /\ ctx' = [r \in Regs |-> SetUp]
  /\ phase' = "open"
  /\ UNCHANGED <<used, hw, todo, op>>

\* hwa_begin_from_reset(): for a program that just came out of reset, and
\* that leaves the registers of the context to the context.
BeginFromReset ==
  /\ \A r \in used : DirectFields[r] = {}
  /\ phase # "commit" /\ op = Idle
  /\ \A r \in used : hw[r] \ Flags[r] = Reset[r]
  /\ ctx' = [r \in Regs |-> Believed(SetTo(SetUp, Reset[r]))]
  /\ phase' = "open"
  /\ UNCHANGED <<used, hw, todo, op>>

\* The arguments _hwa_write_r8 accepts without a compile-time error.
Accepts(r, msk, v) ==
  LET c == ctx[r]
  IN  /\ v \subseteq msk
      /\ msk \subseteq Writable[r]
      /\ ~ (c.mmask \cap msk # {} /\ c.mvalue \cap msk # v)
      /\ msk \cap Flags[r] # {} => v # {}

\* hwa( ... ): _hwa_write_r8
HwaWrite(r, msk, v) ==
  /\ phase = "open" /\ op = Idle
  /\ Accepts(r, msk, v)
  /\ ctx' = [ctx EXCEPT ![r].mmask  = @ \cup msk,
                        ![r].mvalue = (@ \ msk) \cup (msk \cap v)]
  /\ UNCHANGED <<used, hw, phase, todo, op>>

\* The program tells the context what the hardware holds: it is right about
\* the configuration bits, and does not ask for a flag to be cleared.
Truthful(r) ==
  /\ ctx[r].mmask \cap Flags[r] = {}
  /\ \A b \in ctx[r].mmask : b \in ctx[r].mvalue <=> b \in hw[r]

\* hwa_nocommit()
NoCommit ==
  /\ phase = "open" /\ op = Idle
  /\ \A r \in used : Truthful(r)
  /\ ctx' = [r \in Regs |-> Believed(ctx[r])]
  /\ UNCHANGED <<used, hw, phase, todo, op>>

\* hwa_commit() starts; it goes through the registers of the context in an
\* order that each device header fixes and that does not matter here.
Commit ==
  /\ phase = "open" /\ op = Idle
  /\ phase' = "commit" /\ todo' = used
  /\ UNCHANGED <<used, hw, ctx, op>>

\* wm: bits that are writeable, were asked for, and are not known to hold.
WriteMask(r) ==
  LET c == ctx[r]
  IN  (Writable[r] \cap c.mmask)
        \cap (((c.ovalue \ c.mvalue) \cup (c.mvalue \ c.ovalue))
                \cup (Bits \ c.omask))

\* rm: bits that must be read because they are kept and not known.
ReadMask(r) ==
  (Writable[r] \ ctx[r].mmask) \ (Flags[r] \cup ctx[r].omask)

Committing(r) == phase = "commit" /\ r \in todo /\ op = Idle

\* A slip for KnownBits to catch: the whole register is believed known.
AllKnown(c) == [c EXCEPT !.omask = Bits, !.mmask = {}]

\* A slip for TypeOK to catch: mmask is not cleared.
StillAsked(c) == [c EXCEPT !.omask = c.omask \cup c.mmask]

\* The end of _hwa_commit__r8 when no single-bit instruction was used.
Known(c) == [c EXCEPT !.omask = c.omask \cup c.mmask, !.mmask = {}]

\* One register less to commit.
Done(r) == /\ todo' = todo \ {r}
           /\ phase' = IF todo = {r} THEN "open" ELSE phase

\* Nothing to write.
CommitNone(r) ==
  /\ Committing(r)
  /\ WriteMask(r) = {}
  /\ ctx' = [ctx EXCEPT ![r] = Known(@)]
  /\ Done(r)
  /\ UNCHANGED <<used, hw, op>>

\* One bit of a low register: sbi or cbi.
CommitBit(r) ==
  LET wm == WriteMask(r)
      c  == ctx[r]
  IN  /\ Committing(r)
      /\ r \in Low /\ OneBit(wm)
      /\ hw' = [hw EXCEPT ![r] = BitStored(r, @, wm, wm \cap c.mvalue # {})]
      /\ ctx' = [ctx EXCEPT ![r].ovalue = (@ \ wm) \cup (c.mvalue \cap wm),
                            ![r].omask  = @ \cup wm,
                            ![r].mmask  = {}]
      /\ Done(r)
      /\ UNCHANGED <<used, op>>

\* A slip for ImplementsIntent to catch: flags read as 1 are written back.
NewValueWithFlags(r, wm) == (ctx[r].ovalue \ wm) \cup (ctx[r].mvalue \cap wm)

\* The new value of ovalue, and the store of it with the flags asked for.
NewValue(r, wm) ==
  ((ctx[r].ovalue \ wm) \cup (ctx[r].mvalue \cap wm)) \ Flags[r]

CommitWrite(r, wm) ==
  LET c == ctx[r]
      v == NewValue(r, wm)
  IN  /\ hw' = [hw EXCEPT ![r] =
                  Stored(r, @, v \cup (Flags[r] \cap c.mmask \cap c.mvalue))]
      /\ ctx' = [ctx EXCEPT ![r] = Known([c EXCEPT !.ovalue = v])]
      /\ Done(r)

\* Every other bit is known or a flag: load-immediate and store.
CommitStore(r) ==
  /\ Committing(r)
  /\ WriteMask(r) # {} /\ ~ (r \in Low /\ OneBit(WriteMask(r)))
  /\ ReadMask(r) = {}
  /\ CommitWrite(r, WriteMask(r))
  /\ UNCHANGED <<used, op>>

\* Otherwise read the register first ...
CommitLoad(r) ==
  /\ Committing(r)
  /\ WriteMask(r) # {} /\ ~ (r \in Low /\ OneBit(WriteMask(r)))
  /\ ReadMask(r) # {}
  /\ ctx' = [ctx EXCEPT ![r].ovalue = hw[r]]
  /\ op' = [kind |-> "commit", reg |-> r, wm |-> WriteMask(r)]
  /\ UNCHANGED <<used, hw, phase, todo>>

\* ... then write it.
CommitModify(r) ==
  /\ op.kind = "commit" /\ op.reg = r
  /\ CommitWrite(r, op.wm)
  /\ op' = Idle
  /\ UNCHANGED used

-----------------------------------------------------------------------------
(* hw( ... ): _hw_write_r8                                                 *)

\* The checks of _hw_write_r8.
HwWrite(r, mask, value) ==
  /\ phase # "commit" /\ op = Idle
  /\ mask # {} /\ value \subseteq mask /\ value \subseteq Writable[r]
  /\ op' = [kind |-> "issued", reg |-> r, mask |-> mask, value |-> value]
  /\ UNCHANGED <<used, hw, ctx, phase, todo>>

Issued(r) == op.kind = "issued" /\ op.reg = r

\* rm of _hw_write_r8
KeptMask(r) == (Writable[r] \ op.mask) \ Flags[r]

DirectBit(r) ==
  /\ Issued(r)
  /\ r \in Low /\ OneBit(op.mask)
  /\ hw' = [hw EXCEPT ![r] = BitStored(r, @, op.mask, op.value # {})]
  /\ op' = Idle
  /\ UNCHANGED <<used, ctx, phase, todo>>

DirectStore(r) ==
  /\ Issued(r)
  /\ ~ (r \in Low /\ OneBit(op.mask))
  /\ KeptMask(r) = {}
  /\ hw' = [hw EXCEPT ![r] = Stored(r, @, op.value)]
  /\ op' = Idle
  /\ UNCHANGED <<used, ctx, phase, todo>>

DirectLoad(r) ==
  /\ Issued(r)
  /\ ~ (r \in Low /\ OneBit(op.mask))
  /\ KeptMask(r) # {}
  /\ op' = [kind |-> "loaded", reg |-> r, mask |-> op.mask,
            value |-> op.value, seen |-> hw[r]]
  /\ UNCHANGED <<used, hw, ctx, phase, todo>>

\* *p = (*p & ~cm) | sm
DirectModify(r) ==
  /\ op.kind = "loaded" /\ op.reg = r
  /\ LET sm == op.mask \cap Writable[r] \cap op.value
         cm == (op.mask \cap Writable[r]) \ op.value
     IN  hw' = [hw EXCEPT ![r] = Stored(r, @, (op.seen \ cm) \cup sm)]
  /\ op' = Idle
  /\ UNCHANGED <<used, ctx, phase, todo>>

-----------------------------------------------------------------------------
Init ==
  /\ used \in Programs
  /\ hw \in [Regs -> SUBSET Bits]
  /\ \A r \in Regs : /\ hw[r] \cap Strobes[r] = {}
                     /\ r \notin used => hw[r] = {}
  /\ ctx = [r \in Regs |-> SetUp]
  /\ phase = "none" /\ todo = {} /\ op = Idle

CommitStep(r) == \/ CommitNone(r) \/ CommitBit(r) \/ CommitStore(r)
                 \/ CommitLoad(r) \/ CommitModify(r)

DirectStep(r) == \/ DirectBit(r) \/ DirectStore(r)
                 \/ DirectLoad(r) \/ DirectModify(r)

Next ==
  \/ Begin \/ BeginFromReset \/ NoCommit \/ Commit
  \/ \E r \in used :
       \/ \E msk \in Fields[r] : \E v \in SUBSET msk : HwaWrite(r, msk, v)
       \/ \E msk \in DirectFields[r] : \E v \in SUBSET msk : HwWrite(r, msk, v)
       \/ CommitStep(r)
       \/ DirectStep(r)
       \/ \E b \in Bits : Raise(r, b) \/ Finish(r, b)

Spec == Init /\ [][Next]_vars

-----------------------------------------------------------------------------
(* Properties.                                                             *)

Domains ==
  /\ used \in SUBSET Regs
  /\ hw \in Masks
  /\ ctx \in [Regs -> ContextReg]
  /\ phase \in {"none", "open", "commit"}
  /\ todo \in SUBSET used
  /\ op \in Op

\* "written by the next commit" means by no later one: of what was asked of a
\* register the commit has dealt with, by whichever path, nothing is pending.
NothingPending ==
  phase = "commit" => \A r \in used \ todo : ctx[r].mmask = {}

(* Every variable is in its domain, and a commit leaves no request behind   *)
(* it, whichever of the paths of _hwa_commit__r8 a register took.           *)
TypeOK == Domains /\ NothingPending

\* The configuration bits of a register.
Config(r) == Writable[r] \ (Flags[r] \cup Strobes[r])

(* omask, ovalue are the "Hardware known bits" (hwa_1.h 200-201): a         *)
(* configuration bit the context claims to know has that value in the       *)
(* hardware, at every moment, commits in progress included.  It is what     *)
(* allows a commit to leave a register unread or unwritten.                 *)
KnownBits ==
  \A r \in used : \A b \in ctx[r].omask \cap Config(r) :
    b \in ctx[r].ovalue <=> b \in hw[r]

(* The whole of masks, caches, single-bit instructions and read-modify-     *)
(* write sequences implements HwaIntent: each commit of a register applies  *)
(* what was asked, no more and no less, each hw() its own value, whatever   *)
(* flags the hardware raises between the read and the write.  Strobes are   *)
(* left out of it: they are no state a register keeps.                      *)
WantOf(r) == [mask  |-> ctx[r].mmask \ Strobes[r],
              value |-> (ctx[r].mmask \cap ctx[r].mvalue) \ Strobes[r]]

SyncOf(r) == IF op.kind \in {"issued", "loaded"} /\ op.reg = r
             THEN [mask  |-> (op.mask \cap Writable[r]) \ Strobes[r],
                   value |-> op.value \ Strobes[r]]
             ELSE [mask |-> {}, value |-> {}]

Intent == INSTANCE HwaIntent WITH hw   <- [r \in Regs |-> hw[r] \ Strobes[r]],
                                  want <- [r \in Regs |-> WantOf(r)],
                                  sync <- [r \in Regs |-> SyncOf(r)]

ImplementsIntent == Intent!Spec

(* using.md 87 "Clear the object (usually an IRQ flag)": when the commit    *)
(* has dealt with a register, the flags whose clearing was asked for are    *)
(* down.                                                                    *)
ClearsAskedFlags ==
  [][\A r \in todo \ todo' :
        hw'[r] \cap Flags[r] \cap ctx[r].mmask \cap ctx[r].mvalue = {}]_vars

-----------------------------------------------------------------------------
(* The conditions under which the theorems of HwaContext_proofs hold.      *)

\* No flag is within reach of the single-bit instructions.
FlagsHigh == \A r \in Low : Flags[r] = {}

\* hw() and hwa() share registers, not bits.
Disjoint ==
  \A r \in Regs : \A d \in DirectFields[r] : \A f \in Fields[r] : f \cap d = {}

\* An hw() write that has to read its register names every flag of it.
DirectNamesFlags ==
  \A r \in Regs : \A d \in DirectFields[r] :
    \/ Flags[r] \subseteq d
    \/ (Writable[r] \ d) \ Flags[r] = {}
    \/ r \in Low /\ OneBit(d)

Disciplined == FlagsHigh /\ Disjoint /\ DirectNamesFlags
=============================================================================
