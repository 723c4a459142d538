-------------------------- MODULE HwaContext_proofs --------------------------
(***************************************************************************)
(* Proofs about HwaContext, for any set of registers, of any width.        *)
(***************************************************************************)
EXTENDS HwaContext, TLAPS

-----------------------------------------------------------------------------
(* What a store leaves in a register, bit by bit.                          *)

LEMMA StoredBits ==
  ASSUME NEW r \in Regs, NEW old \in SUBSET Bits, NEW v \in SUBSET Bits
  PROVE  /\ Stored(r, old, v) \in SUBSET Bits
         /\ \A b \in Config(r) : b \in Stored(r, old, v) <=> b \in v
         /\ \A b \in Flags[r] : b \in Stored(r, old, v) <=> b \in old /\ b \notin v
         /\ \A b \in Bits \ Writable[r] : b \in Stored(r, old, v) <=> b \in old
  BY RegisterAssumption DEF Stored, Config, Masks

LEMMA BitStoredBits ==
  ASSUME NEW r \in Regs, NEW old \in SUBSET Bits, NEW S \in SUBSET Bits,
         NEW one \in BOOLEAN
  PROVE  /\ BitStored(r, old, S, one) \in SUBSET Bits
         /\ \A b \in Config(r) : b \in BitStored(r, old, S, one) <=>
                                   IF b \in S THEN one ELSE b \in old
         /\ \A b \in Flags[r] : b \in BitStored(r, old, S, one) <=>
                                   b \in old /\ ~ (one /\ b \in S)
         /\ \A b \in Bits \ Writable[r] :
                b \in BitStored(r, old, S, one) <=> b \in old
  BY RegisterAssumption DEF BitStored, Config, Masks

LEMMA WriteMaskType ==
  ASSUME Domains, NEW r \in Regs
  PROVE  WriteMask(r) \in SUBSET (Writable[r] \cap ctx[r].mmask)
  BY DEF WriteMask

LEMMA BelievedType ==
  ASSUME NEW c \in ContextReg
  PROVE  Believed(c) \in ContextReg
  BY DEF Believed, ContextReg

LEMMA KnownType ==
  ASSUME NEW c \in ContextReg
  PROVE  Known(c) \in ContextReg
  BY DEF Known, ContextReg

LEMMA ResetType ==
  ASSUME NEW r \in Regs
  PROVE  Believed(SetTo(SetUp, Reset[r])) \in ContextReg
<1>1. SetTo(SetUp, Reset[r]) \in ContextReg
  BY RegisterAssumption DEF SetTo, SetUp, ContextReg, Masks
<1> QED BY <1>1, BelievedType

-----------------------------------------------------------------------------
(* Types.                                                                  *)

LEMMA InitType == Init => Domains
  BY RegisterAssumption
     DEF Init, Domains, Masks, ContextReg, SetUp, Op, Idle

LEMMA CommitWriteType ==
  ASSUME Domains, NEW r \in Regs, NEW wm \in SUBSET Bits,
         CommitWrite(r, wm)
  PROVE  /\ hw' \in Masks
         /\ ctx' \in [Regs -> ContextReg]
         /\ phase' \in {"none", "open", "commit"}
         /\ todo' \in SUBSET todo
<1> DEFINE c == ctx[r]
           v == NewValue(r, wm)
           out == v \cup (Flags[r] \cap c.mmask \cap c.mvalue)
<1>1. c \in ContextReg
  BY DEF Domains
<1>2. v \in SUBSET Bits /\ out \in SUBSET Bits
  BY <1>1 DEF NewValue, ContextReg
<1>3. [c EXCEPT !.ovalue = v] \in ContextReg
  BY <1>1, <1>2 DEF ContextReg
<1>4. Known([c EXCEPT !.ovalue = v]) \in ContextReg
  BY <1>3, KnownType
<1>5. Stored(r, hw[r], out) \in SUBSET Bits
  BY <1>2, StoredBits DEF Domains, Masks
<1>6. hw' = [hw EXCEPT ![r] = Stored(r, hw[r], out)]
  BY DEF CommitWrite
<1>7. ctx' = [ctx EXCEPT ![r] = Known([c EXCEPT !.ovalue = v])]
  BY DEF CommitWrite
<1>8. hw' \in Masks
  BY <1>5, <1>6 DEF Domains, Masks
<1>9. ctx' \in [Regs -> ContextReg]
  BY <1>4, <1>7 DEF Domains
<1>10. phase' \in {"none", "open", "commit"} /\ todo' \in SUBSET todo
  BY DEF CommitWrite, Done, Domains
<1> QED BY <1>8, <1>9, <1>10

\* What one step of the commit or of hw() does to the types.
LEMMA CommitStepType ==
  ASSUME Domains, NEW r \in used, CommitStep(r)
  PROVE  Domains'
<1> USE DEF Domains
<1>r. r \in Regs /\ used' = used
  BY DEF CommitStep, CommitNone, CommitBit, CommitStore, CommitLoad, CommitModify
<1>c. ctx[r] \in ContextReg
  BY <1>r
<1>w. WriteMask(r) \in SUBSET Bits
  BY <1>c DEF WriteMask, ContextReg
<1>1. CASE CommitNone(r)
  <2>1. ctx' \in [Regs -> ContextReg]
    BY <1>1, <1>c, KnownType DEF CommitNone
  <2> QED BY <1>1, <1>r, <2>1 DEF CommitNone, Done, Committing
<1>2. CASE CommitBit(r)
  <2> DEFINE wm == WriteMask(r)
             one == wm \cap ctx[r].mvalue # {}
  <2>1. /\ hw' = [hw EXCEPT ![r] =
                     BitStored(r, hw[r], wm, one)]
        /\ ctx' = [ctx EXCEPT ![r].ovalue = (@ \ wm) \cup (ctx[r].mvalue \cap wm),
                              ![r].omask  = @ \cup wm,
                              ![r].mmask  = {}]
    BY <1>2 DEF CommitBit
  <2>w. wm \in SUBSET Bits
    BY <1>w
  <2>0. BitStored(r, hw[r], wm, one) \in SUBSET Bits
    <3>1. one \in BOOLEAN /\ hw[r] \in SUBSET Bits
      BY <1>r DEF Masks
    <3> HIDE DEF one, wm
    <3> QED BY <1>r, <3>1, <2>w, BitStoredBits
  <2>2. hw' \in Masks
    BY <1>r, <2>0, <2>1 DEF Masks
  <2>3. ctx' \in [Regs -> ContextReg]
    BY <1>c, <1>w, <2>1 DEF ContextReg
  <2> QED BY <1>2, <1>r, <2>2, <2>3 DEF CommitBit, Done, Committing
<1>3. CASE CommitStore(r)
  BY <1>3, <1>r, <1>w, CommitWriteType DEF CommitStore, Committing
<1>4. CASE CommitLoad(r)
  <2>1. ctx' \in [Regs -> ContextReg]
    BY <1>4, <1>c, <1>r DEF CommitLoad, ContextReg, Masks
  <2>2. op' \in Op
    BY <1>4, <1>r, <1>w DEF CommitLoad, Op
  <2> QED BY <1>4, <1>r, <2>1, <2>2 DEF CommitLoad
<1>5. CASE CommitModify(r)
  <2>1. op.wm \in SUBSET Bits
    BY <1>5 DEF CommitModify, Op, Idle
  <2>2. op' \in Op
    BY <1>5 DEF CommitModify, Op
  <2> QED BY <1>5, <1>r, <2>1, <2>2, CommitWriteType DEF CommitModify
<1> QED BY <1>1, <1>2, <1>3, <1>4, <1>5 DEF CommitStep
LEMMA DirectStepType ==
  ASSUME Domains, NEW r \in used, DirectStep(r)
  PROVE  Domains'
<1> USE DEF Domains
<1>r. r \in Regs /\ used' = used /\ ctx' = ctx /\ phase' = phase /\ todo' = todo
  BY DEF DirectStep, DirectBit, DirectStore, DirectLoad, DirectModify
<1>1. CASE DirectBit(r)
  <2>1. op.mask \in SUBSET Bits
    BY <1>1 DEF DirectBit, Issued, Op, Idle
  <2> DEFINE one == op.value # {}
  <2>2. hw' = [hw EXCEPT ![r] = BitStored(r, hw[r], op.mask, one)]
    BY <1>1 DEF DirectBit
  <2>0. BitStored(r, hw[r], op.mask, one) \in SUBSET Bits
    <3>1. one \in BOOLEAN /\ hw[r] \in SUBSET Bits
      BY <1>r DEF Masks
    <3> HIDE DEF one
    <3> QED BY <1>r, <2>1, <3>1, BitStoredBits
  <2>3. hw' \in Masks
    BY <1>r, <2>0, <2>2 DEF Masks
  <2> QED BY <1>1, <1>r, <2>3 DEF DirectBit, Op
<1>2. CASE DirectStore(r)
  <2>1. op.value \in SUBSET Bits
    BY <1>2 DEF DirectStore, Issued, Op, Idle
  <2>2. hw' = [hw EXCEPT ![r] = Stored(r, hw[r], op.value)]
    BY <1>2 DEF DirectStore
  <2>3. hw' \in Masks
    BY <1>r, <2>1, <2>2, StoredBits DEF Masks
  <2> QED BY <1>2, <1>r, <2>3 DEF DirectStore, Op
<1>3. CASE DirectLoad(r)
  <2>1. op.mask \in SUBSET Bits /\ op.value \in SUBSET Bits
    BY <1>3 DEF DirectLoad, Issued, Op, Idle
  <2>2. op' \in Op
    BY <1>3, <1>r, <2>1 DEF DirectLoad, Op, Masks
  <2> QED BY <1>3, <1>r, <2>2 DEF DirectLoad
<1>4. CASE DirectModify(r)
  <2> DEFINE sm == op.mask \cap Writable[r] \cap op.value
             cm == (op.mask \cap Writable[r]) \ op.value
  <2>1. (op.seen \ cm) \cup sm \in SUBSET Bits
    BY <1>4 DEF DirectModify, Op, Idle
  <2>2. hw' = [hw EXCEPT ![r] = Stored(r, hw[r], (op.seen \ cm) \cup sm)]
    BY <1>4 DEF DirectModify
  <2>3. hw' \in Masks
    BY <1>r, <2>1, <2>2, StoredBits DEF Masks
  <2> QED BY <1>4, <1>r, <2>3 DEF DirectModify, Op
<1> QED BY <1>1, <1>2, <1>3, <1>4 DEF DirectStep

LEMMA StepType == Domains /\ [Next]_vars => Domains'
<1> SUFFICES ASSUME Domains, [Next]_vars PROVE Domains'
  OBVIOUS
<1> USE DEF Domains
<1>1. CASE Begin
  <2>1. SetUp \in ContextReg
    BY DEF SetUp, ContextReg
  <2> QED BY <1>1, <2>1 DEF Begin
<1>2. CASE BeginFromReset
  BY <1>2, ResetType DEF BeginFromReset
<1>3. CASE NoCommit
  BY <1>3, BelievedType DEF NoCommit
<1>4. CASE Commit
  BY <1>4 DEF Commit
<1>5. ASSUME NEW r \in used, NEW msk \in Fields[r], NEW v \in SUBSET msk,
             HwaWrite(r, msk, v)
      PROVE  Domains'
  <2>1. msk \in SUBSET Bits /\ r \in Regs
    BY RegisterAssumption
  <2>2. ctx' \in [Regs -> ContextReg]
    BY <1>5, <2>1 DEF HwaWrite, ContextReg
  <2> QED BY <1>5, <2>2 DEF HwaWrite
<1>6. ASSUME NEW r \in used, NEW msk \in DirectFields[r], NEW v \in SUBSET msk,
             HwWrite(r, msk, v)
      PROVE  Domains'
  <2>1. msk \in SUBSET Bits /\ v \in SUBSET Bits /\ r \in Regs
    BY RegisterAssumption
  <2>2. op' \in Op
    BY <1>6, <2>1 DEF HwWrite, Op
  <2> QED BY <1>6, <2>2 DEF HwWrite
<1>7. ASSUME NEW r \in used, CommitStep(r)
      PROVE  Domains'
  BY <1>7, CommitStepType
<1>8. ASSUME NEW r \in used, DirectStep(r)
      PROVE  Domains'
  BY <1>8, DirectStepType
<1>9. ASSUME NEW r \in used, NEW b \in Bits, Raise(r, b) \/ Finish(r, b)
      PROVE  Domains'
  BY <1>9 DEF Raise, Finish, Masks
<1>10. CASE UNCHANGED vars
  BY <1>10 DEF vars
<1> QED
  BY <1>1, <1>2, <1>3, <1>4, <1>5, <1>6, <1>7, <1>8, <1>9, <1>10 DEF Next

\* Every path of the commit clears the requests of its register.
LEMMA StepPending ==
  ASSUME Domains, NothingPending, [Next]_vars
  PROVE  NothingPending'
<1> USE DEF NothingPending
<1>1. CASE Begin \/ BeginFromReset \/ NoCommit \/ Commit
  BY <1>1 DEF Begin, BeginFromReset, NoCommit, Commit
<1>2. ASSUME NEW r \in used, NEW msk \in Fields[r], NEW v \in SUBSET msk,
             HwaWrite(r, msk, v)
      PROVE  NothingPending'
  BY <1>2 DEF HwaWrite
<1>3. ASSUME NEW r \in used, NEW msk \in DirectFields[r], NEW v \in SUBSET msk,
             HwWrite(r, msk, v)
      PROVE  NothingPending'
  BY <1>3 DEF HwWrite
<1>4. ASSUME NEW r \in used, CommitNone(r) \/ CommitBit(r) \/ CommitStore(r)
                               \/ CommitModify(r)
      PROVE  NothingPending'
  <2>1. /\ ctx \in [Regs -> ContextReg] /\ r \in Regs
        /\ used' = used /\ todo' = todo \ {r}
    BY <1>4 DEF Domains, CommitNone, CommitBit, CommitStore, CommitModify,
                CommitWrite, Done
  <2>2. ctx'[r].mmask = {} /\ \A q \in Regs \ {r} : ctx'[q] = ctx[q]
    BY <1>4, <2>1 DEF CommitNone, CommitBit, CommitStore, CommitModify,
                      CommitWrite, Known, ContextReg
  <2> QED BY <1>4, <2>1, <2>2 DEF Domains, CommitNone, CommitBit, CommitStore,
             CommitModify, CommitWrite, Committing, Done
<1>5. ASSUME NEW r \in used, CommitLoad(r)
      PROVE  NothingPending'
  BY <1>5 DEF CommitLoad, Domains, ContextReg
<1>6. ASSUME NEW r \in used, DirectStep(r)
      PROVE  NothingPending'
  BY <1>6 DEF DirectStep, DirectBit, DirectStore, DirectLoad, DirectModify
<1>7. ASSUME NEW r \in used, NEW b \in Bits, Raise(r, b) \/ Finish(r, b)
      PROVE  NothingPending'
  BY <1>7 DEF Raise, Finish
<1>8. CASE UNCHANGED vars
  BY <1>8 DEF vars
<1> QED BY <1>1, <1>2, <1>3, <1>4, <1>5, <1>6, <1>7, <1>8 DEF Next, CommitStep

LEMMA InitPending == Init => NothingPending
  BY DEF Init, NothingPending

\* Every variable of the context stays in its domain, and no commit leaves a
\* request behind it.
THEOREM TypeCorrect == Spec => []TypeOK
<1>1. Init => TypeOK
  BY InitType, InitPending DEF TypeOK
<1>2. TypeOK /\ [Next]_vars => TypeOK'
  BY StepType, StepPending DEF TypeOK
<1> QED BY <1>1, <1>2, PTL DEF Spec

-----------------------------------------------------------------------------
(* The inductive invariant.  KnownBits alone is not inductive: it needs to *)
(* know what a read-modify-write in progress holds, that hw() stays out of *)
(* the bits the context knows, and that no flag is believed to be 1.       *)

\* The context never believes that a flag it knows is 1, except between the
\* two halves of a read-modify-write.
FlagsForgotten ==
  \A r \in used : \/ op.kind = "commit" /\ op.reg = r
                  \/ ctx[r].ovalue \cap ctx[r].omask \cap Flags[r] = {}

\* Requests are for writeable bits; what hw() writes, the context ignores.
Owned ==
  \A r \in used :
    /\ ctx[r].mmask \subseteq Writable[r]
    /\ \A d \in DirectFields[r] : d \cap (ctx[r].omask \cup ctx[r].mmask) = {}

\* What the commit has read is what the register still holds.
CommitInFlight ==
  op.kind = "commit" =>
    /\ op.reg \in used
    /\ op.wm \subseteq Writable[op.reg] \cap ctx[op.reg].mmask
    /\ \A b \in Config(op.reg) :
         /\ b \in ctx[op.reg].ovalue <=> b \in hw[op.reg]
         /\ b \in ctx[op.reg].mmask \ op.wm =>
              (b \in ctx[op.reg].mvalue <=> b \in hw[op.reg])

\* The hw() instruction in progress writes a field that hw() owns.
DirectInFlight ==
  op.kind \in {"issued", "loaded"} =>
    /\ op.reg \in used
    /\ op.mask \in DirectFields[op.reg]
    /\ op.value \subseteq op.mask \cap Writable[op.reg]

\* And what it has read is what the register still holds.
LoadedInFlight ==
  op.kind = "loaded" =>
    /\ Flags[op.reg] \subseteq op.mask
    /\ \A b \in Config(op.reg) : b \in op.seen <=> b \in hw[op.reg]

IInv == /\ Domains /\ KnownBits /\ FlagsForgotten /\ Owned
        /\ CommitInFlight /\ DirectInFlight /\ LoadedInFlight

-----------------------------------------------------------------------------
(* The effect of the last access of a commit, whichever path it took.      *)

Committed(r) ==
  /\ \A b \in Config(r) :
        b \in hw'[r] <=> IF b \in ctx[r].mmask THEN b \in ctx[r].mvalue
                                               ELSE b \in hw[r]
  /\ \A b \in Flags[r] :
        b \in hw'[r] <=> b \in hw[r] /\ ~ (b \in ctx[r].mmask /\ b \in ctx[r].mvalue)
  /\ \A b \in Bits \ Writable[r] : b \in hw'[r] <=> b \in hw[r]
  /\ \A b \in Config(r) \cap ctx'[r].omask : b \in ctx'[r].ovalue <=> b \in hw'[r]
  /\ ctx'[r].mmask = {}
  /\ ctx'[r].omask \subseteq ctx[r].omask \cup ctx[r].mmask
  /\ ctx'[r].ovalue \cap ctx'[r].omask \cap Flags[r] = {}
  /\ \A q \in Regs \ {r} : hw'[q] = hw[q] /\ ctx'[q] = ctx[q]
  /\ used' = used /\ op' = Idle

\* The general path: whatever the write mask, if the bits outside it are
\* right in ovalue and in what was asked.
LEMMA CommitWriteEffect ==
  ASSUME Domains, NEW r \in used, NEW wm \in SUBSET (Writable[r] \cap ctx[r].mmask),
         CommitWrite(r, wm), used' = used, op' = Idle,
         \A b \in Config(r) \ wm :
            /\ b \in ctx[r].ovalue <=> b \in hw[r]
            /\ b \in ctx[r].mmask => (b \in ctx[r].mvalue <=> b \in hw[r])
  PROVE  Committed(r)
<1> DEFINE c == ctx[r]
           v == NewValue(r, wm)
           out == v \cup (Flags[r] \cap c.mmask \cap c.mvalue)
<1>r. r \in Regs /\ hw[r] \in SUBSET Bits /\ c \in ContextReg
  BY DEF Domains, Masks
<1>f. Flags[r] \subseteq Writable[r] /\ Writable[r] \subseteq Bits
  BY <1>r, RegisterAssumption DEF Masks
<1>1. v \in SUBSET Bits /\ out \in SUBSET Bits
  BY <1>r DEF NewValue, ContextReg
<1>2. hw' = [hw EXCEPT ![r] = Stored(r, hw[r], out)]
  BY DEF CommitWrite
<1>3. ctx' = [ctx EXCEPT ![r] = Known([c EXCEPT !.ovalue = v])]
  BY DEF CommitWrite
<1>4. hw'[r] = Stored(r, hw[r], out)
  BY <1>r, <1>2 DEF Domains, Masks
<1>5. /\ ctx'[r].mmask = {}
      /\ ctx'[r].omask = c.omask \cup c.mmask
      /\ ctx'[r].ovalue = v
  <2>1. ctx'[r] = Known([c EXCEPT !.ovalue = v])
    BY <1>r, <1>3 DEF Domains
  <2> QED BY <1>r, <2>1 DEF Known, ContextReg
<1>6. \A q \in Regs \ {r} : hw'[q] = hw[q] /\ ctx'[q] = ctx[q]
  BY <1>2, <1>3 DEF Domains, Masks
<1>7. /\ \A b \in Config(r) : b \in hw'[r] <=> b \in out
      /\ \A b \in Flags[r] : b \in hw'[r] <=> b \in hw[r] /\ b \notin out
      /\ \A b \in Bits \ Writable[r] : b \in hw'[r] <=> b \in hw[r]
  BY <1>r, <1>1, <1>4, StoredBits
<1>8. \A b \in Config(r) :
        /\ b \in out <=> b \in v
        /\ b \in v <=> IF b \in wm THEN b \in c.mvalue ELSE b \in c.ovalue
  BY <1>r DEF NewValue, Config
<1>9. \A b \in Flags[r] : b \in out <=> b \in c.mmask /\ b \in c.mvalue
  BY DEF NewValue
<1>10. v \cap Flags[r] = {}
  BY DEF NewValue
<1>11. \A b \in Config(r) :
         b \in hw'[r] <=> IF b \in c.mmask THEN b \in c.mvalue ELSE b \in hw[r]
  BY <1>7, <1>8
<1> HIDE DEF v, out
<1> QED BY <1>5, <1>6, <1>7, <1>8, <1>9, <1>10, <1>11 DEF Committed

\* Bits that were asked for and are not in the write mask are known to hold.
LEMMA NotWritten ==
  ASSUME IInv, NEW r \in used, op = Idle
  PROVE  /\ \A b \in (Config(r) \cap ctx[r].mmask) \ WriteMask(r) :
              /\ b \in ctx[r].omask
              /\ b \in ctx[r].ovalue <=> b \in hw[r]
              /\ b \in ctx[r].mvalue <=> b \in hw[r]
         /\ Flags[r] \cap ctx[r].mmask \cap ctx[r].mvalue \subseteq WriteMask(r)
         /\ WriteMask(r) \subseteq Writable[r] \cap ctx[r].mmask
<1>r. /\ r \in Regs /\ ctx[r] \in ContextReg
      /\ Flags[r] \subseteq Writable[r] /\ Writable[r] \subseteq Bits
  BY RegisterAssumption DEF IInv, Domains, Masks
<1>k. \A b \in ctx[r].omask \cap Config(r) : b \in ctx[r].ovalue <=> b \in hw[r]
  BY DEF IInv, KnownBits
<1>f. ctx[r].ovalue \cap ctx[r].omask \cap Flags[r] = {}
  BY DEF IInv, FlagsForgotten, Idle
<1>1. \A b \in (Config(r) \cap ctx[r].mmask) \ WriteMask(r) :
        b \in ctx[r].omask /\ (b \in ctx[r].ovalue <=> b \in ctx[r].mvalue)
  BY <1>r DEF WriteMask, Config, ContextReg
<1>2. Flags[r] \cap ctx[r].mmask \cap ctx[r].mvalue \subseteq WriteMask(r)
  BY <1>r, <1>f DEF WriteMask, ContextReg
<1>3. WriteMask(r) \subseteq Writable[r] \cap ctx[r].mmask
  BY DEF WriteMask
<1> QED BY <1>1, <1>2, <1>3, <1>k DEF Config

LEMMA CommitNoneEffect ==
  ASSUME IInv, NEW r \in used, CommitNone(r)
  PROVE  Committed(r)
<1>r. r \in Regs /\ ctx[r] \in ContextReg /\ op = Idle
  BY DEF IInv, Domains, CommitNone, Committing
<1>1. /\ hw' = hw /\ used' = used /\ op' = op
      /\ ctx' = [ctx EXCEPT ![r] = Known(ctx[r])]
      /\ WriteMask(r) = {}
  BY DEF CommitNone
<1>2. /\ ctx'[r].mmask = {}
      /\ ctx'[r].omask = ctx[r].omask \cup ctx[r].mmask
      /\ ctx'[r].ovalue = ctx[r].ovalue
  <2>1. ctx'[r] = Known(ctx[r])
    BY <1>r, <1>1 DEF IInv, Domains
  <2> QED BY <1>r, <2>1 DEF Known, ContextReg
<1>3. \A q \in Regs \ {r} : ctx'[q] = ctx[q]
  BY <1>1 DEF IInv, Domains
<1>4. /\ \A b \in Config(r) \cap ctx[r].mmask :
            /\ b \in ctx[r].ovalue <=> b \in hw[r]
            /\ b \in ctx[r].mvalue <=> b \in hw[r]
      /\ Flags[r] \cap ctx[r].mmask \cap ctx[r].mvalue = {}
  BY <1>r, <1>1, NotWritten
<1>5. \A b \in ctx[r].omask \cap Config(r) : b \in ctx[r].ovalue <=> b \in hw[r]
  BY DEF IInv, KnownBits
<1>6. ctx[r].ovalue \cap ctx[r].omask \cap Flags[r] = {}
  BY <1>r DEF IInv, FlagsForgotten, Idle
<1>7. ctx[r].ovalue \cap (ctx[r].omask \cup ctx[r].mmask) \cap Flags[r] = {}
  <2>1. \A b \in Flags[r] \cap ctx[r].mmask : b \in ctx[r].omask
    BY <1>r, <1>1, RegisterAssumption DEF WriteMask, ContextReg, Masks
  <2> QED BY <1>6, <2>1
<1> QED BY <1>r, <1>1, <1>2, <1>3, <1>4, <1>5, <1>7 DEF Committed

\* sbi and cbi: this is where a flag would be believed to be 1.
LEMMA CommitBitEffect ==
  ASSUME IInv, FlagsHigh, NEW r \in used, CommitBit(r)
  PROVE  Committed(r)
<1> DEFINE wm == WriteMask(r)
           c == ctx[r]
           one == wm \cap c.mvalue # {}
<1>r. /\ r \in Regs /\ c \in ContextReg /\ op = Idle /\ hw[r] \in SUBSET Bits
      /\ Writable[r] \subseteq Bits
  BY RegisterAssumption DEF IInv, Domains, CommitBit, Committing, Masks
<1>f. Flags[r] = {}
  BY <1>r DEF FlagsHigh, CommitBit
<1>1. /\ hw' = [hw EXCEPT ![r] = BitStored(r, hw[r], wm, one)]
      /\ ctx' = [ctx EXCEPT ![r].ovalue = (@ \ wm) \cup (c.mvalue \cap wm),
                            ![r].omask  = @ \cup wm,
                            ![r].mmask  = {}]
      /\ used' = used /\ op' = op /\ OneBit(wm)
  BY DEF CommitBit
<1>2. /\ ctx'[r].mmask = {}
      /\ ctx'[r].omask = c.omask \cup wm
      /\ ctx'[r].ovalue = (c.ovalue \ wm) \cup (c.mvalue \cap wm)
  BY <1>r, <1>1 DEF IInv, Domains, ContextReg
<1>3. \A q \in Regs \ {r} : hw'[q] = hw[q] /\ ctx'[q] = ctx[q]
  BY <1>1 DEF IInv, Domains, Masks
<1>w. wm \in SUBSET Bits /\ wm \subseteq c.mmask
  BY <1>r DEF WriteMask
<1>4. hw'[r] = BitStored(r, hw[r], wm, one)
  BY <1>r, <1>1 DEF IInv, Domains, Masks
<1>5. /\ \A b \in Config(r) : b \in hw'[r] <=> IF b \in wm THEN one ELSE b \in hw[r]
      /\ \A b \in Bits \ Writable[r] : b \in hw'[r] <=> b \in hw[r]
  <2>1. one \in BOOLEAN
    OBVIOUS
  <2> HIDE DEF one, wm
  <2> QED BY <1>r, <1>w, <1>4, <2>1, BitStoredBits
<1>6. \A b \in wm : one <=> b \in c.mvalue
  BY <1>1 DEF OneBit
<1>7. \A b \in (Config(r) \cap c.mmask) \ wm :
            b \in c.mvalue <=> b \in hw[r]
  BY <1>r, NotWritten
<1>8. \A b \in c.omask \cap Config(r) : b \in c.ovalue <=> b \in hw[r]
  BY DEF IInv, KnownBits
<1> HIDE DEF wm, one
<1>9. \A b \in Config(r) :
        b \in hw'[r] <=> IF b \in c.mmask THEN b \in c.mvalue ELSE b \in hw[r]
  BY <1>w, <1>5, <1>6, <1>7
<1>10. \A b \in Config(r) \cap ctx'[r].omask : b \in ctx'[r].ovalue <=> b \in hw'[r]
  BY <1>2, <1>5, <1>6, <1>8
<1> QED BY <1>r, <1>f, <1>1, <1>2, <1>3, <1>5, <1>w, <1>9, <1>10 DEF Committed

LEMMA CommitStoreEffect ==
  ASSUME IInv, NEW r \in used, CommitStore(r)
  PROVE  Committed(r)
<1> DEFINE wm == WriteMask(r)
<1>1. /\ CommitWrite(r, wm) /\ used' = used /\ op' = op /\ op = Idle
      /\ ReadMask(r) = {}
  BY DEF CommitStore, Committing
<1>2. \A b \in (Config(r) \cap ctx[r].mmask) \ wm :
              /\ b \in ctx[r].ovalue <=> b \in hw[r]
              /\ b \in ctx[r].mvalue <=> b \in hw[r]
  BY <1>1, NotWritten
<1>3. \A b \in Config(r) \ ctx[r].mmask : b \in ctx[r].omask
  BY <1>1 DEF ReadMask, Config
<1>4. \A b \in ctx[r].omask \cap Config(r) : b \in ctx[r].ovalue <=> b \in hw[r]
  BY DEF IInv, KnownBits
<1>5. wm \in SUBSET (Writable[r] \cap ctx[r].mmask)
  BY DEF WriteMask
<1>6. Domains
  BY DEF IInv
<1> HIDE DEF wm
<1>7. \A b \in Config(r) \ wm :
            /\ b \in ctx[r].ovalue <=> b \in hw[r]
            /\ b \in ctx[r].mmask => (b \in ctx[r].mvalue <=> b \in hw[r])
  BY <1>2, <1>3, <1>4
<1> QED BY <1>1, <1>5, <1>6, <1>7, CommitWriteEffect

LEMMA CommitModifyEffect ==
  ASSUME IInv, NEW r \in used, CommitModify(r)
  PROVE  Committed(r)
<1>1. /\ op.kind = "commit" /\ op.reg = r
      /\ CommitWrite(r, op.wm) /\ op' = Idle
      /\ used' = used
  BY DEF CommitModify
<1>2. /\ op.wm \subseteq Writable[r] \cap ctx[r].mmask
      /\ \A b \in Config(r) :
           /\ b \in ctx[r].ovalue <=> b \in hw[r]
           /\ b \in ctx[r].mmask \ op.wm =>
                (b \in ctx[r].mvalue <=> b \in hw[r])
  BY <1>1 DEF IInv, CommitInFlight
<1>3. Domains
  BY DEF IInv
<1> QED BY <1>1, <1>2, <1>3, CommitWriteEffect

-----------------------------------------------------------------------------
(* The effect of the last access of an hw() instruction.                   *)

Written(r) ==
  /\ op.kind \in {"issued", "loaded"} /\ op.reg = r
  /\ \A b \in Config(r) :
        b \in hw'[r] <=> IF b \in op.mask THEN b \in op.value ELSE b \in hw[r]
  /\ \A b \in Flags[r] : b \in hw'[r] <=> b \in hw[r] /\ b \notin op.value
  /\ \A b \in Bits \ Writable[r] : b \in hw'[r] <=> b \in hw[r]
  /\ \A q \in Regs \ {r} : hw'[q] = hw[q]
  /\ ctx' = ctx /\ used' = used /\ op' = Idle

LEMMA InstructionType ==
  ASSUME IInv, NEW r \in used, op.kind \in {"issued", "loaded"}, op.reg = r
  PROVE  /\ r \in Regs /\ hw[r] \in SUBSET Bits
         /\ Flags[r] \subseteq Writable[r] /\ Writable[r] \subseteq Bits
         /\ op.mask \in SUBSET Bits /\ op.value \in SUBSET Bits
         /\ op.mask \in DirectFields[r]
         /\ op.value \subseteq op.mask \cap Writable[r]
<1>1. r \in Regs /\ hw[r] \in SUBSET Bits
  BY DEF IInv, Domains, Masks
<1>2. op.mask \in DirectFields[r] /\ op.value \subseteq op.mask \cap Writable[r]
  BY DEF IInv, DirectInFlight
<1>3. Flags[r] \subseteq Writable[r] /\ Writable[r] \subseteq Bits
  BY <1>1, RegisterAssumption DEF Masks
<1>4. op.mask \in SUBSET Bits
  BY <1>1, <1>2, RegisterAssumption
<1> QED BY <1>1, <1>2, <1>3, <1>4

LEMMA DirectBitEffect ==
  ASSUME IInv, NEW r \in used, DirectBit(r)
  PROVE  Written(r)
<1> DEFINE one == op.value # {}
<1>1. /\ op.kind = "issued" /\ op.reg = r /\ OneBit(op.mask)
      /\ hw' = [hw EXCEPT ![r] = BitStored(r, hw[r], op.mask, one)]
      /\ op' = Idle /\ used' = used /\ ctx' = ctx
  BY DEF DirectBit, Issued
<1>2. /\ r \in Regs /\ hw[r] \in SUBSET Bits
      /\ op.mask \in SUBSET Bits /\ op.value \subseteq op.mask
  BY <1>1, InstructionType
<1>3. hw'[r] = BitStored(r, hw[r], op.mask, one) /\ \A q \in Regs \ {r} : hw'[q] = hw[q]
  BY <1>1, <1>2 DEF IInv, Domains, Masks
<1>4. \A b \in op.mask : one <=> b \in op.value
  BY <1>1, <1>2 DEF OneBit
<1>5. one \in BOOLEAN
  OBVIOUS
<1> HIDE DEF one
<1>6. /\ \A b \in Config(r) :
            b \in hw'[r] <=> IF b \in op.mask THEN one ELSE b \in hw[r]
      /\ \A b \in Flags[r] : b \in hw'[r] <=> b \in hw[r] /\ ~ (one /\ b \in op.mask)
      /\ \A b \in Bits \ Writable[r] : b \in hw'[r] <=> b \in hw[r]
  BY <1>2, <1>3, <1>5, BitStoredBits
<1> QED BY <1>1, <1>2, <1>3, <1>4, <1>6 DEF Written

LEMMA DirectStoreEffect ==
  ASSUME IInv, NEW r \in used, DirectStore(r)
  PROVE  Written(r)
<1>1. /\ op.kind = "issued" /\ op.reg = r /\ KeptMask(r) = {}
      /\ hw' = [hw EXCEPT ![r] = Stored(r, hw[r], op.value)]
      /\ op' = Idle /\ used' = used /\ ctx' = ctx
  BY DEF DirectStore, Issued
<1>2. /\ r \in Regs /\ hw[r] \in SUBSET Bits /\ op.value \in SUBSET Bits
      /\ op.value \subseteq op.mask
  BY <1>1, InstructionType
<1>3. hw'[r] = Stored(r, hw[r], op.value) /\ \A q \in Regs \ {r} : hw'[q] = hw[q]
  BY <1>1, <1>2 DEF IInv, Domains, Masks
<1>4. Config(r) \subseteq op.mask
  BY <1>1 DEF KeptMask, Config
<1> QED BY <1>1, <1>2, <1>3, <1>4, StoredBits DEF Written

LEMMA DirectModifyEffect ==
  ASSUME IInv, NEW r \in used, DirectModify(r)
  PROVE  Written(r)
<1> DEFINE sm == op.mask \cap Writable[r] \cap op.value
           cm == (op.mask \cap Writable[r]) \ op.value
           out == (op.seen \ cm) \cup sm
<1>1. /\ op.kind = "loaded" /\ op.reg = r
      /\ hw' = [hw EXCEPT ![r] = Stored(r, hw[r], out)]
      /\ op' = Idle /\ used' = used /\ ctx' = ctx
  BY DEF DirectModify
<1>2. /\ r \in Regs /\ hw[r] \in SUBSET Bits
      /\ Flags[r] \subseteq Writable[r] /\ Writable[r] \subseteq Bits
      /\ op.mask \in SUBSET Bits /\ op.value \in SUBSET Bits
      /\ op.value \subseteq op.mask \cap Writable[r]
  BY <1>1, InstructionType
<1>3. op.seen \in SUBSET Bits
  BY <1>1 DEF IInv, Domains, Op, Idle
<1>4. hw'[r] = Stored(r, hw[r], out) /\ \A q \in Regs \ {r} : hw'[q] = hw[q]
  BY <1>1, <1>2 DEF IInv, Domains, Masks
<1>5. /\ Flags[r] \subseteq op.mask
      /\ \A b \in Config(r) : b \in op.seen <=> b \in hw[r]
  BY <1>1 DEF IInv, LoadedInFlight
<1>6. \A b \in Flags[r] : b \in out <=> b \in op.value
  BY <1>2, <1>5
<1>7. \A b \in Config(r) :
        b \in out <=> IF b \in op.mask THEN b \in op.value ELSE b \in hw[r]
  BY <1>2, <1>5 DEF Config
<1>8. out \in SUBSET Bits
  BY <1>2, <1>3
<1> HIDE DEF out
<1> QED BY <1>1, <1>2, <1>4, <1>6, <1>7, <1>8, StoredBits DEF Written

-----------------------------------------------------------------------------
(* The invariant holds initially and every step keeps it.                  *)

LEMMA InitInv == Init => IInv
<1> SUFFICES ASSUME Init PROVE IInv
  OBVIOUS
<1>1. \A r \in used : r \in Regs /\ ctx[r] = SetUp
  BY InitType DEF Init, Domains
<1>2. op.kind = "idle"
  BY DEF Init, Idle
<1> QED BY <1>1, <1>2, InitType
        DEF IInv, KnownBits, FlagsForgotten, Owned, CommitInFlight,
            DirectInFlight, LoadedInFlight, SetUp

\* The parts of the invariant that speak of the instruction in progress say
\* nothing when there is none.
LEMMA NothingInFlight ==
  ASSUME op' = Idle
  PROVE  CommitInFlight' /\ DirectInFlight' /\ LoadedInFlight'
  BY DEF Idle, CommitInFlight, DirectInFlight, LoadedInFlight

LEMMA BeginInv ==
  ASSUME IInv, Begin
  PROVE  KnownBits' /\ FlagsForgotten' /\ Owned'
                    /\ CommitInFlight' /\ DirectInFlight' /\ LoadedInFlight'
<1>1. used' = used /\ op' = Idle /\ \A r \in used : r \in Regs /\ ctx'[r] = SetUp
  BY DEF Begin, IInv, Domains
<1> QED BY <1>1, NothingInFlight
        DEF KnownBits, FlagsForgotten, Owned, SetUp

LEMMA BeginFromResetInv ==
  ASSUME IInv, BeginFromReset
  PROVE  KnownBits' /\ FlagsForgotten' /\ Owned'
                    /\ CommitInFlight' /\ DirectInFlight' /\ LoadedInFlight'
<1>1. /\ used' = used /\ op' = Idle /\ hw' = hw
      /\ \A r \in used : /\ r \in Regs /\ DirectFields[r] = {}
                         /\ hw[r] \ Flags[r] = Reset[r]
                         /\ ctx'[r] = Believed(SetTo(SetUp, Reset[r]))
  BY DEF BeginFromReset, IInv, Domains
<1>2. \A r \in used : /\ ctx'[r].mmask = {}
                      /\ ctx'[r].omask = Bits
                      /\ ctx'[r].ovalue = Reset[r]
  <2> SUFFICES ASSUME NEW r \in used
               PROVE  /\ ctx'[r].mmask = {}
                      /\ ctx'[r].omask = Bits
                      /\ ctx'[r].ovalue = Reset[r]
    OBVIOUS
  <2>1. Reset[r] \in SUBSET Bits
    BY <1>1, RegisterAssumption DEF Masks
  <2> DEFINE c == SetTo(SetUp, Reset[r])
  <2>2. /\ c \in ContextReg
        /\ c.mmask = Bits /\ c.mvalue = Reset[r] /\ c.omask = {} /\ c.ovalue = {}
    BY <2>1 DEF SetTo, SetUp, ContextReg
  <2> HIDE DEF c
  <2>3. /\ Believed(c).mmask = {}
        /\ Believed(c).omask = Bits
        /\ Believed(c).ovalue = Reset[r]
    BY <2>1, <2>2 DEF Believed, ContextReg
  <2> QED BY <1>1, <2>3 DEF c
<1>3. KnownBits'
  BY <1>1, <1>2 DEF KnownBits, Config
<1>4. FlagsForgotten'
  BY <1>1, <1>2, RegisterAssumption DEF FlagsForgotten
<1>5. Owned'
  BY <1>1, <1>2 DEF Owned
<1> QED BY <1>1, <1>3, <1>4, <1>5, NothingInFlight

LEMMA NoCommitInv ==
  ASSUME IInv, NoCommit
  PROVE  KnownBits' /\ FlagsForgotten' /\ Owned'
                    /\ CommitInFlight' /\ DirectInFlight' /\ LoadedInFlight'
<1>1. /\ used' = used /\ op' = Idle /\ op = Idle /\ hw' = hw
      /\ \A r \in used : /\ r \in Regs /\ ctx[r] \in ContextReg
                         /\ Truthful(r)
                         /\ ctx'[r] = Believed(ctx[r])
  BY DEF NoCommit, IInv, Domains
<1>2. \A r \in used :
        /\ ctx'[r].mmask = {}
        /\ ctx'[r].omask = ctx[r].omask \cup ctx[r].mmask
        /\ ctx'[r].ovalue = ((ctx[r].ovalue \cap ctx[r].omask) \ ctx[r].mmask)
                              \cup (ctx[r].mvalue \cap ctx[r].mmask)
  BY <1>1 DEF Believed, ContextReg
<1>3. KnownBits'
  <2>1. \A r \in used : \A b \in ctx[r].omask \cap Config(r) :
          b \in ctx[r].ovalue <=> b \in hw[r]
    BY DEF IInv, KnownBits
  <2>2. \A r \in used : \A b \in ctx[r].mmask : b \in ctx[r].mvalue <=> b \in hw[r]
    BY <1>1 DEF Truthful
  <2>3. \A r \in used : Config(r)' = Config(r)
    BY DEF Config
  <2> SUFFICES ASSUME NEW r \in used, NEW b \in ctx'[r].omask \cap Config(r)
               PROVE  b \in ctx'[r].ovalue <=> b \in hw[r]
    BY <1>1, <2>3 DEF KnownBits
  <2>4. CASE b \in ctx[r].mmask
    BY <1>2, <2>2, <2>4
  <2>5. CASE b \notin ctx[r].mmask
    BY <1>2, <2>1, <2>5
  <2> QED BY <2>4, <2>5
<1>4. FlagsForgotten'
  <2>1. \A r \in used : ctx[r].ovalue \cap ctx[r].omask \cap Flags[r] = {}
    BY <1>1 DEF IInv, FlagsForgotten, Idle
  <2>2. \A r \in used : ctx[r].mmask \cap Flags[r] = {}
    BY <1>1 DEF Truthful
  <2> QED BY <1>1, <1>2, <2>1, <2>2 DEF FlagsForgotten
<1>5. Owned'
  BY <1>1, <1>2 DEF IInv, Owned
<1> QED BY <1>1, <1>3, <1>4, <1>5, NothingInFlight

LEMMA HwaWriteInv ==
  ASSUME IInv, Disjoint, NEW r \in used, NEW msk \in Fields[r],
         NEW v \in SUBSET msk, HwaWrite(r, msk, v)
  PROVE  KnownBits' /\ FlagsForgotten' /\ Owned'
                    /\ CommitInFlight' /\ DirectInFlight' /\ LoadedInFlight'
<1>1. /\ used' = used /\ op' = Idle /\ op = Idle /\ hw' = hw
      /\ msk \subseteq Writable[r] /\ r \in Regs
  BY DEF HwaWrite, Accepts, IInv, Domains
<1>2. \A q \in used : ctx'[q].omask = ctx[q].omask /\ ctx'[q].ovalue = ctx[q].ovalue
  BY DEF HwaWrite, IInv, Domains, ContextReg
<1>3. /\ ctx'[r].mmask = ctx[r].mmask \cup msk
      /\ \A q \in used \ {r} : ctx'[q].mmask = ctx[q].mmask
  BY <1>1 DEF HwaWrite, IInv, Domains, ContextReg
<1>4. KnownBits' /\ FlagsForgotten'
  BY <1>1, <1>2 DEF IInv, KnownBits, FlagsForgotten, Config, Idle
<1>5. Owned'
  <2>1. \A d \in DirectFields[r] : d \cap msk = {}
    BY <1>1 DEF Disjoint
  <2> QED BY <1>1, <1>2, <1>3, <2>1 DEF IInv, Owned
<1> QED BY <1>1, <1>4, <1>5, NothingInFlight

LEMMA HwWriteInv ==
  ASSUME IInv, NEW r \in used, NEW mask \in DirectFields[r],
         NEW value \in SUBSET mask, HwWrite(r, mask, value)
  PROVE  KnownBits' /\ FlagsForgotten' /\ Owned'
                    /\ CommitInFlight' /\ DirectInFlight' /\ LoadedInFlight'
<1>1. /\ used' = used /\ hw' = hw /\ ctx' = ctx /\ op = Idle
      /\ op' = [kind |-> "issued", reg |-> r, mask |-> mask, value |-> value]
      /\ value \subseteq Writable[r]
  BY DEF HwWrite
<1>2. KnownBits' /\ FlagsForgotten' /\ Owned'
  BY <1>1 DEF IInv, KnownBits, FlagsForgotten, Owned, Config, Idle
<1>3. CommitInFlight' /\ DirectInFlight' /\ LoadedInFlight'
  BY <1>1 DEF CommitInFlight, DirectInFlight, LoadedInFlight
<1> QED BY <1>2, <1>3

LEMMA CommittedInv ==
  ASSUME IInv, NEW r \in used, Committed(r),
         op = Idle \/ (op.kind = "commit" /\ op.reg = r)
  PROVE  KnownBits' /\ FlagsForgotten' /\ Owned'
                    /\ CommitInFlight' /\ DirectInFlight' /\ LoadedInFlight'
<1>1. /\ used' = used /\ op' = Idle
      /\ \A q \in used \ {r} : hw'[q] = hw[q] /\ ctx'[q] = ctx[q]
  BY DEF Committed, IInv, Domains
<1>2. \A q \in used : Config(q)' = Config(q)
  BY DEF Config
<1>3. KnownBits'
  BY <1>1, <1>2 DEF Committed, IInv, KnownBits
<1>4. FlagsForgotten'
  BY <1>1 DEF Committed, IInv, FlagsForgotten, Idle
<1>5. Owned'
  <2>1. /\ ctx'[r].mmask \subseteq Writable[r]
        /\ \A d \in DirectFields[r] : d \cap (ctx'[r].omask \cup ctx'[r].mmask) = {}
    BY DEF Committed, IInv, Owned
  <2>2. \A q \in used \ {r} :
          /\ ctx'[q].mmask \subseteq Writable[q]
          /\ \A d \in DirectFields[q] : d \cap (ctx'[q].omask \cup ctx'[q].mmask) = {}
    BY <1>1 DEF IInv, Owned
  <2> QED BY <1>1, <2>1, <2>2 DEF Owned
<1> QED BY <1>1, <1>3, <1>4, <1>5, NothingInFlight

LEMMA CommitLoadInv ==
  ASSUME IInv, NEW r \in used, CommitLoad(r)
  PROVE  KnownBits' /\ FlagsForgotten' /\ Owned'
                    /\ CommitInFlight' /\ DirectInFlight' /\ LoadedInFlight'
<1>1. /\ used' = used /\ hw' = hw /\ op = Idle /\ r \in Regs
      /\ op' = [kind |-> "commit", reg |-> r, wm |-> WriteMask(r)]
  BY DEF CommitLoad, Committing, IInv, Domains
<1>2. /\ \A q \in used : /\ ctx'[q].omask = ctx[q].omask
                         /\ ctx'[q].mmask = ctx[q].mmask
                         /\ ctx'[q].mvalue = ctx[q].mvalue
      /\ \A q \in used \ {r} : ctx'[q].ovalue = ctx[q].ovalue
      /\ ctx'[r].ovalue = hw[r]
  BY <1>1 DEF CommitLoad, IInv, Domains, ContextReg
<1>3. \A q \in used : Config(q)' = Config(q)
  BY DEF Config
<1>4. KnownBits'
  BY <1>1, <1>2, <1>3 DEF IInv, KnownBits
<1>5. FlagsForgotten'
  BY <1>1, <1>2 DEF IInv, FlagsForgotten, Idle
<1>6. Owned'
  BY <1>1, <1>2 DEF IInv, Owned
<1>7. CommitInFlight'
  <2>1. WriteMask(r) \subseteq Writable[r] \cap ctx[r].mmask
    BY DEF WriteMask
  <2>2. \A b \in (Config(r) \cap ctx[r].mmask) \ WriteMask(r) :
          b \in ctx[r].mvalue <=> b \in hw[r]
    BY <1>1, NotWritten
  <2>3. op'.kind = "commit" /\ op'.reg = r /\ op'.wm = WriteMask(r)
    BY <1>1
  <2> QED BY <1>1, <1>2, <1>3, <2>1, <2>2, <2>3 DEF CommitInFlight
<1>8. DirectInFlight' /\ LoadedInFlight'
  BY <1>1 DEF DirectInFlight, LoadedInFlight
<1> QED BY <1>4, <1>5, <1>6, <1>7, <1>8

LEMMA WrittenInv ==
  ASSUME IInv, NEW r \in used, Written(r)
  PROVE  KnownBits' /\ FlagsForgotten' /\ Owned'
                    /\ CommitInFlight' /\ DirectInFlight' /\ LoadedInFlight'
<1>1. /\ used' = used /\ op' = Idle /\ ctx' = ctx /\ op.kind # "commit"
      /\ \A q \in used \ {r} : hw'[q] = hw[q]
  BY DEF Written, IInv, Domains
<1>2. \A q \in used : Config(q)' = Config(q)
  BY DEF Config
<1>3. op.mask \in DirectFields[r]
  BY InstructionType DEF Written
<1>4. op.mask \cap ctx[r].omask = {}
  BY <1>3 DEF IInv, Owned
<1>5. KnownBits'
  BY <1>1, <1>2, <1>4 DEF Written, IInv, KnownBits
<1>6. FlagsForgotten' /\ Owned'
  BY <1>1 DEF IInv, FlagsForgotten, Owned
<1> QED BY <1>1, <1>5, <1>6, NothingInFlight

LEMMA DirectLoadInv ==
  ASSUME IInv, DirectNamesFlags, NEW r \in used, DirectLoad(r)
  PROVE  KnownBits' /\ FlagsForgotten' /\ Owned'
                    /\ CommitInFlight' /\ DirectInFlight' /\ LoadedInFlight'
<1>1. /\ used' = used /\ ctx' = ctx /\ hw' = hw
      /\ op.kind = "issued" /\ op.reg = r
      /\ ~ (r \in Low /\ OneBit(op.mask)) /\ KeptMask(r) # {}
      /\ op' = [kind |-> "loaded", reg |-> r, mask |-> op.mask,
                value |-> op.value, seen |-> hw[r]]
  BY DEF DirectLoad, Issued
<1>2. /\ r \in Regs /\ op.mask \in DirectFields[r]
      /\ op.value \subseteq op.mask \cap Writable[r]
  BY <1>1, InstructionType
<1>3. Flags[r] \subseteq op.mask
  BY <1>1, <1>2 DEF DirectNamesFlags, KeptMask
<1>4. KnownBits' /\ FlagsForgotten' /\ Owned'
  BY <1>1 DEF IInv, KnownBits, FlagsForgotten, Owned, Config
<1>5. /\ op'.kind = "loaded" /\ op'.reg = r /\ op'.mask = op.mask
      /\ op'.value = op.value /\ op'.seen = hw[r]
  BY <1>1
<1>6. CommitInFlight' /\ DirectInFlight' /\ LoadedInFlight'
  BY <1>1, <1>2, <1>3, <1>5 DEF CommitInFlight, DirectInFlight, LoadedInFlight
<1> QED BY <1>4, <1>6

\* A hardware event changes no configuration bit.
LEMMA EventInv ==
  ASSUME IInv, NEW r \in used, NEW b \in Bits, Raise(r, b) \/ Finish(r, b)
  PROVE  KnownBits' /\ FlagsForgotten' /\ Owned'
                    /\ CommitInFlight' /\ DirectInFlight' /\ LoadedInFlight'
<1>1. used' = used /\ ctx' = ctx /\ op' = op
  BY DEF Raise, Finish
<1>2. \A q \in Regs : \A x \in Config(q) : x \in hw'[q] <=> x \in hw[q]
  BY DEF Raise, Finish, IInv, Domains, Masks, Config
<1>3. used \subseteq Regs /\ \A q \in used : Config(q)' = Config(q)
  BY DEF IInv, Domains, Config
<1>4. KnownBits' /\ FlagsForgotten' /\ Owned'
  BY <1>1, <1>2, <1>3 DEF IInv, KnownBits, FlagsForgotten, Owned
<1>5. CommitInFlight' /\ DirectInFlight'
  BY <1>1, <1>2, <1>3 DEF IInv, CommitInFlight, DirectInFlight, Config
<1>6. LoadedInFlight'
  <2>1. op.kind = "loaded" => op.reg \in used
    BY DEF IInv, DirectInFlight
  <2> QED BY <1>1, <1>2, <1>3, <2>1 DEF IInv, LoadedInFlight, Config
<1> QED BY <1>4, <1>5, <1>6

LEMMA StepInv ==
  ASSUME Disciplined, IInv, [Next]_vars
  PROVE  IInv'
<1>t. Domains'
  BY StepType DEF IInv
<1>d. FlagsHigh /\ Disjoint /\ DirectNamesFlags
  BY DEF Disciplined
<1> SUFFICES KnownBits' /\ FlagsForgotten' /\ Owned'
                    /\ CommitInFlight' /\ DirectInFlight' /\ LoadedInFlight'
  BY <1>t DEF IInv
<1>1. CASE Begin
  BY <1>1, BeginInv
<1>2. CASE BeginFromReset
  BY <1>2, BeginFromResetInv
<1>3. CASE NoCommit
  BY <1>3, NoCommitInv
<1>4. CASE Commit
  BY <1>4 DEF Commit, IInv, KnownBits, FlagsForgotten, Owned, CommitInFlight,
              DirectInFlight, LoadedInFlight, Config
<1>5. ASSUME NEW r \in used, NEW msk \in Fields[r], NEW v \in SUBSET msk,
             HwaWrite(r, msk, v)
      PROVE  KnownBits' /\ FlagsForgotten' /\ Owned'
                    /\ CommitInFlight' /\ DirectInFlight' /\ LoadedInFlight'
  BY <1>5, <1>d, HwaWriteInv
<1>6. ASSUME NEW r \in used, NEW msk \in DirectFields[r], NEW v \in SUBSET msk,
             HwWrite(r, msk, v)
      PROVE  KnownBits' /\ FlagsForgotten' /\ Owned'
                    /\ CommitInFlight' /\ DirectInFlight' /\ LoadedInFlight'
  BY <1>6, HwWriteInv
<1>7. ASSUME NEW r \in used, CommitStep(r)
      PROVE  KnownBits' /\ FlagsForgotten' /\ Owned'
                    /\ CommitInFlight' /\ DirectInFlight' /\ LoadedInFlight'
  <2>1. CASE CommitLoad(r)
    BY <2>1, CommitLoadInv
  <2>2. CASE CommitNone(r) \/ CommitBit(r) \/ CommitStore(r) \/ CommitModify(r)
    <3>1. Committed(r)
      BY <1>d, <2>2, CommitNoneEffect, CommitBitEffect, CommitStoreEffect,
         CommitModifyEffect
    <3>2. op = Idle \/ (op.kind = "commit" /\ op.reg = r)
      BY <2>2 DEF CommitNone, CommitBit, CommitStore, CommitModify, Committing
    <3> QED BY <3>1, <3>2, CommittedInv
  <2> QED BY <1>7, <2>1, <2>2 DEF CommitStep
<1>8. ASSUME NEW r \in used, DirectStep(r)
      PROVE  KnownBits' /\ FlagsForgotten' /\ Owned'
                    /\ CommitInFlight' /\ DirectInFlight' /\ LoadedInFlight'
  <2>1. CASE DirectLoad(r)
    BY <1>d, <2>1, DirectLoadInv
  <2>2. CASE DirectBit(r) \/ DirectStore(r) \/ DirectModify(r)
    BY <2>2, DirectBitEffect, DirectStoreEffect, DirectModifyEffect, WrittenInv
  <2> QED BY <1>8, <2>1, <2>2 DEF DirectStep
<1>9. ASSUME NEW r \in used, NEW b \in Bits, Raise(r, b) \/ Finish(r, b)
      PROVE  KnownBits' /\ FlagsForgotten' /\ Owned'
                    /\ CommitInFlight' /\ DirectInFlight' /\ LoadedInFlight'
  BY <1>9, EventInv
<1>10. CASE UNCHANGED vars
  BY <1>10 DEF vars, IInv, KnownBits, FlagsForgotten, Owned, CommitInFlight,
              DirectInFlight, LoadedInFlight, Config
<1> QED
  BY <1>1, <1>2, <1>3, <1>4, <1>5, <1>6, <1>7, <1>8, <1>9, <1>10 DEF Next

\* What the context claims to know of the hardware is true at every moment,
\* for a program that shares no bit between hw() and hwa(), reaches no flag
\* with sbi, and names the flags of a register that hw() has to read.
THEOREM KnownBitsCorrect ==
  ASSUME Disciplined
  PROVE  Spec => []KnownBits
<1>1. IInv /\ [Next]_vars => IInv'
  BY StepInv
<1>2. IInv => KnownBits
  BY DEF IInv
<1> QED BY <1>1, <1>2, InitInv, PTL DEF Spec

-----------------------------------------------------------------------------
(* The context implements HwaIntent: every step is a step of it, or        *)
(* changes nothing it can see.                                             *)

\* The three variables of HwaIntent, as the refinement mapping defines them.
HwMap   == [r \in Regs |-> hw[r] \ Strobes[r]]
WantMap == [r \in Regs |-> WantOf(r)]
SyncMap == [r \in Regs |-> SyncOf(r)]

NothingAsked == [mask |-> {}, value |-> {}]

\* No hw() instruction in progress.
LEMMA SyncIdle ==
  ASSUME op.kind \notin {"issued", "loaded"}
  PROVE  SyncMap = [r \in Regs |-> NothingAsked]
  BY DEF SyncMap, SyncOf, NothingAsked

LEMMA CommittedIsApply ==
  ASSUME IInv, Domains', NEW r \in used, Committed(r),
         op = Idle \/ (op.kind = "commit" /\ op.reg = r)
  PROVE  Intent!Apply(r)
<1>r. /\ r \in Regs /\ ctx[r] \in ContextReg
      /\ hw[r] \in SUBSET Bits /\ hw'[r] \in SUBSET Bits
      /\ Flags[r] \subseteq Writable[r] /\ Writable[r] \subseteq Bits
      /\ Strobes[r] \cap Flags[r] = {} /\ Strobes[r] \subseteq Writable[r]
      /\ ctx[r].mmask \subseteq Writable[r]
  BY RegisterAssumption DEF IInv, Domains, Masks, Owned
<1> DEFINE mask  == ctx[r].mmask \ Strobes[r]
           value == (ctx[r].mmask \cap ctx[r].mvalue) \ Strobes[r]
<1>1. WantMap[r].mask = mask /\ WantMap[r].value = value /\ HwMap[r] = hw[r] \ Strobes[r]
  BY <1>r DEF WantMap, WantOf, HwMap
<1>2. hw'[r] \ Strobes[r] = Intent!Applied(r, hw[r] \ Strobes[r], mask, value)
  <2> SUFFICES ASSUME NEW b \in Bits
               PROVE  b \in hw'[r] \ Strobes[r] <=>
                        b \in Intent!Applied(r, hw[r] \ Strobes[r], mask, value)
    BY <1>r DEF Intent!Applied
  <2>1. CASE b \in Strobes[r]
    BY <1>r, <2>1 DEF Intent!Applied
  <2>2. CASE b \in Flags[r]
    <3>1. b \in hw'[r] <=> b \in hw[r] /\ ~ (b \in ctx[r].mmask /\ b \in ctx[r].mvalue)
      BY <2>2 DEF Committed
    <3> QED BY <1>r, <2>2, <3>1 DEF Intent!Applied
  <2>3. CASE b \in Config(r)
    <3>1. b \in hw'[r] <=> IF b \in ctx[r].mmask THEN b \in ctx[r].mvalue
                                                 ELSE b \in hw[r]
      BY <2>3 DEF Committed
    <3> QED BY <1>r, <2>3, <3>1 DEF Intent!Applied, Config
  <2>4. CASE b \in Bits \ Writable[r]
    <3>1. b \in hw'[r] <=> b \in hw[r]
      BY <2>4 DEF Committed
    <3> QED BY <1>r, <2>4, <3>1 DEF Intent!Applied
  <2> QED BY <2>1, <2>2, <2>3, <2>4 DEF Config
<1>3. \A q \in Regs \ {r} : hw'[q] = hw[q] /\ ctx'[q] = ctx[q]
  BY DEF Committed
<1>4. HwMap' = [HwMap EXCEPT ![r] = Intent!Applied(r, HwMap[r], WantMap[r].mask,
                                                   WantMap[r].value)]
  <2> DEFINE new == Intent!Applied(r, hw[r] \ Strobes[r], mask, value)
  <2>1. HwMap' = [HwMap EXCEPT ![r] = new]
    <3> HIDE DEF new
    <3>1. hw'[r] \ Strobes[r] = new
      BY <1>2 DEF new
    <3> QED BY <1>r, <1>3, <3>1 DEF HwMap
  <2> QED BY <1>1, <2>1
<1>5. WantMap' = [WantMap EXCEPT ![r] = NothingAsked]
  <2>1. WantOf(r)' = NothingAsked
    BY DEF WantOf, Committed, NothingAsked
  <2>2. \A q \in Regs \ {r} : WantOf(q)' = WantOf(q)
    BY <1>3 DEF WantOf
  <2> QED BY <1>r, <2>1, <2>2 DEF WantMap
<1>6. SyncMap' = SyncMap
  <2>1. op.kind \notin {"issued", "loaded"} /\ op'.kind \notin {"issued", "loaded"}
    BY DEF Idle, Committed
  <2> QED BY <2>1 DEF SyncMap, SyncOf
<1> QED BY <1>4, <1>5, <1>6
        DEF Intent!Apply, Intent!Nothing, HwMap, WantMap, SyncMap, NothingAsked

LEMMA WrittenIsWrite ==
  ASSUME IInv, Domains', NEW r \in used, Written(r)
  PROVE  Intent!Write(r)
<1>r. /\ r \in Regs /\ hw[r] \in SUBSET Bits /\ hw'[r] \in SUBSET Bits
      /\ Flags[r] \subseteq Writable[r] /\ Writable[r] \subseteq Bits
      /\ Strobes[r] \cap Flags[r] = {} /\ Strobes[r] \subseteq Writable[r]
      /\ op.value \subseteq op.mask \cap Writable[r]
      /\ op.kind \in {"issued", "loaded"} /\ op.reg = r
  BY RegisterAssumption, InstructionType DEF Written, IInv, Domains, Masks
<1> DEFINE mask  == (op.mask \cap Writable[r]) \ Strobes[r]
           value == op.value \ Strobes[r]
<1>1. SyncMap[r].mask = mask /\ SyncMap[r].value = value /\ HwMap[r] = hw[r] \ Strobes[r]
  BY <1>r DEF SyncMap, SyncOf, HwMap
<1>2. hw'[r] \ Strobes[r] = Intent!Applied(r, hw[r] \ Strobes[r], mask, value)
  <2> SUFFICES ASSUME NEW b \in Bits
               PROVE  b \in hw'[r] \ Strobes[r] <=>
                        b \in Intent!Applied(r, hw[r] \ Strobes[r], mask, value)
    BY <1>r DEF Intent!Applied
  <2>1. CASE b \in Strobes[r]
    BY <1>r, <2>1 DEF Intent!Applied
  <2>2. CASE b \in Flags[r]
    <3>1. b \in hw'[r] <=> b \in hw[r] /\ b \notin op.value
      BY <2>2 DEF Written
    <3> QED BY <1>r, <2>2, <3>1 DEF Intent!Applied
  <2>3. CASE b \in Config(r)
    <3>1. b \in hw'[r] <=> IF b \in op.mask THEN b \in op.value ELSE b \in hw[r]
      BY <2>3 DEF Written
    <3> QED BY <1>r, <2>3, <3>1 DEF Intent!Applied, Config
  <2>4. CASE b \in Bits \ Writable[r]
    <3>1. b \in hw'[r] <=> b \in hw[r]
      BY <2>4 DEF Written
    <3> QED BY <1>r, <2>4, <3>1 DEF Intent!Applied
  <2> QED BY <2>1, <2>2, <2>3, <2>4 DEF Config
<1>3. HwMap' = [HwMap EXCEPT ![r] = Intent!Applied(r, HwMap[r], SyncMap[r].mask,
                                                   SyncMap[r].value)]
  <2> DEFINE new == Intent!Applied(r, hw[r] \ Strobes[r], mask, value)
  <2>1. \A q \in Regs \ {r} : hw'[q] = hw[q]
    BY DEF Written
  <2>2. HwMap' = [HwMap EXCEPT ![r] = new]
    <3> HIDE DEF new
    <3>1. hw'[r] \ Strobes[r] = new
      BY <1>2 DEF new
    <3> QED BY <1>r, <2>1, <3>1 DEF HwMap
  <2> QED BY <1>1, <2>2
<1>4. WantMap' = WantMap
  BY DEF Written, WantMap, WantOf
<1>5. SyncMap' = [SyncMap EXCEPT ![r] = NothingAsked]
  <2>1. \A q \in Regs : SyncOf(q)' = NothingAsked
    BY DEF Written, SyncOf, Idle, NothingAsked
  <2>2. \A q \in Regs \ {r} : SyncOf(q) = NothingAsked
    BY <1>r DEF SyncOf, NothingAsked
  <2> QED BY <1>r, <2>1, <2>2 DEF SyncMap
<1> QED BY <1>3, <1>4, <1>5
        DEF Intent!Write, Intent!Nothing, HwMap, WantMap, SyncMap, NothingAsked

LEMMA DropStep ==
  ASSUME IInv, Begin \/ BeginFromReset \/ NoCommit
  PROVE  Intent!Drop
<1>1. hw' = hw /\ op' = op
  BY DEF Begin, BeginFromReset, NoCommit
<1>2. \A r \in Regs : ctx'[r].mmask = {}
  <2>1. CASE Begin
    BY <2>1 DEF Begin, SetUp
  <2>2. CASE BeginFromReset
    <3>1. \A r \in Regs : SetTo(SetUp, Reset[r]) \in ContextReg
      BY RegisterAssumption DEF SetTo, SetUp, ContextReg, Masks
    <3>2. \A r \in Regs : Believed(SetTo(SetUp, Reset[r])).mmask = {}
      BY <3>1 DEF Believed, ContextReg
    <3> QED BY <2>2, <3>2 DEF BeginFromReset
  <2>3. CASE NoCommit
    BY <2>3 DEF NoCommit, Believed, IInv, Domains, ContextReg
  <2> QED BY <2>1, <2>2, <2>3
<1>3. WantMap' = [r \in Regs |-> NothingAsked]
  BY <1>2 DEF WantMap, WantOf, NothingAsked
<1>4. HwMap' = HwMap /\ SyncMap' = SyncMap
  BY <1>1 DEF HwMap, SyncMap, SyncOf
<1> QED BY <1>3, <1>4
        DEF Intent!Drop, Intent!Nothing, HwMap, WantMap, SyncMap, NothingAsked

LEMMA AskStep ==
  ASSUME IInv, NEW r \in used, NEW msk \in Fields[r], NEW v \in SUBSET msk,
         HwaWrite(r, msk, v)
  PROVE  Intent!Ask(r)
<1>r. r \in Regs /\ ctx[r] \in ContextReg /\ msk \in SUBSET Bits
  BY RegisterAssumption DEF IInv, Domains
<1> DEFINE m == msk \ Strobes[r]
           w == v \ Strobes[r]
<1>1. hw' = hw /\ op' = op
  BY DEF HwaWrite
<1>2. /\ ctx'[r].mmask = ctx[r].mmask \cup msk
      /\ ctx'[r].mvalue = (ctx[r].mvalue \ msk) \cup v
      /\ \A q \in Regs \ {r} : ctx'[q] = ctx[q]
  BY <1>r DEF HwaWrite, IInv, Domains, ContextReg
<1>3. m \in SUBSET Bits /\ w \in SUBSET m
  BY <1>r
<1>4. WantOf(r)' = [mask  |-> WantOf(r).mask \cup m,
                    value |-> (WantOf(r).value \ m) \cup w]
  <2>1. (ctx[r].mmask \cup msk) \ Strobes[r] = (ctx[r].mmask \ Strobes[r]) \cup m
    OBVIOUS
  <2>2. ((ctx[r].mmask \cup msk) \cap ((ctx[r].mvalue \ msk) \cup v)) \ Strobes[r]
          = (((ctx[r].mmask \cap ctx[r].mvalue) \ Strobes[r]) \ m) \cup w
    OBVIOUS
  <2> QED BY <1>2, <2>1, <2>2 DEF WantOf
<1>5. \A q \in Regs \ {r} : WantOf(q)' = WantOf(q)
  BY <1>2 DEF WantOf
<1>6. WantMap' = [WantMap EXCEPT ![r] = [mask  |-> WantMap[r].mask \cup m,
                                         value |-> (WantMap[r].value \ m) \cup w]]
  BY <1>r, <1>4, <1>5 DEF WantMap
<1>7. HwMap' = HwMap /\ SyncMap' = SyncMap
  BY <1>1 DEF HwMap, SyncMap, SyncOf
<1> HIDE DEF m, w
<1> QED BY <1>3, <1>6, <1>7 DEF Intent!Ask, HwMap, WantMap, SyncMap

LEMMA IssueStep ==
  ASSUME IInv, NEW r \in used, NEW mask \in DirectFields[r],
         NEW value \in SUBSET mask, HwWrite(r, mask, value)
  PROVE  Intent!Issue(r)
<1>r. r \in Regs /\ mask \in SUBSET Bits /\ value \subseteq Writable[r]
  BY RegisterAssumption DEF IInv, Domains, HwWrite
<1> DEFINE m == (mask \cap Writable[r]) \ Strobes[r]
           w == value \ Strobes[r]
<1>1. /\ hw' = hw /\ ctx' = ctx /\ op = Idle
      /\ op' = [kind |-> "issued", reg |-> r, mask |-> mask, value |-> value]
  BY DEF HwWrite
<1>2. m \in SUBSET Bits /\ w \in SUBSET m
  BY <1>r
<1>3. SyncMap = [q \in Regs |-> NothingAsked]
  BY <1>1, SyncIdle DEF Idle
<1>4. SyncMap' = [SyncMap EXCEPT ![r] = [mask |-> m, value |-> w]]
  <2>1. SyncOf(r)' = [mask |-> m, value |-> w]
    BY <1>1 DEF SyncOf
  <2>2. \A q \in Regs \ {r} : SyncOf(q)' = NothingAsked
    BY <1>1 DEF SyncOf, NothingAsked
  <2> QED BY <1>r, <1>3, <2>1, <2>2 DEF SyncMap
<1>5. HwMap' = HwMap /\ WantMap' = WantMap
  BY <1>1 DEF HwMap, WantMap, WantOf
<1>6. SyncMap[r] = NothingAsked
  BY <1>r, <1>3
<1> HIDE DEF m, w
<1> QED BY <1>2, <1>4, <1>5, <1>6
        DEF Intent!Issue, Intent!Nothing, HwMap, WantMap, SyncMap, NothingAsked

LEMMA RaiseStep ==
  ASSUME IInv, NEW r \in used, NEW b \in Bits, Raise(r, b)
  PROVE  Intent!Raise(r)
<1>1. /\ r \in Regs /\ b \in Flags[r] /\ b \notin Strobes[r]
      /\ hw' = [hw EXCEPT ![r] = hw[r] \cup {b}]
      /\ ctx' = ctx /\ op' = op
  BY RegisterAssumption DEF Raise, IInv, Domains
<1>2. HwMap' = [HwMap EXCEPT ![r] = @ \cup {b}]
  <2>1. hw'[r] \ Strobes[r] = (hw[r] \ Strobes[r]) \cup {b}
    BY <1>1 DEF IInv, Domains, Masks
  <2>2. \A q \in Regs \ {r} : hw'[q] = hw[q]
    BY <1>1 DEF IInv, Domains, Masks
  <2> QED BY <1>1, <2>1, <2>2 DEF HwMap
<1>3. WantMap' = WantMap /\ SyncMap' = SyncMap
  BY <1>1 DEF WantMap, WantOf, SyncMap, SyncOf
<1> QED BY <1>1, <1>2, <1>3 DEF Intent!Raise, HwMap, WantMap, SyncMap

\* A step of the program that HwaIntent does not see.
LEMMA Stutters ==
  ASSUME HwMap' = HwMap, WantMap' = WantMap, SyncMap' = SyncMap
  PROVE  UNCHANGED Intent!vars
  BY DEF Intent!vars, HwMap, WantMap, SyncMap

LEMMA FinishStep ==
  ASSUME IInv, NEW r \in used, NEW b \in Bits, Finish(r, b)
  PROVE  UNCHANGED Intent!vars
<1>1. /\ r \in Regs /\ b \in Strobes[r]
      /\ hw' = [hw EXCEPT ![r] = hw[r] \ {b}]
      /\ ctx' = ctx /\ op' = op
  BY DEF Finish, IInv, Domains
<1>2. \A q \in Regs : hw'[q] \ Strobes[q] = hw[q] \ Strobes[q]
  BY <1>1 DEF IInv, Domains, Masks
<1> QED BY <1>1, <1>2, Stutters DEF HwMap, WantMap, WantOf, SyncMap, SyncOf

LEMMA CommitLoadStep ==
  ASSUME IInv, NEW r \in used, CommitLoad(r)
  PROVE  UNCHANGED Intent!vars
<1>1. /\ hw' = hw /\ op.kind = "idle" /\ op'.kind = "commit"
      /\ \A q \in Regs : ctx'[q].mmask = ctx[q].mmask /\ ctx'[q].mvalue = ctx[q].mvalue
  BY DEF CommitLoad, Committing, Idle, IInv, Domains, ContextReg
<1> QED BY <1>1, Stutters DEF HwMap, WantMap, WantOf, SyncMap, SyncOf

LEMMA DirectLoadStep ==
  ASSUME IInv, NEW r \in used, DirectLoad(r)
  PROVE  UNCHANGED Intent!vars
<1>1. /\ hw' = hw /\ ctx' = ctx /\ op.kind = "issued" /\ op'.kind = "loaded"
      /\ op'.reg = op.reg /\ op'.mask = op.mask /\ op'.value = op.value
  BY DEF DirectLoad, Issued
<1>2. SyncMap' = SyncMap
  BY <1>1 DEF SyncMap, SyncOf
<1> QED BY <1>1, <1>2, Stutters DEF HwMap, WantMap, WantOf

LEMMA StepRefines ==
  ASSUME Disciplined, IInv, [Next]_vars
  PROVE  [Intent!Next]_Intent!vars
<1>t. Domains'
  BY StepType DEF IInv
<1>d. FlagsHigh /\ Disjoint /\ DirectNamesFlags
  BY DEF Disciplined
<1>u. used \subseteq Regs
  BY DEF IInv, Domains
<1>1. CASE Begin \/ BeginFromReset \/ NoCommit
  BY <1>1, DropStep DEF Intent!Next
<1>2. CASE Commit
  BY <1>2, Stutters DEF Commit, HwMap, WantMap, WantOf, SyncMap, SyncOf
<1>3. ASSUME NEW r \in used, NEW msk \in Fields[r], NEW v \in SUBSET msk,
             HwaWrite(r, msk, v)
      PROVE  Intent!Next
  BY <1>3, <1>u, AskStep DEF Intent!Next
<1>4. ASSUME NEW r \in used, NEW msk \in DirectFields[r], NEW v \in SUBSET msk,
             HwWrite(r, msk, v)
      PROVE  Intent!Next
  BY <1>4, <1>u, IssueStep DEF Intent!Next
<1>5. ASSUME NEW r \in used, CommitStep(r)
      PROVE  [Intent!Next]_Intent!vars
  <2>1. CASE CommitLoad(r)
    BY <2>1, CommitLoadStep
  <2>2. CASE CommitNone(r) \/ CommitBit(r) \/ CommitStore(r) \/ CommitModify(r)
    <3>1. Committed(r)
      BY <1>d, <2>2, CommitNoneEffect, CommitBitEffect, CommitStoreEffect,
         CommitModifyEffect
    <3>2. op = Idle \/ (op.kind = "commit" /\ op.reg = r)
      BY <2>2 DEF CommitNone, CommitBit, CommitStore, CommitModify, Committing
    <3>3. Intent!Apply(r)
      BY <1>t, <3>1, <3>2, CommittedIsApply
    <3> QED BY <1>u, <3>3 DEF Intent!Next
  <2> QED BY <1>5, <2>1, <2>2 DEF CommitStep
<1>6. ASSUME NEW r \in used, DirectStep(r)
      PROVE  [Intent!Next]_Intent!vars
  <2>1. CASE DirectLoad(r)
    BY <2>1, DirectLoadStep
  <2>2. CASE DirectBit(r) \/ DirectStore(r) \/ DirectModify(r)
    <3>1. Intent!Write(r)
      BY <1>t, <2>2, DirectBitEffect, DirectStoreEffect, DirectModifyEffect,
         WrittenIsWrite
    <3> QED BY <1>u, <3>1 DEF Intent!Next
  <2> QED BY <1>6, <2>1, <2>2 DEF DirectStep
<1>7. ASSUME NEW r \in used, NEW b \in Bits, Raise(r, b) \/ Finish(r, b)
      PROVE  [Intent!Next]_Intent!vars
  BY <1>7, <1>u, RaiseStep, FinishStep DEF Intent!Next
<1>8. CASE UNCHANGED vars
  BY <1>8, Stutters DEF vars, HwMap, WantMap, WantOf, SyncMap, SyncOf
<1> QED BY <1>1, <1>2, <1>3, <1>4, <1>5, <1>6, <1>7, <1>8 DEF Next

LEMMA InitRefines == Init => Intent!Init
<1> SUFFICES ASSUME Init PROVE Intent!Init
  OBVIOUS
<1>1. HwMap \in [Regs -> SUBSET Bits]
  BY InitType DEF HwMap, Domains, Masks
<1>2. WantMap = [r \in Regs |-> NothingAsked]
  BY DEF Init, WantMap, WantOf, SetUp, NothingAsked
<1>3. SyncMap = [r \in Regs |-> NothingAsked]
  BY SyncIdle DEF Init, Idle
<1> QED BY <1>1, <1>2, <1>3
        DEF Intent!Init, Intent!Nothing, HwMap, WantMap, SyncMap, NothingAsked

\* Masks, caches, single-bit instructions and read-modify-write sequences
\* together do what the user documentation says of hw() and hwa(), for a
\* program that keeps to the discipline.
THEOREM Refinement ==
  ASSUME Disciplined
  PROVE  Spec => ImplementsIntent
<1>1. IInv /\ [Next]_vars => IInv'
  BY StepInv
<1>2. IInv /\ [Next]_vars => [Intent!Next]_Intent!vars
  BY StepRefines
<1> QED BY <1>1, <1>2, InitInv, InitRefines, PTL
        DEF Spec, ImplementsIntent, Intent!Spec
=============================================================================
