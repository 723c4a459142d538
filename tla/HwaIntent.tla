----------------------------- MODULE HwaIntent -----------------------------
(***************************************************************************)
(* What the user documentation promises of hw() and hwa() instructions     *)
(* (doxygen/using.md 53-72), with no cache and no masks.  A register is a  *)
(* set of bits.  An hwa() instruction adds to what is wanted of a          *)
(* register, committing the register applies exactly what is wanted of it, *)
(* in one step; an hw() instruction applies its own value.  Registers hold *)
(* configuration bits, which keep the value written, and flag bits, which  *)
(* hardware raises and which are cleared by writing 1.                     *)
(***************************************************************************)
CONSTANTS Regs,       \* hardware registers the context shadows
          Bits,       \* bit positions of a register
          Flags       \* [Regs -> SUBSET Bits]: write-1-to-clear bits (rfm)

VARIABLES hw,         \* [Regs -> SUBSET Bits]: the bits that are 1
          want,       \* [Regs -> [mask, value]]: hwa() asked since last commit
          sync        \* [Regs -> [mask, value]]: the hw() write in progress

vars == <<hw, want, sync>>

Nothing == [mask |-> {}, value |-> {}]

\* The register after `value` was written through `mask` and nothing else was
\* touched: configuration bits take the value, flags written with 1 go to 0.
Applied(r, old, mask, value) ==
  ((old \ (mask \ Flags[r])) \cup ((mask \ Flags[r]) \cap value))
    \ (mask \cap value \cap Flags[r])

Init == /\ hw \in [Regs -> SUBSET Bits]
        /\ want = [r \in Regs |-> Nothing]
        /\ sync = [r \in Regs |-> Nothing]

\* hwa( ... )
Ask(r) ==
  /\ \E m \in SUBSET Bits : \E v \in SUBSET m :
       want' = [want EXCEPT ![r] = [mask  |-> want[r].mask \cup m,
                                    value |-> (want[r].value \ m) \cup v]]
  /\ UNCHANGED <<hw, sync>>

\* One register of hwa_commit().
Apply(r) ==
  /\ hw' = [hw EXCEPT ![r] = Applied(r, hw[r], want[r].mask, want[r].value)]
  /\ want' = [want EXCEPT ![r] = Nothing]
  /\ UNCHANGED sync

\* hwa_nocommit(), or a context that goes out of scope.
Drop == /\ want' = [r \in Regs |-> Nothing]
        /\ UNCHANGED <<hw, sync>>

\* hw( ... ): the instruction starts, then takes effect.
Issue(r) ==
  /\ sync[r] = Nothing
  /\ \E m \in SUBSET Bits : \E v \in SUBSET m :
       sync' = [sync EXCEPT ![r] = [mask |-> m, value |-> v]]
  /\ UNCHANGED <<hw, want>>

Write(r) ==
  /\ hw' = [hw EXCEPT ![r] = Applied(r, hw[r], sync[r].mask, sync[r].value)]
  /\ sync' = [sync EXCEPT ![r] = Nothing]
  /\ UNCHANGED want

\* A hardware event.
Raise(r) ==
  /\ \E b \in Flags[r] : hw' = [hw EXCEPT ![r] = @ \cup {b}]
  /\ UNCHANGED <<want, sync>>

Next == \/ Drop
        \/ \E r \in Regs : \/ Ask(r) \/ Apply(r)
                           \/ Issue(r) \/ Write(r)
                           \/ Raise(r)

Spec == Init /\ [][Next]_vars
=============================================================================
