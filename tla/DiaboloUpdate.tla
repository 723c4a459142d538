---------------------------- MODULE DiaboloUpdate ----------------------------
(***************************************************************************)
(* What the Diabolo bootloader and its host promise about an update of the *)
(* application: what runs is whole, unless the application itself has made *)
(* resets skip the checks; pages are given their new content, while no     *)
(* application runs, or are left without content by a failure.             *)
(***************************************************************************)
CONSTANTS Pages, Blank, Torn, None, OldApp, NewApp

VARIABLES
  memory,    \* the pages of the application
  running,   \* what runs: the whole memory, or None
  cleared    \* the next reset checks nothing, unless it is external or a power-on

vars == <<memory, running, cleared>>

\* One page is erased, is programmed, or fails.
Altered == \E p \in Pages : \E x \in {Blank, Torn, NewApp[p]} :
             memory' = [memory EXCEPT ![p] = x]

Init == /\ memory \in {OldApp, NewApp, [p \in Pages |-> Blank]}
        /\ running \in {None, memory}
        /\ cleared \in BOOLEAN /\ (cleared => running # None)

Program == /\ running = None /\ running' = None
           /\ UNCHANGED memory \/ Altered
           /\ cleared' \in {cleared, FALSE}

Start == /\ running = None /\ running' = memory
         /\ memory \in {OldApp, NewApp} \/ cleared
         /\ UNCHANGED <<memory, cleared>>

Clear == /\ running # None
         /\ cleared' = TRUE
         /\ UNCHANGED <<memory, running>>

Stop == /\ running # None /\ running' = None
        /\ cleared' \in {cleared, FALSE}
        /\ UNCHANGED memory

Next == Program \/ Start \/ Clear \/ Stop

Spec == Init /\ [][Next]_vars
=============================================================================
