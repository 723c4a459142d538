------------------------------ MODULE MCSwuart ------------------------------
(* Builds of the software UART for TLC.                                    *)
EXTENDS SwuartBus

Build(o, c, p) == [onewire |-> o, checktx |-> c, polite |-> p]

\* Every build with a polite peer, two of them with any other.
AllBuilds == {Build(o, c, TRUE) : o \in BOOLEAN, c \in BOOLEAN}
               \cup {Build(TRUE, TRUE, FALSE), Build(FALSE, FALSE, FALSE)}
OneWire   == {Build(TRUE, FALSE, FALSE)}
CheckTx   == {Build(TRUE, TRUE, FALSE)}
=============================================================================
