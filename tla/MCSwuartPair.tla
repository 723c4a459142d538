---------------------------- MODULE MCSwuartPair ----------------------------
(* Devices for SwuartPair: ATtinyX4 with two UARTs on counter1 (gimsk is at *)
(* 0x5B, timsk1 at 0x2C), ATmegaX8 (0x68, 0x6F) and ATtinyX4 with one UART, *)
(* whose handlers interrupt one another at will.                            *)
EXTENDS SwuartPair

ATtinyX4Pair == [uarts |-> Uarts, startHigh |-> TRUE, matchHigh |-> FALSE,
                 apart |-> TRUE]
ATmegaX8One(u) == [uarts |-> {u}, startHigh |-> TRUE, matchHigh |-> TRUE,
                   apart |-> FALSE]
ATtinyX4One(u) == [uarts |-> {u}, startHigh |-> TRUE, matchHigh |-> FALSE,
                   apart |-> FALSE]

SafeDevices == {ATtinyX4Pair} \cup {ATmegaX8One(u) : u \in Uarts}
                 \cup {ATtinyX4One(u) : u \in Uarts}
Dual        == {ATtinyX4Pair}
=============================================================================
