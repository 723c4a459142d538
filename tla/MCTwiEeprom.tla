---- MODULE MCTwiEeprom ----
(* A memory of 16 bytes in pages of 4; a text of 6 bytes that begins at    *)
(* the end of a page, fills one and ends in a third one.                   *)
EXTENDS TwiEeprom

MCText   == <<21, 22, 23, 24, 25, 26>>
MCBefore == [a \in 0..15 |-> a]
====
