----------------------------- MODULE MCDiabolo -----------------------------
EXTENDS DiaboloHost

CONSTANTS x, y, blank   \* contents of a page

MCPages == 1..2
MCData  == {x, y, blank}
MCOld   == <<blank, x>>
MCNew   == <<y, blank>>

MCTrouble == [w \in BOOLEAN |-> IF w THEN 3 ELSE 2]
=============================================================================
