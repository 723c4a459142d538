--------------------------- MODULE MCHwaContext ---------------------------
(***************************************************************************)
(* Instances of HwaContext for TLC.  Each register stands for a kind of    *)
(* register of the devices (src/atmel/avr/devices/attinyx4.h, atmegax8.h): *)
(*   "csr"  high, configuration bits and a flag     (wdog0 csr, 0x41)      *)
(*   "port" low, one configuration bit and two read-only bits              *)
(*   "ddr"  low, configuration bits that hw() and hwa() share              *)
(*   "imr"  high, configuration bits that hw() and hwa() share             *)
(*   "sr"   high, two flags and a configuration bit (usi0 sr, 0x2E)        *)
(*   "ifr"  low, flags only            (atmegax8.h: counter0 ifr, 0x35)    *)
(*   "sra"  low, a strobe and configuration         (adc0 sra, 0x26)       *)
(***************************************************************************)
EXTENDS HwaContext

CONSTANTS a, b, f      \* bits

AllBits == {a, b, f}

\* One program writes its registers through the context only, the others
\* mix hw() and hwa().
CleanRegs      == {"csr", "port", "ddr", "imr", "sr", "sra"}
CleanPrograms  == {{"csr", "port"}, {"ddr"}, {"imr"}, {"sr"}, {"sra"}}

MCWritable == [r \in Regs |-> IF r = "port" THEN {a} ELSE AllBits]
MCFlags    == [r \in Regs |-> CASE r = "csr" -> {f}
                                [] r = "sr"  -> {a, f}
                                [] r = "ifr" -> AllBits
                                [] OTHER -> {}]
MCStrobes  == [r \in Regs |-> IF r = "sra" THEN {a} ELSE {}]
MCLow      == {"port", "ddr", "ifr", "sra"} \cap Regs
MCReset    == [r \in Regs |-> IF r = "csr" THEN {b} ELSE {}]

MCFields   == [r \in Regs |-> CASE r = "sr"  -> {{a}}
                                [] r = "ddr" -> {{a}, {b}}
                                [] r = "imr" -> {{a}}
                                [] r = "csr" -> {{a, b}, {f}}
                                [] OTHER     -> {{a}, {a, b}, {f}}]
MCDirect   == [r \in Regs |-> CASE r = "sr" -> {{b, f}}
                                [] r \in {"ddr", "imr"} -> {{f}}
                                [] OTHER -> {}]
NoDirect   == [r \in Regs |-> {}]
OnlyProgram == {Regs}
=============================================================================
