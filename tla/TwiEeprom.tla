------------------------------ MODULE TwiEeprom ------------------------------
(***************************************************************************)
(* The driver of a 24Cxx EEPROM of examples/11-1-uart-twi-eeprom: main     *)
(* shows the memory, writes a text, shows the memory again.  It reads with *)
(* ee24xx_read_bytes and writes with ee24xx_write_bytes, one page at a     *)
(* time, because the EEPROM rolls over inside a page.                      *)
(*                                                                         *)
(* A routine gives the two-wire interface a command and waits for the      *)
(* interrupt flag, then looks at the status.  An action of the driver goes *)
(* from a status to the next command, with what the routines do when they  *)
(* return and are called again in between.  An action of the bus executes  *)
(* the command.  Other masters may take the bus (they only read this       *)
(* EEPROM), the bus may meet an error, the EEPROM may refuse a byte: at    *)
(* most MaxTrouble times; it may also be missing.                          *)
(***************************************************************************)
EXTENDS Integers, Sequences

CONSTANTS
  PageSize,    \* PAGE_SIZE, also the size of the pages of the EEPROM
  Radix,       \* the values of a byte of an address
  MaxIter,     \* MAX_ITER
  MemoryEnd,   \* 256: main shows the bytes below
  Chunk,       \* 16: at least so many in a row
  TextAt, Text, \* what main writes, and where
  Before,      \* what the EEPROM contains at first
  MaxBusy,     \* the EEPROM refuses at most so many selections after a write
  MaxTrouble

Word == Radix * Radix   \* eeaddr is a uint16_t

ASSUMPTION TwiAssumption ==
  /\ {PageSize, Radix, MaxIter, MemoryEnd, Chunk} \subseteq Nat \ {0}
  /\ {TextAt, MaxBusy, MaxTrouble} \subseteq Nat
  /\ Text \in Seq(Nat) /\ Text # << >> /\ Before \in [0..Word-1 -> Nat]
  /\ MemoryEnd + Chunk < Word /\ TextAt + Len(Text) <= MemoryEnd
  /\ MaxBusy < MaxIter

VARIABLES
  phase, shown, total,        \* main and ee24xx_write_bytes
  at, eeaddr, len, n, rv, got, \* the routine in progress, where it waits
  cr, dr, twst,               \* the interface: command, data, status
  mode,                       \* the bus, as this master left it
  present, ptr, given, latch, busy, mem, \* the EEPROM
  trouble

main   == <<phase, shown, total>>
call   == <<eeaddr, len, n, rv, got>>
twi    == <<at, cr, dr, twst>>
eeprom == <<present, ptr, given, latch, busy, mem>>
vars   == <<main, call, twi, mode, eeprom, trouble>>

----------------------------------------------------------------------------
(* The commands of class _twia: the value each writes in the control       *)
(* register.                                                               *)
TxStart == "ifenstart"
TxByte  == "ifen"        \* tx_slaw, tx_slar, tx_data, and tx_read with nack
TxRead  == "ifenack"

SlaW == 160              \* TWI_SLA_24CXX with the write bit
SlaR == 161

NoBytes == [a \in {} |-> 0]   \* the EEPROM has received nothing to write

(* The last address of the page of an address: eeaddr | (PAGE_SIZE-1). *)
PageFirst(a) == a - (a % PageSize)
PageLast(a)  == PageFirst(a) + PageSize - 1

(* Mutant: a page is taken to be as long as what is to be written. *)
PageLengthWhole(a, l) == l

(* How much of `l' bytes ee24xx_write_page takes: to the end of the page.  *)
PageLength(a, l) ==
  LET endaddr == IF (a + l) % Word <= PageLast(a) THEN (a + l) % Word
                                                  ELSE (PageLast(a) + 1) % Word
  IN  (endaddr - a) % Word

----------------------------------------------------------------------------
(* The driver. *)

Init ==
  /\ phase = "dump" /\ shown = << >> /\ total = 0
  /\ eeaddr = 0 /\ len = Chunk /\ n = 1 /\ rv = 0 /\ got = << >>
  /\ at = "start" /\ cr = TxStart /\ dr = 0 /\ twst = "busy"
  /\ mode = "free"
  /\ present \in BOOLEAN /\ ptr \in 0..Word-1 /\ given = 0 /\ latch = NoBytes
  /\ busy \in 0..MaxBusy /\ mem = Before
  /\ trouble = 0

Command(c, next) == cr' = c /\ at' = next /\ twst' = "busy"

(* The entry of a routine, with n++ and the START it begins with. *)
Enter(a, l) ==
  /\ eeaddr' = a /\ len' = l /\ n' = 1 /\ rv' = 0 /\ got' = << >>
  /\ Command(TxStart, "start")

ReadFrom(a)   == Enter(a, Chunk)
WriteAfter(t) == Enter(TextAt + t, PageLength(TextAt + t, Len(Text) - t))

End(how) ==
  /\ phase' = how /\ at' = "idle" /\ twst' = "none"
  /\ UNCHANGED <<shown, total, call, cr>>

(* ee24xx_read_bytes returns to main with `b', the bytes it has read: no   *)
(* byte at all is an error too.                                            *)
ReadReturns(r, b) ==
  /\ phase \in {"dump", "check"}
  /\ \/ r <= 0 /\ End("failed")
     \/ /\ r > 0 /\ shown' = shown \o b
        /\ \/ /\ Len(shown \o b) < MemoryEnd
              /\ ReadFrom(Len(shown \o b)) /\ UNCHANGED <<phase, total>>
           \/ /\ Len(shown \o b) >= MemoryEnd /\ phase = "dump"
              /\ phase' = "write" /\ total' = 0 /\ WriteAfter(0)
           \/ /\ Len(shown \o b) >= MemoryEnd /\ phase = "check"
              /\ phase' = "done" /\ at' = "idle" /\ twst' = "none"
              /\ UNCHANGED <<total, call, cr>>

(* ee24xx_write_page returns how much it has written to ee24xx_write_bytes, *)
(* which calls it again until nothing is left; then main reads the memory  *)
(* from its start.                                                         *)
PageReturns(r) ==
  /\ phase = "write"
  /\ total' = total + r
  /\ \/ /\ total + r < Len(Text)
        /\ WriteAfter(total + r) /\ UNCHANGED <<phase, shown>>
     \/ /\ total + r >= Len(Text)
        /\ phase' = "check" /\ shown' = << >> /\ ReadFrom(0)

Return(r, b) == (ReadReturns(r, b) \/ PageReturns(r))
                /\ UNCHANGED <<dr, present, ptr, given, trouble>>

(* A STOP is executed at once, and the EEPROM begins to write its page. *)
Stored == [a \in 0..Word-1 |-> IF a \in DOMAIN latch THEN latch[a] ELSE mem[a]]

Stop == /\ mode' = "free" /\ mem' = Stored /\ latch' = NoBytes
        /\ busy' \in IF DOMAIN latch = {} THEN {busy} ELSE 0..MaxBusy

(* A routine returns -1, which its callers pass on to main. *)
Fails   == End("failed") /\ UNCHANGED <<dr, present, ptr, given, trouble>>

Quit    == Stop /\ Return(rv, got)
NoStop  == Fails /\ UNCHANGED <<mode, mem, latch, busy>>

(* Mutant: an error returns without STOP. *)
FailureHeld == Fails /\ UNCHANGED <<mode, mem, latch, busy>>

Failure == Stop /\ Fails

Proceed(c, next) == /\ Command(c, next)
                    /\ UNCHANGED <<main, call, mode, eeprom, trouble>>

Begin == Proceed(TxStart, "start") /\ UNCHANGED dr

Tries(again, next) ==
  \/ ~again /\ NoStop
  \/ /\ again /\ n' = next
     /\ Command(TxStart, "start")
     /\ UNCHANGED <<main, eeaddr, len, rv, got, dr, mode, eeprom, trouble>>

(* Mutants: the test of MAX_ITER dropped, or made after one more n++; n    *)
(* not incremented.                                                        *)
RestartForever   == Tries(TRUE, n + 1)
RestartEarly     == Tries(n + 1 < MaxIter, n + 1)
RestartUncounted == Tries(n < MaxIter, n)

Restart == Tries(n < MaxIter, n + 1)

(* The cases of a switch on the status, and its default. *)
Status(where, s)  == at = where /\ twst \in s
Default(where, s) == at = where /\ twst \notin s \cup {"busy"}

Started ==
  \/ Status("start", {"START", "REP_START"}) /\ Proceed(TxByte, "slaw") /\ dr' = SlaW
  \/ Status("start", {"ARB_LOST"}) /\ Begin
  \/ Default("start", {"START", "REP_START", "ARB_LOST"}) /\ NoStop

Selected ==
  \/ Status("slaw", {"MT_SLA_ACK"}) /\ Proceed(TxByte, "high") /\ dr' = eeaddr \div Radix
  \/ Status("slaw", {"MT_SLA_NACK"}) /\ Restart
  \/ Status("slaw", {"ARB_LOST"}) /\ Begin
  \/ Default("slaw", {"MT_SLA_ACK", "MT_SLA_NACK", "ARB_LOST"}) /\ Failure

(* Mutant: the high byte of the address is sent again in place of the low one. *)
HighSentTwice ==
  \/ Status("high", {"MT_DATA_ACK"}) /\ Proceed(TxByte, "low") /\ dr' = eeaddr \div Radix
  \/ Status("high", {"MT_DATA_NACK"}) /\ Quit
  \/ Status("high", {"ARB_LOST"}) /\ Begin
  \/ Default("high", {"MT_DATA_ACK", "MT_DATA_NACK", "ARB_LOST"}) /\ Failure

HighSent ==
  \/ Status("high", {"MT_DATA_ACK"}) /\ Proceed(TxByte, "low") /\ dr' = eeaddr % Radix
  \/ Status("high", {"MT_DATA_NACK"}) /\ Quit
  \/ Status("high", {"ARB_LOST"}) /\ Begin
  \/ Default("high", {"MT_DATA_ACK", "MT_DATA_NACK", "ARB_LOST"}) /\ Failure

(* ee24xx_read_bytes selects the EEPROM again, to read.  A page has at     *)
(* least one byte to write: the loop begins.                               *)
LowSent ==
  \/ /\ Status("low", {"MT_DATA_ACK"}) /\ phase # "write"
     /\ Proceed(TxStart, "again") /\ UNCHANGED dr
  \/ /\ Status("low", {"MT_DATA_ACK"}) /\ phase = "write"
     /\ Proceed(TxByte, "data") /\ dr' = Text[total + 1]
  \/ Status("low", {"MT_DATA_NACK"}) /\ Quit
  \/ Status("low", {"ARB_LOST"}) /\ Begin
  \/ Default("low", {"MT_DATA_ACK", "MT_DATA_NACK", "ARB_LOST"}) /\ Failure

ByteSent ==
  /\ phase = "write"
  /\ \/ /\ Status("data", {"MT_DATA_ACK"}) /\ rv + 1 < len
        /\ rv' = rv + 1 /\ Command(TxByte, "data") /\ dr' = Text[total + rv + 2]
        /\ UNCHANGED <<main, eeaddr, len, n, got, mode, eeprom, trouble>>
     \/ Status("data", {"MT_DATA_ACK"}) /\ rv + 1 >= len /\ Stop /\ Return(rv + 1, << >>)
     \/ Default("data", {"MT_DATA_ACK"}) /\ Failure

Again ==
  \/ Status("again", {"START", "REP_START"}) /\ Proceed(TxByte, "slar") /\ dr' = SlaR
  \/ Status("again", {"ARB_LOST"}) /\ Begin
  \/ Default("again", {"START", "REP_START", "ARB_LOST"}) /\ Failure

(* The last byte asked for is not acknowledged. *)
Ask(i) == IF i = len - 1 THEN TxByte ELSE TxRead

Reselected ==
  \/ Status("slar", {"MR_SLA_ACK"}) /\ Proceed(Ask(0), "data") /\ UNCHANGED dr
  \/ Status("slar", {"MR_SLA_NACK"}) /\ Quit
  \/ Status("slar", {"ARB_LOST"}) /\ Begin
  \/ Default("slar", {"MR_SLA_ACK", "MR_SLA_NACK", "ARB_LOST"}) /\ Failure

ByteReceived ==
  /\ phase # "write"
  /\ \/ /\ Status("data", {"MR_DATA_ACK"})
        /\ rv' = rv + 1 /\ got' = Append(got, dr) /\ Command(Ask(rv + 1), "data")
        /\ UNCHANGED <<main, eeaddr, len, n, dr, mode, eeprom, trouble>>
     \/ /\ Status("data", {"MR_DATA_NACK"})
        /\ Stop /\ Return(rv + 1, Append(got, dr))
     \/ Default("data", {"MR_DATA_ACK", "MR_DATA_NACK"}) /\ Failure

Driver == \/ Started \/ Selected \/ HighSent \/ LowSent \/ ByteSent
          \/ Again \/ Reselected \/ ByteReceived

----------------------------------------------------------------------------
(* The interface, the bus and the EEPROM, by their datasheets. *)

Answer(s) == /\ twst = "busy" /\ twst' = s
             /\ UNCHANGED <<main, call, at, cr, present>>

(* A START that follows a selection forgets the page that was being sent. *)
SendStart ==
  /\ cr = TxStart
  /\ Answer(IF mode = "free" THEN "START" ELSE "REP_START")
  /\ mode' = "started" /\ latch' = NoBytes /\ given' = 0
  /\ UNCHANGED <<dr, ptr, busy, mem, trouble>>

Ready == present /\ busy = 0

SendSelection ==
  /\ cr = TxByte /\ mode = "started"
  /\ \/ Ready /\ dr = SlaW /\ mode' = "write" /\ Answer("MT_SLA_ACK")
     \/ Ready /\ dr = SlaR /\ mode' = "read" /\ Answer("MR_SLA_ACK")
     \/ ~Ready /\ mode' = "refused"
        /\ Answer(IF dr = SlaW THEN "MT_SLA_NACK" ELSE "MR_SLA_NACK")
  /\ busy' = IF busy > 0 THEN busy - 1 ELSE 0
  /\ UNCHANGED <<dr, ptr, given, latch, mem, trouble>>

(* Two bytes of address, then bytes that roll over inside a page. *)
SendData ==
  /\ cr = TxByte /\ mode = "write"
  /\ Answer("MT_DATA_ACK")
  /\ \/ given = 0 /\ given' = 1 /\ ptr' = dr % Radix /\ UNCHANGED latch
     \/ given = 1 /\ given' = 2 /\ ptr' = ptr * Radix + (dr % Radix) /\ UNCHANGED latch
     \/ /\ given = 2 /\ given' = 2
        /\ latch' = [a \in DOMAIN latch \cup {ptr} |-> IF a = ptr THEN dr ELSE latch[a]]
        /\ ptr' = IF ptr = PageLast(ptr) THEN PageFirst(ptr) ELSE ptr + 1
  /\ UNCHANGED <<dr, mode, busy, mem, trouble>>

ReceiveByte ==
  /\ cr \in {TxByte, TxRead} /\ mode = "read"
  /\ Answer(IF cr = TxRead THEN "MR_DATA_ACK" ELSE "MR_DATA_NACK")
  /\ dr' = mem[ptr] /\ ptr' = (ptr + 1) % Word
  /\ UNCHANGED <<mode, given, latch, busy, mem, trouble>>

Meets(s) == trouble < MaxTrouble /\ trouble' = trouble + 1 /\ Answer(s)

(* Another master takes the bus, with a START (repeated or not), the       *)
(* selection, an address or the bit that ends a read; it reads the EEPROM  *)
(* somewhere.                                                              *)
LoseArbitration ==
  /\ Meets("ARB_LOST")
  /\ cr # TxRead /\ ~(mode = "write" /\ given = 2 /\ cr = TxByte)
  /\ mode' = "free" /\ latch' = NoBytes /\ given' = 0 /\ ptr' \in 0..Word-1
  /\ UNCHANGED <<dr, busy, mem>>

(* A START or a STOP where there should be none: the EEPROM writes what it *)
(* has received, or forgets it.                                            *)
MeetError ==
  /\ Meets("BUS_ERROR")
  /\ mode' = "free" /\ latch' = NoBytes
  /\ \/ UNCHANGED <<mem, busy>>
     \/ DOMAIN latch # {} /\ mem' = Stored /\ busy' \in 0..MaxBusy
  /\ UNCHANGED <<dr, ptr, given>>

(* The EEPROM does not see its address, or refuses a byte (it may be       *)
(* protected), and forgets what it has received or not.                    *)
Refuse ==
  /\ cr = TxByte /\ mode' = "refused"
  /\ \/ mode = "started" /\ Meets(IF dr = SlaW THEN "MT_SLA_NACK" ELSE "MR_SLA_NACK")
     \/ mode = "write" /\ Meets("MT_DATA_NACK")
  /\ latch' \in {latch, NoBytes}
  /\ UNCHANGED <<dr, ptr, given, busy, mem>>

Bus == \/ SendStart \/ SendSelection \/ SendData \/ ReceiveByte
       \/ LoseArbitration \/ MeetError \/ Refuse

Next == Driver \/ Bus

Spec == Init /\ [][Next]_vars

(* The loops on the interrupt flag end when the interface has done its     *)
(* command, which the hardware always does.                                *)
FairSpec == Spec /\ WF_vars(Next)

----------------------------------------------------------------------------
TypeOK ==
  /\ phase \in {"dump", "write", "check", "done", "failed"}
  /\ shown \in Seq(Nat) /\ total \in 0..Len(Text)
  /\ at \in {"start", "slaw", "high", "low", "again", "slar", "data", "idle"}
  /\ eeaddr \in 0..Word-1 /\ len \in 0..Word-1 /\ n \in 1..MaxIter
  /\ rv \in 0..Word-1 /\ got \in Seq(Nat)
  /\ cr \in {TxStart, TxByte, TxRead} /\ dr \in Nat
  /\ twst \in {"busy", "none", "START", "REP_START", "MT_SLA_ACK", "MT_SLA_NACK",
               "MT_DATA_ACK", "MT_DATA_NACK", "MR_SLA_ACK", "MR_SLA_NACK",
               "MR_DATA_ACK", "MR_DATA_NACK", "ARB_LOST", "BUS_ERROR"}
  /\ mode \in {"free", "started", "write", "read", "refused"}
  /\ present \in BOOLEAN /\ ptr \in 0..Word-1 /\ given \in 0..2
  /\ latch \in [DOMAIN latch -> Nat] /\ DOMAIN latch \subseteq 0..Word-1
  /\ busy \in 0..MaxBusy /\ mem \in [0..Word-1 -> Nat] /\ trouble \in 0..MaxTrouble

(* The memory once `k' bytes of the text are written. *)
After(k) == [a \in 0..Word-1 |-> IF a \in TextAt..TextAt+k-1 THEN Text[a - TextAt + 1]
                                                            ELSE Before[a]]

(* Whatever the arbitrations lost, the errors of the bus and the bytes     *)
(* refused: no byte outside the text is ever changed, a byte of the text   *)
(* is the old one or the new one, and what ee24xx_write_bytes counts is    *)
(* written.  A page that rolls over breaks all three.                      *)
WritesOnlyText ==
  \A a \in 0..Word-1 :
    /\ mem[a] \in {Before[a], After(Len(Text))[a]}
    /\ (a \in TextAt..TextAt+total-1) => (mem[a] = After(Len(Text))[a])

(* The dumps of main show the memory as it is, and main ends with a dump   *)
(* of the text it wrote.                                                   *)
ShowsMemory ==
  /\ phase \in {"dump", "check", "done"} =>
       \A i \in 1..Len(shown) : shown[i] = mem[i - 1]
  /\ phase = "done" => (mem = After(Len(Text)) /\ Len(shown) >= MemoryEnd)

(* The bus is released between two calls, and at the end, except when the  *)
(* routine gives up after MAX_ITER selections (main.c:160 returns without  *)
(* STOP).                                                                  *)
ReleasesBus ==
  /\ (at = "start" /\ twst = "busy" /\ n = 1) => (mode = "free")
  /\ at = "idle" => (mode = "free" \/ (n = MaxIter /\ phase = "failed"))

(* MAX_ITER is enough: main fails because the EEPROM is missing or because *)
(* something happened on the bus, never because the EEPROM was writing.    *)
FailsForAReason == phase = "failed" => (~present \/ trouble > 0)

(* main ends, however long the EEPROM writes. *)
Ends == <>(phase \in {"done", "failed"})
=============================================================================
