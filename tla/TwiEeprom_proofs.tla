------------------------- MODULE TwiEeprom_proofs -------------------------
(***************************************************************************)
(* What TwiEeprom.tla promises, proved for every text, page size, memory   *)
(* and number of refusals.                                                 *)
(*                                                                         *)
(* The inductive invariant says, for every place where the driver waits,   *)
(* what the interface was told (cr, dr), what the EEPROM knows of it       *)
(* (mode, given, ptr, latch) and what of the request is done (rv, got,     *)
(* total): the two sides of the bus are in step as long as the status says *)
(* so, and any other status ends the request.                              *)
(***************************************************************************)
EXTENDS TwiEeprom, SequenceTheorems, TLAPS

-----------------------------------------------------------------------------
(* Division and pages.                                                     *)

LEMMA Division ==
  ASSUME NEW x \in Nat, NEW m \in Nat \ {0}
  PROVE  /\ x % m \in 0 .. m - 1 /\ x \div m \in Nat
         /\ x = (m * (x \div m)) + (x % m)
  OBVIOUS

LEMMA Quotient ==
  ASSUME NEW m \in Nat \ {0}, NEW q \in Nat, NEW r \in 0 .. m - 1
  PROVE  ((m * q) + r) % m = r
  OBVIOUS

LEMMA Small ==
  ASSUME NEW m \in Nat \ {0}, NEW x \in Nat, x < m
  PROVE  x % m = x
  OBVIOUS

LEMMA Constants ==
  /\ PageSize \in Nat \ {0} /\ Radix \in Nat \ {0} /\ MaxIter \in Nat \ {0}
  /\ MemoryEnd \in Nat \ {0} /\ Chunk \in Nat \ {0} /\ Word \in Nat \ {0}
  /\ TextAt \in Nat /\ MaxBusy \in Nat /\ MaxTrouble \in Nat
  /\ Text \in Seq(Nat) /\ Len(Text) \in Nat \ {0} /\ Before \in [0..Word-1 -> Nat]
  /\ MemoryEnd + Chunk < Word /\ TextAt + Len(Text) <= MemoryEnd /\ MaxBusy < MaxIter
  /\ \A k \in 1 .. Len(Text) : Text[k] \in Nat
<1>1. Word \in Nat \ {0}
  BY TwiAssumption DEF Word
<1>2. Len(Text) \in Nat \ {0} /\ \A k \in 1 .. Len(Text) : Text[k] \in Nat
  BY TwiAssumption, EmptySeq, LenProperties, ElementOfSeq
<1> QED
  BY <1>1, <1>2, TwiAssumption

(* A page begins at or before each of its addresses, and is the same one   *)
(* for all of them.                                                        *)
LEMMA PageFacts ==
  ASSUME NEW a \in Nat
  PROVE  /\ PageFirst(a) \in 0 .. a /\ PageLast(a) \in Nat /\ a <= PageLast(a)
         /\ \A x \in a .. PageLast(a) : PageLast(x) = PageLast(a)
<1> DEFINE Q == a \div PageSize
           M == a % PageSize
           F == PageSize * Q
<1>0. PageSize \in Nat \ {0}
  BY Constants
<1>1. M \in 0 .. PageSize - 1 /\ Q \in Nat /\ a = F + M /\ F \in Nat
  <2>1. M \in 0 .. PageSize - 1 /\ Q \in Nat /\ a = F + M
    BY <1>0, Division
  <2> QED
    BY <1>0, <2>1
<1>2. PageFirst(a) = F /\ PageLast(a) = F + PageSize - 1
  <2>1. PageFirst(a) = a - M /\ PageLast(a) = PageFirst(a) + PageSize - 1
    BY DEF PageFirst, PageLast
  <2> HIDE DEF F, M
  <2> QED
    BY <1>0, <1>1, <2>1
<1>3. ASSUME NEW x \in a .. PageLast(a)
      PROVE  PageLast(x) = PageLast(a)
  <2> DEFINE R == x - F
  <2>1. R \in 0 .. PageSize - 1 /\ x = F + R /\ x \in Nat
    <3> HIDE DEF F, M
    <3> QED
      BY <1>0, <1>1, <1>2
  <2>2. x % PageSize = R
    <3>1. (F + R) % PageSize = R
      <4> HIDE DEF Q, R
      <4> QED
        BY <1>0, <1>1, <2>1, Quotient
    <3> QED
      BY <2>1, <3>1
  <2>3. PageLast(x) = x - (x % PageSize) + PageSize - 1
    BY DEF PageFirst, PageLast
  <2> DEFINE X == x % PageSize
  <2> HIDE DEF F, X
  <2> QED
    BY <2>1, <2>2, <2>3, <1>0, <1>1, <1>2 DEF X
<1> HIDE DEF F, M
<1> QED
  BY <1>0, <1>1, <1>2, <1>3

(* PageLength stops at the end of the page or of what is to be written.    *)
LEMMA PageLengthFacts ==
  ASSUME NEW a \in Nat, NEW l \in Nat \ {0}, a + l < Word
  PROVE  /\ PageLength(a, l) \in 1 .. l
         /\ a + PageLength(a, l) <= PageLast(a) + 1
<1> DEFINE W == Word
           P == PageLast(a)
           S == a + l
           E == IF S <= P THEN S ELSE P + 1
           D == E - a
<1>0. W \in Nat \ {0} /\ S < W
  BY Constants
<1>1. P \in Nat /\ a <= P
  BY PageFacts
<1> HIDE DEF W, P
<1>2. S % W = S
  BY <1>0, Small
<1>3. S > P => (P + 1) % W = P + 1
  BY <1>0, <1>1, Small
<1>4. D \in Nat /\ D < W /\ D \in 1 .. l /\ a + D <= P + 1
  BY <1>0, <1>1
<1>5. D % W = D
  <2> HIDE DEF D
  <2> QED
    BY <1>0, <1>4, Small
<1>6. PageLength(a, l) = ((IF S % W <= P THEN S % W ELSE (P + 1) % W) - a) % W
  BY DEF PageLength, W, P
<1>7. (IF S % W <= P THEN S % W ELSE (P + 1) % W) = E
  <2>1. CASE S <= P
    BY <1>2, <2>1
  <2>2. CASE ~(S <= P)
    <3>1. (P + 1) % W = P + 1
      BY <1>1, <1>3, <2>2
    <3> QED
      BY <1>2, <2>2, <3>1
  <2> QED
    BY <2>1, <2>2
<1>8. PageLength(a, l) = D
  BY <1>5, <1>6, <1>7
<1> HIDE DEF D
<1> QED
  BY <1>4, <1>8 DEF P

(* The two bytes of an address make the address again.                     *)
LEMMA AddressFacts ==
  ASSUME NEW a \in 0 .. Word - 1
  PROVE  /\ a \div Radix \in 0 .. Radix - 1 /\ a % Radix \in 0 .. Radix - 1
         /\ (a \div Radix) % Radix = a \div Radix /\ (a % Radix) % Radix = a % Radix
         /\ ((a \div Radix) * Radix) + (a % Radix) = a
<1> DEFINE Q == a \div Radix
           M == a % Radix
<1>0. Radix \in Nat \ {0} /\ a \in Nat /\ a < Radix * Radix
  BY Constants DEF Word
<1>1. M \in 0 .. Radix - 1 /\ Q \in Nat /\ a = (Radix * Q) + M
  BY <1>0, Division
<1> HIDE DEF Q, M
<1>3. Q < Radix
  BY <1>0, <1>1
<1>4. Q % Radix = Q /\ M % Radix = M
  BY <1>0, <1>1, <1>3, Small
<1>5. (Q * Radix) + M = a
  BY <1>0, <1>1
<1>6. /\ Q \in 0 .. Radix - 1 /\ M \in 0 .. Radix - 1
      /\ Q % Radix = Q /\ M % Radix = M /\ (Q * Radix) + M = a
  BY <1>0, <1>1, <1>3, <1>4, <1>5
<1> QED
  BY <1>6, Zenon DEF Q, M

-----------------------------------------------------------------------------
(* The inductive invariant.                                                *)

(* What memory contains once the text is written.                          *)
Goal == After(Len(Text))

(* The driver is idle when main has ended; it has read or written bytes    *)
(* only where they go; lost arbitrations and errors leave the bus to       *)
(* others.                                                                 *)
Places ==
  /\ (at = "idle") <=> (phase \in {"done", "failed"})
  /\ (at = "idle") <=> (twst = "none")
  /\ (at \notin {"data", "idle"}) => (rv = 0 /\ got = << >>)
  /\ (twst \in {"ARB_LOST", "BUS_ERROR"}) => (mode = "free")

(* A place of the driver before the data: the command it gave, the answers *)
(* it may see, and how far the EEPROM has followed.                        *)
AtStart ==
  (at = "start") =>
    /\ cr = TxStart /\ twst \in {"busy", "START", "REP_START", "ARB_LOST", "BUS_ERROR"}
    /\ (twst \in {"START", "REP_START"}) => (mode = "started" /\ given = 0)

AtSlaw ==
  (at = "slaw") =>
    /\ cr = TxByte /\ dr = SlaW
    /\ twst \in {"busy", "MT_SLA_ACK", "MT_SLA_NACK", "ARB_LOST", "BUS_ERROR"}
    /\ (twst = "busy") => (mode = "started" /\ given = 0)
    /\ (twst = "MT_SLA_ACK") => (mode = "write" /\ given = 0)

Sending == {"busy", "MT_DATA_ACK", "MT_DATA_NACK", "ARB_LOST", "BUS_ERROR"}

AtHigh ==
  (at = "high") =>
    /\ cr = TxByte /\ twst \in Sending
    /\ (twst = "busy") => (mode = "write" /\ given = 0 /\ dr = eeaddr \div Radix)
    /\ (twst = "MT_DATA_ACK") => (mode = "write" /\ given = 1 /\ ptr = eeaddr \div Radix)

AtLow ==
  (at = "low") =>
    /\ cr = TxByte /\ twst \in Sending
    /\ (twst = "busy") =>
         (mode = "write" /\ given = 1 /\ ptr = eeaddr \div Radix /\ dr = eeaddr % Radix)
    /\ (twst = "MT_DATA_ACK") => (mode = "write" /\ given = 2 /\ ptr = eeaddr)

AtAgain ==
  (at = "again") =>
    /\ phase # "write" /\ cr = TxStart /\ twst \in {"busy", "REP_START", "ARB_LOST", "BUS_ERROR"}
    /\ (twst = "busy") => (mode = "write" /\ given = 2 /\ ptr = eeaddr)
    /\ (twst = "REP_START") => (mode = "started" /\ ptr = eeaddr)

AtSlar ==
  (at = "slar") =>
    /\ phase # "write" /\ cr = TxByte /\ dr = SlaR
    /\ twst \in {"busy", "MR_SLA_ACK", "MR_SLA_NACK", "ARB_LOST", "BUS_ERROR"}
    /\ (twst = "busy") => (mode = "started" /\ ptr = eeaddr)
    /\ (twst = "MR_SLA_ACK") => (mode = "read" /\ ptr = eeaddr)

(* The bytes of a page: rv of them are acknowledged, and the EEPROM keeps  *)
(* these and no other.                                                     *)
Writing ==
  (at = "data" /\ phase = "write") =>
    /\ cr = TxByte /\ rv < len /\ twst \in {"busy", "MT_DATA_ACK", "MT_DATA_NACK", "BUS_ERROR"}
    /\ (twst = "busy") =>
         (mode = "write" /\ given = 2 /\ ptr = eeaddr + rv /\ dr = Text[total + rv + 1]
          /\ DOMAIN latch = eeaddr .. eeaddr + rv - 1)
    /\ (twst = "MT_DATA_ACK") =>
         (mode = "write" /\ given = 2 /\ DOMAIN latch = eeaddr .. eeaddr + rv
          /\ (rv + 1 < len => ptr = eeaddr + rv + 1))

(* The bytes read: rv of them are stored, and they are the ones in memory. *)
Reading ==
  (at = "data" /\ phase # "write") =>
    /\ rv < len /\ cr = Ask(rv)
    /\ twst \in {"busy", "MR_DATA_ACK", "MR_DATA_NACK", "ARB_LOST", "BUS_ERROR"}
    /\ Len(got) = rv /\ (\A i \in 1 .. rv : got[i] = mem[eeaddr + i - 1])
    /\ (twst = "busy") => (mode = "read" /\ ptr = eeaddr + rv)
    /\ (twst = "MR_DATA_ACK") =>
         (rv + 1 < len /\ mode = "read" /\ ptr = eeaddr + rv + 1 /\ dr = mem[eeaddr + rv])
    /\ (twst = "MR_DATA_NACK") => (rv + 1 = len /\ dr = mem[eeaddr + rv])

(* What the EEPROM has received to write is part of the text, in its place. *)
Latched ==
  \A a \in DOMAIN latch :
    phase = "write" /\ at = "data" /\ a \in eeaddr .. eeaddr + rv /\ latch[a] = Goal[a]

(* The call in progress does the next part of what main wants.             *)
Progress ==
  /\ (phase = "write") =>
       (total < Len(Text) /\ eeaddr = TextAt + total
        /\ len = PageLength(eeaddr, Len(Text) - total))
  /\ (phase \in {"dump", "check"}) =>
       (eeaddr = Len(shown) /\ eeaddr < MemoryEnd /\ len = Chunk)
  /\ (phase \in {"check", "done"}) => (total = Len(Text))

(* As long as nothing happens, each selection the EEPROM refuses brings it *)
(* closer to its end: n cannot reach MAX_ITER.                             *)
Calm == present /\ trouble = 0

Patience ==
  Calm =>
    /\ twst \notin {"ARB_LOST", "BUS_ERROR", "MT_DATA_NACK", "MR_SLA_NACK"}
    /\ phase # "failed"
    /\ (at = "start") => ((n - 1) + busy <= MaxBusy)
    /\ (at = "slaw" /\ twst = "busy") => ((n - 1) + busy <= MaxBusy)
    /\ (at = "slaw" /\ twst = "MT_SLA_NACK") => (n + busy <= MaxBusy)
    /\ (at = "slaw" /\ twst = "MT_SLA_ACK") => (busy = 0)
    /\ (at \in {"high", "low", "again", "slar", "data"}) => (busy = 0)

Spots == AtStart /\ AtSlaw /\ AtHigh /\ AtLow /\ AtAgain /\ AtSlar

IInv == /\ TypeOK /\ Places /\ Spots /\ Writing /\ Reading /\ Latched /\ Progress
        /\ Patience /\ WritesOnlyText /\ ShowsMemory /\ ReleasesBus

(* What the goal is, byte by byte.                                         *)
LEMMA GoalFacts ==
  /\ Goal \in [0..Word-1 -> Nat]
  /\ \A a \in 0..Word-1 : (a \notin TextAt .. TextAt + Len(Text) - 1) => (Goal[a] = Before[a])
  /\ \A k \in 1 .. Len(Text) : TextAt + k - 1 \in 0..Word-1 /\ Goal[TextAt + k - 1] = Text[k]
<1>1. \A a \in 0..Word-1 : (a \in TextAt .. TextAt + Len(Text) - 1)
                              => (a - TextAt + 1 \in 1 .. Len(Text))
  BY Constants
<1>2. \A k \in 1 .. Len(Text) : Text[k] \in Nat
  BY Constants
<1>3. Goal = [a \in 0..Word-1 |-> IF a \in TextAt..TextAt+Len(Text)-1 THEN Text[a - TextAt + 1]
                                                                    ELSE Before[a]]
  BY DEF Goal, After
<1>4. Before \in [0..Word-1 -> Nat]
  BY Constants
<1>5. Goal \in [0..Word-1 -> Nat]
  BY <1>1, <1>2, <1>3, <1>4
<1>6. ASSUME NEW k \in 1 .. Len(Text)
      PROVE  TextAt + k - 1 \in 0..Word-1 /\ Goal[TextAt + k - 1] = Text[k]
  <2> DEFINE a == TextAt + k - 1
  <2>1. a \in 0..Word-1 /\ a \in TextAt .. TextAt + Len(Text) - 1 /\ a - TextAt + 1 = k
    BY Constants
  <2> HIDE DEF a
  <2>2. Goal[a] = Text[k]
    BY <1>3, <2>1
  <2> QED
    BY <2>1, <2>2 DEF a
<1> QED
  BY <1>3, <1>5, <1>6

(* The numbers of a state.                                                 *)
LEMMA Numbers ==
  ASSUME TypeOK
  PROVE  /\ total \in Nat /\ total <= Len(Text) /\ Len(shown) \in Nat
         /\ eeaddr \in Nat /\ eeaddr < Word /\ len \in Nat /\ len < Word
         /\ rv \in Nat /\ rv < Word /\ n \in Nat /\ n >= 1 /\ n <= MaxIter
         /\ ptr \in Nat /\ ptr < Word /\ busy \in Nat /\ busy <= MaxBusy
         /\ trouble \in Nat /\ trouble <= MaxTrouble /\ dr \in Nat
<1>1. Len(shown) \in Nat
  BY LenProperties DEF TypeOK
<1>2. /\ total \in 0..Len(Text) /\ eeaddr \in 0..Word-1 /\ len \in 0..Word-1
      /\ rv \in 0..Word-1 /\ n \in 1..MaxIter /\ ptr \in 0..Word-1
      /\ busy \in 0..MaxBusy /\ trouble \in 0..MaxTrouble /\ dr \in Nat
  BY Zenon DEF TypeOK
<1>3. Len(Text) \in Nat /\ Word \in Nat /\ MaxIter \in Nat /\ MaxBusy \in Nat /\ MaxTrouble \in Nat
  BY Constants
<1> HIDE DEF Word
<1> QED
  BY <1>1, <1>2, <1>3

(* A page never holds more than what is left of the text, nor rolls over.  *)
LEMMA Ahead ==
  ASSUME TypeOK, Progress, phase = "write"
  PROVE  /\ len \in 1 .. Len(Text) - total /\ eeaddr + len < Word
         /\ \A i \in 0 .. len - 1 :
               /\ eeaddr + i \in 0..Word-1 /\ Goal[eeaddr + i] = Text[total + i + 1]
               /\ (i + 1 < len) => (eeaddr + i # PageLast(eeaddr + i))
<1>1. /\ total < Len(Text) /\ eeaddr = TextAt + total
      /\ len = PageLength(eeaddr, Len(Text) - total)
  BY DEF Progress
<1>2. total \in Nat /\ eeaddr \in Nat
  BY Numbers
<1>3. Len(Text) \in Nat /\ TextAt \in Nat /\ Word \in Nat /\ TextAt + Len(Text) < Word
  BY Constants
<1>4. Len(Text) - total \in Nat \ {0} /\ eeaddr + (Len(Text) - total) < Word
  BY <1>1, <1>2, <1>3
<1>5. len \in 1 .. Len(Text) - total /\ eeaddr + len <= PageLast(eeaddr) + 1
  BY <1>1, <1>2, <1>4, PageLengthFacts
<1>6. PageLast(eeaddr) \in Nat /\ \A x \in eeaddr .. PageLast(eeaddr) : PageLast(x) = PageLast(eeaddr)
  BY <1>2, PageFacts
<1>7. ASSUME NEW i \in 0 .. len - 1
      PROVE  /\ eeaddr + i \in 0..Word-1 /\ Goal[eeaddr + i] = Text[total + i + 1]
             /\ (i + 1 < len) => (eeaddr + i # PageLast(eeaddr + i))
  <2> DEFINE k == total + i + 1
             x == eeaddr + i
  <2>1. k \in 1 .. Len(Text) /\ TextAt + k - 1 = x /\ len \in Nat /\ i \in Nat
    <3>1. len \in Nat /\ i \in Nat /\ i < len /\ len <= Len(Text) - total
      BY <1>2, <1>3, <1>5
    <3> QED
      BY <1>1, <1>2, <1>3, <3>1
  <2>2. x \in 0..Word-1 /\ Goal[x] = Text[k]
    <3> HIDE DEF k, x
    <3>1. TextAt + k - 1 \in 0..Word-1 /\ Goal[TextAt + k - 1] = Text[k]
      BY <2>1, GoalFacts
    <3> QED
      BY <2>1, <3>1
  <2>3. x \in eeaddr .. PageLast(eeaddr) /\ ((i + 1 < len) => (x # PageLast(eeaddr)))
    BY <1>2, <1>5, <1>6, <2>1
  <2>4. PageLast(x) = PageLast(eeaddr)
    BY <1>6, <2>3
  <2> QED
    BY <2>2, <2>3, <2>4
<1>8. eeaddr + len < Word
  BY <1>2, <1>3, <1>4, <1>5
<1> QED
  BY <1>5, <1>7, <1>8, Zenon

LEMMA AheadRead ==
  ASSUME TypeOK, Progress, phase \in {"dump", "check"}
  PROVE  len = Chunk /\ Chunk \in Nat \ {0} /\ eeaddr + len < Word
<1>1. eeaddr < MemoryEnd /\ len = Chunk
  BY DEF Progress
<1>2. eeaddr \in Nat
  BY Numbers
<1>3. MemoryEnd \in Nat /\ Chunk \in Nat \ {0} /\ Word \in Nat /\ MemoryEnd + Chunk < Word
  BY Constants
<1> QED
  BY <1>1, <1>2, <1>3

(* The two bytes of the address of a call.                                 *)
LEMMA AddressBytes ==
  ASSUME TypeOK
  PROVE  /\ eeaddr \div Radix \in Nat /\ eeaddr % Radix \in Nat
         /\ (eeaddr \div Radix) % Radix = eeaddr \div Radix
         /\ (eeaddr % Radix) % Radix = eeaddr % Radix
         /\ ((eeaddr \div Radix) * Radix) + (eeaddr % Radix) = eeaddr
<1>1. eeaddr \in 0 .. Word - 1
  BY Zenon DEF TypeOK
<1> DEFINE Q == eeaddr \div Radix
           M == eeaddr % Radix
<1>2. /\ Q \in 0 .. Radix - 1 /\ M \in 0 .. Radix - 1 /\ Q % Radix = Q /\ M % Radix = M
      /\ (Q * Radix) + M = eeaddr
  BY <1>1, AddressFacts, Zenon
<1>3. Radix \in Nat
  BY Constants
<1> HIDE DEF Q, M
<1>4. Q \in Nat /\ M \in Nat
  BY <1>2, <1>3
<1>5. /\ Q \in Nat /\ M \in Nat /\ Q % Radix = Q /\ M % Radix = M
      /\ (Q * Radix) + M = eeaddr
  BY <1>2, <1>4, Zenon
<1> QED
  BY <1>5, Zenon DEF Q, M

(* A page has a first byte, a read asks for something.                     *)
LEMMA FirstByte ==
  ASSUME TypeOK, Progress, phase = "write"
  PROVE  len \in Nat /\ 0 < len /\ Text[total + 1] \in Nat
<1>1. total \in Nat /\ total < Len(Text) /\ len \in Nat
  BY Numbers DEF Progress
<1>2. Len(Text) \in Nat /\ \A k \in 1 .. Len(Text) : Text[k] \in Nat
  BY Constants
<1>3. len \in 1 .. Len(Text) - total
  BY Ahead
<1> QED
  BY <1>1, <1>2, <1>3

LEMMA ReadsSome ==
  ASSUME TypeOK, Progress, phase \in {"dump", "check"}
  PROVE  len \in Nat /\ 0 < len
  BY AheadRead

(* A STOP stores what was latched, which is part of the goal, and lets go. *)
LEMMA StopFacts ==
  ASSUME TypeOK, Latched, Stop
  PROVE  /\ mode' = "free" /\ DOMAIN latch' = {} /\ latch' \in [DOMAIN latch' -> Nat]
         /\ busy' \in 0 .. MaxBusy /\ mem' \in [0..Word-1 -> Nat]
         /\ (DOMAIN latch = {}) => (mem' = mem /\ busy' = busy)
         /\ \A a \in 0..Word-1 : mem'[a] \in {mem[a], Goal[a]}
         /\ \A a \in DOMAIN latch : mem'[a] = Goal[a]
<1>1. mode' = "free" /\ mem' = Stored /\ latch' = NoBytes
      /\ busy' \in IF DOMAIN latch = {} THEN {busy} ELSE 0..MaxBusy
  BY DEF Stop
<1>2. DOMAIN latch' = {} /\ latch' \in [DOMAIN latch' -> Nat]
  BY <1>1 DEF NoBytes
<1>3. busy' \in 0 .. MaxBusy
  BY <1>1 DEF TypeOK
<1>4. /\ latch \in [DOMAIN latch -> Nat] /\ DOMAIN latch \subseteq 0..Word-1
      /\ mem \in [0..Word-1 -> Nat]
  BY DEF TypeOK
<1>5. \A a \in DOMAIN latch : latch[a] = Goal[a]
  BY DEF Latched
<1>6. mem' = [a \in 0..Word-1 |-> IF a \in DOMAIN latch THEN latch[a] ELSE mem[a]]
  BY <1>1 DEF Stored
<1>7. mem' \in [0..Word-1 -> Nat]
  BY <1>4, <1>6
<1>8. /\ \A a \in 0..Word-1 : mem'[a] \in {mem[a], Goal[a]}
      /\ \A a \in DOMAIN latch : mem'[a] = Goal[a]
  BY <1>4, <1>5, <1>6
<1>9. (DOMAIN latch = {}) => (mem' = mem /\ busy' = busy)
  BY <1>1, <1>4, <1>6
<1> QED
  BY <1>1, <1>2, <1>3, <1>7, <1>8, <1>9

-----------------------------------------------------------------------------
(* What the steps have in common.                                          *)

(* The part of the invariant that a command without a return leaves alone. *)
LEMMA Kept ==
  ASSUME IInv, UNCHANGED <<main, call, mem>>
  PROVE  Progress' /\ WritesOnlyText' /\ ShowsMemory'
<1>1. Progress'
  BY DEF IInv, Progress, main, call
<1>2. WritesOnlyText'
  BY DEF IInv, WritesOnlyText, main
<1>3. ShowsMemory'
  BY DEF IInv, ShowsMemory, main
<1> QED
  BY <1>1, <1>2, <1>3

(* A routine goes on with its next command.                                *)
LEMMA ProceedStep ==
  ASSUME IInv, NEW c \in {TxStart, TxByte, TxRead},
         NEW next \in {"start", "slaw", "high", "low", "again", "slar", "data"},
         Proceed(c, next), at \notin {"data", "idle"}, dr' \in Nat,
         (next = "start") => (mode = "free")
  PROVE  TypeOK' /\ Places' /\ Latched' /\ Progress' /\ WritesOnlyText' /\ ShowsMemory' /\ ReleasesBus'
<1>1. /\ cr' = c /\ at' = next /\ twst' = "busy"
      /\ UNCHANGED <<phase, shown, total, eeaddr, len, n, rv, got, mode>>
      /\ UNCHANGED <<present, ptr, given, latch, busy, mem, trouble>>
  BY DEF Proceed, Command, main, call, eeprom
<1>2. TypeOK'
  BY <1>1 DEF IInv, TypeOK
<1>3. Places'
  BY <1>1 DEF IInv, Places
<1>4. DOMAIN latch = {}
  BY DEF IInv, Latched
<1>5. Latched'
  BY <1>1, <1>4 DEF Latched
<1>6. Progress' /\ WritesOnlyText' /\ ShowsMemory'
  BY <1>1, Kept DEF main, call
<1>7. ReleasesBus'
  BY <1>1 DEF ReleasesBus
<1> QED
  BY <1>2, <1>3, <1>5, <1>6, <1>7

(* A routine that lost the bus begins again.                               *)
LEMMA BeginStep ==
  ASSUME IInv, Begin, twst = "ARB_LOST", at \notin {"data", "idle"}
  PROVE  IInv'
<1>1. mode = "free" /\ Proceed(TxStart, "start") /\ dr' = dr
  BY DEF IInv, Places, Begin
<1>2. /\ cr' = TxStart /\ at' = "start" /\ twst' = "busy"
      /\ UNCHANGED <<present, trouble>>
  BY <1>1 DEF Proceed, Command, eeprom
<1>3. dr' \in Nat
  BY <1>1 DEF IInv, TypeOK
<1>4. TypeOK' /\ Places' /\ Latched' /\ Progress' /\ WritesOnlyText' /\ ShowsMemory' /\ ReleasesBus'
  BY <1>1, <1>3, ProceedStep
<1>5. Spots' /\ Writing' /\ Reading'
  BY <1>2 DEF Spots, AtStart, AtSlaw, AtHigh, AtLow, AtAgain, AtSlar, Writing, Reading
<1>6. Patience'
  BY <1>2 DEF IInv, Patience, Calm
<1> QED
  BY <1>4, <1>5, <1>6 DEF IInv

(* A routine that waits has something to do.                               *)
LEMMA Active ==
  ASSUME IInv, at # "idle"
  PROVE  phase \in {"dump", "write", "check"}
<1>1. phase \in {"dump", "write", "check", "done", "failed"} /\ phase \notin {"done", "failed"}
  BY Zenon DEF IInv, TypeOK, Places
<1> QED
  BY <1>1

(* Main has ended.                                                         *)
LEMMA Ended ==
  ASSUME IInv, at' = "idle", twst' = "none", phase' \in {"done", "failed"}, UNCHANGED call,
         DOMAIN latch' = {}, mode' = "free" \/ (n = MaxIter /\ phase' = "failed"),
         (phase' = "failed") => ~Calm'
  PROVE  Places' /\ Spots' /\ Writing' /\ Reading' /\ Latched' /\ Patience' /\ ReleasesBus'
<1>1. Places' /\ Latched'
  BY DEF Places, Latched
<1>2. Spots' /\ Writing' /\ Reading'
  BY DEF Spots, AtStart, AtSlaw, AtHigh, AtLow, AtAgain, AtSlar, Writing, Reading
<1>3. Patience'
  BY DEF Patience
<1>4. ReleasesBus'
  BY DEF ReleasesBus, call
<1> QED
  BY <1>1, <1>2, <1>3, <1>4

(* A routine is called.                                                    *)
LEMMA Entered ==
  ASSUME NEW a, NEW l, Enter(a, l), phase' \in {"dump", "write", "check"},
         DOMAIN latch' = {}, mode' = "free", busy' \in 0 .. MaxBusy
  PROVE  Places' /\ Spots' /\ Writing' /\ Reading' /\ Latched' /\ Patience' /\ ReleasesBus'
<1>1. /\ at' = "start" /\ cr' = TxStart /\ twst' = "busy"
      /\ n' = 1 /\ rv' = 0 /\ got' = << >>
  BY DEF Enter, Command
<1>2. Places' /\ Latched'
  BY <1>1 DEF Places, Latched
<1>3. Spots' /\ Writing' /\ Reading'
  BY <1>1 DEF Spots, AtStart, AtSlaw, AtHigh, AtLow, AtAgain, AtSlar, Writing, Reading
<1>4. Patience'
  <2>1. MaxBusy \in Nat
    BY Constants
  <2>2. ASSUME NEW k \in Nat, k = 1, NEW m \in 0 .. MaxBusy
        PROVE  (k - 1) + m <= MaxBusy
    BY <2>1, <2>2
  <2>3. (n' - 1) + busy' <= MaxBusy
    BY <1>1, <2>2
  <2> QED
    BY <1>1, <2>3 DEF Patience
<1>5. ReleasesBus'
  BY <1>1 DEF ReleasesBus
<1> QED
  BY <1>2, <1>3, <1>4, <1>5

(* What is stored is part of the goal.                                     *)
LEMMA StillWritten ==
  ASSUME WritesOnlyText, \A a \in 0..Word-1 : mem'[a] \in {mem[a], Goal[a]},
         \A a \in TextAt .. TextAt + total' - 1 :
           a \in 0..Word-1 => (a \in TextAt .. TextAt + total - 1 \/ mem'[a] = Goal[a])
  PROVE  WritesOnlyText'
<1>1. \A a \in 0..Word-1 : /\ mem[a] \in {Before[a], Goal[a]}
                           /\ (a \in TextAt..TextAt+total-1) => (mem[a] = Goal[a])
  BY DEF WritesOnlyText, Goal
<1>2. ASSUME NEW a \in 0..Word-1
      PROVE  /\ mem'[a] \in {Before[a], Goal[a]}
             /\ (a \in TextAt .. TextAt + total' - 1) => (mem'[a] = Goal[a])
  <2>1. mem'[a] \in {mem[a], Goal[a]} /\ mem[a] \in {Before[a], Goal[a]}
    BY <1>1
  <2>2. (a \in TextAt .. TextAt + total' - 1)
           => (a \in TextAt .. TextAt + total - 1 \/ mem'[a] = Goal[a])
    OBVIOUS
  <2> QED
    BY <1>1, <2>1, <2>2
<1>3. \A a \in 0..Word-1 : /\ mem'[a] \in {Before[a], Goal[a]}
                           /\ (a \in TextAt .. TextAt + total' - 1) => (mem'[a] = Goal[a])
  BY <1>2
<1> QED
  BY <1>3 DEF WritesOnlyText, Goal

LEMMA AllWritten ==
  ASSUME TypeOK, WritesOnlyText, total = Len(Text)
  PROVE  mem = Goal
<1>1. mem \in [0..Word-1 -> Nat] /\ Goal \in [0..Word-1 -> Nat]
  BY GoalFacts, Zenon DEF TypeOK
<1>2. \A a \in 0..Word-1 : (a \notin TextAt .. TextAt + Len(Text) - 1) => (Goal[a] = Before[a])
  BY GoalFacts
<1>3. \A a \in 0..Word-1 : mem[a] = Goal[a]
  BY <1>2 DEF WritesOnlyText, Goal
<1> DEFINE D == 0..Word-1
<1> HIDE DEF D
<1>4. mem \in [D -> Nat] /\ Goal \in [D -> Nat] /\ \A a \in D : mem[a] = Goal[a]
  BY <1>1, <1>3 DEF D
<1> QED
  BY <1>4

(* A routine returns -1 and main ends.                                     *)
LEMMA FailStep ==
  ASSUME IInv, Fails, ~Calm, mode' \in {"free", mode}, mode' = "free" \/ n = MaxIter,
         DOMAIN latch' = {}, latch' \in [DOMAIN latch' -> Nat], busy' \in 0 .. MaxBusy,
         mem' \in [0..Word-1 -> Nat], \A a \in 0..Word-1 : mem'[a] \in {mem[a], Goal[a]}
  PROVE  IInv'
<1>1. /\ phase' = "failed" /\ at' = "idle" /\ twst' = "none"
      /\ UNCHANGED <<shown, total, eeaddr, len, n, rv, got, cr>>
      /\ UNCHANGED <<dr, present, ptr, given, trouble>>
  BY DEF Fails, End, call
<1>2. TypeOK'
  <2>1. mode' \in {"free", "started", "write", "read", "refused"} /\ DOMAIN latch' \subseteq 0..Word-1
    BY DEF IInv, TypeOK
  <2> QED
    BY <1>1, <2>1 DEF IInv, TypeOK
<1>3. Places' /\ Spots' /\ Writing' /\ Reading' /\ Latched' /\ Patience' /\ ReleasesBus'
  <2>1. ~Calm'
    BY <1>1 DEF Calm
  <2> QED
    BY <1>1, <2>1, Ended DEF call
<1>4. Progress' /\ ShowsMemory'
  BY <1>1 DEF Progress, ShowsMemory
<1>5. WritesOnlyText'
  BY <1>1, StillWritten DEF IInv
<1> QED
  BY <1>2, <1>3, <1>4, <1>5 DEF IInv

LEMMA FailureStep ==
  ASSUME IInv, Failure, ~Calm
  PROVE  IInv'
  BY StopFacts, FailStep DEF Failure, IInv

LEMMA NoStopStep ==
  ASSUME IInv, NoStop, ~Calm, at \in {"start", "slaw"}, mode = "free" \/ n = MaxIter
  PROVE  IInv'
<1>1. DOMAIN latch = {}
  BY DEF IInv, Latched
<1>2. Fails /\ mode' = mode /\ mem' = mem /\ latch' = latch /\ busy' = busy
  BY DEF NoStop
<1>3. latch \in [DOMAIN latch -> Nat] /\ busy \in 0 .. MaxBusy /\ mem \in [0..Word-1 -> Nat]
  BY Zenon DEF IInv, TypeOK
<1> QED
  BY <1>1, <1>2, <1>3, FailStep

(* A refused selection is tried again, or given up after MAX_ITER.         *)
LEMMA RestartStep ==
  ASSUME IInv, Restart, at = "slaw", twst = "MT_SLA_NACK"
  PROVE  IInv'
<1>1. n \in Nat /\ n >= 1 /\ n <= MaxIter /\ MaxIter \in Nat
  BY Numbers, Constants DEF IInv
<1>2. CASE ~(n < MaxIter) /\ NoStop
  <2>1. n = MaxIter
    BY <1>1, <1>2
  <2>2. ~Calm
    <3>1. Calm => (n + busy <= MaxBusy)
      BY DEF IInv, Patience
    <3>2. busy \in Nat /\ MaxBusy \in Nat /\ MaxBusy < MaxIter
      BY Numbers, Constants DEF IInv
    <3> QED
      BY <1>1, <2>1, <3>1, <3>2
  <2> QED
    BY <1>2, <2>1, <2>2, NoStopStep
<1>3. CASE /\ n < MaxIter /\ n' = n + 1 /\ Command(TxStart, "start")
           /\ UNCHANGED <<main, eeaddr, len, rv, got, dr, mode, eeprom, trouble>>
  <2>1. /\ cr' = TxStart /\ at' = "start" /\ twst' = "busy" /\ n' = n + 1
        /\ UNCHANGED <<phase, shown, total, eeaddr, len, rv, got, dr, mode>>
        /\ UNCHANGED <<present, ptr, given, latch, busy, mem, trouble>>
    BY <1>3 DEF Command, main, eeprom
  <2>2. TypeOK'
    <3>1. n' \in 1 .. MaxIter
      BY <1>1, <1>3
    <3> QED
      BY <2>1, <3>1 DEF IInv, TypeOK
  <2>3. Places' /\ Latched'
    BY <2>1 DEF IInv, Places, Latched
  <2>4. Spots' /\ Writing' /\ Reading'
    BY <2>1 DEF Spots, AtStart, AtSlaw, AtHigh, AtLow, AtAgain, AtSlar, Writing, Reading
  <2>5. Progress' /\ WritesOnlyText' /\ ShowsMemory'
    <3>1. Progress'
      BY <2>1 DEF IInv, Progress
    <3>2. WritesOnlyText' /\ ShowsMemory'
      BY <2>1 DEF IInv, WritesOnlyText, ShowsMemory
    <3> QED
      BY <3>1, <3>2
  <2>6. Patience'
    <3>1. (n' - 1) = n
      BY <1>1, <2>1
    <3> QED
      BY <2>1, <3>1 DEF IInv, Patience, Calm
  <2>7. ReleasesBus'
    <3>1. n' # 1
      BY <1>1, <2>1
    <3> QED
      BY <2>1, <3>1 DEF ReleasesBus
  <2> QED
    BY <2>2, <2>3, <2>4, <2>5, <2>6, <2>7 DEF IInv
<1> QED
  BY <1>2, <1>3 DEF Restart, Tries

(* A page returns r, the number of bytes it has written.                   *)
LEMMA PageReturnsStep ==
  ASSUME IInv, at # "idle", NEW r \in Nat, r <= len, PageReturns(r), Stop,
         UNCHANGED <<dr, present, ptr, given, trouble>>,
         \A i \in 0 .. r - 1 : eeaddr + i \in DOMAIN latch
  PROVE  IInv'
<1>1. phase = "write" /\ total' = total + r
  BY DEF PageReturns
<1>2. /\ mode' = "free" /\ DOMAIN latch' = {} /\ latch' \in [DOMAIN latch' -> Nat]
      /\ busy' \in 0 .. MaxBusy /\ mem' \in [0..Word-1 -> Nat]
      /\ \A a \in 0..Word-1 : mem'[a] \in {mem[a], Goal[a]}
      /\ \A a \in DOMAIN latch : mem'[a] = Goal[a]
  BY StopFacts DEF IInv
<1>3. /\ total \in Nat /\ total < Len(Text) /\ eeaddr = TextAt + total
      /\ len \in Nat /\ len <= Len(Text) - total
  <2>1. len \in 1 .. Len(Text) - total
    BY <1>1, Ahead DEF IInv
  <2>2. total \in Nat /\ total < Len(Text) /\ eeaddr = TextAt + total
    BY <1>1, Numbers DEF IInv, Progress
  <2>3. Len(Text) \in Nat
    BY Constants
  <2> QED
    BY <2>1, <2>2, <2>3
<1>4. /\ Len(Text) \in Nat /\ TextAt \in Nat /\ Word \in Nat /\ Chunk \in Nat \ {0}
      /\ MemoryEnd \in Nat \ {0} /\ MemoryEnd + Chunk < Word /\ TextAt + Len(Text) <= MemoryEnd
  BY Constants
<1>5. total' \in Nat /\ total' <= Len(Text)
  BY <1>1, <1>3, <1>4
<1>6. WritesOnlyText'
  <2>1. ASSUME NEW a \in TextAt .. TextAt + total' - 1
        PROVE  a \in TextAt .. TextAt + total - 1 \/ mem'[a] = Goal[a]
    <3>1. CASE a < TextAt + total
      BY <1>3, <1>4, <1>5, <3>1
    <3>2. CASE ~(a < TextAt + total)
      <4>1. a - eeaddr \in 0 .. r - 1 /\ eeaddr + (a - eeaddr) = a
        BY <1>1, <1>3, <1>4, <1>5, <3>2
      <4>2. a \in DOMAIN latch
        BY <4>1
      <4> QED
        BY <1>2, <4>2
    <3> QED
      BY <3>1, <3>2
  <2> QED
    BY <1>2, <2>1, StillWritten DEF IInv
<1>7. /\ mode' \in {"free", "started", "write", "read", "refused"} /\ DOMAIN latch' \subseteq 0..Word-1
      /\ UNCHANGED <<dr, present, ptr, given, trouble>>
      /\ dr \in Nat /\ present \in BOOLEAN /\ ptr \in 0..Word-1 /\ given \in 0..2
      /\ trouble \in 0..MaxTrouble /\ shown \in Seq(Nat)
  BY <1>2 DEF IInv, TypeOK
<1>8. CASE /\ total + r < Len(Text) /\ WriteAfter(total + r) /\ UNCHANGED <<phase, shown>>
  <2> DEFINE t == total + r
             l == PageLength(TextAt + t, Len(Text) - t)
  <2>1. Enter(TextAt + t, l) /\ phase' = "write" /\ shown' = shown
    BY <1>1, <1>8 DEF WriteAfter
  <2>2. /\ at' = "start" /\ cr' = TxStart /\ twst' = "busy" /\ n' = 1 /\ rv' = 0 /\ got' = << >>
        /\ eeaddr' = TextAt + t /\ len' = l
    BY <2>1 DEF Enter, Command
  <2>3. eeaddr' \in 0..Word-1 /\ len' \in 0..Word-1
    <3>1. /\ TextAt + t \in Nat /\ Len(Text) - t \in Nat \ {0} /\ TextAt + t < Word
          /\ Len(Text) - t < Word /\ (TextAt + t) + (Len(Text) - t) < Word
      BY <1>3, <1>4, <1>8
    <3> HIDE DEF t
    <3>2. l \in 1 .. Len(Text) - t
      BY <3>1, PageLengthFacts
    <3> HIDE DEF l
    <3> QED
      BY <1>4, <2>2, <3>1, <3>2
  <2> HIDE DEF t, l
  <2>4. TypeOK'
    <3>1. n' \in 1 .. MaxIter /\ rv' \in 0..Word-1 /\ got' \in Seq(Nat) /\ total' \in 0..Len(Text)
      BY <1>4, <1>5, <2>2, EmptySeq, Constants
    <3> QED
      BY <1>2, <1>7, <2>1, <2>2, <2>3, <3>1 DEF TypeOK
  <2>5. Places' /\ Spots' /\ Writing' /\ Reading' /\ Latched' /\ Patience' /\ ReleasesBus'
    BY <1>2, <2>1, Entered
  <2>6. Progress' /\ ShowsMemory'
    BY <1>1, <1>8, <2>1, <2>2 DEF Progress, ShowsMemory, t, l
  <2> QED
    BY <1>6, <2>4, <2>5, <2>6 DEF IInv
<1>9. CASE /\ total + r >= Len(Text) /\ phase' = "check" /\ shown' = << >> /\ ReadFrom(0)
  <2>1. Enter(0, Chunk) /\ phase' = "check" /\ shown' = << >> /\ total' = Len(Text)
    BY <1>1, <1>4, <1>5, <1>9 DEF ReadFrom
  <2>2. /\ at' = "start" /\ cr' = TxStart /\ twst' = "busy" /\ n' = 1 /\ rv' = 0 /\ got' = << >>
        /\ eeaddr' = 0 /\ len' = Chunk
    BY <2>1 DEF Enter, Command
  <2>3. TypeOK'
    <3>1. n' \in 1 .. MaxIter /\ got' \in Seq(Nat) /\ shown' \in Seq(Nat)
      BY <2>1, <2>2, EmptySeq, Constants
    <3>2. rv' \in 0..Word-1 /\ eeaddr' \in 0..Word-1 /\ len' \in 0..Word-1 /\ total' \in 0..Len(Text)
      BY <1>4, <2>1, <2>2
    <3> QED
      BY <1>2, <1>7, <2>1, <2>2, <3>1, <3>2 DEF TypeOK
  <2>4. Places' /\ Spots' /\ Writing' /\ Reading' /\ Latched' /\ Patience' /\ ReleasesBus'
    BY <1>2, <2>1, Entered
  <2>5. Progress' /\ ShowsMemory'
    <3>1. Len(shown') = 0 /\ 0 < MemoryEnd /\ \A i \in 1 .. 0 : FALSE
      BY <1>4, <2>1
    <3> QED
      BY <2>1, <2>2, <3>1 DEF Progress, ShowsMemory
  <2> QED
    BY <1>6, <2>3, <2>4, <2>5 DEF IInv
<1> QED
  BY <1>8, <1>9 DEF PageReturns

(* A read returns r bytes, b, to main.                                     *)
LEMMA ReadReturnsStep ==
  ASSUME IInv, at # "idle", NEW r \in Nat, NEW b \in Seq(Nat), ReadReturns(r, b), Stop,
         UNCHANGED <<dr, present, ptr, given, trouble>>,
         (r = 0) => ~Calm,
         \A i \in 1 .. Len(b) : b[i] = mem[eeaddr + i - 1]
  PROVE  IInv'
<1>1. phase \in {"dump", "check"}
  BY DEF ReadReturns
<1>2. DOMAIN latch = {}
  BY <1>1 DEF IInv, Latched
<1>3. /\ mode' = "free" /\ DOMAIN latch' = {} /\ latch' \in [DOMAIN latch' -> Nat]
      /\ busy' \in 0 .. MaxBusy /\ mem' \in [0..Word-1 -> Nat] /\ mem' = mem
      /\ \A a \in 0..Word-1 : mem'[a] \in {mem[a], Goal[a]}
  BY <1>2, StopFacts DEF IInv
<1>4. CASE r <= 0 /\ End("failed")
  <2>1. ~Calm
    BY <1>4
  <2> QED
    BY <1>3, <1>4, <2>1, FailStep DEF Fails
<1> DEFINE s == shown \o b
<1>5. /\ s \in Seq(Nat) /\ Len(s) \in Nat
      /\ (Len(shown) = eeaddr /\ \A i \in 1 .. Len(shown) : shown[i] = mem[i - 1])
           => (\A i \in 1 .. Len(s) : s[i] = mem[i - 1])
  <2>1. shown \in Seq(Nat) /\ Len(shown) \in Nat /\ Len(b) \in Nat
    BY LenProperties, Zenon DEF IInv, TypeOK
  <2>2. /\ s \in Seq(Nat) /\ Len(s) = Len(shown) + Len(b)
        /\ \A i \in 1 .. Len(shown) + Len(b) :
             s[i] = IF i <= Len(shown) THEN shown[i] ELSE b[i - Len(shown)]
    BY <2>1, ConcatProperties
  <2> HIDE DEF s
  <2>3. ASSUME Len(shown) = eeaddr, \A i \in 1 .. Len(shown) : shown[i] = mem[i - 1],
               NEW i \in 1 .. Len(s)
        PROVE  s[i] = mem[i - 1]
    <3>1. CASE i <= Len(shown)
      BY <2>1, <2>2, <2>3, <3>1
    <3>2. CASE ~(i <= Len(shown))
      <4>1. i - Len(shown) \in 1 .. Len(b) /\ eeaddr + ((i - Len(shown)) - 1) = i - 1
        BY <2>1, <2>2, <2>3, <3>2
      <4>2. s[i] = b[i - Len(shown)]
        BY <2>1, <2>2, <3>2
      <4> QED
        BY <4>1, <4>2
    <3> QED
      BY <3>1, <3>2
  <2> QED
    BY <2>1, <2>2, <2>3
<1>6. \A i \in 1 .. Len(s) : s[i] = mem[i - 1]
  BY <1>1, <1>5 DEF IInv, Progress, ShowsMemory
<1>7. /\ mode' \in {"free", "started", "write", "read", "refused"} /\ DOMAIN latch' \subseteq 0..Word-1
      /\ UNCHANGED <<dr, present, ptr, given, trouble>>
      /\ dr \in Nat /\ present \in BOOLEAN /\ ptr \in 0..Word-1 /\ given \in 0..2
      /\ trouble \in 0..MaxTrouble /\ total \in 0..Len(Text)
  BY <1>3 DEF IInv, TypeOK
<1>8. (phase = "check") => (total = Len(Text))
  BY DEF IInv, Progress
<1>9. (total' = total) => WritesOnlyText'
  BY <1>3 DEF IInv, WritesOnlyText
<1>10. /\ Len(Text) \in Nat /\ Word \in Nat /\ Chunk \in Nat \ {0} /\ MaxIter \in Nat \ {0}
       /\ MemoryEnd \in Nat \ {0} /\ MemoryEnd + Chunk < Word /\ TextAt \in Nat
       /\ TextAt + Len(Text) <= MemoryEnd /\ Len(Text) > 0
  BY Constants
<1>11. CASE /\ r > 0 /\ shown' = s /\ Len(s) < MemoryEnd
            /\ ReadFrom(Len(s)) /\ UNCHANGED <<phase, total>>
  <2>1. Enter(Len(s), Chunk) /\ phase' = phase /\ total' = total /\ shown' = s
    BY <1>11 DEF ReadFrom
  <2>2. /\ at' = "start" /\ cr' = TxStart /\ twst' = "busy" /\ n' = 1 /\ rv' = 0 /\ got' = << >>
        /\ eeaddr' = Len(s) /\ len' = Chunk
    BY <2>1 DEF Enter, Command
  <2> HIDE DEF s
  <2>3. TypeOK'
    <3>1. n' \in 1 .. MaxIter /\ got' \in Seq(Nat) /\ shown' \in Seq(Nat)
      BY <1>5, <1>10, <2>1, <2>2, EmptySeq
    <3>2. rv' \in 0..Word-1 /\ eeaddr' \in 0..Word-1 /\ len' \in 0..Word-1
      BY <1>5, <1>10, <1>11, <2>2
    <3> QED
      BY <1>1, <1>3, <1>7, <2>1, <2>2, <3>1, <3>2 DEF TypeOK
  <2>4. Places' /\ Spots' /\ Writing' /\ Reading' /\ Latched' /\ Patience' /\ ReleasesBus'
    BY <1>1, <1>3, <2>1, Entered
  <2>5. Progress' /\ ShowsMemory'
    BY <1>1, <1>3, <1>6, <1>8, <1>11, <2>1, <2>2 DEF Progress, ShowsMemory
  <2> QED
    BY <1>9, <2>1, <2>3, <2>4, <2>5 DEF IInv
<1>12. CASE /\ r > 0 /\ shown' = s /\ Len(s) >= MemoryEnd /\ phase = "dump"
            /\ phase' = "write" /\ total' = 0 /\ WriteAfter(0)
  <2> DEFINE l == PageLength(TextAt + 0, Len(Text) - 0)
  <2>1. Enter(TextAt + 0, l) /\ phase' = "write" /\ total' = 0 /\ shown' = s
    BY <1>12 DEF WriteAfter
  <2>2. /\ at' = "start" /\ cr' = TxStart /\ twst' = "busy" /\ n' = 1 /\ rv' = 0 /\ got' = << >>
        /\ eeaddr' = TextAt + 0 /\ len' = l
    BY <2>1 DEF Enter, Command
  <2>3. l \in 0..Word-1 /\ TextAt + 0 \in 0..Word-1 /\ Len(Text) - 0 = Len(Text)
    <3>1. TextAt + 0 \in Nat /\ Len(Text) - 0 \in Nat \ {0} /\ (TextAt + 0) + (Len(Text) - 0) < Word
      BY <1>10
    <3>2. l \in 1 .. Len(Text) - 0
      BY <3>1, PageLengthFacts
    <3> HIDE DEF l
    <3> QED
      BY <1>10, <3>1, <3>2
  <2> HIDE DEF s, l
  <2>4. TypeOK'
    <3>1. n' \in 1 .. MaxIter /\ got' \in Seq(Nat) /\ shown' \in Seq(Nat)
      BY <1>5, <1>10, <2>1, <2>2, EmptySeq
    <3>2. /\ rv' \in 0..Word-1 /\ eeaddr' \in 0..Word-1 /\ len' \in 0..Word-1
          /\ total' \in 0..Len(Text)
      BY <1>10, <2>1, <2>2, <2>3
    <3> QED
      BY <1>3, <1>7, <2>1, <2>2, <3>1, <3>2 DEF TypeOK
  <2>5. Places' /\ Spots' /\ Writing' /\ Reading' /\ Latched' /\ Patience' /\ ReleasesBus'
    BY <1>3, <2>1, Entered
  <2>6. Progress' /\ ShowsMemory'
    BY <1>10, <2>1, <2>2, <2>3 DEF Progress, ShowsMemory, l
  <2>7. WritesOnlyText'
    <3>1. TextAt .. TextAt + total' - 1 = {}
      BY <1>10, <2>1
    <3> QED
      BY <1>3, <3>1, StillWritten DEF IInv
  <2> QED
    BY <2>4, <2>5, <2>6, <2>7 DEF IInv
<1>13. CASE /\ r > 0 /\ shown' = s /\ Len(s) >= MemoryEnd /\ phase = "check"
            /\ phase' = "done" /\ at' = "idle" /\ twst' = "none" /\ UNCHANGED <<total, call, cr>>
  <2>1. UNCHANGED <<total, eeaddr, len, n, rv, got, cr>>
    BY <1>13 DEF call
  <2> HIDE DEF s
  <2>2. TypeOK'
    <3>1. shown' \in Seq(Nat)
      BY <1>5, <1>13
    <3> QED
      BY <1>3, <1>7, <1>13, <2>1, <3>1 DEF TypeOK, IInv
  <2>3. Places' /\ Spots' /\ Writing' /\ Reading' /\ Latched' /\ Patience' /\ ReleasesBus'
    BY <1>3, <1>13, Ended
  <2>4. Progress'
    BY <1>8, <1>13, <2>1 DEF Progress
  <2>5. ShowsMemory'
    <3>1. mem = Goal
      BY <1>8, <1>13, AllWritten DEF IInv
    <3> QED
      BY <1>3, <1>6, <1>13, <3>1 DEF ShowsMemory, Goal
  <2> QED
    BY <1>9, <2>1, <2>2, <2>3, <2>4, <2>5 DEF IInv
<1> QED
  BY <1>4, <1>11, <1>12, <1>13 DEF ReadReturns

(* A routine whose address is refused returns the 0 bytes it transferred.  *)
LEMMA QuitStep ==
  ASSUME IInv, Quit, at \in {"high", "low", "slar"}, twst \in {"MT_DATA_NACK", "MR_SLA_NACK"}
  PROVE  IInv'
<1>1. /\ Stop /\ UNCHANGED <<dr, present, ptr, given, trouble>>
      /\ ReadReturns(rv, got) \/ PageReturns(rv)
  BY DEF Quit, Return
<1>2. rv = 0 /\ got = << >>
  BY DEF IInv, Places
<1>3. ~Calm
  BY DEF IInv, Patience
<1>4. CASE ReadReturns(0, << >>)
  <2>1. << >> \in Seq(Nat) /\ \A i \in 1 .. Len(<< >>) : << >>[i] = mem[eeaddr + i - 1]
    BY EmptySeq
  <2> QED
    BY <1>1, <1>3, <1>4, <2>1, ReadReturnsStep
<1>5. CASE PageReturns(0)
  <2>1. 0 <= len /\ \A i \in 0 .. 0 - 1 : eeaddr + i \in DOMAIN latch
    BY Numbers DEF IInv
  <2> QED
    BY <1>1, <1>5, <2>1, PageReturnsStep
<1> QED
  BY <1>1, <1>2, <1>4, <1>5

(* The command after each status that a routine waits for.                 *)
LEMMA StartedStep ==
  ASSUME IInv, Started
  PROVE  IInv'
<1>1. CASE Status("start", {"START", "REP_START"}) /\ Proceed(TxByte, "slaw") /\ dr' = SlaW
  <2>1. /\ at = "start" /\ twst \in {"START", "REP_START"} /\ mode = "started" /\ given = 0
    BY <1>1 DEF IInv, Spots, AtStart, Status
  <2>2. /\ cr' = TxByte /\ at' = "slaw" /\ twst' = "busy" /\ dr' = SlaW
        /\ UNCHANGED <<phase, shown, total, eeaddr, len, n, rv, got, mode>>
        /\ UNCHANGED <<present, ptr, given, latch, busy, mem, trouble>>
    BY <1>1 DEF Proceed, Command, main, call, eeprom
  <2>3. TypeOK' /\ Places' /\ Latched' /\ Progress' /\ WritesOnlyText' /\ ShowsMemory' /\ ReleasesBus'
    BY <1>1, <2>1, <2>2, ProceedStep DEF SlaW
  <2>4. Spots' /\ Writing' /\ Reading'
    BY <2>1, <2>2 DEF Spots, AtStart, AtSlaw, AtHigh, AtLow, AtAgain, AtSlar, Sending, Writing, Reading
  <2>5. Patience'
    BY <2>1, <2>2 DEF IInv, Patience, Calm
  <2> QED
    BY <2>3, <2>4, <2>5 DEF IInv
<1>2. CASE Status("start", {"ARB_LOST"}) /\ Begin
  BY <1>2, BeginStep DEF Status
<1>3. CASE Default("start", {"START", "REP_START", "ARB_LOST"}) /\ NoStop
  <2>1. twst = "BUS_ERROR" /\ at = "start"
    BY <1>3 DEF IInv, Spots, AtStart, Default
  <2>2. ~Calm /\ mode = "free"
    BY <2>1 DEF IInv, Patience, Places
  <2> QED
    BY <1>3, <2>1, <2>2, NoStopStep
<1> QED
  BY <1>1, <1>2, <1>3 DEF Started

LEMMA SelectedStep ==
  ASSUME IInv, Selected
  PROVE  IInv'
<1>1. CASE Status("slaw", {"MT_SLA_ACK"}) /\ Proceed(TxByte, "high") /\ dr' = eeaddr \div Radix
  <2>1. /\ at = "slaw" /\ twst = "MT_SLA_ACK" /\ mode = "write" /\ given = 0
    BY <1>1 DEF IInv, Spots, AtSlaw, Status
  <2>2. /\ cr' = TxByte /\ at' = "high" /\ twst' = "busy" /\ dr' = eeaddr \div Radix
        /\ UNCHANGED <<phase, shown, total, eeaddr, len, n, rv, got, mode>>
        /\ UNCHANGED <<present, ptr, given, latch, busy, mem, trouble>>
    BY <1>1 DEF Proceed, Command, main, call, eeprom
  <2> eeaddr \div Radix \in Nat
    BY AddressBytes DEF IInv
  <2>3. TypeOK' /\ Places' /\ Latched' /\ Progress' /\ WritesOnlyText' /\ ShowsMemory' /\ ReleasesBus'
    BY <1>1, <2>1, <2>2, ProceedStep
  <2>4. Spots' /\ Writing' /\ Reading'
    BY <2>1, <2>2 DEF Spots, AtStart, AtSlaw, AtHigh, AtLow, AtAgain, AtSlar, Sending, Writing, Reading
  <2>5. Patience'
    BY <2>1, <2>2 DEF IInv, Patience, Calm
  <2> QED
    BY <2>3, <2>4, <2>5 DEF IInv
<1>2. CASE Status("slaw", {"MT_SLA_NACK"}) /\ Restart
  BY <1>2, RestartStep DEF Status
<1>3. CASE Status("slaw", {"ARB_LOST"}) /\ Begin
  BY <1>3, BeginStep DEF Status
<1>4. CASE Default("slaw", {"MT_SLA_ACK", "MT_SLA_NACK", "ARB_LOST"}) /\ Failure
  <2>1. twst = "BUS_ERROR" /\ at = "slaw"
    BY <1>4 DEF IInv, Spots, AtSlaw, Default
  <2> QED
    BY <1>4, <2>1, FailureStep DEF IInv, Patience
<1> QED
  BY <1>1, <1>2, <1>3, <1>4 DEF Selected

LEMMA HighSentStep ==
  ASSUME IInv, HighSent
  PROVE  IInv'
<1>1. CASE Status("high", {"MT_DATA_ACK"}) /\ Proceed(TxByte, "low") /\ dr' = eeaddr % Radix
  <2>1. /\ at = "high" /\ twst = "MT_DATA_ACK" /\ mode = "write" /\ given = 1 /\ ptr = eeaddr \div Radix
    BY <1>1 DEF IInv, Spots, AtHigh, Sending, Status
  <2>2. /\ cr' = TxByte /\ at' = "low" /\ twst' = "busy" /\ dr' = eeaddr % Radix
        /\ UNCHANGED <<phase, shown, total, eeaddr, len, n, rv, got, mode>>
        /\ UNCHANGED <<present, ptr, given, latch, busy, mem, trouble>>
    BY <1>1 DEF Proceed, Command, main, call, eeprom
  <2> eeaddr % Radix \in Nat
    BY AddressBytes DEF IInv
  <2>3. TypeOK' /\ Places' /\ Latched' /\ Progress' /\ WritesOnlyText' /\ ShowsMemory' /\ ReleasesBus'
    BY <1>1, <2>1, <2>2, ProceedStep
  <2>4. Spots' /\ Writing' /\ Reading'
    BY <2>1, <2>2 DEF Spots, AtStart, AtSlaw, AtHigh, AtLow, AtAgain, AtSlar, Sending, Writing, Reading
  <2>5. Patience'
    BY <2>1, <2>2 DEF IInv, Patience, Calm
  <2> QED
    BY <2>3, <2>4, <2>5 DEF IInv
<1>2. CASE Status("high", {"MT_DATA_NACK"}) /\ Quit
  BY <1>2, QuitStep DEF Status
<1>3. CASE Status("high", {"ARB_LOST"}) /\ Begin
  BY <1>3, BeginStep DEF Status
<1>4. CASE Default("high", {"MT_DATA_ACK", "MT_DATA_NACK", "ARB_LOST"}) /\ Failure
  <2>1. twst = "BUS_ERROR" /\ at = "high"
    BY <1>4 DEF IInv, Spots, AtHigh, Sending, Default
  <2> QED
    BY <1>4, <2>1, FailureStep DEF IInv, Patience
<1> QED
  BY <1>1, <1>2, <1>3, <1>4 DEF HighSent

LEMMA LowSentStep ==
  ASSUME IInv, LowSent
  PROVE  IInv'
<1>1. CASE Status("low", {"MT_DATA_ACK"}) /\ phase # "write" /\ Proceed(TxStart, "again") /\ UNCHANGED dr
  <2>1. /\ at = "low" /\ twst = "MT_DATA_ACK" /\ phase # "write" /\ mode = "write" /\ given = 2 /\ ptr = eeaddr
    BY <1>1 DEF IInv, Spots, AtLow, Sending, Status
  <2>2. /\ cr' = TxStart /\ at' = "again" /\ twst' = "busy" /\ dr' = dr
        /\ UNCHANGED <<phase, shown, total, eeaddr, len, n, rv, got, mode>>
        /\ UNCHANGED <<present, ptr, given, latch, busy, mem, trouble>>
    BY <1>1 DEF Proceed, Command, main, call, eeprom
  <2>3. TypeOK' /\ Places' /\ Latched' /\ Progress' /\ WritesOnlyText' /\ ShowsMemory' /\ ReleasesBus'
    BY <1>1, <2>1, <2>2, ProceedStep DEF IInv, TypeOK
  <2>4. Spots' /\ Writing' /\ Reading'
    BY <2>1, <2>2 DEF Spots, AtStart, AtSlaw, AtHigh, AtLow, AtAgain, AtSlar, Sending, Writing, Reading
  <2>5. Patience'
    BY <2>1, <2>2 DEF IInv, Patience, Calm
  <2> QED
    BY <2>3, <2>4, <2>5 DEF IInv
<1>2. CASE Status("low", {"MT_DATA_ACK"}) /\ phase = "write" /\ Proceed(TxByte, "data") /\ dr' = Text[total + 1]
  <2>1. /\ at = "low" /\ twst = "MT_DATA_ACK" /\ phase = "write" /\ mode = "write" /\ given = 2 /\ ptr = eeaddr
    BY <1>2 DEF IInv, Spots, AtLow, Sending, Status
  <2>2. /\ cr' = TxByte /\ at' = "data" /\ twst' = "busy" /\ dr' = Text[total + 1]
        /\ UNCHANGED <<phase, shown, total, eeaddr, len, n, rv, got, mode>>
        /\ UNCHANGED <<present, ptr, given, latch, busy, mem, trouble>>
    BY <1>2 DEF Proceed, Command, main, call, eeprom
  <2>a. rv = 0 /\ DOMAIN latch = {}
    BY <2>1 DEF IInv, Places, Latched
  <2>b. len \in Nat /\ 0 < len /\ Text[total + 1] \in Nat
    BY <2>1, FirstByte DEF IInv
  <2>c. eeaddr \in Nat /\ total \in Nat /\ eeaddr .. eeaddr + 0 - 1 = {}
    BY Numbers DEF IInv
  <2>3. TypeOK' /\ Places' /\ Latched' /\ Progress' /\ WritesOnlyText' /\ ShowsMemory' /\ ReleasesBus'
    BY <1>2, <2>1, <2>2, <2>a, <2>b, <2>c, ProceedStep
  <2>4. Spots' /\ Writing' /\ Reading'
    BY <2>1, <2>2, <2>a, <2>b, <2>c DEF Spots, AtStart, AtSlaw, AtHigh, AtLow, AtAgain, AtSlar, Sending, Writing, Reading
  <2>5. Patience'
    BY <2>1, <2>2 DEF IInv, Patience, Calm
  <2> QED
    BY <2>3, <2>4, <2>5 DEF IInv
<1>3. CASE Status("low", {"MT_DATA_NACK"}) /\ Quit
  BY <1>3, QuitStep DEF Status
<1>4. CASE Status("low", {"ARB_LOST"}) /\ Begin
  BY <1>4, BeginStep DEF Status
<1>5. CASE Default("low", {"MT_DATA_ACK", "MT_DATA_NACK", "ARB_LOST"}) /\ Failure
  <2>1. twst = "BUS_ERROR" /\ at = "low"
    BY <1>5 DEF IInv, Spots, AtLow, Sending, Default
  <2> QED
    BY <1>5, <2>1, FailureStep DEF IInv, Patience
<1> QED
  BY <1>1, <1>2, <1>3, <1>4, <1>5 DEF LowSent

LEMMA AgainStep ==
  ASSUME IInv, Again
  PROVE  IInv'
<1>1. CASE Status("again", {"START", "REP_START"}) /\ Proceed(TxByte, "slar") /\ dr' = SlaR
  <2>1. /\ at = "again" /\ twst = "REP_START" /\ phase # "write" /\ mode = "started" /\ ptr = eeaddr
    BY <1>1 DEF IInv, Spots, AtAgain, Status
  <2>2. /\ cr' = TxByte /\ at' = "slar" /\ twst' = "busy" /\ dr' = SlaR
        /\ UNCHANGED <<phase, shown, total, eeaddr, len, n, rv, got, mode>>
        /\ UNCHANGED <<present, ptr, given, latch, busy, mem, trouble>>
    BY <1>1 DEF Proceed, Command, main, call, eeprom
  <2>3. TypeOK' /\ Places' /\ Latched' /\ Progress' /\ WritesOnlyText' /\ ShowsMemory' /\ ReleasesBus'
    BY <1>1, <2>1, <2>2, ProceedStep DEF SlaR
  <2>4. Spots' /\ Writing' /\ Reading'
    BY <2>1, <2>2 DEF Spots, AtStart, AtSlaw, AtHigh, AtLow, AtAgain, AtSlar, Sending, Writing, Reading
  <2>5. Patience'
    BY <2>1, <2>2 DEF IInv, Patience, Calm
  <2> QED
    BY <2>3, <2>4, <2>5 DEF IInv
<1>2. CASE Status("again", {"ARB_LOST"}) /\ Begin
  BY <1>2, BeginStep DEF Status
<1>3. CASE Default("again", {"START", "REP_START", "ARB_LOST"}) /\ Failure
  <2>1. twst = "BUS_ERROR" /\ at = "again"
    BY <1>3 DEF IInv, Spots, AtAgain, Default
  <2> QED
    BY <1>3, <2>1, FailureStep DEF IInv, Patience
<1> QED
  BY <1>1, <1>2, <1>3 DEF Again

LEMMA ReselectedStep ==
  ASSUME IInv, Reselected
  PROVE  IInv'
<1>1. CASE Status("slar", {"MR_SLA_ACK"}) /\ Proceed(Ask(0), "data") /\ UNCHANGED dr
  <2>1. /\ at = "slar" /\ twst = "MR_SLA_ACK" /\ phase # "write" /\ mode = "read" /\ ptr = eeaddr
    BY <1>1 DEF IInv, Spots, AtSlar, Status
  <2>2. /\ cr' = Ask(0) /\ at' = "data" /\ twst' = "busy" /\ dr' = dr
        /\ UNCHANGED <<phase, shown, total, eeaddr, len, n, rv, got, mode>>
        /\ UNCHANGED <<present, ptr, given, latch, busy, mem, trouble>>
    BY <1>1 DEF Proceed, Command, main, call, eeprom
  <2>a. rv = 0 /\ got = << >> /\ Len(got) = 0 /\ Ask(0)' = Ask(0)
    BY <2>1, <2>2 DEF IInv, Places, Ask
  <2>b. len \in Nat /\ 0 < len
    <3>1. phase \in {"dump", "check"} /\ TypeOK /\ Progress
      BY <2>1, Active DEF IInv
    <3> QED
      BY <3>1, ReadsSome
  <2>c. eeaddr \in Nat /\ 1 .. 0 = {}
    BY Numbers DEF IInv
  <2>3. TypeOK' /\ Places' /\ Latched' /\ Progress' /\ WritesOnlyText' /\ ShowsMemory' /\ ReleasesBus'
    BY <1>1, <2>1, <2>2, <2>a, <2>b, <2>c, ProceedStep DEF IInv, TypeOK, Ask
  <2>4. Spots' /\ Writing' /\ Reading'
    BY <2>1, <2>2, <2>a, <2>b, <2>c DEF Spots, AtStart, AtSlaw, AtHigh, AtLow, AtAgain, AtSlar, Sending, Writing, Reading
  <2>5. Patience'
    BY <2>1, <2>2 DEF IInv, Patience, Calm
  <2> QED
    BY <2>3, <2>4, <2>5 DEF IInv
<1>2. CASE Status("slar", {"MR_SLA_NACK"}) /\ Quit
  BY <1>2, QuitStep DEF Status
<1>3. CASE Status("slar", {"ARB_LOST"}) /\ Begin
  BY <1>3, BeginStep DEF Status
<1>4. CASE Default("slar", {"MR_SLA_ACK", "MR_SLA_NACK", "ARB_LOST"}) /\ Failure
  <2>1. twst = "BUS_ERROR" /\ at = "slar"
    BY <1>4 DEF IInv, Spots, AtSlar, Default
  <2> QED
    BY <1>4, <2>1, FailureStep DEF IInv, Patience
<1> QED
  BY <1>1, <1>2, <1>3, <1>4 DEF Reselected

(* The bytes of a page.                                                    *)
LEMMA ByteSentStep ==
  ASSUME IInv, ByteSent
  PROVE  IInv'
<1>1. phase = "write"
  BY DEF ByteSent
<1>2. /\ rv \in Nat /\ eeaddr \in Nat /\ total \in Nat /\ len \in Nat /\ len < Word
      /\ len \in 1 .. Len(Text) - total
  BY <1>1, Numbers, Ahead DEF IInv
<1>3. CASE /\ Status("data", {"MT_DATA_ACK"}) /\ rv + 1 < len
           /\ rv' = rv + 1 /\ Command(TxByte, "data") /\ dr' = Text[total + rv + 2]
           /\ UNCHANGED <<main, eeaddr, len, n, got, mode, eeprom, trouble>>
  <2>1. /\ at = "data" /\ twst = "MT_DATA_ACK" /\ mode = "write" /\ given = 2
        /\ DOMAIN latch = eeaddr .. eeaddr + rv /\ ptr = eeaddr + rv + 1
    BY <1>1, <1>3 DEF IInv, Writing, Status
  <2>2. /\ cr' = TxByte /\ at' = "data" /\ twst' = "busy"
        /\ rv' = rv + 1 /\ dr' = Text[total + rv + 2]
        /\ UNCHANGED <<phase, shown, total, eeaddr, len, n, got, mode>>
        /\ UNCHANGED <<present, ptr, given, latch, busy, mem, trouble>>
    BY <1>3 DEF Command, main, eeprom
  <2>3. total + rv + 2 \in 1 .. Len(Text) /\ total + rv' + 1 = total + rv + 2
    <3>1. Len(Text) \in Nat
      BY Constants
    <3> QED
      BY <1>2, <1>3, <2>2, <3>1
  <2>4. dr' \in Nat /\ rv' \in 0..Word-1
    <3>1. Word \in Nat /\ \A k \in 1 .. Len(Text) : Text[k] \in Nat
      BY Constants
    <3>2. dr' \in Nat
      BY <2>2, <2>3, <3>1
    <3>3. rv' \in 0..Word-1
      BY <1>2, <1>3, <2>2, <3>1
    <3> QED
      BY <3>2, <3>3
  <2>5. TypeOK'
    BY <2>1, <2>2, <2>4 DEF IInv, TypeOK
  <2>6. Places'
    BY <2>1, <2>2 DEF IInv, Places
  <2>7. Spots' /\ Reading'
    BY <1>1, <2>2 DEF Spots, AtStart, AtSlaw, AtHigh, AtLow, AtAgain, AtSlar, Reading
  <2>8. Writing'
    <3>1. eeaddr + rv' = eeaddr + rv + 1 /\ eeaddr .. eeaddr + rv' - 1 = eeaddr .. eeaddr + rv
      BY <1>2, <2>2
    <3> QED
      BY <1>1, <1>3, <2>1, <2>2, <2>3, <3>1 DEF Writing
  <2>9. Latched'
    <3>1. eeaddr .. eeaddr + rv \subseteq eeaddr .. eeaddr + rv'
      BY <1>2, <2>2
    <3> QED
      BY <2>2, <2>1, <3>1 DEF IInv, Latched
  <2>10. Progress' /\ WritesOnlyText' /\ ShowsMemory'
    <3>1. Progress'
      BY <2>2 DEF IInv, Progress
    <3>2. WritesOnlyText' /\ ShowsMemory'
      BY <2>2 DEF IInv, WritesOnlyText, ShowsMemory
    <3> QED
      BY <3>1, <3>2
  <2>11. Patience' /\ ReleasesBus'
    BY <2>1, <2>2 DEF IInv, Patience, Calm, ReleasesBus
  <2> QED
    BY <2>5, <2>6, <2>7, <2>8, <2>9, <2>10, <2>11 DEF IInv
<1>4. CASE Status("data", {"MT_DATA_ACK"}) /\ rv + 1 >= len /\ Stop /\ Return(rv + 1, << >>)
  <2>1. at = "data" /\ rv < len /\ DOMAIN latch = eeaddr .. eeaddr + rv
    BY <1>1, <1>4 DEF IInv, Writing, Status
  <2>2. PageReturns(rv + 1) /\ UNCHANGED <<dr, present, ptr, given, trouble>>
    BY <1>1, <1>4 DEF Return, ReadReturns
  <2>3. rv + 1 \in Nat /\ rv + 1 <= len /\ \A i \in 0 .. (rv + 1) - 1 : eeaddr + i \in DOMAIN latch
    BY <1>2, <2>1
  <2> QED
    BY <1>4, <2>1, <2>2, <2>3, PageReturnsStep
<1>5. CASE Default("data", {"MT_DATA_ACK"}) /\ Failure
  <2>1. twst \in {"MT_DATA_NACK", "BUS_ERROR"}
    BY <1>1, <1>5 DEF IInv, Writing, Default
  <2> QED
    BY <1>5, <2>1, FailureStep DEF IInv, Patience
<1> QED
  BY <1>3, <1>4, <1>5 DEF ByteSent

(* The bytes of a read.                                                    *)
LEMMA ByteReceivedStep ==
  ASSUME IInv, ByteReceived
  PROVE  IInv'
<1>1. phase # "write" /\ at = "data"
  BY DEF ByteReceived, Status, Default
<1>2. phase \in {"dump", "check"}
  BY <1>1, Active
<1>3. /\ rv \in Nat /\ eeaddr \in Nat /\ len \in Nat /\ len < Word /\ dr \in Nat
      /\ got \in Seq(Nat) /\ Word \in Nat
  BY Numbers, Constants, Zenon DEF IInv, TypeOK
<1>4. rv < len /\ Len(got) = rv /\ \A i \in 1 .. rv : got[i] = mem[eeaddr + i - 1]
  BY <1>1 DEF IInv, Reading
<1> DEFINE b == Append(got, dr)
<1>5. /\ b \in Seq(Nat) /\ Len(b) = rv + 1
      /\ (dr = mem[eeaddr + rv]) => (\A i \in 1 .. rv + 1 : b[i] = mem[eeaddr + i - 1])
  <2>1. /\ b \in Seq(Nat) /\ Len(b) = rv + 1
        /\ \A i \in 1 .. rv : b[i] = got[i]
        /\ b[rv + 1] = dr
    BY <1>3, <1>4, AppendProperties
  <2> HIDE DEF b
  <2>2. \A i \in 1 .. rv + 1 : i \in 1 .. rv \/ (i = rv + 1 /\ eeaddr + i - 1 = eeaddr + rv)
    BY <1>3
  <2> QED
    BY <1>4, <2>1, <2>2
<1>6. CASE /\ Status("data", {"MR_DATA_ACK"})
           /\ rv' = rv + 1 /\ got' = b /\ Command(Ask(rv + 1), "data")
           /\ UNCHANGED <<main, eeaddr, len, n, dr, mode, eeprom, trouble>>
  <2>1. /\ twst = "MR_DATA_ACK" /\ rv + 1 < len /\ mode = "read"
        /\ ptr = eeaddr + rv + 1 /\ dr = mem[eeaddr + rv]
    BY <1>1, <1>6 DEF IInv, Reading, Status
  <2>2. /\ cr' = Ask(rv + 1) /\ at' = "data" /\ twst' = "busy"
        /\ rv' = rv + 1 /\ got' = b
        /\ UNCHANGED <<phase, shown, total, eeaddr, len, n, dr, mode>>
        /\ UNCHANGED <<present, ptr, given, latch, busy, mem, trouble>>
    BY <1>6 DEF Command, main, eeprom
  <2> HIDE DEF b
  <2>3. TypeOK'
    <3>1. rv' \in 0..Word-1
      BY <1>3, <2>1, <2>2
    <3>2. cr' \in {TxStart, TxByte, TxRead}
      BY <2>2 DEF Ask
    <3> QED
      BY <1>5, <2>2, <3>1, <3>2 DEF IInv, TypeOK
  <2>4. Places' /\ Spots' /\ Writing'
    BY <1>1, <2>1, <2>2 DEF IInv, Places, Spots, AtStart, AtSlaw, AtHigh, AtLow, AtAgain, AtSlar, Writing
  <2>5. Reading'
    <3>1. eeaddr + rv' = eeaddr + rv + 1
      BY <1>3, <2>2
    <3>2. cr' = IF rv' = len' - 1 THEN TxByte ELSE TxRead
      BY <2>2 DEF Ask
    <3>3. Len(got') = rv' /\ \A i \in 1 .. rv' : got'[i] = mem'[eeaddr' + i - 1]
      BY <1>5, <2>1, <2>2
    <3> QED
      BY <2>1, <2>2, <3>1, <3>2, <3>3 DEF Reading, Ask
  <2>6. Latched'
    <3>1. DOMAIN latch = {}
      BY <1>1 DEF IInv, Latched
    <3> QED
      BY <2>2, <3>1 DEF Latched
  <2>7. Progress' /\ WritesOnlyText' /\ ShowsMemory'
    <3>1. Progress'
      BY <2>2 DEF IInv, Progress
    <3>2. WritesOnlyText' /\ ShowsMemory'
      BY <2>2 DEF IInv, WritesOnlyText, ShowsMemory
    <3> QED
      BY <3>1, <3>2
  <2>8. Patience' /\ ReleasesBus'
    BY <1>1, <2>1, <2>2 DEF IInv, Patience, Calm, ReleasesBus
  <2> QED
    BY <2>3, <2>4, <2>5, <2>6, <2>7, <2>8 DEF IInv
<1>7. CASE Status("data", {"MR_DATA_NACK"}) /\ Stop /\ Return(rv + 1, b)
  <2>1. dr = mem[eeaddr + rv]
    BY <1>1, <1>7 DEF IInv, Reading, Status
  <2>2. ReadReturns(rv + 1, b) /\ UNCHANGED <<dr, present, ptr, given, trouble>>
    BY <1>1, <1>7 DEF Return, PageReturns
  <2>3. rv + 1 \in Nat /\ rv + 1 # 0
    BY <1>3
  <2>4. b \in Seq(Nat) /\ \A i \in 1 .. Len(b) : b[i] = mem[eeaddr + i - 1]
    BY <1>5, <2>1
  <2> HIDE DEF b
  <2> QED
    BY <1>1, <1>7, <2>2, <2>3, <2>4, ReadReturnsStep
<1>8. CASE Default("data", {"MR_DATA_ACK", "MR_DATA_NACK"}) /\ Failure
  <2>1. twst \in {"ARB_LOST", "BUS_ERROR"}
    BY <1>1, <1>8 DEF IInv, Reading, Default
  <2> QED
    BY <1>8, <2>1, FailureStep DEF IInv, Patience
<1> QED
  BY <1>6, <1>7, <1>8 DEF ByteReceived

-----------------------------------------------------------------------------
(* The interface, the bus and the EEPROM.                                  *)

(* What an action of the bus leaves alone.                                 *)
LEMMA AnswerStep ==
  ASSUME IInv, NEW s \in {"START", "REP_START", "MT_SLA_ACK", "MT_SLA_NACK",
                          "MT_DATA_ACK", "MT_DATA_NACK", "MR_SLA_ACK", "MR_SLA_NACK",
                          "MR_DATA_ACK", "MR_DATA_NACK", "ARB_LOST", "BUS_ERROR"},
         Answer(s), (s \in {"ARB_LOST", "BUS_ERROR"}) => (mode' = "free"),
         mode' \in {"free", "started", "write", "read", "refused"},
         dr' \in Nat, ptr' \in 0..Word-1, given' \in 0..2, busy' \in 0..MaxBusy,
         latch' \in [DOMAIN latch' -> Nat], DOMAIN latch' \subseteq 0..Word-1,
         mem' \in [0..Word-1 -> Nat], trouble' \in 0..MaxTrouble
  PROVE  /\ TypeOK' /\ Places' /\ Progress' /\ ReleasesBus'
         /\ twst = "busy" /\ twst' = s /\ at # "idle" /\ phase \notin {"done", "failed"}
         /\ UNCHANGED <<phase, shown, total, eeaddr, len, n, rv, got, at, cr, present>>
<1>1. /\ twst = "busy" /\ twst' = s
      /\ UNCHANGED <<phase, shown, total, eeaddr, len, n, rv, got, at, cr, present>>
  BY DEF Answer, main, call
<1>2. TypeOK'
  <2>1. twst' \in {"busy", "none", "START", "REP_START", "MT_SLA_ACK", "MT_SLA_NACK",
                   "MT_DATA_ACK", "MT_DATA_NACK", "MR_SLA_ACK", "MR_SLA_NACK",
                   "MR_DATA_ACK", "MR_DATA_NACK", "ARB_LOST", "BUS_ERROR"}
    BY <1>1
  <2>2. /\ phase' \in {"dump", "write", "check", "done", "failed"}
        /\ shown' \in Seq(Nat) /\ total' \in 0..Len(Text)
        /\ at' \in {"start", "slaw", "high", "low", "again", "slar", "data", "idle"}
        /\ eeaddr' \in 0..Word-1 /\ len' \in 0..Word-1 /\ n' \in 1..MaxIter
        /\ rv' \in 0..Word-1 /\ got' \in Seq(Nat)
        /\ cr' \in {TxStart, TxByte, TxRead} /\ present' \in BOOLEAN
    BY <1>1 DEF IInv, TypeOK
  <2> QED
    BY <2>1, <2>2, Zenon DEF TypeOK
<1>3. at # "idle" /\ phase \notin {"done", "failed"}
  BY <1>1 DEF IInv, Places
<1>4. Places'
  BY <1>1, <1>3 DEF IInv, Places
<1>5. Progress'
  BY <1>1 DEF IInv, Progress
<1>6. ReleasesBus'
  BY <1>1, <1>3 DEF ReleasesBus
<1> QED
  BY <1>1, <1>2, <1>3, <1>4, <1>5, <1>6

(* The memory only changes when something is stored.                       *)
LEMMA SameMemory ==
  ASSUME IInv, UNCHANGED <<phase, shown, total, mem>>
  PROVE  WritesOnlyText' /\ ShowsMemory'
  BY DEF IInv, WritesOnlyText, ShowsMemory

LEMMA MoreTypes ==
  ASSUME IInv
  PROVE  /\ dr \in Nat /\ ptr \in 0..Word-1 /\ given \in 0..2 /\ busy \in 0..MaxBusy
         /\ latch \in [DOMAIN latch -> Nat] /\ DOMAIN latch \subseteq 0..Word-1
         /\ mem \in [0..Word-1 -> Nat] /\ trouble \in 0..MaxTrouble
         /\ mode \in {"free", "started", "write", "read", "refused"}
  BY Zenon DEF IInv, TypeOK

LEMMA NothingLatched ==
  /\ NoBytes \in [DOMAIN NoBytes -> Nat] /\ DOMAIN NoBytes = {}
  /\ DOMAIN NoBytes \subseteq 0..Word-1
  BY DEF NoBytes

LEMMA SendStartStep ==
  ASSUME IInv, SendStart
  PROVE  IInv'
<1> DEFINE s == IF mode = "free" THEN "START" ELSE "REP_START"
<1>1. /\ cr = TxStart /\ Answer(s) /\ mode' = "started" /\ latch' = NoBytes /\ given' = 0
      /\ UNCHANGED <<dr, ptr, busy, mem, trouble>>
  BY DEF SendStart
<1>2. s \in {"START", "REP_START"}
  OBVIOUS
<1>3. /\ TypeOK' /\ Places' /\ Progress' /\ ReleasesBus'
      /\ twst = "busy" /\ twst' = s /\ at # "idle" /\ phase \notin {"done", "failed"}
      /\ UNCHANGED <<phase, shown, total, eeaddr, len, n, rv, got, at, cr, present>>
  BY <1>1, <1>2, AnswerStep, MoreTypes, NothingLatched
<1>4. at \in {"start", "again"} /\ ((at = "again") => (s = "REP_START" /\ phase # "write"))
  <2>1. at # "data"
    BY <1>1, <1>3 DEF IInv, Writing, Reading, Ask, TxStart, TxByte, TxRead
  <2>2. at \notin {"slaw", "high", "low", "slar"}
    BY <1>1 DEF IInv, Spots, AtSlaw, AtHigh, AtLow, AtSlar, TxStart, TxByte
  <2>3. at \in {"start", "slaw", "high", "low", "again", "slar", "data", "idle"}
    BY Zenon DEF IInv, TypeOK
  <2>4. (at = "again") => (mode = "write" /\ phase # "write")
    BY <1>3 DEF IInv, Spots, AtAgain
  <2> QED
    BY <1>3, <2>1, <2>2, <2>3, <2>4
<1> HIDE DEF s
<1>5. Spots' /\ Writing' /\ Reading'
  BY <1>1, <1>2, <1>3, <1>4
     DEF IInv, Spots, AtStart, AtSlaw, AtHigh, AtLow, AtAgain, AtSlar, Writing, Reading
<1>6. Latched'
  BY <1>1, NothingLatched DEF Latched
<1>7. Patience'
  BY <1>1, <1>2, <1>3, <1>4 DEF IInv, Patience, Calm
<1>8. WritesOnlyText' /\ ShowsMemory'
  BY <1>1, <1>3, SameMemory
<1> QED
  BY <1>3, <1>5, <1>6, <1>7, <1>8 DEF IInv

LEMMA SendSelectionStep ==
  ASSUME IInv, SendSelection
  PROVE  IInv'
<1>1. /\ cr = TxByte /\ mode = "started" /\ UNCHANGED <<dr, ptr, given, latch, mem, trouble>>
      /\ busy' = IF busy > 0 THEN busy - 1 ELSE 0
  BY DEF SendSelection
<1>2. twst = "busy" /\ at # "idle" /\ at \in {"slaw", "slar"}
  <2>1. twst = "busy"
    BY DEF SendSelection, Answer
  <2>2. at # "idle"
    BY <2>1 DEF IInv, Places
  <2>3. at # "data"
    BY <1>1, <2>1 DEF IInv, Writing, Reading
  <2>4. at \notin {"start", "high", "low", "again"}
    BY <1>1, <2>1 DEF IInv, Spots, AtStart, AtHigh, AtLow, AtAgain, TxStart, TxByte
  <2>5. at \in {"start", "slaw", "high", "low", "again", "slar", "data", "idle"}
    BY Zenon DEF IInv, TypeOK
  <2> QED
    BY <2>1, <2>2, <2>3, <2>4, <2>5
<1>3. /\ (at = "slaw") => (dr = SlaW /\ given = 0)
      /\ (at = "slar") => (dr = SlaR /\ phase # "write" /\ ptr = eeaddr)
  BY <1>2 DEF IInv, Spots, AtSlaw, AtSlar
<1>4. busy \in Nat /\ MaxBusy \in Nat /\ busy <= MaxBusy /\ n \in Nat
  BY Numbers, Constants DEF IInv
<1>5. busy' \in 0 .. MaxBusy
  BY <1>1, <1>4
<1>6. PICK s \in {"MT_SLA_ACK", "MT_SLA_NACK", "MR_SLA_ACK", "MR_SLA_NACK"} :
        /\ Answer(s) /\ mode' \in {"write", "read", "refused"}
        /\ (at = "slaw") => \/ s = "MT_SLA_ACK" /\ Ready /\ mode' = "write"
                            \/ s = "MT_SLA_NACK" /\ ~Ready
        /\ (at = "slar") => \/ s = "MR_SLA_ACK" /\ Ready /\ mode' = "read"
                            \/ s = "MR_SLA_NACK" /\ ~Ready
  BY <1>2, <1>3 DEF SendSelection, SlaW, SlaR
<1>7. /\ TypeOK' /\ Places' /\ Progress' /\ ReleasesBus'
      /\ twst = "busy" /\ twst' = s /\ at # "idle" /\ phase \notin {"done", "failed"}
      /\ UNCHANGED <<phase, shown, total, eeaddr, len, n, rv, got, at, cr, present>>
  BY <1>1, <1>5, <1>6, AnswerStep, MoreTypes
<1>8. Spots' /\ Writing' /\ Reading'
  BY <1>1, <1>2, <1>3, <1>6, <1>7
     DEF Spots, AtStart, AtSlaw, AtHigh, AtLow, AtAgain, AtSlar, Writing, Reading
<1>9. Latched'
  <2>1. DOMAIN latch = {}
    BY <1>2 DEF IInv, Latched
  <2> QED
    BY <1>1, <2>1 DEF Latched
<1>10. Patience'
  <2>1. CASE ~Calm'
    BY <2>1 DEF Patience
  <2>2. CASE Calm'
    <3>1. Calm
      BY <1>1, <1>7, <2>2 DEF Calm
    <3>2. (at = "slaw") => ((n - 1) + busy <= MaxBusy)
      BY <1>2, <3>1 DEF IInv, Patience
    <3>3. (at = "slar") => (busy = 0)
      BY <3>1 DEF IInv, Patience
    <3>4. CASE at = "slaw" /\ s = "MT_SLA_ACK"
      <4>1. busy' = 0
        BY <1>1, <1>6, <3>4 DEF Ready
      <4> QED
        BY <1>7, <3>4, <4>1 DEF Patience
    <3>5. CASE at = "slaw" /\ s = "MT_SLA_NACK"
      <4>1. busy > 0
        BY <1>4, <1>6, <3>1, <3>5 DEF Ready, Calm
      <4>2. n + busy' <= MaxBusy
        BY <1>1, <1>4, <3>2, <3>5, <4>1
      <4> QED
        BY <1>7, <3>5, <4>2 DEF Patience
    <3>6. CASE at = "slar"
      <4>1. busy' = 0 /\ s = "MR_SLA_ACK"
        BY <1>1, <1>6, <3>1, <3>3, <3>6 DEF Ready, Calm
      <4> QED
        BY <1>7, <3>6, <4>1 DEF Patience
    <3> QED
      BY <1>2, <1>6, <3>4, <3>5, <3>6
  <2> QED
    BY <2>1, <2>2
<1>11. WritesOnlyText' /\ ShowsMemory'
  BY <1>1, <1>7, SameMemory
<1> QED
  BY <1>7, <1>8, <1>9, <1>10, <1>11 DEF IInv

LEMMA ReceiveByteStep ==
  ASSUME IInv, ReceiveByte
  PROVE  IInv'
<1> DEFINE s == IF cr = TxRead THEN "MR_DATA_ACK" ELSE "MR_DATA_NACK"
<1>1. /\ cr \in {TxByte, TxRead} /\ mode = "read" /\ Answer(s)
      /\ dr' = mem[ptr] /\ ptr' = (ptr + 1) % Word
      /\ UNCHANGED <<mode, given, latch, busy, mem, trouble>>
  BY DEF ReceiveByte
<1>2. twst = "busy" /\ at = "data" /\ phase # "write"
  <2>1. twst = "busy"
    BY <1>1 DEF Answer
  <2>2. at # "idle"
    BY <2>1 DEF IInv, Places
  <2>3. at \notin {"start", "slaw", "high", "low", "again", "slar"}
    BY <1>1, <2>1
       DEF IInv, Spots, AtStart, AtSlaw, AtHigh, AtLow, AtAgain, AtSlar, TxStart, TxByte, TxRead
  <2>4. at \in {"start", "slaw", "high", "low", "again", "slar", "data", "idle"}
    BY Zenon DEF IInv, TypeOK
  <2>5. at = "data"
    BY <2>2, <2>3, <2>4
  <2>6. phase # "write"
    BY <1>1, <2>1, <2>5 DEF IInv, Writing
  <2> QED
    BY <2>1, <2>5, <2>6
<1>3. phase \in {"dump", "check"}
  BY <1>2, Active
<1>4. /\ rv \in Nat /\ eeaddr \in Nat /\ len \in Nat /\ Word \in Nat \ {0} /\ eeaddr + len < Word
  BY <1>3, Numbers, Constants, AheadRead DEF IInv
<1>5. /\ rv < len /\ cr = Ask(rv) /\ ptr = eeaddr + rv
      /\ Len(got) = rv /\ \A i \in 1 .. rv : got[i] = mem[eeaddr + i - 1]
  BY <1>2 DEF IInv, Reading
<1>6. ptr' = eeaddr + rv + 1 /\ ptr' \in 0..Word-1
  <2>1. ptr + 1 \in Nat /\ ptr + 1 < Word /\ ptr + 1 = eeaddr + rv + 1
    BY <1>4, <1>5
  <2>2. (ptr + 1) % Word = ptr + 1
    BY <1>4, <2>1, Small
  <2> QED
    BY <1>1, <1>4, <2>1, <2>2
<1>7. s \in {"MR_DATA_ACK", "MR_DATA_NACK"} /\ ((s = "MR_DATA_ACK") <=> (rv + 1 # len))
  <2>1. (rv = len - 1) <=> (rv + 1 = len)
    BY <1>4
  <2>2. (cr = TxRead) <=> (rv + 1 # len)
    BY <1>5, <2>1 DEF Ask, TxByte, TxRead
  <2> QED
    BY <2>2
<1>8. dr' \in Nat
  BY <1>1, MoreTypes, Numbers DEF IInv
<1>9. /\ TypeOK' /\ Places' /\ Progress' /\ ReleasesBus'
      /\ twst = "busy" /\ twst' = s /\ at # "idle" /\ phase \notin {"done", "failed"}
      /\ UNCHANGED <<phase, shown, total, eeaddr, len, n, rv, got, at, cr, present>>
  BY <1>1, <1>6, <1>7, <1>8, AnswerStep, MoreTypes
<1> HIDE DEF s
<1>10. Spots' /\ Writing'
  BY <1>2, <1>9 DEF Spots, AtStart, AtSlaw, AtHigh, AtLow, AtAgain, AtSlar, Writing
<1>11. Reading'
  <2>1. (rv + 1 # len) => (rv + 1 < len)
    BY <1>4, <1>5
  <2> QED
    BY <1>1, <1>2, <1>5, <1>6, <1>7, <1>9, <2>1 DEF Reading, Ask
<1>12. Latched'
  <2>1. DOMAIN latch = {}
    BY <1>2 DEF IInv, Latched
  <2> QED
    BY <1>1, <2>1 DEF Latched
<1>13. Patience'
  BY <1>1, <1>2, <1>7, <1>9 DEF IInv, Patience, Calm
<1>14. WritesOnlyText' /\ ShowsMemory'
  BY <1>1, <1>9, SameMemory
<1> QED
  BY <1>9, <1>10, <1>11, <1>12, <1>13, <1>14 DEF IInv

(* The bytes of the address, then the bytes to write, each in its place.   *)
LEMMA SendDataStep ==
  ASSUME IInv, SendData
  PROVE  IInv'
<1>1. /\ cr = TxByte /\ mode = "write" /\ Answer("MT_DATA_ACK")
      /\ UNCHANGED <<dr, mode, busy, mem, trouble>>
  BY DEF SendData
<1>2. twst = "busy" /\ at \in {"high", "low", "data"} /\ ((at = "data") => (phase = "write"))
  <2>1. twst = "busy"
    BY <1>1 DEF Answer
  <2>2. at # "idle"
    BY <2>1 DEF IInv, Places
  <2>3. at \notin {"start", "slaw", "again", "slar"}
    BY <1>1, <2>1 DEF IInv, Spots, AtStart, AtSlaw, AtAgain, AtSlar, TxStart, TxByte
  <2>4. at \in {"start", "slaw", "high", "low", "again", "slar", "data", "idle"}
    BY Zenon DEF IInv, TypeOK
  <2>5. (at = "data") => (phase = "write")
    BY <1>1, <2>1 DEF IInv, Reading
  <2> QED
    BY <2>1, <2>2, <2>3, <2>4, <2>5
<1>3. ASSUME ptr' \in 0..Word-1, given' \in 0..2, Spots', Writing', Latched',
             latch' \in [DOMAIN latch' -> Nat], DOMAIN latch' \subseteq 0..Word-1
      PROVE  IInv'
  <2>1. /\ TypeOK' /\ Places' /\ Progress' /\ ReleasesBus'
        /\ twst' = "MT_DATA_ACK"
        /\ UNCHANGED <<phase, shown, total, eeaddr, len, n, rv, got, at, cr, present>>
    BY <1>1, <1>3, AnswerStep, MoreTypes
  <2>2. Reading'
    BY <1>2, <2>1 DEF Reading
  <2>3. Patience'
    BY <1>1, <1>2, <2>1 DEF IInv, Patience, Calm
  <2>4. WritesOnlyText' /\ ShowsMemory'
    BY <1>1, <2>1, SameMemory
  <2> QED
    BY <1>3, <2>1, <2>2, <2>3, <2>4 DEF IInv
<1>4. /\ twst' = "MT_DATA_ACK"
      /\ UNCHANGED <<phase, shown, total, eeaddr, len, n, rv, got, at, cr, present>>
  BY <1>1 DEF Answer, main, call
<1>5. /\ eeaddr \div Radix \in Nat /\ eeaddr % Radix \in Nat
      /\ (eeaddr \div Radix) % Radix = eeaddr \div Radix
      /\ (eeaddr % Radix) % Radix = eeaddr % Radix
      /\ ((eeaddr \div Radix) * Radix) + (eeaddr % Radix) = eeaddr
      /\ eeaddr \in 0..Word-1
  BY AddressBytes, Zenon DEF IInv, TypeOK
<1> DEFINE Q == eeaddr \div Radix
           M == eeaddr % Radix
<1>6. CASE at = "high"
  <2>1. given = 0 /\ dr = Q
    BY <1>2, <1>6 DEF IInv, Spots, AtHigh
  <2>2. given' = 1 /\ ptr' = dr % Radix /\ latch' = latch
    BY <2>1 DEF SendData
  <2>3. ptr' = Q
    BY <1>5, <2>1, <2>2
  <2>4. ptr' \in 0..Word-1
    <3>1. Word \in Nat \ {0} /\ Radix \in Nat \ {0} /\ eeaddr \in Nat /\ eeaddr < Word
      BY Numbers, Constants DEF IInv
    <3>2. Q \in Nat /\ M \in Nat /\ (Q * Radix) + M = eeaddr
      BY <1>5
    <3> HIDE DEF Q, M
    <3>3. Q <= Q * Radix
      BY <3>1, <3>2
    <3> QED
      BY <2>3, <3>1, <3>2, <3>3
  <2>5. Spots' /\ Writing'
    BY <1>1, <1>4, <1>6, <2>2, <2>3
       DEF Spots, AtStart, AtSlaw, AtHigh, AtLow, AtAgain, AtSlar, Sending, Writing
  <2>6. Latched'
    <3>1. DOMAIN latch = {}
      BY <1>6 DEF IInv, Latched
    <3> QED
      BY <2>2, <3>1 DEF Latched
  <2> QED
    BY <1>3, <2>2, <2>4, <2>5, <2>6, MoreTypes
<1>7. CASE at = "low"
  <2>1. given = 1 /\ ptr = Q /\ dr = M
    BY <1>2, <1>7 DEF IInv, Spots, AtLow
  <2>2. given' = 2 /\ ptr' = (ptr * Radix) + (dr % Radix) /\ latch' = latch
    BY <2>1 DEF SendData
  <2>3. ptr' = eeaddr
    BY <1>5, <2>1, <2>2
  <2>4. Spots' /\ Writing'
    BY <1>1, <1>4, <1>7, <2>2, <2>3
       DEF Spots, AtStart, AtSlaw, AtHigh, AtLow, AtAgain, AtSlar, Sending, Writing
  <2>5. Latched'
    <3>1. DOMAIN latch = {}
      BY <1>7 DEF IInv, Latched
    <3> QED
      BY <2>2, <3>1 DEF Latched
  <2> QED
    BY <1>3, <1>5, <2>2, <2>3, <2>4, <2>5, MoreTypes
<1>8. CASE at = "data"
  <2>1. /\ phase = "write" /\ rv < len /\ given = 2 /\ ptr = eeaddr + rv
        /\ dr = Text[total + rv + 1] /\ DOMAIN latch = eeaddr .. eeaddr + rv - 1
    BY <1>2, <1>8 DEF IInv, Writing
  <2>2. /\ given' = 2
        /\ latch' = [a \in DOMAIN latch \cup {ptr} |-> IF a = ptr THEN dr ELSE latch[a]]
        /\ ptr' = IF ptr = PageLast(ptr) THEN PageFirst(ptr) ELSE ptr + 1
    BY <2>1 DEF SendData
  <2>3. /\ rv \in Nat /\ eeaddr \in Nat /\ total \in Nat /\ len \in Nat /\ Word \in Nat
        /\ dr \in Nat /\ ptr \in Nat /\ ptr < Word
    BY Numbers, Constants DEF IInv
  <2>4. /\ eeaddr + rv \in 0..Word-1 /\ Goal[eeaddr + rv] = Text[total + rv + 1]
        /\ (rv + 1 < len) => (ptr # PageLast(ptr))
        /\ eeaddr + len < Word
    <3>1. rv \in 0 .. len - 1
      BY <2>1, <2>3
    <3> QED
      BY <2>1, <3>1, Ahead DEF IInv
  <2>5. DOMAIN latch' = eeaddr .. eeaddr + rv
    <3>1. DOMAIN latch' = (eeaddr .. eeaddr + rv - 1) \cup {eeaddr + rv}
      BY <2>1, <2>2
    <3> QED
      BY <2>3, <3>1
  <2>6. ptr' \in 0..Word-1 /\ ((rv + 1 < len) => (ptr' = eeaddr + rv + 1))
    <3>1. CASE ptr = PageLast(ptr)
      <4>1. PageFirst(ptr) \in 0 .. ptr
        BY <2>3, PageFacts
      <4> QED
        BY <2>2, <2>3, <2>4, <3>1, <4>1
    <3>2. CASE ptr # PageLast(ptr)
      BY <2>1, <2>2, <2>3, <2>4, <3>2
    <3> QED
      BY <3>1, <3>2
  <2>7. Spots' /\ Writing'
    BY <1>1, <1>4, <1>8, <2>1, <2>2, <2>5, <2>6
       DEF Spots, AtStart, AtSlaw, AtHigh, AtLow, AtAgain, AtSlar, Writing
  <2>8. Latched'
    <3>1. \A a \in DOMAIN latch : latch[a] = Goal[a]
      BY DEF IInv, Latched
    <3>2. \A a \in DOMAIN latch' : latch'[a] = Goal[a]
      BY <2>1, <2>2, <2>4, <3>1
    <3> QED
      BY <1>4, <1>8, <2>1, <2>5, <3>2 DEF Latched
  <2>9. latch' \in [DOMAIN latch' -> Nat] /\ DOMAIN latch' \subseteq 0..Word-1
    <3>1. latch' \in [DOMAIN latch' -> Nat]
      BY <2>2, <2>3, MoreTypes
    <3>2. eeaddr .. eeaddr + rv \subseteq 0..Word-1
      BY <2>3, <2>4
    <3> QED
      BY <2>5, <3>1, <3>2
  <2> QED
    BY <1>3, <2>2, <2>6, <2>7, <2>8, <2>9
<1> QED
  BY <1>2, <1>6, <1>7, <1>8

(* Something happens on the bus: the driver sees it in the status.         *)
LEMMA LoseArbitrationStep ==
  ASSUME IInv, LoseArbitration
  PROVE  IInv'
<1>1. /\ Answer("ARB_LOST") /\ trouble < MaxTrouble /\ trouble' = trouble + 1
      /\ cr # TxRead /\ ~(mode = "write" /\ given = 2 /\ cr = TxByte)
      /\ mode' = "free" /\ latch' = NoBytes /\ given' = 0 /\ ptr' \in 0..Word-1
      /\ UNCHANGED <<dr, busy, mem>>
  BY DEF LoseArbitration, Meets
<1>2. trouble' \in 0..MaxTrouble /\ trouble' # 0
  <2>1. trouble \in Nat /\ MaxTrouble \in Nat
    BY Numbers, Constants DEF IInv
  <2> QED
    BY <1>1, <2>1
<1>3. /\ TypeOK' /\ Places' /\ Progress' /\ ReleasesBus'
      /\ twst = "busy" /\ twst' = "ARB_LOST" /\ at # "idle" /\ phase \notin {"done", "failed"}
      /\ UNCHANGED <<phase, shown, total, eeaddr, len, n, rv, got, at, cr, present>>
  BY <1>1, <1>2, AnswerStep, MoreTypes, NothingLatched
<1>4. Spots'
  BY <1>1, <1>3 DEF IInv, Spots, AtStart, AtSlaw, AtHigh, AtLow, AtAgain, AtSlar, Sending
<1>5. ~(at = "data" /\ phase = "write")
  BY <1>1, <1>3 DEF IInv, Writing
<1>6. Writing'
  BY <1>3, <1>5 DEF Writing
<1>7. Reading'
  BY <1>1, <1>3 DEF IInv, Reading, Ask
<1>8. Latched'
  BY <1>1, NothingLatched DEF Latched
<1>9. Patience'
  BY <1>2 DEF Patience, Calm
<1>10. WritesOnlyText' /\ ShowsMemory'
  BY <1>1, <1>3, SameMemory
<1> QED
  BY <1>3, <1>4, <1>6, <1>7, <1>8, <1>9, <1>10 DEF IInv

LEMMA MeetErrorStep ==
  ASSUME IInv, MeetError
  PROVE  IInv'
<1>1. /\ Answer("BUS_ERROR") /\ trouble < MaxTrouble /\ trouble' = trouble + 1
      /\ mode' = "free" /\ latch' = NoBytes /\ UNCHANGED <<dr, ptr, given>>
      /\ \/ UNCHANGED <<mem, busy>>
         \/ DOMAIN latch # {} /\ mem' = Stored /\ busy' \in 0..MaxBusy
  BY DEF MeetError, Meets
<1>2. trouble' \in 0..MaxTrouble /\ trouble' # 0
  <2>1. trouble \in Nat /\ MaxTrouble \in Nat
    BY Numbers, Constants DEF IInv
  <2> QED
    BY <1>1, <2>1
<1>3. /\ mem' \in [0..Word-1 -> Nat] /\ busy' \in 0..MaxBusy
      /\ \A a \in 0..Word-1 : mem'[a] \in {mem[a], Goal[a]}
      /\ (phase # "write") => (mem' = mem)
  <2>1. CASE UNCHANGED <<mem, busy>>
    BY <2>1, MoreTypes
  <2>2. CASE DOMAIN latch # {} /\ mem' = Stored /\ busy' \in 0..MaxBusy
    <3>1. phase = "write" /\ \A a \in DOMAIN latch : latch[a] = Goal[a]
      BY <2>2 DEF IInv, Latched
    <3>2. mem' = [a \in 0..Word-1 |-> IF a \in DOMAIN latch THEN latch[a] ELSE mem[a]]
      BY <2>2 DEF Stored
    <3> QED
      BY <2>2, <3>1, <3>2, MoreTypes
  <2> QED
    BY <1>1, <2>1, <2>2
<1>4. /\ TypeOK' /\ Places' /\ Progress' /\ ReleasesBus'
      /\ twst = "busy" /\ twst' = "BUS_ERROR" /\ at # "idle" /\ phase \notin {"done", "failed"}
      /\ UNCHANGED <<phase, shown, total, eeaddr, len, n, rv, got, at, cr, present>>
  BY <1>1, <1>2, <1>3, AnswerStep, MoreTypes, NothingLatched
<1>5. Spots'
  BY <1>1, <1>4 DEF IInv, Spots, AtStart, AtSlaw, AtHigh, AtLow, AtAgain, AtSlar, Sending
<1>6. Writing'
  BY <1>4 DEF IInv, Writing
<1>7. Reading'
  BY <1>3, <1>4 DEF IInv, Reading, Ask
<1>8. Latched'
  BY <1>1, NothingLatched DEF Latched
<1>9. Patience'
  BY <1>2 DEF Patience, Calm
<1>10. WritesOnlyText'
  BY <1>3, <1>4, StillWritten DEF IInv
<1>11. ShowsMemory'
  BY <1>3, <1>4 DEF IInv, ShowsMemory
<1> QED
  BY <1>4, <1>5, <1>6, <1>7, <1>8, <1>9, <1>10, <1>11 DEF IInv

LEMMA RefuseStep ==
  ASSUME IInv, Refuse
  PROVE  IInv'
<1>1. PICK s \in {"MT_SLA_NACK", "MR_SLA_NACK", "MT_DATA_NACK"} :
        /\ Answer(s) /\ trouble < MaxTrouble /\ trouble' = trouble + 1
        /\ \/ mode = "started" /\ s = IF dr = SlaW THEN "MT_SLA_NACK" ELSE "MR_SLA_NACK"
           \/ mode = "write" /\ s = "MT_DATA_NACK"
  BY DEF Refuse, Meets
<1>2. /\ cr = TxByte /\ mode' = "refused" /\ latch' \in {latch, NoBytes}
      /\ UNCHANGED <<dr, ptr, given, busy, mem>>
  BY DEF Refuse
<1>3. trouble' \in 0..MaxTrouble /\ trouble' # 0
  <2>1. trouble \in Nat /\ MaxTrouble \in Nat
    BY Numbers, Constants DEF IInv
  <2> QED
    BY <1>1, <2>1
<1>4. latch' \in [DOMAIN latch' -> Nat] /\ DOMAIN latch' \subseteq 0..Word-1
  <2>1. CASE latch' = latch
    BY <2>1, MoreTypes
  <2>2. CASE latch' = NoBytes
    BY <2>2, NothingLatched
  <2> QED
    BY <1>2, <2>1, <2>2
<1>5. /\ TypeOK' /\ Places' /\ Progress' /\ ReleasesBus'
      /\ twst = "busy" /\ twst' = s /\ at # "idle" /\ phase \notin {"done", "failed"}
      /\ UNCHANGED <<phase, shown, total, eeaddr, len, n, rv, got, at, cr, present>>
  BY <1>1, <1>2, <1>3, <1>4, AnswerStep, MoreTypes
<1>6. Spots'
  BY <1>1, <1>2, <1>5
     DEF IInv, Spots, AtStart, AtSlaw, AtHigh, AtLow, AtAgain, AtSlar, Sending,
         SlaW, SlaR, TxStart, TxByte
<1>7. Writing' /\ Reading'
  BY <1>1, <1>5 DEF IInv, Writing, Reading
<1>8. Latched'
  <2>1. CASE latch' = latch
    BY <1>5, <2>1 DEF IInv, Latched
  <2>2. CASE latch' = NoBytes
    BY <2>2, NothingLatched DEF Latched
  <2> QED
    BY <1>2, <2>1, <2>2
<1>9. Patience'
  BY <1>3 DEF Patience, Calm
<1>10. WritesOnlyText' /\ ShowsMemory'
  BY <1>2, <1>5, SameMemory
<1> QED
  BY <1>5, <1>6, <1>7, <1>8, <1>9, <1>10 DEF IInv

-----------------------------------------------------------------------------
(* The theorems.                                                           *)

LEMMA InitStep ==
  ASSUME Init
  PROVE  IInv
<1>1. /\ phase = "dump" /\ shown = << >> /\ total = 0
      /\ eeaddr = 0 /\ len = Chunk /\ n = 1 /\ rv = 0 /\ got = << >>
      /\ at = "start" /\ cr = TxStart /\ dr = 0 /\ twst = "busy"
      /\ mode = "free"
      /\ present \in BOOLEAN /\ ptr \in 0..Word-1 /\ given = 0 /\ latch = NoBytes
      /\ busy \in 0..MaxBusy /\ mem = Before /\ trouble = 0
  BY DEF Init
<1>2. /\ Len(Text) \in Nat /\ TextAt \in Nat /\ Word \in Nat \ {0} /\ Chunk \in Nat
      /\ MemoryEnd \in Nat \ {0} /\ MemoryEnd + Chunk < Word /\ MaxIter \in Nat \ {0}
      /\ MaxBusy \in Nat /\ MaxTrouble \in Nat /\ Before \in [0..Word-1 -> Nat]
  BY Constants
<1>3. TypeOK
  <2>1. shown \in Seq(Nat) /\ got \in Seq(Nat)
    BY <1>1, EmptySeq
  <2>2. /\ total \in 0..Len(Text) /\ eeaddr \in 0..Word-1 /\ len \in 0..Word-1 /\ n \in 1..MaxIter
        /\ rv \in 0..Word-1 /\ trouble \in 0..MaxTrouble
    BY <1>1, <1>2
  <2>3. latch \in [DOMAIN latch -> Nat] /\ DOMAIN latch \subseteq 0..Word-1
    BY <1>1, NothingLatched
  <2> QED
    BY <1>1, <1>2, <2>1, <2>2, <2>3 DEF TypeOK
<1>4. Places /\ Spots /\ Writing /\ Reading
  BY <1>1 DEF Places, Spots, AtStart, AtSlaw, AtHigh, AtLow, AtAgain, AtSlar, Writing, Reading
<1>5. Latched
  BY <1>1, NothingLatched DEF Latched
<1>6. Progress /\ ShowsMemory
  <2>1. Len(shown) = 0
    BY <1>1
  <2> QED
    BY <1>1, <1>2, <2>1 DEF Progress, ShowsMemory
<1>7. Patience
  <2>1. (n - 1) + busy <= MaxBusy
    BY <1>1, <1>2
  <2> QED
    BY <1>1, <2>1 DEF Patience
<1>8. WritesOnlyText /\ ReleasesBus
  <2>1. TextAt .. TextAt + total - 1 = {}
    BY <1>1, <1>2
  <2> QED
    BY <1>1, <2>1 DEF WritesOnlyText, ReleasesBus
<1> QED
  BY <1>3, <1>4, <1>5, <1>6, <1>7, <1>8 DEF IInv

LEMMA NextStep ==
  ASSUME IInv, [Next]_vars
  PROVE  IInv'
<1>1. CASE Driver
  BY <1>1, StartedStep, SelectedStep, HighSentStep, LowSentStep, ByteSentStep, AgainStep,
     ReselectedStep, ByteReceivedStep DEF Driver
<1>2. CASE Bus
  BY <1>2, SendStartStep, SendSelectionStep, SendDataStep, ReceiveByteStep,
     LoseArbitrationStep, MeetErrorStep, RefuseStep DEF Bus
<1>3. CASE UNCHANGED vars
  <2>1. /\ UNCHANGED <<phase, shown, total, eeaddr, len, n, rv, got, at, cr, dr, twst, mode>>
        /\ UNCHANGED <<present, ptr, given, latch, busy, mem, trouble>>
    BY <1>3 DEF vars, main, call, twi, eeprom
  <2>2. TypeOK' /\ Places' /\ Progress'
    BY <2>1 DEF IInv, TypeOK, Places, Progress
  <2>3. Spots' /\ Writing' /\ Reading'
    BY <2>1 DEF IInv, Spots, AtStart, AtSlaw, AtHigh, AtLow, AtAgain, AtSlar, Writing, Reading, Ask
  <2>4. Latched' /\ Patience' /\ WritesOnlyText' /\ ShowsMemory' /\ ReleasesBus'
    BY <2>1 DEF IInv, Latched, Patience, Calm, WritesOnlyText, ShowsMemory, ReleasesBus
  <2> QED
    BY <2>2, <2>3, <2>4 DEF IInv
<1> QED
  BY <1>1, <1>2, <1>3 DEF Next

LEMMA Invariance == Spec => []IInv
  BY InitStep, NextStep, PTL DEF Spec

(* Every variable of the driver and of the bus keeps its type: the counts  *)
(* of main, ee24xx_write_bytes and the routines stay in range.             *)
THEOREM TypeCorrect == Spec => []TypeOK
<1>1. IInv => TypeOK
  BY DEF IInv
<1> QED
  BY <1>1, Invariance, PTL

(* For every text, page size and memory, whatever happens on the bus: only *)
(* the bytes of the text are ever changed, to what the text says, and what *)
(* ee24xx_write_bytes counts is written.                                   *)
THEOREM WritesOnlyTextCorrect == Spec => []WritesOnlyText
<1>1. IInv => WritesOnlyText
  BY DEF IInv
<1> QED
  BY <1>1, Invariance, PTL

(* The dumps of main show the memory, and main ends well only if the text  *)
(* is written.                                                             *)
THEOREM ShowsMemoryCorrect == Spec => []ShowsMemory
<1>1. IInv => ShowsMemory
  BY DEF IInv
<1> QED
  BY <1>1, Invariance, PTL

(* A routine begins on a free bus and leaves it free, unless it gives up   *)
(* after MAX_ITER selections.                                              *)
THEOREM ReleasesBusCorrect == Spec => []ReleasesBus
<1>1. IInv => ReleasesBus
  BY DEF IInv
<1> QED
  BY <1>1, Invariance, PTL

(* With fewer refusals after a write than MAX_ITER, main only fails when   *)
(* the EEPROM is missing or something happened on the bus.                 *)
THEOREM FailsForAReasonCorrect == Spec => []FailsForAReason
<1>1. ASSUME IInv
      PROVE  FailsForAReason
  <2>1. Calm => (phase # "failed")
    BY <1>1 DEF IInv, Patience
  <2>2. trouble \in Nat
    BY <1>1, Numbers DEF IInv
  <2> QED
    BY <2>1, <2>2 DEF Calm, FailsForAReason
<1> QED
  BY <1>1, Invariance, PTL

=============================================================================
