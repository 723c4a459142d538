------------------------- MODULE SwuartSync_proofs -------------------------
(***************************************************************************)
(* Proofs about SwuartSync, for any set of builds and any low levels.      *)
(***************************************************************************)
EXTENDS SwuartSync, TLAPS

-----------------------------------------------------------------------------
(* Arithmetic.                                                             *)

LEMMA WordSmall ==
  ASSUME NEW n \in Nat, n < 65536
  PROVE  Word(n) = n
  BY SMT DEF Word

\* The divisions round to the nearest.
LEMMA DivRounds ==
  ASSUME NEW n \in Nat, n < 65532
  PROVE  /\ build.div = 1 => Div(n) = n
         /\ build.div = 2 => Div(n) \in Nat /\ 2 * Div(n) \in n .. n + 1
         /\ build.div = 4 => Div(n) \in Nat /\ 4 * Div(n) \in n - 1 .. n + 2
         /\ build.div = 8 => Div(n) \in Nat /\ 8 * Div(n) \in n - 3 .. n + 4
  BY SMT DEF Div, Word

LEMMA HalfRounds ==
  ASSUME NEW n \in Nat, n < 65535
  PROVE  Half(n) \in Nat /\ 2 * Half(n) \in n .. n + 1
  BY SMT DEF Half, Word

LEMMA CeilDivRounds ==
  ASSUME NEW n \in Int, n >= -4
  PROVE  /\ AtLeast(CeilDiv(n, 5), 0) \in Nat
         /\ 5 * AtLeast(CeilDiv(n, 5), 0) \in n .. n + 4
  BY SMT DEF AtLeast, CeilDiv

\* A polling loop of 5 cycles measures d.
LEMMA PolledNear ==
  ASSUME NEW d \in Nat, 28 <= d, d < 327650, NEW t \in Polled(d)
  PROVE  /\ t \in Nat /\ t < 65536
         /\ Bootloader => 5 * t \in d - 1 .. d + 5
         /\ ~ Bootloader /\ build.bn = 8 => 5 * t \in d - 1 .. d + 4
         /\ ~ Bootloader /\ build.bn # 8 => 5 * t \in d - 2 .. d + 3
  <1>1. PICK l \in Lateness :
          t = Word(FirstCount + AtLeast(CeilDiv(d - Before - l, 5), 0))
    BY DEF Polled
  <1> DEFINE n == d - Before - l
             q == AtLeast(CeilDiv(n, 5), 0)
  <1>2. /\ Bootloader => l \in 0 .. 2 /\ Before = 4 /\ FirstCount = 1
        /\ ~ Bootloader => l \in 0 .. 1 /\ FirstCount = 6
        /\ ~ Bootloader /\ build.bn = 8 => Before = 30
        /\ ~ Bootloader /\ build.bn # 8 => Before = 31
    BY <1>1, SMT DEF Lateness, Before, FirstCount
  <1>3. n \in Int /\ n >= -4
    BY <1>2, SMT
  <1>4. n = d - Before - l /\ q = AtLeast(CeilDiv(n, 5), 0) /\ t = Word(FirstCount + q)
    BY <1>1
  <1> HIDE DEF n, q
  <1>5. q \in Nat /\ 5 * q \in n .. n + 4
    BY <1>3, <1>4, CeilDivRounds, SMT
  <1>6. FirstCount + q \in Nat /\ FirstCount + q < 65536
    BY <1>2, <1>3, <1>4, <1>5, SMT
  <1>7. Word(FirstCount + q) = FirstCount + q
    BY <1>6, WordSmall
  <1> QED
    BY <1>2, <1>4, <1>5, <1>6, <1>7, SMT

-----------------------------------------------------------------------------
(* Speeds at which every sample is inside its slot, whatever the counts of   *)
(* a measure: the rounding of dt0, dtn and of the measure is less than what  *)
(* the ninth sample may be off; 1.5 bit, and the sums of the routines, fit   *)
(* in their registers.                                                       *)

Speeds == {b \in Nat :
  /\ build.routine = "5_1" => /\ b >= 72
                              /\ build.div = 2 => b >= 90
                              /\ build.div = 4 => b >= 107
                              /\ build.div = 8 => b >= 137
  /\ build.routine = "9_1" => /\ b >= 29 /\ b <= 32765
                              /\ build.div = 2 => b >= 33
                              /\ build.div = 4 => b >= 50
                              /\ build.div = 8 => b >= 84
  /\ build.routine = "5_1_nb" => b >= 177 /\ build.div \in {4, 8}
  /\ build.routine = "9_1_nb" => b >= 177 /\ build.div = 8
  /\ Bootloader => b >= 46
  /\ build.routine = "diabolo_10_1" => b <= 31204
  /\ b <= 43689
  /\ build.bn = 8 => b <= 170 * build.div + 18}

\* The bit of b cycles that a routine finds, or that the program gives.
Near(b) == {c \in Nat :
  /\ build.routine = "5_1" => c \in b - 2 .. b + 4
  /\ Bootloader \/ build.routine = "9_1" => c \in b .. b + 1
  /\ build.routine \in {"5_1_nb", "9_1_nb"} =>
       c = b \/ (c \in b - build.div .. b + build.div /\ c % build.div = 0)}

InSlot(b) ==
  \A k \in 1 .. (IF Bootloader THEN 8 ELSE 9) :
    SampledAt(k) \subseteq k * b .. (k + 1) * b - 1


\* What drifts at a constant rate is right in between if it is at both ends.
LEMMA Linear ==
  ASSUME NEW x \in Int, NEW y \in Int, NEW e \in Int, NEW k \in 1 .. 9,
         0 <= x, 0 <= x + 8 * e, 0 <= y, 0 <= y - 8 * e
  PROVE  0 <= x + (k - 1) * e /\ 0 <= y - (k - 1) * e
  <1>1. k \in {1, 2, 3, 4, 5, 6, 7, 8, 9}
    BY SMT
  <1> QED
    BY <1>1, SMT

\* The k-th sample of an UART: f cycles for the first one, p for the others.
LEMMA SampleInSlot ==
  ASSUME NEW D \in {1, 2, 4, 8}, NEW b \in Nat, NEW c \in Nat, NEW h \in Nat,
         NEW p \in Nat, NEW f \in Int, NEW k \in 1 .. 9,
         2 * h \in c .. c + 1,
         D = 1 => p = c               /\ f = c + h - 5,
         D = 2 => p \in c .. c + 1     /\ f \in c + h - 5 .. c + h - 4,
         D = 4 => p % 4 = 0 /\ p \in c - 1 .. c + 2 /\ f \in c + h - 6 .. c + h - 3,
         D = 8 => p % 8 = 0 /\ p \in c - 3 .. c + 4 /\ f \in c + h - 8 .. c + h - 1,
         \/ /\ c \in b - 2 .. b + 4 /\ b >= 72 /\ (D = 2 => b >= 90)
            /\ (D = 4 => b >= 107) /\ (D = 8 => b >= 137)
         \/ /\ c \in b .. b + 1 /\ b >= 29 /\ (D = 2 => b >= 33)
            /\ (D = 4 => b >= 50) /\ (D = 8 => b >= 84)
         \/ /\ c \in b - D .. b + D /\ b >= 177 /\ D \in {4, 8}
            /\ c = b \/ p = c
  PROVE  /\ k * b <= f + (k - 1) * p - D + 1
         /\ f + (k - 1) * p + 2 <= (k + 1) * b - 1
  <1> DEFINE early == f - D + 1 - b
             late  == b - 3 - f + b
             drift == p - b
  <1>1. /\ 0 <= early /\ 0 <= early + 8 * drift
        /\ 0 <= late  /\ 0 <= late - 8 * drift
    <2>1. CASE D = 1
      BY <2>1, SMT
    <2>2. CASE D = 2
      BY <2>2, SMT
    <2>3. CASE D = 4
      BY <2>3, SMT
    <2>4. CASE D = 8
      BY <2>4, SMT
    <2> QED
      BY <2>1, <2>2, <2>3, <2>4
  <1>2. /\ f + (k - 1) * p - D + 1 = k * b + early + (k - 1) * drift
        /\ f + (k - 1) * p + 2 = (k + 1) * b - 1 - (late - (k - 1) * drift)
    BY SMT
  <1>3. early \in Int /\ late \in Int /\ drift \in Int
    BY SMT
  <1> HIDE DEF early, late, drift
  <1>4. 0 <= early + (k - 1) * drift /\ 0 <= late - (k - 1) * drift
    BY <1>1, <1>3, Linear
  <1> QED
    BY <1>2, <1>3, <1>4, SMT

LEMMA BuildFacts ==
  ASSUME build \in Builds
  PROVE  /\ build.bn \in {8, 16} /\ build.div \in {1, 2, 4, 8}
         /\ build.routine \in Routines
         /\ Bootloader => build.bn = 16 /\ build.div = 1
  BY SyncAssumption DEF Bootloader

\* One bit and a half of a speed fits in the counter.
LEMMA SpeedFits ==
  ASSUME build \in Builds, NEW b \in Speeds, NEW c \in Near(b)
  PROVE  /\ b \in Nat /\ c \in Nat /\ 29 <= b /\ b < 43690 /\ 29 <= c
         /\ c + Half(c) - 43 < 65520
         /\ build.bn = 8 => c + Half(c) - 33 + build.div \div 2 < 256 * build.div
         /\ Half(c) \in Nat /\ 2 * Half(c) \in c .. c + 1
  <1> DEFINE D == build.div
             R == build.routine
             B == build.bn
  <1>1. /\ D \in {1, 2, 4, 8} /\ B \in {8, 16}
        /\ R \in {"5_1", "9_1", "5_1_nb", "9_1_nb", "diabolo_5_1", "diabolo_10_1"}
    BY BuildFacts DEF Routines
  <1>2. /\ b \in Nat
        /\ R = "5_1" => b >= 72
        /\ R = "9_1" => b >= 29
        /\ R \in {"5_1_nb", "9_1_nb"} => b >= 177 /\ D \in {4, 8}
        /\ R \in {"diabolo_5_1", "diabolo_10_1"} => b >= 46
        /\ b < 43690
        /\ B = 8 => b <= 170 * D + 18
    BY SMT DEF Speeds, Bootloader
  <1>3. /\ c \in Nat
        /\ R = "5_1" => c \in b - 2 .. b + 4
        /\ R \in {"9_1", "diabolo_5_1", "diabolo_10_1"} => c \in b .. b + 1
        /\ R \in {"5_1_nb", "9_1_nb"} => c = b \/ (c \in b - D .. b + D /\ c % D = 0)
    BY SMT DEF Near, Bootloader
  <1> HIDE DEF D, R, B
  <1>4. /\ b >= 29 /\ c >= 29
        /\ c \in b - 8 .. b + 8
        /\ \/ c \in b - 2 .. b + 4
           \/ D = 4 /\ c \in b - 4 .. b + 4
           \/ D = 8 /\ c % 8 = 0
           \/ c = b
    BY <1>1, <1>2, <1>3, SMT
  <1>5. Half(c) \in Nat /\ 2 * Half(c) \in c .. c + 1
    BY <1>2, <1>4, HalfRounds, SMT
  <1>6. B = 8 => c + Half(c) - 33 + D \div 2 < 256 * D
    BY <1>1, <1>2, <1>3, <1>4, <1>5, SMT
  <1> QED
    BY <1>2, <1>3, <1>4, <1>5, <1>6, SMT DEF B, D

\* set_dt makes compare values whose samples are in their slots.
LEMMA NearInSlot ==
  ASSUME build \in Builds, ~ Bootloader, UNCHANGED build,
         NEW b \in Speeds, NEW c \in Near(b), SetDt(c)
  PROVE  InSlot(b)' /\ 10 * build.div * dtn' >= 9 * b
  <1> DEFINE D == build.div
             h == Half(c)
             e == IF build.bn = 8 THEN 33 ELSE 43
             n == dtn'
             m == dt0'
             p == D * n
             f == e - 5 + D * m
  <1>1. /\ build.bn \in {8, 16} /\ D \in {1, 2, 4, 8}
        /\ b \in Nat /\ c \in Nat /\ h \in Nat /\ e \in {33, 43}
        /\ 29 <= c /\ c + h - 43 < 65520 /\ 2 * h \in c .. c + 1
        /\ build.bn = 8 => e = 33 /\ c + h - e + D \div 2 < 256 * D
    BY SpeedFits, BuildFacts
  <1>2. /\ dtn' = Stored(Div(c))
        /\ dt0' = Stored(Div(Word(c + h - e)))
    BY BuildFacts, SMT DEF SetDt, CyStSei, CyRxSei
  <1>3. \A k \in 1 .. 9 : SampledAt(k)' = f + D * ((k - 1) * n - 1) + 1 .. f + D * (k - 1) * n + 2
    BY SMT DEF SampledAt, StCycles, RxCycles, Bootloader
  <1> HIDE DEF h, e
  <1>4. Word(c + h - e) = c + h - e /\ c + h - e \in Nat /\ c + h - e < 65530
    BY <1>1, WordSmall, SMT
  <1> DEFINE w == c + h - e
  <1>5. w \in Nat /\ w < 65530 /\ c < 65530
    BY <1>1, <1>4, SMT
  <1> HIDE DEF w
  <1>6. /\ D = 1 => Div(c) = c /\ Div(w) = w
        /\ D = 2 => 2 * Div(c) \in c .. c + 1 /\ 2 * Div(w) \in w .. w + 1
        /\ D = 4 => 4 * Div(c) \in c - 1 .. c + 2 /\ 4 * Div(w) \in w - 1 .. w + 2
        /\ D = 8 => 8 * Div(c) \in c - 3 .. c + 4 /\ 8 * Div(w) \in w - 3 .. w + 4
        /\ Div(c) \in Nat /\ Div(w) \in Nat
    <2>1. c < 65532 /\ w < 65532
      BY <1>1, <1>5, SMT
    <2> DEFINE Rounds(v) == /\ D = 1 => Div(v) = v
                            /\ D = 2 => Div(v) \in Nat /\ 2 * Div(v) \in v .. v + 1
                            /\ D = 4 => Div(v) \in Nat /\ 4 * Div(v) \in v - 1 .. v + 2
                            /\ D = 8 => Div(v) \in Nat /\ 8 * Div(v) \in v - 3 .. v + 4
    <2>2. \A v \in Nat : v < 65532 => Rounds(v)
      BY DivRounds, SMT
    <2> HIDE DEF Rounds
    <2>3. Rounds(c) /\ Rounds(w)
      BY <1>1, <1>5, <2>1, <2>2, SMT
    <2> QED
      BY <1>1, <1>5, <2>3, SMT DEF Rounds
  <1>7. n = Div(c) /\ m = Div(w)
    <2> DEFINE i == Div(c)
               j == Div(w)
    <2>1. n = Stored(i) /\ m = Stored(j)
      BY <1>2, <1>4 DEF w
    <2>2. i \in Nat /\ j \in Nat /\ i < 65536 /\ j < 65536
      BY <1>1, <1>5, <1>6, SMT
    <2>3. build.bn = 8 => i < 256 /\ j < 256
      <3>1. build.bn = 8 => w + D \div 2 < 256 * D /\ c < w + 34 /\ 2 * w >= c - 33
        BY <1>1, SMT DEF w
      <3> QED
        BY <1>1, <1>5, <1>6, <3>1, SMT
    <2> HIDE DEF i, j
    <2>4. Stored(i) = i /\ Stored(j) = j
      BY <2>2, <2>3, SMT DEF Stored, Word
    <2> QED
      BY <2>1, <2>4 DEF i, j
  <1> HIDE DEF D, n, m
  <1>8. /\ D = 1 => p = c                           /\ f = c + h - 5
        /\ D = 2 => p \in c .. c + 1                 /\ f \in c + h - 5 .. c + h - 4
        /\ D = 4 => p % 4 = 0 /\ p \in c - 1 .. c + 2 /\ f \in c + h - 6 .. c + h - 3
        /\ D = 8 => p % 8 = 0 /\ p \in c - 3 .. c + 4 /\ f \in c + h - 8 .. c + h - 1
        /\ n \in Nat /\ m \in Nat /\ p \in Nat /\ f \in Int
    BY <1>1, <1>5, <1>6, <1>7, SMT DEF w
  <1> HIDE DEF p, f
  <1>9. \/ /\ c \in b - 2 .. b + 4 /\ b >= 72 /\ (D = 2 => b >= 90)
           /\ (D = 4 => b >= 107) /\ (D = 8 => b >= 137)
        \/ /\ c \in b .. b + 1 /\ b >= 29 /\ (D = 2 => b >= 33)
           /\ (D = 4 => b >= 50) /\ (D = 8 => b >= 84)
        \/ /\ c \in b - D .. b + D /\ b >= 177 /\ D \in {4, 8}
           /\ c = b \/ p = c
    <2> DEFINE R == build.routine
    <2>1. /\ R \in {"5_1", "9_1", "5_1_nb", "9_1_nb"}
          /\ R = "5_1" => /\ c \in b - 2 .. b + 4 /\ b >= 72 /\ (D = 2 => b >= 90)
                          /\ (D = 4 => b >= 107) /\ (D = 8 => b >= 137)
          /\ R = "9_1" => /\ c \in b .. b + 1 /\ b >= 29 /\ (D = 2 => b >= 33)
                          /\ (D = 4 => b >= 50) /\ (D = 8 => b >= 84)
          /\ R \in {"5_1_nb", "9_1_nb"} =>
               /\ b >= 177 /\ D \in {4, 8}
               /\ c = b \/ (c \in b - D .. b + D /\ c % D = 0)
      BY <1>1, BuildFacts, SMT DEF Speeds, Near, Bootloader, Routines, D
    <2> HIDE DEF R
    <2>2. D \in {4, 8} /\ c % D = 0 => p = c
      BY <1>1, <1>8, SMT
    <2> QED
      BY <1>1, <2>1, <2>2, SMT
  <1>13. 10 * p >= 9 * b
    BY <1>1, <1>8, <1>9, SMT
  <1> SUFFICES ASSUME NEW k \in 1 .. 9
               PROVE  SampledAt(k)' \subseteq k * b .. (k + 1) * b - 1
    <2>1. 10 * build.div * dtn' = 10 * p
      BY <1>1, <1>8, SMT DEF p, D, n
    <2> QED
      BY <1>13, <2>1, SMT DEF InSlot
  <1>10. /\ k * b <= f + (k - 1) * p - D + 1
         /\ f + (k - 1) * p + 2 <= (k + 1) * b - 1
    BY <1>1, <1>8, <1>9, SampleInSlot, SMT
  <1>11. SampledAt(k)' = f + D * ((k - 1) * n - 1) + 1 .. f + D * (k - 1) * n + 2
    BY <1>3
  <1>12. D * ((k - 1) * n - 1) = (k - 1) * p - D /\ D * (k - 1) * n = (k - 1) * p
    BY <1>1, <1>8, SMT DEF p
  <1> QED
    BY <1>1, <1>8, <1>10, <1>11, <1>12, SMT

\* The bootloader waits in loops of 4 cycles.
LEMMA BootNearInSlot ==
  ASSUME build \in Builds, Bootloader, UNCHANGED build,
         NEW b \in Speeds, NEW c \in Near(b), dtn' = c, dt0' = Word(c + c \div 2)
  PROVE  InSlot(b)'
  <1> DEFINE m == c + c \div 2
  <1>1. b \in Nat /\ b >= 46 /\ b < 43690 /\ c \in b .. b + 1
    BY SMT DEF Speeds, Near
  <1>2. m \in Nat /\ m < 65536 /\ 2 * m \in 3 * c - 1 .. 3 * c
    BY <1>1, SMT
  <1> HIDE DEF m
  <1>3. dt0' = m
    BY <1>2, WordSmall DEF m
  <1> DEFINE first == m - ((m - 14) % 4)
             next  == c - ((c - 21) % 4)
  <1>4. first \in m - 3 .. m /\ next \in c - 3 .. c
    BY <1>1, <1>2, SMT
  <1>5. \A k : SampledAt(k)' = first + (k - 1) * next + 2 .. first + (k - 1) * next + 4
    BY <1>3, SMT DEF SampledAt, Bootloader
  <1> HIDE DEF first, next
  <1> SUFFICES ASSUME NEW k \in 1 .. 8
               PROVE  SampledAt(k)' \subseteq k * b .. (k + 1) * b - 1
    BY SMT DEF InSlot, Bootloader
  <1> DEFINE early == first + 2 - b
             late  == b - 5 - first + b
             drift == next - b
  <1>6. /\ early \in Int /\ late \in Int /\ drift \in Int
        /\ 0 <= early /\ 0 <= early + 7 * drift
        /\ 0 <= late  /\ 0 <= late - 7 * drift
    BY <1>1, <1>2, <1>4, SMT
  <1>7. /\ first + (k - 1) * next + 2 = k * b + early + (k - 1) * drift
        /\ first + (k - 1) * next + 4 = (k + 1) * b - 1 - (late - (k - 1) * drift)
    BY <1>1, <1>2, <1>4, SMT
  <1> HIDE DEF early, late, drift
  <1>8. 0 <= early + (k - 1) * drift /\ 0 <= late - (k - 1) * drift
    <2>1. k \in {1, 2, 3, 4, 5, 6, 7, 8}
      BY SMT
    <2> QED
      BY <1>6, <2>1, SMT
  <1> DEFINE low1 == first + (k - 1) * next + 2
             top  == first + (k - 1) * next + 4
             kb   == k * b
             kb1  == (k + 1) * b - 1
  <1>9. low1 \in Int /\ top \in Int /\ kb \in Int /\ kb1 \in Int /\ kb <= low1 /\ top <= kb1
    BY <1>1, <1>2, <1>4, <1>6, <1>7, <1>8, SMT
  <1>10. SampledAt(k)' = low1 .. top
    BY <1>5
  <1> HIDE DEF low1, top, kb, kb1
  <1>11. low1 .. top \subseteq kb .. kb1
    BY <1>9, SMT
  <1> QED
    BY <1>10, <1>11 DEF kb, kb1

-----------------------------------------------------------------------------
(* What each routine finds of a sequence at one of the speeds.             *)

LEMMA Measured51 ==
  ASSUME build \in Builds, build.routine = "5_1", NEW b \in Speeds, NEW t \in Polled(b)
  PROVE  Word(5 * t) \in Near(b)
  <1>1. b \in Nat /\ b >= 72 /\ b < 43690 /\ build.bn \in {8, 16} /\ ~ Bootloader /\ ~ (build.routine = "9_1")
        /\ ~ (build.routine \in {"5_1_nb", "9_1_nb"})
    BY BuildFacts, SMT DEF Speeds, Bootloader
  <1>2. t \in Nat /\ 5 * t \in b - 2 .. b + 4
    BY <1>1, PolledNear, SMT
  <1>3. Word(5 * t) = 5 * t
    BY <1>1, <1>2, WordSmall, SMT
  <1> QED
    BY <1>1, <1>2, <1>3, SMT DEF Near

LEMMA Measured91 ==
  ASSUME build \in Builds, build.routine = "9_1", NEW b \in Speeds,
         NEW t1 \in Polled(9 * b), NEW t2 \in Polled(b)
  PROVE  Half(t1 + t2) \in Near(b)
  <1>1. /\ b \in Nat /\ b >= 29 /\ b < 32766 /\ build.bn \in {8, 16} /\ ~ Bootloader
        /\ build.routine # "5_1" /\ ~ (build.routine \in {"5_1_nb", "9_1_nb"})
    BY BuildFacts, SMT DEF Speeds, Bootloader
  <1>2. t2 \in Nat /\ 5 * t2 \in b - 2 .. b + 4 /\ (build.bn = 8 => 5 * t2 >= b - 1)
    BY <1>1, PolledNear, SMT
  <1>3. t1 \in Nat /\ 5 * t1 \in 9 * b - 2 .. 9 * b + 4
    <2>1. 9 * b \in Nat /\ 28 <= 9 * b /\ 9 * b < 327650
      BY <1>1, SMT
    <2> DEFINE d == 9 * b
    <2> HIDE DEF d
    <2>2. t1 \in Nat /\ 5 * t1 \in d - 2 .. d + 4
      BY <1>1, <2>1, PolledNear, SMT DEF d
    <2> QED
      BY <2>2 DEF d
  <1>4. t1 + t2 \in 2 * b .. 2 * b + 1
    BY <1>1, <1>2, <1>3, SMT
  <1>5. Half(t1 + t2) \in b .. b + 1
    <2> DEFINE s == t1 + t2
    <2>1. s \in Nat /\ s < 65535
      BY <1>1, <1>4, SMT
    <2> HIDE DEF s
    <2>2. Half(s) \in Nat /\ 2 * Half(s) \in s .. s + 1
      BY <2>1, HalfRounds
    <2> QED
      BY <1>1, <1>4, <2>1, <2>2, SMT DEF s
  <1> QED
    BY <1>1, <1>5, SMT DEF Near

LEMMA MeasuredNb ==
  ASSUME build \in Builds, build.routine \in {"5_1_nb", "9_1_nb"},
         NEW b \in Speeds, NEW t \in Dated(b)
  PROVE  /\ build.div = 4 => Word(4 * t) \in Near(b)
         /\ build.div = 8 => Word(8 * t) \in Near(b)
  <1>1. /\ b \in Nat /\ b >= 177 /\ b < 43690 /\ build.bn \in {8, 16} /\ ~ Bootloader
        /\ build.bn = 8 => b <= 170 * build.div + 18
    BY BuildFacts, SMT DEF Speeds, Bootloader
  <1>2. PICK x \in -1 .. build.div :
          t = ((b + x) \div build.div) % (IF build.bn = 8 THEN 256 ELSE 65536)
    BY DEF Dated
  <1>3. CASE build.div = 4
    <2>1. t = (b + x) \div 4
      BY <1>1, <1>2, <1>3, SMT
    <2>2. 4 * t \in Nat /\ 4 * t \in b - 4 .. b + 4 /\ (4 * t) % 4 = 0 /\ 4 * t < 65536
      BY <1>1, <1>2, <1>3, <2>1, SMT
    <2>3. Word(4 * t) = 4 * t
      BY <2>2, WordSmall
    <2> QED
      BY <1>1, <1>3, <2>2, <2>3, SMT DEF Near
  <1>4. CASE build.div = 8
    <2>1. t = (b + x) \div 8
      BY <1>1, <1>2, <1>4, SMT
    <2>2. 8 * t \in Nat /\ 8 * t \in b - 8 .. b + 8 /\ (8 * t) % 8 = 0 /\ 8 * t < 65536
      BY <1>1, <1>2, <1>4, <2>1, SMT
    <2>3. Word(8 * t) = 8 * t
      BY <2>2, WordSmall
    <2> QED
      BY <1>1, <1>4, <2>2, <2>3, SMT DEF Near
  <1> QED
    BY <1>3, <1>4

LEMMA MeasuredBoot ==
  ASSUME build \in Builds, NEW b \in Speeds
  PROVE  /\ build.routine = "diabolo_5_1" => \A t \in Polled(5 * b) : t \in Near(b)
         /\ build.routine = "diabolo_10_1" => \A t \in Polled(10 * b) : Half(t) \in Near(b)
  <1>1. CASE build.routine = "diabolo_5_1"
    <2>1. b \in Nat /\ b >= 46 /\ b < 43690 /\ Bootloader
      BY <1>1, SMT DEF Speeds, Bootloader
    <2> SUFFICES ASSUME NEW t \in Polled(5 * b)  PROVE t \in Near(b)
      BY <1>1
    <2> DEFINE d == 5 * b
    <2>2. d \in Nat /\ 28 <= d /\ d < 327650
      BY <2>1, SMT
    <2> HIDE DEF d
    <2>3. t \in Nat /\ 5 * t \in d - 1 .. d + 5
      BY <2>1, <2>2, PolledNear, SMT DEF d
    <2>4. t \in b .. b + 1
      BY <2>1, <2>3, SMT DEF d
    <2> QED
      BY <1>1, <2>1, <2>3, <2>4, SMT DEF Near
  <1>2. CASE build.routine = "diabolo_10_1"
    <2>1. b \in Nat /\ b >= 46 /\ b < 31205 /\ Bootloader
      BY <1>2, SMT DEF Speeds, Bootloader
    <2> SUFFICES ASSUME NEW t \in Polled(10 * b)  PROVE Half(t) \in Near(b)
      BY <1>2
    <2> DEFINE d == 10 * b
    <2>2. d \in Nat /\ 28 <= d /\ d < 327650
      BY <2>1, SMT
    <2> HIDE DEF d
    <2>3. t \in Nat /\ 5 * t \in d - 1 .. d + 5
      BY <2>1, <2>2, PolledNear, SMT DEF d
    <2>4. t \in 2 * b .. 2 * b + 1 /\ t < 65535
      BY <2>1, <2>3, SMT DEF d
    <2>5. Half(t) \in Nat /\ 2 * Half(t) \in t .. t + 1
      BY <2>3, <2>4, HalfRounds
    <2>6. Half(t) \in b .. b + 1
      BY <2>1, <2>4, <2>5, SMT
    <2> QED
      BY <1>2, <2>1, <2>5, <2>6, SMT DEF Near
  <1> QED
    BY <1>1, <1>2

-----------------------------------------------------------------------------
(* The inductive invariant.                                                *)

RateOK == rate \in [bit : Lows \cup {0}, by : {"none", "bps", "sync", "noise", "raced"}]

\* The bootloader keeps its last measure in R3:R2.
BootMeasure == nbit = 0 /\ ~ stat.sync /\ pair.t2 # 0 => dtn \in Polled(pair.t2)

\* It has no interrupt; silent bits are counted before F_SYNC.
BootShape ==
  Bootloader =>
    /\ ~ startIE /\ ~ matchIE /\ main = "idle" /\ nbit >= 0
    /\ nbit > 0 => ~ stat.sync /\ since = 20 - nbit
    /\ nbit = 0 /\ ~ stat.sync => rate.by = "none"
    /\ BootMeasure

\* A reset that has begun, up to where it clears the durations.
Clearing == main \in {"stat", "nbit", "dtn"}

\* START is enabled outside of transmissions only, which a reset ends.
UartShape ==
  ~ Bootloader =>
    /\ since <= 10
    /\ matchIE => nbit \in 0 .. 8
    /\ startIE => ~ stat.rxtx
    /\ main \in {"nbit", "dtn", "dtn+1", "dt0", "dt0+1", "arm"} => ~ stat.rxtx

\* A speed that counts is not measured again before F_SYNC is set.
RateKept ==
  ~ Bootloader /\ ~ Clearing =>
    /\ rate.by = "sync" /\ ~ stat.sync =>
         matchIE /\ ~ startIE /\ ~ stat.rxtx /\ main = "idle"
    /\ rate.by = "bps" => main = "bps" \/ stat.sync

\* Nothing is sent before the fake reception and one more bit are over.
Silent ==
  ~ Bootloader /\ ~ Clearing /\ rate.by = "sync" /\ since >= 0 =>
    \/ matchIE /\ ~ stat.sync /\ since = 8 - nbit
    \/ stat.sync /\ since >= 9 /\ stat.wbtx /\ (main = "start" => since = 10)

\* The counts that a low level of d cycles may give.
Measured(d) == IF Polls THEN Polled(d) ELSE Dated(d)

\* The UARTs keep their last measure in dt0 and dtn.
MeasureKept ==
  ~ Bootloader /\ since = -1 /\ pair.t2 # 0 => LastMeasure \in Measured(pair.t2)

\* What set_dt was given is near what it was called for.
RateInSlot ==
  rate.by \in {"sync", "bps"} /\ rate.bit \in Speeds =>
    /\ InSlot(rate.bit)
    /\ ~ Bootloader => 10 * build.div * dtn >= 9 * rate.bit

IInv == /\ TypeOK /\ RateOK /\ BootShape /\ UartShape /\ RateKept
        /\ Silent /\ MeasureKept /\ RateInSlot

-----------------------------------------------------------------------------
(* Steps that keep the build, dt0 and dtn keep what is computed from them. *)

LEMMA BuildKept ==
  ASSUME UNCHANGED build
  PROVE  /\ Bootloader' = Bootloader /\ Blocking' = Blocking /\ N' = N
         /\ Speeds' = Speeds /\ Lows' = Lows
         /\ \A d : Polled(d)' = Polled(d) /\ Measured(d)' = Measured(d)
  BY DEF Measured, Polls, Dated, Bootloader, Blocking, N, Speeds, Lows, Polled, FirstCount, Before, Lateness,
         CeilDiv, AtLeast, Word

LEMMA CountsKept ==
  ASSUME UNCHANGED <<build, dt0, dtn>>
  PROVE  /\ LastMeasure' = LastMeasure
         /\ \A b : InSlot(b)' = InSlot(b)
  BY DEF LastMeasure, Byte, InSlot, SampledAt, Bootloader, StCycles, RxCycles

\* Counts of the width of the counter.
Counts == /\ dt0 \in Nat /\ dt0 < 65536 /\ (build.bn = 8 => dt0 < 256)
          /\ dtn \in Nat /\ dtn < 65536 /\ (build.bn = 8 => dtn < 256)

Flags == [rxc : BOOLEAN, sync : BOOLEAN, rxtx : BOOLEAN, wbtx : BOOLEAN]

Rest == /\ build \in Builds /\ stat \in Flags
        /\ nbit \in -1 .. 20 /\ since \in -1 .. 20
        /\ startIE \in BOOLEAN /\ matchIE \in BOOLEAN
        /\ low \in Lows \cup {0}
        /\ main \in {"idle", "bps", "slot", "start"}
                    \cup {"stat", "nbit", "dtn", "dtn+1", "dt0", "dt0+1", "arm"}
        /\ pair.t1 \in Lows \cup {0} /\ pair.t2 \in Lows \cup {0}

LEMMA TypeParts ==
  TypeOK /\ RateOK <=> Counts /\ Rest /\ RateOK
  <1>1. build \in Builds =>
          (Counts <=> {dt0, dtn} \subseteq 0 .. (IF build.bn = 8 THEN 255 ELSE 65535))
    BY BuildFacts, SMT DEF Counts
  <1>2. RateOK => /\ rate.bit \in Lows \cup {0}
                  /\ rate.by \in {"none", "bps", "sync", "noise", "raced"}
    BY SMT DEF RateOK
  <1> HIDE DEF Counts
  <1> QED
    BY <1>1, <1>2, SMT DEF TypeOK, Rest, Flags

\* The changes of the status byte.
EndTx(s)  == [s EXCEPT !.rxtx = FALSE, !.wbtx = TRUE]
EndRx(s)  == [s EXCEPT !.rxc = @ \/ s.sync, !.sync = TRUE, !.wbtx = TRUE]
Synced(s) == [s EXCEPT !.sync = TRUE]
BeginTx(s) == [s EXCEPT !.rxtx = TRUE]

LEMMA FlagChanges ==
  ASSUME NEW s \in Flags
  PROVE  /\ EndTx(s) \in Flags /\ EndTx(s).sync = s.sync
         /\ EndTx(s).rxtx = FALSE /\ EndTx(s).wbtx = TRUE
         /\ EndRx(s) \in Flags /\ EndRx(s).sync = TRUE
         /\ EndRx(s).rxtx = s.rxtx /\ EndRx(s).wbtx = TRUE
         /\ Synced(s) \in Flags /\ Synced(s).sync = TRUE
         /\ Synced(s).rxtx = s.rxtx /\ Synced(s).wbtx = s.wbtx
         /\ BeginTx(s) \in Flags /\ BeginTx(s).sync = s.sync
         /\ BeginTx(s).rxtx = TRUE /\ BeginTx(s).wbtx = s.wbtx
  BY DEF EndTx, EndRx, Synced, BeginTx, Flags

\* What is left to show of a step that keeps the counts and the speed.
LEMMA KeepsCounts ==
  ASSUME IInv, UNCHANGED <<build, dt0, dtn, rate>>,
         Rest', BootShape', UartShape', RateKept', Silent',
         ~ Bootloader /\ since' = -1 /\ pair'.t2 # 0 => since = -1 /\ pair'.t2 = pair.t2
  PROVE  IInv'
  <1>1. Counts' /\ RateOK'
    <2>1. Counts /\ RateOK /\ Lows' = Lows
      BY TypeParts, BuildKept DEF IInv
    <2> QED
      BY <2>1 DEF Counts, RateOK
  <1>2. TypeOK'
    BY <1>1, TypeParts, PTL
  <1>3. MeasureKept'
    BY BuildKept, CountsKept DEF IInv, MeasureKept
  <1>4. RateInSlot'
    BY BuildKept, CountsKept DEF IInv, RateInSlot
  <1> QED
    BY <1>1, <1>2, <1>3, <1>4 DEF IInv

\* The COMPARE handler.
LEMMA MatchStep ==
  ASSUME IInv, Match
  PROVE  IInv'
  <1>1. /\ Rest /\ UartShape /\ BootShape /\ RateKept /\ Silent
        /\ build \in Builds /\ Lows' = Lows /\ Bootloader' = Bootloader
        /\ UNCHANGED <<build, dt0, dtn, low, main, rate, pair>>
    BY TypeParts, BuildKept DEF IInv, Match, Rest
  <1>2. ~ Bootloader /\ nbit \in 0 .. 8 /\ matchIE
    BY <1>1 DEF BootShape, UartShape, Match
  <1>3. /\ nbit' = nbit - 1
        /\ since' = IF since \in 0 .. 9 THEN since + 1 ELSE since
        /\ nbit \in -1 .. 20 /\ since \in -1 .. 20
    BY <1>1 DEF Match, Rest
  <1>4. CASE nbit > 0
    <2>1. UNCHANGED <<stat, startIE, matchIE>>
      BY <1>4 DEF Match
    <2>2. nbit' \in -1 .. 20 /\ since' \in -1 .. 20 /\ nbit' \in 0 .. 8
      BY <1>2, <1>3, <1>4, SMT
    <2>3. Rest'
      BY <1>1, <2>1, <2>2 DEF Rest, Flags
    <2>4. UartShape'
      BY <1>1, <1>2, <1>3, <2>1, <2>2, SMT DEF UartShape
    <2>5. RateKept' /\ BootShape'
      BY <1>1, <1>2, <2>1 DEF RateKept, Clearing, BootShape
    <2>6. Silent'
      BY <1>1, <1>2, <1>3, <2>1, SMT DEF Silent, Clearing
    <2> QED
      BY <1>1, <1>3, <2>1, <2>3, <2>4, <2>5, <2>6, KeepsCounts
  <1>5. CASE nbit = 0
    <2>1. /\ matchIE' = FALSE /\ startIE' = TRUE /\ nbit' = -1
          /\ stat' \in Flags /\ stat'.wbtx = TRUE /\ stat'.rxtx = FALSE
          /\ stat.rxtx => stat'.sync = stat.sync
          /\ ~ stat.rxtx => stat'.sync = TRUE
      <3>1. ~ (nbit > 0) /\ nbit' = -1
        BY <1>3, <1>5, SMT
      <3>2. /\ matchIE' = FALSE /\ startIE' = TRUE
            /\ stat' = IF stat.rxtx THEN EndTx(stat) ELSE EndRx(stat)
        BY <3>1, Zenon DEF Match, EndTx, EndRx
      <3>3. stat \in Flags /\ stat.rxtx \in BOOLEAN
        BY <1>1 DEF Rest, Flags
      <3> QED
        BY <3>1, <3>2, <3>3, FlagChanges, Zenon
    <2>2. Rest'
      <3>1. nbit' \in -1 .. 20 /\ since' \in -1 .. 20
        BY <1>3, <2>1, SMT
      <3> QED
        BY <1>1, <2>1, <3>1 DEF Rest
    <2>3. UartShape'
      <3>1. since' <= 10
        BY <1>1, <1>2, <1>3, SMT DEF UartShape
      <3> QED
        BY <1>1, <2>1, <3>1 DEF UartShape
    <2>4. RateKept' /\ BootShape'
      BY <1>1, <1>2, <2>1 DEF RateKept, Clearing, BootShape
    <2>5. Silent'
      <3>1. since' >= 0 => since >= 0 /\ (since = 8 => since' >= 9)
        BY <1>3, SMT
      <3>2. since >= 9 => since' >= 9
        BY <1>3, SMT
      <3>3. since = 10 => since' = 10
        BY <1>3, SMT
      <3>4. since = 8 - nbit => since = 8
        BY <1>3, <1>5, SMT
      <3>5. SUFFICES ASSUME ~ Clearing, rate.by = "sync", since' >= 0
                     PROVE  stat'.sync /\ since' >= 9 /\ stat'.wbtx /\ (main = "start" => since' = 10)
        BY <1>1 DEF Silent, Clearing
      <3> QED
        BY <1>1, <1>2, <2>1, <3>1, <3>2, <3>3, <3>4, <3>5 DEF Silent, RateKept
    <2>6. since' = -1 => since = -1
      BY <1>3, <2>1, SMT
    <2> QED
      BY <1>1, <2>2, <2>3, <2>4, <2>5, <2>6, KeepsCounts
  <1> QED
    BY <1>2, <1>4, <1>5, SMT

\* What the steps of an UART start from.
LEMMA UartParts ==
  ASSUME IInv, UNCHANGED build, ~ Bootloader
  PROVE  /\ Rest /\ Flags' = Flags /\ UartShape /\ RateKept /\ Silent
         /\ build \in Builds /\ Lows' = Lows /\ ~ Bootloader' /\ BootShape'
         /\ stat \in Flags
  BY TypeParts, BuildKept DEF IInv, Rest, BootShape, Flags

LEMMA StartBitStep ==
  ASSUME IInv, StartBit
  PROVE  IInv'
  <1>1. /\ ~ Bootloader /\ UNCHANGED <<build, stat, dt0, dtn, main, rate, pair, since>>
        /\ startIE /\ stat.sync /\ ~ startIE' /\ matchIE' = TRUE /\ startIE' = FALSE /\ nbit' = 8 /\ low' = 0
    BY DEF StartBit
  <1>2. Rest' /\ nbit' \in 0 .. 8
    <2>1. nbit' \in -1 .. 20 /\ nbit' \in 0 .. 8
      BY <1>1, SMT
    <2> QED
      BY <1>1, <2>1, UartParts DEF Rest
  <1>3. UartShape' /\ RateKept' /\ Silent' /\ BootShape'
    BY <1>1, <1>2, UartParts DEF UartShape, RateKept, Clearing, Silent
  <1> QED
    BY <1>1, <1>2, <1>3, KeepsCounts

LEMMA FallStep ==
  ASSUME IInv, NEW d \in Lows, Fall(d)
  PROVE  IInv'
  <1>1. /\ ~ Bootloader /\ low' = d
        /\ UNCHANGED <<build, stat, dt0, dtn, nbit, startIE, matchIE, main, rate, pair, since>>
    BY DEF Fall
  <1>2. Rest' /\ UartShape' /\ RateKept' /\ Silent' /\ BootShape'
    BY <1>1, UartParts DEF Rest, UartShape, RateKept, Clearing, Silent
  <1> QED
    BY <1>1, <1>2, KeepsCounts

LEMMA ConfiguredStep ==
  ASSUME IInv, Configured
  PROVE  IInv'
  <1>1. /\ main = "bps" /\ main' = "idle" /\ stat' = Synced(stat)
        /\ UNCHANGED <<build, dt0, dtn, nbit, startIE, matchIE, low, rate, pair, since>>
    BY DEF Configured, Synced
  <1>2. ~ Bootloader
    BY <1>1 DEF IInv, BootShape
  <1>3. /\ stat' \in Flags /\ stat'.sync = TRUE /\ stat'.rxtx = stat.rxtx
        /\ stat'.wbtx = stat.wbtx
    BY <1>1, <1>2, UartParts, FlagChanges
  <1>4. Rest' /\ UartShape' /\ RateKept' /\ Silent' /\ BootShape'
    BY <1>1, <1>2, <1>3, UartParts DEF Rest, UartShape, RateKept, Clearing, Silent
  <1> QED
    BY <1>1, <1>3, <1>4, KeepsCounts

LEMMA PutStep ==
  ASSUME IInv, Put
  PROVE  IInv'
  <1>1. /\ ~ Bootloader /\ ~ matchIE /\ main = "idle"
        /\ main' = IF stat.wbtx THEN "slot" ELSE "start"
        /\ UNCHANGED <<build, stat, dt0, dtn, nbit, startIE, matchIE, low, rate, pair, since>>
    BY DEF Put
  <1>2. Rest' /\ UartShape' /\ RateKept' /\ Silent' /\ BootShape'
    BY <1>1, UartParts DEF Rest, UartShape, RateKept, Clearing, Silent
  <1> QED
    BY <1>1, <1>2, KeepsCounts

LEMMA SlotStep ==
  ASSUME IInv, Slot
  PROVE  IInv'
  <1>1. /\ main = "slot" /\ main' = "start"
        /\ since' = IF since \in 0 .. 9 THEN since + 1 ELSE since
        /\ UNCHANGED <<build, stat, dt0, dtn, nbit, startIE, matchIE, low, rate, pair>>
    BY DEF Slot
  <1>2. ~ Bootloader
    BY <1>1 DEF IInv, BootShape
  <1>3. since \in -1 .. 20 /\ since <= 10
    BY <1>1, <1>2, UartParts DEF Rest, UartShape
  <1>4. /\ since' \in -1 .. 20 /\ since' <= 10
        /\ since' = -1 <=> since = -1
        /\ since >= 9 => since' = 10
        /\ since' >= 0 => since >= 0
    BY <1>1, <1>3, SMT
  <1>5. Rest' /\ UartShape' /\ RateKept' /\ BootShape'
    BY <1>1, <1>2, <1>4, UartParts DEF Rest, UartShape, RateKept, Clearing
  <1>6. Silent'
    <2>1. rate.by = "sync" /\ since >= 0 => stat.sync /\ since >= 9 /\ stat.wbtx
      BY <1>1, <1>2, UartParts DEF Silent, RateKept, Clearing
    <2> QED
      BY <1>1, <1>4, <2>1, SMT DEF Silent, Clearing
  <1> QED
    BY <1>1, <1>4, <1>5, <1>6, KeepsCounts

LEMMA PutStartStep ==
  ASSUME IInv, PutStart
  PROVE  IInv'
  <1>1. /\ main = "start" /\ main' = "idle" /\ stat' = BeginTx(stat)
        /\ startIE' = FALSE /\ matchIE' = TRUE /\ nbit' = 8 /\ low' = 0 /\ since' = -1
        /\ pair' = IF since = -1 THEN pair ELSE NoPair
        /\ UNCHANGED <<build, dt0, dtn, rate>>
    BY DEF PutStart, BeginTx
  <1>2. ~ Bootloader
    BY <1>1 DEF IInv, BootShape
  <1>3. /\ stat' \in Flags /\ stat'.sync = stat.sync /\ stat'.rxtx = TRUE
    BY <1>1, <1>2, UartParts, FlagChanges
  <1>4. nbit' \in -1 .. 20 /\ nbit' \in 0 .. 8 /\ since' \in -1 .. 20 /\ since' <= 10 /\ ~ (since' >= 0)
    BY <1>1, SMT
  <1>5. pair'.t1 \in Lows \cup {0} /\ pair'.t2 \in Lows \cup {0}
    BY <1>1, <1>2, UartParts DEF Rest, NoPair
  <1>6. Rest' /\ UartShape' /\ Silent' /\ BootShape'
    BY <1>1, <1>2, <1>3, <1>4, <1>5, UartParts DEF Rest, UartShape, Clearing, Silent
  <1>7. RateKept'
    BY <1>1, <1>2, <1>3, UartParts DEF RateKept, Clearing
  <1>8. since' = -1 /\ pair'.t2 # 0 => since = -1 /\ pair'.t2 = pair.t2
    BY <1>1 DEF NoPair
  <1> QED
    BY <1>1, <1>3, <1>6, <1>7, <1>8, KeepsCounts

-----------------------------------------------------------------------------
(* Steps that change dt0 and dtn.                                          *)

LEMMA WordIsWord ==
  ASSUME NEW n \in Int
  PROVE  Word(n) \in Nat /\ Word(n) < 65536
  BY SMT DEF Word

LEMMA DivInt ==
  ASSUME build \in Builds, NEW n \in Int
  PROVE  Div(n) \in Int
  <1>1. build.div \in {1, 2, 4, 8}
    BY BuildFacts
  <1>2. \A i, j \in Int : i + j \in Int
    BY SMT
  <1>3. build.div \div 2 \in Int
    BY <1>1, SMT
  <1>4. Word(n + build.div \div 2) \in Int
    BY <1>2, <1>3, WordIsWord, SMT
  <1>5. \A i \in Int : i \div build.div \in Int
    BY <1>1, SMT
  <1> QED
    BY <1>4, <1>5 DEF Div

LEMMA StoredFits ==
  ASSUME NEW n \in Int
  PROVE  /\ Stored(n) \in Nat /\ Stored(n) < 65536
         /\ build.bn = 8 => Stored(n) < 256
  BY SMT DEF Stored, Word

LEMMA SetDtCounts ==
  ASSUME build \in Builds, UNCHANGED build, NEW c \in Int, SetDt(c)
  PROVE  Counts'
  <1> DEFINE w == Word(c + Half(c) - (CyStSei + CyRxSei))
  <1>1. w \in Int
    <2>1. Half(c) \in Int /\ CyStSei + CyRxSei \in Int
      BY SMT DEF Half, Word, CyStSei, CyRxSei
    <2>2. c + Half(c) - (CyStSei + CyRxSei) \in Int
      BY <2>1, SMT
    <2> QED
      BY <2>2, WordIsWord, SMT
  <1>2. Div(c) \in Int /\ Div(w) \in Int
    BY <1>1, DivInt
  <1>3. dtn' = Stored(Div(c)) /\ dt0' = Stored(Div(w))
    BY DEF SetDt
  <1> HIDE DEF w
  <1> DEFINE x == Div(c)
             y == Div(w)
  <1> HIDE DEF x, y
  <1>4. /\ Stored(x) \in Nat /\ Stored(x) < 65536 /\ (build.bn = 8 => Stored(x) < 256)
        /\ Stored(y) \in Nat /\ Stored(y) < 65536 /\ (build.bn = 8 => Stored(y) < 256)
    BY <1>2, StoredFits, SMT DEF x, y
  <1>5. dtn' = Stored(x) /\ dt0' = Stored(y)
    BY <1>3 DEF x, y
  <1> QED
    BY <1>4, <1>5, SMT DEF Counts

LEMMA ConfigureStep ==
  ASSUME IInv, NEW b \in build.bits, Configure(b)
  PROVE  IInv'
  <1>1. /\ ~ Bootloader /\ main = "idle" /\ SetDt(b)
        /\ main' = "bps" /\ rate' = [bit |-> b, by |-> "bps"] /\ pair' = NoPair /\ since' = -1
        /\ UNCHANGED <<build, stat, nbit, startIE, matchIE, low>>
    BY DEF Configure
  <1>2. b \in Nat /\ b \in Lows /\ build \in Builds
    BY <1>1, UartParts, SyncAssumption DEF Lows
  <1>3. Counts'
    BY <1>1, <1>2, SetDtCounts, SMT
  <1>4. since' \in -1 .. 20 /\ since' <= 10 /\ ~ (since' >= 0)
    BY <1>1, SMT
  <1>5. Rest'
    BY <1>1, <1>4, UartParts DEF Rest, NoPair
  <1>6. RateOK'
    BY <1>1, <1>2, UartParts DEF RateOK
  <1>7. UartShape' /\ RateKept' /\ Silent' /\ BootShape'
    BY <1>1, <1>4, UartParts DEF UartShape, RateKept, Clearing, Silent
  <1>8. MeasureKept'
    BY <1>1 DEF MeasureKept, NoPair
  <1>9. RateInSlot'
    <2> SUFFICES ASSUME b \in Speeds
                 PROVE  InSlot(b)' /\ 10 * build.div * dtn' >= 9 * b
      BY <1>1, BuildKept DEF RateInSlot
    <2>1. b \in Near(b)
      BY <1>1, <1>2, BuildFacts, SMT DEF Near
    <2> QED
      BY <1>1, <1>2, <2>1, NearInSlot
  <1>10. TypeOK'
    BY <1>3, <1>5, <1>6, TypeParts, PTL
  <1> QED
    BY <1>6, <1>7, <1>8, <1>9, <1>10 DEF IInv

\* The sequence is there.
LEMMA FoundStep ==
  ASSUME IInv, ~ Bootloader, startIE, ~ stat.sync,
         NEW c \in Int, NEW d \in Lows \cup {0},
         d \in Speeds /\ LastLow = N * d => c \in Near(d),
         Found(c, d), UNCHANGED <<build, main>>, low' \in Lows \cup {0}
  PROVE  IInv'
  <1>1. /\ SetDt(c) /\ startIE' = FALSE /\ matchIE' = TRUE /\ nbit' = 8 /\ since' = 0
        /\ pair' = IF d = 0 THEN NoPair ELSE [t1 |-> LastLow, t2 |-> d]
        /\ rate' = [bit |-> d, by |-> IF main # "idle" THEN "raced"
                                      ELSE IF LastLow = N * d /\ d # 0 THEN "sync"
                                      ELSE "noise"]
        /\ stat' = stat
    BY DEF Found, FakeReception
  <1>2. Counts'
    BY <1>1, UartParts, SetDtCounts
  <1>3. /\ rate'.bit = d
        /\ rate'.by \in {"raced", "sync", "noise"}
        /\ rate'.by = "sync" => main = "idle" /\ LastLow = N * d
        /\ rate' \in [bit : Lows \cup {0}, by : {"none", "bps", "sync", "noise", "raced"}]
    <2> DEFINE by == IF main # "idle" THEN "raced"
                     ELSE IF LastLow = N * d /\ d # 0 THEN "sync"
                     ELSE "noise"
    <2>1. /\ by \in {"raced", "sync", "noise"}
          /\ by = "sync" => main = "idle" /\ LastLow = N * d
      OBVIOUS
    <2> HIDE DEF by
    <2>2. rate' = [bit |-> d, by |-> by]
      BY <1>1 DEF by
    <2> QED
      BY <2>1, <2>2
  <1>4. /\ nbit' \in -1 .. 20 /\ nbit' \in 0 .. 8 /\ since' \in -1 .. 20 /\ since' <= 10
        /\ since' # -1 /\ since' = 8 - nbit'
    BY <1>1, SMT
  <1>5. pair'.t1 \in Lows \cup {0} /\ pair'.t2 \in Lows \cup {0}
    BY <1>1, UartParts DEF Rest, NoPair, LastLow
  <1>6. Rest' /\ RateOK'
    BY <1>1, <1>3, <1>4, <1>5, UartParts DEF Rest, RateOK
  <1>7. ~ stat.rxtx
    BY UartParts DEF UartShape
  <1>8. UartShape' /\ RateKept' /\ Silent' /\ BootShape'
    BY <1>1, <1>3, <1>4, <1>7, UartParts DEF UartShape, RateKept, Clearing, Silent
  <1>9. MeasureKept'
    BY <1>4 DEF MeasureKept
  <1>10. RateInSlot'
    <2> SUFFICES ASSUME rate'.by = "sync", d \in Speeds
                 PROVE  InSlot(d)' /\ 10 * build.div * dtn' >= 9 * d
      BY <1>3, BuildKept DEF RateInSlot
    <2>1. c \in Near(d)
      BY <1>3
    <2> QED
      BY <1>1, <2>1, NearInSlot, UartParts
  <1>11. TypeOK'
    BY <1>2, <1>6, TypeParts, PTL
  <1> QED
    BY <1>6, <1>8, <1>9, <1>10, <1>11 DEF IInv

\* sts writes one byte of two.
LEMMA ByteStored ==
  ASSUME NEW n \in Nat, n < 65536, NEW i \in Nat, i < 256
  PROVE  /\ (n - (n % 256)) + i \in Nat /\ (n - (n % 256)) + i < 65536
         /\ n < 256 => (n - (n % 256)) + i < 256
         /\ ((n - (n % 256)) + i) % 256 = i
  <1> DEFINE q == n \div 256
  <1>1. n - (n % 256) = 256 * q /\ q \in Nat /\ q < 256 /\ (n < 256 => q = 0)
    BY SMT
  <1>2. 256 * q + i < 65536 /\ 256 * q + i \in Nat
    BY <1>1, SMT
  <1>3. (256 * q + i) % 256 = i
    BY <1>1, SMT
  <1> HIDE DEF q
  <1> QED
    BY <1>1, <1>2, <1>3, SMT

\* It is not.
LEMMA KeepStep ==
  ASSUME IInv, ~ Bootloader, startIE, ~ stat.sync,
         NEW t \in Nat, t < 65536, NEW d \in Lows \cup {0},
         d # 0 => t \in Measured(d),
         Keep(t, d), UNCHANGED <<build, main>>, low' \in Lows \cup {0}
  PROVE  IInv'
  <1>1. /\ dt0' = (dt0 - Byte(dt0)) + Byte(t)
        /\ dtn' = (dtn - Byte(dtn)) + t \div 256
        /\ pair' = IF d = 0 THEN NoPair ELSE [t1 |-> LastLow, t2 |-> d]
        /\ rate' = IF rate.by \in {"bps", "sync"} THEN [rate EXCEPT !.by = "raced"] ELSE rate
        /\ since' = -1 /\ UNCHANGED <<stat, nbit, startIE, matchIE>>
    BY DEF Keep
  <1>2. Counts /\ RateOK
    BY TypeParts DEF IInv
  <1>3. Counts' /\ LastMeasure' = t
    <2>1. /\ dt0 \in Nat /\ dt0 < 65536 /\ (build.bn = 8 => dt0 < 256)
          /\ dtn \in Nat /\ dtn < 65536 /\ (build.bn = 8 => dtn < 256)
      BY <1>2 DEF Counts
    <2> DEFINE i == t % 256
               j == t \div 256
    <2>2. i \in Nat /\ i < 256 /\ j \in Nat /\ j < 256 /\ i + 256 * j = t
      BY SMT
    <2>3. dt0' = (dt0 - (dt0 % 256)) + i /\ dtn' = (dtn - (dtn % 256)) + j
      BY <1>1 DEF Byte
    <2> HIDE DEF i, j
    <2>4. /\ dt0' \in Nat /\ dt0' < 65536 /\ (build.bn = 8 => dt0' < 256)
          /\ dt0' % 256 = i
      BY <2>1, <2>2, <2>3, ByteStored, SMT
    <2>5. /\ dtn' \in Nat /\ dtn' < 65536 /\ (build.bn = 8 => dtn' < 256)
          /\ dtn' % 256 = j
      BY <2>1, <2>2, <2>3, ByteStored, SMT
    <2>6. LastMeasure' = i + 256 * j
      BY <2>4, <2>5, SMT DEF LastMeasure, Byte
    <2> QED
      BY <1>1, <2>2, <2>4, <2>5, <2>6, SMT DEF Counts
  <1>4. pair'.t1 \in Lows \cup {0} /\ pair'.t2 \in Lows \cup {0} /\ (d # 0 => pair'.t2 = d)
        /\ (d = 0 => pair'.t2 = 0)
    BY <1>1, UartParts DEF Rest, NoPair, LastLow
  <1>5. /\ rate' \in [bit : Lows \cup {0}, by : {"none", "bps", "sync", "noise", "raced"}]
        /\ rate'.by # "sync" /\ rate'.by # "bps"
    BY <1>1, <1>2 DEF RateOK
  <1>6. Rest' /\ RateOK' /\ since' <= 10
    <2>1. since' \in -1 .. 20 /\ since' <= 10
      BY <1>1, SMT
    <2> QED
      BY <1>1, <1>4, <1>5, <2>1, UartParts DEF Rest, RateOK
  <1>7. UartShape' /\ RateKept' /\ Silent' /\ BootShape'
    BY <1>1, <1>5, <1>6, UartParts DEF UartShape, RateKept, Clearing, Silent
  <1>8. MeasureKept'
    <2>1. Measured(d)' = Measured(d)
      BY BuildKept
    <2>2. LastMeasure' = t
      BY <1>3
    <2>3. CASE d = 0
      BY <1>4, <2>3 DEF MeasureKept
    <2>4. CASE d # 0
      BY <1>4, <2>1, <2>2, <2>4 DEF MeasureKept
    <2> QED
      BY <2>3, <2>4
  <1>9. RateInSlot'
    BY <1>5 DEF RateInSlot
  <1>10. TypeOK'
    BY <1>3, <1>6, TypeParts, PTL
  <1> QED
    BY <1>6, <1>7, <1>8, <1>9, <1>10 DEF IInv

\* The instructions of a reset up to the durations, and the last one.
LEMMA ResetKeeps ==
  ASSUME IInv, ResetMatch \/ ResetStat \/ ResetNbit \/ ResetStart
  PROVE  IInv'
  <1>1. /\ main # main' /\ (main = "idle" => ~ Bootloader)
        /\ UNCHANGED <<build, dt0, dtn, low, rate, pair, since>>
    BY DEF ResetMatch, ResetStat, ResetNbit, ResetStart
  <1>2. ~ Bootloader
    BY <1>1 DEF IInv, BootShape
  <1>3. CASE ResetMatch
    <2>1. /\ matchIE' = FALSE /\ main' = "stat" /\ UNCHANGED <<stat, nbit, startIE>>
      BY <1>3 DEF ResetMatch
    <2>2. Rest' /\ UartShape' /\ RateKept' /\ Silent' /\ BootShape'
      BY <1>1, <1>2, <2>1, UartParts DEF Rest, UartShape, RateKept, Clearing, Silent
    <2> QED
      BY <1>1, <2>2, KeepsCounts
  <1>4. CASE ResetStat
    <2>1. /\ stat' = [rxc |-> FALSE, sync |-> FALSE, rxtx |-> FALSE, wbtx |-> FALSE]
          /\ main' = "nbit" /\ UNCHANGED <<nbit, startIE, matchIE>>
      BY <1>4 DEF ResetStat
    <2>2. stat' \in Flags /\ ~ stat'.rxtx
      BY <2>1 DEF Flags
    <2>3. Rest' /\ UartShape' /\ RateKept' /\ Silent' /\ BootShape'
      BY <1>1, <1>2, <2>1, <2>2, UartParts DEF Rest, UartShape, RateKept, Clearing, Silent
    <2> QED
      BY <1>1, <2>3, KeepsCounts
  <1>5. CASE ResetNbit
    <2>1. /\ main = "nbit" /\ nbit' = 0 /\ main' = "dtn" /\ UNCHANGED <<stat, startIE, matchIE>>
      BY <1>5 DEF ResetNbit
    <2>2. nbit' \in -1 .. 20 /\ nbit' \in 0 .. 8
      BY <2>1, SMT
    <2>3. Rest' /\ UartShape' /\ RateKept' /\ Silent' /\ BootShape'
      BY <1>1, <1>2, <2>1, <2>2, UartParts DEF Rest, UartShape, RateKept, Clearing, Silent
    <2> QED
      BY <1>1, <2>3, KeepsCounts
  <1>6. CASE ResetStart
    <2>1. /\ main = "arm" /\ startIE' = TRUE /\ main' = "idle" /\ UNCHANGED <<stat, nbit, matchIE>>
      BY <1>6 DEF ResetStart
    <2>2. Rest' /\ UartShape' /\ RateKept' /\ Silent' /\ BootShape'
      BY <1>1, <1>2, <2>1, UartParts DEF Rest, UartShape, RateKept, Clearing, Silent
    <2> QED
      BY <1>1, <2>2, KeepsCounts
  <1> QED
    BY <1>3, <1>4, <1>5, <1>6 DEF ResetMatch, ResetStat, ResetNbit, ResetStart

\* The instructions that clear the durations.
LEMMA ResetClears ==
  ASSUME IInv, ResetDtn \/ ResetDt0
  PROVE  IInv'
  <1>1. /\ main \in {"dtn", "dtn+1", "dt0", "dt0+1"}
        /\ main' \in {"dtn+1", "dt0", "dt0+1", "arm"}
        /\ rate' = NoRate /\ pair' = NoPair /\ since' = -1
        /\ UNCHANGED <<build, stat, nbit, startIE, matchIE, low>>
    BY DEF ResetDtn, ResetDt0
  <1>2. ~ Bootloader
    BY <1>1 DEF IInv, BootShape
  <1>3. Counts'
    <2>1. /\ dt0 \in Nat /\ dt0 < 65536 /\ (build.bn = 8 => dt0 < 256)
          /\ dtn \in Nat /\ dtn < 65536 /\ (build.bn = 8 => dtn < 256)
      BY TypeParts DEF IInv, Counts
    <2>2. \/ dtn' \in {dtn - Byte(dtn), Byte(dtn)} /\ dt0' = dt0
          \/ dt0' \in {dt0 - Byte(dt0), Byte(dt0)} /\ dtn' = dtn
      BY DEF ResetDtn, ResetDt0
    <2>3. /\ dtn - Byte(dtn) \in Nat /\ dtn - Byte(dtn) < 65536
          /\ dtn < 256 => dtn - Byte(dtn) < 256
          /\ Byte(dtn) \in Nat /\ Byte(dtn) < 256
          /\ dt0 - Byte(dt0) \in Nat /\ dt0 - Byte(dt0) < 65536
          /\ dt0 < 256 => dt0 - Byte(dt0) < 256
          /\ Byte(dt0) \in Nat /\ Byte(dt0) < 256
      <3>1. dtn \in Nat /\ dtn < 65536 /\ dt0 \in Nat /\ dt0 < 65536
        BY <2>1
      <3> QED
        BY <3>1, SMT DEF Byte
    <2> QED
      BY <1>1, <2>1, <2>2, <2>3, SMT DEF Counts
  <1>4. since' \in -1 .. 20 /\ since' <= 10 /\ ~ (since' >= 0)
    BY <1>1, SMT
  <1>5. Rest' /\ RateOK'
    BY <1>1, <1>2, <1>4, UartParts DEF Rest, RateOK, Flags, NoRate, NoPair
  <1>6. UartShape' /\ RateKept' /\ Silent' /\ BootShape'
    BY <1>1, <1>2, <1>4, UartParts DEF UartShape, RateKept, Clearing, Silent, NoRate
  <1>7. MeasureKept' /\ RateInSlot'
    BY <1>1 DEF MeasureKept, RateInSlot, NoPair, NoRate
  <1>8. TypeOK'
    BY <1>3, <1>5, TypeParts, PTL
  <1> QED
    BY <1>5, <1>6, <1>7, <1>8 DEF IInv

\* Measures are words.
LEMMA MeasureIsWord ==
  ASSUME build \in Builds, NEW d \in Nat
  PROVE  /\ \A t \in Polled(d) : t \in Nat /\ t < 65536
         /\ \A t \in Dated(d) : t \in Nat /\ t < 65536
         /\ \A t \in Strays : t \in Nat /\ t < 65536
  <1>1. ASSUME NEW t \in Polled(d) PROVE t \in Nat /\ t < 65536
    <2>1. PICK l \in Lateness :
            t = Word(FirstCount + AtLeast(CeilDiv(d - Before - l, 5), 0))
      BY DEF Polled
    <2>2. l \in Int /\ Before \in Int /\ FirstCount \in Int
      BY SMT DEF Lateness, Before, FirstCount
    <2>3. FirstCount + AtLeast(CeilDiv(d - Before - l, 5), 0) \in Int
      BY <2>2, SMT DEF AtLeast, CeilDiv
    <2> QED
      BY <2>1, <2>3, WordIsWord, SMT
  <1>2. ASSUME NEW t \in Dated(d) PROVE t \in Nat /\ t < 65536
    <2>1. PICK x \in -1 .. build.div :
            t = ((d + x) \div build.div) % (IF build.bn = 8 THEN 256 ELSE 65536)
      BY DEF Dated
    <2>2. build.div \in {1, 2, 4, 8}
      BY BuildFacts
    <2>3. (d + x) \div build.div \in Int
      BY <2>2, SMT
    <2> DEFINE q == (d + x) \div build.div
    <2> HIDE DEF q
    <2>4. t = q % (IF build.bn = 8 THEN 256 ELSE 65536) /\ q \in Int
      BY <2>1, <2>3 DEF q
    <2> QED
      BY <2>4, SMT
  <1>3. ASSUME NEW t \in Strays PROVE t \in Nat /\ t < 65536
    BY SyncAssumption, SMT
  <1> QED
    BY <1>1, <1>2, <1>3

LEMMA LowsNat ==
  ASSUME build \in Builds
  PROVE  Lows \subseteq Nat
  <1>1. build.bits \subseteq Nat /\ Noise \subseteq Nat
    BY SyncAssumption
  <1>2. N \in Nat
    BY SMT DEF N
  <1>3. \A b \in Nat : N * b \in Nat
    BY <1>2, SMT
  <1> QED
    BY <1>1, <1>3 DEF Lows

LEMMA LowPolledStep ==
  ASSUME IInv, NEW d \in Lows, LowPolled(d)
  PROVE  IInv'
  <1>1. /\ Blocking /\ startIE /\ ~ stat.sync /\ UNCHANGED <<build, low, main>>
        /\ ~ Bootloader
    BY DEF LowPolled, Blocking, Bootloader
  <1>2. PICK t \in Polled(d) : IF build.routine = "5_1" THEN Autosync51(t, d) ELSE Autosync91(t, d)
    BY DEF LowPolled
  <1>3. /\ build \in Builds /\ d \in Nat /\ d \in Lows \cup {0} /\ low' \in Lows \cup {0}
        /\ t \in Nat /\ t < 65536
    <2>1. build \in Builds /\ low \in Lows \cup {0}
      BY <1>1, UartParts DEF Rest
    <2>2. d \in Nat
      BY <2>1, LowsNat
    <2> QED
      BY <1>1, <2>1, <2>2, MeasureIsWord
  <1>5. CASE Keep(t, d)
    <2>1. t \in Measured(d)
      BY <1>1 DEF Measured, Polls
    <2> QED
      BY <1>1, <1>3, <1>5, <2>1, KeepStep
  <1>6. CASE build.routine = "5_1" /\ Found(Word(5 * t), d)
    <2>1. Word(5 * t) \in Int
      BY <1>3, WordIsWord, SMT
    <2>2. d \in Speeds => Word(5 * t) \in Near(d)
      BY <1>3, <1>6, Measured51
    <2> QED
      BY <1>1, <1>3, <1>6, <2>1, <2>2, FoundStep
  <1>7. CASE build.routine = "9_1" /\ Found(Half(LastMeasure + t), d)
    <2>1. LastMeasure \in Nat
      BY TypeParts, SMT DEF IInv, Counts, LastMeasure, Byte
    <2>2. Half(LastMeasure + t) \in Int
      BY <1>3, <2>1, SMT DEF Half, Word
    <2>3. ASSUME d \in Speeds, LastLow = N * d
          PROVE  Half(LastMeasure + t) \in Near(d)
      <3>1. LastLow = 9 * d /\ 9 * d # 0
        BY <1>3, <1>7, <2>3, SMT DEF N, Speeds
      <3>2. LastMeasure \in Polled(9 * d)
        BY <1>1, <3>1 DEF LastLow, IInv, MeasureKept, Measured, Polls
      <3> QED
        BY <1>3, <1>7, <2>3, <3>2, Measured91
    <2> QED
      BY <1>1, <1>3, <1>7, <2>2, <2>3, FoundStep
  <1> QED
    BY <1>1, <1>2, <1>5, <1>6, <1>7 DEF Autosync51, Autosync91, Blocking

LEMMA RiseStep ==
  ASSUME IInv, Rise
  PROVE  IInv'
  <1>1. /\ ~ Blocking /\ ~ Bootloader /\ startIE /\ ~ stat.sync /\ low' = 0
        /\ UNCHANGED <<build, main>>
    BY DEF Rise
  <1>2. PICK t \in IF low = 0 THEN Strays ELSE Dated(low) :
          IF build.routine = "5_1_nb" THEN Autosync51nb(t, low) ELSE Autosync91nb(t, low)
    BY DEF Rise
  <1>3. build \in Builds /\ low \in Lows \cup {0} /\ low' \in Lows \cup {0}
    BY <1>1, UartParts DEF Rest
  <1>4. t \in Nat /\ t < 65536
    <2>1. low \in Nat
      BY <1>3, LowsNat
    <2> QED
      BY <1>2, <1>3, <2>1, MeasureIsWord
  <1>5. build.routine \in {"5_1_nb", "9_1_nb"}
    BY <1>1, <1>3, BuildFacts DEF Routines, Blocking, Bootloader
  <1>6. low \in Speeds =>
          /\ t \in Dated(low)
          /\ build.routine = "5_1_nb" => build.div \in {4, 8}
          /\ build.routine = "9_1_nb" => build.div = 8
    BY <1>2, <1>5, SMT DEF Speeds
  <1>7. low \in Speeds =>
          /\ build.div = 4 => Word(4 * t) \in Near(low)
          /\ build.div = 8 => Word(8 * t) \in Near(low)
    BY <1>3, <1>5, <1>6, MeasuredNb
  <1>8. Word(4 * t) \in Int /\ Word(8 * t) \in Int
    BY <1>4, SMT DEF Word
  <1>9. CASE Keep(t, low)
    <2>1. low # 0 => t \in Measured(low)
      BY <1>1, <1>2 DEF Measured, Polls
    <2> QED
      BY <1>1, <1>3, <1>4, <1>9, <2>1, KeepStep
  <1>10. CASE build.routine = "5_1_nb" /\ Found(IF build.div = 8 THEN Word(8 * t) ELSE Word(4 * t), low)
    <2> DEFINE c == IF build.div = 8 THEN Word(8 * t) ELSE Word(4 * t)
    <2>1. c \in Int /\ (low \in Speeds => c \in Near(low))
      BY <1>6, <1>7, <1>8, <1>10
    <2>2. Found(c, low)
      BY <1>10
    <2> HIDE DEF c
    <2> QED
      BY <1>1, <1>3, <2>1, <2>2, FoundStep
  <1>11. CASE build.routine = "9_1_nb" /\ Found(Word(8 * t), low)
    BY <1>1, <1>3, <1>6, <1>7, <1>8, <1>11, FoundStep
  <1>12. 2 * 4 * t = 8 * t
    BY <1>4, SMT
  <1> QED
    BY <1>2, <1>5, <1>9, <1>10, <1>11, <1>12 DEF Autosync51nb, Autosync91nb

\* What the steps of the bootloader start from.
LEMMA BootParts ==
  ASSUME IInv, UNCHANGED <<build, startIE, matchIE, low, main>>, Bootloader
  PROVE  /\ Counts /\ Rest /\ RateOK /\ BootShape
         /\ build \in Builds /\ build.bn # 8 /\ Bootloader' /\ ~ Blocking'
         /\ Flags' = Flags /\ Lows' = Lows
         /\ UartShape' /\ RateKept' /\ Silent' /\ MeasureKept'
  <1>1. Counts /\ Rest /\ RateOK /\ BootShape /\ build \in Builds
    BY TypeParts DEF IInv, Rest
  <1>2. build.bn # 8 /\ ~ Blocking
    BY <1>1, BuildFacts DEF Bootloader, Blocking
  <1>3. Bootloader' /\ ~ Blocking' /\ Lows' = Lows
    BY <1>2, BuildKept
  <1> QED
    BY <1>1, <1>2, <1>3 DEF Flags, UartShape, RateKept, Silent, MeasureKept

\* What is left to show of them.
LEMMA BootRest ==
  ASSUME IInv, UNCHANGED <<build, startIE, matchIE, low, main>>, Bootloader,
         Counts', stat' \in Flags, nbit' \in 0 .. 20, since' \in -1 .. 20,
         pair'.t1 \in Lows \cup {0}, pair'.t2 \in Lows \cup {0},
         RateOK', RateInSlot',
         nbit' > 0 => ~ stat'.sync /\ since' = 20 - nbit',
         nbit' = 0 /\ ~ stat'.sync => rate'.by = "none",
         BootMeasure'
  PROVE  IInv'
  <1>1. nbit' \in -1 .. 20 /\ nbit' >= 0
    BY SMT
  <1>2. Rest'
    BY <1>1, BootParts DEF Rest
  <1>3. TypeOK'
    BY <1>2, TypeParts, PTL
  <1>4. BootShape'
    <2>1. BootShape /\ Bootloader'
      BY BootParts
    <2>2. ~ startIE /\ ~ matchIE /\ main = "idle"
      BY <2>1 DEF BootShape
    <2>3. ~ startIE' /\ ~ matchIE' /\ main' = "idle"
      BY <2>2
    <2>4. /\ nbit' > 0 => ~ stat'.sync /\ since' = 20 - nbit'
          /\ nbit' = 0 /\ ~ stat'.sync => rate'.by = "none"
      OBVIOUS
    <2> QED
      BY <1>1, <2>3, <2>4 DEF BootShape
  <1> QED
    BY <1>3, <1>4, BootParts DEF IInv

LEMMA BootLowStep ==
  ASSUME IInv, NEW d \in Lows, BootLow(d)
  PROVE  IInv'
  <1>1. /\ Bootloader /\ nbit = 0 /\ ~ stat.sync /\ UNCHANGED <<build, low, main>>
    BY DEF BootLow
  <1>2. PICK t \in Polled(d) : IF build.routine = "diabolo_5_1" THEN DiaboloSync51(t, d)
                               ELSE DiaboloSync101(t, d)
    BY DEF BootLow
  <1>3. d \in Nat /\ t \in Nat /\ t < 65536
    <2>1. build \in Builds
      BY DEF IInv, TypeOK
    <2> QED
      BY <2>1, LowsNat, MeasureIsWord
  <1>4. dtn \in Nat /\ dtn < 65536 /\ Half(dtn) \in Nat /\ Half(dtn) < 65536
    <2>1. dtn \in Nat /\ dtn < 65536
      BY TypeParts DEF IInv, Counts
    <2> QED
      BY <2>1, SMT DEF Half, Word
  <1>5. CASE BootKeep(t, d)
    <2>1. /\ dt0' = Word(t) /\ dtn' = Word(t) /\ nbit' = 0 /\ since' = -1
          /\ pair' = [t1 |-> pair.t2, t2 |-> d]
          /\ UNCHANGED <<stat, startIE, matchIE, rate>>
      BY <1>5 DEF BootKeep
    <2>2. dt0' = t /\ dtn' = t
      BY <1>3, <2>1, WordSmall
    <2>3. nbit' \in 0 .. 20 /\ since' \in -1 .. 20 /\ ~ (nbit' > 0)
      BY <2>1, SMT
    <2>4. rate'.by = "none" /\ RateOK'
      BY <1>1, <2>1, BootParts DEF BootShape, RateOK
    <2>5. RateInSlot'
      BY <2>4 DEF RateInSlot
    <2>6. stat' \in Flags /\ pair'.t1 \in Lows \cup {0} /\ pair'.t2 \in Lows \cup {0}
          /\ pair'.t2 = d
      BY <1>1, <2>1, BootParts DEF Rest
    <2>7. BootMeasure'
      <3>1. Polled(d)' = Polled(d)
        BY <1>1, BuildKept
      <3> QED
        BY <1>2, <2>2, <2>6, <3>1 DEF BootMeasure
    <2>8. Counts'
      <3>1. build' = build /\ build.bn # 8
        BY <1>1, <2>1, BootParts
      <3> QED
        BY <1>3, <2>2, <3>1, SMT DEF Counts
    <2> QED
      BY <1>1, <2>1, <2>3, <2>4, <2>5, <2>6, <2>7, <2>8, BootRest
  <1>6. ASSUME NEW c \in Nat, c < 65536, BootFound(c, d),
               d \in Speeds /\ pair.t2 = N * d => c \in Near(d)
        PROVE  IInv'
    <2>1. /\ dtn' = c /\ dt0' = Word(c + c \div 2) /\ nbit' = 20 /\ since' = 0
          /\ pair' = [t1 |-> pair.t2, t2 |-> d]
          /\ rate' = [bit |-> d, by |-> IF pair.t2 = N * d THEN "sync" ELSE "noise"]
          /\ UNCHANGED <<stat, startIE, matchIE>>
      BY <1>6 DEF BootFound
    <2>2. Counts'
      <3>1. c + c \div 2 \in Int
        BY SMT
      <3>2. dt0' \in Nat /\ dt0' < 65536
        BY <2>1, <3>1, WordIsWord, SMT
      <3> QED
        BY <1>1, <1>6, <2>1, <3>2, BootParts, SMT DEF Counts
    <2>3. nbit' \in 0 .. 20 /\ since' \in -1 .. 20 /\ since' = 20 - nbit' /\ nbit' # 0
      BY <2>1, SMT
    <2>4. RateOK'
      BY <1>1, <2>1, BootParts DEF RateOK
    <2>5. RateInSlot'
      <3> SUFFICES ASSUME pair.t2 = N * d, d \in Speeds
                   PROVE  InSlot(d)'
        BY <1>1, <2>1, BuildKept DEF RateInSlot
      <3>1. c \in Near(d)
        BY <1>6
      <3>2. build \in Builds
        BY DEF IInv, TypeOK
      <3> QED
        BY <1>1, <2>1, <3>1, <3>2, BootNearInSlot
    <2>6. stat' \in Flags /\ pair'.t1 \in Lows \cup {0} /\ pair'.t2 \in Lows \cup {0}
      BY <1>1, <2>1, BootParts DEF Rest
    <2> QED
      BY <1>1, <1>6, <2>1, <2>2, <2>3, <2>4, <2>5, <2>6, BootRest DEF BootMeasure
  <1>7. ASSUME d \in Speeds, pair.t2 = N * d
        PROVE  /\ build.routine = "diabolo_5_1" => dtn \in Near(d)
               /\ build.routine = "diabolo_10_1" => Half(dtn) \in Near(d)
    <2>1. /\ build.routine = "diabolo_5_1" => pair.t2 = 5 * d
          /\ build.routine = "diabolo_10_1" => pair.t2 = 10 * d
          /\ 5 * d # 0 /\ 10 * d # 0
      BY <1>1, <1>3, <1>7, SMT DEF N, Speeds
    <2>2. pair.t2 # 0 => dtn \in Polled(pair.t2)
      BY <1>1, BootParts DEF IInv, BootShape, BootMeasure
    <2>3. build \in Builds
      BY DEF IInv, TypeOK
    <2> QED
      BY <1>1, <1>7, <2>1, <2>2, <2>3, MeasuredBoot DEF Bootloader
  <1>8. CASE build.routine = "diabolo_5_1" /\ BootFound(dtn, d)
    BY <1>4, <1>6, <1>7, <1>8
  <1>9. CASE build.routine = "diabolo_10_1" /\ BootFound(Half(dtn), d)
    BY <1>4, <1>6, <1>7, <1>9
  <1> QED
    BY <1>1, <1>2, <1>5, <1>8, <1>9 DEF DiaboloSync51, DiaboloSync101, Bootloader

LEMMA BootWaitStep ==
  ASSUME IInv, NEW rxd \in {0, 1}, BootWait(rxd)
  PROVE  IInv'
  <1>1. Bootloader /\ nbit > 0 /\ UNCHANGED <<build, startIE, matchIE, low, main>>
    BY DEF BootWait
  <1>2. /\ Counts /\ stat \in Flags
        /\ nbit \in -1 .. 20 /\ since \in -1 .. 20 /\ RateOK
        /\ pair.t1 \in Lows \cup {0} /\ pair.t2 \in Lows \cup {0}
        /\ ~ stat.sync /\ since = 20 - nbit
    BY <1>1, BootParts DEF Rest, BootShape
  <1>3. CASE rxd = 0 /\ nbit > 1
    <2>1. /\ nbit' = 0 /\ dt0' = 0 /\ dtn' = 0
          /\ since' = -1 /\ rate' = NoRate /\ pair' = NoPair /\ UNCHANGED stat
      BY <1>3 DEF BootWait
    <2>2. nbit' \in 0 .. 20 /\ since' \in -1 .. 20 /\ ~ (nbit' > 0) /\ Counts'
      BY <2>1, SMT DEF Counts
    <2>3. RateOK' /\ RateInSlot'
      BY <2>1 DEF RateOK, RateInSlot, NoRate
    <2> QED
      BY <1>1, <1>2, <2>1, <2>2, <2>3, BootRest DEF BootMeasure, NoPair, NoRate
  <1>4. CASE ~ (rxd = 0 /\ nbit > 1)
    <2>1. /\ nbit' = nbit - 1 /\ since' = since + 1
          /\ stat' = [stat EXCEPT !.sync = (nbit = 1)]
          /\ UNCHANGED <<dt0, dtn, rate, pair>>
      BY <1>4 DEF BootWait
    <2>2. /\ nbit' \in 0 .. 20 /\ since' \in -1 .. 20
          /\ since' = 20 - nbit' /\ (nbit' = 0 <=> nbit = 1)
      BY <1>1, <1>2, <2>1, SMT
    <2>3. stat' \in Flags /\ (stat'.sync <=> nbit = 1)
      <3> DEFINE v == nbit = 1
      <3>1. v \in BOOLEAN
        OBVIOUS
      <3> HIDE DEF v
      <3>2. \A s \in Flags : [s EXCEPT !.sync = v] \in Flags /\ ([s EXCEPT !.sync = v].sync = v)
        BY <3>1 DEF Flags
      <3>3. stat' = [stat EXCEPT !.sync = v]
        BY <2>1 DEF v
      <3>4. stat' \in Flags /\ (stat'.sync = v)
        BY <1>2, <3>2, <3>3
      <3> QED
        BY <3>4 DEF v
    <2>4. RateOK' /\ RateInSlot'
      <3>1. RateInSlot /\ Lows' = Lows /\ Bootloader' = Bootloader /\ Speeds' = Speeds
        BY <1>1, BuildKept DEF IInv
      <3>2. \A b : InSlot(b)' = InSlot(b)
        BY <1>1, <2>1, CountsKept
      <3>3. RateOK'
        BY <1>2, <2>1, <3>1 DEF RateOK
      <3> QED
        BY <1>1, <2>1, <3>1, <3>2, <3>3 DEF RateInSlot
    <2>5. nbit' > 0 => ~ stat'.sync
      BY <2>2, <2>3, SMT
    <2>6. nbit' = 0 => stat'.sync
      BY <2>2, <2>3
    <2>7. Counts'
      BY <1>1, <1>2, <2>1, SMT DEF Counts
    <2> QED
      BY <1>1, <1>2, <2>1, <2>2, <2>3, <2>4, <2>5, <2>6, <2>7, BootRest DEF BootMeasure
  <1> QED
    BY <1>3, <1>4

LEMMA BootStartStep ==
  ASSUME IInv, BootStart
  PROVE  IInv'
  <1>1. /\ Bootloader /\ stat.sync /\ stat' = [stat EXCEPT !.sync = FALSE]
        /\ dt0' = 0 /\ dtn' = 0 /\ rate' = NoRate /\ pair' = NoPair /\ since' = -1
        /\ UNCHANGED <<build, nbit, startIE, matchIE, low, main>>
    BY DEF BootStart
  <1>2. stat \in Flags /\ nbit \in -1 .. 20 /\ ~ (nbit > 0) /\ nbit >= 0
    BY <1>1, BootParts DEF Rest, BootShape
  <1>3. stat' \in Flags /\ ~ stat'.sync
    BY <1>1, <1>2 DEF Flags
  <1>4. /\ nbit' = 0 /\ nbit' \in 0 .. 20 /\ since' \in -1 .. 20 /\ ~ (nbit' > 0)
        /\ Counts'
    BY <1>1, <1>2, SMT DEF Counts
  <1>5. RateOK' /\ RateInSlot'
    BY <1>1 DEF RateOK, RateInSlot, NoRate
  <1> QED
    BY <1>1, <1>3, <1>4, <1>5, BootRest DEF BootMeasure, NoPair, NoRate

-----------------------------------------------------------------------------
(* Theorems.                                                               *)

LEMMA InitOK ==
  ASSUME Init
  PROVE  IInv
  <1>1. /\ dt0 = 0 /\ dtn = 0 /\ nbit = 0 /\ low = 0 /\ since = -1 /\ main = "idle"
        /\ startIE = ~ Bootloader /\ matchIE = FALSE /\ build \in Builds
        /\ stat = [rxc |-> FALSE, sync |-> FALSE, rxtx |-> FALSE, wbtx |-> FALSE]
        /\ rate = NoRate /\ pair = NoPair
    BY DEF Init
  <1>2. Counts
    BY <1>1, SMT DEF Counts
  <1>3. nbit \in -1 .. 20 /\ since \in -1 .. 20 /\ since <= 10 /\ ~ (since >= 0)
        /\ nbit >= 0 /\ ~ (nbit > 0)
    BY <1>1, SMT
  <1>4. Rest /\ RateOK
    BY <1>1, <1>3 DEF Rest, RateOK, Flags, NoRate, NoPair, Bootloader
  <1>5. TypeOK
    BY <1>2, <1>4, TypeParts
  <1>6. BootShape /\ UartShape /\ RateKept /\ Silent /\ MeasureKept /\ RateInSlot
    BY <1>1, <1>3 DEF BootShape, BootMeasure, UartShape, RateKept, Clearing, Silent, MeasureKept,
                      RateInSlot, NoRate, NoPair
  <1> QED
    BY <1>4, <1>5, <1>6 DEF IInv

LEMMA StutterStep ==
  ASSUME IInv, UNCHANGED vars
  PROVE  IInv'
  <1>1. /\ Rest' /\ BootShape' /\ UartShape' /\ RateKept' /\ Silent'
        /\ UNCHANGED <<build, dt0, dtn, rate, stat, since, pair>>
    <2>1. UNCHANGED <<build, stat, dt0, dtn, nbit, startIE, matchIE, low, main, rate, pair, since>>
      BY DEF vars
    <2>2. Rest /\ BootShape /\ UartShape /\ RateKept /\ Silent /\ Lows' = Lows
          /\ Bootloader' = Bootloader /\ \A d : Polled(d)' = Polled(d)
      BY <2>1, TypeParts, BuildKept DEF IInv
    <2>3. Rest'
      BY <2>1, <2>2 DEF Rest, Flags
    <2>4. BootShape'
      BY <2>1, <2>2 DEF BootShape, BootMeasure
    <2>5. UartShape' /\ RateKept' /\ Silent'
      BY <2>1, <2>2 DEF UartShape, RateKept, Clearing, Silent
    <2> QED
      BY <2>1, <2>3, <2>4, <2>5
  <1> QED
    BY <1>1, KeepsCounts

LEMMA NextStep ==
  ASSUME IInv, [Next]_vars
  PROVE  IInv'
  <1>1. CASE Program
    BY <1>1, ResetKeeps, ResetClears, ConfiguredStep, PutStep, SlotStep, PutStartStep,
       ConfigureStep DEF Program, Going, Resetting
  <1>2. CASE BootStart
    BY <1>2, BootStartStep
  <1>3. CASE Rise
    BY <1>3, RiseStep
  <1>4. CASE StartBit
    BY <1>4, StartBitStep
  <1>5. CASE Match
    BY <1>5, MatchStep
  <1>6. ASSUME NEW d \in Lows, LowPolled(d) \/ Fall(d) \/ BootLow(d)
        PROVE  IInv'
    BY <1>6, LowPolledStep, FallStep, BootLowStep
  <1>7. ASSUME NEW rxd \in {0, 1}, BootWait(rxd)
        PROVE  IInv'
    BY <1>7, BootWaitStep
  <1>8. CASE UNCHANGED vars
    BY <1>8, StutterStep
  <1> QED
    BY <1>1, <1>2, <1>3, <1>4, <1>5, <1>6, <1>7, <1>8 DEF Next

\* The inductive invariant holds of every build, at any speed, whatever the
\* levels on the line and wherever the program is in its calls.
THEOREM Invariance == Spec => []IInv
  <1>1. Init => IInv
    BY InitOK
  <1>2. IInv /\ [Next]_vars => IInv'
    BY NextStep
  <1> QED
    BY <1>1, <1>2, PTL DEF Spec

\* Durations fit in the registers that the routines keep them in, and the
\* counts of bits stay in theirs (autosync routines, START and COMPARE
\* handlers of swuarta.sx, lines 192-384).
THEOREM TypeCorrect == Spec => []TypeOK
  <1>1. IInv => TypeOK
    BY DEF IInv
  <1> QED
    BY <1>1, Invariance, PTL

\* The builds are meant for speeds of Speeds.
MeantForSpeeds == build.bits \subseteq Speeds

\* Once synchronized or configured, the UART samples the bits of a frame in
\* their slots at every speed of Speeds, not only at the ends of the ranges
\* that are model-checked, whatever was on the line before.
THEOREM SampledCorrect == Spec => [](MeantForSpeeds => SampledInSlot)
  <1>1. IInv => (MeantForSpeeds => SampledInSlot)
    BY DEF IInv, RateInSlot, InSlot, MeantForSpeeds, SampledInSlot
  <1> QED
    BY <1>1, Invariance, PTL

\* The step that QuietUntilSynced constrains.
TransmitAfterSync ==
  main = "start" /\ main' = "idle" /\ since >= 0 /\ rate.by = "sync"
    /\ rate.bit \in build.bits =>
  since * dtn * build.div >= (IF N = 5 THEN 1 ELSE 9) * rate.bit

LEMMA QuietStep ==
  ASSUME IInv, MeantForSpeeds
  PROVE  TransmitAfterSync
  <1> SUFFICES ASSUME main = "start", since >= 0, rate.by = "sync", rate.bit \in build.bits
               PROVE  since * dtn * build.div >= (IF N = 5 THEN 1 ELSE 9) * rate.bit
    BY DEF TransmitAfterSync
  <1>1. ~ Bootloader /\ build \in Builds
    BY DEF IInv, BootShape, TypeOK
  <1>2. since = 10
    BY <1>1 DEF IInv, Silent, RateKept, Clearing
  <1>3. 10 * build.div * dtn >= 9 * rate.bit /\ rate.bit \in Nat
    BY <1>1, SyncAssumption DEF IInv, RateInSlot, MeantForSpeeds
  <1>4. build.div \in {1, 2, 4, 8} /\ dtn \in Nat
    BY <1>1, BuildFacts, TypeParts DEF IInv, Counts
  <1> DEFINE D == build.div
             b == rate.bit
             n == N = 5
  <1>5. D \in {1, 2, 4, 8} /\ b \in Nat /\ dtn \in Nat /\ 10 * D * dtn >= 9 * b
    BY <1>3, <1>4
  <1> HIDE DEF D, b, n
  <1>6. 10 * dtn * D >= (IF n THEN 1 ELSE 9) * b
    BY <1>5, SMT
  <1> QED
    BY <1>2, <1>6 DEF D, b, n

\* hw(write) waits for the fake reception, and what the found speed is short
\* of the real one never brings the transmission into the synchronization
\* byte: at every speed of Speeds.
THEOREM QuietCorrect == Spec /\ MeantForSpeeds => QuietUntilSynced
  <1>1. IInv /\ MeantForSpeeds => TransmitAfterSync
    BY QuietStep
  <1>2. MeantForSpeeds /\ [Next]_vars => MeantForSpeeds'
    <2>1. [Next]_vars => UNCHANGED build
      BY DEF Next, vars, Program, Going, Resetting, ResetMatch, ResetStat, ResetNbit,
             ResetDtn, ResetDt0, ResetStart, Configured, Put, Slot, PutStart, Configure,
             BootStart, Rise, StartBit, Match, LowPolled, Fall, BootLow, BootWait
    <2> QED
      BY <2>1, BuildKept DEF MeantForSpeeds
  <1> QED
    BY <1>1, <1>2, Invariance, PTL DEF Spec, QuietUntilSynced, TransmitAfterSync

-----------------------------------------------------------------------------
(* What SwuartSync takes for a synchronization: two low levels one of      *)
(* which is N times as long as the other, and every such pair at the       *)
(* speeds the routines are for.                                            *)

-----------------------------------------------------------------------------
(* Measures.                                                               *)

\* Measurable, of two low levels.
CanMeasure(t1, t2) ==
  LET units == IF Polls \/ build.bn = 16 THEN 65535 ELSE 255
  IN  /\ Blocking => t2 >= Before - 3
      /\ t1 # 0 /\ t1 < Grain * units
      /\ N * t2 + t2 \div Q < Grain * 65535
      /\ t2 < Grain * units

\* The tolerance that each routine computes, and its comparison.
Tolerance(v) == IF build.routine = "diabolo_5_1" THEN Word(v + 2) \div 4
                ELSE IF N = 5 THEN Word(v + 1) \div 4 ELSE Half(v)

Fits(u, v) == InRatio(u, v, Tolerance(v))

\* Speeds at which the exact sequence fits whatever the delays of the polls
\* or of the dates are.
Exact == {b \in Speeds :
  /\ build.routine = "9_1" => b >= 57
  /\ build.routine = "diabolo_5_1" => b >= 81
  /\ build.routine = "diabolo_10_1" => b >= 86
  /\ build.routine = "5_1_nb" /\ build.div = 8 => b >= 217}

\* A polling loop measures any level that lasts until it begins.
LEMMA PolledClose ==
  ASSUME build \in Builds, NEW d \in Nat, d # 0, d < 327675, NEW t \in Polled(d),
         Bootloader \/ d >= Before - 3
  PROVE  /\ t \in Nat /\ t < 65536
         /\ Bootloader => 5 * t \in d - 1 .. d + 5
         /\ ~ Bootloader /\ build.bn = 8 => 5 * t \in d - 1 .. d + 4
         /\ ~ Bootloader /\ build.bn # 8 => 5 * t \in d - 2 .. d + 3
  <1>1. PICK l \in Lateness :
          t = Word(FirstCount + AtLeast(CeilDiv(d - Before - l, 5), 0))
    BY DEF Polled
  <1> DEFINE n == d - Before - l
             q == AtLeast(CeilDiv(n, 5), 0)
  <1>2. /\ Bootloader => l \in 0 .. 2 /\ Before = 4 /\ FirstCount = 1
        /\ ~ Bootloader => l \in 0 .. 1 /\ FirstCount = 6
        /\ ~ Bootloader /\ build.bn = 8 => Before = 30
        /\ ~ Bootloader /\ build.bn # 8 => Before = 31
    BY <1>1, SMT DEF Lateness, Before, FirstCount
  <1>3. n \in Int /\ n >= -5 /\ (~ Bootloader => n >= -4)
    BY <1>2, SMT
  <1>4. n = d - (Before + l) /\ q = AtLeast(CeilDiv(n, 5), 0) /\ t = Word(FirstCount + q)
    BY <1>1, <1>2, SMT
  <1> HIDE DEF n, q
  <1>5. q \in Nat /\ (5 * q \in n .. n + 4 \/ (n = -5 /\ q = 0))
    BY <1>3, <1>4, SMT DEF AtLeast, CeilDiv
  <1>6. FirstCount + q \in Nat /\ FirstCount + q < 65536
    BY <1>2, <1>3, <1>4, <1>5, SMT
  <1>7. Word(FirstCount + q) = FirstCount + q
    BY <1>6, WordSmall
  <1> QED
    BY <1>2, <1>4, <1>5, <1>6, <1>7, SMT

\* So does the difference of two dates.
LEMMA DatedClose ==
  ASSUME build \in Builds, NEW d \in Nat, d # 0, NEW t \in Dated(d),
         d < build.div * (IF build.bn = 16 THEN 65535 ELSE 255)
  PROVE  t \in Nat /\ t < 65536 /\ build.div * t \in d - build.div .. d + build.div
  <1>1. build.div \in {1, 2, 4, 8} /\ build.bn \in {8, 16}
    BY BuildFacts
  <1> DEFINE D == build.div
  <1>2. PICK x \in -1 .. D : t = ((d + x) \div D) % (IF build.bn = 8 THEN 256 ELSE 65536)
    BY DEF Dated
  <1> DEFINE q == (d + x) \div D
             w == IF build.bn = 8 THEN 256 ELSE 65536
  <1>3. q \in Nat /\ D * q \in d - D .. d + D /\ q < w
    <2>1. D \in {1, 2, 4, 8} /\ x \in -1 .. D /\ d \in Nat \ {0} /\ d < D * (w - 1)
          /\ w \in {256, 65536}
      BY <1>1, SMT
    <2> HIDE DEF D, w
    <2> QED
      BY <2>1, SMT
  <1>4. t = q % w /\ w \in {256, 65536}
    BY <1>2
  <1> HIDE DEF q, w
  <1>5. t = q
    BY <1>3, <1>4, SMT
  <1> QED
    BY <1>3, <1>4, <1>5, SMT

-----------------------------------------------------------------------------
(* The comparison, in numbers.                                             *)

\* n times the last level and its q-th part can be counted in 5 cycles.
Reaches(n, q, t2) == n * t2 + t2 \div q < 327675

\* u and v are measures of t1 and t2 by polling.
Near2(t1, t2, u, v) == /\ 5 * u \in t1 - 2 .. t1 + 5 /\ 5 * v \in t2 - 2 .. t2 + 5
                       /\ u < 65536

\* u is n times v, up to c.
Between(n, u, v, c) == u >= Word(n * v - c) /\ u < Word(n * v + c)

\* t1 is n times t2, up to the q-th part of t2 and the units of the measures.
Off(n, q, g, t1, t2) == /\ q * (n * t2 - t1) <= t2 + 2 * g + q * g * (n + 1)
                        /\ q * (t1 - n * t2) <= t2 + 2 * g + q * g * (n + 1)

\* Of polled levels: the ratio is 5, and the tolerance a quarter of a bit.
LEMMA FiveOnlyIfNear ==
  ASSUME NEW t1 \in Nat, NEW t2 \in Nat, NEW u \in Nat, NEW v \in Nat, NEW e \in 1 .. 2,
         Reaches(5, 4, t2), Near2(t1, t2, u, v), Between(5, u, v, Word(v + e) \div 4)
  PROVE  Off(5, 4, 5, t1, t2)
  <1>0. /\ 5 * t2 + t2 \div 4 < 327675
        /\ 5 * u \in t1 - 2 .. t1 + 5 /\ 5 * v \in t2 - 2 .. t2 + 5 /\ u < 65536
    BY DEF Reaches, Near2
  <1>1. v + e \in Nat /\ v + e < 65536 /\ v < 13200
    BY <1>0, SMT
  <1> DEFINE c == (v + e) \div 4
  <1>2. Word(v + e) = v + e
    BY <1>1, WordSmall
  <1>3. c \in Nat /\ 4 * c <= v + e /\ 4 * c >= v + e - 3
    BY <1>1, SMT
  <1>4. u >= Word(5 * v - c) /\ u < Word(5 * v + c)
    BY <1>2 DEF Between
  <1> HIDE DEF c
  <1>5. 5 * v - c \in Nat /\ 5 * v - c < 65536
    BY <1>0, <1>1, <1>3, SMT
  <1>6. u >= 5 * v - c
    BY <1>4, <1>5, WordSmall
  <1>7. u < 5 * v + c
    <2>1. CASE 5 * v + c < 65536
      BY <1>1, <1>3, <1>4, <2>1, WordSmall, SMT
    <2>2. CASE 5 * v + c >= 65536
      BY <2>2, <1>0, <1>1, <1>3, SMT
    <2> QED
      BY <1>1, <1>3, <2>1, <2>2, SMT
  <1> QED
    BY <1>0, <1>1, <1>3, <1>6, <1>7, SMT DEF Off

\* Of polled levels: the ratio is 9 or 10, and the tolerance half a bit.
LEMMA TenOnlyIfNear ==
  ASSUME NEW n \in {9, 10}, NEW t1 \in Nat, NEW t2 \in Nat, NEW u \in Nat, NEW v \in Nat,
         Reaches(n, 2, t2), Near2(t1, t2, u, v), Between(n, u, v, Half(v))
  PROVE  Off(n, 2, 5, t1, t2)
  <1>0. /\ n * t2 + t2 \div 2 < 327675
        /\ 5 * u \in t1 - 2 .. t1 + 5 /\ 5 * v \in t2 - 2 .. t2 + 5 /\ u < 65536
    BY DEF Reaches, Near2
  <1> DEFINE c == Half(v)
  <1>1. v < 8000
    BY <1>0, SMT
  <1>2. c \in Nat /\ 2 * c \in v .. v + 1
    BY <1>1, HalfRounds
  <1> HIDE DEF c
  <1>3. u >= Word(n * v - c) /\ u < Word(n * v + c)
    BY DEF c, Between
  <1>4. n * v - c \in Nat /\ n * v - c < 65536
    BY <1>0, <1>1, <1>2, SMT
  <1>5. u >= n * v - c
    BY <1>3, <1>4, WordSmall
  <1>6. u < n * v + c
    <2>1. CASE n * v + c < 65536
      BY <1>1, <1>2, <1>3, <2>1, WordSmall, SMT
    <2>2. CASE n * v + c >= 65536
      BY <2>2, <1>0, <1>1, <1>2, SMT
    <2> QED
      BY <1>1, <1>2, <2>1, <2>2, SMT
  <1> QED
    BY <1>0, <1>1, <1>2, <1>5, <1>6, SMT DEF Off

\* The same of dates in units of D cycles; c is the q-th part of v, rounded.
DatesFit(D, n, q, t1, t2, u, v, c) ==
  /\ D \in {1, 2, 4, 8} /\ ((n = 5 /\ q = 4) \/ (n = 9 /\ q = 2))
  /\ t1 \in Nat /\ t2 \in Nat /\ u \in Nat /\ v \in Nat /\ c \in Nat
  /\ n * t2 + t2 \div q < D * 65535
  /\ D * u \in t1 - D .. t1 + D /\ D * v \in t2 - D .. t2 + D
  /\ u < 65536 /\ v < 65536
  /\ q * c \in v - 2 .. v + 1
  /\ Between(n, u, v, c)

LEMMA DatesOnlyIfNear ==
  ASSUME NEW D, NEW n, NEW q, NEW t1, NEW t2, NEW u, NEW v, NEW c,
         DatesFit(D, n, q, t1, t2, u, v, c)
  PROVE  Off(n, q, D, t1, t2)
  <1>0. /\ D \in {1, 2, 4, 8} /\ ((n = 5 /\ q = 4) \/ (n = 9 /\ q = 2))
        /\ t1 \in Nat /\ t2 \in Nat /\ u \in Nat /\ v \in Nat /\ c \in Nat
        /\ n * t2 + t2 \div q < D * 65535
        /\ D * u \in t1 - D .. t1 + D /\ D * v \in t2 - D .. t2 + D
        /\ u < 65536 /\ v < 65536
        /\ u >= Word(n * v - c) /\ u < Word(n * v + c) /\ q * c \in v - 2 .. v + 1
    BY DEF DatesFit, Between
  <1>1. D * n * v <= n * t2 + n * D /\ D * n * v >= n * t2 - n * D
    BY <1>0, SMT
  <1>2. D * q * c <= t2 + 2 * D /\ D * q * c >= t2 - 3 * D
    BY <1>0, SMT
  <1>3. n * v - c \in Nat /\ n * v - c < 65536
    BY <1>0, <1>1, <1>2, SMT
  <1>4. u >= n * v - c
    BY <1>0, <1>3, WordSmall
  <1>5. u < n * v + c
    <2>1. CASE n * v + c < 65536
      BY <1>0, <1>1, <1>2, <2>1, WordSmall, SMT
    <2>2. CASE n * v + c >= 65536
      BY <1>0, <2>2, SMT
    <2> QED
      BY <1>0, <2>1, <2>2, SMT
  <1> QED
    BY <1>0, <1>1, <1>2, <1>4, <1>5, SMT DEF Off

-----------------------------------------------------------------------------
(* The comparison of each routine.                                         *)

\* What the routines are made of.
LEMMA RoutineFacts ==
  ASSUME build \in Builds
  PROVE  /\ build.routine \in Routines /\ build.bn \in {8, 16} /\ build.div \in {1, 2, 4, 8}
         /\ build.routine \in {"5_1", "5_1_nb", "diabolo_5_1"} => N = 5 /\ Q = 4
         /\ build.routine \in {"9_1", "9_1_nb"} => N = 9 /\ Q = 2
         /\ build.routine = "diabolo_10_1" => N = 10 /\ Q = 2
         /\ build.routine \in {"5_1", "9_1"} =>
              Blocking /\ ~ Bootloader /\ Polls /\ Grain = 5
         /\ build.routine \in {"diabolo_5_1", "diabolo_10_1"} =>
              ~ Blocking /\ Bootloader /\ Polls /\ Grain = 5
         /\ build.routine \in {"5_1_nb", "9_1_nb"} =>
              ~ Blocking /\ ~ Bootloader /\ ~ Polls /\ Grain = build.div
  <1>1. build.routine \in Routines /\ build.bn \in {8, 16} /\ build.div \in {1, 2, 4, 8}
    BY BuildFacts
  <1>2. /\ build.routine \in {"5_1", "5_1_nb", "diabolo_5_1"} => N = 5
        /\ build.routine \in {"9_1", "9_1_nb"} => N = 9
        /\ build.routine = "diabolo_10_1" => N = 10
    BY SMT DEF N
  <1>3. (N = 5 => Q = 4) /\ (N # 5 => Q = 2)
    BY DEF Q
  <1>4. /\ build.routine \in {"5_1", "9_1"} =>
              Blocking /\ ~ Bootloader /\ Polls /\ Grain = 5
        /\ build.routine \in {"diabolo_5_1", "diabolo_10_1"} =>
              ~ Blocking /\ Bootloader /\ Polls /\ Grain = 5
        /\ build.routine \in {"5_1_nb", "9_1_nb"} =>
              ~ Blocking /\ ~ Bootloader /\ ~ Polls /\ Grain = build.div
    BY SMT DEF Blocking, Bootloader, Polls, Grain
  <1> QED
    BY <1>1, <1>2, <1>3, <1>4, SMT

\* Levels that a polling routine can measure.
LEMMA PollsClose ==
  ASSUME build \in Builds, Polls, NEW t1 \in Nat, NEW t2 \in Nat, CanMeasure(t1, t2),
         Bootloader \/ t1 >= Before - 3, t2 # 0, NEW u \in Polled(t1), NEW v \in Polled(t2)
  PROVE  /\ u \in Nat /\ u < 65536 /\ v \in Nat /\ v < 65536
         /\ 5 * u \in t1 - 2 .. t1 + 5 /\ 5 * v \in t2 - 2 .. t2 + 5
         /\ t1 < 327675 /\ N * t2 + t2 \div Q < 327675
         /\ Bootloader => 5 * u \in t1 - 1 .. t1 + 5 /\ 5 * v \in t2 - 1 .. t2 + 5
         /\ ~ Bootloader /\ build.bn = 8 => 5 * u \in t1 - 1 .. t1 + 4 /\ 5 * v \in t2 - 1 .. t2 + 4
         /\ ~ Bootloader /\ build.bn # 8 => 5 * u \in t1 - 2 .. t1 + 3 /\ 5 * v \in t2 - 2 .. t2 + 3
  <1>1. Grain = 5
    BY DEF Grain
  <1>2. /\ t1 < 327675 /\ t2 < 327675 /\ N * t2 + t2 \div Q < 327675 /\ t1 # 0
        /\ Blocking => t2 >= Before - 3
    BY <1>1, SMT DEF CanMeasure
  <1>3. Bootloader \/ Blocking
    BY DEF Polls
  <1>5. Bootloader \/ t2 >= Before - 3
    BY <1>2, <1>3
  <1>6. /\ u \in Nat /\ u < 65536
        /\ Bootloader => 5 * u \in t1 - 1 .. t1 + 5
        /\ ~ Bootloader /\ build.bn = 8 => 5 * u \in t1 - 1 .. t1 + 4
        /\ ~ Bootloader /\ build.bn # 8 => 5 * u \in t1 - 2 .. t1 + 3
    BY <1>2, <1>5, PolledClose
  <1>7. /\ v \in Nat /\ v < 65536
        /\ Bootloader => 5 * v \in t2 - 1 .. t2 + 5
        /\ ~ Bootloader /\ build.bn = 8 => 5 * v \in t2 - 1 .. t2 + 4
        /\ ~ Bootloader /\ build.bn # 8 => 5 * v \in t2 - 2 .. t2 + 3
    BY <1>2, <1>5, PolledClose
  <1>8. 5 * u \in t1 - 2 .. t1 + 5
    BY <1>6, SMT
  <1>9. 5 * v \in t2 - 2 .. t2 + 5
    BY <1>7, SMT
  <1> QED
    BY <1>2, <1>6, <1>7, <1>8, <1>9

\* A shorter level gives the count that the loop begins with.
LEMMA PolledShort ==
  ASSUME build \in Builds, Blocking, NEW d \in Nat, d < Before - 3, NEW t \in Polled(d)
  PROVE  t = 6
  <1>1. PICK l \in Lateness :
          t = Word(FirstCount + AtLeast(CeilDiv(d - Before - l, 5), 0))
    BY DEF Polled
  <1> DEFINE n == d - Before - l
  <1>2. ~ Bootloader
    BY DEF Blocking, Bootloader
  <1>3. l \in 0 .. 1 /\ FirstCount = 6 /\ Before \in Int
    BY <1>1, <1>2, SMT DEF Lateness, Before, FirstCount
  <1>4. n \in Int /\ n < -3
    BY <1>3, SMT
  <1>5. t = Word(FirstCount + AtLeast(CeilDiv(n, 5), 0))
    BY <1>1
  <1> HIDE DEF n
  <1>6. AtLeast(CeilDiv(n, 5), 0) = 0
    BY <1>4, SMT DEF AtLeast, CeilDiv
  <1> QED
    BY <1>3, <1>5, <1>6, WordSmall, SMT

\* The tolerances, in numbers.
LEMMA ToleranceFacts ==
  ASSUME build \in Builds, NEW v \in Nat, v < 65000
  PROVE  /\ Tolerance(v) \in Nat
         /\ build.routine = "diabolo_5_1" => Tolerance(v) = (v + 2) \div 4
         /\ build.routine \in {"5_1", "5_1_nb"} => Tolerance(v) = (v + 1) \div 4
         /\ build.routine \in {"9_1", "9_1_nb", "diabolo_10_1"} => Tolerance(v) = (v + 1) \div 2
  <1>1. Word(v + 1) = v + 1 /\ Word(v + 2) = v + 2
    BY WordSmall, SMT
  <1>2. Half(v) = (v + 1) \div 2
    BY <1>1 DEF Half
  <1>3. /\ build.routine = "diabolo_5_1" => Tolerance(v) = (v + 2) \div 4
        /\ build.routine \in {"5_1", "5_1_nb"} => Tolerance(v) = (v + 1) \div 4
        /\ build.routine \in {"9_1", "9_1_nb", "diabolo_10_1"} => Tolerance(v) = (v + 1) \div 2
    BY <1>1, <1>2, RoutineFacts, SMT DEF Tolerance
  <1>4. (v + 1) \div 2 \in Nat /\ (v + 1) \div 4 \in Nat /\ (v + 2) \div 4 \in Nat
    BY SMT
  <1> QED
    BY <1>3, <1>4, RoutineFacts, SMT DEF Routines

\* Two low levels fit only if they have the ratio, up to the unit of the
\* measures.
LEMMA FitsOnlyIfNear ==
  ASSUME build \in Builds, NEW t1 \in Nat, NEW t2 \in Nat, CanMeasure(t1, t2), t2 # 0,
         NEW u \in Measured(t1), NEW v \in Measured(t2), Fits(u, v)
  PROVE  Off(N, Q, Grain, t1, t2)
  <1>1. CASE Polls
    <2>1. u \in Polled(t1) /\ v \in Polled(t2) /\ Grain = 5
      BY <1>1 DEF Measured, Grain
    <2>2. CASE Bootloader \/ t1 >= Before - 3
      <3>1. /\ u \in Nat /\ u < 65536 /\ v \in Nat /\ v < 65536
            /\ Near2(t1, t2, u, v) /\ Reaches(N, Q, t2)
        BY <1>1, <2>1, <2>2, PollsClose DEF Near2, Reaches
      <3>2. CASE build.routine \in {"5_1", "diabolo_5_1"}
        <4>1. N = 5 /\ Q = 4
          BY <3>2, RoutineFacts
        <4>2. PICK e \in 1 .. 2 : Tolerance(v) = Word(v + e) \div 4
          <5>1. 1 \in 1 .. 2 /\ 2 \in 1 .. 2
            OBVIOUS
          <5> QED
            BY <3>2, <4>1, <5>1 DEF Tolerance
        <4>3. Between(5, u, v, Word(v + e) \div 4)
          BY <4>1, <4>2 DEF Fits, InRatio, Between
        <4>4. Reaches(5, 4, t2)
          BY <3>1, <4>1
        <4>5. Off(5, 4, 5, t1, t2)
          BY <3>1, <4>3, <4>4, FiveOnlyIfNear
        <4> QED
          BY <2>1, <4>1, <4>5
      <3>3. CASE build.routine \in {"9_1", "diabolo_10_1"}
        <4>1. N \in {9, 10} /\ Q = 2 /\ Tolerance(v) = Half(v)
          BY <3>3, RoutineFacts, SMT DEF Tolerance
        <4>2. Between(N, u, v, Half(v))
          BY <4>1 DEF Fits, InRatio, Between
        <4>3. Reaches(N, 2, t2)
          BY <3>1, <4>1
        <4>4. Off(N, 2, 5, t1, t2)
          BY <3>1, <4>1, <4>2, <4>3, TenOnlyIfNear
        <4> QED
          BY <2>1, <4>1, <4>4
      <3> QED
        BY <1>1, <3>2, <3>3, RoutineFacts DEF Routines
    <2>3. CASE ~ (Bootloader \/ t1 >= Before - 3)
      <3>1. Blocking /\ Before \in {30, 31} /\ ~ Bootloader
        BY <1>1, <2>3, SMT DEF Polls, Before
      <3>2. u = 6
        BY <2>1, <2>3, <3>1, PolledShort, SMT
      <3>3. t2 >= Before - 3 /\ t2 < 327675 /\ N * t2 + t2 \div Q < 327675
        BY <1>1, <2>1, <3>1, SMT DEF CanMeasure
      <3>4. v \in Nat /\ v >= 6 /\ 5 * v <= t2 + 5
        <4>1. /\ v \in Nat
              /\ build.bn = 8 => 5 * v \in t2 - 1 .. t2 + 4
              /\ build.bn # 8 => 5 * v \in t2 - 2 .. t2 + 3
          BY <2>1, <3>1, <3>3, PolledClose
        <4>2. (build.bn = 8 => t2 >= 27) /\ (build.bn # 8 => t2 >= 28)
          BY <3>1, <3>3, SMT DEF Before
        <4> QED
          BY <4>1, <4>2, SMT
      <3>5. build.routine \in {"5_1", "9_1"}
        BY <3>1 DEF Blocking
      <3>6. /\ N \in {5, 9} /\ v < 15000
            /\ Tolerance(v) = (v + 1) \div 4 \/ Tolerance(v) = (v + 1) \div 2
        <4>1. N \in {5, 9} /\ Q \in {2, 4}
          BY <3>5, RoutineFacts
        <4>2. v < 15000
          BY <4>1, <3>3, <3>4, SMT
        <4> QED
          BY <3>4, <3>5, <4>1, <4>2, ToleranceFacts
      <3> DEFINE c == Tolerance(v)
      <3>7. N * v - c \in Nat /\ N * v - c < 65536 /\ N * v - c > 6
        <4>1. c \in Nat /\ c <= (v + 1) \div 2
          BY <3>4, <3>6, SMT
        <4> HIDE DEF c
        <4>2. N * v - c > 6 /\ N * v - c \in Nat
          <5>1. N * v \in Nat /\ N * v >= 5 * v
            BY <3>4, <3>6, SMT
          <5> DEFINE m == N * v
          <5> HIDE DEF m
          <5>2. m - c > 6 /\ m - c \in Nat
            BY <3>4, <4>1, <5>1, SMT DEF m
          <5> QED
            BY <5>2 DEF m
        <4>3. 5 * (N * v) <= N * t2 + 45
          BY <3>3, <3>4, <3>6, SMT
        <4>4. N * v - c < 65536
          <5>1. /\ N * v \in Nat /\ N * v <= 9 * v /\ N * t2 \in Nat /\ t2 \div Q \in Nat
                /\ 4 * c >= v - 3
            <6>1. N \in {5, 9} /\ Q \in {2, 4}
              BY <3>5, RoutineFacts
            <6>2. 4 * c >= v - 3
              BY <3>4, <3>6, <4>1, SMT DEF c
            <6> QED
              BY <3>4, <6>1, <6>2, SMT
          <5> DEFINE m == N * v
                     s == N * t2
                     k == t2 \div Q
          <5>2. /\ m \in Nat /\ m <= 9 * v /\ s \in Nat /\ k \in Nat /\ 4 * c >= v - 3
                /\ s + k < 327675 /\ 5 * m <= s + 45
            BY <3>3, <4>3, <5>1
          <5> HIDE DEF m, s, k
          <5>3. m - c < 65536
            BY <3>4, <4>1, <5>2, SMT
          <5> QED
            BY <5>3 DEF m
        <4> QED
          BY <4>2, <4>4
      <3>8. 6 >= N * v - c
        BY <3>2, <3>7, WordSmall DEF Fits, InRatio
      <3> QED
        BY <3>7, <3>8, SMT
    <2> QED
      BY <2>2, <2>3
  <1>2. CASE ~ Polls
    <2>1. /\ build.routine \in {"5_1_nb", "9_1_nb"} /\ Grain = build.div
          /\ build.div \in {1, 2, 4, 8} /\ build.bn \in {8, 16}
          /\ ((N = 5 /\ Q = 4) \/ (N = 9 /\ Q = 2))
      BY <1>2, RoutineFacts DEF Routines
    <2>2. u \in Dated(t1) /\ v \in Dated(t2)
      BY <1>2 DEF Measured
    <2> DEFINE w == IF build.bn = 16 THEN 65535 ELSE 255
    <2>3. t1 # 0 /\ t1 < build.div * w /\ t2 < build.div * w
          /\ N * t2 + t2 \div Q < build.div * 65535
      BY <1>2, <2>1 DEF CanMeasure
    <2>4. /\ u \in Nat /\ u < 65536 /\ build.div * u \in t1 - build.div .. t1 + build.div
          /\ v \in Nat /\ v < 65536 /\ build.div * v \in t2 - build.div .. t2 + build.div
      BY <2>2, <2>3, DatedClose
    <2> DEFINE c == Tolerance(v)
    <2>5. v < 30000 /\ N \in {5, 9}
      <3> DEFINE D == build.div
      <3>1. D \in {1, 2, 4, 8} /\ D * v <= t2 + D
        BY <2>1, <2>4, SMT
      <3>2. 5 * t2 < D * 65535
        <4>1. N * t2 >= 5 * t2 /\ t2 \div Q >= 0 /\ N * t2 \in Nat /\ t2 \div Q \in Nat
          BY <2>1, SMT
        <4> DEFINE m == N * t2
                   k == t2 \div Q
        <4>2. m + k < D * 65535 /\ m >= 5 * t2 /\ m \in Nat /\ k \in Nat
          BY <2>3, <4>1
        <4> HIDE DEF m, k, D
        <4> QED
          BY <3>1, <4>2, SMT
      <3> HIDE DEF D
      <3>3. v < 30000
        BY <2>4, <3>1, <3>2, SMT
      <3> QED
        BY <2>1, <3>3
    <2>6. c \in Nat /\ Q * c \in v - 2 .. v + 1
      <3>1. c \in Nat
        BY <2>1, <2>4, <2>5, ToleranceFacts
      <3>2. (N = 5 => c = (v + 1) \div 4) /\ (N = 9 => c = (v + 1) \div 2)
        BY <2>1, <2>4, <2>5, RoutineFacts, ToleranceFacts, SMT
      <3> HIDE DEF c
      <3> QED
        BY <2>1, <2>4, <3>1, <3>2, SMT
    <2>7. Between(N, u, v, c)
      BY DEF Fits, InRatio, Between
    <2> HIDE DEF c, w
    <2>8. DatesFit(Grain, N, Q, t1, t2, u, v, c)
      BY <2>1, <2>3, <2>4, <2>6, <2>7 DEF DatesFit
    <2> QED
      BY <2>8, DatesOnlyIfNear
  <1> QED
    BY <1>1, <1>2

-----------------------------------------------------------------------------
(* The exact sequence.                                                     *)

\* The comparison without its registers.
LEMMA FitsInNumbers ==
  ASSUME NEW u \in Nat, NEW v \in Nat, NEW n \in Nat, N = n, NEW c \in Nat, Tolerance(v) = c,
         n * v - c >= 0, n * v + c < 65536, n * v - c <= u, u < n * v + c
  PROVE  Fits(u, v)
  <1> DEFINE m == n * v
  <1>1. m \in Nat /\ m - c >= 0 /\ m + c < 65536 /\ m - c <= u /\ u < m + c
    BY SMT
  <1> HIDE DEF m
  <1>2. m - c \in Nat /\ m - c < 65536 /\ m + c \in Nat
    BY <1>1, SMT
  <1>3. Word(m - c) = m - c /\ Word(m + c) = m + c
    BY <1>1, <1>2, WordSmall
  <1>4. u >= Word(m - c) /\ u < Word(m + c)
    BY <1>1, <1>3
  <1> QED
    BY <1>4 DEF m, Fits, InRatio

\* At these speeds the sequence fits, whatever the measures were.
LEMMA ExactFits ==
  ASSUME build \in Builds, NEW b \in Exact, CanMeasure(N * b, b),
         NEW u \in Measured(N * b), NEW v \in Measured(b)
  PROVE  Fits(u, v)
  <1>1. /\ b \in Speeds /\ b \in Nat /\ b >= 29 /\ b < 43690
        /\ build.routine = "5_1" => b >= 72
        /\ build.routine = "9_1" => b >= 57 /\ b <= 32765
        /\ build.routine = "diabolo_5_1" => b >= 81
        /\ build.routine = "diabolo_10_1" => b >= 86 /\ b <= 31204
        /\ build.routine = "5_1_nb" =>
             b >= 177 /\ build.div \in {4, 8} /\ (build.div = 8 => b >= 217)
        /\ build.routine = "9_1_nb" => b >= 177 /\ build.div = 8
    BY RoutineFacts, SMT DEF Exact, Speeds, Bootloader, Routines
  <1>2. N \in {5, 9, 10} /\ N * b \in Nat
    BY <1>1, RoutineFacts, SMT DEF Routines
  <1>3. CASE Polls
    <2>1. u \in Polled(N * b) /\ v \in Polled(b)
      BY <1>3 DEF Measured
    <2> DEFINE a == N * b
    <2>2. Bootloader \/ a >= Before - 3
      <3>1. Bootloader \/ (Blocking /\ b >= Before - 3 /\ Before \in {30, 31})
        BY <1>3, <1>1, SMT DEF Polls, Before
      <3> QED
        BY <1>1, <1>2, <3>1, SMT
    <2>3. a \in Nat /\ CanMeasure(a, b) /\ u \in Polled(a)
      BY <1>2, <2>1
    <2> HIDE DEF a
    <2>4. /\ u \in Nat /\ v \in Nat
          /\ Bootloader => 5 * u \in a - 1 .. a + 5 /\ 5 * v \in b - 1 .. b + 5
          /\ ~ Bootloader => \/ 5 * u \in a - 1 .. a + 4 /\ 5 * v \in b - 1 .. b + 4
                             \/ 5 * u \in a - 2 .. a + 3 /\ 5 * v \in b - 2 .. b + 3
      BY <1>1, <1>3, <2>1, <2>2, <2>3, PollsClose
    <2>5. v < 9000
      BY <1>1, <2>4, SMT
    <2> DEFINE c == Tolerance(v)
    <2>6. c \in Nat
      BY <2>4, <2>5, ToleranceFacts
    <2>7. CASE build.routine = "5_1"
      <3>1. N = 5 /\ a = 5 * b /\ ~ Bootloader /\ c = (v + 1) \div 4
        BY <2>4, <2>5, <2>7, RoutineFacts, ToleranceFacts DEF a
      <3> HIDE DEF c
      <3>2. 5 * v - c >= 0 /\ 5 * v + c < 65536 /\ 5 * v - c <= u /\ u < 5 * v + c
        BY <1>1, <2>4, <2>6, <2>7, <3>1, SMT
      <3> QED
        BY <2>4, <2>6, <3>1, <3>2, FitsInNumbers DEF c
    <2>8. CASE build.routine = "diabolo_5_1"
      <3>1. N = 5 /\ a = 5 * b /\ Bootloader /\ c = (v + 2) \div 4
        BY <2>4, <2>5, <2>8, RoutineFacts, ToleranceFacts DEF a
      <3> HIDE DEF c
      <3>2. 5 * v - c >= 0 /\ 5 * v + c < 65536 /\ 5 * v - c <= u /\ u < 5 * v + c
        BY <1>1, <2>4, <2>6, <2>8, <3>1, SMT
      <3> QED
        BY <2>4, <2>6, <3>1, <3>2, FitsInNumbers DEF c
    <2>9. CASE build.routine = "9_1"
      <3>1. N = 9 /\ a = 9 * b /\ ~ Bootloader /\ c = (v + 1) \div 2
        BY <2>4, <2>5, <2>9, RoutineFacts, ToleranceFacts DEF a
      <3> HIDE DEF c
      <3>2. 9 * v - c >= 0 /\ 9 * v + c < 65536 /\ 9 * v - c <= u /\ u < 9 * v + c
        BY <1>1, <2>4, <2>6, <2>9, <3>1, SMT
      <3> QED
        BY <2>4, <2>6, <3>1, <3>2, FitsInNumbers DEF c
    <2>10. CASE build.routine = "diabolo_10_1"
      <3>1. N = 10 /\ a = 10 * b /\ Bootloader /\ c = (v + 1) \div 2
        BY <2>4, <2>5, <2>10, RoutineFacts, ToleranceFacts DEF a
      <3> HIDE DEF c
      <3>2. 10 * v - c >= 0 /\ 10 * v + c < 65536 /\ 10 * v - c <= u /\ u < 10 * v + c
        BY <1>1, <2>4, <2>6, <2>10, <3>1, SMT
      <3> QED
        BY <2>4, <2>6, <3>1, <3>2, FitsInNumbers DEF c
    <2> QED
      BY <1>3, <2>7, <2>8, <2>9, <2>10, RoutineFacts DEF Routines
  <1>4. CASE ~ Polls
    <2>1. /\ build.routine \in {"5_1_nb", "9_1_nb"} /\ Grain = build.div
          /\ build.div \in {4, 8} /\ b # 0
      BY <1>1, <1>4, RoutineFacts, SMT DEF Routines
    <2>2. u \in Dated(N * b) /\ v \in Dated(b)
      BY <1>4 DEF Measured
    <2> DEFINE a == N * b
               D == build.div
               units == IF build.bn = 16 THEN 65535 ELSE 255
    <2>3. a \in Nat /\ a # 0 /\ a < D * units /\ b < D * units
      BY <1>2, <1>4, <2>1 DEF CanMeasure
    <2> HIDE DEF a
    <2>4. /\ u \in Nat /\ D * u \in a - D .. a + D
          /\ v \in Nat /\ D * v \in b - D .. b + D
      BY <1>1, <2>1, <2>2, <2>3, DatedClose DEF a
    <2> HIDE DEF D, units
    <2>5. v < 11000 /\ D \in {4, 8}
      BY <1>1, <2>1, <2>4, SMT DEF D
    <2> DEFINE c == Tolerance(v)
    <2>6. c \in Nat
      BY <2>4, <2>5, ToleranceFacts
    <2>7. CASE build.routine = "5_1_nb"
      <3>1. N = 5 /\ a = 5 * b /\ c = (v + 1) \div 4 /\ b >= 177 /\ (D = 8 => b >= 217)
        BY <1>1, <2>4, <2>5, <2>7, RoutineFacts, ToleranceFacts DEF a, D
      <3> HIDE DEF c
      <3>2. 5 * v - c >= 0 /\ 5 * v + c < 65536 /\ 5 * v - c <= u /\ u < 5 * v + c
        BY <1>1, <2>4, <2>5, <2>6, <3>1, SMT
      <3> QED
        BY <2>4, <2>6, <3>1, <3>2, FitsInNumbers DEF c
    <2>8. CASE build.routine = "9_1_nb"
      <3>1. N = 9 /\ a = 9 * b /\ c = (v + 1) \div 2 /\ b >= 177 /\ D = 8
        BY <1>1, <2>4, <2>5, <2>8, RoutineFacts, ToleranceFacts DEF a, D
      <3> HIDE DEF c
      <3>2. 9 * v - c >= 0 /\ 9 * v + c < 65536 /\ 9 * v - c <= u /\ u < 9 * v + c
        BY <1>1, <2>4, <2>5, <2>6, <3>1, SMT
      <3> QED
        BY <2>4, <2>6, <3>1, <3>2, FitsInNumbers DEF c
    <2> QED
      BY <2>1, <2>7, <2>8
  <1> QED
    BY <1>3, <1>4

-----------------------------------------------------------------------------
(* The invariant.                                                          *)

\* What has been taken for the sequence has its ratio.
NearRatio ==
  since >= 0 /\ Measurable => Off(N, Q, Grain, pair.t1, pair.t2)

\* What has not is not the sequence.
NoneMissed ==
  since = -1 /\ Measurable => pair.t2 \notin Exact \/ pair.t1 # N * pair.t2

RInv == NearRatio /\ NoneMissed

\* Low levels last.
LEMMA LowsLast ==
  ASSUME build \in Builds, NEW d \in Lows
  PROVE  d \in Nat /\ d # 0
  <1>1. build.bits \subseteq Nat \ {0} /\ Noise \subseteq Nat \ {0}
    BY SyncAssumption
  <1>2. \A b \in Nat \ {0} : N * b \in Nat /\ N * b # 0
    <2>1. N \in {5, 9, 10}
      BY RoutineFacts, SMT DEF Routines
    <2> QED
      BY <2>1, SMT
  <1> QED
    BY <1>1, <1>2 DEF Lows

\* The build does not change.
LEMMA RatioOfBuild ==
  ASSUME UNCHANGED build
  PROVE  /\ N' = N /\ Q' = Q /\ Grain' = Grain /\ Exact' = Exact
         /\ Measurable <=> CanMeasure(pair.t1, pair.t2)
         /\ \A p : pair' = p => (Measurable' <=> CanMeasure(p.t1, p.t2))
  BY BuildKept DEF N, Q, Grain, Polls, Blocking, Bootloader, Exact, Speeds, Measurable,
                   CanMeasure, Before

\* Steps that neither measure nor synchronize.
LEMMA RatioKept ==
  ASSUME RInv, UNCHANGED <<build, pair>>, since' >= 0 => since >= 0, since' = -1 => since = -1
  PROVE  RInv'
  BY RatioOfBuild DEF RInv, NearRatio, NoneMissed

\* Steps that forget the measures.
LEMMA RatioForgotten ==
  ASSUME pair'.t1 = 0
  PROVE  RInv'
  <1>1. ~ Measurable'
    BY DEF Measurable
  <1> QED
    BY <1>1 DEF RInv, NearRatio, NoneMissed

\* A measure, compared with the one before.
LEMMA RatioDecided ==
  ASSUME build \in Builds, UNCHANGED build, NEW d \in Lows, pair.t2 \in Lows \cup {0},
         pair' = [t1 |-> pair.t2, t2 |-> d],
         NEW u, pair.t2 # 0 => u \in Measured(pair.t2), NEW v \in Measured(d),
         Fits(u, v) => since' >= 0, ~ Fits(u, v) => since' = -1
  PROVE  RInv'
  <1>1. d \in Nat /\ d # 0 /\ pair.t2 \in Nat
    BY LowsLast, LowsNat
  <1>2. pair'.t1 = pair.t2 /\ pair'.t2 = d
    OBVIOUS
  <1>3. Measurable' => CanMeasure(pair.t2, d) /\ u \in Measured(pair.t2)
    BY <1>2, RatioOfBuild DEF CanMeasure
  <1>4. ASSUME since' >= 0, Measurable'
        PROVE  Off(N, Q, Grain, pair.t2, d)
    <2>1. ~ (since' = -1)
      BY <1>4, SMT
    <2> QED
      BY <1>1, <1>3, <1>4, <2>1, FitsOnlyIfNear
  <1>5. NearRatio'
    BY <1>2, <1>4, RatioOfBuild DEF NearRatio
  <1>6. ASSUME since' = -1, Measurable', d \in Exact, pair.t2 = N * d
        PROVE  FALSE
    <2>1. ~ (since' >= 0)
      BY <1>6, SMT
    <2>2. CanMeasure(N * d, d) /\ u \in Measured(N * d)
      BY <1>3, <1>6
    <2> QED
      BY <1>6, <2>1, <2>2, ExactFits
  <1>7. NoneMissed'
    BY <1>2, <1>6, RatioOfBuild DEF NoneMissed
  <1> QED
    BY <1>5, <1>7 DEF RInv

-----------------------------------------------------------------------------
(* The steps.                                                              *)

\* A level that a routine of an UART has measured.
LEMMA UartDecides ==
  ASSUME IInv, ~ Bootloader, UNCHANGED build, NEW d \in Lows,
         NEW t \in Measured(d), NEW c,
         IF Fits(LastMeasure, t) THEN Found(c, d) ELSE Keep(t, d)
  PROVE  RInv'
  <1>1. build \in Builds /\ pair.t2 \in Lows \cup {0}
    BY UartParts DEF Rest
  <1>2. d # 0
    BY <1>1, LowsLast
  <1>3. pair' = [t1 |-> LastLow, t2 |-> d]
    BY <1>2 DEF Found, Keep
  <1>4. CASE since # -1
    <2>1. pair'.t1 = 0
      BY <1>3, <1>4 DEF LastLow
    <2> QED
      BY <2>1, RatioForgotten
  <1>5. CASE since = -1
    <2>1. pair.t2 # 0 => LastMeasure \in Measured(pair.t2)
      BY <1>5 DEF IInv, MeasureKept
    <2>2. pair' = [t1 |-> pair.t2, t2 |-> d]
      BY <1>3, <1>5 DEF LastLow
    <2>3. Fits(LastMeasure, t) => since' = 0
      BY DEF Found
    <2>4. Fits(LastMeasure, t) => since' >= 0
      BY <2>3, SMT
    <2>5. ~ Fits(LastMeasure, t) => since' = -1
      BY DEF Keep
    <2> QED
      BY <1>1, <2>1, <2>2, <2>4, <2>5, RatioDecided
  <1> QED
    BY <1>4, <1>5

LEMMA LowPolledRatio ==
  ASSUME IInv, NEW d \in Lows, LowPolled(d)
  PROVE  RInv'
  <1>1. /\ Blocking /\ startIE /\ ~ stat.sync /\ UNCHANGED build /\ ~ Bootloader
    BY DEF LowPolled, Blocking, Bootloader
  <1>2. PICK t \in Polled(d) : IF build.routine = "5_1" THEN Autosync51(t, d) ELSE Autosync91(t, d)
    BY DEF LowPolled
  <1>3. t \in Measured(d) /\ build \in Builds
    BY <1>1, UartParts DEF Measured, Polls
  <1>4. /\ build.routine = "5_1" => Tolerance(t) = Word(t + 1) \div 4
        /\ build.routine # "5_1" => Tolerance(t) = Half(t)
    <2>1. build.routine \in {"5_1", "9_1"} /\ build.routine # "diabolo_5_1"
      BY <1>1 DEF Blocking
    <2>2. /\ build.routine = "5_1" => N = 5
          /\ build.routine # "5_1" => N # 5
      BY <1>3, <2>1, RoutineFacts, SMT
    <2> QED
      BY <2>1, <2>2 DEF Tolerance
  <1>5. \E c : IF Fits(LastMeasure, t) THEN Found(c, d) ELSE Keep(t, d)
    BY <1>2, <1>4 DEF Autosync51, Autosync91, Fits
  <1> QED
    BY <1>1, <1>3, <1>5, UartDecides

LEMMA RiseRatio ==
  ASSUME IInv, Rise
  PROVE  RInv'
  <1>1. /\ ~ Blocking /\ ~ Bootloader /\ startIE /\ ~ stat.sync /\ UNCHANGED build
    BY DEF Rise
  <1>2. PICK t \in IF low = 0 THEN Strays ELSE Dated(low) :
          IF build.routine = "5_1_nb" THEN Autosync51nb(t, low) ELSE Autosync91nb(t, low)
    BY DEF Rise
  <1>3. build \in Builds /\ low \in Lows \cup {0}
    BY <1>1, UartParts DEF Rest
  <1>4. CASE low = 0
    <2>1. \/ Keep(t, low)
          \/ \E c : Found(c, low)
      BY <1>2 DEF Autosync51nb, Autosync91nb
    <2>2. pair'.t1 = 0
      BY <1>4, <2>1 DEF Keep, Found, NoPair
    <2> QED
      BY <2>2, RatioForgotten
  <1>5. CASE low # 0
    <2>1. t \in Measured(low) /\ low \in Lows
      BY <1>1, <1>2, <1>3, <1>5 DEF Measured, Polls
    <2>2. /\ build.routine = "5_1_nb" => Tolerance(t) = Word(t + 1) \div 4
          /\ build.routine # "5_1_nb" => Tolerance(t) = Half(t)
      <3>1. build.routine \in {"5_1_nb", "9_1_nb"} /\ build.routine # "diabolo_5_1"
        BY <1>1, <1>3, BuildFacts DEF Routines, Blocking, Bootloader
      <3>2. /\ build.routine = "5_1_nb" => N = 5
            /\ build.routine # "5_1_nb" => N # 5
        BY <1>3, <3>1, RoutineFacts, SMT
      <3> QED
        BY <3>1, <3>2 DEF Tolerance
    <2>3. \E c : IF Fits(LastMeasure, t) THEN Found(c, low) ELSE Keep(t, low)
      BY <1>2, <2>2 DEF Autosync51nb, Autosync91nb, Fits
    <2> QED
      BY <1>1, <2>1, <2>3, UartDecides
  <1> QED
    BY <1>4, <1>5

LEMMA BootLowRatio ==
  ASSUME IInv, NEW d \in Lows, BootLow(d)
  PROVE  RInv'
  <1>1. Bootloader /\ nbit = 0 /\ ~ stat.sync /\ UNCHANGED <<build, low, main>>
    BY DEF BootLow
  <1>2. PICK t \in Polled(d) : IF build.routine = "diabolo_5_1" THEN DiaboloSync51(t, d)
                               ELSE DiaboloSync101(t, d)
    BY DEF BootLow
  <1>3. build \in Builds /\ pair.t2 \in Lows \cup {0}
    BY TypeParts DEF IInv, Rest
  <1>4. t \in Measured(d) /\ (pair.t2 # 0 => dtn \in Measured(pair.t2))
    BY <1>1, <1>2 DEF IInv, BootShape, BootMeasure, Measured, Polls
  <1>5. /\ build.routine = "diabolo_5_1" => Tolerance(t) = Word(t + 2) \div 4
        /\ build.routine # "diabolo_5_1" => Tolerance(t) = Half(t)
    <2>1. build.routine # "diabolo_5_1" => build.routine = "diabolo_10_1"
      BY <1>1 DEF Bootloader
    <2>2. build.routine # "diabolo_5_1" => N # 5
      BY <1>3, <2>1, RoutineFacts, SMT
    <2> QED
      BY <2>2 DEF Tolerance
  <1>6. IF Fits(dtn, t) THEN \E c : BootFound(c, d) ELSE BootKeep(t, d)
    BY <1>2, <1>5 DEF DiaboloSync51, DiaboloSync101, Fits
  <1>7. CASE Fits(dtn, t)
    <2>1. since' = 0 /\ pair' = [t1 |-> pair.t2, t2 |-> d]
      BY <1>6, <1>7 DEF BootFound
    <2>2. since' >= 0
      BY <2>1, SMT
    <2> QED
      BY <1>1, <1>3, <1>4, <1>7, <2>1, <2>2, RatioDecided
  <1>8. CASE ~ Fits(dtn, t)
    <2>1. since' = -1 /\ pair' = [t1 |-> pair.t2, t2 |-> d]
      BY <1>6, <1>8 DEF BootKeep
    <2> QED
      BY <1>1, <1>3, <1>4, <1>8, <2>1, RatioDecided
  <1> QED
    BY <1>7, <1>8

\* The other steps of an UART, and those of the program.
LEMMA UartRatio ==
  ASSUME IInv, RInv, \/ StartBit \/ Match \/ Program \/ \E d \in Lows : Fall(d)
  PROVE  RInv'
  <1>1. since \in -1 .. 20
    BY TypeParts DEF IInv, Rest
  <1>2. CASE StartBit \/ \E d \in Lows : Fall(d)
    BY <1>2, RatioKept DEF StartBit, Fall
  <1>3. CASE Match
    <2>1. UNCHANGED <<build, pair>> /\ since' = IF since \in 0 .. 9 THEN since + 1 ELSE since
      BY <1>3 DEF Match
    <2>2. (since' >= 0 => since >= 0) /\ (since' = -1 => since = -1)
      BY <1>1, <2>1, SMT
    <2> QED
      BY <2>1, <2>2, RatioKept
  <1>4. CASE ResetDtn \/ ResetDt0 \/ \E b \in build.bits : Configure(b)
    BY <1>4, RatioForgotten DEF ResetDtn, ResetDt0, Configure, NoPair
  <1>5. CASE ResetMatch \/ ResetStat \/ ResetNbit \/ ResetStart
    BY <1>5, RatioKept DEF ResetMatch, ResetStat, ResetNbit, ResetStart
  <1>6. CASE Configured \/ Put
    BY <1>6, RatioKept DEF Configured, Put
  <1>7. CASE Slot
    <2>1. UNCHANGED <<build, pair>> /\ since' = IF since \in 0 .. 9 THEN since + 1 ELSE since
      BY <1>7 DEF Slot
    <2>2. (since' >= 0 => since >= 0) /\ (since' = -1 => since = -1)
      BY <1>1, <2>1, SMT
    <2> QED
      BY <2>1, <2>2, RatioKept
  <1>8. CASE PutStart
    <2>1. /\ UNCHANGED build /\ since' = -1
          /\ pair' = IF since = -1 THEN pair ELSE NoPair
      BY <1>8 DEF PutStart
    <2>2. ~ (since' >= 0)
      BY <2>1, SMT
    <2> QED
      BY <2>1, <2>2, RatioKept, RatioForgotten DEF NoPair
  <1> QED
    BY <1>2, <1>3, <1>4, <1>5, <1>6, <1>7, <1>8
       DEF Program, Going, Resetting

\* The other steps of the bootloader.
LEMMA BootRatio ==
  ASSUME IInv, RInv, BootStart \/ \E rxd \in {0, 1} : BootWait(rxd)
  PROVE  RInv'
  <1>1. CASE BootStart
    BY <1>1, RatioForgotten DEF BootStart, NoPair
  <1>2. ASSUME NEW rxd \in {0, 1}, BootWait(rxd)
        PROVE  RInv'
    <2>1. CASE rxd = 0 /\ nbit > 1
      BY <1>2, <2>1, RatioForgotten DEF BootWait, NoPair
    <2>2. CASE ~ (rxd = 0 /\ nbit > 1)
      <3>1. /\ Bootloader /\ nbit > 0 /\ nbit \in -1 .. 20 /\ since \in -1 .. 20
            /\ since = 20 - nbit /\ UNCHANGED <<build, pair>> /\ since' = since + 1
        BY <1>2, <2>2, TypeParts DEF BootWait, IInv, Rest, BootShape
      <3>2. since >= 0 /\ since' # -1
        BY <3>1, SMT
      <3> QED
        BY <3>1, <3>2, RatioKept
    <2> QED
      BY <2>1, <2>2
  <1> QED
    BY <1>1, <1>2

LEMMA RatioStep ==
  ASSUME IInv, RInv, [Next]_vars
  PROVE  RInv'
  <1>1. CASE Program \/ StartBit \/ Match
    BY <1>1, UartRatio
  <1>2. CASE BootStart
    BY <1>2, BootRatio
  <1>3. CASE Rise
    BY <1>3, RiseRatio
  <1>4. ASSUME NEW d \in Lows, LowPolled(d) \/ Fall(d) \/ BootLow(d)
        PROVE  RInv'
    BY <1>4, LowPolledRatio, UartRatio, BootLowRatio
  <1>5. ASSUME NEW rxd \in {0, 1}, BootWait(rxd)
        PROVE  RInv'
    BY <1>5, BootRatio
  <1>6. CASE UNCHANGED vars
    BY <1>6, RatioKept DEF vars
  <1> QED
    BY <1>1, <1>2, <1>3, <1>4, <1>5, <1>6 DEF Next

-----------------------------------------------------------------------------
(* Theorems.                                                               *)

LEMMA RatioInvariance == Spec => [](IInv /\ RInv)
  <1>1. Init => RInv
    <2> SUFFICES ASSUME Init  PROVE RInv
      OBVIOUS
    <2>1. ~ Measurable
      BY DEF Init, NoPair, Measurable
    <2> QED
      BY <2>1 DEF RInv, NearRatio, NoneMissed
  <1>2. IInv /\ RInv /\ [Next]_vars => RInv'
    BY RatioStep
  <1> QED
    BY <1>1, <1>2, Invariance, PTL DEF Spec

\* swuarta_autosync_5_1.sx 11-12, swuarta_autosync_9_1.sx 14, and the routines
\* with interrupts on and of the bootloader: whatever the speeds that a build is
\* meant for, the levels on the line and the delays of the polls, two low levels
\* synchronize only if one is N times the other, up to the unit of the measures.
THEOREM OnlyOnRatio ==
  Spec => [](Measurable /\ since >= 0 =>
               Q * Apart <= pair.t2 + 2 * Grain + Q * Grain * (N + 1))
  <1>1. RInv => (Measurable /\ since >= 0 =>
                   Q * Apart <= pair.t2 + 2 * Grain + Q * Grain * (N + 1))
    BY DEF RInv, NearRatio, Off, Apart
  <1> QED
    BY <1>1, RatioInvariance, PTL

\* The build is meant for speeds at which the sequence always fits.
MeantToSync == build.bits \subseteq Exact

\* The same, and at the speeds of the build the exact sequence is never missed,
\* whatever came before it.
THEOREM RatioCorrect == Spec => [](MeantToSync => SyncsOnRatio)
  <1>1. ASSUME IInv, RInv, MeantToSync
        PROVE  SyncsOnRatio
    <2>1. SUFFICES ASSUME Measurable
                   PROVE  /\ since >= 0 => Q * Apart <= pair.t2 + 2 * Grain + Q * Grain * (N + 1)
                          /\ since = -1 /\ ~ stat.sync =>
                               pair.t2 \notin build.bits \/ pair.t1 # N * pair.t2
      BY DEF SyncsOnRatio
    <2>2. since >= 0 => Q * Apart <= pair.t2 + 2 * Grain + Q * Grain * (N + 1)
      BY <1>1, <2>1 DEF RInv, NearRatio, Off, Apart
    <2>3. since = -1 /\ ~ stat.sync => pair.t2 \notin build.bits \/ pair.t1 # N * pair.t2
      BY <1>1, <2>1 DEF RInv, NoneMissed, MeantToSync
    <2> QED
      BY <2>2, <2>3
  <1> QED
    BY <1>1, RatioInvariance, PTL

=============================================================================
