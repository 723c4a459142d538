----------------------------- MODULE MCSwuartSync -----------------------------
(* Builds of the routines that measure the duration of a bit, each with       *)
(* speeds at the ends of its range; the non-blocking ones with their lowest.  *)
EXTENDS SwuartSync

B(routine, bn, div, bits) ==
  [routine |-> routine, bn |-> bn, div |-> div, bits |-> bits]

\* All of them are in the range Speeds of SwuartSync_proofs; the lower limits
\* of 9_1 and of the bootloader are where every sequence is recognized.  Those
\* of the documentation hold for the non-blocking routines (48 and 26 counts
\* with an 8-bit counter).
MCBuilds == {
  B("5_1", 8, 1, {72, 188}),
  B("5_1", 8, 8, {137, 1378}),
  B("5_1", 16, 1, {72, 43689}),
  B("9_1", 8, 1, {57, 188}),
  B("9_1", 16, 8, {98, 32765}),
  B("5_1_nb", 8, 8, {217}),
  B("9_1_nb", 8, 8, {226}),
  B("diabolo_5_1", 16, 1, 81..85 \cup {208, 833, 43689}),
  B("diabolo_10_1", 16, 1, 86..90 \cup {208, 833, 31204})}

MCNoise  == {20, 152000, 340000}
MCStrays == {26, 130}
===============================================================================
