--------------------------- MODULE MCHashtableDB ----------------------------
(* Instances of HashtableDB for TLC.                                       *)
EXTENDS HashtableDB, TLC

(* Threads and keys are interchangeable.                                   *)
MCSymmetry == Permutations(Threads) \cup Permutations(Keys)
=============================================================================
