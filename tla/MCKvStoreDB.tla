---------------------------- MODULE MCKvStoreDB -----------------------------
(* Instances of KvStoreDB for TLC.                                         *)
EXTENDS KvStoreInv, TLC

(* Threads are interchangeable.                                            *)
MCSymmetry == Permutations(Threads)
=============================================================================
