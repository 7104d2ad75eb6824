------------------------------ MODULE MCYcsbc -------------------------------
(***************************************************************************)
(* Instances of Ycsbc for TLC: a 4-bit key space, a hash that permutes it, *)
(* and mixes of operations.                                                *)
(***************************************************************************)
EXTENDS YcsbcBench

(* A bijection on the small uint64_t, so that names are distinct, whose    *)
(* first values differ modulo 5: the scrambled draws reach the new keys.   *)
MCHash == [k \in Uint64 |-> (3 * k + 1) % (UINT64_MAX + 1)]

Mix(r, u, i, s, m) ==
  [o \in Operation |->
     CASE o = "READ" -> r [] o = "UPDATE" -> u [] o = "INSERT" -> i
       [] o = "SCAN" -> s [] o = "READMODIFYWRITE" -> m]

MCMixAll == Mix(20, 20, 20, 20, 20)
MCMixReadInsert == Mix(50, 0, 50, 0, 0)
MCMixRead == Mix(100, 0, 0, 0, 0)

(* Leftovers of an earlier, smaller run: the names of the keys 0 and 1.    *)
MCPreloaded == { BuildKeyName(k) : k \in {0, 1} }
=============================================================================
