----------------------------- MODULE Generators -----------------------------
(***************************************************************************)
(* The number generators of core/: CounterGenerator, UniformGenerator,     *)
(* ZipfianGenerator, ScrambledZipfianGenerator, SkewedLatestGenerator and  *)
(* DiscreteGenerator.  A random generator is the set of values its Next()  *)
(* can return; the probabilities are not modelled.                         *)
(*                                                                         *)
(* The counters are uint64_t.  UINT64_MAX is a parameter so that the wrap  *)
(* at 0 and at the top of the range is reachable in a small instance.      *)
(***************************************************************************)
EXTENDS Integers

CONSTANTS
  UINT64_MAX,   \* largest value of the unsigned counters (2^64 - 1)
  Hash          \* utils::FNVHash64, an arbitrary function on uint64_t

Uint64 == 0 .. UINT64_MAX

ASSUME UintAssumption == UINT64_MAX \in Nat
ASSUME HashAssumption == Hash \in [Uint64 -> Uint64]

(***************************************************************************)
(* CounterGenerator: Next() is fetch_add(1), so it returns the counter and *)
(* leaves CounterNext(counter); Last() is load() - 1.                      *)
(***************************************************************************)
CounterNext(counter) == IF counter = UINT64_MAX THEN 0 ELSE counter + 1

CounterLast(counter) == IF counter = 0 THEN UINT64_MAX ELSE counter - 1

(* UniformGenerator(min, max): both bounds inclusive.                      *)
UniformValues(min, max) == min .. max

(***************************************************************************)
(* ZipfianGenerator(base, base + num - 1).  The two most popular items are *)
(* returned as the literals 0 and 1, without base_; the others are         *)
(* base_ + num * pow(eta_ * u - eta_ + 1, alpha_), where the power lies in *)
(* [2/num, 1) for the u that get this far.  (Real arithmetic: the rounding *)
(* of a u within 2^-50 of 1 is not modelled.)                              *)
(***************************************************************************)
ZipfianValues(base, num) == {0, 1} \cup (base + 2) .. (base + num - 1)

Scramble(base, num, value) == base + (Hash[value] % num)

ScrambledZipfianValues(base, num) ==
  { Scramble(base, num, v) : v \in ZipfianValues(base, num) }

(* SkewedLatestGenerator: max - zipfian_.Next(max) with max = basis_.Last()*)
SkewedLatestValues(counter) ==
  LET max == CounterLast(counter)
  IN  { max - z : z \in ZipfianValues(0, max) }

(***************************************************************************)
(* DiscreteGenerator: chooser < weight / sum_ can hold for a value exactly *)
(* when its weight is positive.                                            *)
(***************************************************************************)
DiscreteValues(weight) == { v \in DOMAIN weight : weight[v] > 0 }

=============================================================================
