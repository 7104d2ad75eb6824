---------------------------- MODULE CoreWorkload ----------------------------
(***************************************************************************)
(* CoreWorkload after Init(props): which operation, which key and which    *)
(* key name the clients are given.  The part of the state that changes     *)
(* while the benchmark runs (key_generator_) is a variable of Ycsbc; all   *)
(* the rest is fixed by the properties and is constant here.               *)
(***************************************************************************)
EXTENDS Generators

CONSTANTS
  RecordCount,     \* property recordcount
  OperationCount,  \* property operationcount
  InsertStart,     \* property insertstart
  Proportion,      \* read/update/insert/scan/readmodifywrite, in percent
  OrderedInserts   \* property insertorder # "hashed"

Operation == {"INSERT", "READ", "UPDATE", "SCAN", "READMODIFYWRITE"}

RequestDist == {"uniform", "zipfian", "latest"}

(* "a fudge factor": the scrambled zipfian generator covers record_count_  *)
(* + new_keys items.                                                       *)
NewKeys == (OperationCount * Proportion["INSERT"] * 2) \div 100

(***************************************************************************)
(* The counts are ints in the program and 64-bit in the generators, so     *)
(* nothing the generators compute overflows unless RecordCount is 0.  At   *)
(* least one proportion is positive (DiscreteGenerator asserts otherwise). *)
(***************************************************************************)
ASSUME WorkloadAssumption ==
  /\ RecordCount \in Nat
  /\ OperationCount \in Nat
  /\ InsertStart \in Nat
  /\ Proportion \in [Operation -> 0 .. 100]
  /\ \E o \in Operation : Proportion[o] > 0
  /\ OrderedInserts \in BOOLEAN
  /\ NewKeys \in Nat
  /\ RecordCount + NewKeys <= UINT64_MAX
  /\ InsertStart + RecordCount + OperationCount <= UINT64_MAX

(***************************************************************************)
(* insert_key_sequence_.Set(record_count_) is the only call that changes   *)
(* insert_key_sequence_: nothing calls its Next().                         *)
(***************************************************************************)
InsertKeySequence == RecordCount

(* Operations AddValue()d to op_chooser_: those of positive proportion.    *)
OpChooser == DiscreteValues(Proportion)

(***************************************************************************)
(* key_chooser_ by requestdistribution.  record_count_ - 1 is size_t       *)
(* arithmetic: with recordcount=0 the uniform range is all of uint64_t.    *)
(***************************************************************************)
KeyChooser(request_dist) ==
  CASE request_dist = "uniform" -> UniformValues(0, CounterLast(RecordCount))
    [] request_dist = "zipfian" -> ScrambledZipfianValues(0, RecordCount + NewKeys)
    [] request_dist = "latest"  -> SkewedLatestValues(InsertKeySequence)

(* ZipfianGenerator asserts num_items_ >= 2 when it is built.              *)
KeyChooserBuilds(request_dist) ==
  CASE request_dist = "uniform" -> TRUE
    [] request_dist = "zipfian" -> RecordCount + NewKeys >= 2
    [] request_dist = "latest"  -> RecordCount >= 3

(* mutant: compared with the next key instead of the last one *)
KeyRejected_Next(key_num) == key_num > InsertKeySequence

(* The loop condition of NextTransactionKey: the key drawn is given up.    *)
KeyRejected(key_num) == key_num > CounterLast(InsertKeySequence)

(***************************************************************************)
(* BuildKeyName.  A name is represented by the number it is printed from:  *)
(* prefix and zero padding keep different numbers different.               *)
(***************************************************************************)
BuildKeyName(key_num) == IF OrderedInserts THEN key_num ELSE Hash[key_num]

=============================================================================
