----------------------------- MODULE YcsbcBench -----------------------------
(***************************************************************************)
(* The driver, with its threads, futures and shared counter, seen as the   *)
(* benchmark of module Benchmark.                                          *)
(***************************************************************************)
EXTENDS YcsbcInv

StepOf(label) ==
  CASE label \in {"async", "scope_end"} -> "start"
    [] label \in {"spawn", "join"} -> "work"
    [] label \in {"finish", "delete", "report"} -> "report"
    [] label = "done" -> "over"

Bench == INSTANCE Benchmark WITH
  NumClients <- NumThreads,
  LoadShare <- Quota(TRUE), RunShare <- Quota(FALSE),
  LoadKeys <- LoadedKeys, KeyNumbers <- Uint64,
  Name <- BuildKeyName, InitialStore <- Preloaded,
  step <- StepOf(mpc),
  count <- done,
  inserted <- InsertedKeys,
  total <- IF mpc \in {"spawn", "join"} THEN 0 ELSE sum,
  alive <- proc = "running"

(***************************************************************************)
(* main, DelegateClient and Client implement the benchmark: every          *)
(* operation, however many steps of however many threads it takes and in   *)
(* whatever order they come, has the effect of one step; no key number is  *)
(* inserted twice; and a phase is reported, with the number of its         *)
(* operations, when every client has done its share and not before.        *)
(***************************************************************************)
ImplementsBenchmark == Bench!Spec
=============================================================================
