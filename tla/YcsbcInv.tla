------------------------------ MODULE YcsbcInv ------------------------------
(***************************************************************************)
(* The inductive invariant behind the theorems about Ycsbc, in parts: who  *)
(* has been started and joined, how much each worker has done, which       *)
(* sequence keys have been handed out, what the database holds, and who    *)
(* uses the isFinish flag.                                                 *)
(***************************************************************************)
EXTENDS Ycsbc

(* The loop bound num_ops of the workers of the current phase.             *)
PhaseQuota == Quota(phase = "load")

(* Futures are made and joined in index order, each phase from the start.  *)
ControlInv ==
  /\ pattern = "run" => phase = "run"
  /\ pattern = "none" => mpc \in {"async", "scope_end", "done"}
  /\ phase = "run" => pattern \in {"run", "both"}
  /\ mpc \in {"async", "scope_end"} =>
       /\ spawned = 0 /\ joined = 0
       /\ phase = "run" => pattern = "run"
  /\ mpc = "spawn" => spawned < NumThreads /\ joined = 0
  /\ mpc = "join" => spawned = NumThreads /\ joined < NumThreads
  /\ Reporting => spawned = NumThreads /\ joined = NumThreads
  /\ mpc = "done" => spawned = joined
  /\ joined <= spawned
  /\ \A w \in Workers :
       /\ wpc[w] = "none" <=> w >= spawned
       /\ w < joined => wpc[w] = "returned"
       /\ w < spawned => loading[w] = (phase = "load")

(* What a worker is doing, and how many turns of its loop are behind it.   *)
WorkInv ==
  /\ sum = joined * PhaseQuota
  /\ \A w \in Workers :
       /\ done[w] <= PhaseQuota
       /\ oks[w] = done[w]
       /\ wpc[w] = "none" => done[w] = 0
       /\ wpc[w] = "returned" => done[w] = PhaseQuota
       /\ wpc[w] \notin {"none", "loop", "returned"} => done[w] < PhaseQuota
       /\ wpc[w] = "seqKey" => op[w] = "INSERT"
       /\ wpc[w] \in {"draw", "get", "miss", "scan"} => op[w] # "INSERT"
       /\ phase = "load" => op[w] = "INSERT"

(***************************************************************************)
(* The turns of the loading workers that have taken their sequence key.    *)
(* Counting pairs of a worker and a turn makes the number of keys handed   *)
(* out a cardinality instead of a sum over the workers.                    *)
(***************************************************************************)
Issued ==
  { t \in Workers \X (0 .. PhaseQuota) :
      \/ t[2] < done[t[1]]
      \/ t[2] = done[t[1]] /\ HoldsSequenceKey(t[1]) }

(* The load phase: key_generator_ has handed out one key per issued turn,  *)
(* and each is in the database or in the hands of one worker.              *)
LoadInv ==
  phase = "load" =>
    /\ key_generator = InsertStart + Cardinality(Issued)
    /\ \A w \in Workers :
         HoldsSequenceKey(w) => key[w] \in InsertStart .. key_generator - 1
    /\ \A k \in InsertStart .. key_generator - 1 :
         \/ BuildKeyName(k) \in store
         \/ \E w \in Workers : HoldsSequenceKey(w) /\ key[w] = k
    /\ Preloaded \subseteq store
    /\ store \subseteq Preloaded \cup
         { BuildKeyName(k) : k \in InsertStart .. key_generator - 1 }

(* The recorder exists only while main waits at the end of its scope, and  *)
(* there nobody has set or deleted the flag it polls.                      *)
RecorderInv ==
  /\ mpc = "async" => rpc = "none"
  /\ mpc = "scope_end" =>
       rpc \in IF duration = 0 THEN {"none"} ELSE {"test", "sleep"}
  /\ mpc \in {"async", "scope_end"} => ~ isFinish /\ ~ freed /\ proc = "running"
  /\ mpc \notin {"async", "scope_end"} => duration = 0 /\ rpc = "none"
  /\ freed => mpc \in {"report", "done"} \/ pattern = "both"

(* Control, work, the load phase and the flag: what the threads do.        *)
DriverInv == TypeOK /\ ControlInv /\ WorkInv /\ LoadInv /\ RecorderInv

(* Where key_generator_ stood when the current phase began.                *)
KeyBase ==
  InsertStart + IF phase = "run" /\ pattern = "both" THEN LoadedCount ELSE 0

(* The key numbers whose insertion is complete: those key_generator_ has   *)
(* handed out, but for the ones still in the hands of a worker.            *)
InsertedKeys ==
  (InsertStart .. key_generator - 1)
    \ { key[w] : w \in { v \in Workers : HoldsSequenceKey(v) } }

(* Both phases: no key number is in the hands of two workers, a phase      *)
(* takes no more of them than it has turns, and transactions draw others.  *)
KeyInv ==
  /\ key_generator \in KeyBase .. KeyBase + Cardinality(Issued)
  /\ \A w \in Workers :
       /\ HoldsSequenceKey(w) => key[w] \in KeyBase .. key_generator - 1
       /\ wpc[w] \in {"get", "miss", "put", "scan"} /\ op[w] # "INSERT" =>
            ~ KeyRejected(key[w])
  /\ \A v, w \in Workers :
       HoldsSequenceKey(v) /\ HoldsSequenceKey(w) /\ v # w => key[v] # key[w]

(* After a load phase its records are there; with an even load nothing     *)
(* else is, but for what was inserted since, and no read misses.           *)
DataInv ==
  /\ phase = "run" /\ pattern = "both" => LoadedNames \subseteq store
  /\ EvenLoad /\ pattern # "run" =>
       store \subseteq Preloaded \cup { BuildKeyName(k) : k \in InsertedKeys }
  /\ EvenLoad /\ pattern = "both" =>
       misses = 0 /\ \A w \in Workers : wpc[w] # "miss"

(* A worker between the load and the store of noResult++ has read a value  *)
(* that is no more than the misses there were then.                        *)
MissInv ==
  /\ noResult <= misses
  /\ misses > 0 => noResult > 0
  /\ \A w \in Workers : seen[w] <= misses

(***************************************************************************)
(* The inductive invariant of the driver, preserved by every step of main, *)
(* record() and DelegateClient(): types, the order in which futures are    *)
(* made and joined, the turns each worker has taken, where each sequence   *)
(* key is, what the database holds, what noResult counts, and the life of  *)
(* the isFinish flag.                                                      *)
(***************************************************************************)
IInv == DriverInv /\ KeyInv /\ DataInv /\ MissInv
=============================================================================
