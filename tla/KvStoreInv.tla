----------------------------- MODULE KvStoreInv -----------------------------
(***************************************************************************)
(* The inductive invariant behind the theorems about KvStoreDB, in parts:  *)
(* what a call is doing, which writes have returned, and what the last Put *)
(* under a key has left.                                                   *)
(***************************************************************************)
EXTENDS KvStoreDB

(* A call is where its operation leads, and its locals are fresh there.    *)
CallInv ==
  \A t \in Threads :
    /\ pc[t] # "idle" => call[t] \in Calls /\ num[t] >= 1
    /\ pc[t] \in {"get", "miss"} => call[t].op = "Read"
    /\ pc[t] \in {"seek", "scan"} => call[t].op = "Scan"
    /\ pc[t] = "put" => /\ call[t].op \in {"Insert", "Update", "Delete"}
                        /\ idx[t] <= Len(Values(call[t])) + 1
    /\ pc[t] \in {"idle", "get", "miss", "seek"} => idx[t] = 1
    /\ pc[t] = "return" /\ IsWrite(call[t]) => idx[t] > 1

(* The call that a value comes from.                                       *)
Writer(v) == <<v[1], v[2]>>

(* A call counts as finished once it has returned, and a write that began  *)
(* after that does not.                                                    *)
HistoryInv ==
  /\ \A k \in Keys :
       /\ obsolete[k] \subseteq finished[k]
       /\ \A t \in Threads : before[t][k] \subseteq finished[k]
       /\ finished[k] # {} => store[k] # NULL
  /\ \A t \in Threads, k \in Keys, n \in 1 .. MaxCalls :
       <<t, n>> \in finished[k] =>
         n <= num[t] /\ (pc[t] # "idle" => n < num[t])

(* A write that has Put a value holds every older write at bay: what is    *)
(* under the key is its own or that of a call that was not over before.    *)
StoreInv ==
  /\ NoStaleRecord
  /\ \A t \in Threads :
       pc[t] \in {"put", "return"} /\ IsWrite(call[t]) /\ idx[t] > 1 =>
         LET k == call[t].key
         IN store[k] # NULL /\ Writer(store[k]) \notin before[t][k]

(***************************************************************************)
(* The inductive invariant of the RocksDB and LevelDB adapters, preserved  *)
(* by every step of Read, Scan, Insert, Update and Delete: where a call    *)
(* is, which writes are over, whose value a key holds, and what a Read     *)
(* that misses could have found.                                           *)
(***************************************************************************)
IInv == TypeOK /\ CallInv /\ HistoryInv /\ StoreInv /\ MissesAreReal
=============================================================================
