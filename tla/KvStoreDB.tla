----------------------------- MODULE KvStoreDB ------------------------------
(***************************************************************************)
(* The adapters db/rocksdb_db.cc and db/leveldb_db.cc, which differ only   *)
(* in the library they call and in the options they set: a record is what  *)
(* the last Put under its key has left.  Read and Scan look at values and  *)
(* hand none back, Update and Delete are calls of Insert.                  *)
(*                                                                         *)
(* The library is external: Put and Get are atomic, an iterator shows the  *)
(* database as it was when it was made, in the order of the key names.     *)
(* Keys are numbers here, in that order.                                   *)
(***************************************************************************)
EXTENDS ClientCalls

CONSTANTS
  Threads,   \* clients
  MaxCalls,  \* calls a client makes at most
  CanFail,   \* can the library return a status other than ok/not found?
  NULL

ASSUME KvAssumption ==
  /\ Keys \subseteq Nat
  /\ MaxCalls \in Nat
  /\ CanFail \in BOOLEAN
  /\ \A t \in Threads, n \in 1 .. MaxCalls, f \in Fields : <<t, n, f>> # NULL

VARIABLES
  store,     \* key -> value, the <<thread, call number, field>> written last
  noResult,
  proc,      \* the process is running, or a thread has called exit(0)
  pc, call, num,
  idx,       \* position in the values vector, or turn of the loop of Scan
  seen,      \* the value of noResult that noResult++ has read
  it,        \* the iterator: the keys it has still to show, in order
  status,
  finished,  \* history: key -> writes that have returned
  before,    \* history: finished, as it was when the call was made
  obsolete,  \* history: key -> writes older than some finished write
  deleted    \* history: keys for which a Delete has been called

local   == <<pc, call, num, idx, seen, it, status>>
history == <<finished, before, obsolete, deleted>>
vars    == <<store, noResult, proc, local, history>>

NoWrites == [k \in Keys |-> {}]

Init ==
  /\ store = [k \in Keys |-> NULL]
  /\ noResult = 0 /\ proc = "running"
  /\ pc = [t \in Threads |-> "idle"]
  /\ call = [t \in Threads |-> NULL]
  /\ num = [t \in Threads |-> 0]
  /\ idx = [t \in Threads |-> 1]
  /\ seen = [t \in Threads |-> 0]
  /\ it = [t \in Threads |-> {}]
  /\ status = [t \in Threads |-> NULL]
  /\ finished = NoWrites
  /\ before = [t \in Threads |-> NoWrites]
  /\ obsolete = NoWrites
  /\ deleted = {}

Goto(t, from, to) ==
  /\ pc[t] = from
  /\ pc' = [pc EXCEPT ![t] = to]

Finish(t, s) ==
  /\ pc' = [pc EXCEPT ![t] = "return"]
  /\ status' = [status EXCEPT ![t] = s]

FirstLabel(op) ==
  CASE op = "Read" -> "get" [] op = "Scan" -> "seek" [] OTHER -> "put"

Invoke(t) ==
  /\ num[t] < MaxCalls
  /\ num' = [num EXCEPT ![t] = @ + 1]
  /\ \E c \in Calls :
       /\ call' = [call EXCEPT ![t] = c]
       /\ Goto(t, "idle", FirstLabel(c.op))
       /\ deleted' = IF c.op = "Delete" THEN deleted \cup {c.key} ELSE deleted
  /\ before' = [before EXCEPT ![t] = finished]
  /\ UNCHANGED <<store, noResult, proc, idx, seen, it, status>>
  /\ UNCHANGED <<finished, obsolete>>

-----------------------------------------------------------------------------
(* Read *)

(* What Read returns for a key that is not found.                          *)
MissStatus == kOK

ReadHit(t) ==
  /\ pc[t] = "get" /\ store[call[t].key] # NULL
  /\ Finish(t, kOK)
  /\ UNCHANGED <<store, noResult, proc, history>>
  /\ UNCHANGED <<call, num, idx, seen, it>>

(* noResult++ on a variable all threads share: a load ...                  *)
ReadMiss(t) ==
  /\ Goto(t, "get", "miss")
  /\ store[call[t].key] = NULL
  /\ seen' = [seen EXCEPT ![t] = noResult]
  /\ UNCHANGED <<store, noResult, proc, history>>
  /\ UNCHANGED <<call, num, idx, it, status>>

(* ... and a store.                                                        *)
CountMiss(t) ==
  /\ pc[t] = "miss"
  /\ noResult' = seen[t] + 1
  /\ Finish(t, MissStatus)
  /\ UNCHANGED <<store, proc, history, call, num, idx, seen, it>>

-----------------------------------------------------------------------------
(* Scan *)

(* The keys an iterator made now shows after Seek(key).                    *)
KeysFrom(k) == { l \in Keys : store[l] # NULL /\ l >= k }

(* NewIterator and Seek *)
Seek(t) ==
  /\ Goto(t, "seek", "scan")
  /\ it' = [it EXCEPT ![t] = KeysFrom(call[t].key)]
  /\ UNCHANGED <<store, noResult, proc, history>>
  /\ UNCHANGED <<call, num, idx, seen, status>>

(* mutant: i <= len *)
Scanning_OneMore(t) == idx[t] <= call[t].len + 1 /\ it[t] # {}

(* i < len && it->Valid() *)
Scanning(t) == idx[t] <= call[t].len /\ it[t] # {}

(* The iterator is at the least of its keys, and moves to the next one.    *)
ScanNext(t) ==
  /\ pc[t] = "scan" /\ Scanning(t)
  /\ \E k \in it[t] :
       /\ \A l \in it[t] : k <= l
       /\ it' = [it EXCEPT ![t] = @ \ {k}]
  /\ idx' = [idx EXCEPT ![t] = @ + 1]
  /\ UNCHANGED <<store, noResult, proc, history>>
  /\ UNCHANGED <<pc, call, num, seen, status>>

(* The loop ends; a short count is printed, not returned.                  *)
ScanDone(t) ==
  /\ pc[t] = "scan" /\ ~ Scanning(t)
  /\ Finish(t, kOK)
  /\ UNCHANGED <<store, noResult, proc, history>>
  /\ UNCHANGED <<call, num, idx, seen, it>>

-----------------------------------------------------------------------------
(* Insert, and Update and Delete, which call it *)

(* The values vector: Delete passes an empty one.                          *)
Values(c) == IF c.op = "Delete" THEN <<>> ELSE c.fields

(* mutant: the loop ends one value early *)
Writing_OneLess(t) == idx[t] < Len(Values(call[t]))

Writing(t) == idx[t] <= Len(Values(call[t]))

(* mutant: the value of an earlier call is kept *)
Put_Keep(t) ==
  /\ pc[t] = "put" /\ Writing(t)
  /\ store' = [store EXCEPT ![call[t].key] =
                 IF @ = NULL \/ (@[1] = t /\ @[2] = num[t])
                 THEN <<t, num[t], Values(call[t])[idx[t]]>> ELSE @]
  /\ idx' = [idx EXCEPT ![t] = @ + 1]
  /\ UNCHANGED <<noResult, proc, history>>
  /\ UNCHANGED <<pc, call, num, seen, it, status>>

(* db_->Put(wo, key, p.second): the name of the field is not stored, and   *)
(* every value of the vector is put under the same key.                    *)
Put(t) ==
  /\ pc[t] = "put" /\ Writing(t)
  /\ store' = [store EXCEPT ![call[t].key] =
                 <<t, num[t], Values(call[t])[idx[t]]>>]
  /\ idx' = [idx EXCEPT ![t] = @ + 1]
  /\ UNCHANGED <<noResult, proc, history>>
  /\ UNCHANGED <<pc, call, num, seen, it, status>>

InsertDone(t) ==
  /\ pc[t] = "put" /\ ~ Writing(t)
  /\ Finish(t, kOK)
  /\ UNCHANGED <<store, noResult, proc, history>>
  /\ UNCHANGED <<call, num, idx, seen, it>>

(* "read error" and "insert error": exit(0), in the middle of the others.  *)
DbError(t) ==
  /\ CanFail
  /\ pc[t] = "get" \/ (pc[t] = "put" /\ Writing(t))
  /\ proc' = "exited"
  /\ UNCHANGED <<store, noResult, local, history>>

IsWrite(c) == c.op \in {"Insert", "Update"}

(* The call returns; a write joins the history.                            *)
Return(t) ==
  /\ Goto(t, "return", "idle")
  /\ LET k == call[t].key
     IN IF IsWrite(call[t])
        THEN /\ finished' = [finished EXCEPT ![k] = @ \cup {<<t, num[t]>>}]
             /\ obsolete' = [obsolete EXCEPT ![k] = @ \cup before[t][k]]
        ELSE UNCHANGED <<finished, obsolete>>
  /\ call' = [call EXCEPT ![t] = NULL]
  /\ idx' = [idx EXCEPT ![t] = 1]
  /\ seen' = [seen EXCEPT ![t] = 0]
  /\ it' = [it EXCEPT ![t] = {}]
  /\ status' = [status EXCEPT ![t] = NULL]
  /\ before' = [before EXCEPT ![t] = NoWrites]
  /\ UNCHANGED <<store, noResult, proc, num, deleted>>

-----------------------------------------------------------------------------

Step(t) ==
  \/ Invoke(t) \/ Return(t)
  \/ ReadHit(t) \/ ReadMiss(t) \/ CountMiss(t)
  \/ Seek(t) \/ ScanNext(t) \/ ScanDone(t)
  \/ Put(t) \/ InsertDone(t) \/ DbError(t)

Stopped ==
  proc = "exited" \/ \A t \in Threads : pc[t] = "idle" /\ num[t] = MaxCalls

Next ==
  \/ proc = "running" /\ \E t \in Threads : Step(t)
  \/ Stopped /\ UNCHANGED vars

Spec == Init /\ [][Next]_vars

-----------------------------------------------------------------------------
(* Properties *)

Write == Threads \X (1 .. MaxCalls)

(* The most turns a loop over the values of a write, or of a scan, makes.  *)
MaxTurns == IF field_count > MaxScanLength THEN field_count ELSE MaxScanLength

(* The variables keep their types; in particular no loop goes on for more  *)
(* turns than it has values to write or than the scan length asks for.     *)
TypeOK ==
  /\ store \in [Keys -> (Threads \X (1 .. MaxCalls) \X Fields) \cup {NULL}]
  /\ noResult \in Nat /\ proc \in {"running", "exited"}
  /\ pc \in [Threads -> {"idle", "get", "miss", "seek", "scan", "put", "return"}]
  /\ call \in [Threads -> Calls \cup {NULL}]
  /\ num \in [Threads -> 0 .. MaxCalls]
  /\ idx \in [Threads -> 1 .. MaxTurns + 1] /\ seen \in [Threads -> Nat]
  /\ it \in [Threads -> SUBSET Keys]
  /\ status \in [Threads -> {NULL, kOK, kErrorNoData, kErrorConflict}]
  /\ finished \in [Keys -> SUBSET Write] /\ obsolete \in [Keys -> SUBSET Write]
  /\ before \in [Threads -> [Keys -> SUBSET Write]] /\ deleted \subseteq Keys

(***************************************************************************)
(* Although a write is several Puts that those of other writes come        *)
(* between, a record never goes back: it is not left holding a value of a  *)
(* write that had returned before another, since finished, write of the    *)
(* record began.                                                           *)
(***************************************************************************)
NoStaleRecord ==
  \A k \in Keys :
    store[k] # NULL => <<store[k][1], store[k][2]>> \notin obsolete[k]

(***************************************************************************)
(* A Read that misses had nothing to find: no Insert or Update of the      *)
(* record had returned when it was called, unless somebody called Delete.  *)
(* Whatever the Puts of the others are doing meanwhile, a record that was  *)
(* written does not go away.                                               *)
(***************************************************************************)
MissesAreReal ==
  \A t \in Threads :
    pc[t] = "miss" => before[t][call[t].key] = {} \/ call[t].key \in deleted

-----------------------------------------------------------------------------
(* What comments say, and the code does not do *)

(***************************************************************************)
(* db.h, Insert: "Field/value pairs in the specified vector are written    *)
(* into the record": an Insert that returns kOK has left all its fields.   *)
(***************************************************************************)
AllFieldsWritten ==
  \A t \in Threads :
    pc[t] = "return" /\ call[t].op = "Insert" =>
      \A j \in DOMAIN call[t].fields :
        \E k \in Keys : store[k] = <<t, num[t], call[t].fields[j]>>
=============================================================================
