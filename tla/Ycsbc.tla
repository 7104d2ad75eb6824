------------------------------- MODULE Ycsbc --------------------------------
(***************************************************************************)
(* The benchmark driver: main(), record() and DelegateClient() of ycsbc.cc *)
(* with the Client of core/client.h running a CoreWorkload against the     *)
(* RocksDB adapter of db/rocksdb_db.cc (-db rocksdb, for which             *)
(* handleRocksdb() leaves one field per record: one Put per write).        *)
(*                                                                         *)
(* Three kinds of threads run: main, the stats recorder started by         *)
(* "-d n", and one worker per -threads.  A step is an access to something  *)
(* shared: a future, the isFinish flag, key_generator_, the database or    *)
(* RocksDB::noResult.  What a thread computes alone joins the next step.   *)
(***************************************************************************)
EXTENDS CoreWorkload, FiniteSets

CONSTANTS
  NumThreads,    \* property threadcount
  Patterns,      \* the patterns that are tried; "none" is any other string
                 \* (one a property file sets: main then runs neither phase)
  Durations,     \* the values of -d that are tried
  RequestDists,  \* the values of requestdistribution that are tried
  Preloaded,     \* names an earlier run left in the database directory
  CanFail        \* can the database return a status other than ok/not found?

ASSUME DriverAssumption ==
  /\ NumThreads \in Nat \ {0}
  /\ Patterns \subseteq {"load", "run", "both", "none"}
  /\ Durations \subseteq Nat
  /\ RequestDists \subseteq RequestDist
  /\ Preloaded \subseteq Uint64
  /\ CanFail \in BOOLEAN

VARIABLES
  pattern, duration, request_dist,  \* what ParseCommandLine returned
  mpc,            \* where main is
  phase,          \* "load": lines 118-181 of main, "run": lines 184-252
  spawned,        \* workers started in this phase
  joined,         \* futures main has get()
  sum,            \* int sum of main
  isFinish,       \* the atomic<bool> the recorder polls
  freed,          \* "delete isFinish" has been executed
  rpc,            \* where the recorder is
  wpc,            \* where each worker is
  loading,        \* argument is_loading of each worker
  op,             \* operation a worker is doing
  key,            \* key_num a worker has drawn
  seen,           \* value of noResult a worker's noResult++ has read
  done,           \* i of the loop of DelegateClient
  oks,            \* oks of DelegateClient
  key_generator,  \* counter_ of CoreWorkload::key_generator_
  store,          \* names of the records in the database
  noResult,       \* RocksDB::noResult
  misses,         \* history: reads that found no record
  proc            \* the process: running, exited by exit(0), aborted

cmd      == <<pattern, duration, request_dist>>
mainVars == <<mpc, phase, spawned, joined, sum, isFinish, freed>>
workVars == <<wpc, loading, op, key, seen, done, oks>>
dbVars   == <<key_generator, store, noResult, misses>>
vars     == <<cmd, mainVars, rpc, workVars, dbVars, proc>>

Workers == 0 .. NumThreads - 1

(* DB::kOK and what RocksDB::Read returns for a key that is not there.     *)
kOK == 0
ReadMissStatus == kOK

(* total_ops / num_threads, the num_ops of a worker.                       *)
Quota(is_loading) ==
  (IF is_loading THEN RecordCount ELSE OperationCount) \div NumThreads

Init ==
  /\ pattern \in Patterns
  /\ duration \in Durations
  /\ request_dist \in RequestDists /\ KeyChooserBuilds(request_dist)
  /\ mpc = "async"
  /\ phase = IF pattern = "run" THEN "run" ELSE "load"
  /\ spawned = 0 /\ joined = 0 /\ sum = 0
  /\ isFinish = FALSE /\ freed = FALSE
  /\ rpc = "none"
  /\ wpc = [w \in Workers |-> "none"]
  /\ loading = [w \in Workers |-> FALSE]
  /\ op = [w \in Workers |-> "INSERT"]
  /\ key = [w \in Workers |-> 0]
  /\ seen = [w \in Workers |-> 0]
  /\ done = [w \in Workers |-> 0]
  /\ oks = [w \in Workers |-> 0]
  /\ key_generator = InsertStart
  /\ store = Preloaded
  /\ noResult = 0 /\ misses = 0
  /\ proc = "running"

-----------------------------------------------------------------------------
(* main *)

StartRecorder ==
  /\ mpc = "async"
  /\ rpc' = IF duration # 0 THEN "test" ELSE rpc
  /\ mpc' = "scope_end"
  /\ UNCHANGED <<phase, spawned, joined, sum, isFinish, freed>>
  /\ UNCHANGED <<workVars, dbVars, proc>>

(* mutant: the recorder is detached (line 115) *)
LeaveRecorderScope_Detached ==
  /\ mpc = "scope_end"
  /\ mpc' = IF pattern = "none" THEN "done" ELSE "spawn"
  /\ UNCHANGED <<phase, spawned, joined, sum, isFinish, freed>>
  /\ UNCHANGED <<rpc, workVars, dbVars, proc>>

(***************************************************************************)
(* The end of the block that owns the recorder's future r: the destructor  *)
(* of a future made by async(launch::async, ...) waits for the thread.     *)
(***************************************************************************)
LeaveRecorderScope ==
  /\ mpc = "scope_end"
  /\ rpc \in {"none", "returned"}
  /\ mpc' = IF pattern = "none" THEN "done" ELSE "spawn"
  /\ UNCHANGED <<phase, spawned, joined, sum, isFinish, freed>>
  /\ UNCHANGED <<rpc, workVars, dbVars, proc>>

(* mutant: the loop over i runs once too often *)
SpawnWorker_OneMore ==
  /\ mpc = "spawn"
  /\ wpc' = [wpc EXCEPT ![spawned] = "loop"]
  /\ loading' = [loading EXCEPT ![spawned] = (phase = "load")]
  /\ spawned' = spawned + 1
  /\ mpc' = IF spawned + 1 <= NumThreads THEN "spawn" ELSE "join"
  /\ UNCHANGED <<phase, joined, sum, isFinish, freed>>
  /\ UNCHANGED <<rpc, op, key, seen, done, oks, dbVars, proc>>

SpawnWorker ==
  /\ mpc = "spawn"
  /\ wpc' = [wpc EXCEPT ![spawned] = "loop"]
  /\ loading' = [loading EXCEPT ![spawned] = (phase = "load")]
  /\ spawned' = spawned + 1
  /\ mpc' = IF spawned + 1 < NumThreads THEN "spawn" ELSE "join"
  /\ UNCHANGED <<phase, joined, sum, isFinish, freed>>
  /\ UNCHANGED <<rpc, op, key, seen, done, oks, dbVars, proc>>

(* mutant: n.get() does not wait *)
JoinWorker_NoWait ==
  /\ mpc = "join"
  /\ sum' = sum + oks[joined]
  /\ joined' = joined + 1
  /\ mpc' = IF joined + 1 < NumThreads THEN "join" ELSE "finish"
  /\ UNCHANGED <<phase, spawned, isFinish, freed>>
  /\ UNCHANGED <<rpc, workVars, dbVars, proc>>

(* mutant: only the last worker's count is kept *)
JoinWorker_Assign ==
  /\ mpc = "join"
  /\ wpc[joined] = "returned"
  /\ sum' = oks[joined]
  /\ joined' = joined + 1
  /\ mpc' = IF joined + 1 < NumThreads THEN "join" ELSE "finish"
  /\ UNCHANGED <<phase, spawned, isFinish, freed>>
  /\ UNCHANGED <<rpc, workVars, dbVars, proc>>

(* sum += n.get(), for the futures in the order they were made.            *)
JoinWorker ==
  /\ mpc = "join"
  /\ wpc[joined] = "returned"
  /\ sum' = sum + oks[joined]
  /\ joined' = joined + 1
  /\ mpc' = IF joined + 1 < NumThreads THEN "join" ELSE "finish"
  /\ UNCHANGED <<phase, spawned, isFinish, freed>>
  /\ UNCHANGED <<rpc, workVars, dbVars, proc>>

FinishTasks ==
  /\ mpc = "finish"
  /\ isFinish' = TRUE
  /\ mpc' = "delete"
  /\ UNCHANGED <<phase, spawned, joined, sum, freed>>
  /\ UNCHANGED <<rpc, workVars, dbVars, proc>>

(* Deleting the flag a second time is undefined: it may go unnoticed ...   *)
DeleteFlag ==
  /\ mpc = "delete"
  /\ freed' = TRUE
  /\ mpc' = "report"
  /\ UNCHANGED <<phase, spawned, joined, sum, isFinish>>
  /\ UNCHANGED <<rpc, workVars, dbVars, proc>>

(* ... or the allocator detects it and aborts the process.                 *)
DoubleFreeAbort ==
  /\ mpc = "delete"
  /\ freed
  /\ proc' = "aborted"
  /\ UNCHANGED <<mainVars, rpc, workVars, dbVars>>

(* mutant: the workload is initialised again *)
StartTransactions_Reinit ==
  /\ mpc = "report"
  /\ pattern = "both" /\ phase = "load"
  /\ phase' = "run"
  /\ mpc' = "spawn"
  /\ spawned' = 0 /\ joined' = 0 /\ sum' = 0
  /\ wpc' = [w \in Workers |-> "none"]
  /\ done' = [w \in Workers |-> 0]
  /\ oks' = [w \in Workers |-> 0]
  /\ UNCHANGED <<isFinish, freed, rpc, loading, op, key, seen, proc>>
  /\ key_generator' = InsertStart
  /\ UNCHANGED <<store, noResult, misses>>

(* mutant: the turns of the load phase are counted on *)
StartTransactions_KeepDone ==
  /\ mpc = "report"
  /\ pattern = "both" /\ phase = "load"
  /\ phase' = "run"
  /\ mpc' = "spawn"
  /\ spawned' = 0 /\ joined' = 0 /\ sum' = 0
  /\ wpc' = [w \in Workers |-> "none"]
  /\ oks' = [w \in Workers |-> 0]
  /\ UNCHANGED <<isFinish, freed, rpc, loading, op, key, seen, done, dbVars, proc>>

(* The load phase is reported and, for "both", the vectors are cleared.    *)
StartTransactions ==
  /\ mpc = "report"
  /\ pattern = "both" /\ phase = "load"
  /\ phase' = "run"
  /\ mpc' = "spawn"
  /\ spawned' = 0 /\ joined' = 0 /\ sum' = 0
  /\ wpc' = [w \in Workers |-> "none"]
  /\ done' = [w \in Workers |-> 0]
  /\ oks' = [w \in Workers |-> 0]
  /\ UNCHANGED <<isFinish, freed, rpc, loading, op, key, seen, dbVars, proc>>

Return ==
  /\ mpc = "report"
  /\ pattern = "both" => phase = "run"
  /\ mpc' = "done"
  /\ UNCHANGED <<phase, spawned, joined, sum, isFinish, freed>>
  /\ UNCHANGED <<rpc, workVars, dbVars, proc>>

Main ==
  \/ StartRecorder \/ LeaveRecorderScope
  \/ SpawnWorker \/ JoinWorker
  \/ FinishTasks \/ DeleteFlag \/ DoubleFreeAbort
  \/ StartTransactions \/ Return

-----------------------------------------------------------------------------
(* record(): while (!*isFinish) { sleep; printStats }.  Reading the flag   *)
(* after it was deleted is undefined and may give either value.            *)

TestFlag ==
  /\ rpc = "test"
  /\ \E flag \in IF freed THEN BOOLEAN ELSE {isFinish} :
       rpc' = IF flag THEN "returned" ELSE "sleep"
  /\ UNCHANGED <<mainVars, workVars, dbVars, proc>>

SleepAndPrint ==
  /\ rpc = "sleep"
  /\ rpc' = "test"
  /\ UNCHANGED <<mainVars, workVars, dbVars, proc>>

Recorder == TestFlag \/ SleepAndPrint

-----------------------------------------------------------------------------
(* DelegateClient() and the Client it runs *)

(* mutant: the loop variable is not advanced *)
Complete_NoCount(w, status) ==
  /\ done' = done
  /\ oks' = oks
  /\ wpc' = [wpc EXCEPT ![w] = "loop"]
  /\ op' = [op EXCEPT ![w] = "INSERT"]
  /\ key' = [key EXCEPT ![w] = 0]
  /\ seen' = [seen EXCEPT ![w] = 0]

(* One turn of the loop of DelegateClient ends with the given status.      *)
Complete(w, status) ==
  /\ done' = [done EXCEPT ![w] = @ + 1]
  /\ oks' = [oks EXCEPT ![w] = @ + IF status = kOK THEN 1 ELSE 0]
  /\ wpc' = [wpc EXCEPT ![w] = "loop"]
  /\ op' = [op EXCEPT ![w] = "INSERT"]
  /\ key' = [key EXCEPT ![w] = 0]
  /\ seen' = [seen EXCEPT ![w] = 0]

Goto(w, label) == wpc' = [wpc EXCEPT ![w] = label]

(* mutant: i <= num_ops *)
BeginOp_OneMore(w) ==
  /\ wpc[w] = "loop"
  /\ done[w] <= Quota(loading[w])
  /\ \E o \in IF loading[w] THEN {"INSERT"} ELSE OpChooser :
       /\ op' = [op EXCEPT ![w] = o]
       /\ Goto(w, IF o = "INSERT" THEN "seqKey" ELSE "draw")
  /\ UNCHANGED <<mainVars, rpc, loading, key, seen, done, oks, dbVars, proc>>

(* DoInsert of the load phase, or the operation DoTransaction picks.       *)
BeginOp(w) ==
  /\ wpc[w] = "loop"
  /\ done[w] < Quota(loading[w])
  /\ \E o \in IF loading[w] THEN {"INSERT"} ELSE OpChooser :
       /\ op' = [op EXCEPT ![w] = o]
       /\ Goto(w, IF o = "INSERT" THEN "seqKey" ELSE "draw")
  /\ UNCHANGED <<mainVars, rpc, loading, key, seen, done, oks, dbVars, proc>>

ReturnOks(w) ==
  /\ wpc[w] = "loop"
  /\ done[w] >= Quota(loading[w])
  /\ Goto(w, "returned")
  /\ UNCHANGED <<mainVars, rpc, loading, op, key, seen, done, oks>>
  /\ UNCHANGED <<dbVars, proc>>

(* key_generator_->Next(): one atomic fetch_add.                           *)
NextSequenceKey(w) ==
  /\ wpc[w] = "seqKey"
  /\ key' = [key EXCEPT ![w] = key_generator]
  /\ key_generator' = CounterNext(key_generator)
  /\ Goto(w, "put")
  /\ UNCHANGED <<mainVars, rpc, loading, op, seen, done, oks>>
  /\ UNCHANGED <<store, noResult, misses, proc>>

(* The first call TransactionRead, ...Update, ...Scan make with their key. *)
FirstCall(o) ==
  CASE o \in {"READ", "READMODIFYWRITE"} -> "get"
    [] o = "UPDATE" -> "put"
    [] OTHER -> "scan"

(* NextTransactionKey: a turn of its do-while loop that tries again ...    *)
RejectKey(w) ==
  /\ wpc[w] = "draw"
  /\ \E k \in KeyChooser(request_dist) :
       /\ KeyRejected(k)
       /\ key' = [key EXCEPT ![w] = k]
  /\ UNCHANGED <<mainVars, rpc, wpc, loading, op, seen, done, oks>>
  /\ UNCHANGED <<dbVars, proc>>

(* ... and the turn that leaves it, for the call the operation makes.      *)
AcceptKey(w) ==
  /\ wpc[w] = "draw"
  /\ \E k \in KeyChooser(request_dist) :
       /\ ~ KeyRejected(k)
       /\ key' = [key EXCEPT ![w] = k]
  /\ Goto(w, FirstCall(op[w]))
  /\ UNCHANGED <<mainVars, rpc, loading, op, seen, done, oks>>
  /\ UNCHANGED <<dbVars, proc>>

(* After Read: TransactionReadModifyWrite ignores its status and updates.  *)
AfterRead(w, status) ==
  IF op[w] = "READMODIFYWRITE"
  THEN /\ Goto(w, "put")
       /\ seen' = [seen EXCEPT ![w] = 0]
       /\ UNCHANGED <<done, oks, op, key>>
  ELSE Complete(w, status)

ReadHit(w) ==
  /\ wpc[w] = "get"
  /\ BuildKeyName(key[w]) \in store
  /\ AfterRead(w, kOK)
  /\ UNCHANGED <<mainVars, rpc, loading, dbVars, proc>>

(* noResult++ on an int all threads share: a load ...                      *)
ReadMiss(w) ==
  /\ wpc[w] = "get"
  /\ BuildKeyName(key[w]) \notin store
  /\ seen' = [seen EXCEPT ![w] = noResult]
  /\ Goto(w, "miss")
  /\ UNCHANGED <<mainVars, rpc, loading, op, key, done, oks, dbVars, proc>>

(* mutant: the incremented value is dropped *)
CountMiss_NoIncrement(w) ==
  /\ wpc[w] = "miss"
  /\ noResult' = seen[w]
  /\ misses' = misses + 1
  /\ AfterRead(w, ReadMissStatus)
  /\ UNCHANGED <<mainVars, rpc, loading, key_generator, store, proc>>

(* ... and, after steps of other threads, a store.                         *)
CountMiss(w) ==
  /\ wpc[w] = "miss"
  /\ noResult' = seen[w] + 1
  /\ misses' = misses + 1
  /\ AfterRead(w, ReadMissStatus)
  /\ UNCHANGED <<mainVars, rpc, loading, key_generator, store, proc>>

(* mutant: the key number is used as the name *)
Put_RawKey(w) ==
  /\ wpc[w] = "put"
  /\ store' = store \cup {key[w]}
  /\ Complete(w, kOK)
  /\ UNCHANGED <<mainVars, rpc, loading>>
  /\ UNCHANGED <<key_generator, noResult, misses, proc>>

(* Insert and Update are both one Put under the key.                       *)
Put(w) ==
  /\ wpc[w] = "put"
  /\ store' = store \cup {BuildKeyName(key[w])}
  /\ Complete(w, kOK)
  /\ UNCHANGED <<mainVars, rpc, loading>>
  /\ UNCHANGED <<key_generator, noResult, misses, proc>>

Scan(w) ==
  /\ wpc[w] = "scan"
  /\ Complete(w, kOK)
  /\ UNCHANGED <<mainVars, rpc, loading, dbVars, proc>>

(* "read error" and "insert error": exit(0) from the worker.               *)
DbError(w) ==
  /\ CanFail
  /\ wpc[w] \in {"get", "put"}
  /\ proc' = "exited"
  /\ UNCHANGED <<mainVars, rpc, workVars, dbVars>>

(* The steps a scheduled worker whose database answers keeps taking.       *)
Progress(w) ==
  \/ BeginOp(w) \/ ReturnOks(w)
  \/ NextSequenceKey(w) \/ AcceptKey(w)
  \/ ReadHit(w) \/ ReadMiss(w) \/ CountMiss(w)
  \/ Put(w) \/ Scan(w)

Worker(w) == Progress(w) \/ RejectKey(w) \/ DbError(w)

-----------------------------------------------------------------------------

Stopped == mpc = "done" \/ proc # "running"

Active == ~ Stopped /\ UNCHANGED cmd

(* The process is gone: nothing else happens.                              *)
Terminating == Stopped /\ UNCHANGED vars

Next ==
  \/ Active /\ Main
  \/ Active /\ Recorder
  \/ \E w \in Workers : Active /\ Worker(w)
  \/ Terminating

Spec == Init /\ [][Next]_vars

(***************************************************************************)
(* The operating system schedules every thread, sleeps end, the database   *)
(* answers, and NextTransactionKey, whose draws are independent, leaves    *)
(* its loop when some key can be accepted.                                 *)
(***************************************************************************)
Fairness ==
  /\ WF_vars(Active /\ Main)
  /\ WF_vars(Active /\ Recorder)
  /\ \A w \in Workers : WF_vars(Active /\ Progress(w))

FairSpec == Spec /\ Fairness

-----------------------------------------------------------------------------
(* Properties *)

MainLabel == {"async", "scope_end", "spawn", "join", "finish", "delete",
              "report", "done"}

WorkerLabel == {"none", "loop", "seqKey", "draw", "get", "miss", "put",
                "scan", "returned"}

(* Every variable keeps the type of the C++ object it stands for.          *)
TypeOK ==
  /\ pattern \in Patterns
  /\ duration \in Nat
  /\ request_dist \in RequestDist /\ KeyChooserBuilds(request_dist)
  /\ mpc \in MainLabel
  /\ phase \in {"load", "run"}
  /\ spawned \in 0 .. NumThreads
  /\ joined \in 0 .. NumThreads
  /\ sum \in Nat
  /\ isFinish \in BOOLEAN /\ freed \in BOOLEAN
  /\ rpc \in {"none", "test", "sleep", "returned"}
  /\ wpc \in [Workers -> WorkerLabel]
  /\ loading \in [Workers -> BOOLEAN]
  /\ op \in [Workers -> Operation]
  /\ key \in [Workers -> Uint64]
  /\ seen \in [Workers -> Nat]
  /\ done \in [Workers -> Nat]
  /\ oks \in [Workers -> Nat]
  /\ key_generator \in Uint64
  /\ store \subseteq Uint64
  /\ noResult \in Nat /\ misses \in Nat
  /\ proc \in {"running", "exited", "aborted"}

(* The key numbers the workers of the load phase insert between them.      *)
LoadedCount == NumThreads * Quota(TRUE)
LoadedKeys  == InsertStart .. InsertStart + LoadedCount - 1
LoadedNames == { BuildKeyName(k) : k \in LoadedKeys }

Reporting == mpc \in {"finish", "delete", "report"}

(***************************************************************************)
(* However the workers of DelegateClient interleave on key_generator_,     *)
(* once main has joined them the database holds exactly the records of the *)
(* first LoadedCount sequence keys (and what was there before): no key was *)
(* skipped, none beyond was taken.                                         *)
(***************************************************************************)
LoadComplete ==
  phase = "load" /\ Reporting =>
    /\ store = Preloaded \cup LoadedNames
    /\ key_generator = InsertStart + LoadedCount

(***************************************************************************)
(* "# Loading records: sum" is the number of records loaded: what main     *)
(* adds up from the futures, one worker's oks after the other, is how far  *)
(* the workers have moved key_generator_ between them, and the record of   *)
(* every key it counts is in the database.                                 *)
(***************************************************************************)
SumIsRecordsLoaded ==
  phase = "load" /\ Reporting =>
    /\ key_generator = InsertStart + sum
    /\ \A k \in InsertStart .. InsertStart + sum - 1 : BuildKeyName(k) \in store

(* A worker holds a key of key_generator_ that it has not inserted yet.    *)
HoldsSequenceKey(w) == wpc[w] = "put" /\ op[w] = "INSERT"

(* Different key numbers have different key names.                         *)
NamesDistinct ==
  \A i, j \in Uint64 : BuildKeyName(i) = BuildKeyName(j) => i = j

EvenLoad == LoadedCount = RecordCount /\ InsertStart = 0 /\ RecordCount > 0

(***************************************************************************)
(* NextSequenceKey hands a key to one worker only, and a worker about to   *)
(* Insert creates a record: nobody has written that key since the process  *)
(* started.  (With a key space that starts at 0 and is divided evenly, so  *)
(* that NextTransactionKey draws loaded keys only.)                        *)
(***************************************************************************)
InsertsAreNew ==
  /\ \A v, w \in Workers :
       HoldsSequenceKey(v) /\ HoldsSequenceKey(w) /\ v # w => key[v] # key[w]
  /\ EvenLoad /\ NamesDistinct /\ pattern # "run" =>
       \A w \in Workers :
         HoldsSequenceKey(w) => BuildKeyName(key[w]) \notin store \ Preloaded

(***************************************************************************)
(* A benchmark that loads and then runs ("both") never reads a key that is *)
(* missing, whatever the request distribution: NextTransactionKey stays    *)
(* within the loaded keys and the load phase is over before the first      *)
(* transaction.                                                            *)
(***************************************************************************)
LoadedKeysAreFound ==
  EvenLoad /\ pattern = "both" => misses = 0

(***************************************************************************)
(* Outside the loops that start and join them, main never runs beside a    *)
(* worker: no transaction overlaps the load phase, no report overlaps an   *)
(* operation, and the program does not return under a running worker.      *)
(***************************************************************************)
PhasesDoNotOverlap ==
  /\ \A w \in Workers : wpc[w] # "none" => loading[w] = (phase = "load")
  /\ mpc \notin {"spawn", "join"} =>
       \A w \in Workers : wpc[w] \in {"none", "returned"}

(***************************************************************************)
(* noResult++ in RocksDB::Read is not atomic.  It may lose misses, but it  *)
(* never counts one that did not happen, and it does not lose all of them. *)
(***************************************************************************)
MissCountBounds ==
  /\ noResult <= misses
  /\ misses > 0 => noResult > 0

(***************************************************************************)
(* The flag shared with the recorder exists whenever main writes or        *)
(* deletes it and whenever record() reads it.                              *)
(***************************************************************************)
FlagAllocatedWhenUsed ==
  /\ mpc \in {"finish", "delete"} => ~ freed
  /\ rpc = "test" => ~ freed

(***************************************************************************)
(* A process that runs one phase uses the flag only while it exists: the   *)
(* wait at the end of the recorder's scope keeps the polls of record()     *)
(* before main sets and deletes the flag.  ("both" is another matter.)     *)
(***************************************************************************)
FlagSafeInOnePhase == pattern # "both" => FlagAllocatedWhenUsed

(* The program comes to an end.                                            *)
Termination == <>Stopped

(***************************************************************************)
(* A key number taken from key_generator_ does not get lost: its record    *)
(* reaches the database, unless exit(0) or abort() end the process first.  *)
(* In particular main does not return before it has.                       *)
(***************************************************************************)
ClaimedKeyIsStored ==
  \A w \in Workers : \A k \in Uint64 :
    (HoldsSequenceKey(w) /\ key[w] = k) ~>
      (BuildKeyName(k) \in store \/ proc # "running")

-----------------------------------------------------------------------------
(* What comments and documentation say, and the code does not do *)

(***************************************************************************)
(* core_workload.cc: "If the generator picks a key that is not inserted    *)
(* yet, we just ignore it": a key that is given up is not in the database. *)
(***************************************************************************)
IgnoredKeysNotInserted ==
  [][\A w \in Workers :
       RejectKey(w) => BuildKeyName(key'[w]) \notin store]_vars
=============================================================================
