--------------------------- MODULE YcsbcKeyProofs ---------------------------
(***************************************************************************)
(* Theorems about the keys and the records of Ycsbc in both phases: who    *)
(* holds a sequence key, which records are there, which reads miss; and    *)
(* that the driver implements the abstract benchmark.                      *)
(***************************************************************************)
EXTENDS YcsbcBench, YcsbcProofs

-----------------------------------------------------------------------------
(* What the steps of a worker do to the other workers and to the turns *)

(* A step of a worker changes only its own locals.                         *)
LEMMA OtherWorkers ==
  ASSUME TypeOK, NEW w \in Workers, Worker(w), NEW v \in Workers, v # w
  PROVE  /\ wpc'[v] = wpc[v] /\ op'[v] = op[v] /\ key'[v] = key[v]
         /\ seen'[v] = seen[v] /\ done'[v] = done[v]
BY DEF Worker, Progress, BeginOp, ReturnOks, NextSequenceKey, AcceptKey, ReadHit,
       ReadMiss, CountMiss, Put, Scan, RejectKey, DbError, AfterRead, Complete,
       Goto, workVars, TypeOK

(* Only NextSequenceKey and the Put of an insertion concern sequence keys. *)
LEMMA OtherSteps ==
  ASSUME TypeOK, WorkInv, NEW w \in Workers, Worker(w),
         ~ NextSequenceKey(w), ~ (Put(w) /\ op[w] = "INSERT")
  PROVE  /\ key_generator' = key_generator
         /\ HoldsSequenceKey(w)' <=> HoldsSequenceKey(w)
         /\ HoldsSequenceKey(w) => key'[w] = key[w] /\ done'[w] = done[w]
         /\ done'[w] >= done[w]
BY FirstCallType DEF Worker, Progress, BeginOp, ReturnOks, AcceptKey, ReadHit,
       ReadMiss, CountMiss, Put, Scan, RejectKey, DbError, AfterRead, Complete,
       Goto, workVars, dbVars, TypeOK, WorkInv, HoldsSequenceKey

(* A transaction calls the database with a key its loop has accepted.      *)
LEMMA DrawnKey ==
  ASSUME TypeOK, WorkInv, KeyInv, NEW w \in Workers, Worker(w),
         wpc'[w] \in {"get", "miss", "put", "scan"}, op'[w] # "INSERT"
  PROVE  ~ KeyRejected(key'[w])
BY DEF Worker, Progress, BeginOp, ReturnOks, NextSequenceKey, AcceptKey, ReadHit,
       ReadMiss, CountMiss, Put, Scan, RejectKey, DbError, AfterRead, Complete,
       Goto, workVars, TypeOK, WorkInv, KeyInv

(* The turns issued only grow while a phase runs.                          *)
LEMMA IssuedGrows ==
  ASSUME DriverInv, DriverInv', UNCHANGED phase,
         \A v \in Workers :
           /\ done'[v] >= done[v]
           /\ HoldsSequenceKey(v) =>
                done'[v] > done[v] \/ (done'[v] = done[v] /\ HoldsSequenceKey(v)')
  PROVE  /\ Cardinality(Issued) \in Nat /\ Cardinality(Issued') \in Nat
         /\ Cardinality(Issued) <= Cardinality(Issued')
<1>1. PhaseQuota' = PhaseQuota
  BY DEF PhaseQuota
<1>2. Issued \subseteq Issued'
  <2>1. ASSUME NEW v \in Workers, NEW i \in 0 .. PhaseQuota, <<v, i>> \in Issued
        PROVE  <<v, i>> \in Issued'
    <3>1. done[v] \in Nat /\ done'[v] \in Nat /\ i \in Nat
      <4>1. PhaseQuota \in Nat
        BY QuotaType DEF PhaseQuota
      <4>2. done \in [Workers -> Nat] /\ done' \in [Workers -> Nat]
        BY DEF DriverInv, TypeOK
      <4> QED BY <4>1, <4>2
    <3>2. i < done[v] \/ (i = done[v] /\ HoldsSequenceKey(v))
      BY <2>1 DEF Issued
    <3>3. i < done'[v] \/ (i = done'[v] /\ HoldsSequenceKey(v)')
      BY <3>1, <3>2
    <3> QED BY <1>1, <3>3 DEF Issued
  <2>2. Issued \subseteq Workers \X (0 .. PhaseQuota)
    BY DEF Issued
  <2> QED BY <2>1, <2>2
<1>3. IsFiniteSet(Issued) /\ Cardinality(Issued) \in Nat
  BY IssuedBound DEF DriverInv
<1>4. IsFiniteSet(Issued') /\ Cardinality(Issued') \in Nat
  <2>1. TypeOK' /\ WorkInv'
    BY DEF DriverInv
  <2>2. TypeOK /\ WorkInv => IsFiniteSet(Issued) /\ Cardinality(Issued) \in Nat
    BY IssuedBound
  <2>3. (TypeOK /\ WorkInv => IsFiniteSet(Issued) /\ Cardinality(Issued) \in Nat)'
    BY IssuedBound, PTL
  <2> QED BY <2>1, <2>3
<1> QED BY <1>2, <1>3, <1>4, FS_Subset

(* The turns of all workers are as many as a number can say.               *)
LEMMA AllShares ==
  ASSUME NEW n \in Nat
  PROVE  NumThreads * n \in Nat
BY DriverAssumption

(* Where the keys of a phase begin, and that they do not run out.          *)
LEMMA KeyBaseType ==
  /\ KeyBase \in Nat /\ InsertStart <= KeyBase
  /\ KeyBase + NumThreads * PhaseQuota <= UINT64_MAX
  /\ NumThreads * PhaseQuota \in Nat /\ LoadedCount \in Nat
<1> DEFINE L == NumThreads * Quota(TRUE)
           R == NumThreads * Quota(FALSE)
<1>1. L \in Nat /\ L <= RecordCount /\ R \in Nat /\ R <= OperationCount
  <2>1. Quota(TRUE) \in Nat /\ L <= RecordCount
    BY DriverAssumption, WorkloadAssumption DEF Quota
  <2>2. Quota(FALSE) \in Nat /\ R <= OperationCount
    BY DriverAssumption, WorkloadAssumption DEF Quota
  <2>3. L \in Nat
    BY <2>1, AllShares
  <2>4. R \in Nat
    BY <2>2, AllShares
  <2> HIDE DEF L, R
  <2> QED BY <2>1, <2>2, <2>3, <2>4
<1>2. LoadedCount \in Nat /\ LoadedCount <= RecordCount
  BY <1>1 DEF LoadedCount
<1>3. CASE phase = "load"
  <2>1. NumThreads * PhaseQuota = L
    BY <1>3 DEF PhaseQuota, Quota
  <2>2. KeyBase = InsertStart
    BY <1>3, WorkloadAssumption DEF KeyBase
  <2> HIDE DEF L
  <2> QED BY <1>1, <1>2, <2>1, <2>2, WorkloadAssumption, UintAssumption
<1>4. CASE phase # "load"
  <2>1. NumThreads * PhaseQuota = R
    BY <1>4 DEF PhaseQuota
  <2> HIDE DEF R
  <2>2. KeyBase \in Nat /\ InsertStart <= KeyBase /\ KeyBase <= InsertStart + RecordCount
    BY <1>2, WorkloadAssumption DEF KeyBase
  <2> QED BY <1>1, <1>2, <2>1, <2>2, WorkloadAssumption, UintAssumption
<1> QED BY <1>3, <1>4

-----------------------------------------------------------------------------
(* Sequence keys *)

(* Nobody holds a key when main starts.                                    *)
LEMMA KeyInit == Init => KeyInv
<1> SUFFICES ASSUME Init PROVE KeyInv
  OBVIOUS
<1>1. DriverInv
  BY TypeInit, ControlInit, WorkInit, LoadInit, RecorderInit DEF DriverInv
<1>2. Cardinality(Issued) \in Nat
  BY <1>1, IssuedBound DEF DriverInv
<1>3. key_generator = InsertStart /\ KeyBase = InsertStart
  BY WorkloadAssumption DEF Init, KeyBase
<1>4. \A w \in Workers : wpc[w] = "none"
  BY DEF Init
<1>5. key_generator \in KeyBase .. KeyBase + Cardinality(Issued)
  BY <1>2, <1>3, WorkloadAssumption
<1> QED BY <1>4, <1>5 DEF KeyInv, HoldsSequenceKey

(* Steps that neither take nor insert a sequence key.                      *)
LEMMA KeyUnchanged ==
  ASSUME DriverInv, DriverInv', KeyInv, UNCHANGED <<phase, pattern, key_generator>>,
         \A v \in Workers :
           /\ done'[v] >= done[v]
           /\ HoldsSequenceKey(v)' <=> HoldsSequenceKey(v)
           /\ HoldsSequenceKey(v) => key'[v] = key[v] /\ done'[v] = done[v]
           /\ wpc'[v] \in {"get", "miss", "put", "scan"} /\ op'[v] # "INSERT" =>
                ~ KeyRejected(key'[v])
  PROVE  KeyInv' /\ InsertedKeys' = InsertedKeys
<1>1. /\ Cardinality(Issued) \in Nat /\ Cardinality(Issued') \in Nat
      /\ Cardinality(Issued) <= Cardinality(Issued')
  BY IssuedGrows
<1>2. KeyBase' = KeyBase
  BY DEF KeyBase
<1>3. key_generator' \in KeyBase' .. KeyBase' + Cardinality(Issued')
  BY <1>1, <1>2, KeyBaseType DEF KeyInv
<1>4. KeyInv'
  BY <1>2, <1>3 DEF KeyInv
<1>5. InsertedKeys' = InsertedKeys
  BY DEF InsertedKeys
<1> QED BY <1>4, <1>5

(* fetch_add: the key is new, and the counter does not wrap.               *)
LEMMA KeyNextSequenceKey ==
  ASSUME DriverInv, DriverInv', KeyInv, NEW w \in Workers, NextSequenceKey(w), Worker(w),
         UNCHANGED pattern
  PROVE  KeyInv' /\ InsertedKeys' = InsertedKeys
<1> USE DEF DriverInv
<1>1. /\ phase' = phase
      /\ HoldsSequenceKey(w)' /\ ~ HoldsSequenceKey(w)
      /\ \A v \in Workers \ {w} : /\ HoldsSequenceKey(v)' <=> HoldsSequenceKey(v)
                                  /\ key'[v] = key[v]
  BY TurnIsIssued
<1>2. /\ Cardinality(Issued') = Cardinality(Issued) + 1
      /\ Cardinality(Issued) + 1 <= NumThreads * PhaseQuota
      /\ Cardinality(Issued) \in Nat
  BY TurnIsIssued, IssuedBound
<1>3. KeyBase' = KeyBase
  BY <1>1 DEF KeyBase
<1>4. key_generator \in Nat /\ key_generator + 1 <= UINT64_MAX
  BY <1>2, KeyBaseType, UintAssumption DEF KeyInv
<1>5. key_generator' = key_generator + 1 /\ key'[w] = key_generator
  BY <1>4, UintAssumption DEF NextSequenceKey, CounterNext, TypeOK, Uint64
<1>6. key_generator' \in KeyBase' .. KeyBase' + Cardinality(Issued')
  BY <1>2, <1>3, <1>4, <1>5, KeyBaseType DEF KeyInv
<1>7. \A v \in Workers : HoldsSequenceKey(v) => key[v] < key_generator /\ key[v] >= KeyBase
  BY <1>4, KeyBaseType DEF KeyInv
<1>8. \A v \in Workers :
        HoldsSequenceKey(v)' => key'[v] \in KeyBase' .. key_generator' - 1
  BY <1>1, <1>3, <1>4, <1>5, KeyBaseType DEF KeyInv
<1>9. \A u, v \in Workers :
        HoldsSequenceKey(u)' /\ HoldsSequenceKey(v)' /\ u # v => key'[u] # key'[v]
  <2>1. \A v \in Workers \ {w} : HoldsSequenceKey(v) => key[v] # key_generator
    BY <1>4, <1>7, KeyBaseType DEF KeyInv
  <2> QED BY <1>1, <1>5, <2>1 DEF KeyInv
<1>10. \A v \in Workers :
         wpc'[v] \in {"get", "miss", "put", "scan"} /\ op'[v] # "INSERT" =>
           ~ KeyRejected(key'[v])
  BY DrawnKey, OtherWorkers DEF KeyInv
<1>11. KeyInv'
  BY <1>6, <1>8, <1>9, <1>10 DEF KeyInv
<1>12. InsertedKeys' = InsertedKeys
  <2> DEFINE Held == { key[v] : v \in { u \in Workers : HoldsSequenceKey(u) } }
  <2>1. Held' = Held \cup {key_generator}
    BY <1>1, <1>5
  <2>2. InsertStart .. key_generator' - 1
          = (InsertStart .. key_generator - 1) \cup {key_generator}
    BY <1>4, <1>5, KeyBaseType, WorkloadAssumption DEF KeyInv
  <2>3. key_generator \notin InsertStart .. key_generator - 1
    BY <1>4
  <2> QED BY <2>1, <2>2, <2>3 DEF InsertedKeys
<1> QED BY <1>11, <1>12

(* The Put of an insertion: the key is inserted now, and was not before.   *)
LEMMA KeyInsert ==
  ASSUME DriverInv, DriverInv', KeyInv, UNCHANGED pattern,
         NEW w \in Workers, Worker(w), Put(w), op[w] = "INSERT"
  PROVE  /\ KeyInv'
         /\ InsertedKeys' = InsertedKeys \cup {key[w]}
         /\ key[w] \notin InsertedKeys /\ key[w] \in KeyBase .. key_generator - 1
<1> USE DEF DriverInv
<1>1. /\ phase' = phase /\ key_generator' = key_generator
      /\ HoldsSequenceKey(w) /\ ~ HoldsSequenceKey(w)'
      /\ done'[w] = done[w] + 1 /\ wpc'[w] = "loop"
  BY DEF Put, Complete, HoldsSequenceKey, TypeOK, mainVars
<1>2. ASSUME NEW v \in Workers, v # w
      PROVE  /\ wpc'[v] = wpc[v] /\ op'[v] = op[v] /\ key'[v] = key[v] /\ done'[v] = done[v]
             /\ HoldsSequenceKey(v)' <=> HoldsSequenceKey(v)
  BY <1>2, OtherWorkers DEF HoldsSequenceKey
<1>3. \A v \in Workers :
        /\ done'[v] >= done[v]
        /\ HoldsSequenceKey(v) =>
             done'[v] > done[v] \/ (done'[v] = done[v] /\ HoldsSequenceKey(v)')
  BY <1>1, <1>2 DEF TypeOK
<1>4. /\ Cardinality(Issued) \in Nat /\ Cardinality(Issued') \in Nat
      /\ Cardinality(Issued) <= Cardinality(Issued')
  BY <1>1, <1>3, IssuedGrows
<1>5. KeyBase' = KeyBase
  BY <1>1 DEF KeyBase
<1>6. key_generator' \in KeyBase' .. KeyBase' + Cardinality(Issued')
  BY <1>1, <1>4, <1>5, KeyBaseType DEF KeyInv
<1>7. KeyInv'
  BY <1>1, <1>2, <1>5, <1>6 DEF KeyInv
<1>8. key[w] \in KeyBase .. key_generator - 1
  BY <1>1 DEF KeyInv
<1>9. key[w] \in InsertStart .. key_generator - 1
  BY <1>8, KeyBaseType, WorkloadAssumption, UintAssumption DEF TypeOK, Uint64
<1>10. key[w] \notin InsertedKeys
  BY <1>1 DEF InsertedKeys
<1>11. InsertedKeys' = InsertedKeys \cup {key[w]}
  <2> DEFINE Held == { key[v] : v \in { u \in Workers : HoldsSequenceKey(u) } }
  <2>1. Held' = Held \ {key[w]}
    BY <1>1, <1>2 DEF KeyInv
  <2> QED BY <1>1, <1>9, <2>1 DEF InsertedKeys
<1> QED BY <1>7, <1>8, <1>10, <1>11

(* main neither takes nor inserts a key; the run phase begins where the    *)
(* load phase has left the counter.                                        *)
LEMMA KeyMain ==
  ASSUME DriverInv, DriverInv', KeyInv, Active, Main
  PROVE  KeyInv' /\ InsertedKeys' = InsertedKeys
<1> USE DEF DriverInv
<1>0. UNCHANGED <<pattern, key_generator, key, op>>
  BY DEF Active, cmd, Main, StartRecorder, LeaveRecorderScope, SpawnWorker, JoinWorker,
         FinishTasks, DeleteFlag, DoubleFreeAbort, StartTransactions, Return,
         workVars, dbVars
<1>1. CASE SpawnWorker
  <2>1. spawned \in Workers /\ wpc[spawned] = "none"
    BY <1>1, DriverAssumption DEF SpawnWorker, ControlInv, TypeOK, Workers
  <2>2. ASSUME NEW v \in Workers
        PROVE  /\ done'[v] = done[v] /\ done[v] >= done[v]
               /\ HoldsSequenceKey(v)' <=> HoldsSequenceKey(v)
               /\ wpc'[v] = wpc[v] \/ wpc'[v] = "loop"
    BY <1>1, <2>1 DEF SpawnWorker, HoldsSequenceKey, TypeOK
  <2>3. phase' = phase
    BY <1>1 DEF SpawnWorker
  <2>4. \A v \in Workers :
          wpc'[v] \in {"get", "miss", "put", "scan"} /\ op'[v] # "INSERT" =>
            ~ KeyRejected(key'[v])
    BY <1>0, <2>2 DEF KeyInv
  <2> QED BY <1>0, <2>2, <2>3, <2>4, KeyUnchanged
<1>2. CASE StartTransactions
  <2>1. /\ phase = "load" /\ phase' = "run" /\ pattern = "both" /\ Reporting
        /\ \A v \in Workers : wpc'[v] = "none"
    BY <1>2 DEF StartTransactions, Reporting
  <2>2. key_generator = InsertStart + LoadedCount
    BY <2>1, LoadedState
  <2>3. key_generator' = KeyBase' /\ KeyBase' \in Nat
    BY <1>0, <2>1, <2>2, KeyBaseType, WorkloadAssumption DEF KeyBase
  <2>4. Cardinality(Issued') \in Nat
    <3>1. TypeOK' /\ WorkInv'
      OBVIOUS
    <3>2. (TypeOK /\ WorkInv => Cardinality(Issued) \in Nat)'
      BY IssuedBound, PTL
    <3> QED BY <3>1, <3>2
  <2>5. KeyInv'
    BY <2>1, <2>3, <2>4 DEF KeyInv, HoldsSequenceKey
  <2>6. \A v \in Workers : wpc[v] = "returned"
    BY <2>1, DriverAssumption DEF ControlInv, Workers
  <2>7. \A v \in Workers : ~ HoldsSequenceKey(v) /\ ~ HoldsSequenceKey(v)'
    BY <2>1, <2>6 DEF HoldsSequenceKey
  <2> QED BY <1>0, <2>5, <2>7 DEF InsertedKeys
<1>3. CASE phase' = phase /\ UNCHANGED <<workVars, dbVars>>
  <2>1. ASSUME NEW v \in Workers
        PROVE  /\ done'[v] = done[v] /\ done[v] >= done[v] /\ wpc'[v] = wpc[v]
               /\ HoldsSequenceKey(v)' <=> HoldsSequenceKey(v)
    BY <1>3 DEF workVars, HoldsSequenceKey, TypeOK
  <2>2. \A v \in Workers :
          wpc'[v] \in {"get", "miss", "put", "scan"} /\ op'[v] # "INSERT" =>
            ~ KeyRejected(key'[v])
    BY <1>0, <2>1 DEF KeyInv
  <2> QED BY <1>0, <1>3, <2>1, <2>2, KeyUnchanged
<1> QED BY <1>1, <1>2, <1>3
        DEF Main, StartRecorder, LeaveRecorderScope, JoinWorker, FinishTasks,
            DeleteFlag, DoubleFreeAbort, Return, mainVars

(* A step of a worker that is no insertion leaves the inserted keys alone. *)
LEMMA KeyOther ==
  ASSUME DriverInv, DriverInv', KeyInv, Active, NEW w \in Workers, Worker(w),
         ~ NextSequenceKey(w), ~ (Put(w) /\ op[w] = "INSERT")
  PROVE  KeyInv' /\ InsertedKeys' = InsertedKeys
<1> USE DEF DriverInv
<1>1. UNCHANGED <<phase, pattern, key_generator>>
  BY WorkerFrame, OtherSteps DEF mainVars, Active, cmd
<1>2. ASSUME NEW v \in Workers
      PROVE  /\ done'[v] >= done[v]
             /\ HoldsSequenceKey(v)' <=> HoldsSequenceKey(v)
             /\ HoldsSequenceKey(v) => key'[v] = key[v] /\ done'[v] = done[v]
             /\ wpc'[v] \in {"get", "miss", "put", "scan"} /\ op'[v] # "INSERT" =>
                  ~ KeyRejected(key'[v])
  <2>1. CASE v = w
    BY <2>1, OtherSteps, DrawnKey
  <2>2. CASE v # w
    <3>1. /\ wpc'[v] = wpc[v] /\ op'[v] = op[v] /\ key'[v] = key[v]
          /\ done'[v] = done[v] /\ done[v] >= done[v]
      BY <2>2, OtherWorkers DEF TypeOK
    <3> QED BY <3>1 DEF HoldsSequenceKey, KeyInv
  <2> QED BY <2>1, <2>2
<1> QED BY <1>1, <1>2, KeyUnchanged

-----------------------------------------------------------------------------
(* Records and reads that miss *)

(* main starts with what an earlier run has left.                          *)
LEMMA DataInit == Init => DataInv
<1> SUFFICES ASSUME Init PROVE DataInv
  OBVIOUS
<1>1. /\ ~ (phase = "run" /\ pattern = "both")
      /\ store = Preloaded /\ misses = 0 /\ \A w \in Workers : wpc[w] = "none"
  BY DEF Init
<1> QED BY <1>1 DEF DataInv

(* With an even load, a transaction after the load draws a loaded key.     *)
LEMMA DrawnKeyIsLoaded ==
  ASSUME DriverInv, KeyInv, EvenLoad, pattern # "run", NEW w \in Workers,
         wpc[w] \in {"get", "miss", "put", "scan"}, op[w] # "INSERT"
  PROVE  /\ phase = "run" /\ pattern = "both"
         /\ key[w] \in LoadedKeys /\ key[w] \in InsertedKeys
<1> USE DEF DriverInv
<1>1. phase = "run" /\ pattern = "both"
  BY DEF WorkInv, ControlInv, TypeOK
<1>2. RecordCount \in Nat /\ RecordCount > 0 /\ LoadedCount = RecordCount /\ InsertStart = 0
  BY WorkloadAssumption DEF EvenLoad
<1>3. key[w] \in Nat /\ key[w] <= RecordCount - 1
  BY <1>2, UintAssumption DEF KeyInv, KeyRejected, InsertKeySequence, CounterLast,
                              TypeOK, Uint64
<1>4. key[w] \in LoadedKeys
  BY <1>2, <1>3 DEF LoadedKeys
<1>5. KeyBase = RecordCount
  BY <1>1, <1>2 DEF KeyBase
<1>6. key[w] \in InsertStart .. key_generator - 1
  BY <1>2, <1>3, <1>5, UintAssumption DEF KeyInv, TypeOK, Uint64
<1>7. ASSUME NEW v \in Workers, HoldsSequenceKey(v) PROVE key[v] # key[w]
  <2>1. key[v] >= KeyBase /\ key[v] \in Nat
    BY <1>5, <1>7, <1>2, UintAssumption DEF KeyInv, TypeOK, Uint64
  <2> QED BY <1>2, <1>3, <1>5, <2>1
<1> QED BY <1>1, <1>4, <1>6, <1>7 DEF InsertedKeys

(* main writes no record; what it loaded is there when the run begins.     *)
LEMMA DataMain ==
  ASSUME DriverInv, DriverInv', KeyInv, DataInv, Active, Main
  PROVE  DataInv'
<1>1. InsertedKeys' = InsertedKeys
  BY KeyMain
<1>2. UNCHANGED <<pattern, store, misses>>
  BY DEF Active, cmd, Main, StartRecorder, LeaveRecorderScope, SpawnWorker, JoinWorker,
         FinishTasks, DeleteFlag, DoubleFreeAbort, StartTransactions, Return, dbVars
<1>3. phase' = "run" /\ pattern = "both" => LoadedNames \subseteq store
  <2>1. CASE StartTransactions
    BY <2>1, LoadedState DEF StartTransactions, Reporting
  <2>2. CASE phase' = phase
    BY <2>2 DEF DataInv
  <2> QED BY <2>1, <2>2 DEF Main, StartRecorder, LeaveRecorderScope, SpawnWorker,
             JoinWorker, FinishTasks, DeleteFlag, DoubleFreeAbort, Return, mainVars
<1>4. \A w \in Workers : wpc'[w] = wpc[w] \/ wpc'[w] \in {"loop", "none"}
  BY DEF Main, StartRecorder, LeaveRecorderScope, SpawnWorker, JoinWorker,
         FinishTasks, DeleteFlag, DoubleFreeAbort, StartTransactions, Return,
         workVars, DriverInv, TypeOK
<1> QED BY <1>1, <1>2, <1>3, <1>4 DEF DataInv

(* A worker writes the keys it inserts or, in a transaction, loaded ones,  *)
(* and finds what was loaded.                                              *)
LEMMA DataWorker ==
  ASSUME DriverInv, DriverInv', KeyInv, DataInv, Active, NEW w \in Workers, Worker(w)
  PROVE  DataInv'
<1> USE DEF DriverInv
<1>1. UNCHANGED <<phase, pattern>>
  BY WorkerFrame DEF mainVars, Active, cmd
<1>2. store \subseteq store'
  BY DEF Worker, Progress, BeginOp, ReturnOks, NextSequenceKey, AcceptKey, ReadHit,
         ReadMiss, CountMiss, Put, Scan, RejectKey, DbError, dbVars
<1>3. EvenLoad /\ pattern # "run" =>
        store' \subseteq Preloaded \cup { BuildKeyName(k) : k \in InsertedKeys' }
  <2> SUFFICES ASSUME EvenLoad, pattern # "run"
               PROVE  store' \subseteq Preloaded \cup
                                       { BuildKeyName(k) : k \in InsertedKeys' }
    OBVIOUS
  <2>1. store \subseteq Preloaded \cup { BuildKeyName(k) : k \in InsertedKeys }
    BY DEF DataInv
  <2>2. CASE NextSequenceKey(w)
    <3>1. store' = store /\ InsertedKeys' = InsertedKeys
      BY <1>1, <2>2, KeyNextSequenceKey DEF NextSequenceKey
    <3> QED BY <2>1, <3>1
  <2>3. CASE Put(w) /\ op[w] = "INSERT"
    <3>1. store' = store \cup {BuildKeyName(key[w])}
      BY <2>3 DEF Put
    <3>2. InsertedKeys' = InsertedKeys \cup {key[w]}
      BY <1>1, <2>3, KeyInsert
    <3> QED BY <2>1, <3>1, <3>2
  <2>4. CASE Put(w) /\ op[w] # "INSERT"
    <3>1. store' = store \cup {BuildKeyName(key[w])} /\ wpc[w] = "put"
      BY <2>4 DEF Put
    <3>2. InsertedKeys' = InsertedKeys
      <4>1. ~ NextSequenceKey(w)
        BY <3>1 DEF NextSequenceKey
      <4> QED BY <2>4, <4>1, KeyOther
    <3>3. key[w] \in InsertedKeys
      BY <2>4, <3>1, DrawnKeyIsLoaded
    <3> QED BY <2>1, <3>1, <3>2, <3>3
  <2>5. CASE ~ NextSequenceKey(w) /\ ~ Put(w)
    <3>1. store' = store
      BY <2>5 DEF Worker, Progress, BeginOp, ReturnOks, AcceptKey, ReadHit, ReadMiss,
                  CountMiss, Scan, RejectKey, DbError, dbVars
    <3>2. InsertedKeys' = InsertedKeys
      BY <2>5, KeyOther
    <3> QED BY <2>1, <3>1, <3>2
  <2> QED BY <2>2, <2>3, <2>4, <2>5
<1>4. ASSUME EvenLoad, pattern = "both"
      PROVE  misses' = 0 /\ \A v \in Workers : wpc'[v] # "miss"
  <2>1. misses = 0 /\ \A v \in Workers : wpc[v] # "miss"
    BY <1>4 DEF DataInv
  <2>2. ~ CountMiss(w)
    BY <2>1 DEF CountMiss
  <2>3. ~ ReadMiss(w)
    <3>1. SUFFICES ASSUME wpc[w] = "get" PROVE BuildKeyName(key[w]) \in store
      BY DEF ReadMiss
    <3>2. op[w] # "INSERT"
      BY <3>1 DEF WorkInv
    <3>3. key[w] \in LoadedKeys /\ phase = "run"
      BY <1>4, <3>1, <3>2, DrawnKeyIsLoaded
    <3> QED BY <1>4, <3>3 DEF DataInv, LoadedNames
  <2>4. misses' = misses /\ wpc'[w] # "miss"
    BY <2>1, <2>2, <2>3, FirstCallType
       DEF Worker, Progress, BeginOp, ReturnOks, NextSequenceKey, AcceptKey, ReadHit,
           Put, Scan, RejectKey, DbError, AfterRead, Complete, Goto, dbVars, workVars,
           TypeOK
  <2> QED BY <2>1, <2>4, OtherWorkers
<1> QED BY <1>1, <1>2, <1>3, <1>4 DEF DataInv

(* noResult++ adds one to a count of misses that all lie in the past.      *)
LEMMA MissWorker ==
  ASSUME TypeOK, MissInv, NEW w \in Workers, Worker(w)
  PROVE  MissInv'
<1>1. /\ noResult \in Nat /\ misses \in Nat /\ seen[w] \in Nat
      /\ seen \in [Workers -> Nat]
  BY DEF TypeOK
<1>2. CASE CountMiss(w)
  <2>1. noResult' = seen[w] + 1 /\ misses' = misses + 1
    BY <1>2 DEF CountMiss
  <2>2. seen'[w] = 0
    BY <1>1, <1>2 DEF CountMiss, AfterRead, Complete
  <2>3. \A v \in Workers \ {w} : seen'[v] = seen[v] /\ seen[v] \in Nat
    BY <1>1, OtherWorkers
  <2> QED BY <1>1, <2>1, <2>2, <2>3 DEF MissInv
<1>3. CASE ~ CountMiss(w)
  <2>1. UNCHANGED <<noResult, misses>>
    BY <1>3 DEF Worker, Progress, BeginOp, ReturnOks, NextSequenceKey, AcceptKey, ReadHit,
                ReadMiss, Put, Scan, RejectKey, DbError, dbVars
  <2>2. seen'[w] \in {seen[w], 0, noResult}
    BY <1>1, <1>3
       DEF Worker, Progress, BeginOp, ReturnOks, NextSequenceKey, AcceptKey, ReadHit,
           ReadMiss, Put, Scan, RejectKey, DbError, AfterRead, Complete, workVars
  <2>3. \A v \in Workers \ {w} : seen'[v] = seen[v]
    BY OtherWorkers
  <2> QED BY <1>1, <2>1, <2>2, <2>3 DEF MissInv
<1> QED BY <1>2, <1>3

-----------------------------------------------------------------------------
(* The theorems *)

(* Every step of the program preserves the inductive invariant.            *)
LEMMA IInvStep ==
  ASSUME IInv, [Next]_vars
  PROVE  IInv'
<1> USE DEF IInv
<1>0. DriverInv'
  BY DriverInvStep
<1>1. CASE Active /\ Main
  <2>1. UNCHANGED <<noResult, misses, seen>>
    BY <1>1 DEF Main, StartRecorder, LeaveRecorderScope, SpawnWorker, JoinWorker,
                FinishTasks, DeleteFlag, DoubleFreeAbort, StartTransactions, Return,
                workVars, dbVars
  <2>2. MissInv'
    BY <2>1 DEF MissInv
  <2> QED BY <1>0, <1>1, <2>2, KeyMain, DataMain
<1>2. ASSUME NEW w \in Workers, Active, Worker(w) PROVE IInv'
  <2>1. pattern' = pattern
    BY <1>2 DEF Active, cmd
  <2>2. KeyInv'
    BY <1>0, <1>2, <2>1, KeyNextSequenceKey, KeyInsert, KeyOther
  <2>3. DataInv' /\ MissInv'
    BY <1>0, <1>2, DataWorker, MissWorker DEF DriverInv
  <2> QED BY <1>0, <2>2, <2>3
<1>3. CASE UNCHANGED <<cmd, mainVars, workVars, dbVars>>
  <2> USE DEF cmd, mainVars, workVars, dbVars
  <2>1. ASSUME NEW v \in Workers
        PROVE  HoldsSequenceKey(v)' <=> HoldsSequenceKey(v)
    BY <1>3 DEF HoldsSequenceKey
  <2>2. \A v \in Workers : done[v] >= done[v]
    BY DEF DriverInv, TypeOK
  <2>3. KeyInv' /\ InsertedKeys' = InsertedKeys
    BY <1>0, <1>3, <2>1, <2>2, KeyUnchanged DEF KeyInv
  <2>4. DataInv' /\ MissInv'
    BY <1>3, <2>3 DEF DataInv, MissInv
  <2> QED BY <1>0, <2>3, <2>4
<1>4. Active /\ Recorder => UNCHANGED <<cmd, mainVars, workVars, dbVars>>
  BY DEF Active, Recorder, TestFlag, SleepAndPrint
<1> QED BY <1>1, <1>2, <1>3, <1>4 DEF Next, Terminating, vars

(***************************************************************************)
(* The program keeps the inductive invariant in all its executions: types, *)
(* the order in which futures are made and joined, the turns each worker   *)
(* has taken, where each sequence key is, which records are there, what    *)
(* noResult counts, and the life of the isFinish flag.                     *)
(***************************************************************************)
THEOREM InductiveInvariant == Spec => []IInv
<1>1. Init => IInv
  <2>1. Init => DriverInv
    BY TypeInit, ControlInit, WorkInit, LoadInit, RecorderInit DEF DriverInv
  <2>2. Init => MissInv
    BY DEF Init, MissInv
  <2> QED BY <2>1, <2>2, KeyInit, DataInit DEF IInv
<1>2. IInv /\ [Next]_vars => IInv'
  BY IInvStep
<1> QED BY <1>1, <1>2, PTL DEF Spec

(***************************************************************************)
(* NextSequenceKey gives no key to two workers, in the load phase or in    *)
(* transactions, and with an even load an Insert creates its record: no    *)
(* worker has written that name since the process started.                 *)
(***************************************************************************)
THEOREM InsertsCreateRecords == Spec => []InsertsAreNew
<1>1. IInv => InsertsAreNew
  <2> SUFFICES ASSUME IInv PROVE InsertsAreNew
    OBVIOUS
  <2>1. \A v, w \in Workers :
          HoldsSequenceKey(v) /\ HoldsSequenceKey(w) /\ v # w => key[v] # key[w]
    BY DEF IInv, KeyInv
  <2>2. ASSUME EvenLoad, NamesDistinct, pattern # "run",
               NEW w \in Workers, HoldsSequenceKey(w)
        PROVE  BuildKeyName(key[w]) \notin store \ Preloaded
    <3>1. SUFFICES ASSUME BuildKeyName(key[w]) \in store \ Preloaded PROVE FALSE
      OBVIOUS
    <3>2. PICK k \in InsertedKeys : BuildKeyName(k) = BuildKeyName(key[w])
      BY <2>2, <3>1 DEF IInv, DataInv
    <3>3. k \in Uint64 /\ key[w] \in Uint64 /\ k # key[w]
      BY <2>2, WorkloadAssumption, UintAssumption
         DEF InsertedKeys, IInv, DriverInv, TypeOK, Uint64
    <3> QED BY <2>2, <3>2, <3>3 DEF NamesDistinct
  <2> QED BY <2>1, <2>2 DEF InsertsAreNew
<1> QED BY <1>1, InductiveInvariant, PTL

(***************************************************************************)
(* Load and run in one process, with an even load: no Read of a            *)
(* transaction misses, whatever the mix, the distribution and the          *)
(* interleaving.                                                           *)
(***************************************************************************)
THEOREM NoReadMisses == Spec => []LoadedKeysAreFound
<1>1. IInv => LoadedKeysAreFound
  BY DEF IInv, DataInv, LoadedKeysAreFound
<1> QED BY <1>1, InductiveInvariant, PTL

(***************************************************************************)
(* The unsynchronised noResult++ of RocksDB::Read never counts a miss that *)
(* did not happen, and is not left at 0 once there was one, for any number *)
(* of threads.                                                             *)
(***************************************************************************)
THEOREM MissCountIsBounded == Spec => []MissCountBounds
<1>1. IInv => MissCountBounds
  BY DEF IInv, MissInv, MissCountBounds
<1> QED BY <1>1, InductiveInvariant, PTL

-----------------------------------------------------------------------------
(* The driver implements the benchmark of module Benchmark: its initial    *)
(* states map to initial states, and every step of every thread to a step  *)
(* of the benchmark or to none.                                            *)

(* Which part of the benchmark main is in.                                 *)
LEMMA StepOfValues ==
  ASSUME NEW l
  PROVE  /\ l \in {"async", "scope_end"} => StepOf(l) = "start"
         /\ l \in {"spawn", "join"} => StepOf(l) = "work"
         /\ l \in {"finish", "delete", "report"} => StepOf(l) = "report"
         /\ l = "done" => StepOf(l) = "over"
BY DEF StepOf

(* main starts where the benchmark does.                                   *)
LEMMA InitRefines == Init => Bench!Init
<1> SUFFICES ASSUME Init PROVE Bench!Init
  OBVIOUS
<1>1. InsertedKeys = {}
  BY WorkloadAssumption DEF Init, InsertedKeys
<1>2. phase \in {"load", "run"} /\ StepOf(mpc) = "start"
  BY StepOfValues DEF Init
<1> QED BY <1>1, <1>2 DEF Init, Bench!Init, Bench!Clients, Workers

(* A step in which no operation is completed and no phase begins or ends.  *)
LEMMA StutterRefines ==
  ASSUME UNCHANGED <<phase, mpc, sum, proc, done, store>>, InsertedKeys' = InsertedKeys
  PROVE  UNCHANGED Bench!vars
BY DEF Bench!vars

-----------------------------------------------------------------------------
(* Steps of main *)

(* Starting, joining, reporting and the end of a phase are those of the    *)
(* benchmark; what main does in between is none of its steps.              *)
LEMMA MainRefines ==
  ASSUME IInv, IInv', Active, Main
  PROVE  [Bench!Next]_(Bench!vars)
<1> USE DEF IInv, DriverInv
<1>0. InsertedKeys' = InsertedKeys
  BY KeyMain
<1>1. proc = "running" /\ store' = store
  BY DEF Active, Stopped, Main, StartRecorder, LeaveRecorderScope, SpawnWorker,
         JoinWorker, FinishTasks, DeleteFlag, DoubleFreeAbort, StartTransactions,
         Return, dbVars
<1>2. CASE StartRecorder
  <2>1. /\ mpc = "async" /\ mpc' = "scope_end"
        /\ UNCHANGED <<phase, sum, proc, done>>
    BY <1>2 DEF StartRecorder, workVars
  <2>2. StepOf(mpc) = "start" /\ StepOf(mpc') = "start"
    BY <2>1, StepOfValues
  <2> QED BY <1>0, <1>1, <2>1, <2>2 DEF Bench!vars
<1>3. CASE LeaveRecorderScope
  <2>1. /\ mpc = "scope_end" /\ mpc' \in {"spawn", "done"}
        /\ UNCHANGED <<phase, sum, proc, done>>
    BY <1>3 DEF LeaveRecorderScope, workVars
  <2>2. sum = 0
    <3>1. PhaseQuota \in Nat
      BY QuotaType DEF PhaseQuota
    <3> HIDE DEF PhaseQuota
    <3> QED BY <2>1, <3>1 DEF ControlInv, WorkInv
  <2>3. StepOf(mpc) = "start" /\ StepOf(mpc') \in {"work", "over"}
    BY <2>1, StepOfValues
  <2>4. Bench!Begin
    BY <1>0, <1>1, <2>1, <2>2, <2>3 DEF Bench!Begin
  <2> QED BY <1>1, <2>1, <2>4 DEF Bench!Next
<1>4. CASE SpawnWorker
  <2>1. /\ mpc = "spawn" /\ mpc' \in {"spawn", "join"}
        /\ UNCHANGED <<phase, sum, proc, done>>
    BY <1>4 DEF SpawnWorker
  <2>2. StepOf(mpc) = "work" /\ StepOf(mpc') = "work"
    BY <2>1, StepOfValues
  <2> QED BY <1>0, <1>1, <2>1, <2>2 DEF Bench!vars
<1>5. CASE JoinWorker
  <2>1. /\ mpc = "join" /\ mpc' \in {"join", "finish"}
        /\ UNCHANGED <<phase, proc, done>>
    BY <1>5 DEF JoinWorker, workVars
  <2>2. CASE mpc' = "join"
    <3>1. StepOf(mpc) = "work" /\ StepOf(mpc') = "work"
      BY <2>1, <2>2, StepOfValues
    <3> QED BY <1>0, <1>1, <2>1, <2>2, <3>1 DEF Bench!vars
  <2>3. CASE mpc' = "finish"
    <3>1. StepOf(mpc) = "work" /\ StepOf(mpc') = "report"
      BY <2>1, <2>3, StepOfValues
    <3>2. PhaseQuota = Bench!Share /\ PhaseQuota' = PhaseQuota
      BY <2>1 DEF PhaseQuota, Bench!Share, Quota, TypeOK
    <3>3. joined' = NumThreads
      BY <2>3 DEF ControlInv, Reporting
    <3>4. sum' = NumThreads * PhaseQuota
      BY <3>2, <3>3 DEF WorkInv
    <3>5. ASSUME NEW w \in Workers PROVE done[w] = PhaseQuota
      <4>1. wpc'[w] = "returned"
        BY <3>3, DriverAssumption DEF ControlInv, Workers
      <4> QED BY <2>1, <3>2, <4>1 DEF WorkInv
    <3>6. Bench!Report
      BY <1>0, <1>1, <2>1, <2>3, <3>1, <3>2, <3>4, <3>5
         DEF Bench!Report, Bench!Clients, Workers
    <3> QED BY <1>1, <2>1, <3>6 DEF Bench!Next
  <2> QED BY <2>1, <2>2, <2>3
<1>6. CASE FinishTasks \/ DeleteFlag
  <2>1. /\ mpc \in {"finish", "delete"} /\ mpc' \in {"delete", "report"}
        /\ UNCHANGED <<phase, sum, proc, done>>
    BY <1>6 DEF FinishTasks, DeleteFlag, workVars
  <2>2. StepOf(mpc) = "report" /\ StepOf(mpc') = "report"
    BY <2>1, StepOfValues
  <2> QED BY <1>0, <1>1, <2>1, <2>2 DEF Bench!vars
<1>7. CASE DoubleFreeAbort
  <2>1. proc' = "aborted" /\ UNCHANGED <<phase, mpc, sum, done>>
    BY <1>7 DEF DoubleFreeAbort, mainVars, workVars
  <2>2. Bench!Die
    BY <1>0, <1>1, <2>1 DEF Bench!Die
  <2> QED BY <1>1, <2>2 DEF Bench!Next
<1>8. CASE StartTransactions
  <2>1. /\ mpc = "report" /\ mpc' = "spawn" /\ phase = "load" /\ phase' = "run"
        /\ done' = [w \in Workers |-> 0] /\ proc' = proc
    BY <1>8 DEF StartTransactions
  <2>2. StepOf(mpc) = "report" /\ StepOf(mpc') = "work"
    BY <2>1, StepOfValues
  <2>3. Bench!StartRun
    BY <1>0, <1>1, <2>1, <2>2 DEF Bench!StartRun, Bench!Clients, Workers
  <2> QED BY <1>1, <2>1, <2>3 DEF Bench!Next
<1>9. CASE Return
  <2>1. /\ mpc = "report" /\ mpc' = "done"
        /\ UNCHANGED <<phase, sum, proc, done>>
    BY <1>9 DEF Return, workVars
  <2>2. StepOf(mpc) = "report" /\ StepOf(mpc') = "over"
    BY <2>1, StepOfValues
  <2>3. Bench!End
    BY <1>0, <1>1, <2>1, <2>2 DEF Bench!End
  <2> QED BY <1>1, <2>1, <2>3 DEF Bench!Next
<1> QED BY <1>2, <1>3, <1>4, <1>5, <1>6, <1>7, <1>8, <1>9 DEF Main

-----------------------------------------------------------------------------
(* Steps of the workers *)

(* A turn of the loop of DelegateClient that ends is an operation of its   *)
(* client.                                                                 *)
LEMMA TurnIsPerform ==
  ASSUME IInv, Active, NEW w \in Workers, Worker(w),
         done' = [done EXCEPT ![w] = @ + 1],
         wpc[w] \notin {"none", "loop", "returned"}
  PROVE  /\ Bench!Perform(w)
         /\ phase' = phase /\ proc = "running" /\ w \in Bench!Clients
<1> USE DEF IInv, DriverInv
<1>1. UNCHANGED <<phase, mpc, sum>> /\ proc = "running"
  BY WorkerFrame DEF mainVars, Active, Stopped, TypeOK
<1>2. mpc \in {"spawn", "join"}
  <2>1. w < spawned /\ ~ (w < joined)
    BY DriverAssumption DEF ControlInv, Workers, TypeOK
  <2> QED BY <2>1, DriverAssumption
          DEF ControlInv, Reporting, TypeOK, MainLabel, Workers
<1>3. StepOf(mpc) = "work"
  BY <1>2, StepOfValues
<1>4. done[w] < Bench!Share
  <2>1. PhaseQuota = Bench!Share
    BY DEF PhaseQuota, Bench!Share, Quota, TypeOK
  <2> QED BY <2>1 DEF WorkInv
<1> QED BY <1>1, <1>3, <1>4 DEF Bench!Perform, Bench!Clients, Workers

(* The Put of an Insert inserts a key number that was not inserted before, *)
(* and in the load phase one of the keys to be loaded.                     *)
LEMMA InsertRefines ==
  ASSUME IInv, IInv', Active, NEW w \in Workers, Worker(w), Put(w), op[w] = "INSERT"
  PROVE  Bench!Next
<1> USE DEF IInv, DriverInv
<1>1. /\ store' = store \cup {BuildKeyName(key[w])}
      /\ done' = [done EXCEPT ![w] = @ + 1]
      /\ wpc[w] = "put" /\ proc' = proc
  BY DEF Put, Complete
<1>2. Bench!Perform(w) /\ proc = "running" /\ w \in Bench!Clients
  BY <1>1, TurnIsPerform
<1>3. /\ InsertedKeys' = InsertedKeys \cup {key[w]}
      /\ key[w] \notin InsertedKeys
      /\ key[w] \in KeyBase .. key_generator - 1
  BY KeyInsert DEF Active, cmd
<1>4. key[w] \in IF phase = "load" THEN LoadedKeys ELSE Uint64
  <2>1. CASE phase = "load"
    <3>1. Cardinality(Issued) <= NumThreads * PhaseQuota /\ Cardinality(Issued) \in Nat
      BY IssuedBound, AllTurnsCount, FS_Subset
    <3>2. NumThreads * PhaseQuota = LoadedCount
      BY <2>1 DEF PhaseQuota, LoadedCount, Quota
    <3>3. key_generator = InsertStart + Cardinality(Issued) /\ KeyBase = InsertStart
      BY <2>1, WorkloadAssumption DEF LoadInv, KeyBase
    <3>4. key[w] \in LoadedKeys
      BY <1>3, <3>1, <3>2, <3>3, KeyBaseType, WorkloadAssumption DEF LoadedKeys
    <3> QED BY <2>1, <3>4
  <2>2. CASE phase # "load"
    BY <2>2 DEF TypeOK
  <2> QED BY <2>1, <2>2
<1>5. Bench!Insert(w)
  BY <1>1, <1>2, <1>3, <1>4 DEF Bench!Insert
<1> QED BY <1>1, <1>2, <1>5 DEF Bench!Next

(* The Put of an Update, alone or after a Read, is an update of some key.  *)
LEMMA UpdateRefines ==
  ASSUME IInv, IInv', Active, NEW w \in Workers, Worker(w), Put(w), op[w] # "INSERT"
  PROVE  Bench!Next
<1> USE DEF IInv, DriverInv
<1>1. /\ store' = store \cup {BuildKeyName(key[w])}
      /\ done' = [done EXCEPT ![w] = @ + 1]
      /\ wpc[w] = "put" /\ proc' = proc
  BY DEF Put, Complete
<1>2. Bench!Perform(w) /\ proc = "running" /\ w \in Bench!Clients
  BY <1>1, TurnIsPerform
<1>3. InsertedKeys' = InsertedKeys
  <2>1. ~ NextSequenceKey(w)
    BY <1>1 DEF NextSequenceKey
  <2> QED BY <2>1, KeyOther
<1>4. phase = "run" /\ key[w] \in Uint64
  BY DEF WorkInv, TypeOK
<1>5. Bench!Update(w)
  BY <1>1, <1>2, <1>3, <1>4 DEF Bench!Update
<1> QED BY <1>1, <1>2, <1>5 DEF Bench!Next

(* A Read or a Scan that ends the turn looks at the records, a Read that   *)
(* an Update follows does not count yet.                                   *)
LEMMA LookRefines ==
  ASSUME IInv, IInv', Active, NEW w \in Workers, Worker(w),
         ReadHit(w) \/ CountMiss(w) \/ Scan(w)
  PROVE  [Bench!Next]_(Bench!vars)
<1> USE DEF IInv, DriverInv
<1>1. /\ store' = store /\ proc' = proc
      /\ wpc[w] \in {"get", "miss", "scan"}
  BY DEF ReadHit, CountMiss, Scan, dbVars
<1>2. InsertedKeys' = InsertedKeys
  <2>1. ~ NextSequenceKey(w) /\ ~ Put(w)
    BY <1>1 DEF NextSequenceKey, Put
  <2> QED BY <2>1, KeyOther
<1>3. CASE done' = done
  <2>1. UNCHANGED <<phase, mpc, sum>>
    BY WorkerFrame DEF mainVars
  <2> QED BY <1>1, <1>2, <1>3, <2>1, StutterRefines
<1>4. CASE done' = [done EXCEPT ![w] = @ + 1]
  <2>1. Bench!Perform(w) /\ proc = "running" /\ w \in Bench!Clients
    BY <1>1, <1>4, TurnIsPerform
  <2>2. phase = "run"
    BY <1>1 DEF WorkInv, TypeOK
  <2>3. Bench!Look(w)
    BY <1>1, <1>2, <2>1, <2>2 DEF Bench!Look
  <2> QED BY <1>1, <2>1, <2>3 DEF Bench!Next
<1> QED BY <1>3, <1>4 DEF ReadHit, CountMiss, Scan, AfterRead, Complete

(* The other steps of a worker complete no operation.                      *)
LEMMA WorkerRefines ==
  ASSUME IInv, IInv', Active, NEW w \in Workers, Worker(w)
  PROVE  [Bench!Next]_(Bench!vars)
<1> USE DEF IInv, DriverInv
<1>1. UNCHANGED <<phase, mpc, sum>>
  BY WorkerFrame DEF mainVars
<1>2. CASE Put(w)
  BY <1>2, InsertRefines, UpdateRefines
<1>3. CASE ReadHit(w) \/ CountMiss(w) \/ Scan(w)
  BY <1>3, LookRefines
<1>4. CASE NextSequenceKey(w)
  <2>1. InsertedKeys' = InsertedKeys
    BY <1>4, KeyNextSequenceKey DEF Active, cmd
  <2>2. UNCHANGED <<proc, done, store>>
    BY <1>4 DEF NextSequenceKey
  <2> QED BY <1>1, <2>1, <2>2, StutterRefines
<1>5. CASE BeginOp(w) \/ ReturnOks(w) \/ AcceptKey(w) \/ RejectKey(w) \/ ReadMiss(w)
  <2>1. UNCHANGED <<proc, done, store>> /\ wpc[w] \in {"loop", "draw", "get"}
    BY <1>5 DEF BeginOp, ReturnOks, AcceptKey, RejectKey, ReadMiss, dbVars
  <2>2. ~ NextSequenceKey(w) /\ ~ Put(w)
    BY <2>1 DEF NextSequenceKey, Put
  <2>3. InsertedKeys' = InsertedKeys
    BY <2>2, KeyOther
  <2> QED BY <1>1, <2>1, <2>3, StutterRefines
<1>6. CASE DbError(w)
  <2>1. proc' = "exited" /\ proc = "running" /\ UNCHANGED <<workVars, dbVars>>
    BY <1>6 DEF DbError, Active, Stopped
  <2>2. InsertedKeys' = InsertedKeys
    BY <2>1 DEF InsertedKeys, HoldsSequenceKey, workVars, dbVars
  <2>3. Bench!Die
    BY <1>1, <2>1, <2>2 DEF Bench!Die, workVars, dbVars
  <2> QED BY <2>1, <2>3 DEF Bench!Next
<1> QED BY <1>2, <1>3, <1>4, <1>5, <1>6 DEF Worker, Progress

-----------------------------------------------------------------------------
(* The theorem *)

(***************************************************************************)
(* main, DelegateClient and Client implement the benchmark, for any number *)
(* of threads, records and operations: every operation, however many steps *)
(* of however many threads it takes and in whatever order they come, has   *)
(* the effect of one step; no key number is inserted twice; and a phase is *)
(* reported, with the number of its operations, when every client has done *)
(* its share and not before.                                               *)
(***************************************************************************)
THEOREM DriverImplementsBenchmark == Spec => ImplementsBenchmark
<1>1. Init => Bench!Init
  BY InitRefines
<1>2. IInv /\ IInv' /\ [Next]_vars => [Bench!Next]_(Bench!vars)
  <2> SUFFICES ASSUME IInv, IInv', [Next]_vars PROVE [Bench!Next]_(Bench!vars)
    OBVIOUS
  <2>1. CASE Active /\ Main
    BY <2>1, MainRefines
  <2>2. ASSUME NEW w \in Workers, Active, Worker(w) PROVE [Bench!Next]_(Bench!vars)
    BY <2>2, WorkerRefines
  <2>3. CASE UNCHANGED <<cmd, mainVars, workVars, dbVars, proc>>
    <3>1. InsertedKeys' = InsertedKeys
      BY <2>3 DEF InsertedKeys, HoldsSequenceKey, workVars, dbVars
    <3> QED BY <2>3, <3>1, StutterRefines DEF mainVars, workVars, dbVars
  <2>4. Active /\ Recorder => UNCHANGED <<cmd, mainVars, workVars, dbVars, proc>>
    BY DEF Active, Recorder, TestFlag, SleepAndPrint
  <2> QED BY <2>1, <2>2, <2>3, <2>4 DEF Next, Terminating, vars
<1> QED BY <1>1, <1>2, InductiveInvariant, PTL DEF Spec, ImplementsBenchmark, Bench!Spec
=============================================================================
