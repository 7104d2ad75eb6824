---------------------------- MODULE YcsbcProofs -----------------------------
(***************************************************************************)
(* Theorems about Ycsbc, for every number of threads, records, operations, *)
(* every mix, hash and set of names already in the database.               *)
(***************************************************************************)
EXTENDS YcsbcInv, FiniteSetTheorems, TLAPS

-----------------------------------------------------------------------------
(* What the operators of CoreWorkload and Generators return *)

(* total_ops / num_threads is a number, and the shares add up to no more   *)
(* than total_ops.                                                         *)
LEMMA QuotaType ==
  ASSUME NEW b \in BOOLEAN
  PROVE  /\ Quota(b) \in Nat
         /\ NumThreads * Quota(b) <= IF b THEN RecordCount ELSE OperationCount
BY DriverAssumption, WorkloadAssumption DEF Quota

(* A key of the counter is a uint64_t, and so is the next one.             *)
LEMMA CounterType ==
  ASSUME NEW c \in Uint64
  PROVE  CounterNext(c) \in Uint64 /\ CounterLast(c) \in Uint64
BY UintAssumption DEF CounterNext, CounterLast, Uint64

(* Every request distribution that can be built draws a uint64_t.          *)
LEMMA KeyChooserType ==
  ASSUME NEW d \in RequestDist, KeyChooserBuilds(d)
  PROVE  KeyChooser(d) \subseteq Uint64
<1>0. RecordCount \in Uint64 /\ RecordCount + NewKeys \in Uint64
  BY WorkloadAssumption, UintAssumption DEF Uint64
<1>1. CASE d = "uniform"
  <2>1. CounterLast(RecordCount) \in Uint64
    BY <1>0, CounterType
  <2>2. KeyChooser(d) = UniformValues(0, CounterLast(RecordCount))
    BY <1>1 DEF KeyChooser
  <2> QED BY <2>1, <2>2, UintAssumption DEF UniformValues, Uint64
<1>2. CASE d = "zipfian"
  <2>1. KeyChooser(d) = ScrambledZipfianValues(0, RecordCount + NewKeys)
    BY <1>2 DEF KeyChooser
  <2>2. RecordCount + NewKeys >= 2
    BY <1>2 DEF KeyChooserBuilds
  <2> DEFINE n == RecordCount + NewKeys
  <2>3. ZipfianValues(0, n) \subseteq Uint64
    BY <1>0, <2>2, UintAssumption DEF ZipfianValues, Uint64
  <2>4. ASSUME NEW v \in Uint64 PROVE Scramble(0, n, v) \in Uint64
    <3>1. Hash[v] \in Nat
      BY HashAssumption, UintAssumption DEF Uint64
    <3>2. n \in Nat /\ n > 0 /\ n <= UINT64_MAX
      BY <1>0, <2>2, UintAssumption DEF Uint64
    <3> HIDE DEF n
    <3>3. Hash[v] % n \in 0 .. n - 1
      BY <3>1, <3>2
    <3> QED BY <3>2, <3>3, UintAssumption DEF Scramble, Uint64
  <2> HIDE DEF n
  <2>5. ScrambledZipfianValues(0, n) \subseteq Uint64
    BY <2>3, <2>4 DEF ScrambledZipfianValues
  <2> QED BY <2>1, <2>5 DEF n
<1>3. CASE d = "latest"
  <2>1. KeyChooser(d) = SkewedLatestValues(RecordCount)
    BY <1>3 DEF KeyChooser, InsertKeySequence
  <2>2. RecordCount >= 3
    BY <1>3 DEF KeyChooserBuilds
  <2>3. CounterLast(RecordCount) = RecordCount - 1
    BY <2>2, WorkloadAssumption DEF CounterLast
  <2>4. ASSUME NEW z \in ZipfianValues(0, RecordCount - 1)
        PROVE  RecordCount - 1 - z \in Uint64
    BY <1>0, <2>2, UintAssumption DEF ZipfianValues, Uint64
  <2> QED BY <2>1, <2>3, <2>4 DEF SkewedLatestValues
<1> QED BY <1>1, <1>2, <1>3 DEF RequestDist

(* The name of a uint64_t is one of the names the model knows.             *)
LEMMA KeyNameType ==
  ASSUME NEW k \in Uint64
  PROVE  BuildKeyName(k) \in Uint64
BY HashAssumption DEF BuildKeyName

(* A transaction that draws a key goes on to one call of the database.     *)
LEMMA FirstCallType ==
  ASSUME NEW o \in Operation
  PROVE  FirstCall(o) \in {"get", "put", "scan"}
BY DEF FirstCall

-----------------------------------------------------------------------------
(* Type correctness *)

(***************************************************************************)
(* What the steps of a worker have in common: they leave main, the         *)
(* recorder and is_loading alone.                                          *)
(***************************************************************************)
LEMMA WorkerFrame ==
  ASSUME NEW w \in Workers, Worker(w)
  PROVE  UNCHANGED <<mainVars, rpc, loading>>
BY DEF Worker, Progress, BeginOp, ReturnOks, NextSequenceKey, AcceptKey,
       ReadHit, ReadMiss, CountMiss, Put, Scan, RejectKey, DbError, workVars

(* main starts with every variable of its type.                            *)
LEMMA TypeInit == Init => TypeOK
<1> SUFFICES ASSUME Init PROVE TypeOK
  OBVIOUS
<1> USE DEF Init
<1>1. /\ duration \in Nat
      /\ request_dist \in RequestDist
      /\ store \subseteq Uint64
  BY DriverAssumption
<1>2. 0 \in Uint64 /\ InsertStart \in Uint64
  BY UintAssumption, WorkloadAssumption DEF Uint64
<1>3. spawned \in 0 .. NumThreads /\ joined \in 0 .. NumThreads
  BY DriverAssumption
<1>4. isFinish \in BOOLEAN /\ freed \in BOOLEAN
  OBVIOUS
<1>5. loading \in [Workers -> BOOLEAN]
  OBVIOUS
<1>6. /\ wpc \in [Workers -> WorkerLabel]
      /\ op \in [Workers -> Operation]
      /\ key \in [Workers -> Uint64]
      /\ seen \in [Workers -> Nat]
      /\ done \in [Workers -> Nat]
      /\ oks \in [Workers -> Nat]
  BY <1>2 DEF WorkerLabel, Operation
<1>7. /\ mpc \in MainLabel
      /\ phase \in {"load", "run"}
      /\ sum \in Nat /\ noResult \in Nat /\ misses \in Nat
  BY DEF MainLabel
<1> QED BY <1>1, <1>2, <1>3, <1>4, <1>5, <1>6, <1>7 DEF TypeOK

(* A turn of the worker's loop that ends keeps the workers' types.         *)
LEMMA CompleteType ==
  ASSUME TypeOK, NEW w \in Workers, NEW s \in Nat, Complete(w, s)
  PROVE  /\ wpc' \in [Workers -> WorkerLabel]
         /\ op' \in [Workers -> Operation]
         /\ key' \in [Workers -> Uint64]
         /\ seen' \in [Workers -> Nat]
         /\ done' \in [Workers -> Nat]
         /\ oks' \in [Workers -> Nat]
BY UintAssumption DEF Complete, TypeOK, WorkerLabel, Operation, Uint64, kOK

(* ... and so does what follows a read.                                    *)
LEMMA AfterReadType ==
  ASSUME TypeOK, NEW w \in Workers, NEW s \in Nat, AfterRead(w, s)
  PROVE  /\ wpc' \in [Workers -> WorkerLabel]
         /\ op' \in [Workers -> Operation]
         /\ key' \in [Workers -> Uint64]
         /\ seen' \in [Workers -> Nat]
         /\ done' \in [Workers -> Nat]
         /\ oks' \in [Workers -> Nat]
<1>1. CASE op[w] = "READMODIFYWRITE"
  BY <1>1 DEF AfterRead, Goto, TypeOK, WorkerLabel
<1>2. CASE op[w] # "READMODIFYWRITE"
  BY <1>2, CompleteType DEF AfterRead
<1> QED BY <1>1, <1>2

(* Steps of main keep the types, given that its loops stop at num_threads. *)
LEMMA TypeMain ==
  ASSUME TypeOK, ControlInv, Active, Main
  PROVE  TypeOK'
<1> USE DriverAssumption DEF TypeOK, MainLabel, Active, cmd
<1>1. CASE StartRecorder
  BY <1>1 DEF StartRecorder, workVars, dbVars
<1>2. CASE LeaveRecorderScope
  BY <1>2 DEF LeaveRecorderScope, workVars, dbVars
<1>3. CASE SpawnWorker
  BY <1>3 DEF SpawnWorker, dbVars, ControlInv, Workers, WorkerLabel
<1>4. CASE JoinWorker
  BY <1>4 DEF JoinWorker, workVars, dbVars, ControlInv, Workers
<1>5. CASE FinishTasks
  BY <1>5 DEF FinishTasks, workVars, dbVars
<1>6. CASE DeleteFlag
  BY <1>6 DEF DeleteFlag, workVars, dbVars
<1>7. CASE DoubleFreeAbort
  BY <1>7 DEF DoubleFreeAbort, mainVars, workVars, dbVars
<1>8. CASE StartTransactions
  BY <1>8 DEF StartTransactions, dbVars, WorkerLabel
<1>9. CASE Return
  BY <1>9 DEF Return, workVars, dbVars
<1> QED BY <1>1, <1>2, <1>3, <1>4, <1>5, <1>6, <1>7, <1>8, <1>9 DEF Main

(* record() only moves between its own two places.                         *)
LEMMA TypeRecorder ==
  ASSUME TypeOK, Active, Recorder
  PROVE  TypeOK'
BY DEF Recorder, TestFlag, SleepAndPrint, TypeOK, Active, cmd, mainVars,
       workVars, dbVars

(* Steps of a worker keep the types: keys stay within uint64_t.            *)
LEMMA TypeWorker ==
  ASSUME TypeOK, Active, NEW w \in Workers, Worker(w)
  PROVE  TypeOK'
<1> USE DEF Active, cmd, mainVars
<1>1. CASE BeginOp(w)
  <2>1. OpChooser \subseteq Operation /\ {"INSERT"} \subseteq Operation
    BY WorkloadAssumption DEF OpChooser, DiscreteValues, Operation
  <2>2. PICK o \in Operation :
          /\ op' = [op EXCEPT ![w] = o]
          /\ wpc' = [wpc EXCEPT ![w] = IF o = "INSERT" THEN "seqKey" ELSE "draw"]
    BY <1>1, <2>1 DEF BeginOp, Goto
  <2>3. op' \in [Workers -> Operation] /\ wpc' \in [Workers -> WorkerLabel]
    BY <2>2 DEF TypeOK, WorkerLabel
  <2> QED BY <1>1, <2>3 DEF BeginOp, TypeOK, dbVars
<1>2. CASE ReturnOks(w)
  BY <1>2 DEF ReturnOks, Goto, TypeOK, WorkerLabel, dbVars
<1>3. CASE NextSequenceKey(w)
  BY <1>3, CounterType DEF NextSequenceKey, Goto, TypeOK, WorkerLabel
<1>4. CASE AcceptKey(w)
  BY <1>4, KeyChooserType, FirstCallType
     DEF AcceptKey, Goto, TypeOK, WorkerLabel, dbVars
<1>5. CASE RejectKey(w)
  BY <1>5, KeyChooserType DEF RejectKey, TypeOK, dbVars
<1>6. CASE ReadHit(w)
  BY <1>6, AfterReadType DEF ReadHit, TypeOK, dbVars, kOK
<1>7. CASE ReadMiss(w)
  BY <1>7 DEF ReadMiss, Goto, TypeOK, WorkerLabel, dbVars
<1>8. CASE CountMiss(w)
  BY <1>8, AfterReadType DEF CountMiss, TypeOK, ReadMissStatus, kOK
<1>9. CASE Put(w)
  BY <1>9, CompleteType, KeyNameType DEF Put, TypeOK, kOK
<1>10. CASE Scan(w)
  BY <1>10, CompleteType DEF Scan, TypeOK, dbVars, kOK
<1>11. CASE DbError(w)
  BY <1>11 DEF DbError, TypeOK, workVars, dbVars
<1> QED BY <1>1, <1>2, <1>3, <1>4, <1>5, <1>6, <1>7, <1>8, <1>9, <1>10, <1>11
        DEF Worker, Progress

-----------------------------------------------------------------------------
(* Who has been started and joined *)

(***************************************************************************)
(* A worker that takes a step has been started and has not returned, does  *)
(* not become unstarted, and leaves the other workers where they are.      *)
(***************************************************************************)
LEMMA WorkerMoves ==
  ASSUME TypeOK, NEW w \in Workers, Worker(w)
  PROVE  /\ wpc[w] \notin {"none", "returned"}
         /\ wpc'[w] # "none"
         /\ \A v \in Workers \ {w} :
              /\ wpc'[v] = wpc[v] /\ op'[v] = op[v] /\ key'[v] = key[v]
              /\ done'[v] = done[v] /\ oks'[v] = oks[v]
<1> USE DEF TypeOK
<1>1. CASE BeginOp(w)
  BY <1>1 DEF BeginOp, Goto
<1>2. CASE ReturnOks(w)
  BY <1>2 DEF ReturnOks, Goto
<1>3. CASE NextSequenceKey(w)
  BY <1>3 DEF NextSequenceKey, Goto
<1>4. CASE AcceptKey(w)
  BY <1>4, FirstCallType DEF AcceptKey, Goto
<1>5. CASE RejectKey(w)
  BY <1>5 DEF RejectKey
<1>6. CASE ReadHit(w)
  BY <1>6 DEF ReadHit, AfterRead, Complete, Goto
<1>7. CASE ReadMiss(w)
  BY <1>7 DEF ReadMiss, Goto
<1>8. CASE CountMiss(w)
  BY <1>8 DEF CountMiss, AfterRead, Complete, Goto
<1>9. CASE Put(w)
  BY <1>9 DEF Put, Complete
<1>10. CASE Scan(w)
  BY <1>10 DEF Scan, Complete
<1>11. CASE DbError(w)
  BY <1>11 DEF DbError, workVars
<1> QED BY <1>1, <1>2, <1>3, <1>4, <1>5, <1>6, <1>7, <1>8, <1>9, <1>10, <1>11
        DEF Worker, Progress

(* No future has been made or joined when main starts.                     *)
LEMMA ControlInit == Init => ControlInv
<1> SUFFICES ASSUME Init PROVE ControlInv
  OBVIOUS
<1>1. \A w \in Workers : wpc[w] = "none" /\ w >= 0 /\ ~(w < 0)
  BY DriverAssumption DEF Init, Workers
<1>2. phase = "run" <=> pattern = "run"
  BY DEF Init
<1>3. mpc = "async" /\ spawned = 0 /\ joined = 0
  BY DEF Init
<1> QED BY <1>1, <1>2, <1>3 DEF ControlInv, Reporting

(* main starts and joins the workers in index order.                       *)
LEMMA ControlMain ==
  ASSUME TypeOK, ControlInv, Active, Main
  PROVE  ControlInv'
<1> USE DriverAssumption
        DEF TypeOK, ControlInv, Reporting, Workers, Active, cmd, workVars
<1>1. CASE StartRecorder
  BY <1>1 DEF StartRecorder
<1>2. CASE LeaveRecorderScope
  BY <1>2 DEF LeaveRecorderScope
<1>3. CASE SpawnWorker
  <2>1. spawned \in Workers /\ spawned \in Nat
    BY <1>3 DEF SpawnWorker
  <2>2. loading'[spawned] = (phase = "load")
    BY <1>3, <2>1 DEF SpawnWorker
  <2>3. \A w \in Workers : w # spawned => loading'[w] = loading[w]
    BY <1>3, <2>1 DEF SpawnWorker
  <2>4. \A w \in Workers : w < spawned + 1 => loading'[w] = (phase = "load")
    <3> TAKE w \in Workers
    <3>1. CASE w = spawned
      BY <2>2, <3>1
    <3>2. CASE w < spawned
      BY <2>3, <3>2
    <3> QED BY <2>1, <3>1, <3>2
  <2>5. \A w \in Workers : /\ wpc'[w] = "none" <=> w >= spawned + 1
                           /\ w < joined => wpc'[w] = "returned"
    BY <1>3, <2>1 DEF SpawnWorker
  <2>6. phase' = phase /\ pattern' = pattern /\ spawned' = spawned + 1
    BY <1>3 DEF SpawnWorker
  <2>7. \A w \in Workers : w < spawned' => loading'[w] = (phase' = "load")
    BY <2>4, <2>6
  <2> QED BY <1>3, <2>5, <2>6, <2>7 DEF SpawnWorker
<1>4. CASE JoinWorker
  BY <1>4 DEF JoinWorker
<1>5. CASE FinishTasks
  BY <1>5 DEF FinishTasks
<1>6. CASE DeleteFlag
  BY <1>6 DEF DeleteFlag
<1>7. CASE DoubleFreeAbort
  BY <1>7 DEF DoubleFreeAbort, mainVars
<1>8. CASE StartTransactions
  BY <1>8 DEF StartTransactions
<1>9. CASE Return
  BY <1>9 DEF Return
<1> QED BY <1>1, <1>2, <1>3, <1>4, <1>5, <1>6, <1>7, <1>8, <1>9 DEF Main

(* The other threads leave it so.                                          *)
LEMMA ControlOthers ==
  ASSUME TypeOK, ControlInv, Active, Recorder \/ \E w \in Workers : Worker(w)
  PROVE  ControlInv'
<1>1. CASE Recorder
  BY <1>1 DEF Recorder, TestFlag, SleepAndPrint, ControlInv, Reporting, Active,
              cmd, mainVars, workVars
<1>2. ASSUME NEW w \in Workers, Worker(w) PROVE ControlInv'
  <2>1. UNCHANGED <<mpc, phase, spawned, joined, pattern, loading>>
    BY <1>2, WorkerFrame DEF mainVars, Active, cmd
  <2>2. \A v \in Workers : /\ wpc'[v] = "none" <=> wpc[v] = "none"
                           /\ wpc[v] = "returned" => wpc'[v] = "returned"
    BY <1>2, WorkerMoves
  <2> QED BY <2>1, <2>2 DEF ControlInv, Reporting
<1> QED BY <1>1, <1>2

-----------------------------------------------------------------------------
(* How much each worker has done *)

(* No worker has done anything when main starts.                           *)
LEMMA WorkInit == Init => WorkInv
<1> SUFFICES ASSUME Init PROVE WorkInv
  OBVIOUS
<1>1. PhaseQuota \in Nat
  BY QuotaType DEF PhaseQuota
<1> HIDE DEF PhaseQuota
<1> QED BY <1>1 DEF Init, WorkInv

(* n.get() adds the worker's share; everything else leaves sum alone.      *)
LEMMA WorkMain ==
  ASSUME TypeOK, ControlInv, WorkInv, Active, Main
  PROVE  WorkInv'
<1>0. PhaseQuota \in Nat /\ PhaseQuota' \in Nat
  BY QuotaType DEF PhaseQuota
<1>1. CASE phase' = phase /\ UNCHANGED <<op, done, oks, wpc, sum, joined>>
  BY <1>1 DEF WorkInv, PhaseQuota
<1>2. CASE SpawnWorker
  <2>1. PhaseQuota' = PhaseQuota
    BY <1>2 DEF SpawnWorker, PhaseQuota
  <2>2. spawned \in Workers /\ wpc[spawned] = "none"
    BY <1>2, DriverAssumption DEF SpawnWorker, ControlInv, TypeOK, Workers
  <2> QED BY <1>0, <1>2, <2>1, <2>2 DEF SpawnWorker, WorkInv, TypeOK
<1>3. CASE JoinWorker
  <2>1. PhaseQuota' = PhaseQuota
    BY <1>3 DEF JoinWorker, PhaseQuota
  <2>2. joined \in Workers /\ joined \in Nat
    BY <1>3, DriverAssumption DEF ControlInv, JoinWorker, TypeOK, Workers
  <2>3. oks[joined] = PhaseQuota
    BY <1>3, <2>2 DEF JoinWorker, WorkInv
  <2>4. sum' = joined * PhaseQuota + PhaseQuota
    BY <1>3, <2>3 DEF JoinWorker, WorkInv
  <2>5. (joined + 1) * PhaseQuota = joined * PhaseQuota + PhaseQuota
    BY <1>0, <2>2
  <2>6. sum' = joined' * PhaseQuota'
    BY <1>3, <2>1, <2>4, <2>5 DEF JoinWorker
  <2> QED BY <1>3, <2>1, <2>6 DEF JoinWorker, WorkInv, workVars
<1>4. CASE StartTransactions
  <2>1. sum' = 0 /\ joined' = 0 /\ phase' = "run"
    BY <1>4 DEF StartTransactions
  <2>2. \A w \in Workers : /\ wpc'[w] = "none"
                           /\ done'[w] = 0 /\ oks'[w] = 0
    BY <1>4 DEF StartTransactions
  <2>3. \A q \in Nat : 0 = 0 * q
    OBVIOUS
  <2>4. sum' = joined' * PhaseQuota'
    BY <1>0, <2>1, <2>3, Zenon
  <2>5. \A w \in Workers : done'[w] <= PhaseQuota'
    BY <1>0, <2>2
  <2> QED BY <2>1, <2>2, <2>4, <2>5, Zenon DEF WorkInv
<1> QED BY <1>1, <1>2, <1>3, <1>4
        DEF Main, StartRecorder, LeaveRecorderScope, FinishTasks, DeleteFlag,
            DoubleFreeAbort, Return, mainVars, workVars

(* The loop bound of a worker that has been started.                       *)
LEMMA WorkerQuota ==
  ASSUME TypeOK, ControlInv, NEW w \in Workers, wpc[w] # "none"
  PROVE  /\ Quota(loading[w]) = PhaseQuota
         /\ loading[w] <=> phase = "load"
<1>1. w < spawned
  BY DriverAssumption DEF ControlInv, TypeOK, Workers
<1>2. loading[w] = (phase = "load")
  BY <1>1 DEF ControlInv
<1> QED BY <1>2 DEF PhaseQuota

(* A turn that ends with kOK advances i and oks together.                  *)
LEMMA WorkComplete ==
  ASSUME TypeOK, WorkInv, NEW w \in Workers, phase' = phase,
         wpc[w] \notin {"none", "loop", "returned"}, Complete(w, kOK)
  PROVE  /\ done'[w] = done[w] + 1 /\ oks'[w] = done'[w]
         /\ done'[w] <= PhaseQuota
         /\ wpc'[w] = "loop" /\ op'[w] = "INSERT"
<1>1. PhaseQuota \in Nat
  BY QuotaType DEF PhaseQuota
<1>2. done[w] < PhaseQuota /\ oks[w] = done[w] /\ done[w] \in Nat
  BY DEF WorkInv, TypeOK
<1>3. done'[w] = done[w] + 1 /\ wpc'[w] = "loop" /\ op'[w] = "INSERT"
  BY DEF Complete, TypeOK
<1>4. oks'[w] = oks[w] + 1
  BY DEF Complete, TypeOK
<1> QED BY <1>1, <1>2, <1>3, <1>4

(* A step of a worker keeps its own counts right and touches no other one. *)
LEMMA WorkWorker ==
  ASSUME TypeOK, ControlInv, WorkInv, Active, NEW w \in Workers, Worker(w)
  PROVE  WorkInv'
<1> DEFINE Part(v) ==
     /\ done[v] <= PhaseQuota
     /\ oks[v] = done[v]
     /\ wpc[v] = "none" => done[v] = 0
     /\ wpc[v] = "returned" => done[v] = PhaseQuota
     /\ wpc[v] \notin {"none", "loop", "returned"} => done[v] < PhaseQuota
     /\ wpc[v] = "seqKey" => op[v] = "INSERT"
     /\ wpc[v] \in {"draw", "get", "miss", "scan"} => op[v] # "INSERT"
     /\ phase = "load" => op[v] = "INSERT"
<1>0. /\ PhaseQuota \in Nat /\ PhaseQuota' = PhaseQuota
      /\ phase' = phase /\ joined' = joined /\ sum' = sum
  BY QuotaType, WorkerFrame DEF PhaseQuota, mainVars
<1>1. \A v \in Workers \ {w} : Part(v)'
  BY <1>0, WorkerMoves DEF WorkInv
<1>2. Part(w)
  BY DEF WorkInv
<1>q. Quota(loading[w]) = PhaseQuota /\ (loading[w] <=> phase = "load")
  BY WorkerMoves, WorkerQuota
<1>3. Part(w)'
  <2> USE <1>0, <1>2 DEF TypeOK
  <2>1. CASE BeginOp(w)
    BY <2>1, <1>q DEF BeginOp, Goto
  <2>2. CASE ReturnOks(w)
    BY <2>2, <1>q DEF ReturnOks, Goto
  <2>3. CASE NextSequenceKey(w)
    BY <2>3 DEF NextSequenceKey, Goto
  <2>4. CASE AcceptKey(w)
    BY <2>4, FirstCallType DEF AcceptKey, Goto
  <2>5. CASE RejectKey(w)
    BY <2>5 DEF RejectKey
  <2>6. CASE ReadHit(w)
    BY <2>6, WorkComplete DEF ReadHit, AfterRead, Goto
  <2>7. CASE ReadMiss(w)
    BY <2>7 DEF ReadMiss, Goto
  <2>8. CASE CountMiss(w)
    BY <2>8, WorkComplete DEF CountMiss, AfterRead, Goto, ReadMissStatus
  <2>9. CASE Put(w)
    BY <2>9, WorkComplete DEF Put
  <2>10. CASE Scan(w)
    BY <2>10, WorkComplete DEF Scan
  <2>11. CASE DbError(w)
    BY <2>11 DEF DbError, workVars
  <2> QED BY <2>1, <2>2, <2>3, <2>4, <2>5, <2>6, <2>7, <2>8, <2>9, <2>10, <2>11
          DEF Worker, Progress
<1> QED BY <1>0, <1>1, <1>3 DEF WorkInv

-----------------------------------------------------------------------------
(* The sequence keys of the load phase *)

(* All turns of all workers: as many as their shares add up to.            *)
AllTurns == Workers \X (0 .. PhaseQuota - 1)

(* There are NumThreads * (total_ops / num_threads) turns in a phase.      *)
LEMMA AllTurnsCount ==
  /\ IsFiniteSet(AllTurns)
  /\ Cardinality(AllTurns) = NumThreads * PhaseQuota
<1>1. PhaseQuota \in Nat /\ NumThreads \in Nat
  BY QuotaType, DriverAssumption DEF PhaseQuota
<1> HIDE DEF PhaseQuota
<1>2. IsFiniteSet(Workers) /\ Cardinality(Workers) = NumThreads
  BY <1>1, FS_Interval DEF Workers
<1>3. /\ IsFiniteSet(0 .. PhaseQuota - 1)
      /\ Cardinality(0 .. PhaseQuota - 1) = PhaseQuota
  BY <1>1, FS_Interval
<1> QED BY <1>2, <1>3, FS_Product DEF AllTurns

(* A worker takes a key for a turn only while turns are left.              *)
LEMMA IssuedBound ==
  ASSUME TypeOK, WorkInv
  PROVE  /\ Issued \subseteq AllTurns
         /\ IsFiniteSet(Issued) /\ Cardinality(Issued) \in Nat
<1>1. PhaseQuota \in Nat
  BY QuotaType DEF PhaseQuota
<1> HIDE DEF PhaseQuota
<1>2. ASSUME NEW t \in Issued PROVE t \in AllTurns
  <2>1. /\ t \in Workers \X (0 .. PhaseQuota)
        /\ t[2] < done[t[1]] \/ (t[2] = done[t[1]] /\ HoldsSequenceKey(t[1]))
    BY <1>2 DEF Issued
  <2>2. PICK v \in Workers, i \in 0 .. PhaseQuota : t = <<v, i>>
    BY <2>1
  <2>3. i < PhaseQuota
    BY <1>1, <2>1, <2>2 DEF WorkInv, TypeOK, HoldsSequenceKey
  <2> QED BY <1>1, <2>2, <2>3 DEF AllTurns
<1>3. Issued \in SUBSET AllTurns
  BY <1>2
<1> QED BY <1>3, AllTurnsCount, FS_Subset, FS_CardinalityType

(* Steps that neither take nor insert a sequence key.                      *)
LEMMA IssuedUnchanged ==
  ASSUME UNCHANGED <<phase, done>>,
         \A v \in Workers : HoldsSequenceKey(v)' <=> HoldsSequenceKey(v)
  PROVE  Issued' = Issued
BY DEF Issued, PhaseQuota

(* ... keep what is known of the keys handed out and of the database.      *)
LEMMA LoadUnchanged ==
  ASSUME LoadInv, UNCHANGED <<phase, done, key_generator, store>>,
         \A v \in Workers : /\ HoldsSequenceKey(v)' <=> HoldsSequenceKey(v)
                            /\ HoldsSequenceKey(v) => key'[v] = key[v]
  PROVE  LoadInv'
<1>1. Issued' = Issued
  BY IssuedUnchanged
<1> QED BY <1>1 DEF LoadInv

(* No key has been handed out when main starts.                            *)
LEMMA LoadInit == Init => LoadInv
<1> SUFFICES ASSUME Init PROVE LoadInv
  OBVIOUS
<1>1. \A w \in Workers : ~ HoldsSequenceKey(w) /\ done[w] = 0
  BY DEF Init, HoldsSequenceKey
<1>2. PhaseQuota \in Nat
  BY QuotaType DEF PhaseQuota
<1> HIDE DEF PhaseQuota
<1>3. Issued = {}
  BY <1>1, <1>2 DEF Issued
<1>4. Cardinality(Issued) = 0
  BY <1>3, FS_EmptySet
<1>5. key_generator = InsertStart /\ store = Preloaded
  BY DEF Init
<1>6. InsertStart .. key_generator - 1 = {}
  BY <1>5, WorkloadAssumption
<1> QED BY <1>1, <1>4, <1>5, <1>6, WorkloadAssumption DEF LoadInv

(* main takes no key and writes no record.                                 *)
LEMMA LoadMain ==
  ASSUME TypeOK, ControlInv, LoadInv, Active, Main
  PROVE  LoadInv'
<1>1. CASE SpawnWorker
  <2>1. spawned \in Workers /\ wpc[spawned] = "none"
    BY <1>1, DriverAssumption DEF SpawnWorker, ControlInv, TypeOK, Workers
  <2>2. \A v \in Workers : HoldsSequenceKey(v)' <=> HoldsSequenceKey(v)
    BY <1>1, <2>1 DEF SpawnWorker, HoldsSequenceKey, TypeOK
  <2> QED BY <1>1, <2>2, LoadUnchanged DEF SpawnWorker, dbVars
<1>2. CASE StartTransactions
  BY <1>2 DEF StartTransactions, LoadInv
<1>3. CASE phase' = phase /\ UNCHANGED <<workVars, dbVars>>
  <2>1. \A v \in Workers : /\ HoldsSequenceKey(v)' <=> HoldsSequenceKey(v)
                           /\ key'[v] = key[v]
    BY <1>3 DEF workVars, HoldsSequenceKey
  <2> QED BY <1>3, <2>1, LoadUnchanged DEF workVars, dbVars
<1> QED BY <1>1, <1>2, <1>3
        DEF Main, StartRecorder, LeaveRecorderScope, JoinWorker, FinishTasks,
            DeleteFlag, DoubleFreeAbort, Return, mainVars

(***************************************************************************)
(* fetch_add, in either phase: the turn of w joins the issued ones, of     *)
(* which there are never more than turns in the phase.                     *)
(***************************************************************************)
LEMMA TurnIsIssued ==
  ASSUME TypeOK, WorkInv, NEW w \in Workers, NextSequenceKey(w)
  PROVE  /\ phase' = phase /\ done' = done /\ store' = store
         /\ HoldsSequenceKey(w)' /\ ~ HoldsSequenceKey(w)
         /\ \A v \in Workers \ {w} : /\ HoldsSequenceKey(v)' <=> HoldsSequenceKey(v)
                                     /\ key'[v] = key[v]
         /\ Cardinality(Issued') = Cardinality(Issued) + 1
         /\ Cardinality(Issued) + 1 <= NumThreads * PhaseQuota
<1> DEFINE turn == <<w, done[w]>>
<1>1. /\ phase' = phase /\ done' = done /\ store' = store
      /\ wpc[w] = "seqKey" /\ op[w] = "INSERT"
  BY DEF NextSequenceKey, mainVars, WorkInv
<1>2. PhaseQuota \in Nat /\ PhaseQuota' = PhaseQuota
  BY <1>1, QuotaType DEF PhaseQuota
<1>3. done[w] \in Nat /\ done[w] < PhaseQuota
  BY <1>1 DEF TypeOK, WorkInv
<1>4. /\ HoldsSequenceKey(w)' /\ ~ HoldsSequenceKey(w)
      /\ \A v \in Workers \ {w} : /\ HoldsSequenceKey(v)' <=> HoldsSequenceKey(v)
                                 /\ key'[v] = key[v]
  BY <1>1 DEF NextSequenceKey, Goto, HoldsSequenceKey, TypeOK
<1>5. turn \notin Issued /\ turn \in AllTurns
  <2>1. turn \notin Issued
    BY <1>3, <1>4 DEF Issued
  <2>2. turn \in AllTurns
    BY <1>2, <1>3 DEF AllTurns
  <2> QED BY <2>1, <2>2
<1>6. Issued' = Issued \cup {turn}
  <2>1. ASSUME NEW v \in Workers, NEW i \in 0 .. PhaseQuota
        PROVE  <<v, i>> \in Issued' <=> <<v, i>> \in Issued \cup {turn}
    BY <1>1, <1>2, <1>3, <1>4 DEF Issued, TypeOK
  <2>2. Issued' \subseteq Workers \X (0 .. PhaseQuota)
    BY <1>2 DEF Issued
  <2>3. Issued \cup {turn} \subseteq Workers \X (0 .. PhaseQuota)
    BY <1>2, <1>3 DEF Issued
  <2> QED BY <2>1, <2>2, <2>3
<1>7. Cardinality(Issued') = Cardinality(Issued) + 1
  BY <1>5, <1>6, IssuedBound, FS_AddElement
<1>8. Cardinality(Issued) + 1 <= NumThreads * PhaseQuota
  <2>1. Issued \cup {turn} \in SUBSET AllTurns
    BY <1>5, IssuedBound
  <2> QED BY <1>6, <1>7, <2>1, AllTurnsCount, FS_Subset
<1> QED BY <1>1, <1>4, <1>7, <1>8

(* ... and w alone holds the key it was given.  The counter does not wrap, *)
(* because no more keys are taken than records are to be loaded.           *)
LEMMA LoadNextSequenceKey ==
  ASSUME TypeOK, WorkInv, LoadInv, phase = "load",
         NEW w \in Workers, NextSequenceKey(w)
  PROVE  LoadInv'
<1>1. /\ phase' = phase /\ store' = store
      /\ HoldsSequenceKey(w)' /\ ~ HoldsSequenceKey(w)
      /\ \A v \in Workers \ {w} : /\ HoldsSequenceKey(v)' <=> HoldsSequenceKey(v)
                                 /\ key'[v] = key[v]
  BY TurnIsIssued
<1>2. /\ Cardinality(Issued') = Cardinality(Issued) + 1
      /\ Cardinality(Issued) + 1 <= NumThreads * PhaseQuota
  BY TurnIsIssued
<1>3. /\ NumThreads * PhaseQuota <= RecordCount
      /\ NumThreads * PhaseQuota \in Nat
  <2>1. PhaseQuota \in Nat /\ NumThreads * PhaseQuota <= RecordCount
    BY QuotaType DEF PhaseQuota
  <2> HIDE DEF PhaseQuota
  <2> QED BY <2>1, DriverAssumption
<1>4. key_generator + 1 <= UINT64_MAX
  BY <1>2, <1>3, IssuedBound, WorkloadAssumption, UintAssumption DEF LoadInv
<1>5. key_generator' = key_generator + 1 /\ key'[w] = key_generator
  BY <1>4, UintAssumption DEF NextSequenceKey, CounterNext, TypeOK, Uint64
<1>6. key_generator \in Nat /\ InsertStart \in Nat /\ InsertStart <= key_generator
  BY IssuedBound, WorkloadAssumption DEF LoadInv
<1>7. InsertStart .. key_generator' - 1
        = (InsertStart .. key_generator - 1) \cup {key_generator}
  BY <1>5, <1>6
<1>8. key_generator' = InsertStart + Cardinality(Issued')
  BY <1>2, <1>5, <1>6, IssuedBound, WorkloadAssumption DEF LoadInv
<1>9. \A v \in Workers :
        HoldsSequenceKey(v)' => key'[v] \in InsertStart .. key_generator' - 1
  BY <1>1, <1>5, <1>7 DEF LoadInv
<1>10. \A k \in InsertStart .. key_generator' - 1 :
         \/ BuildKeyName(k) \in store'
         \/ \E v \in Workers : HoldsSequenceKey(v)' /\ key'[v] = k
  <2> TAKE k \in InsertStart .. key_generator' - 1
  <2>1. CASE k = key_generator
    BY <1>1, <1>5, <2>1
  <2>2. CASE k \in InsertStart .. key_generator - 1
    BY <1>1, <2>2 DEF LoadInv
  <2> QED BY <1>7, <2>1, <2>2
<1>11. store' \subseteq Preloaded \cup
         { BuildKeyName(k) : k \in InsertStart .. key_generator' - 1 }
  BY <1>1, <1>7 DEF LoadInv
<1> QED BY <1>1, <1>8, <1>9, <1>10, <1>11 DEF LoadInv

(* Put: the key leaves the hands of w and its record is in the database.   *)
LEMMA LoadPut ==
  ASSUME TypeOK, WorkInv, LoadInv, phase = "load",
         NEW w \in Workers, Put(w)
  PROVE  LoadInv'
<1>1. /\ phase' = phase /\ key_generator' = key_generator
      /\ store' = store \cup {BuildKeyName(key[w])}
      /\ op[w] = "INSERT"
  BY DEF Put, mainVars, WorkInv
<1>2. HoldsSequenceKey(w) /\ ~ HoldsSequenceKey(w)'
  BY <1>1 DEF Put, Complete, HoldsSequenceKey, TypeOK
<1>3. \A v \in Workers \ {w} :
        /\ HoldsSequenceKey(v)' <=> HoldsSequenceKey(v)
        /\ key'[v] = key[v] /\ done'[v] = done[v]
  BY DEF Put, Complete, HoldsSequenceKey, TypeOK
<1>4. PhaseQuota \in Nat /\ PhaseQuota' = PhaseQuota
  BY <1>1, QuotaType DEF PhaseQuota
<1>5. done[w] \in Nat /\ done'[w] = done[w] + 1
  BY DEF Put, Complete, TypeOK
<1>6. Issued' = Issued
  <2>1. ASSUME NEW v \in Workers, NEW i \in 0 .. PhaseQuota
        PROVE  <<v, i>> \in Issued' <=> <<v, i>> \in Issued
    BY <1>2, <1>3, <1>4, <1>5 DEF Issued, TypeOK
  <2>2. /\ Issued' \subseteq Workers \X (0 .. PhaseQuota)
        /\ Issued \subseteq Workers \X (0 .. PhaseQuota)
    BY <1>4 DEF Issued
  <2> QED BY <2>1, <2>2
<1>7. key[w] \in InsertStart .. key_generator - 1
  BY <1>2 DEF LoadInv
<1>8. \A k \in InsertStart .. key_generator - 1 :
        \/ BuildKeyName(k) \in store'
        \/ \E v \in Workers : HoldsSequenceKey(v)' /\ key'[v] = k
  <2> TAKE k \in InsertStart .. key_generator - 1
  <2>1. CASE BuildKeyName(k) \in store
    BY <1>1, <2>1
  <2>2. ASSUME NEW v \in Workers, HoldsSequenceKey(v), key[v] = k
        PROVE  \/ BuildKeyName(k) \in store'
               \/ \E u \in Workers : HoldsSequenceKey(u)' /\ key'[u] = k
    <3>1. CASE v = w
      BY <1>1, <2>2, <3>1
    <3>2. CASE v # w
      BY <1>3, <2>2, <3>2
    <3> QED BY <3>1, <3>2
  <2> QED BY <2>1, <2>2 DEF LoadInv
<1>9. store' \subseteq Preloaded \cup
        { BuildKeyName(k) : k \in InsertStart .. key_generator - 1 }
  BY <1>1, <1>7 DEF LoadInv
<1>10. \A v \in Workers :
         HoldsSequenceKey(v)' => key'[v] \in InsertStart .. key_generator - 1
  BY <1>2, <1>3 DEF LoadInv
<1> QED BY <1>1, <1>6, <1>8, <1>9, <1>10 DEF LoadInv

(* The other steps a worker can take while loading touch no sequence key.  *)
LEMMA LoadWorker ==
  ASSUME TypeOK, ControlInv, WorkInv, LoadInv, Active,
         NEW w \in Workers, Worker(w)
  PROVE  LoadInv'
<1>0. phase' = phase
  BY WorkerFrame DEF mainVars
<1>1. CASE phase # "load"
  BY <1>0, <1>1 DEF LoadInv
<1>2. CASE phase = "load"
  <2>1. wpc[w] \notin {"draw", "get", "miss", "scan"}
    BY <1>2 DEF WorkInv
  <2>2. CASE NextSequenceKey(w)
    BY <1>2, <2>2, LoadNextSequenceKey
  <2>3. CASE Put(w)
    BY <1>2, <2>3, LoadPut
  <2>4. CASE BeginOp(w) \/ ReturnOks(w) \/ DbError(w)
    <3>1. UNCHANGED <<done, key, key_generator, store>>
      BY <2>4 DEF BeginOp, ReturnOks, DbError, workVars, dbVars
    <3>2. \A v \in Workers : HoldsSequenceKey(v)' <=> HoldsSequenceKey(v)
      BY <2>4 DEF BeginOp, ReturnOks, DbError, Goto, workVars,
                  HoldsSequenceKey, TypeOK
    <3> QED BY <1>0, <3>1, <3>2, LoadUnchanged
  <2>5. CASE AcceptKey(w) \/ RejectKey(w) \/ ReadHit(w) \/ ReadMiss(w)
             \/ CountMiss(w) \/ Scan(w)
    BY <2>1, <2>5 DEF AcceptKey, RejectKey, ReadHit, ReadMiss, CountMiss, Scan
  <2> QED BY <2>2, <2>3, <2>4, <2>5 DEF Worker, Progress
<1> QED BY <1>1, <1>2

-----------------------------------------------------------------------------
(* The recorder and its flag *)

(* No recorder runs, and the flag is new, when main starts.                *)
LEMMA RecorderInit == Init => RecorderInv
BY DEF Init, RecorderInv

(* main sets and deletes the flag only after the recorder's scope.         *)
LEMMA RecorderMain ==
  ASSUME TypeOK, ControlInv, RecorderInv, Active, Main
  PROVE  RecorderInv'
<1> USE DEF RecorderInv, Active, cmd
<1>1. CASE StartRecorder
  BY <1>1 DEF StartRecorder
<1>2. CASE LeaveRecorderScope
  BY <1>2 DEF LeaveRecorderScope
<1>3. CASE SpawnWorker
  BY <1>3 DEF SpawnWorker
<1>4. CASE JoinWorker
  BY <1>4 DEF JoinWorker
<1>5. CASE FinishTasks
  BY <1>5 DEF FinishTasks
<1>6. CASE DeleteFlag
  BY <1>6 DEF DeleteFlag
<1>7. CASE DoubleFreeAbort
  BY <1>7 DEF DoubleFreeAbort, mainVars
<1>8. CASE StartTransactions
  BY <1>8 DEF StartTransactions
<1>9. CASE Return
  BY <1>9 DEF Return
<1> QED BY <1>1, <1>2, <1>3, <1>4, <1>5, <1>6, <1>7, <1>8, <1>9 DEF Main

(* record() finds the flag false for as long as it runs.                   *)
LEMMA RecorderRecorder ==
  ASSUME TypeOK, RecorderInv, Active, Recorder
  PROVE  RecorderInv'
<1> USE DEF RecorderInv, Active, cmd, mainVars
<1>1. CASE TestFlag
  <2>1. mpc = "scope_end" /\ ~ freed /\ ~ isFinish /\ duration # 0
    BY <1>1 DEF TestFlag, TypeOK, MainLabel
  <2>2. rpc' = "sleep"
    BY <1>1, <2>1 DEF TestFlag
  <2> QED BY <1>1, <2>1, <2>2 DEF TestFlag
<1>2. CASE SleepAndPrint
  BY <1>2 DEF SleepAndPrint
<1> QED BY <1>1, <1>2 DEF Recorder

(* A worker runs only after the recorder's scope.                          *)
LEMMA RecorderWorker ==
  ASSUME TypeOK, ControlInv, RecorderInv, Active, NEW w \in Workers, Worker(w)
  PROVE  RecorderInv'
<1>1. UNCHANGED <<mpc, isFinish, freed, rpc, pattern, duration>>
  BY WorkerFrame DEF mainVars, Active, cmd
<1>2. mpc \notin {"async", "scope_end"}
  <2>1. wpc[w] # "none"
    BY WorkerMoves
  <2> QED BY <2>1, DriverAssumption DEF ControlInv, Workers
<1> QED BY <1>1, <1>2 DEF RecorderInv

-----------------------------------------------------------------------------
(* The theorems *)

(* Every step of the program preserves the inductive invariant.            *)
LEMMA DriverInvStep ==
  ASSUME DriverInv, [Next]_vars
  PROVE  DriverInv'
<1> USE DEF DriverInv
<1>1. CASE Active /\ Main
  BY <1>1, TypeMain, ControlMain, WorkMain, LoadMain, RecorderMain
<1>2. CASE Active /\ Recorder
  <2>1. UNCHANGED <<mainVars, workVars, dbVars>>
    BY <1>2 DEF Recorder, TestFlag, SleepAndPrint
  <2>2. WorkInv'
    BY <2>1 DEF WorkInv, PhaseQuota, mainVars, workVars
  <2>3. LoadInv'
    <3>1. \A v \in Workers : /\ HoldsSequenceKey(v)' <=> HoldsSequenceKey(v)
                             /\ key'[v] = key[v]
      BY <2>1 DEF workVars, HoldsSequenceKey
    <3> QED BY <2>1, <3>1, LoadUnchanged DEF mainVars, workVars, dbVars
  <2> QED BY <1>2, <2>2, <2>3, TypeRecorder, ControlOthers, RecorderRecorder
<1>3. ASSUME NEW w \in Workers, Active, Worker(w) PROVE DriverInv'
  BY <1>3, TypeWorker, ControlOthers, WorkWorker, LoadWorker, RecorderWorker
<1>4. CASE UNCHANGED vars
  <2>1. UNCHANGED <<cmd, mainVars, rpc, workVars, dbVars, proc>>
    BY <1>4 DEF vars
  <2>2. TypeOK'
    BY <2>1 DEF TypeOK, cmd, mainVars, workVars, dbVars
  <2>3. ControlInv'
    BY <2>1 DEF ControlInv, Reporting, cmd, mainVars, workVars
  <2>4. WorkInv'
    BY <2>1 DEF WorkInv, PhaseQuota, mainVars, workVars
  <2>5. LoadInv'
    <3>1. \A v \in Workers : /\ HoldsSequenceKey(v)' <=> HoldsSequenceKey(v)
                             /\ key'[v] = key[v]
      BY <2>1 DEF workVars, HoldsSequenceKey
    <3> QED BY <2>1, <3>1, LoadUnchanged DEF mainVars, workVars, dbVars
  <2>6. RecorderInv'
    BY <2>1 DEF RecorderInv, cmd, mainVars
  <2> QED BY <2>2, <2>3, <2>4, <2>5, <2>6
<1> QED BY <1>1, <1>2, <1>3, <1>4 DEF Next, Terminating

(* The program keeps the inductive invariant in all its executions.        *)
THEOREM DriverInvariance == Spec => []DriverInv
<1>1. Init => DriverInv
  BY TypeInit, ControlInit, WorkInit, LoadInit, RecorderInit DEF DriverInv
<1>2. DriverInv /\ [Next]_vars => DriverInv'
  BY DriverInvStep
<1> QED BY <1>1, <1>2, PTL DEF Spec

(* Every variable keeps its type: no key leaves uint64_t, main starts and  *)
(* joins no more workers than there are.                                   *)
THEOREM TypeCorrect == Spec => []TypeOK
<1>1. DriverInv => TypeOK
  BY DEF DriverInv
<1> QED BY <1>1, DriverInvariance, PTL

(* When main has joined the loading workers every turn has been issued and *)
(* no key is in the hands of a worker.                                     *)
LEMMA LoadedState ==
  ASSUME DriverInv, phase = "load", Reporting
  PROVE  /\ store = Preloaded \cup LoadedNames
         /\ key_generator = InsertStart + LoadedCount
<1> USE DEF DriverInv
<1>1. PhaseQuota = Quota(TRUE)
  BY DEF PhaseQuota
<1>q. PhaseQuota \in Nat
  BY QuotaType DEF PhaseQuota
<1>2. \A w \in Workers : wpc[w] = "returned" /\ done[w] = PhaseQuota
  BY DriverAssumption DEF ControlInv, WorkInv, Workers
<1>3. \A w \in Workers : ~ HoldsSequenceKey(w)
  BY <1>2 DEF HoldsSequenceKey
<1> HIDE DEF PhaseQuota
<1>4. Issued = AllTurns
  <2>1. ASSUME NEW v \in Workers, NEW i \in 0 .. PhaseQuota
        PROVE  <<v, i>> \in Issued <=> <<v, i>> \in AllTurns
    BY <1>q, <1>2, <1>3 DEF Issued, AllTurns
  <2>2. /\ Issued \subseteq Workers \X (0 .. PhaseQuota)
        /\ AllTurns \subseteq Workers \X (0 .. PhaseQuota)
    BY <1>q DEF Issued, AllTurns
  <2> QED BY <2>1, <2>2
<1>5. key_generator = InsertStart + LoadedCount
  BY <1>1, <1>4, AllTurnsCount DEF LoadInv, LoadedCount
<1>6. InsertStart .. key_generator - 1 = LoadedKeys
  <2>1. LoadedCount = NumThreads * PhaseQuota
    BY <1>1 DEF LoadedCount
  <2>2. LoadedCount \in Nat
    BY <1>q, <2>1, DriverAssumption
  <2> QED BY <1>5, <2>2, WorkloadAssumption DEF LoadedKeys
<1>7. LoadedNames \subseteq store
  BY <1>3, <1>6 DEF LoadInv, LoadedNames
<1>8. store \subseteq Preloaded \cup LoadedNames
  BY <1>6 DEF LoadInv, LoadedNames
<1> QED BY <1>5, <1>7, <1>8 DEF LoadInv

(***************************************************************************)
(* For any number of threads and any interleaving, the load phase that     *)
(* main has joined has inserted exactly the first NumThreads * (RecordCount*)
(* / NumThreads) keys of key_generator_.                                   *)
(***************************************************************************)
THEOREM LoadIsComplete == Spec => []LoadComplete
<1>1. DriverInv => LoadComplete
  BY LoadedState DEF LoadComplete
<1> QED BY <1>1, DriverInvariance, PTL

(***************************************************************************)
(* For any number of threads and any interleaving, the sum main prints     *)
(* after a load phase is the number of records it has loaded.              *)
(***************************************************************************)
THEOREM SumIsCorrect == Spec => []SumIsRecordsLoaded
<1>1. ASSUME DriverInv, phase = "load", Reporting
      PROVE  /\ key_generator = InsertStart + sum
             /\ \A k \in InsertStart .. InsertStart + sum - 1 :
                  BuildKeyName(k) \in store
  <2>1. sum = LoadedCount
    BY <1>1 DEF DriverInv, WorkInv, ControlInv, PhaseQuota, LoadedCount
  <2>2. /\ store = Preloaded \cup LoadedNames
        /\ key_generator = InsertStart + LoadedCount
    BY <1>1, LoadedState
  <2> QED BY <2>1, <2>2 DEF LoadedNames, LoadedKeys
<1>2. DriverInv => SumIsRecordsLoaded
  BY <1>1 DEF SumIsRecordsLoaded
<1> QED BY <1>2, DriverInvariance, PTL

(* No transaction runs beside the load phase, and main never reports or    *)
(* returns while a worker is running.                                      *)
THEOREM PhasesAreDisjoint == Spec => []PhasesDoNotOverlap
<1>1. ASSUME DriverInv PROVE PhasesDoNotOverlap
  <2> USE <1>1 DEF DriverInv
  <2>1. \A w \in Workers : wpc[w] # "none" => loading[w] = (phase = "load")
    <3> TAKE w \in Workers
    <3> HAVE wpc[w] # "none"
    <3>1. w < spawned
      BY DriverAssumption DEF ControlInv, TypeOK, Workers
    <3> QED BY <3>1 DEF ControlInv
  <2>2. ASSUME mpc \notin {"spawn", "join"}, NEW w \in Workers
        PROVE  wpc[w] \in {"none", "returned"}
    BY <2>2, DriverAssumption
       DEF ControlInv, Reporting, TypeOK, MainLabel, Workers
  <2> QED BY <2>1, <2>2 DEF PhasesDoNotOverlap
<1> QED BY <1>1, DriverInvariance, PTL

(***************************************************************************)
(* A program that does one phase ("load" or "run") never touches the       *)
(* isFinish flag after "delete isFinish", with or without a recorder.      *)
(***************************************************************************)
THEOREM FlagIsAllocated == Spec => []FlagSafeInOnePhase
<1>1. DriverInv => FlagSafeInOnePhase
  BY DEF DriverInv, TypeOK, MainLabel, RecorderInv, FlagAllocatedWhenUsed,
         FlagSafeInOnePhase
<1> QED BY <1>1, DriverInvariance, PTL

(***************************************************************************)
(* With "-d n" the future of record() is destroyed, and so waited for, at  *)
(* the end of the block of line 111, before anything that could set the    *)
(* flag: in no execution does the program start a worker or end.           *)
(***************************************************************************)
THEOREM RecorderBlocksMain ==
  Spec => [](duration # 0 => ~ Stopped /\ spawned = 0)
<1>1. DriverInv => (duration # 0 => ~ Stopped /\ spawned = 0)
  BY DEF DriverInv, RecorderInv, ControlInv, Stopped
<1> QED BY <1>1, DriverInvariance, PTL
=============================================================================
