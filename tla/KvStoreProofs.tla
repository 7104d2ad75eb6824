---------------------------- MODULE KvStoreProofs ---------------------------
(***************************************************************************)
(* Theorems about KvStoreDB, for every number of clients, calls and keys,  *)
(* and every workload.                                                     *)
(***************************************************************************)
EXTENDS KvStoreInv, ClientProofs

-----------------------------------------------------------------------------
(* The invariant is inductive *)

(* The bound of the loops is a number, and at least 1.                     *)
LEMMA TurnsType ==
  /\ MaxTurns \in Nat /\ MaxTurns >= 1
  /\ field_count <= MaxTurns /\ MaxScanLength <= MaxTurns
BY FieldCountType, ClientAssumption DEF MaxTurns

(* The invariant holds of an empty store and idle clients.                 *)
LEMMA InitInv == Init => IInv
<1> SUFFICES ASSUME Init PROVE IInv
  OBVIOUS
<1> USE KvAssumption DEF Init
<1>1. TypeOK
  BY TurnsType DEF TypeOK, NoWrites, Write
<1>2. CallInv
  BY DEF CallInv
<1>3. HistoryInv
  BY DEF HistoryInv, NoWrites
<1>4. StoreInv
  BY DEF StoreInv, NoStaleRecord
<1>5. MissesAreReal
  BY DEF MissesAreReal
<1> QED BY <1>1, <1>2, <1>3, <1>4, <1>5 DEF IInv

(* A thread that is in a call serves a call a client makes.                *)
LEMMA CallFacts ==
  ASSUME IInv, NEW t \in Threads, pc[t] # "idle"
  PROVE  /\ call[t] \in Calls
         /\ call[t].key \in Keys
         /\ call[t].len \in 0 .. MaxScanLength
         /\ Values(call[t]) \in Seq(Fields)
         /\ call[t].op \in {"Insert", "Update", "Delete"} =>
              Len(Values(call[t])) <= field_count
         /\ num[t] \in 1 .. MaxCalls
         /\ IsWrite(call[t]) => Len(Values(call[t])) >= 1
<1>1. call[t] \in Calls /\ num[t] >= 1 /\ num[t] \in 0 .. MaxCalls
  BY DEF IInv, CallInv, TypeOK
<1>2. num[t] \in 1 .. MaxCalls
  BY <1>1, KvAssumption
<1>3. /\ Values(call[t]) \in Seq(Fields)
      /\ call[t].op \in {"Insert", "Update", "Delete"} =>
           Len(Values(call[t])) <= field_count
      /\ IsWrite(call[t]) => Len(Values(call[t])) >= 1
  <2>1. CASE call[t].op \in {"Insert", "Update"}
    BY <1>1, <2>1, CallsType, WrittenFields, FieldCountType DEF Values, IsWrite
  <2>2. CASE call[t].op = "Delete"
    BY <2>2, FieldCountType DEF Values, IsWrite
  <2>3. CASE call[t].op \in {"Read", "Scan"}
    BY <1>1, <2>3, CallsType DEF Values, IsWrite
  <2> QED BY <1>1, <2>1, <2>2, <2>3, CallsType
<1> QED BY <1>1, <1>2, <1>3, CallsType

(* A call that begins remembers which writes were over.                    *)
LEMMA InvokeInv ==
  ASSUME IInv, NEW t \in Threads, Invoke(t)
  PROVE  IInv'
<1> USE KvAssumption DEF Invoke, Goto
<1>0. TypeOK /\ CallInv
  BY DEF IInv
<1>1. PICK c \in Calls : /\ call' = [call EXCEPT ![t] = c]
                         /\ pc' = [pc EXCEPT ![t] = FirstLabel(c.op)]
                         /\ pc[t] = "idle"
                         /\ deleted' = IF c.op = "Delete"
                                       THEN deleted \cup {c.key} ELSE deleted
  OBVIOUS
<1>2. /\ c.op \in {"Insert", "Delete", "Update", "Read", "Scan"}
      /\ Values(c) \in Seq(Fields) /\ c.key \in Keys
  BY CallsType DEF Values
<1>3. TypeOK'
  BY <1>0, <1>1, <1>2 DEF TypeOK, FirstLabel
<1>4. CallInv'
  BY <1>0, <1>1, <1>2 DEF TypeOK, CallInv, FirstLabel, Values, IsWrite
<1>5. HistoryInv'
  BY <1>0, <1>1 DEF TypeOK, IInv, HistoryInv
<1>6. StoreInv'
  <2>1. StoreInv /\ idx[t] = 1
    BY <1>0, <1>1 DEF IInv, CallInv
  <2>2. NoStaleRecord'
    BY <2>1 DEF StoreInv, NoStaleRecord
  <2>3. ASSUME NEW u \in Threads, u # t
        PROVE  pc'[u] = pc[u] /\ call'[u] = call[u] /\ before'[u] = before[u]
    BY <1>0, <1>1, <2>3 DEF TypeOK
  <2> QED BY <2>1, <2>2, <2>3 DEF StoreInv, Writer
<1>7. MissesAreReal'
  <2>1. pc'[t] # "miss"
    BY <1>0, <1>1, <1>2 DEF TypeOK, FirstLabel
  <2>2. ASSUME NEW u \in Threads, u # t
        PROVE  pc'[u] = pc[u] /\ call'[u] = call[u] /\ before'[u] = before[u]
    BY <1>0, <1>1, <2>2 DEF TypeOK
  <2> QED BY <1>1, <2>1, <2>2 DEF IInv, MissesAreReal
<1> QED BY <1>3, <1>4, <1>5, <1>6, <1>7 DEF IInv

(* A step that is not a write's keeps what the writes know of the records. *)
LEMMA StoreFrame ==
  ASSUME TypeOK, StoreInv, UNCHANGED <<store, obsolete, before, call>>,
         \A u \in Threads :
           pc'[u] \in {"put", "return"} /\ IsWrite(call[u]) =>
             pc[u] \in {"put", "return"} /\ idx'[u] = idx[u]
  PROVE  StoreInv'
<1>1. NoStaleRecord'
  BY DEF StoreInv, NoStaleRecord
<1>2. ASSUME NEW u \in Threads,
             pc'[u] \in {"put", "return"}, IsWrite(call'[u]), idx'[u] > 1
      PROVE  /\ store'[call'[u].key] # NULL
             /\ Writer(store'[call'[u].key]) \notin before'[u][call'[u].key]
  <2>1. pc[u] \in {"put", "return"} /\ IsWrite(call[u]) /\ idx[u] > 1
    BY <1>2
  <2> QED BY <2>1 DEF StoreInv
<1> QED BY <1>1, <1>2 DEF StoreInv

(* A step that is not a miss's keeps what is known of the misses.          *)
LEMMA MissFrame ==
  ASSUME MissesAreReal, UNCHANGED <<before, call, deleted>>,
         \A u \in Threads : pc'[u] = "miss" => pc[u] = "miss"
  PROVE  MissesAreReal'
BY DEF MissesAreReal

(* A Get that finds the record changes the client only.                    *)
LEMMA ReadHitInv ==
  ASSUME IInv, NEW t \in Threads, ReadHit(t)
  PROVE  IInv'
<1> USE KvAssumption DEF ReadHit, Finish, history
<1>0. TypeOK /\ CallInv
  BY DEF IInv
<1>1. call[t].op = "Read"
  BY <1>0 DEF CallInv
<1>3. TypeOK'
  BY <1>0 DEF TypeOK
<1>4. CallInv'
  BY <1>0, <1>1 DEF TypeOK, CallInv, IsWrite
<1>5. HistoryInv'
  BY <1>0 DEF TypeOK, IInv, HistoryInv
<1>6. StoreInv'
  <2>1. ASSUME NEW u \in Threads, pc'[u] \in {"put", "return"}, IsWrite(call[u])
        PROVE  pc[u] \in {"put", "return"} /\ idx'[u] = idx[u]
    BY <1>0, <1>1, <2>1 DEF TypeOK, IsWrite
  <2> QED BY <1>0, <2>1, StoreFrame DEF IInv
<1>7. MissesAreReal'
  <2>1. ASSUME NEW u \in Threads, pc'[u] = "miss" PROVE pc[u] = "miss"
    BY <1>0, <2>1 DEF TypeOK
  <2> QED BY <2>1, MissFrame DEF IInv
<1> QED BY <1>3, <1>4, <1>5, <1>6, <1>7 DEF IInv

(* A Get that finds nothing goes on to count the miss.                     *)
LEMMA ReadMissInv ==
  ASSUME IInv, NEW t \in Threads, ReadMiss(t)
  PROVE  IInv'
<1> USE KvAssumption DEF ReadMiss, Goto, history
<1>0. TypeOK /\ CallInv
  BY DEF IInv
<1>1. call[t].op = "Read"
  BY <1>0 DEF CallInv
<1>3. TypeOK'
  BY <1>0 DEF TypeOK
<1>4. CallInv'
  BY <1>0, <1>1 DEF TypeOK, CallInv, IsWrite
<1>5. HistoryInv'
  BY <1>0 DEF TypeOK, IInv, HistoryInv
<1>6. StoreInv'
  <2>1. ASSUME NEW u \in Threads, pc'[u] \in {"put", "return"}, IsWrite(call[u])
        PROVE  pc[u] \in {"put", "return"} /\ idx'[u] = idx[u]
    BY <1>0, <1>1, <2>1 DEF TypeOK, IsWrite
  <2> QED BY <1>0, <2>1, StoreFrame DEF IInv
<1>7. MissesAreReal'
  <2>1. before[t][call[t].key] = {}
    BY CallFacts DEF IInv, HistoryInv
  <2>2. ASSUME NEW u \in Threads, u # t PROVE pc'[u] = pc[u]
    BY <1>0, <2>2 DEF TypeOK
  <2> QED BY <2>1, <2>2 DEF IInv, MissesAreReal
<1> QED BY <1>3, <1>4, <1>5, <1>6, <1>7 DEF IInv

(* Counting the miss touches noResult only.                                *)
LEMMA CountMissInv ==
  ASSUME IInv, NEW t \in Threads, CountMiss(t)
  PROVE  IInv'
<1> USE KvAssumption DEF CountMiss, Finish, MissStatus, history
<1>0. TypeOK /\ CallInv
  BY DEF IInv
<1>1. call[t].op = "Read"
  BY <1>0 DEF CallInv
<1>3. TypeOK'
  BY <1>0 DEF TypeOK
<1>4. CallInv'
  BY <1>0, <1>1 DEF TypeOK, CallInv, IsWrite
<1>5. HistoryInv'
  BY <1>0 DEF TypeOK, IInv, HistoryInv
<1>6. StoreInv'
  <2>1. ASSUME NEW u \in Threads, pc'[u] \in {"put", "return"}, IsWrite(call[u])
        PROVE  pc[u] \in {"put", "return"} /\ idx'[u] = idx[u]
    BY <1>0, <1>1, <2>1 DEF TypeOK, IsWrite
  <2> QED BY <1>0, <2>1, StoreFrame DEF IInv
<1>7. MissesAreReal'
  <2>1. ASSUME NEW u \in Threads, pc'[u] = "miss" PROVE pc[u] = "miss"
    BY <1>0, <2>1 DEF TypeOK
  <2> QED BY <2>1, MissFrame DEF IInv
<1> QED BY <1>3, <1>4, <1>5, <1>6, <1>7 DEF IInv

(* A new iterator changes the scan only.                                   *)
LEMMA SeekInv ==
  ASSUME IInv, NEW t \in Threads, Seek(t)
  PROVE  IInv'
<1> USE KvAssumption DEF Seek, Goto, history
<1>0. TypeOK /\ CallInv
  BY DEF IInv
<1>1. call[t].op = "Scan"
  BY <1>0 DEF CallInv
<1>3. TypeOK'
  BY <1>0 DEF TypeOK, KeysFrom
<1>4. CallInv'
  BY <1>0, <1>1 DEF TypeOK, CallInv, IsWrite
<1>5. HistoryInv'
  BY <1>0 DEF TypeOK, IInv, HistoryInv
<1>6. StoreInv'
  <2>1. ASSUME NEW u \in Threads, pc'[u] \in {"put", "return"}, IsWrite(call[u])
        PROVE  pc[u] \in {"put", "return"} /\ idx'[u] = idx[u]
    BY <1>0, <1>1, <2>1 DEF TypeOK, IsWrite
  <2> QED BY <1>0, <2>1, StoreFrame DEF IInv
<1>7. MissesAreReal'
  <2>1. ASSUME NEW u \in Threads, pc'[u] = "miss" PROVE pc[u] = "miss"
    BY <1>0, <2>1 DEF TypeOK
  <2> QED BY <2>1, MissFrame DEF IInv
<1> QED BY <1>3, <1>4, <1>5, <1>6, <1>7 DEF IInv

(* The iterator moves on; the scan makes no more turns than its length.    *)
LEMMA ScanNextInv ==
  ASSUME IInv, NEW t \in Threads, ScanNext(t)
  PROVE  IInv'
<1> USE KvAssumption DEF ScanNext, history
<1>0. TypeOK /\ CallInv
  BY DEF IInv
<1>1. /\ call[t].op = "Scan" /\ call[t].len \in 0 .. MaxScanLength
      /\ idx[t] \in 1 .. MaxTurns /\ MaxTurns \in Nat
  BY <1>0, CallFacts, TurnsType, ClientAssumption DEF CallInv, Scanning, TypeOK
<1>2. PICK k \in it[t] : it' = [it EXCEPT ![t] = @ \ {k}]
  OBVIOUS
<1>3. TypeOK'
  <2>1. idx[t] + 1 \in 1 .. MaxTurns + 1
    BY <1>1
  <2>2. idx' \in [Threads -> 1 .. MaxTurns + 1]
    BY <1>0, <2>1 DEF TypeOK
  <2> QED BY <1>0, <1>2, <2>2 DEF TypeOK
<1>4. CallInv'
  BY <1>0, <1>1, <1>2 DEF TypeOK, CallInv, IsWrite
<1>5. HistoryInv'
  BY <1>0 DEF TypeOK, IInv, HistoryInv
<1>6. StoreInv'
  <2>1. ASSUME NEW u \in Threads, pc'[u] \in {"put", "return"}, IsWrite(call[u])
        PROVE  pc[u] \in {"put", "return"} /\ idx'[u] = idx[u]
    BY <1>0, <1>1, <2>1 DEF TypeOK, IsWrite
  <2> QED BY <1>0, <2>1, StoreFrame DEF IInv
<1>7. MissesAreReal'
  <2>1. ASSUME NEW u \in Threads, pc'[u] = "miss" PROVE pc[u] = "miss"
    BY <1>0, <2>1 DEF TypeOK
  <2> QED BY <2>1, MissFrame DEF IInv
<1> QED BY <1>3, <1>4, <1>5, <1>6, <1>7 DEF IInv

(* The loop ends at the scan length or with an empty iterator.             *)
LEMMA ScanDoneInv ==
  ASSUME IInv, NEW t \in Threads, ScanDone(t)
  PROVE  IInv'
<1> USE KvAssumption DEF ScanDone, Finish, history
<1>0. TypeOK /\ CallInv
  BY DEF IInv
<1>1. call[t].op = "Scan"
  BY <1>0 DEF CallInv
<1>3. TypeOK'
  BY <1>0 DEF TypeOK
<1>4. CallInv'
  BY <1>0, <1>1 DEF TypeOK, CallInv, IsWrite
<1>5. HistoryInv'
  BY <1>0 DEF TypeOK, IInv, HistoryInv
<1>6. StoreInv'
  <2>1. ASSUME NEW u \in Threads, pc'[u] \in {"put", "return"}, IsWrite(call[u])
        PROVE  pc[u] \in {"put", "return"} /\ idx'[u] = idx[u]
    BY <1>0, <1>1, <2>1 DEF TypeOK, IsWrite
  <2> QED BY <1>0, <2>1, StoreFrame DEF IInv
<1>7. MissesAreReal'
  <2>1. ASSUME NEW u \in Threads, pc'[u] = "miss" PROVE pc[u] = "miss"
    BY <1>0, <2>1 DEF TypeOK
  <2> QED BY <2>1, MissFrame DEF IInv
<1> QED BY <1>3, <1>4, <1>5, <1>6, <1>7 DEF IInv

(* The call whose Put it is has not returned, so it is in no history.      *)
LEMMA RunningNotFinished ==
  ASSUME IInv, NEW t \in Threads, pc[t] # "idle", NEW k \in Keys
  PROVE  /\ <<t, num[t]>> \notin obsolete[k]
         /\ \A u \in Threads : <<t, num[t]>> \notin before[u][k]
<1>1. num[t] \in 1 .. MaxCalls
  BY CallFacts
<1>2. <<t, num[t]>> \notin finished[k]
  BY <1>1 DEF IInv, HistoryInv
<1> QED BY <1>2 DEF IInv, HistoryInv

(* A Put leaves a value of a call that is not over.                        *)
LEMMA PutInv ==
  ASSUME IInv, NEW t \in Threads, Put(t)
  PROVE  IInv'
<1> DEFINE K == call[t].key
           V == <<t, num[t], Values(call[t])[idx[t]]>>
<1> USE KvAssumption DEF Put, history
<1>0. TypeOK /\ CallInv
  BY DEF IInv
<1>1. /\ pc[t] = "put" /\ call[t].op \in {"Insert", "Update", "Delete"}
      /\ idx[t] \in Nat /\ idx[t] >= 1 /\ idx[t] <= Len(Values(call[t]))
      /\ Values(call[t]) \in Seq(Fields)
      /\ K \in Keys /\ num[t] \in 1 .. MaxCalls
      /\ store' = [store EXCEPT ![K] = V]
  BY <1>0, CallFacts, TurnsType DEF CallInv, Writing, TypeOK
<1>2. /\ V \in Threads \X (1 .. MaxCalls) \X Fields /\ V # NULL
      /\ store'[K] = V /\ \A l \in Keys : l # K => store'[l] = store[l]
      /\ V[1] = t /\ V[2] = num[t] /\ V[3] = Values(call[t])[idx[t]]
  <2>1. Values(call[t])[idx[t]] \in Fields
    BY <1>1
  <2> QED BY <1>0, <1>1, <2>1 DEF TypeOK
<1> HIDE DEF V
<1>3. TypeOK'
  <2>1. idx[t] + 1 \in 1 .. MaxTurns + 1
    BY <1>1, TurnsType, CallFacts, FieldCountType
  <2>2. idx' \in [Threads -> 1 .. MaxTurns + 1]
    BY <1>0, <2>1 DEF TypeOK
  <2> QED BY <1>0, <1>1, <1>2, <2>2 DEF TypeOK
<1>4. CallInv'
  BY <1>0, <1>1 DEF TypeOK, CallInv
<1>5. HistoryInv'
  BY <1>0, <1>1, <1>2 DEF TypeOK, IInv, HistoryInv
<1>6. StoreInv'
  <2>1. Writer(V) = <<t, num[t]>>
    BY <1>2 DEF Writer
  <2>2. NoStaleRecord'
    BY <1>1, <1>2, RunningNotFinished DEF IInv, StoreInv, NoStaleRecord
  <2>3. ASSUME NEW u \in Threads,
               pc[u] \in {"put", "return"}, IsWrite(call[u]), idx'[u] > 1
        PROVE  /\ store'[call[u].key] # NULL
               /\ Writer(store'[call[u].key]) \notin before[u][call[u].key]
    <3>1. CASE call[u].key = K
      <4>1. <<t, num[t]>> \notin before[u][K]
        BY <1>1, RunningNotFinished
      <4> QED BY <1>2, <2>1, <3>1, <4>1
    <3>2. CASE call[u].key # K
      <4>1. u # t /\ idx[u] > 1
        BY <1>0, <2>3, <3>2 DEF TypeOK
      <4>2. call[u].key \in Keys
        BY <2>3, CallFacts
      <4> QED BY <1>2, <2>3, <3>2, <4>1, <4>2 DEF IInv, StoreInv
    <3> QED BY <3>1, <3>2
  <2> QED BY <2>2, <2>3 DEF StoreInv
<1>7. MissesAreReal'
  <2>1. ASSUME NEW u \in Threads, pc'[u] = "miss" PROVE pc[u] = "miss"
    BY <1>0, <2>1 DEF TypeOK
  <2> QED BY <2>1, MissFrame DEF IInv
<1> QED BY <1>3, <1>4, <1>5, <1>6, <1>7 DEF IInv

(* A write that is done has Put at least one value.                        *)
LEMMA InsertDoneInv ==
  ASSUME IInv, NEW t \in Threads, InsertDone(t)
  PROVE  IInv'
<1> USE KvAssumption DEF InsertDone, Finish, history
<1>0. TypeOK /\ CallInv
  BY DEF IInv
<1>1. /\ pc[t] = "put" /\ call[t].op \in {"Insert", "Update", "Delete"}
      /\ idx[t] \in Nat
      /\ idx[t] = Len(Values(call[t])) + 1
      /\ Values(call[t]) \in Seq(Fields)
  BY <1>0, CallFacts, TurnsType DEF CallInv, Writing, TypeOK
<1>2. IsWrite(call[t]) => idx[t] > 1
  BY <1>1, CallFacts
<1>3. TypeOK'
  BY <1>0 DEF TypeOK
<1>4. CallInv'
  BY <1>0, <1>1, <1>2 DEF TypeOK, CallInv
<1>5. HistoryInv'
  BY <1>0 DEF TypeOK, IInv, HistoryInv
<1>6. StoreInv'
  <2>1. ASSUME NEW u \in Threads, pc'[u] \in {"put", "return"}, IsWrite(call[u])
        PROVE  pc[u] \in {"put", "return"} /\ idx'[u] = idx[u]
    BY <1>0, <1>1, <2>1 DEF TypeOK
  <2> QED BY <1>0, <2>1, StoreFrame DEF IInv
<1>7. MissesAreReal'
  <2>1. ASSUME NEW u \in Threads, pc'[u] = "miss" PROVE pc[u] = "miss"
    BY <1>0, <2>1 DEF TypeOK
  <2> QED BY <2>1, MissFrame DEF IInv
<1> QED BY <1>3, <1>4, <1>5, <1>6, <1>7 DEF IInv

(* exit(0) changes nothing but the process.                                *)
LEMMA DbErrorInv ==
  ASSUME IInv, NEW t \in Threads, DbError(t)
  PROVE  IInv'
<1> USE DEF DbError, local, history
<1>1. TypeOK'
  BY DEF IInv, TypeOK
<1>2. CallInv' /\ HistoryInv'
  BY DEF IInv, CallInv, HistoryInv
<1>3. StoreInv'
  BY StoreFrame DEF IInv
<1>4. MissesAreReal'
  BY MissFrame DEF IInv
<1> QED BY <1>1, <1>2, <1>3, <1>4 DEF IInv

(* A step that changes nothing keeps the invariant.                        *)
LEMMA StutterInv ==
  ASSUME IInv, UNCHANGED vars
  PROVE  IInv'
<1> USE DEF vars, local, history
<1>1. TypeOK'
  BY DEF IInv, TypeOK
<1>2. CallInv' /\ HistoryInv'
  BY DEF IInv, CallInv, HistoryInv
<1>3. StoreInv'
  BY StoreFrame DEF IInv
<1>4. MissesAreReal'
  BY MissFrame DEF IInv
<1> QED BY <1>1, <1>2, <1>3, <1>4 DEF IInv

(* A write that returns makes those before it obsolete.                    *)
LEMMA ReturnInv ==
  ASSUME IInv, NEW t \in Threads, Return(t)
  PROVE  IInv'
<1> DEFINE K == call[t].key
<1> USE KvAssumption DEF Goto
<1>0. TypeOK /\ CallInv /\ HistoryInv /\ StoreInv
  BY DEF IInv
<1>1. /\ pc[t] = "return" /\ K \in Keys /\ num[t] \in 1 .. MaxCalls
      /\ <<t, num[t]>> \in Write
  BY CallFacts DEF Return, Write
<1>2. /\ pc' = [pc EXCEPT ![t] = "idle"]
      /\ call' = [call EXCEPT ![t] = NULL]
      /\ idx' = [idx EXCEPT ![t] = 1]
      /\ seen' = [seen EXCEPT ![t] = 0]
      /\ it' = [it EXCEPT ![t] = {}]
      /\ status' = [status EXCEPT ![t] = NULL]
      /\ before' = [before EXCEPT ![t] = NoWrites]
      /\ UNCHANGED <<store, noResult, proc, num, deleted>>
  BY DEF Return
<1>3. /\ finished' \in [Keys -> SUBSET Write] /\ obsolete' \in [Keys -> SUBSET Write]
      /\ \A k \in Keys : /\ obsolete'[k] \subseteq finished'[k]
                         /\ finished[k] \subseteq finished'[k]
                         /\ finished'[k] # {} => store[k] # NULL
      /\ \A u \in Threads, k \in Keys, n \in 1 .. MaxCalls :
           <<u, n>> \in finished'[k] => <<u, n>> \in finished[k] \/ (u = t /\ n = num[t])
      /\ NoStaleRecord'
  <2>1. CASE IsWrite(call[t])
    <3>1. /\ finished' = [finished EXCEPT ![K] = @ \cup {<<t, num[t]>>}]
          /\ obsolete' = [obsolete EXCEPT ![K] = @ \cup before[t][K]]
      BY <2>1 DEF Return
    <3>2. /\ store[K] # NULL
          /\ Writer(store[K]) \notin before[t][K]
      BY <1>0, <1>1, <2>1 DEF CallInv, StoreInv
    <3>3. /\ finished'[K] = finished[K] \cup {<<t, num[t]>>}
          /\ obsolete'[K] = obsolete[K] \cup before[t][K]
          /\ \A k \in Keys \ {K} : finished'[k] = finished[k] /\ obsolete'[k] = obsolete[k]
          /\ finished' \in [Keys -> SUBSET Write] /\ obsolete' \in [Keys -> SUBSET Write]
      <4> HIDE DEF K
      <4>1. /\ finished \in [Keys -> SUBSET Write] /\ obsolete \in [Keys -> SUBSET Write]
            /\ before[t][K] \subseteq Write /\ {<<t, num[t]>>} \subseteq Write
        BY <1>0, <1>1 DEF TypeOK
      <4>2. /\ finished' \in [Keys -> SUBSET Write]
            /\ finished'[K] = finished[K] \cup {<<t, num[t]>>}
            /\ \A k \in Keys \ {K} : finished'[k] = finished[k]
        BY <1>1, <3>1, <4>1
      <4>3. /\ obsolete' \in [Keys -> SUBSET Write]
            /\ obsolete'[K] = obsolete[K] \cup before[t][K]
            /\ \A k \in Keys \ {K} : obsolete'[k] = obsolete[k]
        BY <1>1, <3>1, <4>1
      <4> QED BY <4>2, <4>3
    <3>4. \A k \in Keys : /\ obsolete'[k] \subseteq finished'[k]
                          /\ finished[k] \subseteq finished'[k]
      BY <1>0, <1>1, <3>3 DEF HistoryInv
    <3>5. \A k \in Keys : finished'[k] # {} => store[k] # NULL
      BY <1>0, <1>1, <3>2, <3>3 DEF HistoryInv
    <3>6. \A u \in Threads, k \in Keys, n \in 1 .. MaxCalls :
            <<u, n>> \in finished'[k] => <<u, n>> \in finished[k] \/ (u = t /\ n = num[t])
      <4>1. ASSUME NEW u, NEW k \in Keys, NEW n, <<u, n>> \in finished'[k]
            PROVE  <<u, n>> \in finished[k] \/ <<u, n>> = <<t, num[t]>>
        BY <3>3, <4>1
      <4> QED BY <4>1
    <3>7. NoStaleRecord'
      BY <1>0, <1>1, <1>2, <3>2, <3>3 DEF StoreInv, NoStaleRecord, Writer
    <3> QED BY <3>3, <3>4, <3>5, <3>6, <3>7
  <2>2. CASE ~ IsWrite(call[t])
    <3>1. UNCHANGED <<finished, obsolete>>
      BY <2>2 DEF Return
    <3> QED BY <1>0, <1>2, <3>1 DEF TypeOK, HistoryInv, StoreInv, NoStaleRecord
  <2> QED BY <2>1, <2>2
<1>4. /\ pc'[t] = "idle" /\ idx'[t] = 1 /\ before'[t] = NoWrites
      /\ \A u \in Threads \ {t} :
           /\ pc'[u] = pc[u] /\ idx'[u] = idx[u] /\ call'[u] = call[u]
           /\ before'[u] = before[u]
  BY <1>0, <1>2 DEF TypeOK
<1>5. TypeOK'
  BY <1>0, <1>2, <1>3, TurnsType DEF TypeOK, NoWrites
<1>6. CallInv'
  BY <1>0, <1>2, <1>4 DEF CallInv
<1>7. HistoryInv'
  <2>1. \A k \in Keys, u \in Threads : before'[u][k] \subseteq finished'[k]
    BY <1>0, <1>3, <1>4 DEF HistoryInv, NoWrites
  <2>2. ASSUME NEW u \in Threads, NEW k \in Keys, NEW n \in 1 .. MaxCalls,
               <<u, n>> \in finished'[k]
        PROVE  n <= num[u] /\ (pc'[u] # "idle" => n < num[u])
    <3>1. CASE u = t /\ n = num[t]
      BY <1>1, <1>4, <3>1
    <3>2. CASE <<u, n>> \in finished[k]
      BY <1>0, <1>4, <3>2 DEF HistoryInv
    <3> QED BY <1>3, <2>2, <3>1, <3>2
  <2> QED BY <1>2, <1>3, <2>1, <2>2 DEF HistoryInv
<1>8. StoreInv'
  BY <1>0, <1>2, <1>3, <1>4 DEF StoreInv
<1>9. MissesAreReal'
  BY <1>2, <1>4 DEF IInv, MissesAreReal
<1> QED BY <1>5, <1>6, <1>7, <1>8, <1>9 DEF IInv

(* Every step keeps the invariant.                                         *)
LEMMA NextInv == IInv /\ [Next]_vars => IInv'
<1> SUFFICES ASSUME IInv, [Next]_vars PROVE IInv'
  OBVIOUS
<1>1. CASE UNCHANGED vars
  BY <1>1, StutterInv
<1>2. ASSUME NEW t \in Threads, Step(t) PROVE IInv'
  BY <1>2, InvokeInv, ReturnInv, ReadHitInv, ReadMissInv, CountMissInv, SeekInv,
     ScanNextInv, ScanDoneInv, PutInv, InsertDoneInv, DbErrorInv DEF Step
<1> QED BY <1>1, <1>2 DEF Next

-----------------------------------------------------------------------------
(* The theorems *)

(***************************************************************************)
(* Every reachable state of the adapters satisfies the invariant: where a  *)
(* call of Read, Scan, Insert, Update or Delete is, which writes are over, *)
(* whose value a key holds and what a Read that misses could have found.   *)
(***************************************************************************)
THEOREM Invariance == Spec => []IInv
BY InitInv, NextInv, PTL DEF Spec

(***************************************************************************)
(* The variables keep their types, and the loops of Scan and of the writes *)
(* make no more turns than their length and their values give them.        *)
(***************************************************************************)
THEOREM TypeCorrect == Spec => []TypeOK
<1>1. IInv => TypeOK
  BY DEF IInv
<1> QED BY <1>1, Invariance, PTL

(***************************************************************************)
(* However the Puts of the loops of Insert and Update interleave, a record *)
(* is never left with a value of a write that had returned before another, *)
(* since finished, write of the record began.                              *)
(***************************************************************************)
THEOREM RecordsNeverGoBack == Spec => []NoStaleRecord
<1>1. IInv => NoStaleRecord
  BY DEF IInv, StoreInv
<1> QED BY <1>1, Invariance, PTL

(***************************************************************************)
(* For any number of clients and calls, a Read finds no record only if no  *)
(* write of it had returned when it was called, or a Delete was called.    *)
(***************************************************************************)
THEOREM NoFalseMiss == Spec => []MissesAreReal
<1>1. IInv => MissesAreReal
  BY DEF IInv
<1> QED BY <1>1, Invariance, PTL
=============================================================================
