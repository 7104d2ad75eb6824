------------------------- MODULE HashtableSafeProofs ------------------------
(***************************************************************************)
(* Theorems about HashtableDB: whatever calls overlap, the records that no *)
(* clashing calls have worked on at once come to no harm.                  *)
(***************************************************************************)
EXTENDS HashtableProofs

-----------------------------------------------------------------------------
(* What Safe excludes *)

(* Which operations may work on a record beside another.                   *)
LEMMA SafePairs ==
  ASSUME NEW a, NEW b, {a, b} \in Safe
  PROVE  /\ a = "Delete" => b = "Delete"
         /\ a = "Update" => b = "Update"
         /\ a = "Insert" => b \in {"Read", "Scan"}
         /\ a \in {"Read", "Scan"} => b \in {"Read", "Scan", "Insert"}
<1>1. \/ {a, b} = {"Read"} \/ {a, b} = {"Scan"} \/ {a, b} = {"Update"}
      \/ {a, b} = {"Delete"} \/ {a, b} = {"Read", "Scan"}
      \/ {a, b} = {"Insert", "Read"} \/ {a, b} = {"Insert", "Scan"}
  BY DEF Safe
<1>2. ASSUME NEW c, NEW d, {a, b} = {c, d}
      PROVE  (a = c /\ b = d) \/ (a = d /\ b = c)
  <2>1. a \in {c, d} /\ b \in {c, d} /\ c \in {a, b} /\ d \in {a, b}
    BY <1>2
  <2> QED BY <2>1
<1>3. \A c : {a, b} = {c} => a = c /\ b = c
  OBVIOUS
<1> QED BY <1>1, <1>2, <1>3

(* Two calls in progress on a record that is not raced are such a pair.    *)
LEMMA NoOverlap ==
  ASSUME TypeOK, CallInv, ExclusionInv,
         NEW t \in Threads, NEW u \in Threads, t # u,
         pc[t] # "idle", pc[u] # "idle", NEW k \in Keys \ raced,
         k \in Touches(call[t]), k \in Touches(call[u])
  PROVE  /\ call[t].op = "Delete" => call[u].op = "Delete"
         /\ call[t].op = "Update" => call[u].op = "Update" /\ Complete(k)
         /\ call[t].op = "Insert" => call[u].op \in {"Read", "Scan"}
         /\ call[t].op \in {"Read", "Scan"} =>
              call[u].op \in {"Read", "Scan", "Insert"}
<1>1. ~ Clash(call[t], call[u], k)
  BY DEF ExclusionInv, Busy
<1>2. /\ {call[t].op, call[u].op} \in Safe
      /\ {call[t].op, call[u].op} = {"Update"} => Complete(k)
  BY <1>1 DEF Clash
<1> QED BY <1>2, SafePairs

(* A call other than a Scan touches the record of its key, a Scan all.     *)
LEMMA TouchesKey ==
  ASSUME TypeOK, CallInv, NEW t \in Threads, pc[t] # "idle"
  PROVE  /\ call[t].key \in Touches(call[t])
         /\ Touches(call[t]) \subseteq Keys
         /\ call[t].op # "Scan" => Touches(call[t]) = {call[t].key}
BY CallFacts DEF Touches

(* A complete record stays complete while its table stays.                 *)
LEMMA CompleteStays ==
  ASSUME HeapInv, NEW t \in Threads, Invoke(t) \/ Step(t),
         NEW k \in Keys, Complete(k), key_table'[k] = key_table[k]
  PROVE  Complete(k)'
<1>0. TypeOK /\ CallInv /\ LiveInv
  BY DEF HeapInv
<1>1. key_table[k] \in TableId /\ NextFieldName \subseteq Fields
  BY <1>0 DEF Complete, TypeOK, Fields
<1>2. \A f \in Fields :
        fields[key_table[k]][f] # NULL => fields'[key_table[k]][f] # NULL
  <2>1. CASE fields' = fields
    BY <2>1
  <2>2. CASE StoresValue(t)
    BY <2>2, <1>0, <1>1, StoredValue, PointersAreNotNull
  <2>3. CASE DeleteTable(t)
    <3>1. key_table[k] # field_table[t]
      BY <2>3, <1>0 DEF DeleteTable, LiveInv, Linked
    <3> QED BY <2>3, <3>1, <1>0, <1>1 DEF DeleteTable, TypeOK
  <2> QED BY <2>1, <2>2, <2>3, <1>0, FieldSteps
<1> QED BY <1>1, <1>2 DEF Complete

(* A raced record stays raced, and only Invoke finds new ones.             *)
LEMMA RacedStep ==
  ASSUME NEW t \in Threads, Invoke(t) \/ Step(t)
  PROVE  raced \subseteq raced' /\ (~ Invoke(t) => raced' = raced)
<1>1. CASE Invoke(t)
  BY <1>1 DEF Invoke
<1>2. CASE ~ Invoke(t)
  BY <1>2 DEF Step, Return, ReadMissing, ReadFound, Scan, Fetch, CopyValue,
     ReadDone, WriterGet, CreateTable, InsertField, InsertConflict, ReplaceField,
     DeleteOld, UpdateMissing, AddField, WriteDone, RemoveMissing, RemoveRecord,
     DeleteEntries, DeleteEntry, DeleteTable
<1> QED BY <1>1, <1>2

(* A call that is past its first step was in progress before the last one. *)
LEMMA SameCall ==
  ASSUME TypeOK, CallInv, NEW t \in Threads, Invoke(t) \/ Step(t),
         NEW u \in Threads, pc'[u] \notin {"idle", "get", "scan", "remove"}
  PROVE  /\ pc[u] # "idle" /\ call'[u] = call[u]
         /\ raced \subseteq raced'
<1>1. CASE u # t
  <2>1. pc'[u] = pc[u] /\ call'[u] = call[u]
    BY <1>1, OtherLocals
  <2> QED BY <2>1, RacedStep
<1>2. CASE u = t
  <2>1. ~ Invoke(t)
    <3>1. \A c \in Calls : FirstLabel(c.op) \in {"get", "scan", "remove"}
      BY DEF FirstLabel
    <3> QED BY <1>2, <3>1 DEF Invoke, Goto, TypeOK
  <2>2. ~ Return(t)
    BY <1>2 DEF Return, Goto, TypeOK
  <2> QED BY <1>2, <2>1, <2>2, Transitions, RacedStep
<1> QED BY <1>1, <1>2

(* Calls that are in progress on a record that is not raced do not clash.  *)
LEMMA ExclusionStep ==
  ASSUME HeapInv, ExclusionInv, NEW t \in Threads, Invoke(t) \/ Step(t)
  PROVE  ExclusionInv'
<1>0. TypeOK /\ CallInv /\ LiveInv /\ TypeOK' /\ CallInv'
  BY HeapStep DEF HeapInv
<1> SUFFICES ASSUME NEW k \in Keys, k \notin raced',
                    NEW u \in Threads, NEW w \in Threads, u # w,
                    pc'[u] # "idle", pc'[w] # "idle",
                    k \in Touches(call'[u]), k \in Touches(call'[w])
             PROVE  /\ {call'[u].op, call'[w].op} \in Safe
                    /\ {call'[u].op, call'[w].op} = {"Update"} => Complete(k)'
  BY DEF ExclusionInv, Busy, Clash, Touches
<1>n. k \in Keys \ raced
  BY RacedStep
<1>1. CASE Invoke(t)
  <2>1. PICK c \in Calls :
          /\ raced' = raced \cup
               { l \in Keys : \E v \in Threads :
                   pc[v] # "idle" /\ Clash(c, call[v], l) }
          /\ call' = [call EXCEPT ![t] = c]
    BY <1>1 DEF Invoke
  <2>2. \A v \in Threads : pc[v] # "idle" => ~ Clash(c, call[v], k)
    BY <2>1
  <2>3. key_table' = key_table /\ fields' = fields
    BY <1>1 DEF Invoke, heap
  <2>4. Complete(k)' = Complete(k)
    BY <2>3 DEF Complete
  <2>5. CASE u # t /\ w # t
    <3>1. /\ pc[u] # "idle" /\ pc[w] # "idle"
          /\ call'[u] = call[u] /\ call'[w] = call[w]
      BY <2>5, <1>0, OtherLocals
    <3>2. ~ Clash(call[u], call[w], k)
      BY <1>n, <3>1 DEF ExclusionInv, Busy
    <3> QED BY <2>4, <3>1, <3>2 DEF Clash
  <2>6. CASE u = t
    <3>1. pc[w] # "idle" /\ call'[w] = call[w] /\ call'[u] = c
      BY <2>1, <2>6, <1>0, OtherLocals DEF TypeOK
    <3> QED BY <2>2, <2>4, <3>1 DEF Clash
  <2>7. CASE w = t
    <3>1. pc[u] # "idle" /\ call'[u] = call[u] /\ call'[w] = c
      BY <2>1, <2>7, <1>0, OtherLocals DEF TypeOK
    <3>2. {call'[u].op, call'[w].op} = {c.op, call[u].op}
      BY <3>1
    <3> QED BY <2>2, <2>4, <3>1, <3>2 DEF Clash
  <2> QED BY <2>5, <2>6, <2>7
<1>2. CASE ~ Invoke(t)
  <2>1. /\ pc[u] # "idle" /\ pc[w] # "idle"
        /\ call'[u] = call[u] /\ call'[w] = call[w]
    <3>1. \A v \in Threads : pc'[v] # "idle" => pc[v] # "idle" /\ call'[v] = call[v]
      <4>1. CASE Return(t)
        <5>1. pc'[t] = "idle"
          BY <4>1, <1>0 DEF Return, Goto, TypeOK
        <5> QED BY <5>1, <1>0, OtherLocals
      <4>2. CASE ~ Return(t)
        BY <1>2, <4>2, <1>0, Transitions, OtherLocals
      <4> QED BY <4>1, <4>2
    <3> QED BY <3>1
  <2>2. ~ Clash(call[u], call[w], k)
    BY <1>n, <2>1 DEF ExclusionInv, Busy
  <2>3. /\ {call[u].op, call[w].op} \in Safe
        /\ {call[u].op, call[w].op} = {"Update"} => Complete(k)
    BY <2>1, <2>2 DEF Clash
  <2>4. ASSUME {call[u].op, call[w].op} = {"Update"}
        PROVE  Complete(k)'
    <3>1. Complete(k)
      BY <2>3, <2>4
    <3>2. call[u].op = "Update"
      BY <2>4
    <3>3. ASSUME RemoveRecord(t), call[t].key = k PROVE FALSE
      <4>1. pc[t] # "idle" /\ call[t].op = "Delete"
        BY <3>3, <1>0 DEF RemoveRecord, Goto, CallInv
      <4>2. u # t
        BY <3>2, <4>1
      <4>3. k \in Touches(call[t]) /\ k \in Touches(call[u])
        BY <3>3, <4>1, <2>1, <1>0, TouchesKey
      <4> QED BY <3>2, <4>1, <4>2, <4>3, <2>1, <1>0, <1>n, NoOverlap
    <3>4. key_table'[k] = key_table[k]
      <4>1. key_table[k] # NULL
        BY <3>1 DEF Complete
      <4>2. CASE CreateTable(t)
        BY <4>1, <4>2, NewTableIsNew
      <4>3. CASE RemoveRecord(t)
        BY <3>3, <4>3, <1>0 DEF RemoveRecord, TypeOK
      <4> QED BY <4>2, <4>3, KeySteps
    <3> QED BY <3>1, <3>4, CompleteStays
  <2> QED BY <2>1, <2>3, <2>4
<1> QED BY <1>1, <1>2

-----------------------------------------------------------------------------
(* Writers and readers *)

(* The record of a call in progress, other than a Delete, is not removed.  *)
LEMMA RecordStays ==
  ASSUME HeapInv, ExclusionInv, NEW t \in Threads, Invoke(t) \/ Step(t),
         NEW u \in Threads, u # t, pc[u] # "idle", call[u].op # "Delete",
         NEW k \in Touches(call[u]), k \notin raced, key_table[k] # NULL
  PROVE  key_table'[k] = key_table[k]
<1>0. TypeOK /\ CallInv
  BY DEF HeapInv
<1>1. k \in Keys /\ k \in Keys \ raced
  BY <1>0, TouchesKey
<1>2. CASE CreateTable(t)
  BY <1>1, <1>2, NewTableIsNew
<1>3. CASE RemoveRecord(t)
  <2>1. pc[t] # "idle" /\ call[t].op = "Delete"
    BY <1>3, <1>0 DEF RemoveRecord, Goto, CallInv
  <2>2. k # call[t].key
    BY <2>1, <1>0, <1>1, NoOverlap, TouchesKey
  <2> QED BY <1>1, <1>3, <2>2, <1>0 DEF RemoveRecord, TypeOK
<1> QED BY <1>2, <1>3, KeySteps

(* A value goes into a table made for the writer's key; if that is not     *)
(* raced, into the table of the key.                                       *)
LEMMA StoresInRecord ==
  ASSUME HeapInv, WriterInv, NEW t \in Threads, StoresValue(t)
  PROVE  /\ call[t].key \in Keys /\ pc[t] # "idle"
         /\ call[t].op \in {"Insert", "Update"}
         /\ field_table[t] # NULL /\ field_table[t][3] = call[t].key
         /\ \A k \in Keys : key_table[k] = field_table[t] => k = call[t].key
         /\ call[t].key \notin raced => key_table[call[t].key] = field_table[t]
<1>1. pc[t] \in {"insert", "update", "add"}
  BY DEF StoresValue
<1>2. call[t].key \in Keys /\ call[t].op \in {"Insert", "Update"}
  BY <1>1, CallFacts DEF HeapInv, CallInv
<1>3. field_table[t] # NULL /\ field_table[t][3] = call[t].key
  BY <1>1 DEF HeapInv, HomeInv, LiveInv
<1>4. call[t].key \notin raced => key_table[call[t].key] = field_table[t]
  BY <1>1 DEF WriterInv
<1>5. \A k \in Keys : key_table[k] = field_table[t] => k = call[t].key
  BY <1>3 DEF HeapInv, HomeInv
<1> QED BY <1>1, <1>2, <1>3, <1>4, <1>5

(* If another call works on that record, both are Updates of a complete    *)
(* record, or the writer is an Insert and the other a reader.              *)
LEMMA StoresBeside ==
  ASSUME HeapInv, ExclusionInv, WriterInv, NEW t \in Threads, StoresValue(t),
         NEW u \in Threads, u # t, pc[u] # "idle",
         NEW k \in Touches(call[u]), k \notin raced, key_table[k] = field_table[t]
  PROVE  \/ call[t].op = "Update" /\ call[u].op = "Update" /\ Complete(k)
         \/ call[t].op = "Insert" /\ call[u].op \in {"Read", "Scan"}
<1>0. TypeOK /\ CallInv
  BY DEF HeapInv
<1>1. k \in Keys \ raced
  BY <1>0, TouchesKey
<1>2. k = call[t].key /\ k \in Touches(call[t]) /\ pc[t] # "idle"
  BY <1>0, <1>1, StoresInRecord, TouchesKey
<1> QED BY <1>0, <1>1, <1>2, NoOverlap, StoresInRecord

(* The table a writer works on is that of the key, and what an Update has  *)
(* found missing nobody else adds.                                         *)
LEMMA WriterStep ==
  ASSUME HeapInv, ExclusionInv, WriterInv,
         NEW t \in Threads, Invoke(t) \/ Step(t)
  PROVE  WriterInv'
<1>0. TypeOK /\ CallInv /\ LiveInv /\ TypeOK' /\ CallInv'
  BY HeapStep DEF HeapInv
<1>u. ASSUME NEW u \in Threads, call'[u].key \notin raced',
             pc'[u] \in {"create", "insert", "update", "free", "add"}
      PROVE  pc[u] # "idle" /\ call'[u] = call[u] /\ call[u].key \notin raced
  BY <1>0, <1>u, SameCall
<1>1. ASSUME NEW u \in Threads, call'[u].key \notin raced', pc'[u] = "create"
      PROVE  key_table'[call'[u].key] = NULL
  <2>1. CASE u = t
    <3>1. WriterGet(t)
      BY <1>0, <1>1, <2>1, Transitions
    <3> QED BY <1>0, <1>1, <2>1, <3>1 DEF WriterGet, Goto, heap, TypeOK
  <2>2. CASE u # t
    <3>1. /\ pc[u] = "create" /\ call'[u] = call[u]
          /\ call[u].op \in {"Insert", "Update"} /\ call[u].key \in Keys
          /\ call[u].key \notin raced /\ key_table[call[u].key] = NULL
      <4>1. pc[u] = "create" /\ call'[u] = call[u] /\ call[u].key \notin raced
        BY <1>0, <1>u, <1>1, <2>2, OtherLocals
      <4> QED BY <4>1, <1>0, CallFacts DEF CallInv, WriterInv
    <3>2. CASE CreateTable(t)
      <4>1. pc[t] = "create" /\ call[t].op \in {"Insert", "Update"}
        BY <3>2, <1>0 DEF CreateTable, Goto, CallInv
      <4>2. call[t].key # call[u].key
        <5>1. SUFFICES ASSUME call[t].key = call[u].key PROVE FALSE
          OBVIOUS
        <5>2. call[t].op = "Update" /\ Complete(call[t].key)
          BY <2>2, <3>1, <4>1, <5>1, <1>0, NoOverlap, TouchesKey
        <5> QED BY <3>1, <5>1, <5>2 DEF Complete
      <4> QED BY <3>1, <3>2, <4>2, NewTableIsNew
    <3>3. CASE RemoveRecord(t)
      BY <3>1, <3>3, <1>0 DEF RemoveRecord, TypeOK
    <3> QED BY <3>1, <3>2, <3>3, KeySteps
  <2> QED BY <2>1, <2>2
<1>2. ASSUME NEW u \in Threads, call'[u].key \notin raced',
             pc'[u] \in {"insert", "update", "free", "add"}
      PROVE  key_table'[call'[u].key] = field_table'[u]
  <2>0. pc[u] # "idle" /\ call'[u] = call[u] /\ call[u].key \notin raced
    BY <1>u, <1>2
  <2>1. CASE u # t
    <3>1. /\ pc[u] \in {"insert", "update", "free", "add"}
          /\ call'[u] = call[u] /\ field_table'[u] = field_table[u]
      BY <1>0, <1>2, <2>1, OtherLocals
    <3>2. /\ call[u].op \in {"Insert", "Update"}
          /\ key_table[call[u].key] = field_table[u] /\ field_table[u] # NULL
      BY <2>0, <3>1, <1>0 DEF CallInv, WriterInv, LiveInv
    <3> QED BY <2>0, <2>1, <3>1, <3>2, <1>0, RecordStays, TouchesKey
  <2>2. CASE u = t /\ WriterGet(t)
    BY <1>0, <2>2 DEF WriterGet, Goto, heap, TypeOK
  <2>3. CASE u = t /\ CreateTable(t)
    <3>1. key_table[call[t].key] = NULL
      BY <2>0, <2>3 DEF WriterInv, CreateTable, Goto
    <3>2. field_table'[t] = <<t, num[t], call[t].key>> /\ call' = call
      BY <2>3, <1>0 DEF CreateTable, TypeOK
    <3> QED BY <2>3, <3>1, <3>2, NewTableIsNew
  <2>4. CASE u = t /\ ~ WriterGet(t) /\ ~ CreateTable(t)
    <3>1. \/ InsertField(t) \/ InsertConflict(t) \/ DeleteOld(t) \/ AddField(t)
          \/ ReplaceField(t) \/ UpdateMissing(t)
      BY <1>0, <1>2, <2>4, Transitions
    <3>2. UNCHANGED <<key_table, call, field_table>>
          /\ pc[t] \in {"insert", "update", "free", "add"}
      BY <3>1 DEF InsertField, InsertConflict, DeleteOld, AddField, ReplaceField,
         UpdateMissing, Goto
    <3> QED BY <2>0, <2>4, <3>2 DEF WriterInv
  <2> QED BY <2>1, <2>2, <2>3, <2>4
<1>3. ASSUME NEW u \in Threads, u # t, call[u].key \notin raced,
             pc[u] \in {"insert", "add"}, call[u].op = "Update",
             NEW j \in idx[u] .. Len(call[u].fields),
             fields[field_table[u]][call[u].fields[j]] = NULL
      PROVE  fields'[field_table[u]][call[u].fields[j]] = NULL
  <2>1. /\ call[u] \in Calls /\ call[u].key \in Keys /\ idx[u] \in Nat /\ idx[u] >= 1
        /\ Len(call[u].fields) \in Nat
    BY <1>0, <1>3, CallFacts
  <2>2. j \in 1 .. Len(call[u].fields)
    BY <2>1
  <2>3. call[u].fields[j] \in NextFieldName /\ call[u].fields[j] \in Fields
    BY <1>3, <2>1, <2>2, WrittenFields DEF Fields
  <2>4. /\ key_table[call[u].key] = field_table[u] /\ field_table[u] \in TableId
        /\ call[u].key \in Touches(call[u])
    <3>1. pc[u] # "idle"
      BY <1>3
    <3>2. key_table[call[u].key] = field_table[u]
      BY <1>3, <3>1 DEF WriterInv
    <3>3. field_table[u] \in TableId
      BY <1>0, <1>3 DEF LiveInv, TypeOK
    <3> QED BY <1>0, <3>1, <3>2, <3>3, TouchesKey
  <2>5. ~ Complete(call[u].key)
    BY <1>3, <2>3, <2>4 DEF Complete
  <2>6. CASE fields' = fields
    BY <1>3, <2>6
  <2>7. CASE StoresValue(t)
    <3>1. field_table[t] # field_table[u]
      BY <1>3, <2>4, <2>5, <2>7, StoresBeside
    <3> QED BY <1>0, <1>3, <2>3, <2>4, <2>7, <3>1, StoredValue
  <2>8. CASE DeleteTable(t)
    BY <1>0, <1>3, <2>3, <2>4, <2>8 DEF DeleteTable, NoFields, TypeOK
  <2> QED BY <1>0, <2>6, <2>7, <2>8, FieldSteps
<1>4. ASSUME NEW u \in Threads, call'[u].key \notin raced',
             pc'[u] = "insert", call'[u].op = "Update",
             NEW j \in idx'[u] .. Len(call'[u].fields)
      PROVE  fields'[field_table'[u]][call'[u].fields[j]] = NULL
  <2>0. pc[u] # "idle" /\ call'[u] = call[u] /\ call[u].key \notin raced
    BY <1>u, <1>4
  <2>1. CASE u # t
    <3>1. /\ pc[u] = "insert" /\ call'[u] = call[u] /\ idx'[u] = idx[u]
          /\ field_table'[u] = field_table[u]
      BY <1>0, <1>4, <2>1, OtherLocals
    <3> QED BY <1>3, <1>4, <2>0, <2>1, <3>1 DEF WriterInv
  <2>2. CASE u = t
    <3>0. /\ call[t] \in Calls /\ call' = call /\ call[t].op = "Update"
          /\ idx[t] \in Nat /\ idx[t] >= 1 /\ Len(call[t].fields) \in Nat
          /\ pc[t] # "idle"
      <4>1. pc[t] # "idle" /\ call' = call
        BY <1>0, <1>4, <2>2, Transitions DEF WriterGet, CreateTable,
           InsertField, InsertConflict, Goto
      <4> QED BY <1>0, <1>4, <2>2, <4>1, CallFacts
    <3>1. CASE WriterGet(t)
      BY <1>0, <1>4, <2>2, <3>0, <3>1 DEF WriterGet, Goto, TypeOK
    <3>2. CASE CreateTable(t)
      <4>1. /\ field_table'[t] = <<t, num[t], call[t].key>> /\ fields' = fields
            /\ idx[t] = 1 /\ idx' = idx
        BY <1>0, <3>2 DEF CreateTable, Goto, TypeOK, CallInv
      <4>2. call[t].fields[j] \in Fields
        <5>1. j \in 1 .. Len(call[t].fields)
          BY <1>4, <2>2, <3>0, <4>1
        <5>2. call[t].fields \in Seq(Fields)
          BY <1>0, <3>0, CallFacts
        <5> QED BY <5>1, <5>2
      <4> QED BY <2>2, <3>0, <3>2, <4>1, <4>2, NewTableIsNew
    <3>3. CASE InsertField(t)
      <4>1. StoresValue(t) /\ pc[t] = "insert" /\ field_table' = field_table
            /\ idx'[t] = idx[t] + 1
        BY <1>0, <3>3 DEF InsertField, NextField, StoresValue, TypeOK
      <4>2. /\ j \in idx[t] .. Len(call[t].fields) /\ j # idx[t]
            /\ j \in 1 .. Len(call[t].fields) /\ idx[t] \in 1 .. Len(call[t].fields)
        BY <1>4, <2>2, <3>0, <4>1 DEF StoresValue, Writing
      <4>3. call[t].fields[j] # Field(t) /\ call[t].fields[j] \in Fields
        BY <3>0, <4>2, WrittenFields DEF Field, Fields
      <4>4. fields[field_table[t]][call[t].fields[j]] = NULL
        BY <2>0, <2>2, <3>0, <4>1, <4>2 DEF WriterInv
      <4> QED BY <1>0, <2>2, <3>0, <4>1, <4>3, <4>4, StoredValue
    <3>4. CASE InsertConflict(t)
      <4>1. pc[t] = "insert" /\ Writing(t) /\ Slot(t) # NULL
        BY <3>4 DEF InsertConflict
      <4>2. idx[t] \in idx[t] .. Len(call[t].fields)
        BY <3>0, <4>1 DEF Writing
      <4> QED BY <2>0, <2>2, <3>0, <4>1, <4>2 DEF WriterInv, Slot, Field
    <3> QED BY <1>0, <1>4, <2>2, <3>1, <3>2, <3>3, <3>4, Transitions
  <2> QED BY <2>1, <2>2
<1>5. ASSUME NEW u \in Threads, call'[u].key \notin raced', pc'[u] = "add"
      PROVE  Slot(u)' = NULL
  <2>0. pc[u] # "idle" /\ call'[u] = call[u] /\ call[u].key \notin raced
    BY <1>u, <1>5
  <2>1. CASE u = t
    BY <1>0, <1>5, <2>1, Transitions DEF UpdateMissing, Slot, Field
  <2>2. CASE u # t
    <3>1. /\ pc[u] = "add" /\ call'[u] = call[u] /\ idx'[u] = idx[u]
          /\ field_table'[u] = field_table[u]
      BY <1>0, <1>5, <2>2, OtherLocals
    <3>2. call[u].op = "Update" /\ idx[u] \in idx[u] .. Len(call[u].fields)
      <4>1. idx[u] \in Nat /\ Len(call[u].fields) \in Nat
        BY <1>0, <3>1, CallFacts
      <4> QED BY <1>0, <3>1, <4>1 DEF CallInv, Writing
    <3>3. fields[field_table[u]][call[u].fields[idx[u]]] = NULL
      BY <2>0, <3>1 DEF WriterInv, Slot, Field
    <3> QED BY <1>3, <2>0, <2>2, <3>1, <3>2, <3>3 DEF Slot, Field
  <2> QED BY <2>1, <2>2
<1> QED BY <1>1, <1>2, <1>4, <1>5 DEF WriterInv

(* An Insert stores a value in an empty slot only.                         *)
LEMMA InsertIntoEmpty ==
  ASSUME HeapInv, WriterInv, NEW t \in Threads, Invoke(t) \/ Step(t),
         StoresValue(t), ~ ReplaceField(t), call[t].key \notin raced
  PROVE  Slot(t) = NULL
<1>1. InsertField(t) \/ InsertConflict(t) \/ DeleteOld(t) \/ AddField(t) \/ WriterGet(t)
      \/ CreateTable(t)
  <2>1. pc'[t] \in {"insert", "update", "free"}
    BY DEF StoresValue
  <2> QED BY <2>1, Transitions DEF HeapInv
<1>2. CASE InsertField(t)
  BY <1>2 DEF InsertField
<1>3. CASE InsertConflict(t)
  <2>1. fields' = fields
    BY <1>3 DEF InsertConflict
  <2>2. fields[field_table[t]][Field(t)] = NewString(t)
    BY <2>1, StoredValue DEF HeapInv
  <2>3. IssuedString(NewString(t))
    BY <2>2, StoredValue, PointersAreNotNull DEF HeapInv, IssuedInv
  <2> QED BY <2>3, NewStringIsNew DEF HeapInv, StoresValue
<1>4. CASE AddField(t)
  BY <1>4 DEF AddField, Goto, WriterInv
<1>5. CASE DeleteOld(t) \/ WriterGet(t) \/ CreateTable(t)
  BY <1>5 DEF DeleteOld, WriterGet, CreateTable, Goto, StoresValue
<1> QED BY <1>1, <1>2, <1>3, <1>4, <1>5

(* The tables and strings a reader holds stay where they were.             *)
LEMMA ReaderStep ==
  ASSUME HeapInv, ExclusionInv, WriterInv, ReaderInv,
         NEW t \in Threads, Invoke(t) \/ Step(t)
  PROVE  ReaderInv'
<1>0. TypeOK /\ CallInv /\ LiveInv /\ HomeInv /\ TypeOK' /\ CallInv'
  BY HeapStep DEF HeapInv
<1> SUFFICES ASSUME NEW u \in Threads, pc'[u] = "read"
             PROVE  /\ \A j \in DOMAIN todo'[u] :
                         todo'[u][j].key \notin raced' =>
                           key_table'[todo'[u][j].key] = todo'[u][j].table
                    /\ \A h \in held'[u] :
                         h[1] \notin raced' =>
                           /\ key_table'[h[1]] # NULL
                           /\ fields'[key_table'[h[1]]][h[2]] = h[3]
  BY DEF ReaderInv
<1>r. raced \subseteq raced'
  BY RacedStep
<1>1. CASE u # t
  <2>1. /\ pc[u] = "read" /\ call'[u] = call[u]
        /\ todo'[u] = todo[u] /\ held'[u] = held[u]
    BY <1>0, <1>1, OtherLocals
  <2>2. call[u].op \in {"Read", "Scan"} /\ Touches(call[u]) \subseteq Keys
    BY <1>0, <2>1, TouchesKey DEF CallInv
  <2>3. \A k \in Touches(call[u]) :
          k \notin raced /\ key_table[k] # NULL => key_table'[k] = key_table[k]
    BY <1>1, <2>1, <2>2, RecordStays
  <2>4. ASSUME NEW j \in DOMAIN todo'[u], todo'[u][j].key \notin raced'
        PROVE  key_table'[todo'[u][j].key] = todo'[u][j].table
    <3>1. todo[u][j].table \in TableId
      <4>1. todo[u] \in Seq(ReadItem) /\ j \in DOMAIN todo[u]
        BY <1>0, <2>1, <2>4 DEF TypeOK
      <4>2. todo[u][j] \in ReadItem
        BY <4>1
      <4> QED BY <4>2 DEF ReadItem
    <3>2. /\ todo[u][j].key \in Touches(call[u]) /\ todo[u][j].key \notin raced
          /\ key_table[todo[u][j].key] = todo[u][j].table
      BY <1>0, <1>r, <2>1, <2>4 DEF ReaderInv, HomeInv
    <3> QED BY <2>1, <2>2, <2>3, <3>1, <3>2, PointersAreNotNull
  <2>5. ASSUME NEW h \in held'[u], h[1] \notin raced'
        PROVE  /\ key_table'[h[1]] # NULL
               /\ fields'[key_table'[h[1]]][h[2]] = h[3]
    <3>1. /\ h[1] \in Touches(call[u]) /\ h[1] \notin raced
          /\ key_table[h[1]] # NULL /\ fields[key_table[h[1]]][h[2]] = h[3]
      BY <1>0, <1>r, <2>1, <2>5 DEF ReaderInv, HomeInv
    <3>2. h[2] \in Fields /\ h[3] # NULL /\ key_table[h[1]] \in TableId
      BY <1>0, <2>1, <2>2, <2>5, <3>1, PointersAreNotNull DEF TypeOK
    <3>3. key_table'[h[1]] = key_table[h[1]]
      BY <2>3, <3>1
    <3>4. CASE fields' = fields
      BY <2>2, <3>1, <3>3, <3>4
    <3>5. CASE StoresValue(t)
      <4>1. ~ (key_table[h[1]] = field_table[t] /\ h[2] = Field(t))
        <5> SUFFICES ASSUME key_table[h[1]] = field_table[t], h[2] = Field(t)
                     PROVE  FALSE
          OBVIOUS
        <5>1. call[t].op = "Insert"
          BY <1>1, <2>1, <2>2, <3>1, <3>5, StoresBeside
        <5>2. ~ ReplaceField(t)
          BY <5>1, <1>0 DEF ReplaceField, Goto, CallInv
        <5>3. Slot(t) = NULL
          <6>1. h[1] = call[t].key
            BY <2>2, <3>1, <3>5, StoresInRecord
          <6> QED BY <3>1, <3>5, <5>2, <6>1, InsertIntoEmpty
        <5> QED BY <3>1, <3>2, <5>3 DEF Slot
      <4> QED BY <1>0, <2>2, <3>1, <3>2, <3>3, <3>5, <4>1, StoredValue
    <3>6. CASE DeleteTable(t)
      <4>1. key_table[h[1]] # field_table[t]
        BY <1>0, <2>2, <3>1, <3>6 DEF DeleteTable, LiveInv, Linked
      <4> QED BY <1>0, <2>2, <3>1, <3>2, <3>3, <3>6, <4>1 DEF DeleteTable, TypeOK
    <3> QED BY <1>0, <3>4, <3>5, <3>6, FieldSteps
  <2> QED BY <2>4, <2>5
<1>2. CASE u = t
  <2>1. pc[t] # "idle" /\ UNCHANGED <<key_table, fields, call>>
    BY <1>0, <1>2, Transitions DEF ReadFound, Scan, Fetch, CopyValue, Goto, heap
  <2>3. CASE ReadFound(t)
    <3>1. todo'[t] = <<Item(call[t].key)>> /\ held'[t] = {}
      BY <1>0, <2>3 DEF ReadFound, Goto, CallInv, TypeOK
    <3> QED BY <1>2, <2>1, <3>1 DEF Item
  <2>4. CASE Scan(t)
    <3>1. PICK ks : todo'[t] = [j \in DOMAIN ks |-> Item(ks[j])]
                    /\ ks \in Entries(call[t].key, call[t].len)
      BY <1>0, <2>4 DEF Scan, TypeOK
    <3>2. held'[t] = {}
      BY <1>0, <2>4 DEF Scan, Goto, CallInv
    <3> QED BY <1>2, <2>1, <3>1, <3>2 DEF Item
  <2>5. CASE CopyValue(t)
    <3>1. /\ held'[t] \subseteq held[t] /\ todo' = todo /\ pc[t] = "read"
      BY <1>0, <2>5 DEF CopyValue, TypeOK
    <3> QED BY <1>2, <1>r, <2>1, <3>1 DEF ReaderInv
  <2>6. CASE Fetch(t)
    <3> DEFINE r  == Head(todo[t])
               fs == IF call[t].fields = <<>> THEN Fields
                     ELSE {call[t].fields[idx[t]]}
    <3>1. /\ todo[t] \in Seq(ReadItem) /\ todo[t] # <<>> /\ pc[t] = "read"
          /\ todo'[t] = todo[t] \/ todo'[t] = Tail(todo[t])
          /\ held'[t] = Pointers(r.key, r.table, fs)
      BY <1>0, <2>6 DEF Fetch, TypeOK
    <3>2. \A j \in DOMAIN todo[t] :
            todo[t][j].key \notin raced' =>
              key_table[todo[t][j].key] = todo[t][j].table
      BY <1>r, <3>1 DEF ReaderInv
    <3>3. /\ r.key \notin raced' => key_table[r.key] = r.table
          /\ r.table \in TableId
      <4>1. 1 \in DOMAIN todo[t] /\ r = todo[t][1] /\ r \in ReadItem
        BY <3>1
      <4> QED BY <3>2, <4>1 DEF ReadItem
    <3>4. \A j \in DOMAIN todo'[t] : \E i \in DOMAIN todo[t] : todo'[t][j] = todo[t][i]
      <4>1. CASE todo'[t] = todo[t]
        BY <4>1
      <4>2. CASE todo'[t] = Tail(todo[t])
        <5>1. \A j \in DOMAIN Tail(todo[t]) :
                j + 1 \in DOMAIN todo[t] /\ Tail(todo[t])[j] = todo[t][j + 1]
          BY <3>1
        <5> QED BY <4>2, <5>1
      <4> QED BY <3>1, <4>1, <4>2
    <3>5. \A h \in held'[t] : h[1] = r.key /\ fields[r.table][h[2]] = h[3]
      BY <3>1 DEF Pointers
    <3> QED BY <1>2, <2>1, <3>2, <3>3, <3>4, <3>5, PointersAreNotNull
  <2> QED BY <1>0, <1>2, <2>3, <2>4, <2>5, <2>6, Transitions
<1> QED BY <1>1, <1>2

-----------------------------------------------------------------------------
(* Who deletes what *)

(* Nobody stores a value in a table that cannot be found.                  *)
LEMMA UnlinkedStays ==
  ASSUME HeapInv, WriterInv, NEW t \in Threads, Invoke(t) \/ Step(t),
         NEW x \in TableId, x[3] \notin raced, ~ Linked(x),
         DeleteTable(t) => x # field_table[t]
  PROVE  \A f \in Fields : fields'[x][f] = fields[x][f]
<1>0. TypeOK /\ CallInv
  BY DEF HeapInv
<1>1. CASE StoresValue(t)
  <2>1. x # field_table[t]
    BY <1>1, StoresInRecord DEF Linked
  <2> QED BY <1>0, <1>1, <2>1, StoredValue
<1>2. CASE DeleteTable(t)
  BY <1>0, <1>2 DEF DeleteTable, TypeOK
<1> QED BY <1>0, <1>1, <1>2, FieldSteps

(* What a call has to delete was made for the record of its key.           *)
LEMMA HeldKey ==
  ASSUME HeapInv, NEW t \in Threads, pc[t] \in {"free", "drop"}, NEW h \in held[t]
  PROVE  h[1] = call[t].key /\ h[3][3] = call[t].key
<1>0. TypeOK /\ CallInv /\ HomeInv
  BY DEF HeapInv
<1>1. Touches(call[t]) = {call[t].key}
  BY <1>0, TouchesKey DEF CallInv
<1> QED BY <1>0, <1>1 DEF HomeInv

(* The string of a slot of another thread's table, or one that is in no    *)
(* slot, survives a DeleteString.                                          *)
LEMMA StringStays ==
  ASSUME HeapInv, OwnerInv, NEW t \in Threads, Invoke(t) \/ Step(t),
         NEW s \in strings, s[3] \notin raced,
         pc[t] = "free" => \A h \in held[t] : h[3] # s,
         pc[t] = "drop" => \A f \in Fields : fields[field_table[t]][f] # s
  PROVE  s \in strings'
<1>0. TypeOK
  BY DEF HeapInv
<1>1. ASSUME NEW h \in held[t], pc[t] \in {"free", "drop"} PROVE h[3] # s
  <2>1. h[2] \in Fields
    BY <1>0 DEF TypeOK
  <2> QED BY <1>1, <2>1, HeldKey DEF OwnerInv
<1> QED BY <1>0, <1>1, StringSteps

(* A string taken out of a slot is deleted by one Update.                  *)
LEMMA FreeStep ==
  ASSUME HeapInv, WriterInv, OwnerInv, NEW t \in Threads, Invoke(t) \/ Step(t),
         NEW u \in Threads, pc'[u] = "free", call'[u].key \notin raced',
         NEW h \in held'[u]
  PROVE  /\ h[3] \in strings'
         /\ \A x \in TableId, f \in Fields : fields'[x][f] # h[3]
         /\ \A w \in Threads :
              w # u /\ pc'[w] = "free" => \A g \in held'[w] : g[3] # h[3]
<1>0. TypeOK /\ CallInv /\ IssuedInv /\ UniqueInv /\ LiveInv /\ TypeOK'
  BY HeapStep DEF HeapInv
<1>1. h[3] \in StringId /\ h[3] # NULL
  BY <1>0, PointersAreNotNull DEF TypeOK
<1>u. pc[u] # "idle" /\ call'[u] = call[u] /\ call[u].key \notin raced
  BY <1>0, SameCall
<1>2. CASE u # t
  <2>1. pc[u] = "free" /\ held'[u] = held[u]
    BY <1>0, <1>2, OtherLocals
  <2>2. /\ h[3] \in strings
        /\ \A x \in TableId, f \in Fields : fields[x][f] # h[3]
        /\ \A w \in Threads :
             w # u /\ pc[w] = "free" => \A g \in held[w] : g[3] # h[3]
    BY <1>u, <2>1 DEF OwnerInv
  <2>3. h[3] \in strings'
    <3>1. pc[t] = "drop" => field_table[t] \in TableId
      BY <1>0 DEF LiveInv, TypeOK
    <3>2. h[3][3] \notin raced
      BY <1>u, <2>1, HeldKey
    <3> QED BY <1>2, <2>2, <3>1, <3>2, StringStays
  <2>4. ASSUME NEW x \in TableId, NEW f \in Fields PROVE fields'[x][f] # h[3]
    <3>1. IssuedString(h[3])
      BY <1>0, <2>1 DEF IssuedInv
    <3>2. CASE StoresValue(t)
      BY <1>0, <2>2, <3>1, <3>2, StoredValue, NewStringIsNew DEF StoresValue
    <3>3. CASE DeleteTable(t)
      BY <1>0, <1>1, <2>2, <3>3 DEF DeleteTable, NoFields, TypeOK
    <3> QED BY <1>0, <2>2, <3>2, <3>3, FieldSteps
  <2>5. ASSUME NEW w \in Threads, w # u, pc'[w] = "free", NEW g \in held'[w]
        PROVE  g[3] # h[3]
    <3>1. CASE w # t
      BY <1>0, <2>2, <2>5, <3>1, OtherLocals
    <3>2. CASE w = t
      <4>1. ReplaceField(t)
        BY <1>0, <2>5, <3>2, Transitions
      <4>2. g[3] = Slot(t) /\ field_table[t] \in TableId /\ Field(t) \in Fields
        BY <1>0, <2>5, <3>2, <4>1, CallFacts DEF ReplaceField, Goto, TypeOK
      <4> QED BY <2>2, <4>2 DEF Slot
    <3> QED BY <3>1, <3>2
  <2> QED BY <2>3, <2>4, <2>5
<1>3. CASE u = t
  <2>1. ReplaceField(t)
    BY <1>0, <1>3, Transitions
  <2>2. StoresValue(t) /\ h[3] = Slot(t)
    BY <1>0, <1>3, <2>1 DEF ReplaceField, Goto, NextField, StoresValue, TypeOK
  <2>3. fields[field_table[t]][Field(t)] = h[3]
    BY <2>2 DEF Slot
  <2>4. h[3] \in strings'
    <3>1. h[3] \in strings
      BY <1>0, <1>1, <1>u, <1>3, <2>2, <2>3, StoresInRecord, StoredValue
         DEF LiveInv
    <3> QED BY <2>1, <3>1 DEF ReplaceField
  <2>5. ASSUME NEW x \in TableId, NEW f \in Fields PROVE fields'[x][f] # h[3]
    <3>1. IssuedString(h[3]) /\ h[3][4] = Field(t)
      BY <1>0, <1>1, <2>2, <2>3, StoredValue DEF IssuedInv
    <3>2. h[3] # NewString(t)
      BY <1>0, <2>2, <3>1, NewStringIsNew DEF StoresValue
    <3>3. fields[x][f] = h[3] => x = field_table[t] /\ f = Field(t)
      BY <1>0, <1>1, <2>2, <2>3, <3>1, StoredValue DEF IssuedInv, UniqueInv
    <3> QED BY <1>0, <2>2, <3>2, <3>3, StoredValue
  <2>6. ASSUME NEW w \in Threads, w # u, pc'[w] = "free", NEW g \in held'[w]
        PROVE  g[3] # h[3]
    <3>1. pc[w] = "free" /\ g \in held[w]
      BY <1>0, <1>3, <2>6, OtherLocals
    <3>2. field_table[t] \in TableId /\ Field(t) \in Fields
      BY <1>0, <2>2, StoredValue
    <3>3. CASE call[w].key \notin raced
      BY <2>3, <3>1, <3>2, <3>3 DEF OwnerInv
    <3>4. CASE call[w].key \in raced
      <4>1. g[3][3] = call[w].key
        BY <3>1, HeldKey
      <4>2. h[3][3] = call[t].key
        BY <1>1, <2>2, <2>3, <3>2, StoresInRecord DEF HeapInv, HomeInv
      <4> QED BY <1>u, <1>3, <3>4, <4>1, <4>2
    <3> QED BY <3>3, <3>4
  <2> QED BY <2>4, <2>5, <2>6
<1> QED BY <1>2, <1>3

(* A table that Delete has taken out is its own.                           *)
LEMMA RemovedStep ==
  ASSUME HeapInv, OwnerInv, NEW t \in Threads, Invoke(t) \/ Step(t),
         NEW u \in Threads, pc'[u] \in {"entries", "drop"},
         call'[u].key \notin raced'
  PROVE  /\ field_table'[u] \in tables'
         /\ \A w \in Threads :
              w # u /\ pc'[w] \in {"entries", "drop"} =>
                field_table'[w] # field_table'[u]
<1>0. TypeOK /\ CallInv /\ LiveInv
  BY DEF HeapInv
<1>u. pc[u] # "idle" /\ call[u].key \notin raced
  BY <1>0, SameCall
<1>1. ASSUME NEW v \in Threads, pc'[v] \in {"entries", "drop"}
      PROVE  \/ /\ v = t /\ RemoveRecord(t) /\ call[t].key \in Keys
                /\ field_table'[v] = key_table[call[t].key] /\ field_table'[v] # NULL
             \/ pc[v] \in {"entries", "drop"} /\ field_table'[v] = field_table[v]
  <2>1. CASE v # t
    BY <1>0, <1>1, <2>1, OtherLocals
  <2>2. CASE v = t /\ RemoveRecord(t)
    BY <1>0, <2>2, CallFacts DEF RemoveRecord, Goto, TypeOK
  <2>3. CASE v = t /\ ~ RemoveRecord(t)
    BY <1>0, <1>1, <2>3, Transitions DEF DeleteEntries, DeleteEntry, Goto
  <2> QED BY <2>1, <2>2, <2>3
<1>2. field_table'[u] \in tables'
  <2>1. CASE u = t /\ RemoveRecord(t)
    BY <1>0, <1>1, <2>1 DEF RemoveRecord, Goto, LiveInv
  <2>2. CASE ~ (u = t /\ RemoveRecord(t))
    <3>1. /\ pc[u] \in {"entries", "drop"} /\ field_table'[u] = field_table[u]
          /\ field_table[u] \in tables
      BY <1>u, <1>1, <2>2 DEF OwnerInv
    <3>2. CASE DeleteTable(t)
      <4>1. u # t
        BY <1>0, <3>2 DEF DeleteTable, Finish, TypeOK
      <4> QED BY <1>u, <3>1, <3>2, <4>1 DEF DeleteTable, OwnerInv
    <3>3. CASE ~ DeleteTable(t)
      <4>1. tables \subseteq tables'
        BY <3>3, HeapSteps, HeapUnchanged DEF CreateTable, InsertField,
           InsertConflict, ReplaceField, DeleteOld, UpdateMissing, AddField,
           RemoveRecord, DeleteEntry
      <4> QED BY <3>1, <4>1
    <3> QED BY <3>2, <3>3
  <2> QED BY <2>1, <2>2
<1>3. ASSUME NEW w \in Threads, w # u, pc'[w] \in {"entries", "drop"}
      PROVE  field_table'[w] # field_table'[u]
  <2>1. CASE pc[u] \in {"entries", "drop"} /\ field_table'[u] = field_table[u]
             /\ pc[w] \in {"entries", "drop"} /\ field_table'[w] = field_table[w]
    BY <1>u, <1>3, <2>1 DEF OwnerInv
  <2>2. ASSUME NEW v \in Threads, v # t, RemoveRecord(t), pc'[v] \in {"entries", "drop"},
               pc'[t] \in {"entries", "drop"}
        PROVE  field_table'[v] # field_table'[t]
    <3>1. pc[v] \in {"entries", "drop"} /\ field_table'[v] = field_table[v]
      BY <1>1, <2>2
    <3>2. call[t].key \in Keys /\ field_table'[t] = key_table[call[t].key]
      BY <1>1, <2>2 DEF RemoveRecord, Goto
    <3> QED BY <1>0, <3>1, <3>2 DEF LiveInv, Linked
  <2> QED BY <1>1, <1>3, <2>1, <2>2
<1> QED BY <1>2, <1>3

(* The strings of such a table are there until Delete deletes them.        *)
LEMMA EntriesStep ==
  ASSUME HeapInv, WriterInv, OwnerInv, NEW t \in Threads, Invoke(t) \/ Step(t),
         NEW u \in Threads, u # t, pc[u] \in {"entries", "drop"},
         call[u].key \notin raced
  PROVE  \A f \in Fields :
           /\ fields'[field_table[u]][f] = fields[field_table[u]][f]
           /\ fields[field_table[u]][f] \in strings =>
                fields[field_table[u]][f] \in strings'
<1>0. TypeOK /\ CallInv /\ UniqueInv /\ IssuedInv /\ LiveInv /\ HomeInv
  BY DEF HeapInv
<1>1. /\ field_table[u] \in TableId /\ ~ Linked(field_table[u])
      /\ field_table[u][3] \notin raced
  BY <1>0 DEF LiveInv, TypeOK, HomeInv
<1>2. pc[t] \in {"entries", "drop"} =>
        field_table[t] \in TableId /\ field_table[t] # field_table[u]
  <2>1. pc[t] \in {"entries", "drop"} => field_table[t] \in TableId
    BY <1>0 DEF LiveInv, TypeOK
  <2>2. pc[t] \in {"entries", "drop"} => field_table[t] # field_table[u]
    BY DEF OwnerInv
  <2> QED BY <2>1, <2>2
<1>3. \A f \in Fields : fields'[field_table[u]][f] = fields[field_table[u]][f]
  BY <1>1, <1>2, UnlinkedStays DEF DeleteTable
<1>4. ASSUME NEW f \in Fields, fields[field_table[u]][f] \in strings
      PROVE  fields[field_table[u]][f] \in strings'
  <2> DEFINE s == fields[field_table[u]][f]
  <2>1. s # NULL /\ s[4] = f /\ s[3] \notin raced
    BY <1>0, <1>1, <1>4, PointersAreNotNull DEF TypeOK, IssuedInv, HomeInv
  <2>2. pc[t] = "free" => \A h \in held[t] : h[3] # s
    BY <1>1, <2>1, HeldKey DEF OwnerInv
  <2>3. pc[t] = "drop" => \A g \in Fields : fields[field_table[t]][g] # s
    BY <1>0, <1>1, <1>2, <2>1 DEF UniqueInv, IssuedInv
  <2> HIDE DEF s
  <2>4. s \in strings => s \in strings'
    BY <2>1, <2>2, <2>3, StringStays
  <2> QED BY <1>4, <2>4 DEF s
<1> QED BY <1>3, <1>4

(* A string or a table taken out of the tables is deleted by one call.     *)
LEMMA OwnerStep ==
  ASSUME HeapInv, WriterInv, OwnerInv, NEW t \in Threads, Invoke(t) \/ Step(t)
  PROVE  OwnerInv'
<1>0. TypeOK /\ CallInv /\ IssuedInv /\ LiveInv /\ TypeOK'
  BY HeapStep DEF HeapInv
<1>u. ASSUME NEW u \in Threads, call'[u].key \notin raced',
             pc'[u] \in {"entries", "drop"}
      PROVE  pc[u] # "idle" /\ call'[u] = call[u] /\ call[u].key \notin raced
  BY <1>0, <1>u, SameCall
<1>1. ASSUME NEW u \in Threads, call'[u].key \notin raced',
             pc'[u] = "entries", NEW f \in Fields,
             fields'[field_table'[u]][f] # NULL
      PROVE  fields'[field_table'[u]][f] \in strings'
  <2>1. CASE u = t
    <3>1. RemoveRecord(t)
      BY <1>0, <1>1, <2>1, Transitions
    <3>2. /\ field_table'[t] = key_table[call[t].key] /\ call[t].key \in Keys
          /\ key_table[call[t].key] # NULL /\ fields' = fields /\ strings' = strings
      BY <1>0, <3>1, CallFacts DEF RemoveRecord, Goto, TypeOK
    <3> QED BY <1>0, <1>1, <2>1, <3>2 DEF LiveInv
  <2>2. CASE u # t
    <3>1. pc[u] = "entries" /\ field_table'[u] = field_table[u]
      BY <1>0, <1>1, <2>2, OtherLocals
    <3> QED BY <1>u, <1>1, <2>2, <3>1, EntriesStep DEF OwnerInv
  <2> QED BY <2>1, <2>2
<1>2. ASSUME NEW u \in Threads, call'[u].key \notin raced',
             pc'[u] = "drop", NEW h \in held'[u]
      PROVE  h[3] \in strings' /\ fields'[field_table'[u]][h[2]] = h[3]
  <2>0. h[2] \in Fields /\ pc[u] # "idle" /\ call[u].key \notin raced
    BY <1>0, <1>u, <1>2 DEF TypeOK
  <2>1. CASE u # t
    <3>1. /\ pc[u] = "drop" /\ held'[u] = held[u] /\ call'[u] = call[u]
          /\ field_table'[u] = field_table[u]
      BY <1>0, <1>2, <2>1, OtherLocals
    <3>2. h[3] \in strings /\ fields[field_table[u]][h[2]] = h[3]
      BY <1>2, <2>0, <3>1 DEF OwnerInv
    <3> QED BY <2>0, <2>1, <3>1, <3>2, EntriesStep
  <2>2. CASE u = t /\ DeleteEntries(t)
    <3>1. /\ held'[t] = Pointers(call[t].key, field_table[t], Fields)
          /\ pc[t] = "entries" /\ UNCHANGED <<fields, strings, call, field_table>>
      BY <1>0, <2>2 DEF DeleteEntries, Goto, heap, TypeOK
    <3>2. fields[field_table[t]][h[2]] = h[3] /\ h[3] # NULL
      BY <1>2, <2>2, <3>1 DEF Pointers
    <3> QED BY <2>0, <2>2, <3>1, <3>2 DEF OwnerInv
  <2>3. CASE u = t /\ DeleteEntry(t)
    <3>1. PICK g \in held[t] : Free(t, g)
      BY <2>3 DEF DeleteEntry
    <3>2. /\ strings' = strings \ {g[3]} /\ held'[t] = held[t] \ {g}
          /\ UNCHANGED <<fields, call, field_table>> /\ pc[t] = "drop"
      BY <1>0, <2>3, <3>1 DEF DeleteEntry, Free, TypeOK
    <3>3. /\ h \in Keys \X Fields \X StringId /\ g \in Keys \X Fields \X StringId
          /\ h \in held[t] /\ h # g
      BY <1>0, <1>2, <2>3, <3>2 DEF TypeOK
    <3>4. /\ h[3] \in strings /\ fields[field_table[t]][h[2]] = h[3]
          /\ fields[field_table[t]][g[2]] = g[3] /\ h[1] = g[1]
      BY <2>0, <2>3, <3>2, <3>3, HeldKey DEF OwnerInv
    <3>5. h[3] # g[3]
      <4>1. field_table[t] \in TableId
        BY <1>0, <3>2 DEF LiveInv, TypeOK
      <4>2. h[3][4] = h[2] /\ g[3][4] = g[2]
        BY <1>0, <3>3, <3>4, <4>1, PointersAreNotNull DEF IssuedInv
      <4>3. h = <<h[1], h[2], h[3]>> /\ g = <<g[1], g[2], g[3]>>
        BY <3>3
      <4> QED BY <3>3, <3>4, <4>2, <4>3
    <3> QED BY <2>3, <3>2, <3>4, <3>5
  <2> QED BY <1>0, <1>2, <2>1, <2>2, <2>3, Transitions
<1> QED BY <1>1, <1>2, FreeStep, RemovedStep DEF OwnerInv

-----------------------------------------------------------------------------
(* Nothing is lost *)

(* Only Remove takes an entry out of key_table_.                           *)
LEMMA EntryStays ==
  ASSUME HeapInv, NEW t \in Threads, Invoke(t) \/ Step(t),
         NEW k \in Keys, key_table[k] # NULL,
         ~ (RemoveRecord(t) /\ k = call[t].key)
  PROVE  key_table'[k] = key_table[k]
<1>1. CASE CreateTable(t)
  BY <1>1, NewTableIsNew
<1>2. CASE RemoveRecord(t)
  BY <1>2 DEF RemoveRecord, HeapInv, TypeOK
<1> QED BY <1>1, <1>2, KeySteps

(* The entry of a table just created is in key_table_.                     *)
LEMMA CreatedIsLinked ==
  ASSUME HeapInv, WriterInv, NEW t \in Threads, CreateTable(t),
         call[t].key \notin raced
  PROVE  key_table'[call[t].key] = <<t, num[t], call[t].key>>
<1>1. key_table[call[t].key] = NULL
  BY DEF CreateTable, Goto, WriterInv
<1> QED BY <1>1, NewTableIsNew

(* Every copy of a key belongs to an entry.                                *)
LEMMA KeyNameFound ==
  ASSUME HeapInv, WriterInv, LeakInv, NEW t \in Threads, Invoke(t) \/ Step(t),
         NEW x \in key_names', x[3] \notin raced'
  PROVE  Linked(x)'
<1>0. TypeOK /\ raced \subseteq raced'
  BY RacedStep DEF HeapInv
<1>1. CASE CreateTable(t) /\ x \notin key_names
  <2>1. x = <<t, num[t], call[t].key>>
    BY <1>1 DEF CreateTable
  <2>2. key_table'[call[t].key] = x /\ call[t].key \in Keys
    BY <1>0, <1>1, <2>1, CreatedIsLinked, NewTableIsNew
  <2> QED BY <2>2 DEF Linked
<1>2. CASE x \in key_names
  <2>1. PICK k \in Keys : key_table[k] = x
    BY <1>0, <1>2 DEF LeakInv, Linked
  <2>2. x # NULL
    BY <1>0, <1>2, PointersAreNotNull DEF TypeOK
  <2>3. ~ (RemoveRecord(t) /\ k = call[t].key)
    BY <2>1 DEF RemoveRecord
  <2> QED BY <2>1, <2>2, <2>3, EntryStays DEF Linked
<1>3. CreateTable(t) \/ x \in key_names
  BY HeapSteps, HeapUnchanged DEF InsertField, InsertConflict, ReplaceField, DeleteOld,
     UpdateMissing, AddField, RemoveRecord, DeleteEntry, DeleteTable
<1> QED BY <1>1, <1>2, <1>3

(* Every table can be found, or a Delete has it.                           *)
LEMMA TableFound ==
  ASSUME HeapInv, WriterInv, LeakInv, NEW t \in Threads, Invoke(t) \/ Step(t),
         NEW x \in tables', x[3] \notin raced'
  PROVE  FoundTable(x)'
<1>0. TypeOK /\ CallInv /\ raced \subseteq raced'
  BY RacedStep DEF HeapInv
<1>1. CASE CreateTable(t) /\ x \notin tables
  <2>1. x = <<t, num[t], call[t].key>>
    BY <1>1 DEF CreateTable
  <2>2. key_table'[call[t].key] = x /\ call[t].key \in Keys
    BY <1>0, <1>1, <2>1, CreatedIsLinked, NewTableIsNew
  <2> QED BY <2>2 DEF FoundTable, Linked
<1>2. CASE x \in tables
  <2>1. CASE Linked(x)
    <3>1. PICK k \in Keys : key_table[k] = x
      BY <2>1 DEF Linked
    <3>2. CASE RemoveRecord(t) /\ k = call[t].key
      <4>1. pc'[t] = "entries" /\ field_table'[t] = x
        BY <1>0, <3>1, <3>2 DEF RemoveRecord, Goto, TypeOK
      <4> QED BY <4>1 DEF FoundTable
    <3>3. CASE ~ (RemoveRecord(t) /\ k = call[t].key)
      <4>1. x # NULL
        BY <1>0, <1>2, PointersAreNotNull DEF TypeOK
      <4> QED BY <3>1, <3>3, <4>1, EntryStays DEF FoundTable, Linked
    <3> QED BY <3>2, <3>3
  <2>2. CASE \E u \in Threads : pc[u] \in {"entries", "drop"} /\ field_table[u] = x
    <3>1. PICK u \in Threads : pc[u] \in {"entries", "drop"} /\ field_table[u] = x
      BY <2>2
    <3>2. pc'[u] \in {"entries", "drop"} /\ field_table'[u] = x
      <4>1. CASE u # t
        BY <1>0, <3>1, <4>1, OtherLocals
      <4>2. CASE u = t
        <5>1. ~ DeleteTable(t)
          BY <3>1, <4>2 DEF DeleteTable
        <5>2. DeleteEntries(t) \/ DeleteEntry(t)
          BY <3>1, <4>2, <5>1 DEF Step, Invoke, Return, ReadMissing, ReadFound, Scan,
             Fetch, CopyValue, ReadDone, WriterGet, CreateTable, InsertField,
             InsertConflict, ReplaceField, DeleteOld, UpdateMissing, AddField,
             WriteDone, RemoveMissing, RemoveRecord, Goto
        <5> QED BY <1>0, <3>1, <4>2, <5>2 DEF DeleteEntries, DeleteEntry, Goto, TypeOK
      <4> QED BY <4>1, <4>2
    <3> QED BY <3>2 DEF FoundTable
  <2> QED BY <1>0, <1>2, <2>1, <2>2 DEF LeakInv, FoundTable
<1>3. CreateTable(t) \/ x \in tables
  BY HeapSteps, HeapUnchanged DEF InsertField, InsertConflict, ReplaceField, DeleteOld,
     UpdateMissing, AddField, RemoveRecord, DeleteEntry, DeleteTable
<1> QED BY <1>1, <1>2, <1>3

(* The string of a slot stays in it, or an Update has it to delete, or a   *)
(* Delete has its table.                                                   *)
LEMMA SlotFound ==
  ASSUME HeapInv, WriterInv, NEW t \in Threads, Invoke(t) \/ Step(t),
         NEW k \in Keys \ raced, NEW f \in Fields, key_table[k] # NULL,
         NEW s \in StringId, fields[key_table[k]][f] = s
  PROVE  FoundString(s)'
<1>0. TypeOK /\ CallInv /\ LiveInv
  BY DEF HeapInv
<1>1. key_table[k] \in TableId /\ s # NULL
  BY <1>0, PointersAreNotNull DEF TypeOK
<1>2. CASE RemoveRecord(t) /\ k = call[t].key
  <2>1. pc'[t] = "entries" /\ field_table'[t] = key_table[k] /\ fields' = fields
    BY <1>0, <1>2 DEF RemoveRecord, Goto, TypeOK
  <2> QED BY <2>1 DEF FoundString
<1>3. CASE ReplaceField(t) /\ key_table[k] = field_table[t] /\ f = Field(t)
  <2>1. pc'[t] = "free" /\ held'[t] = {<<call[t].key, Field(t), Slot(t)>>}
    BY <1>0, <1>3 DEF ReplaceField, Goto, TypeOK
  <2>2. \E h \in held'[t] : h[3] = s
    BY <1>3, <2>1 DEF Slot
  <2> QED BY <2>1, <2>2 DEF FoundString
<1>4. CASE /\ ~ (RemoveRecord(t) /\ k = call[t].key)
           /\ ~ (ReplaceField(t) /\ key_table[k] = field_table[t] /\ f = Field(t))
  <2>1. key_table'[k] = key_table[k]
    BY <1>4, EntryStays
  <2>2. fields'[key_table[k]][f] = s
    <3>1. CASE StoresValue(t)
      <4>1. ~ (key_table[k] = field_table[t] /\ f = Field(t))
        BY <1>1, <1>4, <3>1, InsertIntoEmpty, StoresInRecord DEF Slot
      <4> QED BY <1>0, <1>1, <3>1, <4>1, StoredValue
    <3>2. CASE DeleteTable(t)
      <4>1. key_table[k] # field_table[t]
        BY <1>0, <3>2 DEF DeleteTable, LiveInv, Linked
      <4> QED BY <1>0, <1>1, <3>2, <4>1 DEF DeleteTable, TypeOK
    <3> QED BY <1>0, <3>1, <3>2, FieldSteps
  <2> QED BY <2>1, <2>2 DEF FoundString
<1> QED BY <1>2, <1>3, <1>4

(* A value that is stored can be found.                                    *)
LEMMA StoredIsFound ==
  ASSUME HeapInv, WriterInv, NEW t \in Threads, StoresValue(t),
         call[t].key \notin raced, NEW s, s = NewString(t)
  PROVE  FoundString(s)'
<1>1. /\ key_table'[call[t].key] = field_table[t] /\ call[t].key \in Keys
      /\ field_table[t] # NULL
  BY StoresInRecord DEF StoresValue
<1>2. fields'[field_table[t]][Field(t)] = s /\ Field(t) \in Fields
  BY StoredValue DEF HeapInv
<1> QED BY <1>1, <1>2 DEF FoundString

(* Every string can be found, or somebody has it to delete or to store.    *)
LEMMA StringFound ==
  ASSUME HeapInv, WriterInv, OwnerInv, LeakInv,
         NEW t \in Threads, Invoke(t) \/ Step(t),
         NEW s \in strings', s[3] \notin raced'
  PROVE  FoundString(s)'
<1>0. /\ TypeOK /\ CallInv /\ LiveInv /\ HomeInv /\ TypeOK'
      /\ s[3] \notin raced
  BY HeapStep, RacedStep DEF HeapInv
<1>n. \A u \in Threads : NewString(u)[3] = call[u].key
  BY DEF NewString
<1>1. CASE s \notin strings
  <2>1. CASE StoresValue(t) /\ s = NewString(t)
    BY <1>0, <1>n, <2>1, StoredIsFound
  <2>2. CASE UpdateMissing(t)
    <3>1. pc'[t] = "add" /\ s = NewString(t) /\ NewString(t)' = NewString(t)
      BY <1>0, <1>1, <2>2 DEF UpdateMissing, Goto, NewString, Field, TypeOK
    <3> QED BY <3>1 DEF FoundString
  <2>3. CASE InsertConflict(t)
    <3>1. /\ pc[t] = "insert" /\ Writing(t) /\ Slot(t) # NULL
          /\ call[t].op = "Update" /\ call[t].key \notin raced
      BY <1>0, <1>n, <1>1, <2>3, CallFacts DEF InsertConflict, CallInv
    <3>2. idx[t] \in Nat /\ Len(call[t].fields) \in Nat
      BY <1>0, <3>1, CallFacts
    <3>3. idx[t] \in idx[t] .. Len(call[t].fields)
      BY <3>1, <3>2 DEF Writing
    <3> QED BY <3>1, <3>3 DEF WriterInv, Slot, Field
  <2>4. CASE InsertField(t)
    BY <1>0, <1>1, <2>1, <2>4
       DEF InsertField, NextField, StoresValue, TypeOK
  <2>5. CASE ReplaceField(t)
    BY <1>0, <1>1, <2>1, <2>5
       DEF ReplaceField, Goto, NextField, StoresValue, TypeOK
  <2> QED BY <1>1, <2>2, <2>3, <2>4, <2>5, HeapSteps, HeapUnchanged DEF CreateTable,
     DeleteOld, Free, AddField, RemoveRecord, DeleteEntry, DeleteTable
<1>2. CASE s \in strings
  <2>0. s \in StringId
    BY <1>0, <1>2 DEF TypeOK
  <2>1. CASE \E k \in Keys, f \in Fields :
               key_table[k] # NULL /\ fields[key_table[k]][f] = s
    <3>1. PICK k \in Keys, f \in Fields :
            key_table[k] # NULL /\ fields[key_table[k]][f] = s
      BY <2>1
    <3>2. key_table[k] \in TableId /\ key_table[k][3] = k /\ s # NULL
      BY <1>0, <2>0, <3>1, PointersAreNotNull DEF HomeInv, TypeOK
    <3>3. k \notin raced
      BY <1>0, <3>1, <3>2 DEF HomeInv
    <3> QED BY <2>0, <3>1, <3>3, SlotFound
  <2>2. ASSUME NEW u \in Threads, pc[u] \in {"free", "drop"},
               NEW h \in held[u], h[3] = s
        PROVE  FoundString(s)'
    <3>1. pc'[u] \in {"free", "drop"} /\ h \in held'[u]
      <4>1. CASE u # t
        BY <1>0, <2>2, <4>1, OtherLocals
      <4>2. CASE u = t
        <5>1. held[t] # {}
          BY <2>2, <4>2
        <5>2. DeleteOld(t) \/ DeleteEntry(t)
          BY <2>2, <4>2, <5>1 DEF Step, Invoke, Return, ReadMissing, ReadFound, Scan,
             Fetch, CopyValue, ReadDone, WriterGet, CreateTable, InsertField,
             InsertConflict, ReplaceField, UpdateMissing, AddField,
             WriteDone, RemoveMissing, RemoveRecord, DeleteEntries, DeleteTable, Goto
        <5>3. PICK g \in held[t] : Free(t, g)
          BY <5>2 DEF DeleteOld, DeleteEntry
        <5>4. g # h
          BY <2>2, <5>3 DEF Free
        <5>5. ~ DeleteOld(t)
          BY <1>0, <2>2, <4>2, <5>4 DEF DeleteOld, Goto, CallInv
        <5>6. pc' = pc /\ held'[t] = held[t] \ {g}
          BY <1>0, <5>2, <5>3, <5>5 DEF DeleteEntry, Free, TypeOK
        <5> QED BY <2>2, <4>2, <5>4, <5>6
      <4> QED BY <4>1, <4>2
    <3> QED BY <2>2, <3>1 DEF FoundString
  <2>3. ASSUME NEW u \in Threads, pc[u] = "add", NewString(u) = s
        PROVE  FoundString(s)'
    <3>1. CASE u # t
      <4>1. pc'[u] = "add" /\ NewString(u)' = s
        BY <1>0, <2>3, <3>1, OtherLocals DEF NewString, Field
      <4> QED BY <4>1 DEF FoundString
    <3>2. CASE u = t
      <4>1. AddField(t)
        BY <2>3, <3>2 DEF Step, Invoke, Return, ReadMissing, ReadFound, Scan,
           Fetch, CopyValue, ReadDone, WriterGet, CreateTable, InsertField,
           InsertConflict, ReplaceField, DeleteOld, UpdateMissing,
           WriteDone, RemoveMissing, RemoveRecord, DeleteEntries, DeleteEntry,
           DeleteTable, Goto
      <4>2. Slot(t) = NULL
        BY <1>0, <1>n, <2>3, <3>2 DEF WriterInv
      <4>3. StoresValue(t)
        BY <1>0, <4>1, <4>2 DEF AddField, Goto, NextField, StoresValue, TypeOK, CallInv
      <4> QED BY <1>0, <1>n, <2>3, <3>2, <4>3, StoredIsFound
    <3> QED BY <3>1, <3>2
  <2>4. ASSUME NEW u \in Threads, pc[u] = "entries", NEW f \in Fields,
               fields[field_table[u]][f] = s
        PROVE  FoundString(s)'
    <3>0. call[u].key \notin raced
      <4>1. field_table[u] \in TableId /\ field_table[u][3] = call[u].key
        BY <1>0, <2>4 DEF LiveInv, HomeInv, TypeOK
      <4> QED BY <1>0, <2>0, <2>4, <4>1, PointersAreNotNull DEF HomeInv
    <3>1. CASE u # t
      <4>1. pc'[u] = "entries" /\ field_table'[u] = field_table[u]
        BY <1>0, <2>4, <3>1, OtherLocals
      <4>2. fields'[field_table[u]][f] = s
        BY <2>4, <3>0, <3>1, EntriesStep
      <4> QED BY <4>1, <4>2 DEF FoundString
    <3>2. CASE u = t
      <4>1. DeleteEntries(t)
        BY <2>4, <3>2 DEF Step, Invoke, Return, ReadMissing, ReadFound, Scan,
           Fetch, CopyValue, ReadDone, WriterGet, CreateTable, InsertField,
           InsertConflict, ReplaceField, DeleteOld, UpdateMissing, AddField,
           WriteDone, RemoveMissing, RemoveRecord, DeleteEntry, DeleteTable, Goto
      <4>2. /\ pc'[t] = "drop"
            /\ held'[t] = Pointers(call[t].key, field_table[t], Fields)
        BY <1>0, <4>1 DEF DeleteEntries, Goto, TypeOK
      <4>3. <<call[t].key, f, s>> \in held'[t]
        BY <2>0, <2>4, <3>2, <4>2, PointersAreNotNull DEF Pointers
      <4>4. <<call[t].key, f, s>>[3] = s
        OBVIOUS
      <4>5. \E h \in held'[t] : h[3] = s
        BY <4>3, <4>4
      <4> QED BY <4>2, <4>5 DEF FoundString
    <3> QED BY <3>1, <3>2
  <2> QED BY <1>0, <1>2, <2>1, <2>2, <2>3, <2>4 DEF LeakInv, FoundString
<1> QED BY <1>1, <1>2

(* So nothing that is allocated gets out of reach.                         *)
LEMMA LeakStep ==
  ASSUME HeapInv, WriterInv, OwnerInv, LeakInv,
         NEW t \in Threads, Invoke(t) \/ Step(t)
  PROVE  LeakInv'
BY TableFound, KeyNameFound, StringFound DEF LeakInv

-----------------------------------------------------------------------------
(* The invariant *)

(* No call is in progress, and nothing is allocated.                       *)
LEMMA InitInv == Init => IInv
<1> SUFFICES ASSUME Init PROVE IInv
  OBVIOUS
<1>1. ExclusionInv /\ WriterInv /\ ReaderInv /\ OwnerInv /\ LeakInv
  BY DEF Init, ExclusionInv, Busy, WriterInv, ReaderInv, OwnerInv, LeakInv
<1> QED BY <1>1, InitHeap DEF IInv, SafeInv

(* Every step of every call keeps the invariant.                           *)
LEMMA NextInv == IInv /\ [Next]_vars => IInv'
<1> SUFFICES ASSUME IInv, [Next]_vars PROVE IInv'
  OBVIOUS
<1>1. CASE \E t \in Threads : Invoke(t) \/ Step(t)
  <2>1. PICK t \in Threads : Invoke(t) \/ Step(t)
    BY <1>1
  <2>2. HeapInv /\ HeapInv'
    BY <2>1, HeapStep DEF IInv
  <2>3. SafeInv'
    <3>1. ExclusionInv /\ WriterInv /\ ReaderInv /\ OwnerInv /\ LeakInv
      BY DEF IInv, SafeInv
    <3>2. ExclusionInv' /\ WriterInv'
      BY <2>1, <2>2, <3>1, ExclusionStep, WriterStep
    <3>3. ReaderInv' /\ OwnerInv' /\ LeakInv'
      BY <2>1, <2>2, <3>1, ReaderStep, OwnerStep, LeakStep
    <3> QED BY <3>2, <3>3 DEF SafeInv
  <2> QED BY <2>2, <2>3 DEF IInv
<1>2. CASE UNCHANGED vars
  <2>1. /\ UNCHANGED <<key_table, fields, tables, strings, key_names, field_names>>
        /\ UNCHANGED <<pc, call, num, field_table, idx, todo, held, result>>
        /\ UNCHANGED <<status, raced>>
    BY <1>2 DEF vars, heap, local
  <2>2. TypeOK' = TypeOK
    BY <2>1 DEF TypeOK
  <2>3. CallInv' = CallInv
    BY <2>1 DEF CallInv, Writing
  <2>4. IssuedInv' = IssuedInv /\ HomeInv' = HomeInv
    BY <2>1 DEF IssuedInv, IssuedTable, IssuedString, HomeInv, Touches
  <2>5. UniqueInv' = UniqueInv /\ LiveInv' = LiveInv
    BY <2>1 DEF UniqueInv, LiveInv, Linked, NewString, Field
  <2>6. ExclusionInv' = ExclusionInv
    BY <2>1 DEF ExclusionInv, Busy, Clash, Touches, Complete
  <2>7. WriterInv' = WriterInv
    BY <2>1 DEF WriterInv, Slot, Field
  <2>8. ReaderInv' = ReaderInv
    BY <2>1 DEF ReaderInv
  <2>9. OwnerInv' = OwnerInv
    BY <2>1 DEF OwnerInv
  <2>10. LeakInv' = LeakInv
    BY <2>1 DEF LeakInv, FoundTable, FoundString, Linked, NewString, Field
  <2> QED BY <2>2, <2>3, <2>4, <2>5, <2>6, <2>7, <2>8, <2>9, <2>10
          DEF IInv, HeapInv, SafeInv
<1> QED BY <1>1, <1>2 DEF Next

(* The invariant holds in every state of HashtableDB under any number of   *)
(* threads and calls: what Get, Entries, Insert, Update and Remove of      *)
(* lock_stl_hashtable.h leave in the tables and in the hands of callers.   *)
THEOREM Invariance == Spec => []IInv
<1>1. Init => IInv
  BY InitInv
<1>2. IInv /\ [Next]_vars => IInv'
  BY NextInv
<1> QED BY <1>1, <1>2, PTL DEF Spec

(* Every variable of HashtableDB keeps its type, whatever calls overlap.   *)
THEOREM TypeCorrect == Spec => []TypeOK
<1>1. IInv => TypeOK
  BY DEF IInv, HeapInv
<1> QED BY <1>1, Invariance, PTL

(* Whatever calls overlap, a lookup through key_table_ leads to allocated  *)
(* tables and strings only, each at one place: Update replaces a string    *)
(* before DeleteString, and Delete removes the table from key_table_       *)
(* before DeleteFieldHashtable; and every entry has its copy of the name.  *)
THEOREM LookupsStayLive == Spec => []LookupsAreLive
<1>1. IInv => LookupsAreLive
  <2> SUFFICES ASSUME IInv, NEW k \in Present
               PROVE  /\ key_table[k] \in tables \cap key_names
                      /\ \A l \in Present : key_table[k] = key_table[l] => k = l
                      /\ \A f \in Fields :
                           LET s == fields[key_table[k]][f]
                           IN s # NULL =>
                                /\ s \in strings
                                /\ \E n \in field_names : n[3] = k /\ n[4] = f
                                /\ \A l \in Present, g \in Fields :
                                     fields[key_table[l]][g] = s => l = k /\ g = f
    BY Zenon DEF LookupsAreLive
  <2>p. /\ k \in Keys /\ key_table[k] # NULL
        /\ \A l \in Present : l \in Keys /\ key_table[l] # NULL
    BY DEF Present
  <2>0. TypeOK /\ IssuedInv /\ HomeInv /\ UniqueInv /\ LiveInv
    BY DEF IInv, HeapInv
  <2>1. \A l \in Keys : key_table[l] # NULL => key_table[l] \in TableId
    BY <2>0 DEF TypeOK
  <2>2. /\ key_table[k] \in tables \cap key_names
        /\ \A l \in Keys : key_table[k] = key_table[l] => k = l
    BY <2>0, <2>p DEF LiveInv, UniqueInv
  <2>3. ASSUME NEW f \in Fields, fields[key_table[k]][f] # NULL,
               NEW l \in Keys, key_table[l] # NULL, NEW g \in Fields,
               fields[key_table[l]][g] = fields[key_table[k]][f]
        PROVE  l = k /\ g = f
    <3>1. g = f
      BY <2>0, <2>p, <2>1, <2>3 DEF IssuedInv
    <3>2. key_table[l] = key_table[k]
      BY <2>0, <2>p, <2>1, <2>3, <3>1 DEF UniqueInv
    <3> QED BY <2>2, <3>1, <3>2
  <2>4. \A f \in Fields :
          fields[key_table[k]][f] # NULL => fields[key_table[k]][f] \in strings
    BY <2>0, <2>p DEF LiveInv
  <2>5. \A f \in Fields :
          fields[key_table[k]][f] # NULL => \E n \in field_names : n[3] = k /\ n[4] = f
    <3>1. key_table[k] \in TableId /\ key_table[k][3] = k
      BY <2>0, <2>p, <2>1 DEF HomeInv
    <3> QED BY <2>0, <3>1 DEF LiveInv
  <2> QED BY <2>p, <2>2, <2>3, <2>4, <2>5
<1> QED BY <1>1, Invariance, PTL

(* Of a record that no clashing calls have worked on at once, no thread    *)
(* dereferences a deleted field table, copies a deleted string or deletes  *)
(* a string twice, though all of them use pointers after the table's mutex *)
(* was released, and whatever happens to other records meanwhile.          *)
THEOREM PointersStayValid == Spec => []NoDanglingUse
<1>1. IInv => NoDanglingUse
  <2> SUFFICES ASSUME IInv, NEW t \in Threads
               PROVE  /\ pc[t] \in {"insert", "update", "add", "entries", "drop"} =>
                           field_table[t] \in tables \/ call[t].key \in raced
                      /\ \A h \in held[t] : h[3] \in strings \/ h[1] \in raced
                      /\ \A j \in DOMAIN todo[t] :
                           \/ todo[t][j].table \in tables
                           \/ todo[t][j].key \in raced
    BY DEF NoDanglingUse
  <2>0. /\ TypeOK /\ CallInv /\ LiveInv /\ HeapInv
        /\ WriterInv /\ ReaderInv /\ OwnerInv
    BY DEF IInv, HeapInv, SafeInv
  <2>1. ASSUME pc[t] \in {"insert", "update", "add", "entries", "drop"},
               call[t].key \notin raced
        PROVE  field_table[t] \in tables
    <3>1. CASE pc[t] \in {"insert", "update", "add"}
      <4>1. call[t].key \in Keys
        BY <2>0, <3>1, CallFacts
      <4>2. key_table[call[t].key] = field_table[t] /\ field_table[t] # NULL
        BY <2>0, <2>1, <3>1 DEF WriterInv, LiveInv
      <4> QED BY <2>0, <4>1, <4>2 DEF LiveInv
    <3>2. CASE pc[t] \in {"entries", "drop"}
      BY <2>0, <2>1, <3>2 DEF OwnerInv
    <3> QED BY <2>1, <3>1, <3>2
  <2>2. ASSUME NEW h \in held[t], h[1] \notin raced
        PROVE  h[3] \in strings
    <3>1. CASE pc[t] = "read"
      <4>1. h[1] \in Keys /\ h[2] \in Fields /\ h[3] \in StringId
        BY <2>0, <2>2 DEF TypeOK
      <4>2. key_table[h[1]] # NULL /\ fields[key_table[h[1]]][h[2]] = h[3]
        BY <2>0, <2>2, <3>1 DEF ReaderInv
      <4>3. h[3] # NULL
        BY <4>1, PointersAreNotNull
      <4> QED BY <2>0, <4>1, <4>2, <4>3 DEF LiveInv
    <3>2. CASE pc[t] \in {"free", "drop"}
      BY <2>0, <2>2, <3>2, HeldKey DEF OwnerInv
    <3> QED BY <2>0, <2>2, <3>1, <3>2 DEF CallInv
  <2>3. ASSUME NEW j \in DOMAIN todo[t], todo[t][j].key \notin raced
        PROVE  todo[t][j].table \in tables
    <3>1. pc[t] = "read"
      <4>1. CASE todo[t] = <<>>
        BY <2>3, <4>1
      <4> QED BY <2>0, <4>1 DEF CallInv
    <3>2. todo[t] \in Seq(ReadItem)
      BY <2>0 DEF TypeOK
    <3>3. todo[t][j] \in ReadItem
      BY <2>3, <3>2
    <3>4. todo[t][j].key \in Keys /\ todo[t][j].table # NULL
      BY <3>3, PointersAreNotNull DEF ReadItem
    <3>5. key_table[todo[t][j].key] = todo[t][j].table
      BY <2>0, <2>3, <3>1 DEF ReaderInv
    <3> QED BY <2>0, <3>4, <3>5 DEF LiveInv
  <2> QED BY <2>1, <2>2, <2>3
<1> QED BY <1>1, Invariance, PTL

(* When no call on a record is in progress, and no clashing ones have ever *)
(* been, the field table, the strings and the copy of the key that were    *)
(* made for it and not deleted are those of its entry in key_table_:       *)
(* Insert, Update and Delete lose none of them, failed ones neither.       *)
THEOREM NothingIsLost == Spec => []NothingLost
<1>1. IInv => NothingLost
  <2> SUFFICES ASSUME IInv, NEW k \in Keys, k \notin raced,
                      \A t \in Threads : pc[t] # "idle" => k \notin Touches(call[t]),
                      NEW own, own = IF k \in Present THEN {key_table[k]} ELSE {}
               PROVE  /\ { x \in tables : x[3] = k } = own
                      /\ { x \in key_names : x[3] = k } = own
                      /\ { s \in strings : s[3] = k } =
                           UNION { { fields[x][f] : f \in Fields } \ {NULL} : x \in own }
    BY DEF NothingLost
  <2>0. TypeOK /\ CallInv /\ HomeInv /\ LiveInv /\ LeakInv /\ HeapInv
    BY DEF IInv, HeapInv, SafeInv
  <2>1. \A l \in Keys : key_table[l] # NULL =>
          key_table[l] \in TableId /\ key_table[l][3] = l
    BY <2>0 DEF TypeOK, HomeInv
  <2>t. ASSUME NEW t \in Threads, pc[t] # "idle" PROVE call[t].key # k
    BY <2>0, <2>t, TouchesKey
  <2>2. ASSUME NEW x \in TableId, x[3] = k, Linked(x) PROVE x \in own
    <3>1. PICK l \in Keys : key_table[l] = x
      BY <2>2 DEF Linked
    <3>2. x # NULL
      BY PointersAreNotNull
    <3> QED BY <2>1, <2>2, <3>1, <3>2 DEF Present
  <2>3. \A x \in own : x = key_table[k] /\ key_table[k] # NULL
    BY DEF Present
  <2>4. \A x \in own : x \in tables /\ x \in key_names /\ x[3] = k
    BY <2>0, <2>1, <2>3 DEF LiveInv
  <2>5. ASSUME NEW x \in tables, x[3] = k PROVE x \in own
    <3>1. x \in TableId /\ x # NULL
      BY <2>0, PointersAreNotNull DEF TypeOK
    <3>2. FoundTable(x)
      BY <2>0, <2>5 DEF LeakInv
    <3>3. ASSUME NEW t \in Threads, pc[t] \in {"entries", "drop"}, field_table[t] = x
          PROVE  FALSE
      BY <2>0, <2>t, <2>5, <3>1, <3>3 DEF HomeInv
    <3> QED BY <2>2, <2>5, <3>1, <3>2, <3>3 DEF FoundTable
  <2>6. ASSUME NEW x \in key_names, x[3] = k PROVE x \in own
    <3>1. x \in TableId
      BY <2>0 DEF TypeOK
    <3> QED BY <2>0, <2>2, <2>6, <3>1 DEF LeakInv
  <2>7. ASSUME NEW s \in strings, s[3] = k
        PROVE  \E x \in own, f \in Fields : fields[x][f] = s /\ s # NULL
    <3>1. s \in StringId /\ s # NULL
      BY <2>0, PointersAreNotNull DEF TypeOK
    <3>2. FoundString(s)
      BY <2>0, <2>7 DEF LeakInv
    <3>3. ASSUME NEW t \in Threads, pc[t] \in {"free", "drop"},
                 NEW h \in held[t], h[3] = s
          PROVE  FALSE
      BY <2>0, <2>t, <2>7, <3>3, HeldKey
    <3>4. ASSUME NEW t \in Threads, pc[t] = "add", NewString(t) = s
          PROVE  FALSE
      BY <2>t, <2>7, <3>4 DEF NewString
    <3>5. ASSUME NEW t \in Threads, pc[t] = "entries", NEW f \in Fields,
                 fields[field_table[t]][f] = s
          PROVE  FALSE
      <4>1. field_table[t] \in TableId /\ field_table[t][3] = call[t].key
        BY <2>0, <3>5 DEF LiveInv, HomeInv, TypeOK
      <4>2. s[3] = call[t].key
        BY <2>0, <3>1, <3>5, <4>1 DEF HomeInv
      <4> QED BY <2>t, <2>7, <3>5, <4>2
    <3>6. PICK l \in Keys, f \in Fields :
            key_table[l] # NULL /\ fields[key_table[l]][f] = s
      BY <3>2, <3>3, <3>4, <3>5 DEF FoundString
    <3>7. l = k
      BY <2>0, <2>1, <2>7, <3>1, <3>6 DEF HomeInv
    <3> QED BY <3>1, <3>6, <3>7 DEF Present
  <2>8. ASSUME NEW x \in own, NEW f \in Fields, fields[x][f] # NULL
        PROVE  fields[x][f] \in strings /\ fields[x][f][3] = k
    BY <2>0, <2>1, <2>3, <2>8 DEF LiveInv, HomeInv
  <2>9. { x \in tables : x[3] = k } = own /\ { x \in key_names : x[3] = k } = own
    BY <2>4, <2>5, <2>6
  <2>10. { s \in strings : s[3] = k } =
           UNION { { fields[x][f] : f \in Fields } \ {NULL} : x \in own }
    BY <2>7, <2>8
  <2> QED BY <2>9, <2>10
<1> QED BY <1>1, Invariance, PTL
=============================================================================
