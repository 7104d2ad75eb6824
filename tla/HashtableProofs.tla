--------------------------- MODULE HashtableProofs --------------------------
(***************************************************************************)
(* Theorems about HashtableDB, for every number of clients, calls, keys    *)
(* and fields.                                                             *)
(***************************************************************************)
EXTENDS HashtableInv, ClientProofs

-----------------------------------------------------------------------------
(* What a step may use *)

(* A pointer is not NULL.                                                  *)
LEMMA PointersAreNotNull ==
  /\ \A x \in TableId : x # NULL
  /\ \A s \in StringId : s # NULL
<1>1. 1 .. MaxCalls \subseteq Nat
  BY TableAssumption
<1>2. TableId \subseteq Threads \X Nat \X Keys
  BY <1>1 DEF TableId
<1>3. StringId \subseteq Threads \X Nat \X Keys \X Fields
  BY <1>1 DEF StringId
<1> QED BY <1>2, <1>3, TableAssumption

(* A thread that is in a call serves a call a client makes.                *)
LEMMA CallFacts ==
  ASSUME TypeOK, CallInv, NEW t \in Threads, pc[t] # "idle"
  PROVE  /\ call[t] \in Calls
         /\ call[t].op \in {"Insert", "Delete", "Update", "Read", "Scan"}
         /\ call[t].key \in Keys
         /\ call[t].fields \in Seq(Fields) /\ Len(call[t].fields) \in Nat
         /\ call[t].len \in Nat
         /\ num[t] \in 1 .. MaxCalls
         /\ idx[t] \in Nat /\ idx[t] >= 1
         /\ <<t, num[t], call[t].key>> \in TableId
         /\ Writing(t) => Field(t) \in Fields /\ NewString(t) \in StringId
<1>1. call[t] \in Calls /\ num[t] >= 1 /\ num[t] \in 0 .. MaxCalls
      /\ idx[t] \in Nat /\ idx[t] >= 1
  BY DEF CallInv, TypeOK
<1>2. num[t] \in 1 .. MaxCalls
  BY <1>1, TableAssumption
<1>3. /\ call[t].op \in {"Insert", "Delete", "Update", "Read", "Scan"}
      /\ call[t].key \in Keys
      /\ call[t].fields \in Seq(Fields) /\ Len(call[t].fields) \in Nat
      /\ call[t].len \in Nat
  BY <1>1, CallsType
<1>4. Writing(t) => Field(t) \in Fields
  BY <1>1, <1>3 DEF Writing, Field
<1> QED BY <1>1, <1>2, <1>3, <1>4 DEF TableId, StringId, NewString

(* The pointers a table gives out have their types.                        *)
LEMMA PointersType ==
  ASSUME TypeOK, NEW k \in Keys, NEW x \in TableId, NEW fs \in SUBSET Fields
  PROVE  Pointers(k, x, fs) \subseteq Keys \X Fields \X StringId
<1>1. \A f \in Fields : fields[x][f] # NULL => fields[x][f] \in StringId
  BY DEF TypeOK
<1> QED BY <1>1 DEF Pointers

(* Storing a new string in a slot keeps the type of the field tables.      *)
LEMMA SetSlotType ==
  ASSUME TypeOK, CallInv, NEW t \in Threads, pc[t] # "idle", Writing(t),
         field_table[t] \in tables, SetSlot(t)
  PROVE  fields' \in [TableId -> [Fields -> StringId \cup {NULL}]]
<1>1. Field(t) \in Fields /\ NewString(t) \in StringId /\ field_table[t] \in TableId
  BY CallFacts DEF TypeOK
<1>2. fields \in [TableId -> [Fields -> StringId \cup {NULL}]]
  BY DEF TypeOK
<1> QED BY <1>1, <1>2 DEF SetSlot

(* Every step keeps the types.                                             *)
LEMMA TypeStep ==
  ASSUME TypeOK, CallInv, NEW t \in Threads, Invoke(t) \/ Step(t)
  PROVE  TypeOK'
<1> USE PointersAreNotNull, CallFacts, TableAssumption DEF kOK, kErrorNoData, kErrorConflict
<1>1. CASE Invoke(t)
  BY <1>1
     DEF Invoke, Goto, FirstLabel, heap, TypeOK, Label
<1>2. CASE Return(t)
  BY <1>2
     DEF Return, Goto, heap, TypeOK, Label
<1>3. CASE ReadMissing(t)
  BY <1>3
     DEF ReadMissing, Finish, heap, TypeOK, Label
<1>4. CASE ReadFound(t)
  <2>1. call[t].key \in Keys /\ key_table[call[t].key] \in TableId
    BY <1>4 DEF ReadFound, Goto, TypeOK
  <2>2. Item(call[t].key) \in ReadItem
    BY <2>1 DEF Item, ReadItem
  <2>3. todo' \in [Threads -> Seq(ReadItem)]
    BY <1>4, <2>2 DEF ReadFound, TypeOK
  <2> QED BY <1>4, <2>3 DEF ReadFound, Goto, heap, TypeOK, Label
<1>5. CASE Scan(t)
  <2>1. PICK ks \in Entries(call[t].key, call[t].len) :
          todo' = [todo EXCEPT ![t] = [j \in DOMAIN ks |-> Item(ks[j])]]
    BY <1>5 DEF Scan
  <2>2. [j \in DOMAIN ks |-> Item(ks[j])] \in Seq(ReadItem)
    <3>1. \A k \in Present : Item(k) \in ReadItem
      BY DEF Present, TypeOK, Item, ReadItem
    <3>2. CASE ks = <<>>
      BY <3>2
    <3>3. CASE ks # <<>>
      <4>1. PICK m \in Nat : ks \in [1 .. m -> Present]
        BY <3>3 DEF Entries
      <4> QED BY <3>1, <4>1
    <3> QED BY <3>2, <3>3
  <2>3. todo' \in [Threads -> Seq(ReadItem)]
    BY <2>1, <2>2 DEF TypeOK
  <2> QED BY <1>5, <2>3 DEF Scan, Goto, heap, TypeOK, Label
<1>6. CASE Fetch(t)
  <2> DEFINE r == Head(todo[t])
             fs == IF call[t].fields = <<>> THEN Fields
                   ELSE {call[t].fields[idx[t]]}
  <2>1. r \in ReadItem /\ Tail(todo[t]) \in Seq(ReadItem)
    BY <1>6 DEF Fetch, TypeOK
  <2>2. fs \in SUBSET Fields
    <3>1. /\ pc[t] = "read" /\ call[t].fields \in Seq(Fields)
          /\ idx[t] \in Nat /\ idx[t] >= 1
      BY <1>6 DEF Fetch
    <3>2. call[t].fields # <<>> => idx[t] <= Len(call[t].fields)
      BY <3>1 DEF CallInv, Writing
    <3> QED BY <3>1, <3>2
  <2>3. Pointers(r.key, r.table, fs) \subseteq Keys \X Fields \X StringId
    BY <2>1, <2>2, PointersType DEF ReadItem
  <2>4. held' = [held EXCEPT ![t] = Pointers(r.key, r.table, fs)]
    BY <1>6 DEF Fetch
  <2>5. held' \in [Threads -> SUBSET (Keys \X Fields \X StringId)]
    BY <2>3, <2>4 DEF TypeOK
  <2>6. todo' \in [Threads -> Seq(ReadItem)] /\ idx' \in [Threads -> Nat]
    BY <1>6, <2>1 DEF Fetch, TypeOK
  <2> QED BY <1>6, <2>5, <2>6 DEF Fetch, heap, TypeOK
<1>7. CASE CopyValue(t)
  <2>1. PICK h \in held[t], v \in Value \cup {Garbage} :
          /\ held' = [held EXCEPT ![t] = @ \ {h}]
          /\ result' = [result EXCEPT ![t] = @ \cup {<<h[1], h[2], v>>}]
    <3>1. \A g \in held[t] : Content(g[3]) \in Value
      BY DEF TypeOK, StringId, Content, Value
    <3>2. PICK h \in held[t] :
            /\ held' = [held EXCEPT ![t] = @ \ {h}]
            /\ \E v \in {Content(h[3]), Garbage} :
                 result' = [result EXCEPT ![t] = @ \cup {<<h[1], h[2], v>>}]
      BY <1>7 DEF CopyValue
    <3> QED BY <3>1, <3>2
  <2>2. h[1] \in Keys /\ h[2] \in Fields
    BY DEF TypeOK
  <2>3. held' \in [Threads -> SUBSET (Keys \X Fields \X StringId)]
    BY <2>1 DEF TypeOK
  <2>4. result' \in [Threads -> SUBSET (Keys \X Fields \X (Value \cup {Garbage}))]
    BY <2>1, <2>2 DEF TypeOK
  <2> QED BY <1>7, <2>3, <2>4 DEF CopyValue, heap, TypeOK
<1>8. CASE ReadDone(t)
  BY <1>8
     DEF ReadDone, Finish, heap, TypeOK, Label
<1>9. CASE WriterGet(t)
  BY <1>9
     DEF WriterGet, Goto, heap, TypeOK, Label
<1>10. CASE CreateTable(t)
  BY <1>10
     DEF CreateTable, Goto, TypeOK, Label
<1>11. CASE InsertField(t)
  <2>1. Writing(t) /\ NewString(t) \in StringId /\ idx[t] \in Nat
    BY <1>11 DEF InsertField, Goto, CallInv
  <2>2. fields' \in [TableId -> [Fields -> StringId \cup {NULL}]]
    BY <1>11, <2>1, SetSlotType DEF InsertField, Goto, TypeOK
  <2> QED BY <1>11, <2>1, <2>2 DEF InsertField, Goto, NextField, TypeOK, Label
<1>12. CASE InsertConflict(t)
  <2>1. NewString(t) \in StringId
    BY <1>12 DEF InsertConflict
  <2>2. CASE call[t].op = "Insert"
    <3>1. /\ pc' = [pc EXCEPT ![t] = "return"]
          /\ status' = [status EXCEPT ![t] = kErrorConflict]
          /\ field_names' = field_names \cup {NewString(t)}
          /\ UNCHANGED <<key_table, fields, tables, strings, key_names, call>>
          /\ UNCHANGED <<num, field_table, idx, todo, held, result, raced>>
      BY <1>12, <2>2 DEF InsertConflict, Finish
    <3> QED BY <3>1, <2>1 DEF TypeOK, Label
  <2>3. CASE call[t].op # "Insert"
    <3>1. /\ idx' = [idx EXCEPT ![t] = @ + 1]
          /\ strings' = strings \cup {NewString(t)}
          /\ field_names' = field_names \cup {NewString(t)}
          /\ UNCHANGED <<key_table, fields, tables, key_names, pc, call, num>>
          /\ UNCHANGED <<field_table, todo, held, result, status, raced>>
      BY <1>12, <2>3 DEF InsertConflict, NextField
    <3> QED BY <3>1, <2>1 DEF TypeOK
  <2> QED BY <2>2, <2>3
<1>13. CASE ReplaceField(t)
  <2>0. /\ pc[t] = "update" /\ Writing(t)
        /\ field_table[t] \in TableId /\ Slot(t) # NULL
    BY <1>13 DEF ReplaceField, Goto, TypeOK
  <2>1. /\ NewString(t) \in StringId /\ Field(t) \in Fields
        /\ call[t].key \in Keys /\ Slot(t) \in StringId
    <3>1. /\ NewString(t) \in StringId /\ Field(t) \in Fields
          /\ call[t].key \in Keys
      BY <2>0, CallFacts
    <3>2. fields[field_table[t]][Field(t)] \in StringId \cup {NULL}
      BY <3>1, <2>0 DEF TypeOK
    <3> QED BY <3>1, <3>2, <2>0 DEF Slot
  <2>2. fields' \in [TableId -> [Fields -> StringId \cup {NULL}]]
    BY <1>13, <2>0, SetSlotType DEF ReplaceField
  <2>3. held' \in [Threads -> SUBSET (Keys \X Fields \X StringId)]
    BY <1>13, <2>1 DEF ReplaceField, TypeOK
  <2> QED BY <1>13, <2>1, <2>2, <2>3
          DEF ReplaceField, Goto, NextField, TypeOK, Label
<1>14. CASE DeleteOld(t)
  BY <1>14
     DEF DeleteOld, Goto, Free, TypeOK, Label
<1>15. CASE UpdateMissing(t)
  <2>1. Writing(t) /\ NewString(t) \in StringId /\ idx[t] \in Nat
    BY <1>15 DEF UpdateMissing, Goto, CallInv
  <2> QED BY <1>15, <2>1 DEF UpdateMissing, Goto, NextField, TypeOK, Label
<1>16. CASE AddField(t)
  <2>1. Writing(t) /\ NewString(t) \in StringId /\ idx[t] \in Nat
    BY <1>16 DEF AddField, Goto, CallInv
  <2>2. fields' \in [TableId -> [Fields -> StringId \cup {NULL}]]
    BY <1>16, <2>1, SetSlotType DEF AddField, Goto, TypeOK
  <2> QED BY <1>16, <2>1, <2>2 DEF AddField, Goto, NextField, TypeOK, Label
<1>17. CASE WriteDone(t)
  BY <1>17
     DEF WriteDone, Finish, heap, TypeOK, Label
<1>18. CASE RemoveMissing(t)
  BY <1>18
     DEF RemoveMissing, Finish, heap, TypeOK, Label
<1>19. CASE RemoveRecord(t)
  BY <1>19
     DEF RemoveRecord, Goto, TypeOK, Label
<1>20. CASE DeleteEntries(t)
  <2>1. Pointers(call[t].key, field_table[t], Fields)
          \subseteq Keys \X Fields \X StringId
    BY <1>20, PointersType DEF DeleteEntries, Goto, TypeOK
  <2>2. held' \in [Threads -> SUBSET (Keys \X Fields \X StringId)]
    BY <1>20, <2>1 DEF DeleteEntries, TypeOK
  <2> QED BY <1>20, <2>2 DEF DeleteEntries, Goto, heap, TypeOK, Label
<1>21. CASE DeleteEntry(t)
  BY <1>21
     DEF DeleteEntry, Free, TypeOK, Label
<1>22. CASE DeleteTable(t)
  <2>1. fields' \in [TableId -> [Fields -> StringId \cup {NULL}]]
    BY <1>22 DEF DeleteTable, TypeOK, NoFields
  <2> QED BY <1>22, <2>1 DEF DeleteTable, Finish, TypeOK, Label
<1> QED BY <1>1, <1>2, <1>3, <1>4, <1>5, <1>6, <1>7, <1>8, <1>9, <1>10, <1>11,
     <1>12, <1>13, <1>14, <1>15, <1>16, <1>17, <1>18, <1>19, <1>20, <1>21,
     <1>22 DEF Step

(* Every step leads its call to a place that fits its operation.           *)
LEMMA CallStep ==
  ASSUME TypeOK, CallInv, NEW t \in Threads, Invoke(t) \/ Step(t)
  PROVE  CallInv'
<1> USE CallFacts, CallsType, PointersAreNotNull
<1>1. CASE Invoke(t)
  BY <1>1
     DEF Invoke, Goto, FirstLabel, heap, TypeOK, CallInv, Writing
<1>2. CASE Return(t)
  BY <1>2
     DEF Return, Goto, heap, TypeOK, CallInv, Writing
<1>3. CASE ReadMissing(t)
  BY <1>3
     DEF ReadMissing, Finish, heap, TypeOK, CallInv, Writing
<1>4. CASE ReadFound(t)
  BY <1>4
     DEF ReadFound, Goto, heap, Item, TypeOK, CallInv, Writing
<1>5. CASE Scan(t)
  BY <1>5
     DEF Scan, Goto, heap, Item, Entries, Present, TypeOK, CallInv, Writing
<1>6. CASE Fetch(t)
  BY <1>6
     DEF Fetch, heap, Pointers, TypeOK, CallInv, Writing
<1>7. CASE CopyValue(t)
  BY <1>7
     DEF CopyValue, heap, Content, TypeOK, CallInv, Writing
<1>8. CASE ReadDone(t)
  BY <1>8
     DEF ReadDone, Finish, heap, TypeOK, CallInv, Writing
<1>9. CASE WriterGet(t)
  BY <1>9
     DEF WriterGet, Goto, heap, TypeOK, CallInv, Writing
<1>10. CASE CreateTable(t)
  BY <1>10
     DEF CreateTable, Goto, TypeOK, CallInv, Writing
<1>11. CASE InsertField(t)
  BY <1>11
     DEF InsertField, SetSlot, NextField, TypeOK, CallInv, Writing
<1>12. CASE InsertConflict(t)
  BY <1>12
     DEF InsertConflict, Finish, NextField, TypeOK, CallInv, Writing
<1>13. CASE ReplaceField(t)
  <2>1. /\ pc[t] = "update" /\ pc' = [pc EXCEPT ![t] = "free"]
        /\ idx' = [idx EXCEPT ![t] = @ + 1]
        /\ UNCHANGED <<call, num, todo, result, status>>
        /\ \E g : held' = [held EXCEPT ![t] = {g}]
    BY <1>13 DEF ReplaceField, Goto, NextField
  <2> QED BY <2>1 DEF TypeOK, CallInv, Writing
<1>14. CASE DeleteOld(t)
  BY <1>14
     DEF DeleteOld, Goto, Free, TypeOK, CallInv, Writing
<1>15. CASE UpdateMissing(t)
  BY <1>15
     DEF UpdateMissing, Goto, TypeOK, CallInv, Writing
<1>16. CASE AddField(t)
  BY <1>16
     DEF AddField, Goto, SetSlot, NextField, TypeOK, CallInv, Writing
<1>17. CASE WriteDone(t)
  BY <1>17
     DEF WriteDone, Finish, heap, TypeOK, CallInv, Writing
<1>18. CASE RemoveMissing(t)
  BY <1>18
     DEF RemoveMissing, Finish, heap, TypeOK, CallInv, Writing
<1>19. CASE RemoveRecord(t)
  BY <1>19
     DEF RemoveRecord, Goto, TypeOK, CallInv, Writing
<1>20. CASE DeleteEntries(t)
  BY <1>20
     DEF DeleteEntries, Goto, heap, Pointers, TypeOK, CallInv, Writing
<1>21. CASE DeleteEntry(t)
  BY <1>21
     DEF DeleteEntry, Free, TypeOK, CallInv, Writing
<1>22. CASE DeleteTable(t)
  BY <1>22
     DEF DeleteTable, Finish, TypeOK, CallInv, Writing
<1> QED BY <1>1, <1>2, <1>3, <1>4, <1>5, <1>6, <1>7, <1>8, <1>9, <1>10, <1>11,
     <1>12, <1>13, <1>14, <1>15, <1>16, <1>17, <1>18, <1>19, <1>20, <1>21,
     <1>22 DEF Step

(* A step of one thread leaves the locals of the others alone.             *)
LEMMA OtherLocals ==
  ASSUME TypeOK, NEW t \in Threads, Invoke(t) \/ Step(t),
         NEW u \in Threads, u # t
  PROVE  /\ pc'[u] = pc[u] /\ call'[u] = call[u] /\ num'[u] = num[u]
         /\ field_table'[u] = field_table[u] /\ idx'[u] = idx[u]
         /\ todo'[u] = todo[u] /\ held'[u] = held[u]
         /\ result'[u] = result[u] /\ status'[u] = status[u]
<1>1. CASE Invoke(t)
  BY <1>1
     DEF Invoke, Goto, FirstLabel, heap, TypeOK
<1>2. CASE Return(t)
  BY <1>2
     DEF Return, Goto, heap, TypeOK
<1>3. CASE ReadMissing(t)
  BY <1>3
     DEF ReadMissing, Finish, heap, TypeOK
<1>4. CASE ReadFound(t)
  BY <1>4
     DEF ReadFound, Goto, heap, Item, TypeOK
<1>5. CASE Scan(t)
  BY <1>5
     DEF Scan, Goto, heap, Item, Entries, Present, TypeOK
<1>6. CASE Fetch(t)
  BY <1>6
     DEF Fetch, heap, Pointers, TypeOK
<1>7. CASE CopyValue(t)
  BY <1>7
     DEF CopyValue, heap, Content, TypeOK
<1>8. CASE ReadDone(t)
  BY <1>8
     DEF ReadDone, Finish, heap, TypeOK
<1>9. CASE WriterGet(t)
  BY <1>9
     DEF WriterGet, Goto, heap, TypeOK
<1>10. CASE CreateTable(t)
  BY <1>10
     DEF CreateTable, Goto, TypeOK
<1>11. CASE InsertField(t)
  BY <1>11
     DEF InsertField, SetSlot, NextField, TypeOK
<1>12. CASE InsertConflict(t)
  BY <1>12
     DEF InsertConflict, Finish, NextField, TypeOK
<1>13. CASE ReplaceField(t)
  BY <1>13
     DEF ReplaceField, Goto, SetSlot, NextField, TypeOK
<1>14. CASE DeleteOld(t)
  BY <1>14
     DEF DeleteOld, Goto, Free, TypeOK
<1>15. CASE UpdateMissing(t)
  BY <1>15
     DEF UpdateMissing, Goto, TypeOK
<1>16. CASE AddField(t)
  BY <1>16
     DEF AddField, Goto, SetSlot, NextField, TypeOK
<1>17. CASE WriteDone(t)
  BY <1>17
     DEF WriteDone, Finish, heap, TypeOK
<1>18. CASE RemoveMissing(t)
  BY <1>18
     DEF RemoveMissing, Finish, heap, TypeOK
<1>19. CASE RemoveRecord(t)
  BY <1>19
     DEF RemoveRecord, Goto, TypeOK
<1>20. CASE DeleteEntries(t)
  BY <1>20
     DEF DeleteEntries, Goto, heap, Pointers, TypeOK
<1>21. CASE DeleteEntry(t)
  BY <1>21
     DEF DeleteEntry, Free, TypeOK
<1>22. CASE DeleteTable(t)
  BY <1>22
     DEF DeleteTable, Finish, TypeOK
<1> QED BY <1>1, <1>2, <1>3, <1>4, <1>5, <1>6, <1>7, <1>8, <1>9, <1>10, <1>11,
     <1>12, <1>13, <1>14, <1>15, <1>16, <1>17, <1>18, <1>19, <1>20, <1>21,
     <1>22 DEF Step

(* Which actions lead a call to a place.                                   *)
LEMMA Transitions ==
  ASSUME TypeOK, CallInv, NEW t \in Threads, Invoke(t) \/ Step(t)
  PROVE  /\ pc'[t] \in {"get", "scan", "remove"} => Invoke(t)
         /\ pc'[t] = "create" => WriterGet(t)
         /\ pc'[t] = "read" =>
              ReadFound(t) \/ Scan(t) \/ Fetch(t) \/ CopyValue(t)
         /\ pc'[t] = "insert" =>
              WriterGet(t) \/ CreateTable(t) \/ InsertField(t) \/ InsertConflict(t)
         /\ pc'[t] = "update" => WriterGet(t) \/ DeleteOld(t) \/ AddField(t)
         /\ pc'[t] = "free" => ReplaceField(t)
         /\ pc'[t] = "add" => UpdateMissing(t)
         /\ pc'[t] = "entries" => RemoveRecord(t)
         /\ pc'[t] = "drop" => DeleteEntries(t) \/ DeleteEntry(t)
         /\ pc[t] = "idle" => Invoke(t)
         /\ pc'[t] = "idle" => Return(t)
         /\ ~ Invoke(t) /\ ~ Return(t) => call' = call /\ num' = num
<1> USE CallsType
<1>1. CASE Invoke(t)
  BY <1>1
     DEF Invoke, Goto, FirstLabel, heap, TypeOK
<1>2. CASE Return(t)
  BY <1>2
     DEF Return, Goto, heap, TypeOK
<1>3. CASE ReadMissing(t)
  BY <1>3
     DEF ReadMissing, Finish, heap, TypeOK
<1>4. CASE ReadFound(t)
  BY <1>4
     DEF ReadFound, Goto, heap, Item, TypeOK
<1>5. CASE Scan(t)
  BY <1>5
     DEF Scan, Goto, heap, Item, Entries, Present, TypeOK
<1>6. CASE Fetch(t)
  BY <1>6
     DEF Fetch, heap, Pointers, TypeOK
<1>7. CASE CopyValue(t)
  BY <1>7
     DEF CopyValue, heap, Content, TypeOK
<1>8. CASE ReadDone(t)
  BY <1>8
     DEF ReadDone, Finish, heap, TypeOK
<1>9. CASE WriterGet(t)
  BY <1>9
     DEF WriterGet, Goto, heap, TypeOK
<1>10. CASE CreateTable(t)
  BY <1>10
     DEF CreateTable, Goto, TypeOK
<1>11. CASE InsertField(t)
  BY <1>11
     DEF InsertField, SetSlot, NextField, TypeOK
<1>12. CASE InsertConflict(t)
  BY <1>12
     DEF InsertConflict, Finish, NextField, TypeOK
<1>13. CASE ReplaceField(t)
  BY <1>13
     DEF ReplaceField, Goto, SetSlot, NextField, TypeOK
<1>14. CASE DeleteOld(t)
  BY <1>14
     DEF DeleteOld, Goto, Free, TypeOK
<1>15. CASE UpdateMissing(t)
  BY <1>15
     DEF UpdateMissing, Goto, TypeOK
<1>16. CASE AddField(t)
  BY <1>16
     DEF AddField, Goto, SetSlot, NextField, TypeOK
<1>17. CASE WriteDone(t)
  BY <1>17
     DEF WriteDone, Finish, heap, TypeOK
<1>18. CASE RemoveMissing(t)
  BY <1>18
     DEF RemoveMissing, Finish, heap, TypeOK
<1>19. CASE RemoveRecord(t)
  BY <1>19
     DEF RemoveRecord, Goto, TypeOK
<1>20. CASE DeleteEntries(t)
  BY <1>20
     DEF DeleteEntries, Goto, heap, Pointers, TypeOK
<1>21. CASE DeleteEntry(t)
  BY <1>21
     DEF DeleteEntry, Free, TypeOK
<1>22. CASE DeleteTable(t)
  BY <1>22
     DEF DeleteTable, Finish, TypeOK
<1> QED BY <1>1, <1>2, <1>3, <1>4, <1>5, <1>6, <1>7, <1>8, <1>9, <1>10, <1>11,
     <1>12, <1>13, <1>14, <1>15, <1>16, <1>17, <1>18, <1>19, <1>20, <1>21,
     <1>22 DEF Step

(* What has been made stays made.                                          *)
LEMMA IssuedStays ==
  ASSUME TypeOK, CallInv, NEW t \in Threads, Invoke(t) \/ Step(t)
  PROVE  /\ \A x \in TableId : IssuedTable(x) => IssuedTable(x)'
         /\ \A s \in StringId : IssuedString(s) => IssuedString(s)'
<1> USE CallFacts
<1>1. CASE Invoke(t)
  <2>1. num' = [num EXCEPT ![t] = @ + 1] /\ idx' = idx /\ num[t] \in Nat
    BY <1>1, TableAssumption DEF Invoke, TypeOK
  <2>2. \A u \in Threads :
          u # t => pc'[u] = pc[u] /\ call'[u] = call[u] /\ num'[u] = num[u]
    BY OtherLocals
  <2>3. num'[t] = num[t] + 1
    BY <2>1 DEF TypeOK
  <2>4. \A x \in TableId : IssuedTable(x) => IssuedTable(x)'
    BY <2>1, <2>2, <2>3 DEF IssuedTable, TableId
  <2>5. \A s \in StringId : IssuedString(s) => IssuedString(s)'
    BY <2>1, <2>2, <2>3 DEF IssuedString, StringId
  <2> QED BY <2>4, <2>5
<1>2. CASE Return(t)
  BY <1>2
     DEF Return, Goto, heap, TypeOK, CallInv, IssuedTable, IssuedString,
         TableId, StringId
<1>3. CASE ReadMissing(t)
  BY <1>3
     DEF ReadMissing, Finish, heap, TypeOK, CallInv, IssuedTable,
         IssuedString, TableId, StringId
<1>4. CASE ReadFound(t)
  BY <1>4
     DEF ReadFound, Goto, heap, Item, TypeOK, CallInv, IssuedTable,
         IssuedString, TableId, StringId
<1>5. CASE Scan(t)
  BY <1>5
     DEF Scan, Goto, heap, Item, Entries, Present, TypeOK, CallInv,
         IssuedTable, IssuedString, TableId, StringId
<1>6. CASE Fetch(t)
  BY <1>6
     DEF Fetch, heap, Pointers, TypeOK, CallInv, IssuedTable, IssuedString,
         TableId, StringId
<1>7. CASE CopyValue(t)
  BY <1>7
     DEF CopyValue, heap, Content, TypeOK, CallInv, IssuedTable, IssuedString,
         TableId, StringId
<1>8. CASE ReadDone(t)
  BY <1>8
     DEF ReadDone, Finish, heap, TypeOK, CallInv, IssuedTable, IssuedString,
         TableId, StringId
<1>9. CASE WriterGet(t)
  BY <1>9
     DEF WriterGet, Goto, heap, TypeOK, CallInv, IssuedTable, IssuedString,
         TableId, StringId
<1>10. CASE CreateTable(t)
  <2>1. /\ pc[t] = "create" /\ pc' = [pc EXCEPT ![t] = "insert"]
        /\ UNCHANGED <<num, idx, call>>
    BY <1>10 DEF CreateTable, Goto
  <2>2. \A u \in Threads : u # t => pc'[u] = pc[u]
    BY <2>1 DEF TypeOK
  <2>3. pc'[t] = "insert"
    BY <2>1 DEF TypeOK
  <2>4. \A x \in TableId : IssuedTable(x) => IssuedTable(x)'
    BY <2>1, <2>2, <2>3 DEF IssuedTable, TableId
  <2>5. \A s \in StringId : IssuedString(s) => IssuedString(s)'
    BY <2>1, <2>2, <2>3 DEF IssuedString, StringId
  <2> QED BY <2>4, <2>5
<1>11. CASE \/ InsertField(t) \/ InsertConflict(t) \/ ReplaceField(t)
            \/ DeleteOld(t) \/ AddField(t)
  <2>1. /\ num' = num /\ call' = call
        /\ pc[t] \in {"insert", "update", "free", "add"}
        /\ idx'[t] \in {idx[t], idx[t] + 1}
        /\ pc'[t] \in {"insert", "update", "free", "add", "return"}
    BY <1>11 DEF InsertField, InsertConflict, ReplaceField, DeleteOld, AddField,
                 Goto, Finish, NextField, TypeOK
  <2>2. \A u \in Threads : u # t => pc'[u] = pc[u] /\ idx'[u] = idx[u]
    BY OtherLocals
  <2>3. \A x \in TableId : IssuedTable(x) => IssuedTable(x)'
    BY <2>1, <2>2 DEF TableId, IssuedTable
  <2>4. ASSUME NEW s \in StringId, IssuedString(s) PROVE IssuedString(s)'
    <3>1. CASE s[1] = t
      BY <3>1, <2>1, <2>4 DEF IssuedString, TypeOK
    <3>2. CASE s[1] # t
      BY <3>2, <2>1, <2>2, <2>4 DEF IssuedString, StringId
    <3> QED BY <3>1, <3>2
  <2> QED BY <2>3, <2>4
<1>12. CASE UpdateMissing(t) \/ DeleteEntries(t)
  <2>1. /\ pc[t] \in {"update", "entries"} /\ pc'[t] \in {"add", "drop"}
        /\ pc[t] = "update" <=> pc'[t] = "add"
        /\ UNCHANGED <<num, idx, call>>
    BY <1>12 DEF UpdateMissing, DeleteEntries, Goto, TypeOK
  <2>2. \A u \in Threads : u # t => pc'[u] = pc[u]
    BY OtherLocals
  <2>4. \A x \in TableId : IssuedTable(x) => IssuedTable(x)'
    BY <2>1, <2>2 DEF IssuedTable, TableId
  <2>5. \A s \in StringId : IssuedString(s) => IssuedString(s)'
    BY <2>1, <2>2 DEF IssuedString, StringId
  <2> QED BY <2>4, <2>5
<1>13. CASE WriteDone(t)
  BY <1>13
     DEF WriteDone, Finish, heap, TypeOK, CallInv, IssuedTable, IssuedString,
         TableId, StringId
<1>14. CASE RemoveMissing(t)
  BY <1>14
     DEF RemoveMissing, Finish, heap, TypeOK, CallInv, IssuedTable,
         IssuedString, TableId, StringId
<1>15. CASE RemoveRecord(t)
  BY <1>15
     DEF RemoveRecord, Goto, TypeOK, CallInv, IssuedTable, IssuedString,
         TableId, StringId
<1>16. CASE DeleteEntry(t)
  BY <1>16
     DEF DeleteEntry, Free, TypeOK, CallInv, IssuedTable, IssuedString,
         TableId, StringId
<1>17. CASE DeleteTable(t)
  BY <1>17
     DEF DeleteTable, Finish, TypeOK, CallInv, IssuedTable, IssuedString,
         TableId, StringId
<1> QED BY <1>1, <1>2, <1>3, <1>4, <1>5, <1>6, <1>7, <1>8, <1>9, <1>10, <1>11,
     <1>12, <1>13, <1>14, <1>15, <1>16, <1>17 DEF Step

-----------------------------------------------------------------------------
(* What a step does to the tables *)

(* The step stores a copy of the next value in its slot.                   *)
StoresValue(t) ==
  /\ pc[t] \in {"insert", "update", "add"} /\ Writing(t)
  /\ pc'[t] \in {"insert", "update", "free"}
  /\ field_table[t] \in tables
  /\ SetSlot(t)
  /\ idx'[t] = idx[t] + 1
  /\ UNCHANGED <<key_table, tables, call, num, field_table>>
  /\ strings' = strings \cup {NewString(t)} \/ (pc[t] = "add" /\ strings' = strings)

(* A field table changes when a value is stored or the table is deleted.   *)
LEMMA FieldSteps ==
  ASSUME TypeOK, CallInv, NEW t \in Threads, Invoke(t) \/ Step(t)
  PROVE  fields' = fields \/ StoresValue(t) \/ DeleteTable(t)
<1>1. CASE InsertField(t)
  BY <1>1 DEF InsertField, NextField, StoresValue, TypeOK
<1>2. CASE ReplaceField(t)
  BY <1>2 DEF ReplaceField, Goto, NextField, StoresValue, TypeOK
<1>3. CASE AddField(t)
  BY <1>3 DEF AddField, Goto, NextField, StoresValue, TypeOK, CallInv
<1>4. CASE ~ (InsertField(t) \/ ReplaceField(t) \/ AddField(t) \/ DeleteTable(t))
  BY <1>4 DEF Invoke, Step, Return, ReadMissing, ReadFound, Scan, Fetch, CopyValue,
     ReadDone, WriterGet, CreateTable, InsertConflict, DeleteOld, UpdateMissing,
     WriteDone, RemoveMissing, RemoveRecord, DeleteEntries, DeleteEntry, heap
<1> QED BY <1>1, <1>2, <1>3, <1>4

(* Where a step stores a value, and where it does not.                     *)
LEMMA StoredValue ==
  ASSUME TypeOK, CallInv, NEW t \in Threads, StoresValue(t)
  PROVE  /\ field_table[t] \in TableId /\ Field(t) \in Fields
         /\ NewString(t) \in StringId /\ NewString(t)[4] = Field(t)
         /\ \A x \in TableId, f \in Fields :
              fields'[x][f] = IF x = field_table[t] /\ f = Field(t)
                              THEN NewString(t) ELSE fields[x][f]
<1>1. /\ field_table[t] \in TableId /\ Field(t) \in Fields
      /\ NewString(t) \in StringId /\ NewString(t)[4] = Field(t)
  BY CallFacts DEF StoresValue, TypeOK, NewString
<1>2. fields \in [TableId -> [Fields -> StringId \cup {NULL}]]
  BY DEF TypeOK
<1> QED BY <1>1, <1>2 DEF StoresValue, SetSlot

(* The copy of a value is new ...                                          *)
LEMMA NewStringIsNew ==
  ASSUME TypeOK, CallInv, NEW t \in Threads,
         pc[t] \in {"insert", "update", "add"}, Writing(t)
  PROVE  ~ IssuedString(NewString(t))
<1>1. idx[t] \in Nat /\ Len(call[t].fields) \in Nat
  BY CallFacts
<1>2. idx[t] \in idx[t] .. Len(call[t].fields)
  BY <1>1 DEF Writing
<1> QED BY <1>2 DEF IssuedString, NewString, Field

(* ... until it is stored: no other value is for the same field.           *)
LEMMA StoredIsIssued ==
  ASSUME TypeOK, CallInv, NEW t \in Threads, StoresValue(t),
         NEW s \in StringId, s = NewString(t)
  PROVE  IssuedString(s)'
<1>1. /\ call[t] \in Calls /\ call[t].op \in {"Insert", "Update"}
      /\ idx[t] \in Nat /\ idx[t] >= 1 /\ idx[t] <= Len(call[t].fields)
      /\ Len(call[t].fields) \in Nat
  BY CallFacts DEF StoresValue, CallInv, Writing
<1>2. \A j \in idx[t] + 1 .. Len(call[t].fields) :
        call[t].fields[j] # call[t].fields[idx[t]]
  BY <1>1, WrittenFields
<1>3. s[1] = t /\ s[2] = num[t] /\ s[4] = call[t].fields[idx[t]]
  BY DEF NewString, Field
<1>4. num' = num /\ call' = call /\ idx'[t] = idx[t] + 1 /\ num[t] \in Nat
  BY TableAssumption DEF StoresValue, TypeOK
<1> QED BY <1>2, <1>3, <1>4 DEF IssuedString

(* The actions that leave the tables and the strings alone.                *)
HeapSame(t) ==
  \/ Invoke(t) \/ Return(t) \/ ReadMissing(t) \/ ReadFound(t) \/ Scan(t)
  \/ Fetch(t) \/ CopyValue(t) \/ ReadDone(t) \/ WriterGet(t) \/ WriteDone(t)
  \/ RemoveMissing(t) \/ DeleteEntries(t)

(* They do.                                                                *)
LEMMA HeapUnchanged ==
  ASSUME NEW t \in Threads, HeapSame(t)
  PROVE  UNCHANGED <<key_table, fields, tables, strings, key_names, field_names>>
BY DEF HeapSame, heap, Invoke, Return, ReadMissing, ReadFound, Scan, Fetch, CopyValue,
       ReadDone, WriterGet, WriteDone, RemoveMissing, DeleteEntries

(* The other actions.                                                      *)
LEMMA HeapSteps ==
  ASSUME NEW t \in Threads, Invoke(t) \/ Step(t)
  PROVE  \/ HeapSame(t) \/ CreateTable(t) \/ InsertField(t) \/ InsertConflict(t)
         \/ ReplaceField(t) \/ DeleteOld(t) \/ UpdateMissing(t) \/ AddField(t)
         \/ RemoveRecord(t) \/ DeleteEntry(t) \/ DeleteTable(t)
BY DEF Step, HeapSame

-----------------------------------------------------------------------------
(* Whatever calls overlap *)

(* What is in a table or held by a call has been made before.              *)
LEMMA IssuedStep ==
  ASSUME HeapInv, NEW t \in Threads, Invoke(t) \/ Step(t)
  PROVE  IssuedInv'
<1> USE PointersAreNotNull, IssuedStays, CallFacts
<1>0. TypeOK /\ CallInv /\ IssuedInv /\ LiveInv /\ TypeOK' /\ CallInv'
  BY TypeStep, CallStep DEF HeapInv
<1>1. (\A x \in tables : IssuedTable(x))'
  <2>1. CASE CreateTable(t)
    <3>1. tables' = tables \cup {<<t, num[t], call[t].key>>}
      BY <2>1 DEF CreateTable
    <3>2. num' = num /\ pc'[t] = "insert" /\ num[t] \in Nat
      BY <2>1, <1>0, TableAssumption DEF CreateTable, Goto, TypeOK
    <3>3. \A x : x = <<t, num[t], call[t].key>> => IssuedTable(x)'
      BY <3>2 DEF IssuedTable
    <3>4. tables \subseteq TableId /\ \A x \in tables : IssuedTable(x)
      BY <1>0 DEF TypeOK, IssuedInv
    <3> QED BY <1>0, <3>1, <3>3, <3>4
  <2>2. CASE ~ CreateTable(t)
    <3>1. tables' \subseteq tables
      BY <2>2, HeapSteps, HeapUnchanged DEF InsertField, InsertConflict, ReplaceField,
         DeleteOld, UpdateMissing, AddField, RemoveRecord, DeleteEntry, DeleteTable
    <3> QED BY <1>0, <3>1 DEF TypeOK, IssuedInv
  <2> QED BY <2>1, <2>2
<1>2. (\A u \in Threads : field_table[u] # NULL => IssuedTable(field_table[u]))'
  <2>1. CASE WriterGet(t) \/ RemoveRecord(t)
    <3>1. call[t].key \in Keys /\ field_table' = [field_table EXCEPT ![t] = key_table[call[t].key]]
      BY <2>1, <1>0 DEF WriterGet, RemoveRecord, Goto
    <3>2. key_table[call[t].key] # NULL =>
            /\ key_table[call[t].key] \in TableId
            /\ IssuedTable(key_table[call[t].key])
      BY <3>1, <1>0 DEF LiveInv, IssuedInv, TypeOK
    <3>3. \A u \in Threads : field_table[u] # NULL =>
            field_table[u] \in TableId /\ IssuedTable(field_table[u])
      BY <1>0 DEF IssuedInv, TypeOK
    <3>4. \A u \in Threads : field_table'[u] # NULL =>
            field_table'[u] \in TableId /\ IssuedTable(field_table'[u])
      BY <3>1, <3>2, <3>3, <1>0 DEF TypeOK
    <3> QED BY <1>0, <3>4
  <2>2. CASE CreateTable(t)
    <3>1. field_table' = [field_table EXCEPT ![t] = <<t, num[t], call[t].key>>]
          /\ <<t, num[t], call[t].key>> \in tables'
      BY <2>2 DEF CreateTable
    <3>2. \A u \in Threads : u # t /\ field_table'[u] # NULL =>
            field_table'[u] \in TableId /\ IssuedTable(field_table'[u])
      BY <3>1, <1>0 DEF IssuedInv, TypeOK
    <3>3. field_table'[t] \in tables'
      BY <3>1, <1>0 DEF TypeOK
    <3> QED BY <1>0, <1>1, <3>2, <3>3
  <2>3. CASE ~ (WriterGet(t) \/ RemoveRecord(t) \/ CreateTable(t))
    <3>1. field_table' = field_table \/ field_table' = [field_table EXCEPT ![t] = NULL]
      BY <2>3 DEF Step, Invoke, Return, ReadMissing, ReadFound, Scan, Fetch, CopyValue,
         ReadDone, InsertField, InsertConflict, ReplaceField, DeleteOld, UpdateMissing,
         AddField, WriteDone, RemoveMissing, DeleteEntries, DeleteEntry, DeleteTable
    <3>2. \A u \in Threads : field_table'[u] # NULL =>
            field_table'[u] \in TableId /\ IssuedTable(field_table'[u])
      BY <3>1, <1>0 DEF IssuedInv, TypeOK
    <3> QED BY <1>0, <3>2
  <2> QED BY <2>1, <2>2, <2>3
<1>3. (\A x \in TableId, f \in Fields :
         fields[x][f] # NULL =>
           IssuedTable(x) /\ IssuedString(fields[x][f]) /\ fields[x][f][4] = f)'
  <2> SUFFICES ASSUME NEW x \in TableId, NEW f \in Fields, fields'[x][f] # NULL
               PROVE  /\ IssuedTable(x)'
                      /\ \A s \in StringId : s = fields'[x][f] => IssuedString(s)'
                      /\ fields'[x][f][4] = f
    <3>1. \A x \in TableId, f \in Fields :
            fields'[x][f] # NULL => fields'[x][f] \in StringId
      BY <1>0 DEF TypeOK
    <3> QED BY <3>1
  <2>1. CASE fields'[x][f] = fields[x][f]
    <3>1. IssuedTable(x) /\ IssuedString(fields[x][f]) /\ fields[x][f][4] = f
      BY <2>1, <1>0 DEF IssuedInv
    <3> QED BY <2>1, <3>1, <1>0
  <2>2. CASE StoresValue(t) /\ x = field_table[t] /\ f = Field(t)
    <3>1. fields'[x][f] = NewString(t) /\ NewString(t)[4] = f
      BY <2>2, <1>0, StoredValue
    <3>2. IssuedTable(x)
      BY <2>2, <1>0 DEF StoresValue, IssuedInv
    <3> QED BY <2>2, <3>1, <3>2, <1>0, StoredIsIssued
  <2>3. CASE DeleteTable(t) /\ fields'[x][f] # fields[x][f]
    <3>1. x = field_table[t] /\ fields'[x] = NoFields
      BY <2>3, <1>0 DEF DeleteTable, TypeOK
    <3> QED BY <3>1 DEF NoFields
  <2> QED BY <2>1, <2>2, <2>3, <1>0, FieldSteps, StoredValue
<1>4. (\A u \in Threads : \A h \in held[u] : IssuedString(h[3]))'
  <2> SUFFICES ASSUME NEW u \in Threads, NEW h \in held'[u]
               PROVE  h[3] \in StringId /\ IssuedString(h[3])
    BY <1>0
  <2>0. h[3] \in StringId
    BY <1>0 DEF TypeOK
  <2>1. CASE h \in held[u]
    BY <2>0, <2>1, <1>0 DEF IssuedInv
  <2>2. CASE \E x \in TableId, f \in Fields : h[3] = fields[x][f]
    BY <2>0, <2>2, <1>0 DEF IssuedInv
  <2>3. h \in held[u] \/ \E x \in TableId, f \in Fields : h[3] = fields[x][f]
    <3>1. CASE u # t
      BY <3>1, <1>0, OtherLocals
    <3>2. CASE u = t /\ Fetch(t)
      <4> DEFINE r  == Head(todo[t])
                 fs == IF call[t].fields = <<>> THEN Fields
                       ELSE {call[t].fields[idx[t]]}
      <4>1. r.table \in TableId
        BY <3>2, <1>0 DEF Fetch, TypeOK
      <4>2. fs \subseteq Fields
        BY <3>2, <1>0 DEF Fetch, CallInv, Field
      <4>3. held'[t] = Pointers(r.key, r.table, fs)
        BY <3>2, <1>0 DEF Fetch, TypeOK
      <4> QED BY <3>2, <4>1, <4>2, <4>3 DEF Pointers
    <3>3. CASE u = t /\ DeleteEntries(t)
      <4>1. held'[t] = Pointers(call[t].key, field_table[t], Fields)
            /\ field_table[t] \in TableId
        BY <3>3, <1>0 DEF DeleteEntries, TypeOK
      <4> QED BY <3>3, <4>1 DEF Pointers
    <3>4. CASE u = t /\ ReplaceField(t)
      <4>1. held'[t] = {<<call[t].key, Field(t), Slot(t)>>}
            /\ field_table[t] \in TableId /\ Field(t) \in Fields
        BY <3>4, <1>0 DEF ReplaceField, Goto, TypeOK
      <4> QED BY <3>4, <4>1 DEF Slot
    <3>5. CASE u = t /\ ~ (Fetch(t) \/ DeleteEntries(t) \/ ReplaceField(t))
      <4>1. held'[t] \subseteq held[t]
        <5>1. CASE CopyValue(t) \/ DeleteOld(t) \/ DeleteEntry(t)
          BY <5>1, <1>0 DEF CopyValue, DeleteOld, DeleteEntry, Free, TypeOK
        <5>2. CASE Return(t)
          BY <5>2, <1>0 DEF Return, TypeOK
        <5>3. CASE held' = held
          BY <5>3
        <5> QED BY <3>5, <5>1, <5>2, <5>3 DEF Step, Invoke, ReadMissing,
           ReadFound, Scan, ReadDone, WriterGet, CreateTable, InsertField,
           InsertConflict, UpdateMissing, AddField, WriteDone, RemoveMissing,
           RemoveRecord, DeleteTable
      <4> QED BY <3>5, <4>1
    <3> QED BY <3>1, <3>2, <3>3, <3>4, <3>5
  <2> QED BY <2>0, <2>1, <2>2, <2>3
<1> QED BY <1>1, <1>2, <1>3, <1>4 DEF IssuedInv

(* The actions that change key_table_.                                     *)
LEMMA KeySteps ==
  ASSUME NEW t \in Threads, Invoke(t) \/ Step(t)
  PROVE  key_table' = key_table \/ CreateTable(t) \/ RemoveRecord(t)
BY HeapSteps, HeapUnchanged DEF InsertField, InsertConflict, ReplaceField, DeleteOld,
   UpdateMissing, AddField, DeleteEntry, DeleteTable

(* The table CreateTable makes is new, and empty.                          *)
LEMMA NewTableIsNew ==
  ASSUME HeapInv, NEW t \in Threads, CreateTable(t)
  PROVE  /\ <<t, num[t], call[t].key>> \in TableId /\ ~ IssuedTable(<<t, num[t], call[t].key>>)
         /\ \A f \in Fields : fields[<<t, num[t], call[t].key>>][f] = NULL
         /\ call[t].key \in Keys
         /\ \A k \in Keys :
              key_table'[k] = IF k = call[t].key /\ key_table[k] = NULL
                              THEN <<t, num[t], call[t].key>> ELSE key_table[k]
<1>1. pc[t] = "create"
  BY DEF CreateTable, Goto
<1>2. <<t, num[t], call[t].key>> \in TableId /\ call[t].key \in Keys
  BY <1>1, CallFacts DEF HeapInv
<1>3. ~ IssuedTable(<<t, num[t], call[t].key>>)
  BY <1>1 DEF IssuedTable
<1>4. \A f \in Fields : fields[<<t, num[t], call[t].key>>][f] = NULL
  BY <1>2, <1>3 DEF HeapInv, IssuedInv
<1> QED BY <1>2, <1>3, <1>4 DEF CreateTable, HeapInv, TypeOK

(* Tables and strings stay with the key they were made for.                *)
LEMMA HomeStep ==
  ASSUME HeapInv, NEW t \in Threads, Invoke(t) \/ Step(t)
  PROVE  HomeInv'
<1> USE PointersAreNotNull
<1>0. TypeOK /\ CallInv /\ HomeInv /\ TypeOK' /\ CallInv'
  BY TypeStep, CallStep DEF HeapInv
<1>1. ASSUME NEW k \in Keys, key_table'[k] # NULL PROVE key_table'[k][3] = k
  <2>1. CASE CreateTable(t)
    <3>1. key_table'[k] = key_table[k]
          \/ (key_table'[k] = <<t, num[t], call[t].key>> /\ k = call[t].key)
      BY <2>1, NewTableIsNew
    <3> QED BY <3>1, <1>0, <1>1 DEF HomeInv
  <2>2. CASE RemoveRecord(t)
    BY <2>2, <1>0, <1>1 DEF RemoveRecord, HomeInv, TypeOK
  <2> QED BY <2>1, <2>2, <1>0, <1>1, KeySteps DEF HomeInv
<1>2. ASSUME NEW x \in TableId, NEW f \in Fields, fields'[x][f] # NULL
      PROVE  fields'[x][f][3] = x[3]
  <2>1. CASE fields' = fields
    BY <2>1, <1>0, <1>2 DEF HomeInv
  <2>2. CASE StoresValue(t)
    <3>1. field_table[t] # NULL /\ NewString(t)[3] = call[t].key
      BY <2>2, <1>0, StoredValue DEF NewString
    <3>2. field_table[t][3] = call[t].key
      BY <3>1, <1>0 DEF HomeInv
    <3> QED BY <2>2, <3>1, <3>2, <1>0, <1>2, StoredValue DEF HomeInv
  <2>3. CASE DeleteTable(t)
    BY <2>3, <1>0, <1>2 DEF DeleteTable, NoFields, TypeOK, HomeInv
  <2> QED BY <2>1, <2>2, <2>3, <1>0, FieldSteps
<1>3. ASSUME NEW u \in Threads, field_table'[u] # NULL
      PROVE  pc'[u] # "idle" /\ field_table'[u][3] = call'[u].key
  <2>1. CASE u # t
    BY <2>1, <1>0, <1>3, OtherLocals DEF HomeInv
  <2>2. CASE u = t /\ (WriterGet(t) \/ RemoveRecord(t))
    <3>1. /\ call[t].key \in Keys /\ field_table'[t] = key_table[call[t].key]
          /\ pc'[t] # "idle" /\ call' = call
      BY <2>2, <1>0, CallFacts DEF WriterGet, RemoveRecord, Goto, TypeOK
    <3> QED BY <2>2, <3>1, <1>0, <1>3 DEF HomeInv
  <2>3. CASE u = t /\ CreateTable(t)
    BY <2>3, <1>0 DEF CreateTable, Goto, TypeOK
  <2>4. CASE u = t /\ ~ (WriterGet(t) \/ RemoveRecord(t) \/ CreateTable(t))
    <3>1. field_table' = field_table \/ Return(t)
      BY <2>4 DEF Step, Invoke, ReadMissing, ReadFound, Scan, Fetch, CopyValue,
         ReadDone, InsertField, InsertConflict, ReplaceField, DeleteOld, UpdateMissing,
         AddField, WriteDone, RemoveMissing, DeleteEntries, DeleteEntry, DeleteTable
    <3>2. ~ Return(t)
      BY <2>4, <1>0, <1>3 DEF Return, TypeOK
    <3>3. pc[t] # "idle" /\ field_table[t][3] = call[t].key
      BY <2>4, <3>1, <3>2, <1>0, <1>3 DEF HomeInv
    <3>4. ~ Invoke(t)
      BY <3>3 DEF Invoke, Goto
    <3>5. call' = call /\ pc'[t] # "idle"
      BY <3>2, <3>4, <1>0, Transitions
    <3> QED BY <2>4, <3>1, <3>2, <3>3, <3>5
  <2> QED BY <2>1, <2>2, <2>3, <2>4
<1>4. ASSUME NEW u \in Threads, NEW h \in held'[u]
      PROVE  h[3][3] = h[1] /\ h[1] \in Touches(call'[u])
  <2>0. CASE u # t
    BY <2>0, <1>0, <1>4, OtherLocals DEF HomeInv
  <2>1. CASE u = t /\ h \in held[t] /\ call' = call
    BY <2>1, <1>0 DEF HomeInv
  <2>2. CASE u = t /\ Fetch(t)
    <3> DEFINE r  == Head(todo[t])
               fs == IF call[t].fields = <<>> THEN Fields
                     ELSE {call[t].fields[idx[t]]}
    <3>1. /\ r = todo[t][1] /\ 1 \in DOMAIN todo[t] /\ r.table \in TableId
          /\ call' = call
      BY <2>2, <1>0 DEF Fetch, TypeOK, ReadItem
    <3>2. fs \subseteq Fields
      BY <2>2, <1>0, CallFacts DEF Fetch, CallInv, Field
    <3>3. held'[t] = Pointers(r.key, r.table, fs)
      BY <2>2, <1>0 DEF Fetch, TypeOK
    <3>4. r.table[3] = r.key /\ r.key \in Touches(call[t])
      BY <3>1, <1>0 DEF HomeInv
    <3>5. PICK f \in Fields : h = <<r.key, f, fields[r.table][f]>>
                             /\ fields[r.table][f] # NULL
      BY <2>2, <3>2, <3>3, <1>4 DEF Pointers
    <3>6. fields[r.table][f][3] = r.table[3]
      BY <3>1, <3>5, <1>0 DEF HomeInv
    <3> QED BY <2>2, <3>1, <3>4, <3>5, <3>6
  <2>3. CASE u = t /\ DeleteEntries(t)
    <3>1. /\ held'[t] = Pointers(call[t].key, field_table[t], Fields)
          /\ field_table[t] \in TableId /\ call' = call /\ pc[t] = "entries"
      BY <2>3, <1>0 DEF DeleteEntries, Goto, TypeOK
    <3>2. /\ call[t].key \in Touches(call[t])
          /\ field_table[t][3] = call[t].key
      BY <3>1, <1>0 DEF CallInv, HomeInv, Touches
    <3>3. PICK f \in Fields :
            /\ h = <<call[t].key, f, fields[field_table[t]][f]>>
            /\ fields[field_table[t]][f] # NULL
      BY <2>3, <3>1, <1>4 DEF Pointers
    <3> QED BY <2>3, <3>1, <3>2, <3>3, <1>0 DEF HomeInv
  <2>4. CASE u = t /\ ReplaceField(t)
    <3>1. /\ held'[t] = {<<call[t].key, Field(t), Slot(t)>>} /\ Slot(t) # NULL
          /\ field_table[t] \in TableId /\ Field(t) \in Fields
          /\ call' = call /\ pc[t] = "update"
      BY <2>4, <1>0, CallFacts DEF ReplaceField, Goto, TypeOK
    <3>2. /\ call[t].key \in Touches(call[t])
          /\ field_table[t][3] = call[t].key
      BY <3>1, <1>0 DEF CallInv, HomeInv, Touches
    <3>3. Slot(t)[3] = call[t].key
      BY <3>1, <3>2, <1>0 DEF HomeInv, Slot
    <3> QED BY <2>4, <3>1, <3>2, <3>3, <1>4
  <2>5. CASE u = t /\ ~ (Fetch(t) \/ DeleteEntries(t) \/ ReplaceField(t))
    <3>1. ~ Return(t)
      BY <2>5, <1>0, <1>4 DEF Return, TypeOK
    <3>2. h \in held[t]
      <4>1. CASE CopyValue(t) \/ DeleteOld(t) \/ DeleteEntry(t)
        BY <4>1, <2>5, <1>0, <1>4 DEF CopyValue, DeleteOld, DeleteEntry, Free, TypeOK
      <4>2. CASE held' = held
        BY <4>2, <2>5, <1>4
      <4> QED BY <2>5, <3>1, <4>1, <4>2 DEF Step, Invoke, ReadMissing,
         ReadFound, Scan, ReadDone, WriterGet, CreateTable, InsertField,
         InsertConflict, UpdateMissing, AddField, WriteDone, RemoveMissing,
         RemoveRecord, DeleteTable
    <3>3. ~ Invoke(t)
      BY <3>2, <1>0 DEF Invoke, Goto, CallInv
    <3>4. call' = call
      BY <3>1, <3>3, <1>0, Transitions
    <3> QED BY <2>5, <3>2, <3>4, <2>1
  <2> QED BY <2>0, <2>2, <2>3, <2>4, <2>5
<1>5. ASSUME NEW u \in Threads, NEW j \in DOMAIN todo'[u]
      PROVE  /\ todo'[u][j].table[3] = todo'[u][j].key
             /\ todo'[u][j].key \in Touches(call'[u])
  <2>0. CASE u # t
    BY <2>0, <1>0, <1>5, OtherLocals DEF HomeInv
  <2>1. CASE u = t /\ ReadFound(t)
    <3>1. /\ todo'[t] = <<Item(call[t].key)>> /\ call' = call
          /\ pc[t] = "get" /\ call[t].op = "Read" /\ key_table[call[t].key] # NULL
      BY <2>1, <1>0 DEF ReadFound, Goto, TypeOK
    <3>2. call[t].key \in Keys
      BY <3>1, <1>0, CallFacts
    <3>3. j = 1
      BY <2>1, <3>1, <1>5
    <3> QED BY <2>1, <3>1, <3>2, <3>3, <1>0 DEF HomeInv, Item, Touches
  <2>2. CASE u = t /\ Scan(t)
    <3>1. PICK ks \in Entries(call[t].key, call[t].len) :
            todo' = [todo EXCEPT ![t] = [i \in DOMAIN ks |-> Item(ks[i])]]
      BY <2>2 DEF Scan
    <3>2. call' = call /\ call[t].op = "Scan"
      BY <2>2, <1>0 DEF Scan, Goto, CallInv
    <3>3. todo'[t] = [i \in DOMAIN ks |-> Item(ks[i])]
      BY <3>1, <1>0 DEF TypeOK
    <3>4. ks[j] \in Present
      BY <2>2, <3>3, <1>5 DEF Entries
    <3>5. ks[j] \in Keys /\ key_table[ks[j]] # NULL
      BY <3>4 DEF Present
    <3> QED BY <2>2, <3>2, <3>3, <3>5, <1>0, <1>5 DEF HomeInv, Item, Touches
  <2>3. CASE u = t /\ Fetch(t)
    <3>1. todo'[t] = todo[t] \/ todo'[t] = Tail(todo[t])
      BY <2>3, <1>0 DEF Fetch, TypeOK
    <3>2. call' = call /\ todo[t] # <<>> /\ todo[t] \in Seq(ReadItem)
      BY <2>3, <1>0 DEF Fetch, TypeOK
    <3>3. \E i \in DOMAIN todo[t] : todo'[t][j] = todo[t][i]
      <4>1. CASE todo'[t] = todo[t]
        BY <4>1, <2>3, <1>5
      <4>2. CASE todo'[t] = Tail(todo[t])
        <5>1. \A i \in DOMAIN Tail(todo[t]) :
                i + 1 \in DOMAIN todo[t] /\ Tail(todo[t])[i] = todo[t][i + 1]
          BY <3>2
        <5> QED BY <2>3, <4>2, <5>1, <1>5
      <4> QED BY <3>1, <4>1, <4>2
    <3> QED BY <2>3, <3>2, <3>3, <1>0 DEF HomeInv
  <2>4. CASE u = t /\ ~ (ReadFound(t) \/ Scan(t) \/ Fetch(t))
    <3>1. ~ Return(t)
      BY <2>4, <1>0, <1>5 DEF Return, TypeOK
    <3>2. todo' = todo
      BY <2>4, <3>1 DEF Step, Invoke, ReadMissing, CopyValue, ReadDone, WriterGet,
         CreateTable, InsertField, InsertConflict, ReplaceField, DeleteOld,
         UpdateMissing, AddField, WriteDone, RemoveMissing, RemoveRecord,
         DeleteEntries, DeleteEntry, DeleteTable
    <3>3. ~ Invoke(t)
      BY <2>4, <3>2, <1>0, <1>5 DEF Invoke, Goto, CallInv
    <3>4. call' = call
      BY <3>1, <3>3, <1>0, Transitions
    <3> QED BY <2>4, <3>2, <3>4, <1>0, <1>5 DEF HomeInv
  <2> QED BY <2>0, <2>1, <2>2, <2>3, <2>4
<1> QED BY <1>1, <1>2, <1>3, <1>4, <1>5 DEF HomeInv

(* No table and no string is in two places.                                *)
LEMMA UniqueStep ==
  ASSUME HeapInv, NEW t \in Threads, Invoke(t) \/ Step(t)
  PROVE  UniqueInv'
<1>0. TypeOK /\ CallInv /\ IssuedInv /\ UniqueInv /\ LiveInv
  BY DEF HeapInv
<1>1. (\A k, l \in Keys :
         key_table[k] # NULL /\ key_table[k] = key_table[l] => k = l)'
  <2>1. CASE key_table' = key_table
    BY <2>1, <1>0 DEF UniqueInv
  <2>2. CASE CreateTable(t)
    <3>1. \A k \in Keys : key_table[k] # NULL => IssuedTable(key_table[k])
      BY <1>0 DEF LiveInv, IssuedInv
    <3>2. \A k \in Keys : key_table[k] # <<t, num[t], call[t].key>>
      BY <2>2, <3>1, NewTableIsNew, PointersAreNotNull
    <3> QED BY <2>2, <3>2, <1>0, NewTableIsNew DEF UniqueInv
  <2>3. CASE RemoveRecord(t)
    BY <2>3, <1>0 DEF RemoveRecord, UniqueInv, TypeOK
  <2> QED BY <2>1, <2>2, <2>3, KeySteps
<1>2. (\A x, y \in TableId, f \in Fields :
         fields[x][f] # NULL /\ fields[x][f] = fields[y][f] => x = y)'
  <2>1. CASE fields' = fields
    BY <2>1, <1>0 DEF UniqueInv
  <2>2. CASE StoresValue(t)
    <3>1. ~ IssuedString(NewString(t))
      BY <2>2, <1>0, NewStringIsNew DEF StoresValue
    <3>2. \A x \in TableId, f \in Fields : fields[x][f] # NewString(t)
      BY <2>2, <3>1, <1>0, StoredValue, PointersAreNotNull DEF IssuedInv
    <3> QED BY <2>2, <3>2, <1>0, StoredValue DEF UniqueInv
  <2>3. CASE DeleteTable(t)
    <3>1. \A x \in TableId, f \in Fields :
            fields'[x][f] = NULL \/ fields'[x][f] = fields[x][f]
      BY <2>3, <1>0 DEF DeleteTable, NoFields, TypeOK
    <3> QED BY <3>1, <1>0 DEF UniqueInv
  <2> QED BY <2>1, <2>2, <2>3, <1>0, FieldSteps
<1> QED BY <1>1, <1>2 DEF UniqueInv

(* Only DeleteString takes a string away.                                  *)
LEMMA StringSteps ==
  ASSUME TypeOK, NEW t \in Threads, Invoke(t) \/ Step(t)
  PROVE  \/ strings \subseteq strings'
         \/ /\ DeleteOld(t) \/ DeleteEntry(t)
            /\ pc[t] \in {"free", "drop"}
            /\ UNCHANGED <<key_table, fields, tables>>
            /\ \E h \in held[t] : strings' = strings \ {h[3]} /\ held'[t] = held[t] \ {h}
<1>1. CASE DeleteOld(t) \/ DeleteEntry(t)
  <2>1. PICK h \in held[t] : Free(t, h)
    BY <1>1 DEF DeleteOld, DeleteEntry
  <2>2. strings' = strings \ {h[3]} /\ held'[t] = held[t] \ {h}
    BY <2>1 DEF Free, TypeOK
  <2>3. pc[t] \in {"free", "drop"} /\ UNCHANGED <<key_table, fields, tables>>
    BY <1>1 DEF DeleteOld, DeleteEntry, Goto
  <2> QED BY <1>1, <2>2, <2>3
<1>2. CASE ~ (DeleteOld(t) \/ DeleteEntry(t))
  BY <1>2, HeapSteps, HeapUnchanged DEF CreateTable, InsertField, InsertConflict,
     ReplaceField, UpdateMissing, AddField, RemoveRecord, DeleteTable
<1> QED BY <1>1, <1>2

(* What a lookup can still find after a step it could find before, or it   *)
(* is the value that the step has stored.                                  *)
LEMMA FoundBefore ==
  ASSUME HeapInv, NEW t \in Threads, Invoke(t) \/ Step(t),
         NEW k \in Keys, key_table'[k] # NULL,
         NEW f \in Fields, fields'[key_table'[k]][f] # NULL
  PROVE  \/ /\ key_table[k] = key_table'[k]
            /\ fields'[key_table'[k]][f] = fields[key_table[k]][f]
         \/ /\ StoresValue(t)
            /\ fields'[key_table'[k]][f] = NewString(t)
<1>0. TypeOK /\ CallInv
  BY DEF HeapInv
<1>1. CASE CreateTable(t)
  <2>1. fields' = fields
    BY <1>1 DEF CreateTable
  <2>2. key_table'[k] # <<t, num[t], call[t].key>>
    BY <1>1, <2>1, NewTableIsNew
  <2> QED BY <1>1, <2>1, <2>2, NewTableIsNew
<1>2. CASE RemoveRecord(t)
  BY <1>2, <1>0 DEF RemoveRecord, TypeOK
<1>3. CASE key_table' = key_table
  <2>1. key_table[k] \in TableId
    BY <1>3, <1>0 DEF TypeOK
  <2>2. CASE fields' = fields
    BY <1>3, <2>2
  <2>3. CASE StoresValue(t)
    BY <1>3, <2>1, <2>3, <1>0, StoredValue
  <2>4. CASE DeleteTable(t)
    BY <1>3, <2>1, <2>4, <1>0 DEF DeleteTable, NoFields, TypeOK
  <2> QED BY <2>2, <2>3, <2>4, <1>0, FieldSteps
<1> QED BY <1>1, <1>2, <1>3, KeySteps

(* What can be found is allocated.                                         *)
LEMMA FoundIsLive ==
  ASSUME HeapInv, NEW t \in Threads, Invoke(t) \/ Step(t),
         NEW k \in Keys, key_table'[k] # NULL
  PROVE  /\ key_table'[k] \in tables' \cap key_names'
         /\ \A f \in Fields :
              fields'[key_table'[k]][f] # NULL => fields'[key_table'[k]][f] \in strings'
<1>0. TypeOK /\ CallInv /\ LiveInv
  BY DEF HeapInv
<1>1. key_table'[k] \in tables'
  <2>1. CASE CreateTable(t)
    BY <2>1, <1>0, NewTableIsNew DEF CreateTable, LiveInv
  <2>2. CASE DeleteTable(t)
    BY <2>2, <1>0 DEF DeleteTable, LiveInv, Linked
  <2>3. CASE ~ (CreateTable(t) \/ DeleteTable(t))
    <3>1. tables' = tables
      BY <2>3, HeapSteps, HeapUnchanged DEF InsertField, InsertConflict, ReplaceField,
         DeleteOld, UpdateMissing, AddField, RemoveRecord, DeleteEntry
    <3>2. key_table'[k] = key_table[k]
      BY <2>3, <1>0, KeySteps DEF RemoveRecord, TypeOK
    <3> QED BY <3>1, <3>2, <1>0 DEF LiveInv
  <2> QED BY <2>1, <2>2, <2>3
<1>2. ASSUME NEW f \in Fields, fields'[key_table'[k]][f] # NULL
      PROVE  fields'[key_table'[k]][f] \in strings'
  <2>1. CASE StoresValue(t) /\ fields'[key_table'[k]][f] = NewString(t)
    BY <2>1, <1>0 DEF StoresValue, LiveInv
  <2>2. CASE key_table[k] = key_table'[k]
             /\ fields'[key_table'[k]][f] = fields[key_table[k]][f]
    <3>1. fields[key_table[k]][f] \in strings
      BY <1>2, <2>2, <1>0 DEF LiveInv
    <3>2. \A h \in held[t] :
            pc[t] \in {"free", "drop"} => fields[key_table[k]][f] # h[3]
      BY <2>2, <1>0 DEF LiveInv
    <3> QED BY <2>2, <3>1, <3>2, <1>0, StringSteps
  <2> QED BY <1>2, <2>1, <2>2, FoundBefore
<1>3. key_table'[k] \in key_names'
  <2>1. CASE CreateTable(t)
    BY <2>1, <1>0, NewTableIsNew DEF CreateTable, LiveInv
  <2>2. CASE RemoveRecord(t)
    <3>1. /\ key_table'[k] = key_table[k] /\ k # call[t].key
          /\ key_names' = key_names \ {key_table[call[t].key]}
          /\ call[t].key \in Keys
      BY <2>2, <1>0, CallFacts DEF RemoveRecord, Goto, TypeOK
    <3> QED BY <3>1, <1>0 DEF LiveInv, UniqueInv, HeapInv
  <2>3. CASE ~ (CreateTable(t) \/ RemoveRecord(t))
    <3>1. key_names' = key_names
      BY <2>3, HeapSteps, HeapUnchanged DEF InsertField, InsertConflict, ReplaceField,
         DeleteOld, UpdateMissing, AddField, DeleteTable, DeleteEntry
    <3>2. key_table'[k] = key_table[k]
      BY <2>3, KeySteps
    <3> QED BY <3>1, <3>2, <1>0 DEF LiveInv
  <2> QED BY <2>1, <2>2, <2>3
<1> QED BY <1>1, <1>2, <1>3

(* Every entry of a field table has a copy of the field name.              *)
LEMMA NameStep ==
  ASSUME HeapInv, NEW t \in Threads, Invoke(t) \/ Step(t),
         NEW x \in TableId, NEW f \in Fields, fields'[x][f] # NULL
  PROVE  \E n \in field_names' : n[3] = x[3] /\ n[4] = f
<1>0. TypeOK /\ CallInv /\ HomeInv /\ LiveInv
  BY DEF HeapInv
<1>1. CASE fields[x][f] # NULL
  <2>1. PICK n \in field_names : n[3] = x[3] /\ n[4] = f
    BY <1>1, <1>0 DEF LiveInv
  <2>2. field_names \subseteq field_names'
    BY HeapSteps, HeapUnchanged DEF CreateTable, InsertField, InsertConflict,
       ReplaceField, DeleteOld, UpdateMissing, AddField, RemoveRecord,
       DeleteTable, DeleteEntry
  <2> QED BY <2>1, <2>2
<1>2. CASE fields[x][f] = NULL
  <2>1. StoresValue(t) /\ x = field_table[t] /\ f = Field(t)
    <3>1. CASE DeleteTable(t)
      BY <1>2, <3>1, <1>0 DEF DeleteTable, NoFields, TypeOK
    <3> QED BY <1>2, <3>1, <1>0, FieldSteps, StoredValue
  <2>2. InsertField(t) \/ AddField(t)
    <3>1. Slot(t) = NULL
      BY <1>2, <2>1 DEF Slot
    <3>2. ~ ReplaceField(t)
      BY <3>1 DEF ReplaceField
    <3>3. ~ (InsertField(t) \/ AddField(t) \/ ReplaceField(t) \/ DeleteTable(t))
          => fields' = fields
      BY HeapSteps, HeapUnchanged DEF CreateTable, InsertConflict, DeleteOld,
         UpdateMissing, RemoveRecord, DeleteEntry
    <3>4. ~ DeleteTable(t)
      <4>1. DeleteTable(t) => fields'[x][f] = NULL \/ fields'[x][f] = fields[x][f]
        BY <1>0 DEF DeleteTable, NoFields, TypeOK
      <4> QED BY <1>2, <4>1
    <3> QED BY <1>2, <3>2, <3>3, <3>4
  <2>3. NewString(t) \in field_names'
    BY <2>2 DEF InsertField, AddField
  <2>4. field_table[t] # NULL
    BY <2>1, PointersAreNotNull
  <2>5. NewString(t)[3] = x[3] /\ NewString(t)[4] = f
    BY <2>1, <2>4, <1>0 DEF HomeInv, NewString
  <2> QED BY <2>3, <2>5
<1> QED BY <1>1, <1>2


(* A step takes a call to where it has a field table only with one.        *)
LEMMA TableStep ==
  ASSUME HeapInv, NEW t \in Threads, Invoke(t) \/ Step(t),
         pc'[t] \in {"insert", "update", "free", "add", "entries", "drop"}
  PROVE  field_table'[t] # NULL
<1> USE PointersAreNotNull, CallFacts, CallsType DEF HeapInv, TypeOK
<1>1. CASE Invoke(t)
  BY <1>1
     DEF Invoke, Goto, FirstLabel, heap, LiveInv
<1>2. CASE Return(t)
  BY <1>2
     DEF Return, Goto, heap, LiveInv
<1>3. CASE ReadMissing(t)
  BY <1>3
     DEF ReadMissing, Finish, heap, LiveInv
<1>4. CASE ReadFound(t)
  BY <1>4
     DEF ReadFound, Goto, heap, Item, LiveInv
<1>5. CASE Scan(t)
  BY <1>5
     DEF Scan, Goto, heap, Item, Entries, Present, LiveInv
<1>6. CASE Fetch(t)
  BY <1>6
     DEF Fetch, heap, Pointers, LiveInv
<1>7. CASE CopyValue(t)
  BY <1>7
     DEF CopyValue, heap, Content, LiveInv
<1>8. CASE ReadDone(t)
  BY <1>8
     DEF ReadDone, Finish, heap, LiveInv
<1>9. CASE WriterGet(t)
  BY <1>9
     DEF WriterGet, Goto, heap, LiveInv
<1>10. CASE CreateTable(t)
  BY <1>10
     DEF CreateTable, Goto, LiveInv
<1>11. CASE InsertField(t)
  BY <1>11
     DEF InsertField, SetSlot, NextField, LiveInv
<1>12. CASE InsertConflict(t)
  BY <1>12
     DEF InsertConflict, Finish, NextField, LiveInv
<1>13. CASE ReplaceField(t)
  BY <1>13
     DEF ReplaceField, Goto, SetSlot, NextField, LiveInv
<1>14. CASE DeleteOld(t)
  BY <1>14
     DEF DeleteOld, Goto, Free, LiveInv
<1>15. CASE UpdateMissing(t)
  BY <1>15
     DEF UpdateMissing, Goto, LiveInv
<1>16. CASE AddField(t)
  BY <1>16
     DEF AddField, Goto, SetSlot, NextField, LiveInv
<1>17. CASE WriteDone(t)
  BY <1>17
     DEF WriteDone, Finish, heap, LiveInv
<1>18. CASE RemoveMissing(t)
  BY <1>18
     DEF RemoveMissing, Finish, heap, LiveInv
<1>19. CASE RemoveRecord(t)
  BY <1>19
     DEF RemoveRecord, Goto, LiveInv
<1>20. CASE DeleteEntries(t)
  BY <1>20
     DEF DeleteEntries, Goto, heap, Pointers, LiveInv
<1>21. CASE DeleteEntry(t)
  BY <1>21
     DEF DeleteEntry, Free, LiveInv
<1>22. CASE DeleteTable(t)
  BY <1>22
     DEF DeleteTable, Finish, LiveInv
<1> QED BY <1>1, <1>2, <1>3, <1>4, <1>5, <1>6, <1>7, <1>8, <1>9, <1>10, <1>11,
     <1>12, <1>13, <1>14, <1>15, <1>16, <1>17, <1>18, <1>19, <1>20, <1>21,
     <1>22 DEF Step

(* What can be found is allocated, and what is being deleted cannot be     *)
(* found any more.                                                         *)
LEMMA LiveStep ==
  ASSUME HeapInv, NEW t \in Threads, Invoke(t) \/ Step(t)
  PROVE  LiveInv'
<1>0. TypeOK /\ CallInv /\ IssuedInv /\ UniqueInv /\ LiveInv /\ TypeOK'
  BY TypeStep DEF HeapInv
<1>1. ASSUME NEW u \in Threads,
             pc'[u] \in {"insert", "update", "free", "add", "entries", "drop"}
      PROVE  field_table'[u] # NULL
  BY <1>0, <1>1, OtherLocals, TableStep DEF LiveInv
<1>2. ASSUME NEW u \in Threads, pc'[u] \in {"entries", "drop"}
      PROVE  \A k \in Keys : key_table'[k] # field_table'[u]
  <2>1. CASE u = t /\ RemoveRecord(t)
    BY <2>1, <1>0 DEF RemoveRecord, UniqueInv, TypeOK
  <2>2. CASE ~ (u = t /\ RemoveRecord(t))
    <3>1. pc[u] \in {"entries", "drop"} /\ field_table'[u] = field_table[u]
      <4>1. CASE u # t
        BY <4>1, <1>0, <1>2, OtherLocals
      <4>2. CASE u = t
        BY <4>2, <2>2, <1>0, <1>2, Transitions
           DEF DeleteEntries, DeleteEntry, Goto
      <4> QED BY <4>1, <4>2
    <3>2. field_table[u] # NULL /\ IssuedTable(field_table[u])
          /\ \A k \in Keys : key_table[k] # field_table[u]
      BY <3>1, <1>0 DEF LiveInv, IssuedInv, Linked
    <3>3. CASE CreateTable(t)
      BY <3>1, <3>2, <3>3, NewTableIsNew
    <3>4. CASE RemoveRecord(t)
      BY <3>1, <3>2, <3>4, <1>0 DEF RemoveRecord, TypeOK
    <3> QED BY <3>1, <3>2, <3>3, <3>4, KeySteps
  <2> QED BY <2>1, <2>2
<1>3. ASSUME NEW u \in Threads, pc'[u] \in {"free", "drop"}, NEW h \in held'[u],
             NEW k \in Keys, NEW f \in Fields, key_table'[k] # NULL
      PROVE  fields'[key_table'[k]][f] # h[3]
  <2> SUFFICES ASSUME fields'[key_table'[k]][f] = h[3] PROVE FALSE
    OBVIOUS
  <2>0. h[3] \in StringId /\ h[3] # NULL
    BY <1>0, <1>3, PointersAreNotNull DEF TypeOK
  <2>1. CASE pc[u] \in {"free", "drop"} /\ h \in held[u]
    <3>1. IssuedString(h[3])
      BY <2>1, <1>0 DEF IssuedInv
    <3>2. CASE StoresValue(t) /\ fields'[key_table'[k]][f] = NewString(t)
      BY <3>1, <3>2, <1>0, NewStringIsNew DEF StoresValue
    <3>3. CASE key_table[k] = key_table'[k]
               /\ fields'[key_table'[k]][f] = fields[key_table[k]][f]
      <4>1. key_table[k] # NULL => fields[key_table[k]][f] # h[3]
        BY <2>1, <1>0 DEF LiveInv
      <4> QED BY <1>3, <3>3, <4>1
    <3> QED BY <1>3, <2>0, <3>2, <3>3, FoundBefore
  <2>2. CASE u = t /\ ReplaceField(t)
    <3>1. h[3] = Slot(t)
      BY <2>2, <1>0, <1>3 DEF ReplaceField, TypeOK
    <3>2. StoresValue(t)
      BY <2>2, <1>0 DEF ReplaceField, Goto, NextField, StoresValue, TypeOK
    <3>3. /\ fields[field_table[t]][Field(t)] = h[3] /\ IssuedString(h[3])
          /\ h[3][4] = Field(t)
      BY <2>0, <3>1, <3>2, <1>0, StoredValue DEF Slot, IssuedInv
    <3>4. ~ IssuedString(NewString(t))
      BY <3>2, <1>0, NewStringIsNew DEF StoresValue
    <3>5. /\ key_table[k] = key_table'[k] /\ key_table[k] \in TableId
          /\ fields'[key_table[k]][f] = fields[key_table[k]][f]
      BY <1>3, <2>0, <3>3, <3>4, <1>0, FoundBefore DEF TypeOK
    <3>6. f = Field(t)
      BY <2>0, <3>3, <3>5, <1>0 DEF IssuedInv
    <3>7. key_table[k] = field_table[t]
      BY <2>0, <3>2, <3>3, <3>5, <3>6, <1>0, StoredValue DEF UniqueInv
    <3> QED BY <3>2, <3>3, <3>4, <3>5, <3>6, <3>7, <1>0, StoredValue
  <2>3. CASE u = t /\ DeleteEntries(t)
    <3>1. /\ held'[t] = Pointers(call[t].key, field_table[t], Fields)
          /\ field_table[t] \in TableId /\ pc[t] = "entries"
          /\ key_table' = key_table /\ fields' = fields
      BY <2>3, <1>0 DEF DeleteEntries, Goto, heap, TypeOK
    <3>2. PICK g \in Fields : h[3] = fields[field_table[t]][g]
      BY <2>3, <3>1, <1>3 DEF Pointers
    <3>3. key_table[k] \in TableId /\ key_table[k] # field_table[t]
      BY <3>1, <1>0, <1>3 DEF TypeOK, LiveInv, Linked
    <3>4. f = g
      BY <2>0, <3>1, <3>2, <3>3, <1>0 DEF IssuedInv
    <3> QED BY <2>0, <3>1, <3>2, <3>3, <3>4, <1>0 DEF UniqueInv
  <2>4. \/ pc[u] \in {"free", "drop"} /\ h \in held[u]
        \/ u = t /\ (ReplaceField(t) \/ DeleteEntries(t))
    <3>1. CASE u # t
      BY <3>1, <1>0, <1>3, OtherLocals
    <3>2. CASE u = t
      <4>1. ReplaceField(t) \/ DeleteEntries(t) \/ DeleteEntry(t)
        BY <3>2, <1>0, <1>3, Transitions
      <4>2. CASE DeleteEntry(t)
        BY <3>2, <4>2, <1>0, <1>3 DEF DeleteEntry, Free, TypeOK
      <4> QED BY <3>2, <4>1, <4>2
    <3> QED BY <3>1, <3>2
  <2> QED BY <2>1, <2>2, <2>3, <2>4
<1>4. ASSUME NEW u \in Threads, pc'[u] = "add"
      PROVE  NewString(u)' \in strings'
  <2>1. CASE u = t
    BY <2>1, <1>0, <1>4, Transitions DEF UpdateMissing, NewString, Field
  <2>2. CASE u # t
    <3>1. pc[u] = "add" /\ NewString(u)' = NewString(u)
      BY <2>2, <1>0, <1>4, OtherLocals DEF NewString, Field
    <3>2. NewString(u) \in strings /\ Writing(u)
      BY <3>1, <1>0 DEF LiveInv, CallInv
    <3>3. ~ IssuedString(NewString(u))
      BY <3>1, <3>2, <1>0, NewStringIsNew
    <3>4. \A h \in held[t] : h[3] # NewString(u)
      BY <3>3, <1>0 DEF IssuedInv
    <3> QED BY <3>1, <3>2, <3>4, <1>0, StringSteps
  <2> QED BY <2>1, <2>2
<1> QED BY <1>1, <1>2, <1>3, <1>4, FoundIsLive, NameStep DEF LiveInv, Linked

(* Every step keeps the half of the invariant that is about all records.   *)
LEMMA HeapStep ==
  ASSUME HeapInv, NEW t \in Threads, Invoke(t) \/ Step(t)
  PROVE  HeapInv'
BY TypeStep, CallStep, IssuedStep, HomeStep, UniqueStep, LiveStep DEF HeapInv

(* It holds of empty tables and idle clients.                              *)
LEMMA InitHeap == Init => HeapInv
<1> SUFFICES ASSUME Init PROVE HeapInv
  OBVIOUS
<1>1. TypeOK
  BY TableAssumption DEF Init, TypeOK, NoFields, Label
<1>2. CallInv
  BY DEF Init, CallInv
<1>3. IssuedInv /\ HomeInv /\ UniqueInv /\ LiveInv
  BY DEF Init, IssuedInv, HomeInv, UniqueInv, LiveInv, NoFields
<1> QED BY <1>1, <1>2, <1>3 DEF HeapInv
=============================================================================
