---------------------------- MODULE HashtableDB -----------------------------
(***************************************************************************)
(* HashtableDB of db/hashtable_db.cc over the tables of                    *)
(* lib/lock_stl_hashtable.h, shared by several threads: a table from keys  *)
(* to field tables, each a table from fields to strings.                   *)
(*                                                                         *)
(* Every operation of a table runs under the mutex of that table, so it is *)
(* one step.  Between two steps of a call other threads run: pointers to   *)
(* field tables and strings are used after the lock that protected them    *)
(* was released.  Memory is never reused here, so that a use of freed      *)
(* memory can be told; what a thread does after dereferencing a freed      *)
(* field table or deleting a string twice is not described.                *)
(*                                                                         *)
(* Nothing in the code keeps two calls on one record apart, and nothing    *)
(* does here: the history variable raced only records where calls that     *)
(* the tables cannot take at once have overlapped.                         *)
(***************************************************************************)
EXTENDS ClientCalls, FiniteSets, Functions

CONSTANTS
  Threads,   \* clients
  MaxCalls,  \* calls a client makes at most
  NULL,
  Garbage    \* what freed memory may hold

ASSUME TableAssumption ==
  /\ MaxCalls \in Nat
  /\ NULL \notin Threads \X Nat \X Keys
  /\ NULL \notin Threads \X Nat \X Keys \X Fields

VARIABLES
  key_table,    \* key_table_: key -> field table
  fields,       \* field table -> field -> string
  tables,       \* field tables that are allocated
  strings,      \* strings that are allocated
  key_names,    \* copies of keys that are allocated
  field_names,  \* copies of field names that are allocated
  raced,        \* history: keys on which clashing calls have overlapped
  pc, call, num,
  field_table,  \* the local of that name
  idx,          \* position in the values or the fields vector
  todo,         \* records still to read: sequence of [key, table]
  held,         \* <<key, field, string>> pointers to copy or to delete
  result,       \* the result vector, as a set of <<key, field, value>>
  status

heap  == <<key_table, fields, tables, strings, key_names, field_names>>
local == <<pc, call, num, field_table, idx, todo, held, result, status>>
vars  == <<heap, local, raced>>

(* A call creates one field table at most, and one string per field.  The  *)
(* copy of a key or of a field name has the identity of what it is for.    *)
TableId  == Threads \X (1 .. MaxCalls) \X Keys
StringId == Threads \X (1 .. MaxCalls) \X Keys \X Fields

NoFields == [f \in Fields |-> NULL]

Init ==
  /\ key_table = [k \in Keys |-> NULL]
  /\ fields = [x \in TableId |-> NoFields]
  /\ tables = {} /\ strings = {}
  /\ key_names = {} /\ field_names = {}
  /\ raced = {}
  /\ pc = [t \in Threads |-> "idle"]
  /\ call = [t \in Threads |-> NULL]
  /\ num = [t \in Threads |-> 0]
  /\ field_table = [t \in Threads |-> NULL]
  /\ idx = [t \in Threads |-> 1]
  /\ todo = [t \in Threads |-> <<>>]
  /\ held = [t \in Threads |-> {}]
  /\ result = [t \in Threads |-> {}]
  /\ status = [t \in Threads |-> NULL]

Goto(t, from, to) ==
  /\ pc[t] = from
  /\ pc' = [pc EXCEPT ![t] = to]

-----------------------------------------------------------------------------
(* Calls *)

(* The record of the key has every field that BuildValues writes.          *)
Complete(k) ==
  /\ key_table[k] # NULL
  /\ \A f \in NextFieldName : fields[key_table[k]][f] # NULL

(* Two calls that the tables cannot take at once on this key: afterwards a *)
(* table, a field or a string may be lost, or a pointer dangle.            *)
Clash(c, d, k) ==
  /\ k \in Touches(c) \cap Touches(d)
  /\ {c.op, d.op} \in Safe => {c.op, d.op} = {"Update"} /\ ~ Complete(k)

FirstLabel(op) ==
  CASE op = "Scan" -> "scan" [] op = "Delete" -> "remove" [] OTHER -> "get"

Invoke(t) ==
  /\ num[t] < MaxCalls
  /\ num' = [num EXCEPT ![t] = @ + 1]
  /\ \E c \in Calls :
       /\ call' = [call EXCEPT ![t] = c]
       /\ Goto(t, "idle", FirstLabel(c.op))
       /\ raced' = raced \cup
            { k \in Keys : \E u \in Threads :
                pc[u] # "idle" /\ Clash(c, call[u], k) }
  /\ UNCHANGED <<heap, field_table, idx, todo, held, result, status>>

Finish(t, s) ==
  /\ pc' = [pc EXCEPT ![t] = "return"]
  /\ status' = [status EXCEPT ![t] = s]

Return(t) ==
  /\ Goto(t, "return", "idle")
  /\ call' = [call EXCEPT ![t] = NULL]
  /\ field_table' = [field_table EXCEPT ![t] = NULL]
  /\ idx' = [idx EXCEPT ![t] = 1]
  /\ todo' = [todo EXCEPT ![t] = <<>>]
  /\ held' = [held EXCEPT ![t] = {}]
  /\ result' = [result EXCEPT ![t] = {}]
  /\ status' = [status EXCEPT ![t] = NULL]
  /\ UNCHANGED <<heap, num, raced>>

-----------------------------------------------------------------------------
(* Read and Scan *)

(* key_table_->Get finds nothing: kErrorNoData.                            *)
ReadMissing(t) ==
  /\ pc[t] = "get" /\ call[t].op = "Read"
  /\ key_table[call[t].key] = NULL
  /\ Finish(t, kErrorNoData)
  /\ UNCHANGED <<heap, call, num, field_table, idx, todo, held, result, raced>>

Item(k) == [key |-> k, table |-> key_table[k]]

(* mutant: the table that Get returned is not tested *)
ReadFound_NoCheck(t) ==
  /\ Goto(t, "get", "read")
  /\ call[t].op = "Read"
  /\ todo' = [todo EXCEPT ![t] = <<Item(call[t].key)>>]
  /\ UNCHANGED <<heap, call, num, field_table, idx>>
  /\ UNCHANGED <<held, result, status, raced>>

ReadFound(t) ==
  /\ Goto(t, "get", "read")
  /\ call[t].op = "Read"
  /\ key_table[call[t].key] # NULL
  /\ todo' = [todo EXCEPT ![t] = <<Item(call[t].key)>>]
  /\ UNCHANGED <<heap, call, num, field_table, idx>>
  /\ UNCHANGED <<held, result, status, raced>>

Present == { k \in Keys : key_table[k] # NULL }

(* Entries(key, n) of an unordered_map: nothing if the key is absent, else *)
(* the key and, in any order, what follows it there.                       *)
Entries(k, n) ==
  IF k \notin Present THEN {<<>>}
  ELSE { ks \in UNION { [1 .. m -> Present] : m \in 1 .. n } :
           ks[1] = k /\ IsInjective(ks) }

Scan(t) ==
  /\ Goto(t, "scan", "read")
  /\ \E ks \in Entries(call[t].key, call[t].len) :
       todo' = [todo EXCEPT ![t] = [j \in DOMAIN ks |-> Item(ks[j])]]
  /\ UNCHANGED <<heap, call, num, field_table, idx>>
  /\ UNCHANGED <<held, result, status, raced>>

(* The fields of a call from the i-th on; all fields if it names none.     *)
FieldsFrom(c, i) ==
  IF c.fields = <<>> THEN Fields
  ELSE { c.fields[j] : j \in i .. Len(c.fields) }

(* The <<key, field, string>> pointers a table holds in some fields.       *)
Pointers(k, ft, fs) ==
  { <<k, f, fields[ft][f]>> : f \in { g \in fs : fields[ft][g] # NULL } }

(* field_table->Entries() gives pointers to all values of a record, ->Get  *)
(* a pointer to one; the loop over the fields is within that over records. *)
Fetch(t) ==
  LET r    == Head(todo[t])
      all  == call[t].fields = <<>>
      last == all \/ idx[t] = Len(call[t].fields)
  IN /\ pc[t] = "read" /\ held[t] = {} /\ todo[t] # <<>>
     /\ r.table \in tables
     /\ held' = [held EXCEPT ![t] = Pointers(r.key, r.table,
                    IF all THEN Fields ELSE {call[t].fields[idx[t]]})]
     /\ idx' = [idx EXCEPT ![t] = IF last THEN 1 ELSE @ + 1]
     /\ todo' = [todo EXCEPT ![t] = IF last THEN Tail(@) ELSE @]
     /\ UNCHANGED <<heap, pc, call, num, field_table, result, status, raced>>

(* What a string was copied from: the value of a thread's n-th call.       *)
Content(s) == <<s[1], s[2]>>

(* push_back(make_pair(..., value)): the value is copied out of the table's *)
(* string.  If that was deleted, its bytes may or may not still be there.  *)
CopyValue(t) ==
  /\ pc[t] = "read"
  /\ \E h \in held[t] :
       /\ held' = [held EXCEPT ![t] = @ \ {h}]
       /\ \E v \in IF h[3] \in strings THEN {Content(h[3])}
                   ELSE {Content(h[3]), Garbage} :
            result' = [result EXCEPT ![t] = @ \cup {<<h[1], h[2], v>>}]
  /\ UNCHANGED <<heap, pc, call, num, field_table, idx, todo, status, raced>>

ReadDone(t) ==
  /\ pc[t] = "read" /\ held[t] = {} /\ todo[t] = <<>>
  /\ Finish(t, kOK)
  /\ UNCHANGED <<heap, call, num, field_table, idx, todo, held, result, raced>>

-----------------------------------------------------------------------------
(* Insert and Update *)

(* FieldHashtable *field_table = key_table_->Get(key)                      *)
WriterGet(t) ==
  /\ pc[t] = "get" /\ call[t].op \in {"Insert", "Update"}
  /\ LET ft == key_table[call[t].key]
     IN /\ field_table' = [field_table EXCEPT ![t] = ft]
        /\ Goto(t, "get", IF ft = NULL THEN "create"
                          ELSE IF call[t].op = "Insert" THEN "insert"
                          ELSE "update")
  /\ UNCHANGED <<heap, call, num, idx, todo, held, result, status, raced>>

(* mutant: the new table is not inserted *)
CreateTable_NoInsert(t) ==
  /\ Goto(t, "create", "insert")
  /\ LET ft == <<t, num[t], call[t].key>>
     IN /\ tables' = tables \cup {ft}
        /\ key_names' = key_names \cup {ft}
        /\ field_table' = [field_table EXCEPT ![t] = ft]
        /\ key_table' = key_table
  /\ UNCHANGED <<fields, strings, field_names, call, num, idx, todo, held>>
  /\ UNCHANGED <<result, status, raced>>

(* NewFieldHashtable, and key_table_->Insert, whose result is ignored.  It *)
(* copies the key, and then does nothing if another thread has inserted it *)
(* since the Get: the copy is lost, and so is the new table.               *)
CreateTable(t) ==
  /\ Goto(t, "create", "insert")
  /\ LET ft == <<t, num[t], call[t].key>>
     IN /\ tables' = tables \cup {ft}
        /\ key_names' = key_names \cup {ft}
        /\ field_table' = [field_table EXCEPT ![t] = ft]
        /\ key_table' = [key_table EXCEPT ![call[t].key] =
                           IF @ = NULL THEN ft ELSE @]
  /\ UNCHANGED <<fields, strings, field_names, call, num, idx, todo, held>>
  /\ UNCHANGED <<result, status, raced>>

(* The field of the values vector that is next, and CopyString of it.      *)
Writing(t)  == idx[t] <= Len(call[t].fields)
Field(t)    == call[t].fields[idx[t]]
NewString(t) == <<t, num[t], call[t].key, Field(t)>>

Slot(t) == fields[field_table[t]][Field(t)]

SetSlot(t) == fields' = [fields EXCEPT ![field_table[t]][Field(t)] = NewString(t)]

(* One turn of the loop over values ends.                                  *)
NextField(t) == idx' = [idx EXCEPT ![t] = @ + 1]

(* mutant: the pointer is stored, CopyString is left out *)
InsertField_NoCopy(t) ==
  /\ pc[t] = "insert" /\ Writing(t)
  /\ field_table[t] \in tables
  /\ Slot(t) = NULL
  /\ SetSlot(t) /\ NextField(t)
  /\ field_names' = field_names \cup {NewString(t)}
  /\ UNCHANGED <<key_table, tables, strings, key_names, pc, call, num>>
  /\ UNCHANGED <<field_table, todo, held, result, status, raced>>

(***************************************************************************)
(* CopyString and field_table->Insert, which copies the field name.  If    *)
(* the field has a value the copy of the name is lost; Insert deletes that *)
(* of the value and returns kErrorConflict; Update, filling a table it     *)
(* created, ignores the result, and loses the value too.                   *)
(***************************************************************************)
InsertField(t) ==
  /\ pc[t] = "insert" /\ Writing(t)
  /\ field_table[t] \in tables
  /\ Slot(t) = NULL
  /\ SetSlot(t) /\ NextField(t)
  /\ field_names' = field_names \cup {NewString(t)}
  /\ strings' = strings \cup {NewString(t)}
  /\ UNCHANGED <<key_table, tables, key_names, pc, call, num, field_table>>
  /\ UNCHANGED <<todo, held, result, status, raced>>

InsertConflict(t) ==
  /\ pc[t] = "insert" /\ Writing(t)
  /\ field_table[t] \in tables
  /\ Slot(t) # NULL
  /\ field_names' = field_names \cup {NewString(t)}
  /\ IF call[t].op = "Insert"
     THEN Finish(t, kErrorConflict) /\ UNCHANGED <<idx, strings>>
     ELSE /\ NextField(t)
          /\ strings' = strings \cup {NewString(t)}
          /\ UNCHANGED <<pc, status>>
  /\ UNCHANGED <<key_table, fields, tables, key_names, call, num, field_table>>
  /\ UNCHANGED <<todo, held, result, raced>>

(* mutant: the old value is not handed back *)
ReplaceField_NoOld(t) ==
  /\ pc[t] = "update" /\ Writing(t)
  /\ field_table[t] \in tables
  /\ Slot(t) # NULL
  /\ SetSlot(t) /\ NextField(t)
  /\ strings' = strings \cup {NewString(t)}
  /\ UNCHANGED <<key_table, tables, key_names, field_names, pc, call, num>>
  /\ UNCHANGED <<field_table, todo, held, result, status, raced>>

(* CopyString and field_table->Update of a field that has a value ...      *)
ReplaceField(t) ==
  /\ Goto(t, "update", "free") /\ Writing(t)
  /\ field_table[t] \in tables
  /\ Slot(t) # NULL
  /\ held' = [held EXCEPT ![t] = {<<call[t].key, Field(t), Slot(t)>>}]
  /\ SetSlot(t) /\ NextField(t)
  /\ strings' = strings \cup {NewString(t)}
  /\ UNCHANGED <<key_table, tables, key_names, field_names, call, num>>
  /\ UNCHANGED <<field_table, todo, result, status, raced>>

(* mutant: the pointer is used again *)
Free_Again(t, h) ==
  /\ h[3] \in strings
  /\ strings' = strings \ {h[3]}
  /\ UNCHANGED held

(* DeleteString *)
Free(t, h) ==
  /\ h[3] \in strings
  /\ strings' = strings \ {h[3]}
  /\ held' = [held EXCEPT ![t] = @ \ {h}]

(* ... and DeleteString(old), after the lock was released.                 *)
DeleteOld(t) ==
  /\ Goto(t, "free", "update")
  /\ \E h \in held[t] : Free(t, h)
  /\ UNCHANGED <<key_table, fields, tables, key_names, field_names, call, num>>
  /\ UNCHANGED <<field_table, idx, todo, result, status, raced>>

(* field_table->Update returns NULL: the field has no value.               *)
UpdateMissing(t) ==
  /\ Goto(t, "update", "add") /\ Writing(t)
  /\ field_table[t] \in tables
  /\ Slot(t) = NULL
  /\ strings' = strings \cup {NewString(t)}
  /\ UNCHANGED <<key_table, fields, tables, key_names, field_names, call, num>>
  /\ UNCHANGED <<field_table, idx, todo, held, result, status, raced>>

(* field_table->Insert, whose result is ignored; it copies the field name. *)
AddField(t) ==
  /\ Goto(t, "add", "update")
  /\ field_table[t] \in tables
  /\ IF Slot(t) = NULL THEN SetSlot(t) ELSE UNCHANGED fields
  /\ NextField(t)
  /\ field_names' = field_names \cup {NewString(t)}
  /\ UNCHANGED <<key_table, tables, strings, key_names, call, num>>
  /\ UNCHANGED <<field_table, todo, held, result, status, raced>>

WriteDone(t) ==
  /\ pc[t] \in {"insert", "update"} /\ ~ Writing(t)
  /\ Finish(t, kOK)
  /\ UNCHANGED <<heap, call, num, field_table, idx, todo, held, result, raced>>

-----------------------------------------------------------------------------
(* Delete *)

(* key_table_->Remove frees the copy of the key that the entry has.        *)
RemoveMissing(t) ==
  /\ pc[t] = "remove" /\ key_table[call[t].key] = NULL
  /\ Finish(t, kErrorNoData)
  /\ UNCHANGED <<heap, call, num, field_table, idx, todo, held, result, raced>>

RemoveRecord(t) ==
  /\ Goto(t, "remove", "entries")
  /\ key_table[call[t].key] # NULL
  /\ field_table' = [field_table EXCEPT ![t] = key_table[call[t].key]]
  /\ key_table' = [key_table EXCEPT ![call[t].key] = NULL]
  /\ key_names' = key_names \ {key_table[call[t].key]}
  /\ UNCHANGED <<fields, tables, strings, field_names, call, num, idx, todo>>
  /\ UNCHANGED <<held, result, status, raced>>

(* DeleteFieldHashtable: the entries of the table ...                      *)
DeleteEntries(t) ==
  /\ Goto(t, "entries", "drop")
  /\ field_table[t] \in tables
  /\ held' = [held EXCEPT ![t] =
       Pointers(call[t].key, field_table[t], Fields)]
  /\ UNCHANGED <<heap, call, num, field_table, idx>>
  /\ UNCHANGED <<todo, result, status, raced>>

(* ... are deleted one by one ...                                          *)
DeleteEntry(t) ==
  /\ pc[t] = "drop"
  /\ \E h \in held[t] : Free(t, h)
  /\ UNCHANGED <<key_table, fields, tables, key_names, field_names, pc, call>>
  /\ UNCHANGED <<num, field_table, idx, todo, result, status, raced>>

(* ... and then the table, but not its copies of field names.              *)
DeleteTable(t) ==
  /\ pc[t] = "drop" /\ held[t] = {}
  /\ tables' = tables \ {field_table[t]}
  /\ fields' = [fields EXCEPT ![field_table[t]] = NoFields]
  /\ Finish(t, kOK)
  /\ UNCHANGED <<key_table, strings, key_names, field_names, call, num>>
  /\ UNCHANGED <<field_table, idx, todo, held, result, raced>>

-----------------------------------------------------------------------------

Step(t) ==
  \/ Return(t)
  \/ ReadMissing(t) \/ ReadFound(t) \/ Scan(t)
  \/ Fetch(t) \/ CopyValue(t) \/ ReadDone(t)
  \/ WriterGet(t) \/ CreateTable(t)
  \/ InsertField(t) \/ InsertConflict(t)
  \/ ReplaceField(t) \/ DeleteOld(t) \/ UpdateMissing(t) \/ AddField(t)
  \/ WriteDone(t)
  \/ RemoveMissing(t) \/ RemoveRecord(t)
  \/ DeleteEntries(t) \/ DeleteEntry(t) \/ DeleteTable(t)

(* Every thread has made its calls.                                        *)
AllDone == \A t \in Threads : pc[t] = "idle" /\ num[t] = MaxCalls

(* The thread is about to use freed memory: no step of it is described.    *)
Undefined(t) ==
  \/ /\ pc[t] \in {"insert", "update", "add", "entries", "drop"}
     /\ field_table[t] \notin tables
  \/ pc[t] = "read" /\ todo[t] # <<>> /\ Head(todo[t]).table \notin tables
  \/ pc[t] \in {"free", "drop"} /\ \E h \in held[t] : h[3] \notin strings

Next ==
  \/ \E t \in Threads : Invoke(t) \/ Step(t)
  \/ AllDone /\ UNCHANGED vars
  \/ (\E t \in Threads : Undefined(t)) /\ UNCHANGED vars

Spec == Init /\ [][Next]_vars

-----------------------------------------------------------------------------
(* Properties *)

Label == {"idle", "get", "scan", "remove", "read", "create", "insert",
          "update", "free", "add", "entries", "drop", "return"}

Value == Threads \X (1 .. MaxCalls)

ReadItem == [key : Keys, table : TableId]

(* Every pointer is NULL or one the allocator has handed out.              *)
TypeOK ==
  /\ key_table \in [Keys -> TableId \cup {NULL}]
  /\ fields \in [TableId -> [Fields -> StringId \cup {NULL}]]
  /\ tables \subseteq TableId /\ strings \subseteq StringId
  /\ key_names \subseteq TableId /\ field_names \subseteq StringId
  /\ raced \subseteq Keys
  /\ pc \in [Threads -> Label]
  /\ call \in [Threads -> Calls \cup {NULL}]
  /\ num \in [Threads -> 0 .. MaxCalls]
  /\ field_table \in [Threads -> TableId \cup {NULL}]
  /\ idx \in [Threads -> Nat]
  /\ todo \in [Threads -> Seq(ReadItem)]
  /\ held \in [Threads -> SUBSET (Keys \X Fields \X StringId)]
  /\ result \in [Threads -> SUBSET (Keys \X Fields \X (Value \cup {Garbage}))]
  /\ status \in [Threads -> {NULL, kOK, kErrorNoData, kErrorConflict}]

(***************************************************************************)
(* What a lookup hands out is allocated at that moment: key_table_ leads   *)
(* to no deleted field table, a field table it leads to holds no deleted   *)
(* string, no two slots share a string or two keys a table, and an entry   *)
(* has its own copy of the key or the field name.  Update must replace a   *)
(* string before it deletes it, Delete must remove the table before it     *)
(* deletes its strings, and StlHashtable::Insert must copy the name.       *)
(* It holds whatever calls overlap, of raced records too.                  *)
(***************************************************************************)
LookupsAreLive ==
  \A k \in Present :
    /\ key_table[k] \in tables \cap key_names
    /\ \A l \in Present : key_table[k] = key_table[l] => k = l
    /\ \A f \in Fields :
         LET s == fields[key_table[k]][f]
         IN s # NULL =>
              /\ s \in strings
              /\ \E n \in field_names : n[3] = k /\ n[4] = f
              /\ \A l \in Present, g \in Fields :
                   fields[key_table[l]][g] = s => l = k /\ g = f

(***************************************************************************)
(* No thread is about to dereference a deleted field table, copy a deleted *)
(* string, or delete a string twice, although every call keeps pointers    *)
(* after the lock they were read under is released; unless the pointer is  *)
(* one of a raced record.  A race on one record harms no other record, not *)
(* even in a Scan that reads both.                                         *)
(***************************************************************************)
NoDanglingUse ==
  \A t \in Threads :
    /\ pc[t] \in {"insert", "update", "add", "entries", "drop"} =>
         field_table[t] \in tables \/ call[t].key \in raced
    /\ \A h \in held[t] : h[3] \in strings \/ h[1] \in raced
    /\ \A j \in DOMAIN todo[t] :
         todo[t][j].table \in tables \/ todo[t][j].key \in raced

(***************************************************************************)
(* When no call on a key is in progress, and no calls have raced on it,    *)
(* every field table, string and copy of the key that was made for it and  *)
(* not deleted is in the record that key_table_ has for it: no Insert that *)
(* failed half way and no Delete has lost one.  (The copies of field names *)
(* are never deleted: those of a deleted table, and of an Insert that      *)
(* found the field there, are lost.)                                       *)
(***************************************************************************)
NothingLost ==
  \A k \in Keys \ raced :
    (\A t \in Threads : pc[t] # "idle" => k \notin Touches(call[t])) =>
      LET own == IF k \in Present THEN {key_table[k]} ELSE {}
      IN /\ { x \in tables : x[3] = k } = own
         /\ { x \in key_names : x[3] = k } = own
         /\ { s \in strings : s[3] = k } =
              UNION { { fields[x][f] : f \in Fields } \ {NULL} : x \in own }

-----------------------------------------------------------------------------
(* The promise of db.h, and how the tables keep it *)

PairsToDo(t) ==
  IF pc[t] \in {"insert", "update", "free", "add"}
  THEN {call[t].key} \X FieldsFrom(call[t], idx[t])
  ELSE UNION { {todo[t][j].key} \X
                 FieldsFrom(call[t], IF j = 1 THEN idx[t] ELSE 1)
               : j \in DOMAIN todo[t] }

(* The stage of a call in RecordStore, by the step its thread is at.       *)
StageOf(label) ==
  CASE label = "idle" -> "idle"
    [] label = "return" -> "returning"
    [] label \in {"get", "scan", "remove", "create"} -> "called"
    [] OTHER -> "running"

Unraced(S) == { p \in S : p[1] \notin raced }

Store == INSTANCE RecordStore WITH
  present <- Present \ raced,
  rec <- [k \in Keys |-> [f \in Fields |->
            LET s == IF k \in Present \ raced
                     THEN fields[key_table[k]][f] ELSE NULL
            IN IF s = NULL THEN NULL ELSE Content(s)]],
  stage <- [t \in Threads |-> StageOf(pc[t])],
  todo <- [t \in Threads |-> Unraced(PairsToDo(t))],
  got <- [t \in Threads |-> Unraced(
            result[t] \cup
              IF pc[t] = "read"
              THEN { <<h[1], h[2], Content(h[3])>> : h \in held[t] } ELSE {})]

(***************************************************************************)
(* The two levels of tables implement RecordStore, whatever calls overlap: *)
(* of a record that is not raced, a call that returns kOK has written      *)
(* every field into the record the key has then, not into a table nobody   *)
(* can find; concurrent updates keep each other's fields; and Read and     *)
(* Scan return values that were there.                                     *)
(***************************************************************************)
ImplementsRecordStore == Store!Spec

-----------------------------------------------------------------------------
(* What comments say, and the code does not do *)

OnlyOneEach(ops) ==
  \A t \in Threads :
    num[t] <= 1 /\ (pc[t] # "idle" => call[t].op \in ops)

(***************************************************************************)
(* db.h, of Insert: "Field/value pairs in the specified vector are written *)
(* into the record."  When an Insert has returned kOK and no other         *)
(* operation was called, the record of its key has all of its values.      *)
(***************************************************************************)
InsertedIsStored ==
  \A t \in Threads :
    pc[t] = "return" /\ call[t].op = "Insert" /\ status[t] = kOK
      /\ OnlyOneEach({"Insert"})
    => \A f \in NextFieldName :
         LET k == call[t].key
         IN k \in Present /\ fields[key_table[k]][f] = <<t, num[t], k, f>>

(***************************************************************************)
(* db.h, of Read: "Field/value pairs from the result are stored in a       *)
(* vector."  What a Read that returns kOK has stored there is a value that *)
(* some call wrote, not what freed memory holds: at least as long as no    *)
(* Delete, which no client calls, is in progress.                          *)
(***************************************************************************)
ReadsReturnValues ==
  (\A u \in Threads : pc[u] # "idle" => call[u].op # "Delete") =>
    \A t \in Threads :
      pc[t] = "return" /\ call[t].op = "Read" /\ status[t] = kOK =>
        \A r \in result[t] : r[3] # Garbage
=============================================================================
