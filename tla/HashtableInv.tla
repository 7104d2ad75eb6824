---------------------------- MODULE HashtableInv ----------------------------
(***************************************************************************)
(* The inductive invariant behind the theorems about HashtableDB.  The     *)
(* first half is about all records: where a call is, which tables and      *)
(* strings have been made, for which key, and that what a lookup leads to  *)
(* has one place only.  The second half is about records that no clashing  *)
(* calls have worked on: who may still use a pointer, and who will delete  *)
(* what is out of the tables.                                              *)
(***************************************************************************)
EXTENDS HashtableDB

Linked(x) == \E k \in Keys : key_table[k] = x

(* A call is where its operation leads, and its locals are fresh there.    *)
CallInv ==
  \A t \in Threads :
    /\ pc[t] # "idle" => call[t] \in Calls /\ num[t] >= 1
    /\ pc[t] = "get" => call[t].op \in {"Read", "Insert", "Update"}
    /\ pc[t] = "scan" => call[t].op = "Scan"
    /\ pc[t] = "read" => call[t].op \in {"Read", "Scan"}
    /\ pc[t] \in {"create", "insert"} => call[t].op \in {"Insert", "Update"}
    /\ pc[t] \in {"update", "free", "add"} => call[t].op = "Update"
    /\ pc[t] \in {"remove", "entries", "drop"} => call[t].op = "Delete"
    /\ idx[t] >= 1
    /\ pc[t] \in {"idle", "get", "scan", "remove", "create"} => idx[t] = 1
    /\ pc[t] = "read" /\ call[t].fields # <<>> => Writing(t)
    /\ pc[t] = "add" => Writing(t)
    /\ pc[t] # "read" => todo[t] = <<>>
    /\ pc[t] \notin {"read", "free", "drop"} => held[t] = {}
    /\ pc[t] = "free" => \A g, h \in held[t] : g = h
    /\ pc[t] \notin {"read", "return"} => result[t] = {}
    /\ pc[t] # "return" => status[t] = NULL

-----------------------------------------------------------------------------
(* Identities *)

(* The call has run NewFieldHashtable, or will not any more.               *)
IssuedTable(x) ==
  /\ x[2] <= num[x[1]]
  /\ x[2] = num[x[1]] => pc[x[1]] \notin {"get", "scan", "remove", "create"}

(* The call is past the field it copied the string for.                    *)
IssuedString(s) ==
  /\ s[2] <= num[s[1]]
  /\ /\ s[2] = num[s[1]]
     /\ pc[s[1]] \in {"get", "scan", "remove", "create",
                      "insert", "update", "free", "add"}
     => \A j \in idx[s[1]] .. Len(call[s[1]].fields) :
          call[s[1]].fields[j] # s[4]

(* What is in a table or held by a call has been made before.              *)
IssuedInv ==
  /\ \A x \in tables : IssuedTable(x)
  /\ \A t \in Threads : field_table[t] # NULL => IssuedTable(field_table[t])
  /\ \A x \in TableId, f \in Fields :
       fields[x][f] # NULL =>
         /\ IssuedTable(x)
         /\ IssuedString(fields[x][f])
         /\ fields[x][f][4] = f
  /\ \A t \in Threads : \A h \in held[t] : IssuedString(h[3])

(* Tables and strings are used for the key they were made for only.        *)
HomeInv ==
  /\ \A k \in Keys : key_table[k] # NULL => key_table[k][3] = k
  /\ \A x \in TableId, f \in Fields : fields[x][f] # NULL => fields[x][f][3] = x[3]
  /\ \A t \in Threads :
       /\ field_table[t] # NULL =>
            pc[t] # "idle" /\ field_table[t][3] = call[t].key
       /\ \A h \in held[t] : h[3][3] = h[1] /\ h[1] \in Touches(call[t])
       /\ \A j \in DOMAIN todo[t] :
            /\ todo[t][j].table[3] = todo[t][j].key
            /\ todo[t][j].key \in Touches(call[t])

(* No table and no string is in two places.                                *)
UniqueInv ==
  /\ \A k, l \in Keys :
       key_table[k] # NULL /\ key_table[k] = key_table[l] => k = l
  /\ \A x, y \in TableId, f \in Fields :
       fields[x][f] # NULL /\ fields[x][f] = fields[y][f] => x = y

(* What can be found is allocated, and what is being deleted cannot be     *)
(* found any more.                                                         *)
LiveInv ==
  /\ \A k \in Keys :
       key_table[k] # NULL =>
         /\ key_table[k] \in tables \cap key_names
         /\ \A f \in Fields :
              fields[key_table[k]][f] # NULL => fields[key_table[k]][f] \in strings
  /\ \A x \in TableId, f \in Fields :
       fields[x][f] # NULL => \E n \in field_names : n[3] = x[3] /\ n[4] = f
  /\ \A t \in Threads :
       /\ pc[t] \in {"insert", "update", "free", "add", "entries", "drop"} =>
            field_table[t] # NULL
       /\ pc[t] \in {"entries", "drop"} => ~ Linked(field_table[t])
       /\ pc[t] \in {"free", "drop"} =>
            \A h \in held[t], k \in Keys, f \in Fields :
              key_table[k] # NULL => fields[key_table[k]][f] # h[3]
       /\ pc[t] = "add" => NewString(t) \in strings

HeapInv == TypeOK /\ CallInv /\ IssuedInv /\ HomeInv /\ UniqueInv /\ LiveInv

-----------------------------------------------------------------------------
(* Records that are not raced *)

Busy(t, k) == pc[t] # "idle" /\ k \in Touches(call[t])

ExclusionInv ==
  \A k \in Keys \ raced : \A t, u \in Threads :
    t # u /\ Busy(t, k) /\ Busy(u, k) => ~ Clash(call[t], call[u], k)

(* The table a writer works on is that of the key, and what an Update has  *)
(* found missing nobody else adds.                                         *)
WriterInv ==
  \A t \in Threads :
    pc[t] # "idle" /\ call[t].key \notin raced =>
      /\ pc[t] = "create" => key_table[call[t].key] = NULL
      /\ pc[t] \in {"insert", "update", "free", "add"} =>
           key_table[call[t].key] = field_table[t]
      /\ pc[t] = "insert" /\ call[t].op = "Update" =>
           \A j \in idx[t] .. Len(call[t].fields) :
             fields[field_table[t]][call[t].fields[j]] = NULL
      /\ pc[t] = "add" => Slot(t) = NULL

(* The tables and strings a reader holds stay where they were.             *)
ReaderInv ==
  \A t \in Threads :
    pc[t] = "read" =>
      /\ \A j \in DOMAIN todo[t] :
           todo[t][j].key \notin raced =>
             key_table[todo[t][j].key] = todo[t][j].table
      /\ \A h \in held[t] :
           h[1] \notin raced =>
             /\ key_table[h[1]] # NULL
             /\ fields[key_table[h[1]]][h[2]] = h[3]

(* A string or a table taken out of the tables is deleted by one call.     *)
OwnerInv ==
  \A t \in Threads :
    pc[t] # "idle" /\ call[t].key \notin raced =>
      /\ pc[t] = "free" =>
           \A h \in held[t] :
             /\ h[3] \in strings
             /\ \A x \in TableId, f \in Fields : fields[x][f] # h[3]
             /\ \A u \in Threads :
                  u # t /\ pc[u] = "free" => \A g \in held[u] : g[3] # h[3]
      /\ pc[t] \in {"entries", "drop"} =>
           /\ field_table[t] \in tables
           /\ \A u \in Threads :
                u # t /\ pc[u] \in {"entries", "drop"} =>
                  field_table[u] # field_table[t]
      /\ pc[t] = "entries" =>
           \A f \in Fields :
             fields[field_table[t]][f] # NULL => fields[field_table[t]][f] \in strings
      /\ pc[t] = "drop" =>
           \A h \in held[t] :
             h[3] \in strings /\ fields[field_table[t]][h[2]] = h[3]

(* Somebody will find, or delete, every table, string and copy of a key.   *)
FoundTable(x) ==
  \/ Linked(x)
  \/ \E t \in Threads : pc[t] \in {"entries", "drop"} /\ field_table[t] = x

FoundString(s) ==
  \/ \E k \in Keys, f \in Fields :
       key_table[k] # NULL /\ fields[key_table[k]][f] = s
  \/ \E t \in Threads :
       \/ pc[t] \in {"free", "drop"} /\ \E h \in held[t] : h[3] = s
       \/ pc[t] = "add" /\ NewString(t) = s
       \/ pc[t] = "entries" /\ \E f \in Fields : fields[field_table[t]][f] = s

LeakInv ==
  /\ \A x \in tables : x[3] \notin raced => FoundTable(x)
  /\ \A x \in key_names : x[3] \notin raced => Linked(x)
  /\ \A s \in strings : s[3] \notin raced => FoundString(s)

SafeInv == ExclusionInv /\ WriterInv /\ ReaderInv /\ OwnerInv /\ LeakInv

(***************************************************************************)
(* The inductive invariant of HashtableDB, preserved by every step of      *)
(* Read, Scan, Insert, Update and Delete: HeapInv is about all records,    *)
(* SafeInv about the records that are not raced.                           *)
(***************************************************************************)
IInv == HeapInv /\ SafeInv
=============================================================================
