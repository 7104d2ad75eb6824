---------------------------- MODULE ClientCalls -----------------------------
(***************************************************************************)
(* The calls the clients of core/client.h make on the DB interface of      *)
(* core/db.h: which fields of a record CoreWorkload has them write and     *)
(* read.  A call is a record: the operation, the key, the list of fields   *)
(* (the names of the values to write, or the fields argument of Read and   *)
(* Scan, where <<>> stands for NULL, "all of them") and a scan length.     *)
(***************************************************************************)
EXTENDS Naturals, Sequences

CONSTANTS
  Keys,             \* keys of records
  FieldCount,       \* property fieldcount
  ReadAllFields,    \* property readallfields
  WriteAllFields,   \* property writeallfields
  MaxScanLength,    \* property maxscanlength
  DbName            \* property dbname

ASSUME ClientAssumption ==
  /\ FieldCount \in Nat \ {0}
  /\ MaxScanLength \in Nat \ {0}
  /\ ReadAllFields \in BOOLEAN /\ WriteAllFields \in BOOLEAN

(* DB::kOK, DB::kErrorNoData and DB::kErrorConflict.                       *)
kOK            == 0
kErrorNoData   == 1
kErrorConflict == 2

(* What Init and, for -db rocksdb, handleRocksdb() leave in the workload.  *)
field_count      == IF DbName = "rocksdb" THEN 1 ELSE FieldCount
read_all_fields  == DbName = "rocksdb" \/ ReadAllFields
write_all_fields == DbName = "rocksdb" \/ WriteAllFields

(* A field name is the list of what is appended to make it.                *)
FieldName(i) == <<"field", i>>

(* The names NextFieldName() can return.                                   *)
NextFieldName == { FieldName(i) : i \in 0 .. field_count - 1 }

BuildValues == [j \in 1 .. field_count |-> FieldName(j - 1)]

(* The values of TransactionUpdate: BuildValues or BuildUpdate.            *)
UpdateValues ==
  IF write_all_fields THEN {BuildValues} ELSE { <<f>> : f \in NextFieldName }

(* "field" + NextFieldName(): the prefix is already part of the name.      *)
ReadFieldName(f) == <<"field">> \o f

(* The fields argument of TransactionRead and TransactionScan.             *)
ReadFields ==
  IF read_all_fields THEN {<<>>}
  ELSE { <<ReadFieldName(f)>> : f \in NextFieldName }

(* Every field name a client writes or asks for.                           *)
Fields ==
  NextFieldName \cup
    IF read_all_fields THEN {} ELSE { ReadFieldName(f) : f \in NextFieldName }

Call(op, k, fields, len) ==
  [op |-> op, key |-> k, fields |-> fields, len |-> len]

(***************************************************************************)
(* Client calls Insert, Read, Update and Scan (a read-modify-write is a    *)
(* Read followed by an Update).  Delete is part of DB; no client calls it. *)
(***************************************************************************)
Calls ==
  UNION { { Call("Insert", k, BuildValues, 0), Call("Delete", k, <<>>, 0) }
            \cup { Call("Update", k, v, 0) : v \in UpdateValues }
            \cup { Call("Read", k, f, 0) : f \in ReadFields }
            \cup { Call("Scan", k, f, n) :
                     f \in ReadFields, n \in 1 .. MaxScanLength }
          : k \in Keys }

(* The records a call works on.                                            *)
Touches(c) == IF c.op = "Scan" THEN Keys ELSE {c.key}

(***************************************************************************)
(* Calls that may run at once on one record: reads and scans with each     *)
(* other, a read or a scan with an insert, deletes with deletes, and       *)
(* updates with updates as long as the record has all of its fields.       *)
(***************************************************************************)
Safe ==
  {{"Read"}, {"Scan"}, {"Update"}, {"Delete"}, {"Read", "Scan"},
   {"Insert", "Read"}, {"Insert", "Scan"}}
=============================================================================
