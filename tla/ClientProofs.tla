---------------------------- MODULE ClientProofs ----------------------------
(***************************************************************************)
(* What the calls of ClientCalls are, for every workload: the lemmas that  *)
(* the proofs about the databases have in common.                          *)
(***************************************************************************)
EXTENDS ClientCalls, TLAPS

(* A record has at least one field, whichever database is used.            *)
LEMMA FieldCountType == field_count \in Nat /\ field_count >= 1
BY ClientAssumption DEF field_count

(* BuildValues makes a value for every field, and no two for one.          *)
LEMMA BuildValuesType ==
  /\ BuildValues \in Seq(Fields)
  /\ Len(BuildValues) = field_count
  /\ \A i \in 1 .. Len(BuildValues) :
       /\ BuildValues[i] \in NextFieldName
       /\ \A j \in 1 .. Len(BuildValues) : BuildValues[i] = BuildValues[j] => i = j
<1> USE FieldCountType
<1>1. \A j \in 1 .. field_count :
        FieldName(j - 1) \in NextFieldName /\ FieldName(j - 1) \in Fields
  BY DEF Fields, NextFieldName
<1>2. BuildValues \in [1 .. field_count -> Fields]
  BY <1>1 DEF BuildValues
<1>3. BuildValues \in Seq(Fields) /\ Len(BuildValues) = field_count
  BY <1>2
<1>4. ASSUME NEW i \in 1 .. field_count, NEW j \in 1 .. field_count,
             BuildValues[i] = BuildValues[j]
      PROVE  i = j
  <2>1. <<"field", i - 1>> = <<"field", j - 1>>
    BY <1>4 DEF BuildValues, FieldName
  <2> QED BY <2>1
<1>5. \A i \in 1 .. field_count : BuildValues[i] \in NextFieldName
  BY <1>1 DEF BuildValues
<1> QED BY <1>3, <1>4, <1>5

(* An update writes at least one field, each once, and all of them if it   *)
(* is told to.                                                             *)
LEMMA UpdateValuesType ==
  ASSUME NEW v \in UpdateValues
  PROVE  /\ v \in Seq(Fields) /\ Len(v) \in 1 .. field_count
         /\ write_all_fields => v = BuildValues
         /\ \A i \in 1 .. Len(v) :
              /\ v[i] \in NextFieldName
              /\ \A j \in 1 .. Len(v) : v[i] = v[j] => i = j
<1>1. CASE write_all_fields
  BY <1>1, BuildValuesType, FieldCountType DEF UpdateValues
<1>2. CASE ~ write_all_fields
  <2>1. PICK f \in NextFieldName : v = <<f>>
    BY <1>2 DEF UpdateValues
  <2>2. f \in Fields
    BY DEF Fields
  <2> QED BY <1>2, <2>1, <2>2, FieldCountType
<1> QED BY <1>1, <1>2

(* The fields argument of a read is a list of fields too.                  *)
LEMMA ReadFieldsType == ReadFields \subseteq Seq(Fields)
<1> SUFFICES ASSUME NEW v \in ReadFields PROVE v \in Seq(Fields)
  OBVIOUS
<1>1. CASE read_all_fields
  BY <1>1 DEF ReadFields
<1>2. CASE ~ read_all_fields
  <2>1. PICK f \in NextFieldName : v = <<ReadFieldName(f)>>
    BY <1>2 DEF ReadFields
  <2>2. ReadFieldName(f) \in Fields
    BY <1>2 DEF Fields
  <2> QED BY <2>1, <2>2
<1> QED BY <1>1, <1>2

(* What every step of a database needs to know of the call it serves.      *)
LEMMA CallsType ==
  ASSUME NEW c \in Calls
  PROVE  /\ c.op \in {"Insert", "Delete", "Update", "Read", "Scan"}
         /\ c.key \in Keys
         /\ c.fields \in Seq(Fields)
         /\ c.len \in 0 .. MaxScanLength
         /\ c.op = "Insert" => c.fields = BuildValues
         /\ c.op = "Delete" => c.fields = <<>>
         /\ c.op = "Update" => c.fields \in UpdateValues
         /\ c.op \in {"Read", "Scan"} => c.fields \in ReadFields
<1> USE BuildValuesType, FieldCountType, ClientAssumption DEF Call
<1>1. PICK k \in Keys :
        \/ c = Call("Insert", k, BuildValues, 0)
        \/ c = Call("Delete", k, <<>>, 0)
        \/ \E v \in UpdateValues : c = Call("Update", k, v, 0)
        \/ \E f \in ReadFields : c = Call("Read", k, f, 0)
        \/ \E f \in ReadFields, n \in 1 .. MaxScanLength : c = Call("Scan", k, f, n)
  BY DEF Calls
<1>2. CASE c = Call("Insert", k, BuildValues, 0)
  BY <1>2
<1>3. CASE c = Call("Delete", k, <<>>, 0)
  BY <1>3
<1>4. CASE \E v \in UpdateValues : c = Call("Update", k, v, 0)
  BY <1>4, UpdateValuesType
<1>5. CASE \E f \in ReadFields : c = Call("Read", k, f, 0)
  BY <1>5, ReadFieldsType
<1>6. CASE \E f \in ReadFields, n \in 1 .. MaxScanLength : c = Call("Scan", k, f, n)
  <2>1. PICK f \in ReadFields, n \in 1 .. MaxScanLength : c = Call("Scan", k, f, n)
    BY <1>6
  <2> QED BY <2>1, ReadFieldsType, ClientAssumption
<1> QED BY <1>1, <1>2, <1>3, <1>4, <1>5, <1>6

(* An Insert and an Update write at least one field, each once.            *)
LEMMA WrittenFields ==
  ASSUME NEW c \in Calls, c.op \in {"Insert", "Update"}
  PROVE  /\ Len(c.fields) \in 1 .. field_count
         /\ write_all_fields => c.fields = BuildValues
         /\ \A i \in 1 .. Len(c.fields) :
              /\ c.fields[i] \in NextFieldName
              /\ \A j \in 1 .. Len(c.fields) :
                   c.fields[i] = c.fields[j] => i = j
BY CallsType, BuildValuesType, UpdateValuesType, FieldCountType
=============================================================================
