---------------------------- MODULE RecordStore -----------------------------
(***************************************************************************)
(* What core/db.h promises to threads that share one DB: a set of records, *)
(* each a function from fields to values, on which a call takes effect     *)
(* between its invocation and its return, one field at a time.             *)
(*                                                                         *)
(*  - Read and Scan return values the fields had during the call; a Read   *)
(*    of a missing record returns an error;                                *)
(*  - Update and Insert return kOK only when all their values have been    *)
(*    written into the record the key has; Insert does not overwrite;      *)
(*  - Delete removes the record as a whole, or returns an error.           *)
(*                                                                         *)
(* db.h makes no exception for calls that overlap.  HashtableDB cannot     *)
(* keep the promise for all of them: a record that two clashing calls have *)
(* worked on at once is "raced", and from then on nothing is said of it.   *)
(* All other records are as db.h promises, whatever happened to the raced  *)
(* ones.                                                                   *)
(***************************************************************************)
EXTENDS ClientCalls, FiniteSets

CONSTANTS
  Threads,   \* clients
  MaxCalls,  \* calls a client makes at most
  NULL       \* no value, no call

VARIABLES
  present,   \* keys that have a record
  rec,       \* the value of each field of each record
  raced,     \* records on which clashing calls have overlapped
  stage,     \* of each client's call: idle, called, running, returning
  call,      \* the call
  num,       \* calls made so far: a value is told by client and number
  todo,      \* <<key, field>> pairs still to read or write
  got,       \* <<key, field, value>> read so far
  status     \* what the call returns

vars == <<present, rec, raced, stage, call, num, todo, got, status>>

Init ==
  /\ present = {}
  /\ rec = [k \in Keys |-> [f \in Fields |-> NULL]]
  /\ raced = {}
  /\ stage = [t \in Threads |-> "idle"]
  /\ call = [t \in Threads |-> NULL]
  /\ num = [t \in Threads |-> 0]
  /\ todo = [t \in Threads |-> {}]
  /\ got = [t \in Threads |-> {}]
  /\ status = [t \in Threads |-> NULL]

Stage(t, from, to) ==
  /\ stage[t] = from
  /\ stage' = [stage EXCEPT ![t] = to]

Complete(k) == \A f \in NextFieldName : rec[k][f] # NULL

Clash(c, d, k) ==
  /\ k \in Touches(c) \cap Touches(d)
  /\ {c.op, d.op} \in Safe => {c.op, d.op} = {"Update"} /\ ~ Complete(k)

Unraced(S) == { p \in S : p[1] \notin raced' }

(* What was known of a record is forgotten when it is raced.               *)
Invoke(t) ==
  /\ Stage(t, "idle", "called")
  /\ num[t] < MaxCalls
  /\ num' = [num EXCEPT ![t] = @ + 1]
  /\ \E c \in Calls :
       /\ call' = [call EXCEPT ![t] = c]
       /\ raced' = raced \cup
            { k \in Keys : \E u \in Threads :
                stage[u] # "idle" /\ Clash(c, call[u], k) }
  /\ present' = present \ raced'
  /\ rec' = [k \in Keys |-> IF k \in raced' THEN [f \in Fields |-> NULL]
                             ELSE rec[k]]
  /\ todo' = [u \in Threads |-> Unraced(todo[u])]
  /\ got' = [u \in Threads |-> Unraced(got[u])]
  /\ UNCHANGED status

Requested(c) ==
  IF c.fields = <<>> THEN Fields ELSE { c.fields[j] : j \in 1 .. Len(c.fields) }

StartRead(t) ==
  /\ Stage(t, "called", "running")
  /\ call[t].op = "Read" /\ call[t].key \in present
  /\ todo' = [todo EXCEPT ![t] = {call[t].key} \X Requested(call[t])]
  /\ UNCHANGED <<present, rec, raced, call, num, got, status>>

(* Some records, the first of them the one asked for, if it is there.      *)
StartScan(t) ==
  /\ Stage(t, "called", "running")
  /\ call[t].op = "Scan"
  /\ \E ks \in SUBSET present :
       /\ call[t].key \notin raced =>
            IF call[t].key \in present THEN call[t].key \in ks ELSE ks = {}
       /\ Cardinality(ks) <= call[t].len
       /\ todo' = [todo EXCEPT ![t] = ks \X Requested(call[t])]
  /\ UNCHANGED <<present, rec, raced, call, num, got, status>>

Fetch(t) ==
  /\ stage[t] = "running" /\ call[t].op \in {"Read", "Scan"}
  /\ \E d \in SUBSET todo[t] :
       /\ todo' = [todo EXCEPT ![t] = @ \ d]
       /\ got' = [got EXCEPT ![t] = @ \cup
            { <<p[1], p[2], rec[p[1]][p[2]]>> :
                p \in { q \in d : rec[q[1]][q[2]] # NULL } }]
  /\ UNCHANGED <<present, rec, raced, stage, call, num, status>>

StartWrite(t) ==
  /\ Stage(t, "called", "running")
  /\ call[t].op \in {"Insert", "Update"} /\ call[t].key \notin raced
  /\ present' = present \cup {call[t].key}
  /\ todo' = [todo EXCEPT ![t] = {call[t].key} \X Requested(call[t])]
  /\ UNCHANGED <<rec, raced, call, num, got, status>>

Write(t) ==
  /\ stage[t] = "running" /\ call[t].op \in {"Insert", "Update"}
  /\ \E p \in todo[t] :
       /\ p[1] \in present
       /\ call[t].op = "Insert" => rec[p[1]][p[2]] = NULL
       /\ rec' = [rec EXCEPT ![p[1]][p[2]] = <<t, num[t]>>]
       /\ todo' = [todo EXCEPT ![t] = @ \ {p}]
  /\ UNCHANGED <<present, raced, stage, call, num, got, status>>

Conflict(t) ==
  /\ Stage(t, "running", "returning")
  /\ call[t].op = "Insert"
  /\ \E p \in todo[t] : rec[p[1]][p[2]] # NULL
  /\ todo' = [todo EXCEPT ![t] = {}]
  /\ status' = [status EXCEPT ![t] = kErrorConflict]
  /\ UNCHANGED <<present, rec, raced, call, num, got>>

NoData(t) ==
  /\ Stage(t, "called", "returning")
  /\ call[t].op \in {"Read", "Delete"} /\ call[t].key \notin present
  /\ status' = [status EXCEPT ![t] = kErrorNoData]
  /\ UNCHANGED <<present, rec, raced, call, num, todo, got>>

Remove(t) ==
  /\ Stage(t, "called", "running")
  /\ call[t].op = "Delete" /\ call[t].key \in present
  /\ present' = present \ {call[t].key}
  /\ rec' = [rec EXCEPT ![call[t].key] = [f \in Fields |-> NULL]]
  /\ UNCHANGED <<raced, call, num, todo, got, status>>

Done(t) ==
  /\ Stage(t, "running", "returning")
  /\ todo[t] = {}
  /\ status' = [status EXCEPT ![t] = kOK]
  /\ UNCHANGED <<present, rec, raced, call, num, todo, got>>

Return(t) ==
  /\ Stage(t, "returning", "idle")
  /\ call' = [call EXCEPT ![t] = NULL]
  /\ got' = [got EXCEPT ![t] = {}]
  /\ status' = [status EXCEPT ![t] = NULL]
  /\ UNCHANGED <<present, rec, raced, num, todo>>

(* What a call does on a raced record, and what it returns.                *)
Unspecified(t) ==
  /\ stage[t] # "idle"
  /\ call[t].op # "Scan" /\ call[t].key \in raced
  /\ \E s \in {"running", "returning"} : stage' = [stage EXCEPT ![t] = s]
  /\ \E c \in {NULL, kOK, kErrorNoData, kErrorConflict} :
       status' = [status EXCEPT ![t] = c]
  /\ UNCHANGED <<present, rec, raced, call, num, todo, got>>

Next ==
  \E t \in Threads :
    \/ Invoke(t) \/ NoData(t) \/ Done(t) \/ Return(t)
    \/ StartRead(t) \/ StartScan(t) \/ Fetch(t)
    \/ StartWrite(t) \/ Write(t) \/ Conflict(t) \/ Remove(t)
    \/ Unspecified(t)

Spec == Init /\ [][Next]_vars
=============================================================================
