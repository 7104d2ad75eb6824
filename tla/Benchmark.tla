----------------------------- MODULE Benchmark ------------------------------
(***************************************************************************)
(* What a benchmark run is meant to be: a load phase, a phase of           *)
(* transactions, or one after the other.  In a phase every client performs *)
(* its share of operations, each in one step on the set of records; the    *)
(* phase is over, and reported, when all of them have, and only then does  *)
(* the next one start.  No key number is inserted twice, and the load      *)
(* phase inserts the first ones.                                           *)
(***************************************************************************)
EXTENDS Naturals

CONSTANTS
  NumClients,
  LoadShare, RunShare,  \* operations of one client in each phase
  LoadKeys,             \* the key numbers of the load phase
  KeyNumbers,           \* all key numbers
  Name(_),              \* the name of the record of a key number
  InitialStore          \* records that are there before the benchmark

VARIABLES
  phase,     \* "load" or "run"
  step,      \* "start", "work", "report", "over"
  count,     \* operations of each client in the phase
  inserted,  \* key numbers inserted by this benchmark
  store,     \* names of the records
  total,     \* operations reported
  alive      \* FALSE: the process was ended by an error

vars == <<phase, step, count, inserted, store, total, alive>>

Clients == 0 .. NumClients - 1

Share == IF phase = "load" THEN LoadShare ELSE RunShare

Init ==
  /\ phase \in {"load", "run"}
  /\ step = "start"
  /\ count = [c \in Clients |-> 0]
  /\ inserted = {}
  /\ store = InitialStore
  /\ total = 0
  /\ alive = TRUE

(* A benchmark without a phase is over at once.                            *)
Begin ==
  /\ step = "start"
  /\ step' \in {"work", "over"}
  /\ UNCHANGED <<phase, count, inserted, store, total>>

Perform(c) ==
  /\ step = "work"
  /\ count[c] < Share
  /\ count' = [count EXCEPT ![c] = @ + 1]
  /\ UNCHANGED <<phase, step, total>>

(* The load phase inserts its own keys, transactions any new ones.         *)
Insert(c) ==
  /\ Perform(c)
  /\ \E k \in (IF phase = "load" THEN LoadKeys ELSE KeyNumbers) \ inserted :
       /\ inserted' = inserted \cup {k}
       /\ store' = store \cup {Name(k)}

Update(c) ==
  /\ phase = "run"
  /\ Perform(c)
  /\ \E k \in KeyNumbers : store' = store \cup {Name(k)}
  /\ UNCHANGED inserted

(* A read or a scan.                                                       *)
Look(c) ==
  /\ phase = "run"
  /\ Perform(c)
  /\ UNCHANGED <<inserted, store>>

Report ==
  /\ step = "work"
  /\ \A c \in Clients : count[c] = Share
  /\ step' = "report"
  /\ total' = NumClients * Share
  /\ UNCHANGED <<phase, count, inserted, store>>

StartRun ==
  /\ step = "report" /\ phase = "load"
  /\ phase' = "run" /\ step' = "work"
  /\ count' = [c \in Clients |-> 0]
  /\ total' = 0
  /\ UNCHANGED <<inserted, store>>

End ==
  /\ step = "report"
  /\ step' = "over"
  /\ UNCHANGED <<phase, count, inserted, store, total>>

Die ==
  /\ alive' = FALSE
  /\ UNCHANGED <<phase, step, count, inserted, store, total>>

Next ==
  /\ alive
  /\ \/ /\ alive' = alive
        /\ \/ Begin \/ Report \/ StartRun \/ End
           \/ \E c \in Clients : Insert(c) \/ Update(c) \/ Look(c)
     \/ Die

Spec == Init /\ [][Next]_vars
=============================================================================
