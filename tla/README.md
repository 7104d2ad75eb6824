# A TLA+ model of YCSB-C-RocksDB

YCSB-C-RocksDB is a key-value store benchmark: a driver starts worker threads,
each of which draws operations and keys from a shared workload and runs them
against a database, and reports counts and latencies. This directory holds TLA+
modules of its core, the TLC runs that check them on small instances, and proofs
that hold for every instance. Paths and line numbers refer to the repository
(`src/` in `PROJECT.json`).

## 1. The system

| Component | State it keeps | Operations | Interacts with |
| --- | --- | --- | --- |
| driver, `main` (`ycsbc.cc:86`) | futures, histograms, `sum`, the `isFinish` flag | start recorder, start and join workers, set and delete the flag, merge and print, second phase | all others |
| stats recorder, `record` (`ycsbc.cc:43`) | none | poll `*isFinish`, sleep, `printStats` | flag, database |
| worker, `DelegateClient` (`ycsbc.cc:51`) and `Client` (`core/client.h`) | `i`, `oks`, the operation in progress | insert, read, update, scan, read-modify-write | workload, database, its histogram |
| `CoreWorkload` (`core/core_workload.*`) | `key_generator_`, `insert_key_sequence_`, choosers | `Init`, `NextSequenceKey`, `NextTransactionKey`, `NextOperation`, `BuildKeyName`, `BuildValues` | generators |
| generators (`core/*_generator.h`) | counters, random engines, `last_` | `Next`, `Last`, `Set` | `utils::RandomDouble`, one static engine for all |
| database adapters (`db/*`) | the store, `noResult`; `HashtableDB`: a table of field tables of strings | `Read`, `Scan`, `Insert`, `Update`, `Delete` | RocksDB, LevelDB, or hash tables of `lib/` |
| histogram (`utils/histogram.cc`) | `min_`, `max_`, `num_`, `sum_`, `sum_squares_`, buckets | `Clear`, `Add`, `AddFast`, `Merge`, `Percentile`, `StandardDeviation` | worker that fills it, `main` that merges it |
| command line and properties (`ycsbc.cc:255`, `core/properties.h`) | the property map | parse options and files, look up | driver, factory, workload |
| factory and configuration (`db/db_factory.cc`, `utils/rocksdb_config.h`) | none | create a database by name, read its `.ini` | command line |

What is hard here:

* *Concurrency.* Workers share `key_generator_` (an atomic counter), the database
  and `RocksDB::noResult` (a plain `int`); `main` and the recorder share a heap
  allocated flag that `main` deletes; futures that are temporaries or locals wait
  in their destructors. `HashtableDB` holds a lock only inside one table
  operation and uses pointers after releasing it.
* *Ordering.* Transactions must not start before the load is joined, and the
  report and the merge must not run beside a worker.
* *Partial effects.* A write to LevelDB is one `Put` per field; `Insert` of
  `HashtableDB` can fail half way; `Delete` frees a record piece by piece.
* *Failure.* A database error ends the whole process from a worker; wrong
  properties end it at one of a dozen places, some of them late.
* *Boundaries.* Integer division of the work, unsigned wrap at `recordcount`,
  the bucket boundaries of the histogram, the redraw loop of `NextTransactionKey`.

What makes the parts correct: the load leaves exactly the records it should;
inserts create new records; transactions read loaded keys; no phase overlaps
another; the count that is printed is the records loaded; shared objects exist while
they are used; the program ends; the merged histogram is the histogram of all
latencies; the last argument that assigns a property wins; a database keeps what
`core/db.h` promises to threads that share it.

`PROJECT.json` lists all components with their status, and the hazards with the
properties that watch them.

## 2. Modules

| Module | Models | Contents |
| --- | --- | --- |
| `Generators` | `core/*_generator.h` | the set of values each generator can return; `uint64_t` counters that wrap |
| `CoreWorkload` | `core/core_workload.*` | key choosers, redraw condition, key names, operation mix |
| `Ycsbc` | `ycsbc.cc`, `core/client.h`, `db/rocksdb_db.cc` | the driver, the recorder and the workers: the main state machine |
| `YcsbcInv` | – | the inductive invariant of `Ycsbc` |
| `YcsbcProofs` | – | theorems about the threads, the load and the flag |
| `YcsbcKeyProofs` | – | theorems about keys and records in both phases, and the refinement |
| `Benchmark` | – | abstract: what a benchmark run is meant to be |
| `YcsbcBench` | – | the refinement mapping from `Ycsbc` to `Benchmark` |
| `ClientCalls` | `core/client.h`, field part of `core/core_workload.*` | the calls clients make on a `DB`, with their lists of fields |
| `RecordStore` | interface `core/db.h` | abstract: what a `DB` promises to threads that share it |
| `HashtableDB` | `db/hashtable_db.cc`, `db/lock_stl_db.hbak`, `lib/lock_stl_hashtable.h`, `lib/stl_hashtable.h` | the in-memory database, its heap, and its mapping to `RecordStore` |
| `HashtableInv`, `HashtableProofs`, `HashtableSafeProofs` | – | its inductive invariant, the proofs of its half about all records, and of its half about records on which no clashing calls have overlapped, with the theorems |
| `KvStoreDB` | `db/rocksdb_db.cc`, `db/leveldb_db.cc` | the adapters, over an external key-value store |
| `KvStoreInv`, `KvStoreProofs` | – | its inductive invariant and theorems |
| `ClientProofs` | – | lemmas on the calls, for the proofs about databases |
| `Histogram` | `utils/histogram.cc`, its use in `ycsbc.cc` | record, merge, report |
| `HistogramProofs` | – | theorems about it |
| `Startup` | `ParseCommandLine`, `Properties`, `DBFactory`, `ConfigRocksDB`, `CoreWorkload::Init`, property lookups of `main` | from `argv` to the phases |
| `StartupInv`, `StartupProofs` | – | its inductive invariant and theorems |
| `MCYcsbc`, `MCHashtableDB`, `MCKvStoreDB`, `MCHistogram`, `MCStartup` | – | values for the constants |

`Ycsbc` extends `CoreWorkload`, which extends `Generators`; `HashtableDB`,
`KvStoreDB` and `RecordStore` extend `ClientCalls`. `Startup` and `Ycsbc` meet at
the same point of `main`: what `Startup` hands over (a pattern, counts, a request
distribution whose generator can be built) is what `Ycsbc` assumes of its
constants and initial state. `Ycsbc` has the RocksDB adapter in it as far as the
driver can tell one outcome from another; `KvStoreDB` has all of it, with several
fields per record and ordered scans. `Histogram` is separate: a worker's histogram
is touched by nobody else until `main` has joined it (`PhasesDoNotOverlap`).

### Ycsbc

Variables are named after the C++ objects; `mpc`, `rpc` and `wpc` say where main,
the recorder and each worker are. A step is an access to something that is
shared; what a thread computes alone joins the next step.

| Action | Code |
| --- | --- |
| `StartRecorder`, `LeaveRecorderScope` | `ycsbc.cc:110-113`; the second is the destructor of the future `r`, which waits |
| `SpawnWorker`, `JoinWorker` | `ycsbc.cc:121-147` and `191-218` |
| `FinishTasks`, `DeleteFlag`, `DoubleFreeAbort` | `ycsbc.cc:148-150` and `219-220`; a second delete is undefined, so it passes or aborts |
| `StartTransactions`, `Return` | `ycsbc.cc:151-190` and `221-253` |
| `TestFlag`, `SleepAndPrint` | `ycsbc.cc:44-47`; a read of the deleted flag gives any value |
| `BeginOp`, `ReturnOks` | the loop of `DelegateClient` with `DoInsert` / `DoTransaction` |
| `NextSequenceKey` | one `fetch_add` on `key_generator_` |
| `RejectKey`, `AcceptKey` | one turn of the loop of `NextTransactionKey` |
| `ReadHit`, `ReadMiss`, `CountMiss` | `RocksDB::Read`; `noResult++` is a load and a store |
| `Put`, `Scan` | `RocksDB::Insert` / `Update` (one field, so one `Put`) and `Scan` |
| `DbError` | `exit(0)` on "read error" / "insert error" |

Both phases of `main` are the same code written twice; the model has it once, with
`phase` telling which copy runs. The database is the set of key names that have a
record: no property depends on values. RocksDB is external: each `Get` and `Put` is
taken to be atomic. A key name is represented by the number that is printed in it
(hashed or not), which is faithful because prefix and padding are injective.

**Refinement.** In `Benchmark` an operation is one step, a phase ends when every
client has done its share, and no key number is inserted twice; there are no
threads, futures, joins or key counters. `YcsbcBench` maps `main`'s position to the
four steps of a phase, the workers' turn counters to the shares done, and the key
counter less the keys still in a worker's hands to the numbers inserted. That an
operation of many interleaved steps has a single point at which it takes effect,
and that main's report comes after all of them, is what
`ImplementsBenchmark` says.

### HashtableDB

`key_table_` maps keys to field tables, a field table maps fields to strings. Each
operation of a table runs under its mutex and is one step (`Step`); everything else
a call does between two locks other threads can interleave with. The heap is
explicit: `tables`, `strings`, `key_names` and `field_names` are what is allocated
(the last two are the copies that `StlHashtable::Insert` makes of the names). An
identifier says which call made a thing and for which key, and is never reused, so
that a use of freed memory shows. A thread that dereferences a freed field table or
deletes a string twice takes no further step (`Undefined`); a copy of a freed string
gives the old bytes or garbage. The
nested loops of `Read` and `Scan` are `todo`, the records still to visit, and `idx`, the
position in the list of fields; `held` has the string pointers between `Get` and the
copy, or between taking a string out of a table and deleting it.

| Action | Code (`db/hashtable_db.cc`) |
| --- | --- |
| `ReadMissing`, `ReadFound`, `Scan` | the lookup of the record(s), 24-25, 46-47 |
| `Fetch`, `CopyValue`, `ReadDone` | `Entries()` or `Get()` of the fields, then a copy of each value, 28-39, 53-66 |
| `WriterGet`, `CreateTable` | 76-79, 101-105; the result of `Insert` is ignored |
| `InsertField`, `InsertConflict` | 107-113 and 80-83 |
| `ReplaceField`, `DeleteOld`, `UpdateMissing`, `AddField` | 85-93 |
| `RemoveMissing`, `RemoveRecord` | 120-122 |
| `DeleteEntries`, `DeleteEntry`, `DeleteTable` | `DeleteFieldHashtable`, `lock_stl_db.hbak:40-46` |

Nothing in the code keeps two calls on one record apart, clients run any mix on
one `DB`, and the module lets any calls overlap. The tables do not withstand all of
them. `Safe` has the pairs of operations they can take at once on one record: reads and
scans with each other, a read or a scan beside an insert, deletes with deletes, and
updates with updates of a record that has all fields. Any other pair *clashes*, and the
history variable `raced` collects the keys on which clashing calls have overlapped:

| Pair | What goes wrong |
| --- | --- |
| insert with insert or update, update with update of a new or incomplete record | both find no table (101-104, 76-79) or no field (87-89); one write is lost, its memory with it |
| read or scan with update | the reader copies a string that update has deleted (91) |
| delete with read, scan, update or insert | the other call uses a table that was freed, or writes to one nobody can find (124) |

The runs `insert_race` and `read_race` show the first two. For the rest the properties
say how far the damage goes: `LookupsAreLive` holds of all records, whatever calls
overlap; `NoDanglingUse`, `NothingLost` and `ImplementsRecordStore` hold of every
record that is not raced, whatever has happened to the others. `NothingLost` leaves
out the copies of field names: the code never deletes one, so those of a deleted
field table, and of an `Insert` that finds the field there, are lost.

No `dbname` creates a `HashtableDB` at this commit (the branches of the factory are
commented out), so these are limits of the component, not of the program.

**Refinement.** In `RecordStore` a record is a function from fields to values; a
write marks the record as existing, then writes one field at a time in any order;
`Insert` never overwrites; reads return values the fields had during the call;
`Delete` removes the record in one step. A record becomes raced by the same
definition, is forgotten at that moment, and nothing is said of it from then on.
`ImplementsRecordStore` maps a field table that `key_table_` leads to, of a key that is
not raced, to that function; tables and strings that are not reachable have no
counterpart, so a write into one is a step that `RecordStore` does not allow.

### KvStoreDB

Both adapters in one module: the code is the same but for the library called. The
library is external: `Get` and `Put` are atomic, an iterator shows the keys present
when it was made, in order; `it` is the set of keys it has still to show. `finished`,
`before`, `obsolete` and `deleted` are history: which writes had returned when a call
began, which are older than a finished one, and for which keys a `Delete` was called.
`Delete` builds an empty vector and calls `Insert`: the call does nothing and
returns `kOK`. No property asks for that, or for the `kOK` of a read that misses:
`MissesAreReal` says only that a read that finds nothing had nothing to find, unless
the record may have been deleted.

### Histogram

Latencies are integers in fractions of a microsecond, sums and percentiles exact
rationals, and `NaN` exists because `Percentile` can divide 0 by 0. `Add`, which
the program does not call, serves as the reference for `AddFast`; `Within`, the two
limits around a value, is the reference for both. The code's loops over decades,
buckets and histograms are recursive functions of a number (`Power10`, `CountUpTo`,
`Joined`), about which proofs are possible. `StandardDeviation` is left out: whether the
variance under its root is negative is a question of the rounding of doubles.

### Startup

One action per kind of argument, then one per way `CreateDB` can end, then
`CoreWorkload::Init` with the conversions of `main`, the block of the recorder, and the
two phases as far as properties matter to them: how many threads there are, whether
every worker has something to do (`HasWork`), whether an operation has a proportion
(`Mix`), whether a value can be made (`HugeValues`). With a duration other than 0 `main`
stays in the recorder's block (`Blocked`), as `Ycsbc` shows. The process ends by `exit`, by
an exception nobody catches, by a failed assertion (`NoOperation`: no proportion is
positive; a negative thread count; a `ZipfianGenerator` of too few items), by a crash
(`SecondDelete` of `isFinish` in `both`, which may also pass; `histograms[0]` of an
empty vector) or by returning.

## 3. Runs

Passing runs:

| Run | Instance | Shows |
| --- | --- | --- |
| `driver` | 2 workers, 4 records, 4 operations, all patterns, all request distributions, all operations, recorder on and off, database errors, 2 records left from before, hashed names; 320,083 states | `ImplementsBenchmark`; `LoadComplete`, `SumIsRecordsLoaded`, `InsertsAreNew`, `LoadedKeysAreFound`, `PhasesDoNotOverlap`, `MissCountBounds`, `FlagSafeInOnePhase`; the inductive invariant `IInv` of the proofs |
| `liveness` | 2 workers, 5 records and 3 operations (so one of each is dropped by the division), all patterns, no recorder, no errors; 14,590 states | `Termination`, `ClaimedKeyIsStored`; `SumIsRecordsLoaded` reports 4 records, which is what was loaded, not 5 |
| `hashtable` | 2 clients, 2 calls each, 2 keys, 2 fields, scans of up to 2 records, any overlap; 701,483 states up to symmetry | `ImplementsRecordStore`, `LookupsAreLive`, `NoDanglingUse`, `NothingLost` |
| `kvstore` | LevelDB, 2 clients, 2 calls each, 3 keys, 2 fields, database errors; 1,229,988 states up to symmetry | `NoStaleRecord`, `MissesAreReal`; `IInv` |
| `histogram` | 3 workers with up to 2 latencies each from {-0.5, 1.5, 10, 100} microseconds, one decade of buckets; 37,044 states; and, as an assumption TLC evaluates, every half microsecond from -1.5 to 1250 over two decades | `MergedIsHistogramOfAll`, `PercentilesAreOrdered`; `AddFast` counts where the table of limits says |
| `startup` | all command lines of up to 3 of 13 option groups; of `-db basic` and up to 3 of 14 groups that the workload and the phases tell apart; of RocksDB and up to 4 of 8; 79,395 states | `LastAssignmentWins`, `LateFailure`, `SuccessMeansWork`, `StopsOrBlocks` |

Runs that show a disagreement between the code and what is written about it:

| Run | Property | What happens |
| --- | --- | --- |
| `recorder_blocks` | `Termination` | with `-d n`, main waits for the recorder before it starts the work that would end it |
| `flag_both` | `FlagAllocatedWhenUsed` | `both` stores to and deletes the flag after the load phase deleted it |
| `ignored_keys` | `IgnoredKeysNotInserted` | keys inserted by transactions are still given up as not inserted |
| `insert_race` | `InsertedIsStored` | two `Insert`s of one new key find no record and make a table each; the second returns `kOK` with its values in a table nobody can find |
| `read_race` | `ReadsReturnValues` | an `Update` deletes the old value while a `Read` has still to copy it |
| `leveldb_fields` | `AllFieldsWritten` | LevelDB keeps the last field of a record only |

**Bounds.** `UINT64_MAX` is 15, larger than every key an instance can produce, and
the hash permutes the 16 numbers. Two workers with two turns each are enough for
any pairwise race on the counter, the store and `noResult`, for a second phase, and
for a worker that ends long before another, joined out of order; reads that miss come
from pattern `run` over the two records left from before. `RecordCount` 4 is the
smallest even count for which all three request distributions can be built and
leave a choice. The database runs need two clients for every pairwise race,
a second call for what the first one left (a conflict, a deleted record, a second
update), two fields so that a write has a middle, and a third key in `kvstore` so
that a scan has a first, a next and a last one. `SYMMETRY` permutes the clients,
and the keys where their order does not matter; no liveness is checked there. The
histogram run needs values on both sides of a limit, in the
first, a middle and the last bucket, and below 0; the code repeats the same decade
nine times, so two of them show the carry from one to the next. `Huge` stands for
1e200; that it is large enough in the instance to be clamped to `max_` wherever 1e200
is, is an assumption of `MCHistogram` that TLC evaluates. The runs `driver` and `kvstore`
also check the inductive invariant of the proofs, under the name `IInv`.

**Fairness.** Weak fairness of main, of the recorder and of the steps of each
worker: the operating system schedules every thread, sleeps end and database calls
return. `RejectKey` is not among the fair steps and `AcceptKey` is: the draws are
independent, so a loop in which some key can be accepted is left with probability
one. In `Startup`, weak fairness of the single thread.

**Deadlock** is checked in every run; a process that has ended stutters.

## 4. Proofs

Every invariant that a passing run checks, and the refinement of the driver, is
also proved with TLAPS, for every value of the constants. What the runs show on
small instances holds for any number of threads, records, operations, keys,
fields, calls, decades and arguments.

| Component | Theorems (property) |
| --- | --- |
| driver, `YcsbcProofs` | `DriverInvariance` (`DriverInv`), `TypeCorrect`, `LoadIsComplete` (`LoadComplete`), `SumIsCorrect` (`SumIsRecordsLoaded`), `PhasesAreDisjoint` (`PhasesDoNotOverlap`), `FlagIsAllocated` (`FlagSafeInOnePhase`), `RecorderBlocksMain` (with `-d n`, n # 0, no execution starts a worker or ends) |
| driver, `YcsbcKeyProofs` | `InductiveInvariant` (`IInv`), `InsertsCreateRecords` (`InsertsAreNew`), `NoReadMisses` (`LoadedKeysAreFound`), `MissCountIsBounded` (`MissCountBounds`), `DriverImplementsBenchmark` (`ImplementsBenchmark`) |
| adapters, `KvStoreProofs` | `Invariance` (`IInv`), `TypeCorrect`, `RecordsNeverGoBack` (`NoStaleRecord`), `NoFalseMiss` (`MissesAreReal`) |
| `HashtableDB`, `HashtableSafeProofs` | whatever calls overlap: `Invariance` (`IInv`), `TypeCorrect`, `LookupsStayLive` (`LookupsAreLive`), `PointersStayValid` (`NoDanglingUse`), `NothingIsLost` (`NothingLost`) |
| command line, `StartupProofs` | `Invariance` (`IInv`), `TypeCorrect`, `OrderIsKept` (`LastAssignmentWins`), `FailuresAreEarly` (`LateFailure`), `ReturnMeansWork` (`SuccessMeansWork`) |
| histogram, `HistogramProofs` | `AddFastIsAdd`, `Invariance`, `TypeCorrect`, `MergingIsExact` (`MergedIsHistogramOfAll`), `ReportIsOrdered` (`PercentilesAreOrdered`) |

**Assumptions.** Those named in the modules, and nothing else:

* `UintAssumption`, `HashAssumption`, `WorkloadAssumption`, `DriverAssumption`: at
  least one thread, counts that are natural numbers and fit the counters
  together, a hash into `uint64_t`, which need not be injective.
* `ClientAssumption`, `KvAssumption`, `TableAssumption`: at least one field, scans of
  at least one record, keys with an order (`KvStoreDB`), and a `NULL` that is no value
  or pointer.
* `StartupAssumption`: arguments are strings, and the defaults in the code are numbers.
* `HistogramAssumption`: latencies below 1000 times the limit of the last decade
  (11 days for the nine decades of the code), and `Huge`, which is 1e200 in the code,
  not below that.

### The arguments

**Driver.** `IInv` is `DriverInv`, which is about the threads and the load, and three
parts about keys and records in both phases. `ControlInv` says that futures are
made and joined in index order, which is what makes "joined" mean "returned" for
all workers at the end of the loop. `WorkInv` bounds the turns of each worker and
ties `oks` and `sum` to them; `LoadInv` is about the keys of the load, and
`SumIsRecordsLoaded` follows from the three. That no key is skipped is a statement about the sum of what all
workers have done, for which the provers have no induction; `Issued`, the set of
pairs (worker, turn) that have taken a key, turns the sum into a cardinality.
Taking a key adds one pair, inserting its record moves it from the worker's hands
to the store, and when all workers have returned, `Issued` is the product of
workers and turns. That the counter never wraps follows from the same bound.
`RecorderInv` says that the recorder lives only while `main` waits for it, with the
flag still false. `KeyInv` says that in either phase the counter is where the phase
began plus at most the turns taken, that the sequence keys in workers' hands are
different, and that a key drawn by a transaction was not one to be rejected.
`DataInv` says that the store holds the loaded records and, with an even load,
nothing but what was there before and `InsertedKeys`; a key that a transaction
draws is then below the loaded count, so the read finds it. `MissInv` bounds what a
thread can have loaded between the two halves of `noResult++`.

`DriverImplementsBenchmark` uses `IInv` on both sides of a step. The initial states
correspond; steps of the recorder, of spawning and joining, draws and the loads of
`noResult` change nothing the abstract benchmark sees; the `Put` of an insert takes
a key number out of the worker's hands, which is the one point where the abstract
insert happens; the last join of a phase is its end, for which `ControlInv` and
`WorkInv` say that all shares are done.

**Adapters.** `CallInv` says where a call is. `HistoryInv` says that a write counts as
finished only after it returned, so that none is before itself. `StoreInv` is the key to
`NoStaleRecord`: once a write has put a value, what is under the key was not written
by a call that had finished before that write began, whoever has put in between;
at its return its older writes become obsolete and the record is none of theirs.
`HistoryInv` also says that a key that has a finished write has a record, which is
what makes a miss real.

**HashtableDB.** `HeapInv` is about all records, and `LookupsAreLive` follows from it.
Its difficulty is identity: that a new table or string is not
one that is in use already. `IssuedInv` says that everything in a table or in a
thread's hands was made by a call at or before its current position, so what the
next step makes is new. `UniqueInv` (no string in two tables, no table under
two keys) and `LiveInv` (what is being deleted cannot be found) then carry each
other. `HomeInv` says that a table or a string is used for the key it was made for
only: that is what keeps a race on one record from harming another. `SafeInv` is about
the keys that are not raced: `ExclusionInv` says that no clashing calls are on
such a key; `WriterInv` that the table a writer works on is still the one under the key;
`ReaderInv` that what a reader holds is still in place; `OwnerInv` that what is out of
the tables has one call to delete it; `LeakInv` that everything allocated is reachable or
in the hands of a call that will link or delete it. Updates may overlap on a complete
record only, and a record stays complete until a `Delete`, which clashes with them.
`HashtableProofs` has the first half, `HashtableSafeProofs` the second and the theorems.

**Command line.** `IsOption`, which arguments are options rather than the value of
one, is a recursive function of the position. The least-number principle (from
`WellFoundedInduction`) gives its defining equation, and `ParseInv` says that the loop of
`ParseCommandLine` stops at options only, so what `LastAssignmentWins` calls the last
assignment is the one the loop has made last. `PhaseInv` carries what `main` has tested to
the phases, where `LateFailure` and `SuccessMeansWork` need it.

**Histogram.** `Inv` (`TypeOK` and `MergedIsHistogramOfAll`) is inductive. The model's
functions `Power10`, `Sums`, `Joined` and `CountUpTo` are recursive over numbers. The first
part of the module derives, from the least element of a set of naturals, an
induction principle for subsets of the naturals, and with it the
equations of each function. `AddFastIsAdd`: exactly one bucket has
limits around a value, because the limits increase; the division and the search
both find such a one. Adding a latency to the histogram of a list gives the
histogram of the longer list (`AddFastExtends`); adding and merging commute
(`MergeAddFast`), hence merging the histograms of two lists gives that of their
concatenation (`MergeOfLists`, by induction on the length of the second).
For `PercentilesAreOrdered`, the bucket counts add up to `num_`, so that the
threshold is reached, first in a bucket that is not empty, so that there is
no 0/0; the interpolated value lies within the limits of its bucket and grows with
the percentile; clamping keeps an order that is there.

### Only model-checked

* Liveness (`Termination`, `ClaimedKeyIsStored`, `StopsOrBlocks`): it needs fairness and
  `ENABLED`, which the prover does not handle.
* `ImplementsRecordStore`: the step simulation needs, beyond `IInv`, what
  `result` and `todo` have in common with the abstract calls (different keys in a
  scan, different fields in a call, the cardinality of a scan's choice).
* The runs that expect a violation, except for `recorder_blocks`, whose counterexample
  `RecorderBlocksMain` proves for every instance.

## 5. Not modelled

* The bytes of a value: a value is told by the client and the call that wrote it.
* `utils::RandomDouble`: one static engine used under different mutexes (a data
  race). The generators are sets of values, so that every sequence of draws the
  race could lead to is among the behaviours.
* The hash tables over TBB, which have the interface of the locked ones and which
  nothing includes; `BasicDB`, which prints.
* In `StlHashtable`: hashing and buckets.
* Probabilities of the distributions, floating point rounding, wall clock time.
* `PerfContext` sums, output, scripts.

Seen on the way and not expressed as a property of a run:

* with a `recordcount` that the number of threads does not divide, the remainder is not
  loaded (`ycsbc.cc:133`; `LoadComplete` and `SumIsRecordsLoaded` state what is), although
  `README.md:25` says that `recordcount` is how many records to load;
* `Read` of the RocksDB and LevelDB adapters returns `kOK` for a missing record, for
  which `db.h:46` asks for an error; their `Read` and `Scan` fill no `result`
  (`db.h:40`, `db.h:59`); their `Delete` deletes nothing (`db.h:90`);
* the command of `README.md:20` ends by an exception: `rocksdb_config.ini` lacks
  `maxFileSize`, which `rocksdb_config.h:62` reads without a default;
* `Client` asks for `"field" + NextFieldName()` (`client.h:78`), and the name has the
  prefix already: with `readallfields=false` a read of `HashtableDB` returns no field;
* `ZipfianGenerator` ignores its base for the two most popular items; `latest` never
  chooses key 0; pattern `run` starts its inserts at `insertstart` again, over keys
  loaded by an earlier process; without `-db` the program ends by an uncaught exception,
  although the usage text names a default.

## 6. Plan

1. *Done.* `Generators`, `CoreWorkload`, `Ycsbc` with its runs and first theorems;
   `Histogram`; `Startup`.
2. *Done.* `RecordStore`, `HashtableDB`, `KvStoreDB`; `Benchmark` and the refinement
   of the driver.
3. *Done.* Theorems for every invariant of the passing runs, of all five state
   machines, and the step simulation of `Benchmark`.
4. The refinement of `RecordStore` by `HashtableDB`, step by step, on top of `IInv`.
