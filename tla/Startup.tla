------------------------------ MODULE Startup -------------------------------
(***************************************************************************)
(* From the command line to the phases: ParseCommandLine, Properties,      *)
(* DBFactory::CreateDB with ConfigRocksDB::init, CoreWorkload::Init, and   *)
(* the properties main itself reads.  What the workers of a phase do is    *)
(* the subject of Ycsbc.                                                   *)
(*                                                                         *)
(* A property file is the function its lines define.  std::stoi and        *)
(* std::stod are given on the strings they accept; on others they throw.   *)
(* The process ends by exit(0), by an exception nobody catches, by a       *)
(* failed assertion (the build leaves them on), by a use of memory that is *)
(* not there (a crash), or by returning.                                   *)
(***************************************************************************)
EXTENDS Integers, Sequences, FiniteSets

CONSTANTS
  Argv,         \* command lines (without argv[0]) that are tried
  Files,        \* property files that can be opened: name -> properties
  Configs,      \* .ini files that can be read: name -> keys under [config]
  Stoi,         \* std::stoi on the strings it accepts
  Stod,         \* std::stod likewise, in percent
  Lower,        \* ::tolower of the strings that have capitals
  DbFails       \* can the database report an error?

ASSUME StartupAssumption ==
  /\ Argv \subseteq Seq(STRING)
  /\ Stoi \in [DOMAIN Stoi -> Int] /\ Stod \in [DOMAIN Stod -> Int]
  /\ { "0", "1", "10", "100", "1000" } \subseteq DOMAIN Stoi
  /\ { "0.0", "0.05", "0.95" } \subseteq DOMAIN Stod
  /\ DbFails \in BOOLEAN

VARIABLES
  args,      \* argv[1 ..]
  argindex,
  props,     \* utils::Properties: a function on the properties that are set
  stage,     \* where main is
  loaded,    \* the load phase has run
  outcome    \* "running", or how the process has ended

vars == <<args, argindex, props, stage, loaded, outcome>>

(* Options with a value, and the property each one sets.                   *)
OptionProperty ==
  [o \in {"-threads", "-db", "-dbPath", "-dbConfig", "-d", "-host", "-port",
          "-slaves"} |->
     CASE o = "-threads" -> "threadcount" [] o = "-db" -> "dbname"
       [] o = "-dbPath" -> "dbPath" [] o = "-dbConfig" -> "dbConfig"
       [] o = "-d" -> "duration" [] o = "-host" -> "host"
       [] o = "-port" -> "port" [] o = "-slaves" -> "slaves"]

Patterns == {"load", "run", "both"}

(* Properties::GetProperty, SetProperty and Load.                          *)
GetProperty(p, name, default) == IF name \in DOMAIN p THEN p[name] ELSE default

(* mutant: properties already set are kept *)
Override_KeepOld(p, q) ==
  [n \in DOMAIN p \cup DOMAIN q |-> IF n \in DOMAIN p THEN p[n] ELSE q[n]]

Override(p, q) ==
  [n \in DOMAIN p \cup DOMAIN q |-> IF n \in DOMAIN q THEN q[n] ELSE p[n]]

SetProperty(p, name, value) == Override(p, [n \in {name} |-> value])

Init ==
  /\ args \in Argv
  /\ argindex = 1
  /\ props = << >>
  /\ stage = "parse"
  /\ loaded = FALSE
  /\ outcome = "running"

End(how) == outcome' = how /\ UNCHANGED <<args, argindex, props, stage, loaded>>

Goto(next) == stage' = next /\ UNCHANGED <<args, argindex, props, loaded, outcome>>

-----------------------------------------------------------------------------
(* ParseCommandLine: one turn of its loop *)

Parsing == outcome = "running" /\ stage = "parse" /\ argindex <= Len(args)

(* mutant: the index is not advanced *)
Consume_Stay(n) == UNCHANGED <<args, argindex, stage, loaded, outcome>>

(* mutant: one argument too many is skipped *)
Consume_Skip(n) ==
  /\ argindex' = argindex + 2
  /\ UNCHANGED <<args, stage, loaded, outcome>>

Consume(n) ==
  /\ argindex' = argindex + n
  /\ UNCHANGED <<args, stage, loaded, outcome>>

ParsePattern ==
  /\ Parsing
  /\ args[argindex] \in Patterns
  /\ props' = SetProperty(props, "pattern", args[argindex])
  /\ Consume(1)

ParseOption ==
  /\ Parsing
  /\ args[argindex] \in DOMAIN OptionProperty
  /\ argindex < Len(args)
  /\ props' = SetProperty(props, OptionProperty[args[argindex]],
                          args[argindex + 1])
  /\ Consume(2)

ParseFile ==
  /\ Parsing
  /\ args[argindex] = "-P"
  /\ argindex < Len(args)
  /\ args[argindex + 1] \in DOMAIN Files
  /\ props' = Override(props, Files[args[argindex + 1]])
  /\ Consume(2)

(* Load throws utils::Exception; the handler is for const string &.        *)
FileNotOpen ==
  /\ Parsing
  /\ args[argindex] = "-P"
  /\ argindex < Len(args)
  /\ args[argindex + 1] \notin DOMAIN Files
  /\ End("exception")

(* The value of an option is missing, or the option is unknown.            *)
UsageError ==
  /\ Parsing
  /\ IF args[argindex] \in DOMAIN OptionProperty \cup {"-P"}
     THEN argindex = Len(args)
     ELSE args[argindex] \notin Patterns
  /\ End("exit")

(* Nothing was given, or no pattern.                                       *)
NothingToDo == argindex = 1 \/ GetProperty(props, "pattern", "") = ""

EndOfArguments ==
  /\ outcome = "running" /\ stage = "parse" /\ argindex > Len(args)
  /\ IF NothingToDo THEN End("exit") ELSE Goto("createDB")

-----------------------------------------------------------------------------
(* DBFactory::CreateDB and the constructors of RocksDB and LevelDB *)

(* The keys ConfigRocksDB::init gets without a default.                    *)
ConfigKeys ==
  {"bloomBits", "seekCompaction", "compression", "directIO", "blockCache",
   "sizeRatio", "gcSize", "memtable", "maxFileSize", "noCompaction",
   "numThreads", "smallThresh", "midThresh", "preheat", "gcLevel",
   "mergeLevel", "runGC", "gcWB", "tiered", "levelMerge", "rangeMerge",
   "sepBeforeFlush", "gcThreads", "maxSortedRuns", "gcRatio",
   "blockWriteSize", "disableWAL", "memtableNum"}

(* "" selects "./RocksDBConfig/rocksdb_config.ini".                        *)
ConfigName(p) ==
  LET name == GetProperty(p, "dbConfig", "")
  IN  IF name = "" THEN "./RocksDBConfig/rocksdb_config.ini" ELSE name

ConfigLoads(p) ==
  /\ ConfigName(p) \in DOMAIN Configs
  /\ ConfigKeys \subseteq Configs[ConfigName(p)]

Creating == outcome = "running" /\ stage = "createDB"

Persistent(p) == p["dbname"] \in {"rocksdb", "leveldb"}

(* props["dbname"] and props["dbPath"] are map::at.                        *)
CreateThrows(p) ==
  \/ "dbname" \notin DOMAIN p
  \/ "dbname" \in DOMAIN p /\ Persistent(p) /\
       ("dbPath" \notin DOMAIN p \/ ~ ConfigLoads(p))

CreateDBThrows == Creating /\ CreateThrows(props) /\ End("exception")

UnknownDB ==
  /\ Creating
  /\ ~ CreateThrows(props) /\ ~ Persistent(props) /\ props["dbname"] # "basic"
  /\ End("exit")

OpenError ==
  /\ Creating /\ DbFails
  /\ ~ CreateThrows(props) /\ Persistent(props)
  /\ End("exit")

CreateDB ==
  /\ Creating
  /\ ~ CreateThrows(props)
  /\ props["dbname"] \in {"basic", "rocksdb", "leveldb"}
  /\ Goto("workload")

-----------------------------------------------------------------------------
(* CoreWorkload::Init *)

IsInt(p, name, default) == GetProperty(p, name, default) \in DOMAIN Stoi

(* A property with a good default: wrong only if it is set, and set wrong. *)
SetWithin(p, name, accepted) == name \in DOMAIN p => p[name] \in accepted

(* StrToBool lowers its argument first.                                    *)
Lowered(str) == IF str \in DOMAIN Lower THEN Lower[str] ELSE str

IsBool(p, name) ==
  name \in DOMAIN p => Lowered(p[name]) \in {"true", "1", "false", "0"}

(* The proportions of the operations, and their defaults.                  *)
Proportions ==
  [n \in {"readproportion", "updateproportion", "insertproportion",
          "scanproportion", "readmodifywriteproportion"} |->
     CASE n = "readproportion" -> "0.95" [] n = "updateproportion" -> "0.05"
       [] OTHER -> "0.0"]

FieldLenDist(p) == GetProperty(p, "field_len_dist", "constant")
ScanLenDist(p)  == GetProperty(p, "scanlengthdistribution", "uniform")
RequestDist(p)  == GetProperty(p, "requestdistribution", "uniform")

(* A property that stoi, stod, StrToBool or the test of a name rejects.    *)
WorkloadThrows(p) ==
  \/ ~ IsInt(p, "recordcount", "")
  \/ \E n \in {"fieldcount", "fieldlength", "zeropadding", "maxscanlength",
               "insertstart"} : ~ SetWithin(p, n, DOMAIN Stoi)
  \/ \E n \in DOMAIN Proportions : ~ SetWithin(p, n, DOMAIN Stod)
  \/ ~ IsBool(p, "readallfields") \/ ~ IsBool(p, "writeallfields")
  \/ FieldLenDist(p) \notin {"constant", "uniform", "zipfian"}
  \/ ScanLenDist(p) \notin {"uniform", "zipfian"}
  \/ RequestDist(p) \notin {"uniform", "zipfian", "latest"}
  \/ RequestDist(p) = "zipfian" /\ ~ IsInt(p, "operationcount", "")

(* (int)(op_count * insert_proportion * 2) *)
NewKeys(p) ==
  LET n == Stoi[p["operationcount"]]
             * Stod[GetProperty(p, "insertproportion", "0.0")] * 2
  IN  IF n >= 0 THEN n \div 100 ELSE - ((- n) \div 100)

(* A ZipfianGenerator of fewer than two items, or of a negative number of  *)
(* them, which is a huge uint64_t, fails an assertion.                     *)
TooFew(p, name, default, least) ==
  IsInt(p, name, default) /\ Stoi[GetProperty(p, name, default)] < least

WorkloadAsserts(p) ==
  \/ FieldLenDist(p) = "zipfian" /\ TooFew(p, "fieldlength", "100", 2)
  \/ ScanLenDist(p) = "zipfian" /\ TooFew(p, "maxscanlength", "1000", 2)
  \/ RequestDist(p) = "latest" /\ TooFew(p, "recordcount", "", 3)
  \/ /\ RequestDist(p) = "zipfian"
     /\ IsInt(p, "operationcount", "")
     /\ SetWithin(p, "insertproportion", DOMAIN Stod)
     /\ TooFew(p, "recordcount", "", 2 - NewKeys(p))

Initializing == outcome = "running" /\ stage = "workload"

(* wl.Init(props), and the numbers main converts next.  When a property is *)
(* rejected and an assertion fails too, either may come first.             *)
InitThrows ==
  /\ Initializing
  /\ WorkloadThrows(props) \/ ~ IsInt(props, "threadcount", "1")
       \/ ~ IsInt(props, "duration", "0")
  /\ End("exception")

InitAsserts == Initializing /\ WorkloadAsserts(props) /\ End("assertion")

InitWorkload ==
  /\ Initializing
  /\ ~ WorkloadThrows(props) /\ ~ WorkloadAsserts(props)
  /\ IsInt(props, "threadcount", "1") /\ IsInt(props, "duration", "0")
  /\ Goto("recorder")

-----------------------------------------------------------------------------
(* The recorder *)

Duration(p) == Stoi[GetProperty(p, "duration", "0")]

(* With a duration the block that starts the recorder is never left: the   *)
(* future waits for the recorder, and the recorder for the phases.         *)
SkipRecorder ==
  /\ outcome = "running" /\ stage = "recorder"
  /\ Duration(props) = 0
  /\ Goto("load")

Blocked == outcome = "running" /\ stage = "recorder" /\ Duration(props) # 0

-----------------------------------------------------------------------------
(* The phases *)

Threads(p) == Stoi[GetProperty(p, "threadcount", "1")]

(* Every worker has an operation: total_ops / num_threads is not 0.        *)
HasWork(p, total) == Stoi[p[total]] >= Threads(p)

(* mutant: zero threads pass for some *)
NoThreads_Negative(p) == Threads(p) < 0

(* Nothing is spawned.  A negative number fails the assertion on the       *)
(* futures; with none, histograms[0] of an empty vector is dereferenced.   *)
NoThreads(p) == Threads(p) <= 0

EndWithoutThreads == End(IF Threads(props) < 0 THEN "assertion" ELSE "crash")

(* A negative length, or a range from 1 to 0, makes uint64_t lengths that  *)
(* no string can have: append throws.                                      *)
HugeValues(p) ==
  \/ Stoi[GetProperty(p, "fieldlength", "100")] < 0
  \/ /\ Stoi[GetProperty(p, "fieldlength", "100")] = 0
     /\ FieldLenDist(p) = "uniform"

(* What BuildValues and BuildUpdate make has a value.                      *)
HasFields(p) ==
  p["dbname"] = "rocksdb" \/ Stoi[GetProperty(p, "fieldcount", "10")] > 0

WritesAll(p) ==
  \/ p["dbname"] = "rocksdb"
  \/ Lowered(GetProperty(p, "writeallfields", "false")) \in {"true", "1"}

(* The operations op_chooser_ holds, and those of them that make a value.  *)
Mix(p) ==
  { n \in DOMAIN Proportions : Stod[GetProperty(p, n, Proportions[n])] > 0 }

Writing(p) ==
  { n \in Mix(p) :
      \/ n = "insertproportion" /\ HasFields(p)
      \/ /\ n \in {"updateproportion", "readmodifywriteproportion"}
         /\ HasFields(p) \/ ~ WritesAll(p) }

Loading == outcome = "running" /\ stage = "load"

Loads == props["pattern"] \in {"load", "both"}

SkipLoad == Loading /\ ~ Loads /\ Goto("run")

LoadWithoutThreads == Loading /\ Loads /\ NoThreads(props) /\ EndWithoutThreads

(* A worker's exception comes out of its future; exit(0) is the worker's.  *)
LoadThrows ==
  /\ Loading /\ Loads /\ ~ NoThreads(props) /\ HasWork(props, "recordcount")
  /\ HugeValues(props) /\ HasFields(props)
  /\ End("exception")

LoadDbError ==
  /\ Loading /\ Loads /\ ~ NoThreads(props) /\ HasWork(props, "recordcount")
  /\ DbFails /\ Persistent(props)
  /\ End("exit")

Load ==
  /\ Loading /\ Loads /\ ~ NoThreads(props)
  /\ HasWork(props, "recordcount") => ~ (HugeValues(props) /\ HasFields(props))
  /\ loaded' = TRUE
  /\ stage' = "run"
  /\ UNCHANGED <<args, argindex, props, outcome>>

Running == outcome = "running" /\ stage = "run"

(* mutant: the transactions run whatever the pattern *)
Runs_AnyPattern == TRUE

Runs == props["pattern"] \in {"run", "both"}

SkipRun == Running /\ ~ Runs /\ End("returned")

(* props["operationcount"] is map::at, and its value goes through stoi.    *)
RunThrows ==
  /\ Running /\ Runs
  /\ ~ IsInt(props, "operationcount", "")
  /\ End("exception")

Counted == Running /\ Runs /\ IsInt(props, "operationcount", "")

RunWithoutThreads == Counted /\ NoThreads(props) /\ EndWithoutThreads

Transacting == Counted /\ ~ NoThreads(props)

(* No operation has a proportion: DiscreteGenerator::Next asserts.         *)
NoOperation ==
  /\ Transacting /\ HasWork(props, "operationcount")
  /\ Mix(props) = {}
  /\ End("assertion")

ValueThrows ==
  /\ Transacting /\ HasWork(props, "operationcount")
  /\ HugeValues(props) /\ Writing(props) # {}
  /\ End("exception")

RunDbError ==
  /\ Transacting /\ HasWork(props, "operationcount")
  /\ Mix(props) # {} /\ DbFails /\ Persistent(props)
  /\ End("exit")

(* The workers get by without a value they cannot make.                    *)
Done ==
  /\ Transacting
  /\ HasWork(props, "operationcount") =>
       Mix(props) \ (IF HugeValues(props) THEN Writing(props) ELSE {}) # {}

(* After a load, isFinish is stored to and deleted a second time.          *)
SecondDelete == Done /\ loaded /\ End("crash")

Run == Done /\ End("returned")

Stopped == outcome # "running"

Terminating == (Stopped \/ Blocked) /\ UNCHANGED vars

Step ==
  \/ ParsePattern \/ ParseOption \/ ParseFile \/ FileNotOpen \/ UsageError
  \/ EndOfArguments
  \/ CreateDBThrows \/ UnknownDB \/ OpenError \/ CreateDB
  \/ InitThrows \/ InitAsserts \/ InitWorkload \/ SkipRecorder
  \/ SkipLoad \/ LoadWithoutThreads \/ LoadThrows \/ LoadDbError \/ Load
  \/ SkipRun \/ RunThrows \/ RunWithoutThreads
  \/ NoOperation \/ ValueThrows \/ RunDbError \/ SecondDelete \/ Run

Next == Step \/ Terminating

(* A single thread that the operating system schedules.                    *)
Spec == Init /\ [][Next]_vars /\ WF_vars(Step)

-----------------------------------------------------------------------------
(* Properties *)

Outcomes ==
  {"running", "exit", "exception", "assertion", "crash", "returned"}

(* argindex does not run past argc: "argindex != argc" is never true.       *)
TypeOK ==
  /\ args \in Seq(STRING)
  /\ argindex \in 1 .. Len(args) + 1
  /\ stage \in {"parse", "createDB", "workload", "recorder", "load", "run"}
  /\ outcome \in Outcomes
  /\ loaded \in BOOLEAN

(* The properties that the argument at position i assigns.                 *)
AssignedAt(i) ==
  CASE args[i] \in Patterns -> [n \in {"pattern"} |-> args[i]]
    [] args[i] \in DOMAIN OptionProperty /\ i < Len(args) ->
         [n \in {OptionProperty[args[i]]} |-> args[i + 1]]
    [] args[i] = "-P" /\ i < Len(args) /\ args[i + 1] \in DOMAIN Files ->
         Files[args[i + 1]]
    [] OTHER -> << >>

(* Which positions of a command line are options, not values of options.   *)
IsOption(a) ==
  LET is[i \in 1 .. Len(a)] ==
        \/ i = 1
        \/ i > 1 /\ is[i - 1] /\ a[i - 1] \in Patterns
        \/ i > 2 /\ is[i - 2] /\ a[i - 2] \notin Patterns
  IN  is

OptionPositions == { i \in 1 .. argindex - 1 : IsOption(args)[i] }

(***************************************************************************)
(* Usage: "Multiple files can be specified, and will be processed in the   *)
(* order specified".  Files and options alike: a property has the value of *)
(* the last argument that assigns it.                                      *)
(***************************************************************************)
LastAssignmentWins ==
  \A i \in OptionPositions : \A n \in DOMAIN AssignedAt(i) :
    (\A j \in OptionPositions : j > i => n \notin DOMAIN AssignedAt(j))
      => props[n] = AssignedAt(i)[n]

(***************************************************************************)
(* What can still go wrong once the load phase has run: in the pattern     *)
(* "both" only, and then an operation count that is missing or no number,  *)
(* values no string can hold, a mix without an operation, or the second    *)
(* delete of isFinish.  The command line, the database, the other          *)
(* properties and the number of threads were found good before.            *)
(***************************************************************************)
LateFailure ==
  loaded /\ outcome \in {"exception", "assertion", "crash"} =>
    /\ props["pattern"] = "both" /\ ~ NoThreads(props)
    /\ ~ WorkloadThrows(props) /\ ~ WorkloadAsserts(props)
    /\ outcome = "exception" =>
         ~ IsInt(props, "operationcount", "") \/ HugeValues(props)
    /\ outcome = "assertion" => Mix(props) = {}

(***************************************************************************)
(* main returns only after the phases its pattern names: with a worker for *)
(* them, a load that ran if and only if the pattern asks for one, and, for *)
(* transactions, an operation to choose unless no worker had one to make.  *)
(* No thread count, zero and negative ones included, makes the program     *)
(* return as if it had done its work.                                      *)
(***************************************************************************)
SuccessMeansWork ==
  outcome = "returned" =>
    /\ loaded <=> Loads
    /\ Loads \/ Runs => Threads(props) >= 1
    /\ Runs =>
         /\ IsInt(props, "operationcount", "")
         /\ HasWork(props, "operationcount") => Mix(props) # {}

(***************************************************************************)
(* Whatever the command line, main ends or is blocked for good by its own  *)
(* recorder, which only a duration other than 0 brings about.  (That the   *)
(* workers of a phase end is Termination of Ycsbc.)                        *)
(***************************************************************************)
StopsOrBlocks == <>(Stopped \/ []Blocked)
=============================================================================
