---------------------------- MODULE StartupProofs ---------------------------
(***************************************************************************)
(* Theorems about Startup: how ParseCommandLine reads any command line,    *)
(* and what can still fail once records have been loaded.                  *)
(***************************************************************************)
EXTENDS StartupInv, WellFoundedInduction, TLAPS

-----------------------------------------------------------------------------
(* Induction, and the recursive function IsOption *)

(* A non-empty set of naturals has a least element.                        *)
LEMMA LeastElement ==
  ASSUME NEW T \in SUBSET Nat, T # {}
  PROVE  \E x \in T : \A y \in T : x <= y
<1>1. IsWellFoundedOn(OpToRel(<, Nat), Nat)
  BY NatLessThanWellFounded
<1>2. \E x \in T : \A y \in T : ~ (<<y, x>> \in OpToRel(<, Nat))
  BY <1>1, WFMin
<1>3. ASSUME NEW x \in T, NEW y \in T, y < x
      PROVE  <<y, x>> \in OpToRel(<, Nat)
  <2>1. <<y, x>> \in Nat \X Nat /\ <<y, x>>[1] < <<y, x>>[2]
    BY <1>3
  <2> QED BY <2>1, Zenon DEF OpToRel
<1>4. \E x \in T : \A y \in T : ~ (y < x)
  BY <1>2, <1>3
<1> QED BY <1>4

(* How position i is classified from the two before it.                    *)
Rule(a, f, i) ==
  \/ i = 1
  \/ i > 1 /\ f[i - 1] /\ a[i - 1] \in Patterns
  \/ i > 2 /\ f[i - 2] /\ a[i - 2] \notin Patterns

(* The positions up to n can be classified, whatever the command line.     *)
LEMMA RuleHasSolution ==
  ASSUME NEW a, NEW n \in Nat
  PROVE  \E f : f = [i \in 1 .. n |-> Rule(a, f, i)]
<1> DEFINE Bad == { m \in Nat : ~ \E f : f = [i \in 1 .. m |-> Rule(a, f, i)] }
<1>1. SUFFICES Bad = {}
  BY <1>1
<1>2. SUFFICES ASSUME Bad # {} PROVE FALSE
  BY <1>2
<1>3. PICK m \in Bad : \A k \in Bad : m <= k
  BY <1>2, LeastElement
<1>4. m \in Nat
  OBVIOUS
<1>5. CASE m = 0
  <2> DEFINE f == [i \in 1 .. 0 |-> TRUE]
  <2>1. f = [i \in 1 .. 0 |-> Rule(a, f, i)]
    OBVIOUS
  <2> QED BY <1>5, <2>1
<1>6. CASE m > 0
  <2>1. m - 1 \in Nat /\ m - 1 \notin Bad
    BY <1>3, <1>4, <1>6
  <2>2. PICK f : f = [i \in 1 .. m - 1 |-> Rule(a, f, i)]
    BY <2>1
  <2> DEFINE g == [i \in 1 .. m |-> Rule(a, f, i)]
  <2>3. \A i \in 1 .. m - 1 : g[i] = f[i]
    <3> SUFFICES ASSUME NEW i \in 1 .. m - 1 PROVE g[i] = f[i]
      OBVIOUS
    <3>1. i \in 1 .. m
      BY <1>4
    <3>2. f[i] = Rule(a, f, i)
      BY <2>2, Zenon
    <3> QED BY <3>1, <3>2
  <2>4. ASSUME NEW i \in 1 .. m
        PROVE  Rule(a, f, i) = Rule(a, g, i)
    <3>1. i > 1 => i - 1 \in 1 .. m - 1
      BY <1>4
    <3>2. i > 2 => i - 2 \in 1 .. m - 1
      BY <1>4
    <3> HIDE DEF g
    <3> QED BY <2>3, <3>1, <3>2 DEF Rule
  <2>5. g = [i \in 1 .. m |-> Rule(a, g, i)]
    BY <2>4, Zenon
  <2> QED BY <2>5
<1> QED BY <1>4, <1>5, <1>6

(* IsOption is what its definition says.                                   *)
LEMMA IsOptionRule ==
  ASSUME NEW a, Len(a) \in Nat
  PROVE  \A i \in 1 .. Len(a) : IsOption(a)[i] <=> Rule(a, IsOption(a), i)
<1>1. \E f : f = [i \in 1 .. Len(a) |-> Rule(a, f, i)]
  BY RuleHasSolution
<1>2. IsOption(a) = [i \in 1 .. Len(a) |-> Rule(a, IsOption(a), i)]
  BY <1>1, Zenon DEF IsOption, Rule
<1> QED BY <1>2

-----------------------------------------------------------------------------
(* ParseCommandLine *)

(* What a turn of the loop consumes and sets: the option at argindex, with *)
(* its value if it is no pattern.                                          *)
Turn(n) ==
  /\ n = IF args[argindex] \in Patterns THEN 1 ELSE 2
  /\ argindex + n <= Len(args) + 1
  /\ props' = Override(props, AssignedAt(argindex))
  /\ Parsing /\ Consume(n)

(* Options with a value and -P are no patterns.                            *)
LEMMA OptionsAreNotPatterns ==
  /\ "-P" \notin Patterns /\ "-P" \notin DOMAIN OptionProperty
  /\ \A o \in DOMAIN OptionProperty : o \notin Patterns
BY DEF Patterns, OptionProperty

(* Every step that sets properties is such a turn.                         *)
LEMMA ParseIsTurn ==
  ASSUME TypeOK, ParsePattern \/ ParseOption \/ ParseFile
  PROVE  Turn(1) \/ Turn(2)
<1>0. args \in Seq(STRING) /\ argindex \in Nat /\ Len(args) \in Nat
  BY StartupAssumption DEF TypeOK
<1>1. CASE ParsePattern
  <2>1. AssignedAt(argindex) = [n \in {"pattern"} |-> args[argindex]]
    BY <1>1, OptionsAreNotPatterns DEF ParsePattern, AssignedAt
  <2> QED BY <1>0, <1>1, <2>1 DEF ParsePattern, Turn, SetProperty, Parsing
<1>2. CASE ParseOption
  <2>1. AssignedAt(argindex) =
          [n \in {OptionProperty[args[argindex]]} |-> args[argindex + 1]]
    BY <1>2, OptionsAreNotPatterns DEF ParseOption, AssignedAt
  <2>2. args[argindex] \notin Patterns
    BY <1>2, OptionsAreNotPatterns DEF ParseOption
  <2> QED BY <1>0, <1>2, <2>1, <2>2 DEF ParseOption, Turn, SetProperty, Parsing
<1>3. CASE ParseFile
  <2>1. AssignedAt(argindex) = Files[args[argindex + 1]]
    BY <1>3, OptionsAreNotPatterns DEF ParseFile, AssignedAt
  <2>2. args[argindex] \notin Patterns
    BY <1>3, OptionsAreNotPatterns DEF ParseFile
  <2> QED BY <1>0, <1>3, <2>1, <2>2 DEF ParseFile, Turn, Parsing
<1> QED BY <1>1, <1>2, <1>3

(* A turn adds its own position to those that have been read, and the loop *)
(* goes on at an option.                                                   *)
LEMMA TurnPositions ==
  ASSUME TypeOK, ParseInv, NEW n \in {1, 2}, Turn(n)
  PROVE  /\ argindex' = argindex + n /\ args' = args /\ stage' = "parse"
         /\ OptionPositions' = OptionPositions \cup {argindex}
         /\ argindex \notin OptionPositions
         /\ \A i \in OptionPositions : i < argindex
         /\ argindex' <= Len(args) => IsOption(args)[argindex']
         /\ ~ (IsOption(args)[argindex' - 1] /\ args[argindex' - 1] \notin Patterns)
<1>0. /\ args \in Seq(STRING) /\ Len(args) \in Nat
      /\ argindex \in 1 .. Len(args) /\ argindex + n <= Len(args) + 1
  BY StartupAssumption DEF TypeOK, Turn, Parsing
<1>1. argindex' = argindex + n /\ args' = args /\ stage' = "parse"
  BY DEF Turn, Consume, Parsing
<1>2. IsOption(args)[argindex]
  BY <1>0 DEF ParseInv, Turn, Parsing
<1>3. \A i \in 1 .. Len(args) :
        IsOption(args)[i] <=> Rule(args, IsOption(args), i)
  BY <1>0, IsOptionRule
<1>4. CASE n = 1
  <2>1. args[argindex] \in Patterns
    BY <1>4 DEF Turn
  <2>2. argindex + 1 <= Len(args) => IsOption(args)[argindex + 1]
    BY <1>0, <1>2, <1>3, <2>1 DEF Rule
  <2>3. OptionPositions' = OptionPositions \cup {argindex}
    BY <1>0, <1>1, <1>2, <1>4 DEF OptionPositions
  <2> QED BY <1>0, <1>1, <1>4, <2>1, <2>2, <2>3 DEF OptionPositions
<1>5. CASE n = 2
  <2>1. args[argindex] \notin Patterns /\ argindex + 1 <= Len(args)
    BY <1>0, <1>5 DEF Turn
  <2>2. argindex + 2 <= Len(args) => IsOption(args)[argindex + 2]
    BY <1>0, <1>2, <1>3, <2>1 DEF Rule
  <2>3. ~ IsOption(args)[argindex + 1]
    <3>1. argindex > 1 =>
            ~ (IsOption(args)[argindex - 1] /\ args[argindex - 1] \notin Patterns)
      BY DEF ParseInv
    <3>2. ~ Rule(args, IsOption(args), argindex + 1)
      BY <1>0, <2>1, <3>1 DEF Rule
    <3> QED BY <1>0, <1>3, <2>1, <3>2
  <2>4. OptionPositions' = OptionPositions \cup {argindex}
    BY <1>0, <1>1, <1>2, <1>5, <2>1, <2>3 DEF OptionPositions
  <2> QED BY <1>0, <1>1, <1>5, <2>2, <2>3, <2>4 DEF OptionPositions
<1> QED BY <1>4, <1>5

(* A turn sets what it reads and keeps the rest, so that the last          *)
(* assignment wins.                                                        *)
LEMMA TurnStep ==
  ASSUME IInv, NEW n \in {1, 2}, Turn(n)
  PROVE  IInv'
<1>0. TypeOK /\ ParseInv /\ LastAssignmentWins /\ PhaseInv
  BY DEF IInv
<1>1. /\ args' = args /\ argindex' = argindex + n /\ stage' = "parse"
      /\ UNCHANGED <<loaded, outcome>> /\ outcome = "running" /\ stage = "parse"
      /\ argindex + n <= Len(args) + 1
      /\ props' = Override(props, AssignedAt(argindex))
  BY DEF Turn, Consume, Parsing
<1>2. /\ OptionPositions' = OptionPositions \cup {argindex}
      /\ argindex \notin OptionPositions
      /\ \A i \in OptionPositions : i < argindex
      /\ argindex' <= Len(args) => IsOption(args)[argindex']
      /\ ~ (IsOption(args)[argindex' - 1] /\ args[argindex' - 1] \notin Patterns)
  BY <1>0, TurnPositions
<1>3. \A i : AssignedAt(i)' = AssignedAt(i)
  BY <1>1 DEF AssignedAt
<1>4. /\ DOMAIN props' = DOMAIN props \cup DOMAIN AssignedAt(argindex)
      /\ \A m \in DOMAIN props' :
           props'[m] = IF m \in DOMAIN AssignedAt(argindex)
                       THEN AssignedAt(argindex)[m] ELSE props[m]
  BY <1>1 DEF Override
<1>5. TypeOK'
  <2>1. argindex \in Nat /\ Len(args) \in Nat
    BY <1>0, StartupAssumption DEF TypeOK
  <2> QED BY <1>0, <1>1, <2>1 DEF TypeOK
<1>6. ParseInv'
  <2>1. \A i \in OptionPositions' : DOMAIN AssignedAt(i) \subseteq DOMAIN props'
    BY <1>0, <1>2, <1>4 DEF ParseInv
  <2> QED BY <1>1, <1>2, <1>3, <2>1 DEF ParseInv
<1>7. LastAssignmentWins'
  <2> SUFFICES ASSUME NEW i \in OptionPositions', NEW m \in DOMAIN AssignedAt(i),
                      \A j \in OptionPositions' : j > i => m \notin DOMAIN AssignedAt(j)
               PROVE  props'[m] = AssignedAt(i)[m]
    BY <1>3 DEF LastAssignmentWins
  <2>1. CASE i = argindex
    BY <1>4, <2>1
  <2>2. CASE i \in OptionPositions
    <3>1. argindex > i
      BY <1>2, <2>2 
    <3>2. m \notin DOMAIN AssignedAt(argindex)
      BY <1>2, <3>1
    <3>3. m \in DOMAIN props
      BY <1>0, <2>2 DEF ParseInv
    <3>4. props[m] = AssignedAt(i)[m]
      BY <1>0, <1>2, <2>2 DEF LastAssignmentWins
    <3> QED BY <1>4, <3>2, <3>3, <3>4
  <2> QED BY <1>2, <2>1, <2>2
<1>8. PhaseInv' /\ LateFailure' /\ SuccessMeansWork'
  BY <1>0, <1>1 DEF PhaseInv, LateFailure, SuccessMeansWork
<1> QED BY <1>5, <1>6, <1>7, <1>8 DEF IInv

-----------------------------------------------------------------------------
(* The other steps of main *)

(* They leave the command line and the properties alone.                   *)
LEMMA KeepProps ==
  ASSUME IInv, UNCHANGED <<args, argindex, props>>, stage' # "parse" \/ stage = "parse"
  PROVE  ParseInv' /\ LastAssignmentWins'
<1>1. \A i : AssignedAt(i)' = AssignedAt(i)
  BY DEF AssignedAt
<1>2. OptionPositions' = OptionPositions
  BY DEF OptionPositions
<1> QED BY <1>1, <1>2 DEF IInv, ParseInv, LastAssignmentWins

(* A stage that is not the last one has loaded nothing.                    *)
LEMMA EarlyStep ==
  ASSUME IInv, UNCHANGED <<args, argindex, props, loaded>>, stage # "run",
         \/ stage' = stage /\ outcome' \in Outcomes \ {"returned"}
         \/ stage' \in {"createDB", "workload"} /\ outcome' = "running"
         \/ /\ stage' \in {"recorder", "load"} /\ outcome' = "running"
            /\ ~ WorkloadThrows(props) /\ ~ WorkloadAsserts(props)
            /\ IsInt(props, "threadcount", "1") /\ IsInt(props, "duration", "0")
  PROVE  IInv'
<1>1. /\ WorkloadThrows(props)' = WorkloadThrows(props)
      /\ WorkloadAsserts(props)' = WorkloadAsserts(props)
      /\ IsInt(props, "threadcount", "1")' = IsInt(props, "threadcount", "1")
      /\ IsInt(props, "duration", "0")' = IsInt(props, "duration", "0")
  BY Zenon
<1>2. TypeOK /\ PhaseInv
  BY DEF IInv
<1>3. ~ loaded
  BY <1>2 DEF PhaseInv
<1>4. ParseInv' /\ LastAssignmentWins'
  <2>1. stage' # "parse" \/ stage = "parse"
    OBVIOUS
  <2> QED BY <2>1, KeepProps
<1>5. TypeOK'
  BY <1>2 DEF TypeOK, Outcomes
<1>6. PhaseInv'
  BY <1>1, <1>2, <1>3 DEF PhaseInv
<1>7. LateFailure' /\ SuccessMeansWork'
  BY <1>3 DEF LateFailure, SuccessMeansWork
<1> QED BY <1>4, <1>5, <1>6, <1>7 DEF IInv

(* A thread count that is not 0 or less is at least 1.                     *)
LEMMA SomeThreads ==
  ASSUME NEW p, Threads(p) \in Int, ~ NoThreads(p)
  PROVE  Threads(p) >= 1
<1> DEFINE n == Threads(p)
<1>1. n \in Int /\ ~ (n <= 0)
  BY DEF NoThreads
<1> HIDE DEF n
<1>2. n >= 1
  BY <1>1
<1> QED BY <1>2 DEF n

(* How the program can end once it is in the last stage.                   *)
LEMMA RunStep ==
  ASSUME IInv, UNCHANGED <<args, argindex, props, loaded, stage>>, stage = "run",
         \/ outcome' = "exit"
         \/ /\ outcome' = "exception" /\ Runs
            /\ ~ IsInt(props, "operationcount", "") \/ HugeValues(props)
         \/ outcome' \in {"assertion", "crash"} /\ Runs /\ NoThreads(props)
         \/ outcome' = "assertion" /\ Runs /\ Mix(props) = {}
         \/ outcome' = "crash" /\ Runs
         \/ outcome' = "returned" /\ ~ Runs
         \/ /\ outcome' = "returned" /\ Runs /\ ~ NoThreads(props)
            /\ IsInt(props, "operationcount", "")
            /\ HasWork(props, "operationcount") => Mix(props) # {}
  PROVE  IInv'
<1>1. TypeOK /\ PhaseInv
  BY DEF IInv
<1>2. /\ WorkloadThrows(props)' = WorkloadThrows(props)
      /\ WorkloadAsserts(props)' = WorkloadAsserts(props)
      /\ IsInt(props, "threadcount", "1")' = IsInt(props, "threadcount", "1")
      /\ IsInt(props, "duration", "0")' = IsInt(props, "duration", "0")
      /\ IsInt(props, "operationcount", "")' = IsInt(props, "operationcount", "")
      /\ NoThreads(props)' = NoThreads(props) /\ Mix(props)' = Mix(props)
      /\ HugeValues(props)' = HugeValues(props)
      /\ Threads(props)' = Threads(props)
      /\ HasWork(props, "operationcount")' = HasWork(props, "operationcount")
  BY Zenon
<1>3. Loads' = Loads /\ Runs' = Runs
  BY DEF Loads, Runs
<1>4. ParseInv' /\ LastAssignmentWins'
  BY KeepProps
<1>5. TypeOK'
  BY <1>1 DEF TypeOK, Outcomes
<1>6. PhaseInv'
  BY <1>1, <1>2, <1>3 DEF PhaseInv
<1>7. /\ ~ WorkloadThrows(props) /\ ~ WorkloadAsserts(props)
      /\ IsInt(props, "threadcount", "1")
      /\ loaded => Loads /\ ~ NoThreads(props)
      /\ Loads => loaded
  BY <1>1 DEF PhaseInv
<1>8. Threads(props) \in Int
  BY <1>7, StartupAssumption DEF Threads, IsInt
<1>9. Loads /\ Runs => props["pattern"] = "both"
  BY DEF Loads, Runs
<1>10. LateFailure'
  <2> SUFFICES ASSUME loaded, outcome' \in {"exception", "assertion", "crash"}
               PROVE  /\ props["pattern"] = "both" /\ ~ NoThreads(props)
                      /\ ~ WorkloadThrows(props) /\ ~ WorkloadAsserts(props)
                      /\ outcome' = "exception" =>
                           ~ IsInt(props, "operationcount", "") \/ HugeValues(props)
                      /\ outcome' = "assertion" => Mix(props) = {}
    BY <1>2 DEF LateFailure
  <2>1. Runs
    OBVIOUS
  <2> QED BY <1>7, <1>9, <2>1
<1>11. SuccessMeansWork'
  <2> SUFFICES ASSUME outcome' = "returned"
               PROVE  /\ loaded <=> Loads
                      /\ Loads \/ Runs => Threads(props) >= 1
                      /\ Runs =>
                           /\ IsInt(props, "operationcount", "")
                           /\ HasWork(props, "operationcount") => Mix(props) # {}
    BY <1>2, <1>3 DEF SuccessMeansWork
  <2>1. loaded <=> Loads
    BY <1>7
  <2>2. Loads \/ Runs => ~ NoThreads(props)
    BY <1>7
  <2>3. ~ NoThreads(props) => Threads(props) >= 1
    BY <1>8, SomeThreads
  <2> QED BY <2>1, <2>2, <2>3
<1> QED BY <1>4, <1>5, <1>6, <1>10, <1>11 DEF IInv

(* The load phase has run, or there was none to run.                       *)
LEMMA LoadStep ==
  ASSUME IInv, SkipLoad \/ Load
  PROVE  IInv'
<1>1. TypeOK /\ PhaseInv
  BY DEF IInv
<1>2. /\ UNCHANGED <<args, argindex, props, outcome>>
      /\ stage = "load" /\ stage' = "run" /\ outcome = "running"
  BY DEF SkipLoad, Load, Loading, Goto
<1>3. /\ WorkloadThrows(props)' = WorkloadThrows(props)
      /\ WorkloadAsserts(props)' = WorkloadAsserts(props)
      /\ IsInt(props, "threadcount", "1")' = IsInt(props, "threadcount", "1")
      /\ IsInt(props, "duration", "0")' = IsInt(props, "duration", "0")
      /\ NoThreads(props)' = NoThreads(props)
  BY <1>2, Zenon
<1>4. Loads' = Loads
  BY <1>2 DEF Loads
<1>5. ~ loaded
  BY <1>1, <1>2 DEF PhaseInv
<1>6. \/ loaded' = loaded /\ ~ Loads
      \/ loaded' = TRUE /\ Loads /\ ~ NoThreads(props)
  BY DEF SkipLoad, Load, Goto
<1>7. ParseInv' /\ LastAssignmentWins'
  BY <1>2, KeepProps
<1>8. TypeOK'
  <2>0. loaded \in BOOLEAN
    BY <1>1 DEF TypeOK
  <2>1. loaded' \in BOOLEAN
    BY <1>6, <2>0
  <2> QED BY <1>1, <1>2, <2>1 DEF TypeOK
<1>9. PhaseInv'
  BY <1>1, <1>2, <1>3, <1>4, <1>5, <1>6 DEF PhaseInv
<1>10. LateFailure' /\ SuccessMeansWork'
  BY <1>2 DEF LateFailure, SuccessMeansWork
<1> QED BY <1>7, <1>8, <1>9, <1>10 DEF IInv

(* The program ends, or main goes on to the next stage.                    *)
LEMMA StageStep ==
  ASSUME IInv, Step, ~ (ParsePattern \/ ParseOption \/ ParseFile)
  PROVE  IInv'
<1>0. TypeOK /\ PhaseInv
  BY DEF IInv
<1>1. CASE FileNotOpen \/ UsageError \/ EndOfArguments
  <2>1. /\ UNCHANGED <<args, argindex, props, loaded>> /\ stage = "parse"
        /\ \/ stage' = stage /\ outcome' \in {"exception", "exit"}
           \/ stage' = "createDB" /\ outcome' = "running"
    BY <1>1 DEF FileNotOpen, UsageError, EndOfArguments, End, Goto, Parsing
  <2> QED BY <2>1, EarlyStep DEF Outcomes
<1>2. CASE CreateDBThrows \/ UnknownDB \/ OpenError \/ CreateDB
  <2>1. /\ UNCHANGED <<args, argindex, props, loaded>> /\ stage = "createDB"
        /\ \/ stage' = stage /\ outcome' \in {"exception", "exit"}
           \/ stage' = "workload" /\ outcome' = "running"
    BY <1>2 DEF CreateDBThrows, UnknownDB, OpenError, CreateDB, End, Goto, Creating
  <2> QED BY <2>1, EarlyStep DEF Outcomes
<1>3. CASE InitThrows \/ InitAsserts \/ InitWorkload
  <2>1. /\ UNCHANGED <<args, argindex, props, loaded>> /\ stage = "workload"
        /\ \/ stage' = stage /\ outcome' \in {"exception", "assertion"}
           \/ /\ stage' = "recorder" /\ outcome' = "running"
              /\ ~ WorkloadThrows(props) /\ ~ WorkloadAsserts(props)
              /\ IsInt(props, "threadcount", "1") /\ IsInt(props, "duration", "0")
    BY <1>3 DEF InitThrows, InitAsserts, InitWorkload, Initializing, End, Goto
  <2> QED BY <2>1, EarlyStep DEF Outcomes
<1>4. CASE SkipRecorder
  <2>1. /\ UNCHANGED <<args, argindex, props, loaded>> /\ stage = "recorder"
        /\ stage' = "load" /\ outcome' = "running"
    BY <1>4 DEF SkipRecorder, Goto
  <2>2. /\ ~ WorkloadThrows(props) /\ ~ WorkloadAsserts(props)
        /\ IsInt(props, "threadcount", "1") /\ IsInt(props, "duration", "0")
    BY <1>0, <2>1 DEF PhaseInv
  <2> QED BY <2>1, <2>2, EarlyStep
<1>5. CASE LoadWithoutThreads \/ LoadThrows \/ LoadDbError
  <2>1. /\ UNCHANGED <<args, argindex, props, loaded>> /\ stage = "load"
        /\ stage' = stage
        /\ outcome' \in {"exception", "assertion", "crash", "exit"}
    BY <1>5 DEF LoadWithoutThreads, EndWithoutThreads, LoadThrows, LoadDbError,
       Loading, End
  <2> QED BY <2>1, EarlyStep DEF Outcomes
<1>6. CASE SkipLoad \/ Load
  BY <1>6, LoadStep
<1>7. CASE SkipRun \/ RunThrows \/ RunWithoutThreads \/ NoOperation
           \/ ValueThrows \/ RunDbError \/ SecondDelete
  <2>1. UNCHANGED <<args, argindex, props, loaded, stage>> /\ stage = "run"
    BY <1>7 DEF SkipRun, RunThrows, RunWithoutThreads, EndWithoutThreads,
       NoOperation, ValueThrows, RunDbError, SecondDelete, Done, Transacting,
       Counted, Running, End
  <2>2. \/ outcome' = "exit"
        \/ /\ outcome' = "exception" /\ Runs
           /\ ~ IsInt(props, "operationcount", "") \/ HugeValues(props)
        \/ outcome' \in {"assertion", "crash"} /\ Runs /\ NoThreads(props)
        \/ outcome' = "assertion" /\ Runs /\ Mix(props) = {}
        \/ outcome' = "crash" /\ Runs
        \/ outcome' = "returned" /\ ~ Runs
    BY <1>7 DEF SkipRun, RunThrows, RunWithoutThreads, EndWithoutThreads,
       NoOperation, ValueThrows, RunDbError, SecondDelete, Done, Transacting,
       Counted, End
  <2> QED BY <2>1, <2>2, RunStep
<1>8. CASE Run
  <2>1. /\ UNCHANGED <<args, argindex, props, loaded, stage>> /\ stage = "run"
        /\ outcome' = "returned" /\ Runs /\ ~ NoThreads(props)
        /\ IsInt(props, "operationcount", "")
    BY <1>8 DEF Run, Done, Transacting, Counted, Running, End
  <2>2. HasWork(props, "operationcount") => Mix(props) # {}
    BY <1>8 DEF Run, Done
  <2> QED BY <2>1, <2>2, RunStep
<1> QED BY <1>1, <1>2, <1>3, <1>4, <1>5, <1>6, <1>7, <1>8 DEF Step

(* main starts at the first argument, which is an option.                  *)
LEMMA InitInv == Init => IInv
<1> SUFFICES ASSUME Init PROVE IInv
  OBVIOUS
<1>1. args \in Seq(STRING) /\ Len(args) \in Nat
  BY StartupAssumption DEF Init
<1>2. OptionPositions = {}
  BY DEF Init, OptionPositions
<1>3. argindex <= Len(args) => IsOption(args)[argindex]
  BY <1>1, IsOptionRule DEF Init, Rule
<1>4. TypeOK
  <2>1. loaded \in BOOLEAN
    BY DEF Init
  <2>2. argindex \in 1 .. Len(args) + 1
    BY <1>1 DEF Init
  <2> QED BY <1>1, <2>1, <2>2 DEF Init, TypeOK, Outcomes
<1> QED BY <1>2, <1>3, <1>4 DEF Init, IInv, ParseInv, LastAssignmentWins, PhaseInv,
        LateFailure, SuccessMeansWork

(* Every step of main keeps the invariant.                                 *)
LEMMA NextInv == IInv /\ [Next]_vars => IInv'
<1> SUFFICES ASSUME IInv, [Next]_vars PROVE IInv'
  OBVIOUS
<1>1. CASE ParsePattern \/ ParseOption \/ ParseFile
  BY <1>1, ParseIsTurn, TurnStep DEF IInv
<1>2. CASE Step /\ ~ (ParsePattern \/ ParseOption \/ ParseFile)
  BY <1>2, StageStep
<1>3. CASE UNCHANGED vars
  <2>1. UNCHANGED <<args, argindex, props, stage, loaded, outcome>>
    BY <1>3 DEF vars
  <2>2. ParseInv' /\ LastAssignmentWins'
    BY <2>1, KeepProps
  <2>3. /\ WorkloadThrows(props)' = WorkloadThrows(props)
        /\ WorkloadAsserts(props)' = WorkloadAsserts(props)
        /\ IsInt(props, "threadcount", "1")' = IsInt(props, "threadcount", "1")
        /\ IsInt(props, "duration", "0")' = IsInt(props, "duration", "0")
        /\ IsInt(props, "operationcount", "")' = IsInt(props, "operationcount", "")
        /\ NoThreads(props)' = NoThreads(props) /\ Mix(props)' = Mix(props)
        /\ HugeValues(props)' = HugeValues(props)
        /\ Threads(props)' = Threads(props)
        /\ HasWork(props, "operationcount")' = HasWork(props, "operationcount")
    BY <2>1, Zenon
  <2>4. Loads' = Loads /\ Runs' = Runs
    BY <2>1 DEF Loads, Runs
  <2>5. PhaseInv' /\ LateFailure' /\ SuccessMeansWork'
    BY <2>1, <2>3, <2>4 DEF IInv, PhaseInv, LateFailure, SuccessMeansWork
  <2> QED BY <2>1, <2>2, <2>5 DEF IInv, TypeOK
<1> QED BY <1>1, <1>2, <1>3 DEF Next, Terminating

(* The invariant of main from its first argument to the phases, for every  *)
(* command line, every set of files and every configuration.               *)
THEOREM Invariance == Spec => []IInv
<1>1. Init => IInv
  BY InitInv
<1>2. IInv /\ [Next]_vars => IInv'
  BY NextInv
<1> QED BY <1>1, <1>2, PTL DEF Spec

(* ParseCommandLine never moves argindex past argc, so that its last test, *)
(* "argindex != argc", is never true.                                      *)
THEOREM TypeCorrect == Spec => []TypeOK
<1>1. IInv => TypeOK
  BY DEF IInv
<1> QED BY <1>1, Invariance, PTL

(* For every command line, a property has the value that the last option   *)
(* or file setting it gives, as the usage text promises of files.          *)
THEOREM OrderIsKept == Spec => []LastAssignmentWins
<1>1. IInv => LastAssignmentWins
  BY DEF IInv
<1> QED BY <1>1, Invariance, PTL

(* For every command line and every workload: once the load phase has run, *)
(* an exception, a failed assertion or a crash can only come from the run  *)
(* phase of "both", and only from the operation count, a value no string   *)
(* can hold, a mix without an operation or the second delete of isFinish.  *)
THEOREM FailuresAreEarly == Spec => []LateFailure
<1>1. IInv => LateFailure
  BY DEF IInv
<1> QED BY <1>1, Invariance, PTL

(* main returns only when the phases of its pattern ran with at least one  *)
(* worker: no thread count, missing property or empty mix of operations    *)
(* ends in a return that looks like success.                               *)
THEOREM ReturnMeansWork == Spec => []SuccessMeansWork
<1>1. IInv => SuccessMeansWork
  BY DEF IInv
<1> QED BY <1>1, Invariance, PTL
=============================================================================
