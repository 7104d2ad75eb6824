----------------------------- MODULE StartupInv -----------------------------
(***************************************************************************)
(* The inductive invariant behind the theorems about Startup.              *)
(***************************************************************************)
EXTENDS Startup

(* ParseCommandLine looks at options only, never at the value of one, and  *)
(* what it has looked at is set.                                           *)
ParseInv ==
  /\ stage = "parse" /\ argindex <= Len(args) => IsOption(args)[argindex]
  /\ argindex > 1 =>
       ~ (IsOption(args)[argindex - 1] /\ args[argindex - 1] \notin Patterns)
  /\ \A i \in OptionPositions : DOMAIN AssignedAt(i) \subseteq DOMAIN props

(* What main has tested before it gets to a phase still holds there.       *)
PhaseInv ==
  /\ stage \in {"recorder", "load", "run"} =>
       /\ ~ WorkloadThrows(props) /\ ~ WorkloadAsserts(props)
       /\ IsInt(props, "threadcount", "1") /\ IsInt(props, "duration", "0")
  /\ loaded => stage = "run" /\ Loads /\ ~ NoThreads(props)
  /\ stage = "run" /\ Loads => loaded
  /\ outcome = "returned" => stage = "run"

(***************************************************************************)
(* The inductive invariant of Startup: which positions ParseCommandLine    *)
(* has read and what it has set from them, and what was tested before the  *)
(* phase main is in.                                                       *)
(***************************************************************************)
IInv ==
  /\ TypeOK /\ ParseInv /\ LastAssignmentWins /\ PhaseInv
  /\ LateFailure /\ SuccessMeansWork
=============================================================================
