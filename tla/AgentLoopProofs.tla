--------------------------- MODULE AgentLoopProofs --------------------------
(***************************************************************************)
(* Proofs about AgentLoop for every limit, every number of diffs and every *)
(* configuration: the types, the limits on timeouts and execution time,    *)
(* honest exit statuses, and the refinement of AgentContract.              *)
(***************************************************************************)
EXTENDS AgentLoop, TLAPS

-----------------------------------------------------------------------------
(* The helpers that several actions share *)

LEMMA GiveUpTyped ==
  ASSUME NEW why \in Reasons, GiveUp(why)
  PROVE  /\ cur' \in Steps /\ pc' = "alive" /\ pc' \in Locations
         /\ cur'.exit = Failed(why) /\ cur'.sub = None /\ cur'.done
  BY DEF GiveUp, NewStep, Steps, Kinds, MaybeDiff, Diffs, None, Statuses, Failed,
         NoStatus, Locations

LEMMA NewStepTyped == NewStep \in Steps
  BY DEF NewStep, Steps, Kinds, MaybeDiff, None, Statuses, NoStatus

LEMMA CountFailureTyped ==
  ASSUME TypeOK, CountFailure
  PROVE  /\ nFails' \in Nat /\ cur' \in Steps /\ pc' \in Locations
         /\ \/ pc' = "forward" /\ cur' = NewStep
            \/ pc' = "alive" /\ GiveUp("exit_format")
<1>1. nFails' \in Nat
  BY DEF TypeOK, CountFailure
<1>2. CASE nFails + 1 < MaxRequeries
  BY <1>1, <1>2, NewStepTyped DEF CountFailure, Locations
<1>3. CASE ~(nFails + 1 < MaxRequeries)
  <2>1. GiveUp("exit_format")
    BY <1>3 DEF CountFailure
  <2> QED BY <1>1, <2>1, GiveUpTyped DEF Reasons
<1> QED BY <1>2, <1>3

LEMMA WithSubmissionTyped ==
  ASSUME NEW step \in Steps, NEW p \in Diffs
  PROVE  WithSubmission(step, p) \in Steps
  BY DEF WithSubmission, Steps, Diffs, MaybeDiff, None, Statuses, Submitted, NoStatus

LEMMA DispatchTyped ==
  ASSUME TypeOK, NEW d \in MaybeDiff, Dispatch(d)
  PROVE  pc' \in Locations /\ cur' \in Steps /\ lastDiff' \in MaybeDiff
<1>0. cur.kind \in Kinds /\ cur \in Steps /\ lastDiff \in MaybeDiff
  BY DEF TypeOK, Steps
<1>1. CASE cur.kind = "retry"
  BY <1>1, NewStepTyped DEF Dispatch, RecordMistake, Locations
<1>2. CASE cur.kind = "retry_silent"
  BY <1>0, <1>2, NewStepTyped DEF Dispatch, Locations
<1>3. CASE cur.kind = "forfeit"
  <2>1. GiveUp("exit_forfeit") /\ UNCHANGED lastDiff
    BY <1>3 DEF Dispatch
  <2> QED BY <1>0, <2>1, GiveUpTyped DEF Reasons
<1>4. CASE cur.kind \in {"submit", "marker"}
  BY <1>0, <1>4 DEF Dispatch, Locations, Steps
<1>5. CASE cur.kind \in {"plain", "exit"}
  BY <1>0, <1>5 DEF Dispatch, Locations, Steps
<1> QED BY <1>0, <1>1, <1>2, <1>3, <1>4, <1>5 DEF Kinds

-----------------------------------------------------------------------------
(* Types *)

LEMMA InitTyped == Init => TypeOK
<1> SUFFICES ASSUME Init PROVE TypeOK
  OBVIOUS
<1>1. cur \in Steps
  BY NewStepTyped DEF Init
<1>2. [sub |-> None, exit |-> NoStatus] \in [sub : MaybeDiff, exit : Statuses]
  BY DEF NoStatus, Statuses, MaybeDiff
<1>3. 0 \in Diffs /\ None \in MaybeDiff /\ 0 \in MaybeDiff
  BY LoopAssumption DEF Diffs, MaybeDiff
<1> QED BY <1>1, <1>2, <1>3 DEF Init, TypeOK, Locations

LEMMA QueryTyped == TypeOK /\ Query => TypeOK'
<1> SUFFICES ASSUME TypeOK, Query PROVE TypeOK'
  OBVIOUS
<1> USE LoopAssumption
<1>1. CASE OutOfTime
  <2>1. GiveUp("exit_total_execution_time")
    BY <1>1 DEF OutOfTime
  <2>2. cur' \in Steps /\ pc' \in Locations
    BY <2>1, GiveUpTyped DEF Reasons
  <2> QED BY <1>1, <2>2 DEF OutOfTime, TypeOK, envVars
<1>2. CASE GoodReply
  BY <1>2 DEF GoodReply, TypeOK, Charge, Locations, envVars
<1>3. CASE BadReply
  <2>1. nFails' \in Nat /\ cur' \in Steps /\ pc' \in Locations
    BY <1>3, CountFailureTyped DEF BadReply
  <2> QED BY <1>3, <2>1 DEF BadReply, TypeOK, Charge, RecordMistake, MaybeDiff, envVars
<1>4. CASE PolicyViolation
  <2>1. nFails' \in Nat /\ cur' \in Steps /\ pc' \in Locations
    BY <1>4, CountFailureTyped DEF PolicyViolation
  <2> QED BY <1>4, <2>1 DEF PolicyViolation, TypeOK, envVars
<1>5. CASE CostExceeded
  <2>1. cur' \in Steps /\ pc' \in Locations
    BY <1>5, GiveUpTyped DEF CostExceeded, Reasons
  <2> QED BY <1>5, <2>1 DEF CostExceeded, TypeOK, Charge, envVars
<1>6. CASE QueryFails
  <2>1. cur' \in Steps /\ pc' \in Locations
    BY <1>6, GiveUpTyped DEF QueryFails, Reasons
  <2> QED BY <1>6, <2>1 DEF QueryFails, TypeOK, envVars
<1>7. CASE QueryRaises
  BY <1>7 DEF QueryRaises, TypeOK, Locations, envVars
<1> QED BY <1>1, <1>2, <1>3, <1>4, <1>5, <1>6, <1>7 DEF Query

LEMMA ExecTyped == TypeOK /\ Exec => TypeOK'
<1> SUFFICES ASSUME TypeOK, Exec PROVE TypeOK'
  OBVIOUS
<1> USE LoopAssumption
<1>1. CASE ExecExit
  <2>1. cur' \in Steps
    BY <1>1 DEF ExecExit, TypeOK, Steps, Kinds, Statuses, Failed, Reasons
  <2> QED BY <1>1, <2>1 DEF ExecExit, TypeOK, Locations, envVars
<1>2. CASE ExecSyntaxError
  <2>1. nFails' \in Nat /\ cur' \in Steps /\ pc' \in Locations
    BY <1>2, CountFailureTyped DEF ExecSyntaxError
  <2> QED BY <1>2, <2>1 DEF ExecSyntaxError, TypeOK, RecordMistake, MaybeDiff, envVars
<1>3. CASE ExecCompletes
  <2>1. PICK kind \in Kinds \ {"exit"}, t \in 0 .. ActionTimeout, w \in Diffs :
          /\ cur' = [cur EXCEPT !.kind = kind]
          /\ execTime' = execTime + t
          /\ work' = w
          /\ mpatch' = IF kind = "submit" THEN work ELSE mpatch
    BY <1>3 DEF ExecCompletes
  <2>2. cur' \in Steps /\ execTime' \in Nat /\ work' \in Diffs /\ mpatch' \in MaybeDiff
    BY <2>1 DEF TypeOK, Steps, MaybeDiff
  <2>3. nTimeouts' \in Nat /\ pc' \in Locations
    BY <1>3 DEF ExecCompletes, EndStreak, Locations
  <2> QED BY <1>3, <2>2, <2>3 DEF ExecCompletes, TypeOK
<1>4. CASE ExecTimesOut
  <2>1. nTimeouts' \in Nat /\ execTime' \in Nat /\ work' \in Diffs
    BY <1>4 DEF ExecTimesOut, TypeOK
  <2>2. cur' \in Steps /\ pc' \in Locations /\ straggler' \in BOOLEAN
    <3>1. CASE LastTimeout
      BY <1>4, <3>1, GiveUpTyped DEF ExecTimesOut, Reasons
    <3>2. CASE ~LastTimeout
      BY <1>4, <3>2 DEF ExecTimesOut, TypeOK, Locations
    <3> QED BY <3>1, <3>2
  <2> QED BY <1>4, <2>1, <2>2 DEF ExecTimesOut, TypeOK
<1>5. CASE ExecFails
  <2>1. cur' \in Steps /\ pc' \in Locations
    BY <1>5, GiveUpTyped DEF ExecFails, Reasons
  <2> QED BY <1>5, <2>1 DEF ExecFails, TypeOK
<1>6. CASE Interrupted
  <2>1. execTime' \in Nat
    BY <1>6 DEF Interrupted, TypeOK
  <2> QED BY <1>6, <2>1 DEF Interrupted, TypeOK, Locations, envVars
<1>7. CASE InterruptFails
  <2>1. cur' \in Steps /\ pc' \in Locations
    BY <1>7, GiveUpTyped DEF InterruptFails, Reasons
  <2>2. execTime' \in Nat
    BY <1>7 DEF InterruptFails, TypeOK
  <2> QED BY <1>7, <2>1, <2>2 DEF InterruptFails, TypeOK
<1> QED BY <1>1, <1>2, <1>3, <1>4, <1>5, <1>6, <1>7 DEF Exec

LEMMA StateTyped == TypeOK /\ State => TypeOK'
<1> SUFFICES ASSUME TypeOK, State PROVE TypeOK'
  OBVIOUS
<1> USE LoopAssumption
<1>1. CASE GetState
  <2>1. (IF HasDiff THEN work ELSE None) \in MaybeDiff
    BY DEF TypeOK, MaybeDiff
  <2>2. pc' \in Locations /\ cur' \in Steps /\ lastDiff' \in MaybeDiff
    BY <1>1, <2>1, DispatchTyped DEF GetState
  <2> QED BY <1>1, <2>2 DEF GetState, TypeOK, MaybeDiff
<1>2. CASE GetStateDegraded
  <2>1. \A d \in {None, 0} : d \in MaybeDiff
    BY DEF MaybeDiff, Diffs
  <2>2. pc' \in Locations /\ cur' \in Steps /\ lastDiff' \in MaybeDiff
    BY <1>2, <2>1, DispatchTyped DEF GetStateDegraded
  <2> QED BY <1>2, <2>2 DEF GetStateDegraded, TypeOK
<1>3. CASE GetStateFails
  <2>1. cur' \in Steps /\ pc' \in Locations
    BY <1>3, GiveUpTyped DEF GetStateFails, Reasons
  <2> QED BY <1>3, <2>1 DEF GetStateFails, TypeOK
<1> QED BY <1>1, <1>2, <1>3 DEF State

LEMMA SubmissionTyped == TypeOK /\ (Submission \/ Autosubmit) => TypeOK'
<1> SUFFICES ASSUME TypeOK, Submission \/ Autosubmit PROVE TypeOK'
  OBVIOUS
<1> USE LoopAssumption
<1>1. CASE \E loc \in {"submit", "collect"} : ReadPatch(loc)
  <2>1. mpatch \in Diffs /\ cur \in Steps
    BY <1>1 DEF ReadPatch, TypeOK, MaybeDiff
  <2>2. cur' \in Steps
    BY <1>1, <2>1, WithSubmissionTyped DEF ReadPatch
  <2> QED BY <1>1, <2>2 DEF ReadPatch, TypeOK, Locations, envVars
<1>2. CASE \E loc \in {"submit", "collect"} : ReadPatchFails(loc)
  <2>1. fault' \in {"none", "git", "call"} /\ pc' \in Locations
    BY <1>2 DEF ReadPatchFails, TypeOK, Locations
  <2>2. UNCHANGED <<nFails, nTimeouts, execTime, cost, cur, lastDiff, info, disk, salvaged,
                    box, work, mpatch, straggler>>
    BY <1>2, Zenon DEF ReadPatchFails
  <2> QED BY <2>1, <2>2 DEF TypeOK
<1>3. CASE RuntimeAnswers
  BY <1>3 DEF RuntimeAnswers, TypeOK, Locations, envVars
<1>4. CASE SalvageDiff
  <2>1. cur' \in Steps
    <3>1. cur \in Steps /\ lastDiff \in MaybeDiff /\ cur.exit \in Statuses
      BY DEF TypeOK, Steps
    <3>2. [submitted |-> TRUE, why |-> cur.exit.why] \in Statuses
      BY <3>1 DEF Statuses
    <3>3. (IF lastDiff = 0 THEN cur.exit ELSE [submitted |-> TRUE, why |-> cur.exit.why]) \in Statuses
      BY <3>1, <3>2
    <3> QED BY <1>4, <3>1, <3>3 DEF SalvageDiff, Steps
  <2>2. salvaged' \in BOOLEAN
    BY <1>4, Zenon DEF SalvageDiff, NonEmpty
  <2>3. pc' \in Locations /\ UNCHANGED <<nFails, nTimeouts, execTime, cost, lastDiff, info, disk,
                                        box, work, mpatch, straggler, fault>>
    BY <1>4 DEF SalvageDiff, Locations, envVars
  <2> QED BY <2>1, <2>2, <2>3 DEF TypeOK
<1>5. CASE AliveCheckRaises
  BY <1>5 DEF AliveCheckRaises, TypeOK, Locations, envVars
<1>6. CASE Export
  BY <1>6 DEF Export, TypeOK, Locations, MaybeDiff
<1>7. CASE ExportFails
  <2>1. mpatch' \in MaybeDiff
    BY <1>7 DEF ExportFails, TypeOK, MaybeDiff, Diffs
  <2> QED BY <1>7, <2>1 DEF ExportFails, TypeOK, Locations
<1> QED BY <1>1, <1>2, <1>3, <1>4, <1>5, <1>6, <1>7 DEF Submission, Autosubmit

LEMMA RecordTyped == TypeOK /\ (Record \/ RecordRaises) => TypeOK'
<1> SUFFICES ASSUME TypeOK, Record \/ RecordRaises PROVE TypeOK'
  OBVIOUS
<1>1. [sub |-> cur.sub, exit |-> cur.exit] \in [sub : MaybeDiff, exit : Statuses]
  BY DEF TypeOK, Steps
<1>2. cur.diff \in MaybeDiff /\ NewStep \in Steps
  BY NewStepTyped DEF TypeOK, Steps
<1>3. CASE Record
  BY <1>1, <1>2, <1>3 DEF Record, TypeOK, Locations, envVars
<1>4. CASE RecordRaises
  BY <1>1, <1>4 DEF RecordRaises, TypeOK, Locations
<1> QED BY <1>3, <1>4

LEMMA EnvironmentTyped == TypeOK /\ Environment => TypeOK'
  BY DEF Environment, Hang, Recover, ContainerExits, StragglerEdits, TypeOK, agentVars

\* Every variable keeps its type: the statuses, diffs and locations an agent
\* run and its environment go through are those the handlers can produce.
THEOREM TypeCorrect == Spec => []TypeOK
<1>1. TypeOK /\ [Next]_vars => TypeOK'
  <2> SUFFICES ASSUME TypeOK, [Next]_vars PROVE TypeOK'
    OBVIOUS
  <2>1. CASE Step
    BY <2>1, QueryTyped, ExecTyped, StateTyped, SubmissionTyped, RecordTyped DEF Step
  <2>2. CASE Environment
    BY <2>2, EnvironmentTyped
  <2>3. CASE UNCHANGED vars
    BY <2>3 DEF vars, agentVars, envVars, TypeOK
  <2> QED BY <2>1, <2>2, <2>3 DEF Next, Rest
<1> QED BY InitTyped, <1>1, PTL DEF Spec

-----------------------------------------------------------------------------
(* The inductive invariant *)

\* Giving up starts the final step and leaves the clocks alone.
LEMMA GiveUpInv ==
  ASSUME LoopInv, pc \notin {"done", "raised"}, NEW why \in Reasons, GiveUp(why),
         UNCHANGED <<info, disk>>, ExecBudget'
  PROVE  LoopInv'
<1>1. pc' = "alive" /\ cur'.done /\ cur'.sub = None /\ cur'.exit = Failed(why)
  BY GiveUpTyped
<1>2. why # "none"
  BY DEF Reasons
<1>3. ~cur'.exit.submitted /\ cur'.exit.why # "none"
  BY <1>1, <1>2 DEF Failed
<1>4. StatusHonest'
  BY <1>1, <1>3 DEF LoopInv, StatusHonest, HonestStatus
<1>5. disk' = [sub |-> None, exit |-> NoStatus]
  BY DEF LoopInv
<1> QED BY <1>1, <1>3, <1>4, <1>5 DEF LoopInv

LEMMA NewStepUnfinished == Unfinished(NewStep) /\ HonestStatus(NewStep)
  BY DEF Unfinished, HonestStatus, NewStep, NoStatus

\* Asking the model again starts from a fresh step.
LEMMA AgainInv ==
  ASSUME LoopInv, pc \notin {"done", "raised"}, pc' = "forward", cur' = NewStep,
         nTimeouts < MaxTimeouts, UNCHANGED <<info, disk, nTimeouts, execTime>>
  PROVE  LoopInv'
<1>1. Unfinished(cur)' /\ StatusHonest'
  BY NewStepUnfinished DEF LoopInv, StatusHonest, HonestStatus, Unfinished
<1> QED BY <1>1 DEF LoopInv, ExecBudget

LEMMA CountFailureInv ==
  ASSUME TypeOK, LoopInv, pc \in {"forward", "exec"}, CountFailure,
         UNCHANGED <<info, disk, nTimeouts, execTime>>
  PROVE  LoopInv'
<1>1. CASE pc' = "forward" /\ cur' = NewStep
  BY <1>1, AgainInv DEF LoopInv
<1>2. CASE GiveUp("exit_format")
  BY <1>2, GiveUpInv DEF LoopInv, ExecBudget, Reasons
<1> QED BY <1>1, <1>2, CountFailureTyped

\* Moving on with the same step: the obligations of the next call.
LEMMA InitInv == Init => LoopInv
<1> SUFFICES ASSUME Init PROVE LoopInv
  OBVIOUS
<1>1. Unfinished(cur) /\ HonestStatus(cur) /\ HonestStatus(info)
  BY NewStepUnfinished DEF Init, HonestStatus, NoStatus
<1> QED BY <1>1, LoopAssumption DEF Init, LoopInv, StatusHonest, ExecBudget

LEMMA QueryInv == TypeOK /\ LoopInv /\ Query => LoopInv'
<1> SUFFICES ASSUME TypeOK, LoopInv, Query PROVE LoopInv'
  OBVIOUS
<1>1. CASE OutOfTime
  BY <1>1, GiveUpInv DEF OutOfTime, Reasons, LoopInv, ExecBudget
<1>2. CASE GoodReply
  BY <1>2 DEF GoodReply, MayQuery, LoopInv, StatusHonest, ExecBudget
<1>3. CASE BadReply
  BY <1>3, CountFailureInv DEF BadReply, MayQuery
<1>4. CASE PolicyViolation
  BY <1>4, CountFailureInv DEF PolicyViolation, MayQuery
<1>5. CASE CostExceeded
  BY <1>5, GiveUpInv DEF CostExceeded, MayQuery, Reasons, LoopInv, ExecBudget
<1>6. CASE QueryFails
  BY <1>6, GiveUpInv DEF QueryFails, MayQuery, Reasons, LoopInv, ExecBudget
<1>7. CASE QueryRaises
  BY <1>7 DEF QueryRaises, MayQuery, LoopInv, StatusHonest, ExecBudget
<1> QED BY <1>1, <1>2, <1>3, <1>4, <1>5, <1>6, <1>7 DEF Query

LEMMA ExecInv == TypeOK /\ LoopInv /\ Exec => LoopInv'
<1> SUFFICES ASSUME TypeOK, LoopInv, Exec PROVE LoopInv'
  OBVIOUS
<1> USE LoopAssumption
<1>1. CASE ExecExit
  <2>1. cur'.kind = "exit" /\ cur'.done /\ cur'.exit = Failed("exit_command") /\ cur'.sub = None
    BY <1>1 DEF ExecExit, TypeOK, Steps, LoopInv, Unfinished
  <2>2. StatusHonest'
    BY <1>1, <2>1 DEF ExecExit, LoopInv, StatusHonest, HonestStatus, Failed
  <2> QED BY <1>1, <2>1, <2>2 DEF ExecExit, LoopInv, ExecBudget
<1>2. CASE ExecSyntaxError
  BY <1>2, CountFailureInv DEF ExecSyntaxError
<1>3. CASE ExecCompletes
  <2>1. PICK kind \in Kinds \ {"exit"}, t \in 0 .. ActionTimeout :
          cur' = [cur EXCEPT !.kind = kind] /\ execTime' = execTime + t
    BY <1>3 DEF ExecCompletes
  <2>2. Unfinished(cur')
    BY <1>3, <2>1 DEF ExecCompletes, LoopInv, Unfinished, TypeOK, Steps
  <2>3. StatusHonest'
    BY <1>3, <2>1, <2>2 DEF ExecCompletes, LoopInv, StatusHonest, HonestStatus, Unfinished, NoStatus
  <2>4. ExecBudget' /\ nTimeouts' < MaxTimeouts
    BY <1>3, <2>1 DEF ExecCompletes, EndStreak, LoopInv, ExecBudget, TypeOK
  <2> QED BY <1>3, <2>2, <2>3, <2>4 DEF ExecCompletes, LoopInv, Unfinished
<1>4. CASE ExecTimesOut
  <2>1. execTime' <= ExecLimit + ActionTimeout /\ ExecBudget'
    BY <1>4 DEF ExecTimesOut, LoopInv, TypeOK, ExecBudget
  <2>2. CASE LastTimeout
    <3>1. GiveUp("exit_command_timeout")
      BY <1>4, <2>2 DEF ExecTimesOut
    <3> QED BY <1>4, <2>1, <3>1, GiveUpInv DEF ExecTimesOut, Reasons
  <2>3. CASE ~LastTimeout
    <3>1. nTimeouts' < MaxTimeouts
      BY <1>4, <2>3 DEF ExecTimesOut, LastTimeout, TypeOK
    <3> QED BY <1>4, <2>1, <2>3, <3>1
            DEF ExecTimesOut, LoopInv, StatusHonest, ExecBudget
  <2> QED BY <2>2, <2>3
<1>5. CASE ExecFails
  BY <1>5, GiveUpInv DEF ExecFails, Reasons, LoopInv, ExecBudget
<1>6. CASE Interrupted
  <2>1. ExecBudget'
    BY <1>6 DEF Interrupted, LoopInv, ExecBudget, TypeOK
  <2> QED BY <1>6, <2>1 DEF Interrupted, LoopInv, StatusHonest
<1>7. CASE InterruptFails
  <2>1. ExecBudget'
    BY <1>7 DEF InterruptFails, LoopInv, ExecBudget, TypeOK
  <2> QED BY <1>7, <2>1, GiveUpInv DEF InterruptFails, Reasons
<1> QED BY <1>1, <1>2, <1>3, <1>4, <1>5, <1>6, <1>7 DEF Exec

LEMMA DispatchInv ==
  ASSUME TypeOK, LoopInv, pc = "state", NEW d \in MaybeDiff, Dispatch(d),
         UNCHANGED <<info, disk, nTimeouts, execTime>>
  PROVE  LoopInv'
<1>0. cur.kind \in Kinds /\ cur \in Steps /\ nTimeouts < MaxTimeouts
  BY DEF TypeOK, Steps, LoopInv
<1>1. CASE cur.kind \in {"retry", "retry_silent"}
  <2>1. pc' = "forward" /\ cur' = NewStep
    BY <1>1 DEF Dispatch
  <2> QED BY <1>0, <2>1, AgainInv
<1>2. CASE cur.kind = "forfeit"
  <2>1. GiveUp("exit_forfeit")
    BY <1>2 DEF Dispatch
  <2> QED BY <2>1, GiveUpInv DEF Reasons, LoopInv, ExecBudget
<1>3. CASE cur.kind \in {"submit", "marker", "plain", "exit"}
  <2>1. /\ cur' = [cur EXCEPT !.diff = d]
        /\ pc' = IF cur.kind \in {"submit", "marker"} THEN "submit" ELSE "record"
    BY <1>3 DEF Dispatch
  <2>2. cur'.done = cur.done /\ cur'.exit = cur.exit /\ cur'.sub = cur.sub
    BY <1>0, <2>1 DEF Steps
  <2>3. Unfinished(cur) \/ (cur.kind = "exit" /\ cur.done /\ cur.exit # NoStatus)
    BY DEF LoopInv, Failed, NoStatus
  <2>4. StatusHonest'
    BY <2>1, <2>2 DEF LoopInv, StatusHonest, HonestStatus
  <2> QED BY <1>0, <1>3, <2>1, <2>2, <2>3, <2>4 DEF LoopInv, Unfinished, ExecBudget
<1> QED BY <1>0, <1>1, <1>2, <1>3 DEF Kinds

LEMMA StateInv == TypeOK /\ LoopInv /\ State => LoopInv'
<1> SUFFICES ASSUME TypeOK, LoopInv, State PROVE LoopInv'
  OBVIOUS
<1> USE LoopAssumption
<1>1. CASE GetState
  <2>1. (IF HasDiff THEN work ELSE None) \in MaybeDiff
    BY DEF TypeOK, MaybeDiff
  <2> QED BY <1>1, <2>1, DispatchInv DEF GetState
<1>2. CASE GetStateDegraded
  <2>1. \A d \in {None, 0} : d \in MaybeDiff
    BY DEF MaybeDiff, Diffs
  <2> QED BY <1>2, <2>1, DispatchInv DEF GetStateDegraded
<1>3. CASE GetStateFails
  BY <1>3, GiveUpInv DEF GetStateFails, Reasons, LoopInv, ExecBudget
<1> QED BY <1>1, <1>2, <1>3 DEF State

\* handle_submission ends the run with a status that tells the truth.
LEMMA WithSubmissionHonest ==
  ASSUME NEW step \in Steps, NEW p \in Diffs, step.exit.submitted => step.exit = NoStatus \/ step.exit.why = "none"
  PROVE  LET new == WithSubmission(step, p)
         IN new.done /\ new.exit # NoStatus /\ HonestStatus(new)
<1> DEFINE new == WithSubmission(step, p)
<1>1. /\ new.done
      /\ new.sub = IF p = 0 THEN None ELSE p
      /\ new.exit = IF step.exit = NoStatus THEN Submitted
                    ELSE IF p = 0 THEN step.exit
                    ELSE [submitted |-> TRUE, why |-> step.exit.why]
  BY DEF WithSubmission, Steps
<1>2. p = 0 \/ NonEmpty(new.sub)
  BY <1>1 DEF NonEmpty, Diffs, None
<1>3. CASE step.exit = NoStatus
  BY <1>1, <1>3 DEF Submitted, NoStatus, HonestStatus
<1>4. CASE step.exit # NoStatus /\ p = 0
  BY <1>1, <1>4 DEF HonestStatus, NoStatus
<1>5. CASE step.exit # NoStatus /\ p # 0
  BY <1>1, <1>2, <1>5 DEF HonestStatus, NoStatus
<1> QED BY <1>3, <1>4, <1>5

LEMMA SubmissionInv == TypeOK /\ LoopInv /\ Submission => LoopInv'
<1> SUFFICES ASSUME TypeOK, LoopInv, NEW loc \in {"submit", "collect"},
                    ReadPatch(loc) \/ ReadPatchFails(loc)
             PROVE  LoopInv'
  BY DEF Submission
<1>0. cur \in Steps
  BY DEF TypeOK
<1>1. CASE ReadPatch(loc)
  <2>1. mpatch \in Diffs /\ cur.exit.submitted = FALSE
    <3>1. cur.exit \in Statuses
      BY <1>0 DEF Steps
    <3>2. ~cur.exit.submitted
      BY <1>1 DEF ReadPatch, LoopInv, Unfinished, NoStatus
    <3> QED BY <1>1, <3>1, <3>2 DEF ReadPatch, TypeOK, MaybeDiff, Statuses
  <2>2. cur'.done /\ cur'.exit # NoStatus /\ HonestStatus(cur')
    BY <1>0, <1>1, <2>1, WithSubmissionHonest DEF ReadPatch
  <2>3. pc' = "record" /\ pc # "done" /\ UNCHANGED <<info, disk, nTimeouts, execTime>>
    BY <1>1 DEF ReadPatch
  <2>4. StatusHonest'
    BY <2>2, <2>3 DEF LoopInv, StatusHonest, HonestStatus
  <2> QED BY <2>2, <2>3, <2>4 DEF LoopInv, ExecBudget
<1>2. CASE ReadPatchFails(loc)
  <2>1. pc = loc /\ pc' = "record" /\ UNCHANGED <<cur, info, disk, nTimeouts, execTime>>
    BY <1>2 DEF ReadPatchFails
  <2>2. Unfinished(cur) \/ (cur.done /\ cur.exit # NoStatus)
    BY <2>1 DEF LoopInv, NoStatus
  <2>3. cur.done \/ nTimeouts < MaxTimeouts
    BY <2>1 DEF LoopInv
  <2> QED BY <2>1, <2>2, <2>3 DEF LoopInv, StatusHonest, HonestStatus, ExecBudget, Unfinished
<1> QED BY <1>1, <1>2

LEMMA AutosubmitInv == TypeOK /\ LoopInv /\ Autosubmit => LoopInv'
<1> SUFFICES ASSUME TypeOK, LoopInv, Autosubmit PROVE LoopInv'
  OBVIOUS
<1>1. CASE RuntimeAnswers
  BY <1>1 DEF RuntimeAnswers, LoopInv, StatusHonest, ExecBudget
<1>2. CASE SalvageDiff
  <2>0. cur \in Steps /\ cur.exit \in Statuses /\ lastDiff \in MaybeDiff
    BY DEF TypeOK, Steps
  <2>1. cur.done /\ ~cur.exit.submitted /\ cur.exit.why # "none" /\ cur.exit # NoStatus
    BY <1>2 DEF SalvageDiff, LoopInv, NoStatus
  <2>2. cur'.done /\ cur'.exit # NoStatus /\ HonestStatus(cur')
    <3>1. CASE lastDiff = None
      BY <1>2, <2>1, <3>1 DEF SalvageDiff, HonestStatus
    <3>2. CASE lastDiff # None
      <4>1. /\ cur'.done = cur.done /\ cur'.sub = lastDiff
            /\ cur'.exit = IF lastDiff = 0 THEN cur.exit
                           ELSE [submitted |-> TRUE, why |-> cur.exit.why]
        BY <1>2, <2>0, <3>2 DEF SalvageDiff, Steps
      <4> QED BY <2>0, <2>1, <3>2, <4>1 DEF HonestStatus, NonEmpty, NoStatus
    <3> QED BY <3>1, <3>2
  <2>3. StatusHonest'
    BY <1>2, <2>2 DEF SalvageDiff, LoopInv, StatusHonest, HonestStatus
  <2>4. pc' = "record" /\ pc # "done" /\ UNCHANGED <<info, disk, nTimeouts, execTime>>
    BY <1>2, Zenon DEF SalvageDiff
  <2> QED BY <2>2, <2>3, <2>4 DEF LoopInv, ExecBudget
<1>3. CASE AliveCheckRaises
  BY <1>3 DEF AliveCheckRaises, LoopInv, StatusHonest, ExecBudget
<1>4. CASE Export
  BY <1>4 DEF Export, LoopInv, StatusHonest, ExecBudget
<1>5. CASE ExportFails
  BY <1>5 DEF ExportFails, LoopInv, StatusHonest, ExecBudget
<1> QED BY <1>1, <1>2, <1>3, <1>4, <1>5 DEF Autosubmit

LEMMA RecordInv == TypeOK /\ LoopInv /\ (Record \/ RecordRaises) => LoopInv'
<1> SUFFICES ASSUME TypeOK, LoopInv, Record \/ RecordRaises PROVE LoopInv'
  OBVIOUS
<1> DEFINE entry == [sub |-> cur.sub, exit |-> cur.exit]
<1>0. /\ pc = "record" /\ (Unfinished(cur) \/ (cur.done /\ cur.exit # NoStatus))
      /\ HonestStatus(cur) /\ HonestStatus(entry)
      /\ entry.sub = cur.sub /\ entry.exit = cur.exit
  BY DEF Record, RecordRaises, LoopInv, StatusHonest, HonestStatus
<1>1. CASE Record
  <2>1. info' = entry /\ disk' = entry /\ cur' = NewStep /\ nTimeouts' = nTimeouts
        /\ execTime' = execTime /\ pc' = IF cur.done THEN "done" ELSE "forward"
    BY <1>1 DEF Record, envVars
  <2>2. StatusHonest'
    BY <1>0, <2>1, NewStepUnfinished DEF StatusHonest, HonestStatus, Unfinished
  <2>3. CASE cur.done
    BY <1>0, <2>1, <2>2, <2>3 DEF LoopInv, ExecBudget
  <2>4. CASE ~cur.done
    <3>1. entry = [sub |-> None, exit |-> NoStatus] /\ nTimeouts < MaxTimeouts
      BY <1>0, <2>4 DEF LoopInv, Unfinished
    <3> QED BY <2>1, <2>2, <2>4, <3>1, NewStepUnfinished DEF LoopInv, ExecBudget, Unfinished
  <2> QED BY <2>3, <2>4
<1>2. CASE RecordRaises
  BY <1>0, <1>2 DEF RecordRaises, LoopInv, StatusHonest, HonestStatus, ExecBudget
<1> QED BY <1>1, <1>2

LEMMA EnvironmentInv == LoopInv /\ (Environment \/ UNCHANGED vars) => LoopInv'
  BY DEF Environment, Hang, Recover, ContainerExits, StragglerEdits, vars, agentVars,
         LoopInv, Unfinished, StatusHonest, HonestStatus, ExecBudget

LEMMA StepInv == TypeOK /\ LoopInv /\ [Next]_vars => LoopInv'
  BY QueryInv, ExecInv, StateInv, SubmissionInv, AutosubmitInv, RecordInv, EnvironmentInv
  DEF Next, Step, Rest

\* The inductive invariant holds of every reachable state.
THEOREM Invariant == Spec => []LoopInv
<1>1. Spec => []TypeOK
  BY TypeCorrect
<1> QED BY InitInv, StepInv, <1>1, PTL DEF Spec

\* handle_submission, the salvage of an old diff and forward_with_handling never
\* announce a submission that is not there, and no run ends without a status.
THEOREM HonestVerdict == Spec => []StatusHonest
<1>1. LoopInv => StatusHonest
  BY DEF LoopInv
<1> QED BY Invariant, <1>1, PTL

\* max_consecutive_execution_timeouts is never exceeded, for any such limit.
THEOREM TimeoutsBounded == Spec => []TimeoutStreak
<1>1. LoopInv => TimeoutStreak
  BY DEF LoopInv, TimeoutStreak
<1> QED BY Invariant, <1>1, PTL

\* The commands of a run last at most the limit of forward() and one command more.
THEOREM TimeBounded == Spec => []ExecBudget
<1>1. LoopInv => ExecBudget
  BY DEF LoopInv
<1> QED BY Invariant, <1>1, PTL

-----------------------------------------------------------------------------
(* What is submitted *)

\* While no call has failed and no command was left running, the runtime answers and
\* model.patch holds the tree's diff at each call but those between an action and the
\* state command that follows it; the step made from it submits the tree of that
\* moment.  A failing git of the export leaves that diff or an empty one.
Clean == HasRepo /\ HasDiff /\ fault # "call" /\ ~straggler
Current(r) == \/ r.sub = IF r.exit = Failed("exit_command") \/ work = 0 THEN None ELSE work
              \/ fault = "git" /\ r.sub = None
CurrentInv ==
  Clean =>
    /\ box = "alive" /\ mpatch # None
    /\ pc \in {"forward", "exec", "submit", "alive", "export"} => mpatch = work
    /\ pc = "record" /\ ~cur.done => mpatch = work
    /\ pc = "collect" => mpatch = work \/ (fault = "git" /\ mpatch = 0)
    /\ pc \in {"alive", "export", "collect"} => cur.exit # Failed("exit_command")
    /\ pc = "record" /\ cur.done => Current(cur)
    /\ pc = "done" => Current(info)
    /\ fault = "git" => pc \in {"collect", "record", "done", "raised"}
    /\ fault = "git" /\ pc = "record" => cur.done

\* A handler that gives up for another reason than "exit" may still submit.
LEMMA GiveUpCurrent ==
  ASSUME CurrentInv, NEW why \in Reasons \ {"exit_command"}, GiveUp(why), UNCHANGED box,
         Clean' => Clean /\ mpatch' # None /\ mpatch' = work' /\ fault' # "git"
  PROVE  CurrentInv'
<1>1. pc' = "alive" /\ cur'.exit = Failed(why)
  BY GiveUpTyped
<1>2. Failed(why) # Failed("exit_command")
  BY DEF Failed
<1> QED BY <1>1, <1>2 DEF CurrentInv

LEMMA CountFailureCurrent ==
  ASSUME TypeOK, CurrentInv, CountFailure, pc \in {"forward", "exec"}, UNCHANGED envVars
  PROVE  CurrentInv'
<1>1. Clean' => Clean /\ mpatch' # None /\ mpatch' = work' /\ fault' # "git"
  BY DEF Clean, CurrentInv, envVars
<1>2. CASE pc' = "forward"
  BY <1>1, <1>2 DEF CurrentInv, envVars
<1>3. CASE GiveUp("exit_format")
  BY <1>1, <1>3, GiveUpCurrent DEF Reasons, envVars
<1> QED BY <1>2, <1>3, CountFailureTyped

LEMMA QueryCurrent == TypeOK /\ CurrentInv /\ Query => CurrentInv'
<1> SUFFICES ASSUME TypeOK, CurrentInv, Query PROVE CurrentInv'
  OBVIOUS
<1>0. UNCHANGED envVars
  BY DEF Query, OutOfTime, GoodReply, BadReply, PolicyViolation, CostExceeded, QueryFails,
         QueryRaises
<1>1. /\ pc = "forward" /\ UNCHANGED <<box, work, mpatch, fault>>
      /\ Clean' => Clean /\ mpatch' # None /\ mpatch' = work' /\ fault' # "git"
  <2>1. pc = "forward"
    BY DEF Query, OutOfTime, GoodReply, BadReply, PolicyViolation, CostExceeded, QueryFails,
           QueryRaises, MayQuery
  <2> QED BY <1>0, <2>1 DEF Clean, CurrentInv, envVars
<1>2. CASE GoodReply \/ QueryRaises
  BY <1>1, <1>2 DEF GoodReply, QueryRaises, CurrentInv
<1>3. CASE BadReply \/ PolicyViolation
  BY <1>0, <1>1, <1>3, CountFailureCurrent DEF BadReply, PolicyViolation
<1>4. CASE OutOfTime \/ CostExceeded \/ QueryFails
  <2>1. \E why \in {"exit_total_execution_time", "exit_cost", "exit_context", "exit_error"} :
           GiveUp(why)
    BY <1>4 DEF OutOfTime, CostExceeded, QueryFails
  <2> QED BY <1>1, <2>1, GiveUpCurrent DEF Reasons
<1> QED BY <1>2, <1>3, <1>4 DEF Query

\* Running the action: no patch is read here, and a timed-out command that is
\* left running or a call that fails ends the obligation.
LEMMA ExecCurrent == TypeOK /\ CurrentInv /\ Exec => CurrentInv'
<1> SUFFICES ASSUME TypeOK, CurrentInv, Exec PROVE CurrentInv'
  OBVIOUS
<1>1. CASE ExecExit \/ Interrupted
  BY <1>1 DEF ExecExit, Interrupted, CurrentInv, Clean, envVars
<1>2. CASE ExecSyntaxError
  BY <1>2, CountFailureCurrent DEF ExecSyntaxError, envVars
<1>3. CASE ExecCompletes
  <2>1. mpatch' \in {mpatch, work} /\ work # None
    BY <1>3, LoopAssumption DEF ExecCompletes, TypeOK, Diffs, None
  <2> QED BY <1>3, <2>1 DEF ExecCompletes, CurrentInv, Clean
<1>4. CASE ExecTimesOut
  <2>1. straggler' = TRUE \/ (pc' = "interrupt" /\ UNCHANGED straggler)
    BY <1>4 DEF ExecTimesOut
  <2> QED BY <1>4, <2>1 DEF ExecTimesOut, CurrentInv, Clean
<1>5. CASE ExecFails \/ InterruptFails
  BY <1>5 DEF ExecFails, InterruptFails, CurrentInv, Clean
<1> QED BY <1>1, <1>2, <1>3, <1>4, <1>5 DEF Exec

\* Only GetState keeps the run clean: it writes the patch it reports, so the
\* submission that follows reads the tree of that moment.
LEMMA StateCurrent == TypeOK /\ LoopInv /\ CurrentInv /\ State => CurrentInv'
<1> SUFFICES ASSUME TypeOK, LoopInv, CurrentInv, State PROVE CurrentInv'
  OBVIOUS
<1>1. CASE GetState
  <2> DEFINE d == IF HasDiff THEN work ELSE None
  <2>1. /\ pc = "state" /\ Dispatch(d)
        /\ mpatch' = IF HasDiff THEN work ELSE mpatch
        /\ UNCHANGED <<box, work, straggler, fault>>
    BY <1>1 DEF GetState
  <2>2. (Clean' => Clean /\ mpatch' = work') /\ work # None
    BY <2>1, LoopAssumption DEF Clean, TypeOK, Diffs, None
  <2>3. cur.kind \in Kinds /\ cur \in Steps
    BY DEF TypeOK, Steps
  <2>4. CASE cur.kind \in {"retry", "retry_silent"}
    <3>1. pc' = "forward"
      BY <2>1, <2>4 DEF Dispatch
    <3> QED BY <2>1, <2>2, <3>1 DEF CurrentInv
  <2>5. CASE cur.kind = "forfeit"
    <3>1. GiveUp("exit_forfeit")
      BY <2>1, <2>5 DEF Dispatch
    <3>2. Clean' => Clean /\ mpatch' # None /\ mpatch' = work' /\ fault' # "git"
      BY <2>1, <2>2 DEF CurrentInv
    <3> QED BY <2>1, <3>1, <3>2, GiveUpCurrent DEF Reasons
  <2>6. CASE cur.kind \in {"submit", "marker"}
    <3>1. pc' = "submit"
      BY <2>1, <2>6 DEF Dispatch
    <3> QED BY <2>1, <2>2, <3>1 DEF CurrentInv
  <2>7. CASE cur.kind \in {"plain", "exit"}
    <3>1. pc' = "record" /\ cur' = [cur EXCEPT !.diff = d]
      BY <2>1, <2>7 DEF Dispatch
    <3>2. cur'.done = cur.done /\ cur'.sub = cur.sub /\ cur'.exit = cur.exit
      BY <2>3, <3>1 DEF Steps
    <3>3. cur'.done => Current(cur)'
      BY <2>1, <3>2 DEF LoopInv, Unfinished, Current
    <3>4. Clean' => fault' # "git"
      BY <2>1, <2>2 DEF CurrentInv
    <3> QED BY <2>1, <2>2, <3>1, <3>3, <3>4 DEF CurrentInv
  <2> QED BY <2>3, <2>4, <2>5, <2>6, <2>7 DEF Kinds
<1>2. CASE GetStateDegraded \/ GetStateFails
  BY <1>2 DEF GetStateDegraded, GetStateFails, CurrentInv, Clean
<1> QED BY <1>1, <1>2 DEF State

\* handle_submission turns the patch of the tree into the tree's submission.
LEMMA SubmissionCurrent == TypeOK /\ LoopInv /\ CurrentInv /\ Submission => CurrentInv'
<1> SUFFICES ASSUME TypeOK, LoopInv, CurrentInv, NEW loc \in {"submit", "collect"},
                    ReadPatch(loc) \/ ReadPatchFails(loc)
             PROVE  CurrentInv'
  BY DEF Submission
<1>1. CASE ReadPatch(loc)
  <2> SUFFICES ASSUME Clean' PROVE CurrentInv'
    BY DEF CurrentInv
  <2>1. pc = loc /\ pc' = "record" /\ cur' = WithSubmission(cur, mpatch) /\ UNCHANGED envVars
    BY <1>1 DEF ReadPatch
  <2>2. Clean
    BY <2>1 DEF Clean, envVars
  <2>3. (mpatch = work \/ (fault = "git" /\ mpatch = 0)) /\ cur \in Steps
    BY <2>1, <2>2 DEF CurrentInv, TypeOK
  <2>4. cur.exit # Failed("exit_command")
    BY <2>1, <2>2 DEF CurrentInv, LoopInv, Unfinished, Failed, NoStatus
  <2>5. /\ cur'.sub = (IF mpatch = 0 THEN None ELSE mpatch) /\ cur'.done
        /\ cur'.exit = IF cur.exit = NoStatus THEN Submitted
                       ELSE IF mpatch = 0 THEN cur.exit
                       ELSE [submitted |-> TRUE, why |-> cur.exit.why]
    BY <2>1, <2>3 DEF WithSubmission, Steps
  <2>6. cur'.exit # Failed("exit_command")
    BY <2>4, <2>5 DEF Submitted, Failed
  <2>7. Current(cur)'
    BY <2>1, <2>3, <2>5, <2>6 DEF Current, envVars
  <2> QED BY <2>1, <2>2, <2>5, <2>7 DEF CurrentInv, envVars
<1>2. CASE ReadPatchFails(loc)
  BY <1>2 DEF ReadPatchFails, CurrentInv, Clean
<1> QED BY <1>1, <1>2

\* The autosubmission exports the tree before it reads the patch, and takes an
\* old diff only from a runtime that is gone.
LEMMA AutosubmitCurrent == TypeOK /\ CurrentInv /\ Autosubmit => CurrentInv'
<1> SUFFICES ASSUME TypeOK, CurrentInv, Autosubmit PROVE CurrentInv'
  OBVIOUS
<1>1. CASE RuntimeAnswers \/ AliveCheckRaises
  BY <1>1 DEF RuntimeAnswers, AliveCheckRaises, CurrentInv, Clean, envVars
<1>2. CASE SalvageDiff
  <2>1. ~Clean
    BY <1>2 DEF SalvageDiff, CurrentInv
  <2> QED BY <1>2, <2>1 DEF SalvageDiff, CurrentInv, Clean, envVars
<1>3. CASE Export
  <2>1. work # None
    BY LoopAssumption DEF TypeOK, Diffs, None
  <2> QED BY <1>3, <2>1 DEF Export, CurrentInv, Clean
<1>4. CASE ExportFails
  <2>1. work # None
    BY LoopAssumption DEF TypeOK, Diffs, None
  <2>2. Clean' => Clean /\ mpatch = work /\ fault' = "git" /\ mpatch' \in {work, 0}
    <3>1. fault \in {"none", "git", "call"}
      BY DEF TypeOK
    <3>2. Clean' => Clean
      BY <1>4 DEF ExportFails, Clean
    <3> QED BY <1>4, <3>1, <3>2 DEF ExportFails, CurrentInv, Clean
  <2> QED BY <1>4, <2>1, <2>2 DEF ExportFails, CurrentInv, None
<1> QED BY <1>1, <1>2, <1>3, <1>4 DEF Autosubmit

LEMMA RecordCurrent == CurrentInv /\ (Record \/ RecordRaises) => CurrentInv'
<1> SUFFICES ASSUME CurrentInv, Record \/ RecordRaises PROVE CurrentInv'
  OBVIOUS
<1>1. CASE Record
  <2>1. info'.sub = cur.sub /\ info'.exit = cur.exit
    BY <1>1 DEF Record
  <2>2. pc = "record" /\ UNCHANGED envVars /\ pc' = IF cur.done THEN "done" ELSE "forward"
    BY <1>1 DEF Record
  <2> QED BY <2>1, <2>2 DEF CurrentInv, Current, Clean, envVars
<1>2. CASE RecordRaises
  BY <1>2 DEF RecordRaises, CurrentInv, Clean
<1> QED BY <1>1, <1>2

LEMMA EnvironmentCurrent == CurrentInv /\ (Environment \/ UNCHANGED vars) => CurrentInv'
  BY DEF Environment, Hang, Recover, ContainerExits, StragglerEdits, vars, agentVars, envVars,
         CurrentInv, Clean, Current

\* A run without a fault submits the tree it leaves behind, whichever handler
\* ended it and however many times the tree was edited after a patch was
\* written: each path to handle_submission writes model.patch anew.
THEOREM SubmitsTheTree == Spec => []SubmissionIsCurrent
<1>1. Init => CurrentInv
  BY DEF Init, CurrentInv, Clean, None
<1>2. TypeOK /\ LoopInv /\ CurrentInv /\ [Next]_vars => CurrentInv'
  BY QueryCurrent, ExecCurrent, StateCurrent, SubmissionCurrent, AutosubmitCurrent,
     RecordCurrent, EnvironmentCurrent
  DEF Next, Step, Rest
<1>3. CurrentInv => SubmissionIsCurrent
  BY DEF CurrentInv, Clean, Current, SubmissionIsCurrent
<1>4. Spec => []TypeOK /\ []LoopInv
  BY TypeCorrect, Invariant
<1> QED BY <1>1, <1>2, <1>3, <1>4, PTL DEF Spec

-----------------------------------------------------------------------------
(* Refinement of AgentContract *)

\* A step that neither ends the run nor writes the file is a step of the
\* contract that leaves the file alone.
LEMMA QuietStep ==
  ASSUME pc \notin {"done", "raised"}, pc' \notin {"done", "raised"}, UNCHANGED disk
  PROVE  Contract!Progress
  BY DEF Contract!Progress, Contract!contractVars

LEMMA RaisingStep ==
  ASSUME pc \notin {"done", "raised"}, pc' = "raised", UNCHANGED disk
  PROVE  Contract!Abort
  BY DEF Contract!Abort

\* The bookkeeping of step(): a final step is Finish, any other leaves no verdict.
LEMMA RecordRefines == TypeOK /\ LoopInv /\ Record => Contract!Next
<1> SUFFICES ASSUME TypeOK, LoopInv, Record PROVE Contract!Next
  OBVIOUS
<1> DEFINE entry == [sub |-> cur.sub, exit |-> cur.exit]
<1>1. /\ pc = "record" /\ disk' = entry /\ pc' = IF cur.done THEN "done" ELSE "forward"
      /\ entry.sub = cur.sub /\ entry.exit = cur.exit
  BY DEF Record
<1>2. cur.sub \in MaybeDiff /\ cur.exit \in Statuses
  BY DEF TypeOK, Steps
<1>3. CASE cur.done
  <2>1. cur.exit # NoStatus /\ HonestStatus(cur)
    BY <1>1, <1>3 DEF LoopInv, Unfinished, StatusHonest
  <2>2. Contract!Honest(cur.exit, cur.sub)
    BY <2>1 DEF Contract!Honest, Contract!Unset, NoStatus, HonestStatus, NonEmpty
  <2>3. Contract!Finish(cur.exit, cur.sub)
    BY <1>1, <1>3, <2>2 DEF Contract!Finish
  <2>4. cur.exit \in Contract!Statuses /\ cur.sub \in 1 .. MaxWork \cup {None, 0}
    BY <1>2, LoopAssumption DEF Contract!Statuses, Statuses, MaybeDiff, Diffs
  <2> QED BY <2>3, <2>4 DEF Contract!Next
<1>4. CASE ~cur.done
  <2>1. entry = [sub |-> None, exit |-> NoStatus] /\ disk = [sub |-> None, exit |-> NoStatus]
    BY <1>1, <1>4 DEF LoopInv, Unfinished
  <2>2. Contract!Progress
    BY <1>1, <1>4, <2>1, QuietStep
  <2> QED BY <2>2 DEF Contract!Next
<1> QED BY <1>3, <1>4

LEMMA NextRefines == TypeOK /\ LoopInv /\ [Next]_vars => [Contract!Next]_Contract!contractVars
<1> SUFFICES ASSUME TypeOK, LoopInv, [Next]_vars
             PROVE  Contract!Next \/ UNCHANGED Contract!contractVars
  OBVIOUS
<1>0. ASSUME Query \/ Exec \/ State \/ Submission \/ Autosubmit
      PROVE  pc \notin {"done", "raised"} /\ pc' # "done" /\ UNCHANGED disk
  <2>1. CASE Query
    BY <2>1 DEF Query, OutOfTime, GoodReply, BadReply, PolicyViolation, CostExceeded, QueryFails,
                QueryRaises, MayQuery, CountFailure, GiveUp
  <2>2. CASE Exec
    BY <2>2 DEF Exec, ExecExit, ExecSyntaxError, ExecCompletes, ExecTimesOut, ExecFails,
                Interrupted, InterruptFails, CountFailure, GiveUp
  <2>3. CASE State
    <3>1. \A d : Dispatch(d) => pc' # "done"
      <4> SUFFICES ASSUME NEW d, Dispatch(d) PROVE pc' # "done"
        OBVIOUS
      <4>1. cur.kind \in Kinds
        BY DEF TypeOK, Steps
      <4> QED BY <4>1, Zenon DEF Dispatch, Kinds, GiveUp
    <3> QED BY <2>3, <3>1 DEF State, GetState, GetStateDegraded, GetStateFails, GiveUp
  <2>4. CASE Submission
    BY <2>4 DEF Submission, ReadPatch, ReadPatchFails
  <2>5. CASE Autosubmit
    BY <2>5 DEF Autosubmit, RuntimeAnswers, SalvageDiff, AliveCheckRaises, Export, ExportFails
  <2> QED BY <1>0, <2>1, <2>2, <2>3, <2>4, <2>5
<1>1. CASE Query \/ Exec \/ State \/ Submission \/ Autosubmit
  BY <1>0, <1>1, QuietStep, RaisingStep DEF Contract!Next

<1>2. CASE Record
  BY <1>2, RecordRefines
<1>3. CASE RecordRaises
  <2>1. Contract!Abort
    BY <1>3, RaisingStep DEF RecordRaises
  <2> QED BY <2>1 DEF Contract!Next
<1>4. CASE Environment \/ UNCHANGED vars
  <2>1. UNCHANGED <<pc, disk>>
    BY <1>4 DEF Environment, Hang, Recover, ContainerExits, StragglerEdits, agentVars, vars
  <2> QED BY <2>1 DEF Contract!contractVars
<1> QED BY <1>1, <1>2, <1>3, <1>4 DEF Next, Step, Rest

\* The trajectory file of a run shows no verdict before the step that ends the
\* run, then one honest verdict for good: what should_skip relies on.
THEOREM ImplementsContract == Spec => KeepsContract
<1>1. Init => Contract!Init
  BY DEF Init, Contract!Init, Contract!Unset, NoStatus
<1>2. Spec => []TypeOK /\ []LoopInv
  BY TypeCorrect, Invariant
<1> QED BY <1>1, <1>2, NextRefines, PTL DEF Spec, KeepsContract, Contract!Spec
=============================================================================
