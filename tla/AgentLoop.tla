------------------------------ MODULE AgentLoop -----------------------------
(***************************************************************************)
(* DefaultAgent (sweagent/agent/agents.py): the loop that queries the      *)
(* model, runs the proposed action in the environment, requeries after a   *)
(* malformed reply and turns every other error into an autosubmission.     *)
(*                                                                         *)
(* The agent is sequential; what interleaves with it is its environment,   *)
(* which may stop answering, exit or come back between any two calls, and  *)
(* a timed-out command that nobody interrupted.  pc names the call the     *)
(* agent makes next, so that the environment can move before it.           *)
(*                                                                         *)
(* A repository diff is a number: 0 is the empty diff, 1..MaxWork are      *)
(* distinct patches and None is Python's None or a missing file or key.    *)
(***************************************************************************)
EXTENDS Integers

CONSTANTS
  MaxRequeries,   \* DefaultAgentConfig.max_requeries
  MaxTimeouts,    \* ToolConfig.max_consecutive_execution_timeouts
  ExecLimit,      \* the 5 h that forward() compares _total_execution_time with
  ActionTimeout,  \* the 1.5 h that handle_action gives one command
  InterruptTime,  \* the most an interrupt of the session can take
  CostLimit,      \* per_instance_cost_limit in calls, 0 for no limit
  MaxWork,        \* number of distinct non-empty diffs
  HasRepo,        \* the environment was configured with a repository
  HasDiff         \* the diff_state bundle is among the tools

ASSUME LoopAssumption ==
  /\ MaxRequeries \in Nat \ {0}
  /\ MaxTimeouts \in Nat \ {0}
  /\ ExecLimit \in Nat
  /\ ActionTimeout \in Nat \ {0}
  /\ InterruptTime \in Nat
  /\ CostLimit \in Nat
  /\ MaxWork \in Nat \ {0}
  /\ HasRepo \in BOOLEAN
  /\ HasDiff \in BOOLEAN

VARIABLES
  pc,          \* the call the agent makes next
  nFails,      \* n_format_fails of the current step
  nTimeouts,   \* _n_consecutive_timeouts
  execTime,    \* _total_execution_time
  cost,        \* model.stats.instance_cost, one unit per answered query
  cur,         \* the StepOutput under construction
  lastDiff,    \* trajectory[-1]["state"]["diff"], None without one
  info,        \* AgentInfo: submission and exit status
  disk,        \* the same two fields of the trajectory file
  salvaged,    \* ghost: a diff of the trajectory stands in for a dead runtime
  box,         \* the runtime: "alive", "hung" (no answer) or "exited"
  work,        \* the working tree's diff
  mpatch,      \* the content of /root/model.patch
  straggler,   \* ghost: a timed-out command was left running in the shell
  fault        \* ghost: what has failed: "none", "git" for the export only, or "call"

agentVars == <<pc, nFails, nTimeouts, execTime, cost, cur, lastDiff, info, disk, salvaged>>
envVars == <<box, work, mpatch, straggler, fault>>
vars == <<agentVars, envVars>>

-----------------------------------------------------------------------------
(* Values *)

None == -1
Diffs == 0 .. MaxWork
MaybeDiff == Diffs \cup {None}
NonEmpty(d) == d \notin {None, 0}

Reasons == {"exit_command", "exit_forfeit", "exit_total_execution_time",
            "exit_command_timeout", "exit_context", "exit_cost",
            "exit_environment_error", "exit_error", "exit_format"}
NoStatus == [submitted |-> FALSE, why |-> "none"]
Submitted == [submitted |-> TRUE, why |-> "none"]
Failed(why) == [submitted |-> FALSE, why |-> why]
Statuses == [submitted : BOOLEAN, why : Reasons \cup {"none"}]

\* What an executed command's observation tells the agent: nothing, the
\* submission marker printed by the submit tool or by something else, one of
\* the two retry tokens, the forfeit token; "exit" is the action that is not run.
Kinds == {"plain", "submit", "marker", "retry", "retry_silent", "forfeit", "exit"}

Steps == [kind : Kinds, diff : MaybeDiff, sub : MaybeDiff, exit : Statuses, done : BOOLEAN]
NewStep == [kind |-> "plain", diff |-> None, sub |-> None, exit |-> NoStatus, done |-> FALSE]

Locations == {"forward", "exec", "interrupt", "state", "submit",
              "alive", "export", "collect", "record", "done", "raised"}

TypeOK ==
  /\ pc \in Locations
  /\ nFails \in Nat
  /\ nTimeouts \in Nat
  /\ execTime \in Nat
  /\ cost \in Nat
  /\ cur \in Steps
  /\ lastDiff \in MaybeDiff
  /\ info \in [sub : MaybeDiff, exit : Statuses]
  /\ disk \in [sub : MaybeDiff, exit : Statuses]
  /\ salvaged \in BOOLEAN
  /\ box \in {"alive", "hung", "exited"}
  /\ work \in Diffs
  /\ mpatch \in MaybeDiff
  /\ straggler \in BOOLEAN
  /\ fault \in {"none", "git", "call"}

Init ==
  /\ pc = "forward" /\ nFails = 0 /\ nTimeouts = 0 /\ execTime = 0 /\ cost = 0
  /\ cur = NewStep
  /\ lastDiff = None
  /\ info = [sub |-> None, exit |-> NoStatus]
  /\ disk = [sub |-> None, exit |-> NoStatus]
  /\ salvaged = FALSE
  /\ box = "alive" /\ work = 0 /\ straggler = FALSE /\ fault = "none"
  /\ mpatch = IF HasDiff THEN 0 ELSE None   \* setup() ran the state commands

-----------------------------------------------------------------------------
(* The handlers of forward_with_handling *)

\* handle_error_with_autosubmission: a fresh, final step with this exit status.
GiveUp(why) ==
  /\ cur' = [NewStep EXCEPT !.exit = Failed(why), !.done = TRUE]
  /\ pc' = "alive"

\* One more failure of the current step; the loop's condition decides whether
\* the model is asked again or the run ends with exit_format.
CountFailure ==
  /\ nFails' = nFails + 1
  /\ IF nFails + 1 < MaxRequeries
     THEN pc' = "forward" /\ cur' = NewStep
     ELSE GiveUp("exit_format")

\* handle_error_with_retry: the failed step, with the state it carries, joins
\* the trajectory.
RecordMistake(d) == lastDiff' = d

\* LiteLLMModel._update_stats adds the price of an answered query, then compares.
ChargeMutant == UNCHANGED cost
Charge == cost' = cost + 1
OverCost == 0 < CostLimit /\ CostLimit < cost + 1

-----------------------------------------------------------------------------
(* forward: query the model and parse its reply *)

OutOfTime ==
  /\ pc = "forward" /\ execTime > ExecLimit
  /\ GiveUp("exit_total_execution_time")
  /\ UNCHANGED <<nFails, nTimeouts, execTime, cost, lastDiff, info, disk, salvaged, envVars>>

MayQueryMutant == pc = "forward"
MayQuery == pc = "forward" /\ execTime <= ExecLimit

\* The reply can be parsed and is not blocked.
GoodReply ==
  /\ MayQuery /\ ~OverCost
  /\ Charge
  /\ pc' = "exec"
  /\ UNCHANGED <<nFails, nTimeouts, execTime, cur, lastDiff, info, disk, salvaged, envVars>>

\* FormatError from parse_actions or _BlockedActionError from handle_action.
BadReply ==
  /\ MayQuery /\ ~OverCost
  /\ Charge
  /\ RecordMistake(None)
  /\ CountFailure
  /\ UNCHANGED <<nTimeouts, execTime, info, disk, salvaged, envVars>>

\* ContentPolicyViolationError: nothing is charged and nothing is recorded.
PolicyViolation ==
  /\ MayQuery
  /\ CountFailure
  /\ UNCHANGED <<nTimeouts, execTime, cost, lastDiff, info, disk, salvaged, envVars>>

\* The instance limit is checked after the price of the query was added.
CostExceeded ==
  /\ MayQuery /\ OverCost
  /\ Charge
  /\ GiveUp("exit_cost")
  /\ UNCHANGED <<nFails, nTimeouts, execTime, lastDiff, info, disk, salvaged, envVars>>

\* A prompt that is too long, or an API error that outlived the retries of
\* LiteLLMModel.query (reraise=True hands back the original exception).
QueryFails ==
  /\ MayQuery
  /\ \E why \in {"exit_context", "exit_error"} : GiveUp(why)
  /\ UNCHANGED <<nFails, nTimeouts, execTime, cost, lastDiff, info, disk, salvaged, envVars>>

\* TotalCostLimitExceededError, KeyboardInterrupt and EOFError leave the run.
QueryRaises ==
  /\ MayQuery
  /\ pc' = "raised"
  /\ UNCHANGED <<nFails, nTimeouts, execTime, cost, cur, lastDiff, info, disk, salvaged, envVars>>

-----------------------------------------------------------------------------
(* handle_action: run the action in the shell session *)

ExecExit ==
  /\ pc = "exec"
  /\ cur' = [cur EXCEPT !.kind = "exit", !.exit = Failed("exit_command"), !.done = TRUE]
  /\ pc' = "state"
  /\ UNCHANGED <<nFails, nTimeouts, execTime, cost, lastDiff, info, disk, salvaged, envVars>>

\* bash -n rejects the action before anything runs.
ExecSyntaxError ==
  /\ pc = "exec" /\ box = "alive"
  /\ RecordMistake(None)
  /\ CountFailure
  /\ UNCHANGED <<nTimeouts, execTime, cost, info, disk, salvaged, envVars>>

\* A command that ends in time ends the streak of timeouts.
EndStreakMutant == nTimeouts' = nTimeouts - 1
EndStreak == nTimeouts' = 0

\* The timeout being handled is the last of the allowed ones.
LastTimeoutMutant == nTimeouts + 1 > MaxTimeouts
LastTimeout == nTimeouts + 1 >= MaxTimeouts

\* The submit tool stages the tree and writes model.patch; any other command
\* may edit the tree, or print the submission marker without submitting.
ExecCompletes ==
  /\ pc = "exec" /\ box = "alive"
  /\ \E kind \in Kinds \ {"exit"}, t \in 0 .. ActionTimeout, w \in Diffs :
       /\ kind = "plain" \/ w = work
       /\ cur' = [cur EXCEPT !.kind = kind]
       /\ execTime' = execTime + t
       /\ work' = w
       /\ mpatch' = IF kind = "submit" THEN work ELSE mpatch
  /\ EndStreak
  /\ pc' = "state"
  /\ UNCHANGED <<nFails, cost, lastDiff, info, disk, salvaged, box, straggler, fault>>

\* CommandTimeoutError: the last of the allowed timeouts ends the run without
\* interrupting the command, an earlier one interrupts the session.
ExecTimesOut ==
  /\ pc = "exec" /\ box = "alive"
  /\ nTimeouts' = nTimeouts + 1
  /\ execTime' = execTime + ActionTimeout
  /\ \E w \in Diffs : work' = w
  /\ IF LastTimeout
     THEN GiveUp("exit_command_timeout") /\ straggler' = TRUE
     ELSE pc' = "interrupt" /\ UNCHANGED <<cur, straggler>>
  /\ UNCHANGED <<nFails, cost, lastDiff, info, disk, salvaged, box, mpatch, fault>>

\* The runtime does not answer, or its session is gone.
ExecFails ==
  /\ pc = "exec"
  /\ \E why \in {"exit_environment_error", "exit_error"} : GiveUp(why)
  /\ fault' = "call"
  /\ UNCHANGED <<nFails, nTimeouts, execTime, cost, lastDiff, info, disk, salvaged,
                 box, work, mpatch, straggler>>

Interrupted ==
  /\ pc = "interrupt" /\ box = "alive"
  /\ pc' = "state"
  /\ \E t \in 0 .. InterruptTime : execTime' = execTime + t
  /\ UNCHANGED <<nFails, nTimeouts, cost, cur, lastDiff, info, disk, salvaged, envVars>>

InterruptFails ==
  /\ pc = "interrupt"
  /\ GiveUp("exit_error")
  /\ straggler' = TRUE /\ fault' = "call"
  /\ \E t \in 0 .. InterruptTime : execTime' = execTime + t
  /\ UNCHANGED <<nFails, nTimeouts, cost, lastDiff, info, disk, salvaged,
                 box, work, mpatch>>

-----------------------------------------------------------------------------
(* tools.get_state, then the tokens in the observation *)

\* What handle_action does with the observation once the state is d.
Dispatch(d) ==
  CASE cur.kind = "retry" ->
         RecordMistake(d) /\ pc' = "forward" /\ cur' = NewStep
    [] cur.kind = "retry_silent" ->
         pc' = "forward" /\ cur' = NewStep /\ UNCHANGED lastDiff
    [] cur.kind = "forfeit" ->
         GiveUp("exit_forfeit") /\ UNCHANGED lastDiff
    [] cur.kind \in {"submit", "marker"} ->
         pc' = "submit" /\ cur' = [cur EXCEPT !.diff = d] /\ UNCHANGED lastDiff
    [] cur.kind \in {"plain", "exit"} ->
         pc' = "record" /\ cur' = [cur EXCEPT !.diff = d] /\ UNCHANGED lastDiff

\* The diff_state bundle stages the tree, rewrites model.patch and reports it.
GetStateMutant ==
  /\ pc = "state" /\ box = "alive"
  /\ mpatch' = mpatch
  /\ Dispatch(IF HasDiff THEN work ELSE None)
  /\ UNCHANGED <<nFails, nTimeouts, execTime, cost, info, disk, salvaged,
                 box, work, straggler, fault>>
GetState ==
  /\ pc = "state" /\ box = "alive"
  /\ mpatch' = IF HasDiff THEN work ELSE mpatch
  /\ Dispatch(IF HasDiff THEN work ELSE None)
  /\ UNCHANGED <<nFails, nTimeouts, execTime, cost, info, disk, salvaged,
                 box, work, straggler, fault>>

\* A failing state script reports the empty diff, a missing or empty
\* /root/state.json is the empty state.
GetStateDegraded ==
  /\ pc = "state" /\ box = "alive" /\ HasDiff
  /\ \E d \in {None, 0} : Dispatch(d)
  /\ fault' = "call"
  /\ UNCHANGED <<nFails, nTimeouts, execTime, cost, info, disk, salvaged,
                 box, work, mpatch, straggler>>

\* A state command that times out is a CommandTimeoutError like any other.
GetStateFails ==
  /\ pc = "state"
  /\ \E why \in {"exit_command_timeout", "exit_environment_error", "exit_error"} : GiveUp(why)
  /\ fault' = "call"
  /\ UNCHANGED <<nFails, nTimeouts, execTime, cost, lastDiff, info, disk, salvaged,
                 box, work, mpatch, straggler>>

-----------------------------------------------------------------------------
(* handle_submission *)

\* The step after /root/model.patch was read with content p.
WithSubmissionMutantA(step, p) ==
  [step EXCEPT !.sub = IF p = 0 THEN None ELSE p,
               !.exit = [submitted |-> TRUE, why |-> step.exit.why],
               !.done = TRUE]
WithSubmissionMutantB(step, p) ==
  [step EXCEPT !.sub = IF p = 0 THEN None ELSE p,
               !.exit = IF step.exit = NoStatus THEN Submitted
                        ELSE [submitted |-> p # 0, why |-> step.exit.why]]
WithSubmission(step, p) ==
  [step EXCEPT !.sub = IF p = 0 THEN None ELSE p,
               !.exit = IF step.exit = NoStatus THEN Submitted
                        ELSE IF p = 0 THEN step.exit
                        ELSE [submitted |-> TRUE, why |-> step.exit.why],
               !.done = TRUE]

ReadPatch(loc) ==
  /\ pc = loc /\ box = "alive" /\ mpatch # None
  /\ cur' = WithSubmission(cur, mpatch)
  /\ pc' = "record"
  /\ UNCHANGED <<nFails, nTimeouts, execTime, cost, lastDiff, info, disk, salvaged, envVars>>

\* FileNotFoundError or any other failure: the step stays as it was.
ReadPatchFails(loc) ==
  /\ pc = loc
  /\ pc' = "record"
  /\ fault' = IF mpatch = None THEN fault ELSE "call"
  /\ UNCHANGED <<nFails, nTimeouts, execTime, cost, cur, lastDiff, info, disk, salvaged,
                 box, work, mpatch, straggler>>

-----------------------------------------------------------------------------
(* attempt_autosubmission_after_error *)

RuntimeAnswers ==
  /\ pc = "alive" /\ box = "alive"
  /\ pc' = "export"
  /\ UNCHANGED <<nFails, nTimeouts, execTime, cost, cur, lastDiff, info, disk, salvaged, envVars>>

\* is_alive is False: take the diff of the last trajectory step, if any.
SalvageDiff ==
  /\ pc = "alive" /\ box = "hung"
  /\ pc' = "record"
  /\ IF lastDiff = None
     THEN UNCHANGED cur
     ELSE cur' = [cur EXCEPT !.sub = lastDiff,
                             !.exit = IF lastDiff = 0 THEN @
                                      ELSE [submitted |-> TRUE, why |-> @.why]]
  /\ salvaged' = NonEmpty(lastDiff)
  /\ UNCHANGED <<nFails, nTimeouts, execTime, cost, lastDiff, info, disk, envVars>>

\* DockerDeployment.is_alive raises for a container that has terminated.
AliveCheckRaises ==
  /\ pc = "alive" /\ box = "exited"
  /\ pc' = "raised"
  /\ UNCHANGED <<nFails, nTimeouts, execTime, cost, cur, lastDiff, info, disk, salvaged, envVars>>

\* git add -A && git diff --cached > /root/model.patch, in the repository.
Export ==
  /\ pc = "export" /\ box = "alive" /\ HasRepo
  /\ mpatch' = work
  /\ pc' = "collect"
  /\ UNCHANGED <<nFails, nTimeouts, execTime, cost, cur, lastDiff, info, disk, salvaged,
                 box, work, straggler, fault>>

\* The failure is logged and model.patch is used as it is: that of the last state
\* command when git add fails, an empty one when git diff does, the tree's when only
\* the answer is lost.
ExportFails ==
  /\ pc = "export"
  /\ pc' = "collect"
  /\ mpatch' \in IF box = "alive" /\ HasRepo THEN {mpatch, 0, work} ELSE {mpatch}
  /\ fault' = IF fault = "none" THEN "git" ELSE fault
  /\ UNCHANGED <<nFails, nTimeouts, execTime, cost, cur, lastDiff, info, disk, salvaged,
                 box, work, straggler>>

-----------------------------------------------------------------------------
(* step and run: bookkeeping after forward_with_handling *)

\* _get_edited_files_with_context reads every file the submission edits.
NeedsFiles == HasRepo /\ NonEmpty(cur.sub)

Record ==
  /\ pc = "record"
  /\ NeedsFiles => box = "alive"
  /\ info' = [sub |-> cur.sub, exit |-> cur.exit]
  /\ lastDiff' = cur.diff
  /\ disk' = info'                      \* save_trajectory
  /\ pc' = IF cur.done THEN "done" ELSE "forward"
  /\ cur' = NewStep
  /\ nFails' = 0
  /\ UNCHANGED <<nTimeouts, execTime, cost, salvaged, envVars>>

\* Reading an edited file fails (no runtime, a file that is not UTF-8): the
\* exception leaves step() after info was set and before the trajectory grew.
RecordRaises ==
  /\ pc = "record" /\ NeedsFiles
  /\ info' = [sub |-> cur.sub, exit |-> cur.exit]
  /\ pc' = "raised"
  /\ fault' = "call"
  /\ UNCHANGED <<nFails, nTimeouts, execTime, cost, cur, lastDiff, disk, salvaged,
                 box, work, mpatch, straggler>>

-----------------------------------------------------------------------------
(* The environment *)

Hang == box = "alive" /\ box' = "hung" /\ fault' = "call"
        /\ UNCHANGED <<agentVars, work, mpatch, straggler>>
Recover == box = "hung" /\ box' = "alive"
           /\ UNCHANGED <<agentVars, work, mpatch, straggler, fault>>
ContainerExits == box # "exited" /\ box' = "exited" /\ fault' = "call"
                  /\ UNCHANGED <<agentVars, work, mpatch, straggler>>

\* The command that was left running goes on editing the tree.
StragglerEdits ==
  /\ straggler /\ box # "exited"
  /\ \E w \in Diffs \ {work} : work' = w
  /\ UNCHANGED <<agentVars, box, mpatch, straggler, fault>>

-----------------------------------------------------------------------------

Query == OutOfTime \/ GoodReply \/ BadReply \/ PolicyViolation
         \/ CostExceeded \/ QueryFails \/ QueryRaises
Exec == ExecExit \/ ExecSyntaxError \/ ExecCompletes \/ ExecTimesOut \/ ExecFails
        \/ Interrupted \/ InterruptFails
State == GetState \/ GetStateDegraded \/ GetStateFails
Submission == \E loc \in {"submit", "collect"} : ReadPatch(loc) \/ ReadPatchFails(loc)
Autosubmit == RuntimeAnswers \/ SalvageDiff \/ AliveCheckRaises \/ Export \/ ExportFails
Step == Query \/ Exec \/ State \/ Submission \/ Autosubmit \/ Record \/ RecordRaises

Environment == Hang \/ Recover \/ ContainerExits \/ StragglerEdits

Ended == pc \in {"done", "raised"}
Rest == Ended /\ UNCHANGED vars     \* run() has returned or raised

Next == Step \/ (~Ended /\ Environment) \/ Rest

Spec == Init /\ [][Next]_vars

\* The agent thread is never preempted for ever; its environment may stay as
\* it is.  Every call it makes has a client timeout, so a call always returns.
FairSpec == Spec /\ WF_vars(Step)

-----------------------------------------------------------------------------
(* Properties *)

\* A verdict names a submission only when there is one: "submitted (reason)"
\* comes with a non-empty patch, and a finished run always has an exit status.
\* handle_submission and the salvage of an old diff both edit these fields.
HonestStatus(r) == r.exit.submitted /\ r.exit.why # "none" => NonEmpty(r.sub)
StatusHonest ==
  /\ pc = "done" => info.exit # NoStatus
  /\ HonestStatus(cur)
  /\ HonestStatus(info)

\* The agent never starts another query or command once
\* max_consecutive_execution_timeouts commands in a row have timed out,
\* whatever malformed replies and retries lie between them.
TimeoutStreak == pc \in {"forward", "exec", "interrupt", "state"} => nTimeouts < MaxTimeouts

\* forward() checks the clock before a query only, yet the commands of a run
\* can overrun the limit by no more than the last one and its interrupt, also when
\* a step asks the model again and again.
ExecBudget == execTime <= ExecLimit + ActionTimeout + InterruptTime

\* The inductive strengthening of the three: what the step under construction
\* can look like at each call, and that nothing but a final step is on disk.
Unfinished(step) == ~step.done /\ step.exit = NoStatus /\ step.sub = None
LoopInv ==
  /\ pc \in {"forward", "exec", "interrupt", "submit"} => Unfinished(cur)
  /\ pc = "state" =>
       \/ Unfinished(cur)
       \/ cur.kind = "exit" /\ cur.done /\ cur.sub = None /\ cur.exit = Failed("exit_command")
  /\ pc \in {"alive", "export", "collect"} =>
       cur.done /\ cur.sub = None /\ ~cur.exit.submitted /\ cur.exit.why # "none"
  /\ pc = "record" => Unfinished(cur) \/ (cur.done /\ cur.exit # NoStatus)
  /\ pc \in {"forward", "exec", "interrupt", "state", "submit"} \/ (pc = "record" /\ ~cur.done)
       => nTimeouts < MaxTimeouts
  /\ pc = "exec" => execTime <= ExecLimit
  /\ pc = "interrupt" => execTime <= ExecLimit + ActionTimeout
  /\ ExecBudget
  /\ StatusHonest
  /\ disk = IF pc = "done" THEN info ELSE [sub |-> None, exit |-> NoStatus]

\* What a run without a failing call submits is the tree it leaves behind, neither a
\* patch written before a later edit nor an older model.patch.  When only the git of
\* the export fails it submits that tree or nothing.  "exit" submits nothing, and
\* without the diff_state bundle a printed marker can submit an old file.
SubmissionIsCurrent ==
  pc = "done" /\ HasRepo /\ HasDiff /\ fault # "call" /\ ~straggler
    => \/ info.sub = IF info.exit = Failed("exit_command") \/ work = 0 THEN None ELSE work
       \/ fault = "git" /\ info.sub = None

\* The trajectory file keeps the promise of AgentContract.
Contract == INSTANCE AgentContract
  WITH Patches <- 1 .. MaxWork, Nothing <- None, Blank <- 0,
       phase <- IF pc = "raised" THEN "aborted" ELSE IF pc = "done" THEN "done" ELSE "running",
       shown <- [exit |-> disk.exit, sub |-> disk.sub]
KeepsContract == Contract!Spec

\* With a cost limit a run always ends.  The retry tokens of a tool requery the
\* model without counting a format failure, so only the cost bounds that loop.
Terminates == CostLimit > 0 => <>Ended

\* attempt_autosubmission_after_error takes the last recorded diff so that a
\* dead environment still yields a submission: the run should then record it.
SalvageIsRecorded == pc = "raised" => ~salvaged
=============================================================================
