----------------------------- MODULE SingleRun -----------------------------
(***************************************************************************)
(* A single run (sweagent/run/run_single.py) with its hooks                *)
(* (hooks/apply_patch.py, hooks/open_pr.py), the trajectory it leaves, and *)
(* the replay of that trajectory (run_replay.py, run_traj_to_demo.py,      *)
(* ReplayModel in agent/models.py).                                        *)
(*                                                                         *)
(* Data: the agent's actions are numbered; Submit is the submission.  An   *)
(* entry of the history is an action, a demonstration's action, or what a  *)
(* step that ended in an error leaves: its message, without a tool call.   *)
(***************************************************************************)
EXTENDS Integers, Sequences, FiniteSets, SequencesExt, Lists

CONSTANTS
  MaxActions,    \* bound: actions of the recorded run
  MaxRequeries   \* max_requeries of the agent

ASSUME SingleRunAssumption == MaxActions \in Nat /\ MaxRequeries \in Nat \ {0}

VARIABLES
  settings,  \* parser, demonstrations, where the repository is, which actions are wanted
  stage,     \* where RunSingle.run is
  story,     \* assistant entries of the agent's history
  ran,       \* actions the recorded run has executed
  traj,      \* the entries in the .traj file, and whether it is whole
  outcome,   \* submission and exit status
  outputs,   \* what the run has written or opened
  replay,    \* where the replay is, its source, its requeries
  script,    \* entries that the replay model issues
  next,      \* _action_idx
  reran      \* actions the replay has executed

recordVars == <<settings, stage, story, ran, traj, outcome, outputs>>
replayVars == <<replay, script, next, reran>>
singleRunVars == <<recordVars, replayVars>>

Submit == 0
Demo == -1
Entries(kind, n) == [kind |-> kind, n |-> n]
DemoEntry == Entries("demo", Demo)
ErrorEntry == Entries("error", 0)

SingleRunInit ==
  /\ settings \in [parser : {"calls", "blocks", "whole"}, demos : BOOLEAN,
                   repo : {"local", "github"}, apply : BOOLEAN, openPr : BOOLEAN]
  /\ stage = "start" /\ ran = <<>> /\ outputs = {}
  /\ story = IF settings.demos THEN <<DemoEntry>> ELSE <<>>
  /\ traj = [entries |-> <<>>, whole |-> FALSE]
  /\ outcome = [submission |-> FALSE, status |-> "none"]
  /\ replay = [at |-> "off", demo |-> FALSE, fails |-> 0]
  /\ script = <<>> /\ next = 1 /\ reran = <<>>

-----------------------------------------------------------------------------
(* RunSingle.run *)

RunGoes(from, to) == stage = from /\ stage' = to /\ UNCHANGED replayVars

\* What raises, the agent's setup included, leaves the environment open and the
\* predictions unsaved.
RunRaises ==
  /\ \/ stage \in {"start", "completed", "applied", "saved"}
     \/ stage = "agent" /\ ran = <<>>
  /\ RunGoes(stage, "raised")
  /\ UNCHANGED <<settings, story, ran, traj, outcome, outputs>>

EnvironmentStarts ==
  /\ RunGoes("start", "agent") /\ outputs' = outputs \cup {"config"}
  /\ UNCHANGED <<settings, story, ran, traj, outcome>>

\* A step executes its action; a retry token in the output makes the agent query
\* again, and the action is in no history.
RunsAction(n) ==
  /\ stage = "agent" /\ ran' = Append(ran, n)
  /\ \/ /\ story' = Append(story, Entries("action", n))
        /\ stage' = IF n = Submit THEN "last step" ELSE "step"
        /\ outcome' = IF n = Submit THEN [submission |-> TRUE, status |-> "submitted"] ELSE outcome
     \/ n # Submit /\ UNCHANGED <<story, stage, outcome>>
  /\ UNCHANGED <<settings, traj, outputs, replayVars>>

ActionRuns ==
  \/ Len(ran) < MaxActions /\ RunsAction(Len(ran) + 1)
  \/ RunsAction(Submit)

\* An error ends the agent: its message is the last entry, and the diff is submitted
\* if there is one.
AgentFails ==
  /\ RunGoes("agent", "last step") /\ story' = Append(story, ErrorEntry)
  /\ \E submission \in BOOLEAN :
       outcome' = [submission |-> submission,
                   status |-> IF submission THEN "submitted (exit)" ELSE "exit"]
  /\ UNCHANGED <<settings, ran, traj, outputs>>

\* The trajectory is written after every step; a kill in between may tear it.
SavesTrajectory ==
  /\ \/ RunGoes("step", "agent") \/ RunGoes("last step", "completed")
  /\ traj' = [entries |-> story, whole |-> TRUE]
  /\ UNCHANGED <<settings, story, ran, outcome, outputs>>

RunKilled ==
  /\ stage \notin {"closed", "raised", "killed"} /\ RunGoes(stage, "killed")
  /\ traj' \in {traj} \cup {[traj EXCEPT !.whole = FALSE] : t \in {stage} \cap {"step", "last step"}}
  /\ UNCHANGED <<settings, story, ran, outcome, outputs>>

\* SaveApplyPatchHook: the patch is saved, and applied when it is promising and the
\* repository is a local one; an application that fails is logged.
IsPromising == outcome.submission /\ outcome.status = "submitted"
MayApply == settings.apply /\ IsPromising /\ settings.repo = "local"

SavesPatch ==
  /\ RunGoes("completed", "applied")
  /\ \E applied \in BOOLEAN :
       outputs' = outputs \cup (IF outcome.submission THEN {"patch"} ELSE {})
                          \cup (IF MayApply /\ applied THEN {"applied"} ELSE {})
  /\ UNCHANGED <<settings, story, ran, traj, outcome>>

\* OpenPRHook: the issue has to be open, unassigned, unlocked and without commits.
\* The commit is made in the session, and nobody looks whether the push worked.
ShouldOpenPr(issue) == settings.openPr /\ IsPromising /\ issue = "free"
OpensPullRequest ==
  /\ RunGoes("applied", "saved")
  /\ \E issue \in {"free", "taken"} :
       outputs' = outputs \cup (IF ShouldOpenPr(issue) THEN {"pull request"} ELSE {})
  /\ UNCHANGED <<settings, story, ran, traj, outcome>>

SavesPredictions ==
  /\ RunGoes("saved", "predicted") /\ outputs' = outputs \cup {"prediction"}
  /\ UNCHANGED <<settings, story, ran, traj, outcome>>
ClosesEnvironment ==
  /\ RunGoes("predicted", "closed")
  /\ UNCHANGED <<settings, story, ran, traj, outcome, outputs>>

-----------------------------------------------------------------------------
(* RunReplay *)

ReplayGoes(how, s, k, done) ==
  /\ replay' = how /\ script' = s /\ next' = k /\ reran' = done
  /\ UNCHANGED recordVars

\* convert_traj_to_action_demo leaves the demonstrations out.
CopiedEntriesMutant(entries) == entries
CopiedEntries(entries) == Filtered(entries, {e \in ToSet(entries) : e.kind # "demo"})

\* _create_actions_file: an entry without a tool call is refused by a parser of tool
\* calls; so is a trajectory without actions, or one that cannot be read.
ActionsFile(demo) == IF demo THEN CopiedEntries(traj.entries) ELSE traj.entries
Refused(s) ==
  \/ ~traj.whole \/ s = <<>>
  \/ settings.parser = "calls" /\ \E i \in DOMAIN s : s[i].kind = "error"

BeginReplay ==
  /\ stage \in {"closed", "raised", "killed"} /\ replay.at = "off"
  /\ \E demo \in BOOLEAN :
       LET s == ActionsFile(demo)
           at == IF Refused(s) THEN "refused" ELSE "agent"
       IN ReplayGoes([at |-> at, demo |-> demo, fails |-> 0], s, 1, <<>>)

\* ReplayModel.query: after the last action it submits.
ActionIndexMutant == next + 1
ActionIndex == next
Replayed ==
  IF ActionIndex <= Len(script) THEN script[ActionIndex] ELSE Entries("action", Submit)

\* The agent of the replay: a message without an action is asked for again, and the
\* model goes on to the next one.
ReplayAgain ==
  /\ replay.at = "agent" /\ Replayed.kind = "error" /\ settings.parser = "blocks"
  /\ ReplayGoes([replay EXCEPT !.fails = @ + 1,
                               !.at = IF @ = "agent" /\ replay.fails + 1 = MaxRequeries
                                      THEN "exit" ELSE @],
                script, next + 1, reran)

ReplayRuns ==
  /\ replay.at = "agent" /\ ~(Replayed.kind = "error" /\ settings.parser = "blocks")
  /\ LET action == IF Replayed.kind = "error" THEN Demo ELSE Replayed.n
     IN \/ ReplayGoes([replay EXCEPT !.fails = 0,
                                     !.at = IF action = Submit THEN "done" ELSE @],
                      script, next + 1, Append(reran, action))
        \* a retry token
        \/ action # Submit /\ ReplayGoes(replay, script, next + 1, Append(reran, action))

\* The environment of the replay fails.
ReplayFails ==
  replay.at = "agent" /\ ReplayGoes([replay EXCEPT !.at = "exit"], script, next, reran)

SingleRunNext ==
  \/ EnvironmentStarts \/ ActionRuns \/ AgentFails \/ SavesTrajectory
  \/ SavesPatch \/ OpensPullRequest \/ SavesPredictions \/ ClosesEnvironment
  \/ RunRaises \/ RunKilled
  \/ BeginReplay \/ ReplayAgain \/ ReplayRuns \/ ReplayFails

SingleRunSpec == SingleRunInit /\ [][SingleRunNext]_singleRunVars

-----------------------------------------------------------------------------
(* Properties *)

\* Actions of the run that are in its history.
Recorded == Filtered(ran, {n \in ToSet(ran) : Contains(story, Entries("action", n))})

\* A replay that comes to its end has executed what the run had executed and recorded
\* up to its last saved step, in that order and nothing else, and then submits; this
\* holds for demonstrations in the history too when the trajectory was converted.
ReplayRepeats ==
  replay.at = "done" /\ (replay.demo \/ ~settings.demos) /\ settings.parser # "whole" =>
    LET known == Cardinality({i \in DOMAIN traj.entries : traj.entries[i].kind = "action"})
        all == SubSeq(Recorded, 1, known)
    IN /\ reran = IF Contains(all, Submit) THEN all ELSE Append(all, Submit)
       /\ known >= Len(Recorded) - 1
=============================================================================
