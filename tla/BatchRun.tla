------------------------------ MODULE BatchRun ------------------------------
(***************************************************************************)
(* RunBatch (sweagent/run/run_batch.py): a pool of worker threads runs one *)
(* agent per instance and leaves <id>.traj and <id>.pred behind; main()    *)
(* merges the predictions when every thread has ended.  The process may be *)
(* killed at any point and launched again on the same output directory,    *)
(* where should_skip decides from the trajectory file what is left to do.  *)
(*                                                                         *)
(* Instances are 1..N in the order of the list.  A file written by         *)
(* write_text is torn (truncated) until the write ends.  The content of a  *)
(* trajectory or prediction is the number of the attempt that wrote it.    *)
(***************************************************************************)
EXTENDS Integers, FiniteSets

CONSTANTS
  N,           \* number of instances
  MaxWorkers,  \* the largest num_workers a launch may ask for
  MaxSessions  \* bound: launches of the program

ASSUME BatchAssumption ==
  /\ N \in Nat \ {0}
  /\ MaxWorkers \in Nat \ {0}
  /\ MaxSessions \in Nat \ {0}

VARIABLES
  session,   \* launches so far
  opts,      \* num_workers, redo_existing and raise_exceptions of this launch
  main,      \* where the main thread is
  job,       \* where run_instance is, per instance
  outcome,   \* how agent.run or env.start left, for a job past it
  attempt,   \* number of times the instance was really run
  traj,      \* the trajectory file
  pred,      \* the prediction file
  merged,    \* preds.json: the attempt merged per instance, 0 for none
  lost       \* ghost: instances whose verdict was written and prediction not

procVars == <<session, opts, main>>
jobVars == <<job, outcome, attempt>>
diskVars == <<traj, pred, merged>>
vars == <<procVars, jobVars, diskVars, lost>>

Instances == 1 .. N
Workers == IF opts.workers < N THEN opts.workers ELSE N

-----------------------------------------------------------------------------
(* Values *)

NotStarted == {"idle", "queued", "cancelled"}
Active == {"checking", "starting", "running", "saving", "closing",
           "predicting", "writing", "hooks"}
Over == {"skipped", "finished", "broke", "raised"}
Outcomes == {"none", "ok", "error", "stop", "interrupt"}
Up == {"looping", "draining", "failing", "merging"}

Options == [workers : 1 .. MaxWorkers, redo : BOOLEAN, raising : BOOLEAN]

Missing == [state |-> "missing", attempt |-> 0]
Torn == [state |-> "torn", attempt |-> 0]
Open == [state |-> "open", attempt |-> 0]           \* no exit status yet
Final(n) == [state |-> "final", attempt |-> n]
IsFinal(f) == f.state = "final"

TypeOK ==
  /\ session \in 0 .. MaxSessions
  /\ opts \in Options
  /\ main \in Up \cup {"down", "done", "failed"}
  /\ job \in [Instances -> NotStarted \cup Active \cup Over]
  /\ outcome \in [Instances -> Outcomes]
  /\ attempt \in [Instances -> 0 .. MaxSessions]
  /\ traj \in [Instances -> {Missing, Torn, Open} \cup {Final(n) : n \in 1 .. MaxSessions}]
  /\ pred \in [Instances -> {Missing, Torn} \cup {Final(n) : n \in 1 .. MaxSessions}]
  /\ merged \in [Instances -> 0 .. MaxSessions]
  /\ lost \subseteq Instances

Init ==
  /\ session = 0 /\ main = "down"
  /\ opts = [workers |-> 1, redo |-> FALSE, raising |-> FALSE]
  /\ job = [i \in Instances |-> "idle"]
  /\ outcome = [i \in Instances |-> "none"]
  /\ attempt = [i \in Instances |-> 0]
  /\ traj = [i \in Instances |-> Missing]
  /\ pred = [i \in Instances |-> Missing]
  /\ merged = [i \in Instances |-> 0]
  /\ lost = {}

In(state) == {i \in Instances : job[i] \in state}

Move(i, from, to) == job[i] = from /\ job' = [job EXCEPT ![i] = to]

-----------------------------------------------------------------------------
(* The process *)

Launch ==
  /\ main \in {"down", "done", "failed"} /\ session < MaxSessions
  /\ session' = session + 1
  /\ opts' \in Options
  /\ main' = "looping"
  /\ job' = [i \in Instances |-> "queued"]
  /\ outcome' = [i \in Instances |-> "none"]
  /\ UNCHANGED <<attempt, diskVars, lost>>

\* Instances between the final save of the trajectory and the end of the
\* write of the prediction.
Unpredicted == {i \in Instances : outcome[i] = "ok" /\ job[i] \in {"closing", "predicting", "writing"}}

Crash ==
  /\ main \in Up
  /\ main' = "down"
  /\ job' = [i \in Instances |-> "idle"]
  /\ outcome' = [i \in Instances |-> "none"]
  /\ lost' = lost \cup Unpredicted
  /\ UNCHANGED <<session, opts, attempt, diskVars>>

-----------------------------------------------------------------------------
(* The main thread: main_single_worker, main_multi_worker, main *)

CancelQueuedMutant == UNCHANGED job
CancelQueued == job' = [i \in Instances |-> IF job[i] = "queued" THEN "cancelled" ELSE job[i]]

\* _BreakLoop reaches the main thread, or the user interrupts its wait:
\* break, respectively executor.shutdown(cancel_futures=True).
StopLoop ==
  /\ main = "looping"
  /\ In({"broke"}) # {} \/ Workers > 1
  /\ main' = "draining"
  /\ CancelQueued
  /\ UNCHANGED <<session, opts, outcome, attempt, diskVars, lost>>

\* Any other exception leaves the loop.  With a pool nothing is cancelled: the
\* executor's exit waits for running and queued instances alike.
LoopRaises ==
  /\ main = "looping" /\ In({"raised"}) # {}
  /\ main' = "failing"
  /\ IF Workers = 1 THEN CancelQueued ELSE UNCHANGED job
  /\ UNCHANGED <<session, opts, outcome, attempt, diskVars, lost>>

\* The pool has been joined.
AllEndedMutantA == In(Active) = {} \/ main = "draining"
AllEndedMutantB == \A i \in Instances : job[i] \in Over
AllEnded == In({"queued"} \cup Active) = {}

Joined ==
  /\ AllEnded
  /\ \/ main = "looping" /\ In({"broke", "raised"}) = {} /\ main' = "merging"
     \/ main = "draining" /\ main' = "merging"
     \/ main = "failing" /\ main' = "failed"
  /\ UNCHANGED <<session, opts, jobVars, diskVars, lost>>

\* merge_predictions: without predictions no file is written, and one that is
\* not JSON raises.
Merge ==
  /\ main = "merging"
  /\ IF \E i \in Instances : pred[i] = Torn
     THEN main' = "failed" /\ UNCHANGED merged
     ELSE /\ main' = "done"
          /\ merged' = IF \A i \in Instances : pred[i] = Missing THEN merged
                       ELSE [i \in Instances |-> pred[i].attempt]
  /\ UNCHANGED <<session, opts, jobVars, traj, pred, lost>>

-----------------------------------------------------------------------------
(* run_instance, on a worker thread *)

\* The pool's queue is first in, first out; the sequential loop stops with
\* the first instance that raises.
FreeThreadMutant == In(Active) = {}
FreeThread == Cardinality(In(Active)) < Workers

Start(i) ==
  /\ main \in {"looping", "failing", "draining"}
  /\ FreeThread
  /\ \A j \in Instances : j < i => job[j] # "queued"
  /\ Workers = 1 => In({"broke", "raised"}) = {}
  /\ Move(i, "queued", "checking")
  /\ UNCHANGED <<procVars, outcome, attempt, diskVars, lost>>

\* should_skip: a final trajectory is worth keeping.
SkippableMutantA(i) == ~opts.redo /\ IsFinal(traj[i]) /\ IsFinal(pred[i])
SkippableMutantB(i) == ~opts.redo /\ traj[i] # Missing
Skippable(i) == ~opts.redo /\ IsFinal(traj[i])

Skip(i) ==
  /\ Skippable(i)
  /\ Move(i, "checking", "skipped")
  /\ UNCHANGED <<procVars, outcome, attempt, diskVars, lost>>

\* An empty, unfinished or unreadable trajectory is unlinked and run again.
Begin(i) ==
  /\ ~Skippable(i)
  /\ Move(i, "checking", "starting")
  /\ traj' = IF opts.redo THEN traj ELSE [traj EXCEPT ![i] = Missing]
  /\ attempt' = [attempt EXCEPT ![i] = @ + 1]
  /\ UNCHANGED <<procVars, outcome, pred, merged, lost>>

\* env.start() and the hooks succeed.
EnvStarts(i) ==
  /\ Move(i, "starting", "running")
  /\ UNCHANGED <<procVars, outcome, attempt, diskVars, lost>>

\* save_trajectory truncates the file, then writes it; the last write of a run
\* has an exit status.
BeginSave(i) ==
  /\ Move(i, "running", "saving")
  /\ traj' = [traj EXCEPT ![i] = Torn]
  /\ UNCHANGED <<procVars, outcome, attempt, pred, merged, lost>>

EndSave(i) ==
  \/ /\ Move(i, "saving", "running")
     /\ traj' = [traj EXCEPT ![i] = Open]
     /\ UNCHANGED <<procVars, outcome, attempt, pred, merged, lost>>
  \/ /\ Move(i, "saving", "closing")
     /\ traj' = [traj EXCEPT ![i] = Final(attempt[i])]
     /\ outcome' = [outcome EXCEPT ![i] = "ok"]
     /\ UNCHANGED <<procVars, attempt, pred, merged, lost>>

\* env.start or agent.run raises: an ordinary exception, one that stops the
\* batch (SystemExit, total cost limit, model configuration), or Ctrl-C, which
\* only the main thread receives.
RunRaises(i) ==
  /\ job[i] \in {"starting", "running"}
  /\ job' = [job EXCEPT ![i] = "closing"]
  /\ \E o \in {"error", "stop", "interrupt"} :
       /\ o = "interrupt" => Workers = 1
       /\ outcome' = [outcome EXCEPT ![i] = o]
  /\ UNCHANGED <<procVars, attempt, diskVars, lost>>

\* What run_instance makes of an exception.
After(o) == CASE o = "interrupt" -> "broke"
              [] o = "stop" -> IF opts.raising THEN "raised" ELSE "broke"
              [] o = "error" -> IF opts.raising THEN "raised" ELSE "finished"

EnvClosesMutant(i) ==
  /\ Move(i, "closing", IF outcome[i] \in {"ok", "error"} THEN "predicting" ELSE After(outcome[i]))
  /\ UNCHANGED <<procVars, outcome, attempt, diskVars, lost>>
EnvCloses(i) ==
  /\ Move(i, "closing", IF outcome[i] = "ok" THEN "predicting" ELSE After(outcome[i]))
  /\ UNCHANGED <<procVars, outcome, attempt, diskVars, lost>>

\* An exception of env.close() in the finally clause takes the place of the
\* result, or of the exception, that was on its way.
CloseRaises(i) ==
  /\ Move(i, "closing", After("error"))
  /\ lost' = IF outcome[i] = "ok" THEN lost \cup {i} ELSE lost
  /\ outcome' = [outcome EXCEPT ![i] = "error"]
  /\ UNCHANGED <<procVars, attempt, diskVars>>

BeginPrediction(i) ==
  /\ Move(i, "predicting", "writing")
  /\ pred' = [pred EXCEPT ![i] = Torn]
  /\ UNCHANGED <<procVars, outcome, attempt, traj, merged, lost>>

EndPredictionMutant(i) ==
  /\ Move(i, "writing", "hooks")
  /\ pred' = [pred EXCEPT ![i] = Final(IF merged[i] # 0 THEN merged[i] ELSE attempt[i])]
  /\ lost' = lost \ {i}
  /\ UNCHANGED <<procVars, outcome, attempt, traj, merged>>
EndPrediction(i) ==
  /\ Move(i, "writing", "hooks")
  /\ pred' = [pred EXCEPT ![i] = Final(attempt[i])]
  /\ lost' = lost \ {i}
  /\ UNCHANGED <<procVars, outcome, attempt, traj, merged>>

\* on_instance_completed of the hooks, which may raise.
Hooks(i) ==
  /\ \E o \in {"ok", "error"} :
       /\ Move(i, "hooks", IF o = "ok" THEN "finished" ELSE After(o))
       /\ outcome' = [outcome EXCEPT ![i] = o]
  /\ UNCHANGED <<procVars, attempt, diskVars, lost>>

-----------------------------------------------------------------------------

Worker(i) == \/ Start(i) \/ Skip(i) \/ Begin(i) \/ EnvStarts(i)
             \/ BeginSave(i) \/ EndSave(i) \/ RunRaises(i)
             \/ EnvCloses(i) \/ CloseRaises(i)
             \/ BeginPrediction(i) \/ EndPrediction(i) \/ Hooks(i)
Main == StopLoop \/ LoopRaises \/ Joined \/ Merge
Process == Launch \/ Crash

\* The program is not launched again.
Rest == main \notin Up /\ session = MaxSessions /\ UNCHANGED vars

Next == Main \/ (\E i \in Instances : Worker(i)) \/ Process \/ Rest

Spec == Init /\ [][Next]_vars

\* Threads are scheduled, a write of a file ends, and so does env.close(), whose
\* commands and requests all have a timeout.  Nothing is assumed of a worker inside
\* env.start() or agent.run(): a container that does not come up in time may hold
\* the former for ever, and a RetryAgent starts environments again in the latter;
\* and nothing of the user, who may never interrupt.
Outside == {"starting", "running", "saving"}
FairSpec ==
  /\ Spec
  /\ WF_vars(Main /\ (StopLoop => In({"broke"}) # {}))
  /\ \A i \in Instances : WF_vars(Worker(i) /\ job[i] \notin {"starting", "running"})

-----------------------------------------------------------------------------
(* Properties *)

\* Nothing that a run has completed is lost to a later launch: a trajectory
\* with an exit status is neither unlinked nor written again, unless that
\* launch asked for redo_existing.
FinalKept == [][\A i \in Instances :
                  IsFinal(traj[i]) /\ ~opts'.redo => traj'[i] = traj[i]]_vars

\* A prediction is that of the finished trajectory beside it, across crashes,
\* reruns and redo_existing, once run_instance is past its prediction; only a
\* prediction that was never written may be that of an earlier attempt.
PredictionMatches ==
  \A i \in Instances :
    IsFinal(pred[i]) /\ IsFinal(traj[i]) /\ pred[i] # traj[i]
      => i \in lost \/ job[i] \in {"closing", "predicting"}

\* When main() returns, preds.json holds every prediction on disk: no thread
\* was still writing one.
MergeIsComplete ==
  main = "done" => \A i \in Instances : merged[i] = pred[i].attempt \/ pred[i] = Missing

\* preds.json holds the patch of this launch for an instance that this launch
\* completed, also when redo_existing found the files of an earlier one.
MergeIsFresh ==
  main = "done" => \A i \in In({"finished"}) : outcome[i] = "ok" => merged[i] = attempt[i]

\* Once the loop was told to stop, no waiting instance is started.
NoLateStart == [][main = "draining" => In(Active)' \subseteq In(Active)]_vars

\* An instance that a launch skips as complete has its prediction, unless a
\* kill or a failing env.close() fell between its two files.
SkippedIsPredicted ==
  \A i \in In({"skipped"}) : i \in lost \/ pred[i] = traj[i]

\* A launch that is not killed ends, whatever its instances raise, unless one of
\* them never comes back from its environment or its agent.
LaunchEnds ==
  main \in Up ~> \/ main \notin Up
                 \/ \E i \in Instances : [](job[i] \in Outside)

\* Instances that never come back take a thread of the pool each and nothing else:
\* every instance gets its turn, is cancelled or ends with its process, unless as
\* many as there are threads hang.
PoolGoesOn ==
  \A i \in Instances :
    job[i] = "queued" ~> \/ job[i] # "queued"
                         \/ \E hung \in SUBSET Instances :
                              [](hung = In(Outside) /\ Cardinality(hung) = Workers)

\* What docs/usage/batch_mode.md says: all patches generated are saved to
\* preds.json, and merging again repairs an interrupted run.
AllPatchesMerged ==
  main = "done" => \A i \in Instances : IsFinal(traj[i]) => merged[i] = traj[i].attempt
=============================================================================
