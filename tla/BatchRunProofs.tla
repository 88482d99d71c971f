--------------------------- MODULE BatchRunProofs ---------------------------
(***************************************************************************)
(* Proofs about BatchRun for any number of instances, workers and          *)
(* launches: the types, what a relaunch finds on disk after kills at any   *)
(* point, and what the merge writes.                                       *)
(***************************************************************************)
EXTENDS BatchRun, TLAPS

-----------------------------------------------------------------------------
(* The inductive invariant *)

\* How a run ended is known once it has ended, and only then.
OutcomeInv(i) ==
  /\ job[i] \in NotStarted \cup {"checking", "starting", "running", "saving", "skipped"}
       => outcome[i] = "none"
  /\ job[i] = "closing" => outcome[i] # "none"
  /\ job[i] \in {"predicting", "writing", "hooks"} => outcome[i] = "ok"

\* A launch runs an instance once.
AttemptInv(i) ==
  /\ attempt[i] <= session
  /\ job[i] \in {"queued", "checking"} => attempt[i] < session
  /\ job[i] \in Active \ {"checking"} => attempt[i] # 0

\* The trajectory in the course of its run.
TrajInv(i) ==
  /\ job[i] = "saving" => traj[i] = Torn
  /\ job[i] \in {"starting", "running"} /\ ~opts.redo => ~IsFinal(traj[i])
  /\ job[i] \in {"predicting", "writing", "hooks"} \/ i \in Unpredicted
       => traj[i] = Final(attempt[i])
  /\ job[i] = "skipped" => IsFinal(traj[i])

\* The prediction beside it.
PredInv(i) ==
  /\ IsFinal(traj[i]) => i \in lost \/ pred[i] = traj[i] \/ i \in Unpredicted
  /\ job[i] = "writing" => pred[i] = Torn
  /\ job[i] = "hooks" \/ (job[i] = "finished" /\ outcome[i] = "ok")
       => pred[i] = Final(attempt[i])

InstanceInv(i) == OutcomeInv(i) /\ AttemptInv(i) /\ TrajInv(i) /\ PredInv(i)

\* The main thread and its pool.
MainInv ==
  /\ main \in {"down", "merging", "done", "failed"} => AllEnded
  /\ main = "draining" => In({"queued"}) = {}

BatchInv ==
  /\ TypeOK
  /\ \A i \in Instances : InstanceInv(i)
  /\ MainInv
  /\ MergeIsComplete

-----------------------------------------------------------------------------
(* Facts about the operators *)

\* A file is one thing at a time.
LEMMA FileStates ==
  /\ ~IsFinal(Missing) /\ ~IsFinal(Torn) /\ ~IsFinal(Open)
  /\ \A n : IsFinal(Final(n)) /\ Final(n) # Missing /\ Final(n) # Torn /\ Final(n).attempt = n
  /\ Missing # Torn
  BY DEF IsFinal, Missing, Torn, Open, Final

\* A final trajectory has the number of an attempt.
LEMMA FinalFiles ==
  ASSUME TypeOK, NEW i \in Instances
  PROVE  /\ IsFinal(traj[i]) => traj[i] = Final(traj[i].attempt)
         /\ IsFinal(pred[i]) => pred[i] = Final(pred[i].attempt)
  BY DEF TypeOK, IsFinal, Missing, Torn, Open, Final

\* Whatever run_instance makes of an exception, it is over.
LEMMA AfterIsOver ==
  ASSUME NEW o \in {"error", "stop", "interrupt"}
  PROVE  /\ After(o) \in Over \ {"skipped"}
         /\ o # "error" => After(o) # "finished"
  BY DEF After, Over

\* Nothing is queued or running once every job has ended.
LEMMA EndedJobs ==
  /\ AllEnded <=> \A i \in Instances : job[i] \notin {"queued"} \cup Active
  /\ In({"queued"}) = {} <=> \A i \in Instances : job[i] # "queued"
  BY DEF AllEnded, In

LEMMA EndedJobsNext ==
  /\ AllEnded' <=> \A i \in Instances : job'[i] \notin {"queued"} \cup Active
  /\ In({"queued"})' = {} <=> \A i \in Instances : job'[i] # "queued"
  BY DEF AllEnded, In

-----------------------------------------------------------------------------
(* Types *)

LEMMA InitTyped == Init => TypeOK
  BY BatchAssumption
  DEF Init, TypeOK, Options, NotStarted, Outcomes

\* A trajectory and a prediction are finished with the attempt that runs.
LEMMA WorkerTyped ==
  ASSUME TypeOK, NEW i \in Instances, InstanceInv(i), Worker(i)
  PROVE  TypeOK'
<1> USE DEF TypeOK, NotStarted, Active, Over, Outcomes, procVars, diskVars
<1>1. CASE Start(i)
  BY <1>1 DEF Start, Move
<1>2. CASE Skip(i)
  BY <1>2 DEF Skip, Move
<1>3. CASE Begin(i)
  <2>1. attempt[i] + 1 \in 0 .. MaxSessions
    BY <1>3, BatchAssumption DEF Begin, Move, InstanceInv, AttemptInv
  <2> QED BY <1>3, <2>1 DEF Begin, Move
<1>4. CASE EnvStarts(i)
  BY <1>4 DEF EnvStarts, Move
<1>5. CASE BeginSave(i)
  BY <1>5 DEF BeginSave, Move
<1>6. CASE EndSave(i)
  <2>1. attempt[i] # 0 /\ attempt[i] \in 0 .. MaxSessions
    BY <1>6 DEF EndSave, Move, InstanceInv, AttemptInv
  <2>2. attempt[i] \in 1 .. MaxSessions
    BY <2>1, BatchAssumption
  <2> QED BY <1>6, <2>2 DEF EndSave, Move
<1>7. CASE RunRaises(i)
  BY <1>7 DEF RunRaises
<1>8. CASE EnvCloses(i)
  <2>1. outcome[i] \in Outcomes \ {"none"}
    BY <1>8 DEF EnvCloses, Move, InstanceInv, OutcomeInv
  <2>2. outcome[i] # "ok" => After(outcome[i]) \in Over
    BY <2>1, AfterIsOver
  <2> QED BY <1>8, <2>2 DEF EnvCloses, Move
<1>9. CASE CloseRaises(i)
  BY <1>9, AfterIsOver DEF CloseRaises, Move
<1>10. CASE BeginPrediction(i)
  BY <1>10 DEF BeginPrediction, Move
<1>11. CASE EndPrediction(i)
  <2>1. attempt[i] # 0 /\ attempt[i] \in 0 .. MaxSessions
    BY <1>11 DEF EndPrediction, Move, InstanceInv, AttemptInv
  <2>2. attempt[i] \in 1 .. MaxSessions
    BY <2>1, BatchAssumption
  <2> QED BY <1>11, <2>2 DEF EndPrediction, Move
<1>12. CASE Hooks(i)
  BY <1>12, AfterIsOver DEF Hooks, Move
<1> QED BY <1>1, <1>2, <1>3, <1>4, <1>5, <1>6, <1>7, <1>8, <1>9, <1>10, <1>11, <1>12 DEF Worker

LEMMA ProcessTyped == TypeOK /\ Process => TypeOK'
<1> SUFFICES ASSUME TypeOK, Process PROVE TypeOK'
  OBVIOUS
<1> USE BatchAssumption DEF TypeOK, NotStarted, Outcomes, Up, diskVars
<1>1. CASE Launch
  BY <1>1 DEF Launch
<1>2. CASE Crash
  BY <1>2 DEF Crash, Unpredicted
<1> QED BY <1>1, <1>2 DEF Process

LEMMA MainTyped == TypeOK /\ Main => TypeOK'
<1> SUFFICES ASSUME TypeOK, Main PROVE TypeOK'
  OBVIOUS
<1> USE BatchAssumption DEF TypeOK, NotStarted, Up, diskVars, jobVars
<1>1. CASE StopLoop
  BY <1>1 DEF StopLoop, CancelQueued
<1>2. CASE LoopRaises
  BY <1>2 DEF LoopRaises, CancelQueued
<1>3. CASE Joined
  BY <1>3 DEF Joined
<1>4. CASE Merge
  <2>1. \A i \in Instances : pred[i].attempt \in 0 .. MaxSessions
    BY DEF Missing, Torn, Final
  <2> QED BY <1>4, <2>1 DEF Merge
<1> QED BY <1>1, <1>2, <1>3, <1>4 DEF Main

-----------------------------------------------------------------------------
(* One instance *)

\* A worker leaves the other instances, the process and preds.json alone.
LEMMA WorkerFrame ==
  ASSUME TypeOK, NEW i \in Instances, Worker(i)
  PROVE  /\ UNCHANGED <<session, opts, main, merged>>
         /\ \A j \in Instances \ {i} :
              /\ job'[j] = job[j] /\ outcome'[j] = outcome[j] /\ attempt'[j] = attempt[j]
              /\ traj'[j] = traj[j] /\ pred'[j] = pred[j] /\ (j \in lost' <=> j \in lost)
<1> USE DEF TypeOK, procVars, diskVars, Move
<1>1. CASE Start(i) \/ Skip(i) \/ EnvStarts(i) \/ EnvCloses(i)
  BY <1>1 DEF Start, Skip, EnvStarts, EnvCloses
<1>2. CASE Begin(i) \/ BeginSave(i) \/ EndSave(i)
  BY <1>2 DEF Begin, BeginSave, EndSave
<1>3. CASE RunRaises(i) \/ CloseRaises(i) \/ Hooks(i)
  BY <1>3 DEF RunRaises, CloseRaises, Hooks
<1>4. CASE BeginPrediction(i) \/ EndPrediction(i)
  BY <1>4 DEF BeginPrediction, EndPrediction
<1> QED BY <1>1, <1>2, <1>3, <1>4 DEF Worker

LEMMA OthersKept ==
  ASSUME TypeOK, NEW i \in Instances, Worker(i),
         NEW j \in Instances \ {i}, InstanceInv(j)
  PROVE  InstanceInv(j)'
<1>1. OutcomeInv(j)'
  BY WorkerFrame DEF InstanceInv, OutcomeInv
<1>2. AttemptInv(j)'
  BY WorkerFrame DEF InstanceInv, AttemptInv
<1>3. TrajInv(j)'
  BY WorkerFrame DEF InstanceInv, TrajInv, Unpredicted
<1>4. PredInv(j)'
  BY WorkerFrame DEF InstanceInv, PredInv, Unpredicted
<1> QED BY <1>1, <1>2, <1>3, <1>4 DEF InstanceInv

\* should_skip and the start of a run.
LEMMA StartKeepsInstance ==
  ASSUME TypeOK, NEW i \in Instances, InstanceInv(i),
         Start(i) \/ Skip(i) \/ Begin(i) \/ EnvStarts(i)
  PROVE  InstanceInv(i)'
<1> USE FileStates DEF TypeOK, InstanceInv, OutcomeInv, AttemptInv, TrajInv, PredInv,
        Unpredicted, NotStarted, Active, procVars, diskVars, Move
<1>1. CASE Start(i)
  BY <1>1 DEF Start
<1>2. CASE Skip(i)
  BY <1>2 DEF Skip, Skippable
<1>3. CASE Begin(i)
  BY <1>3, BatchAssumption DEF Begin, Skippable
<1>4. CASE EnvStarts(i)
  BY <1>4 DEF EnvStarts
<1> QED BY <1>1, <1>2, <1>3, <1>4

\* agent.run and its saves.
LEMMA RunKeepsInstance ==
  ASSUME TypeOK, NEW i \in Instances, InstanceInv(i),
         BeginSave(i) \/ EndSave(i) \/ RunRaises(i)
  PROVE  InstanceInv(i)'
<1> USE FileStates DEF TypeOK, InstanceInv, OutcomeInv, AttemptInv, TrajInv, PredInv,
        Unpredicted, NotStarted, Active, procVars, diskVars, Move
<1>1. CASE BeginSave(i)
  BY <1>1 DEF BeginSave
<1>2. CASE EndSave(i)
  BY <1>2 DEF EndSave
<1>3. CASE RunRaises(i)
  BY <1>3 DEF RunRaises
<1> QED BY <1>1, <1>2, <1>3

\* env.close, the prediction and the hooks.
LEMMA EndKeepsInstance ==
  ASSUME TypeOK, NEW i \in Instances, InstanceInv(i),
         \/ EnvCloses(i) \/ CloseRaises(i)
         \/ BeginPrediction(i) \/ EndPrediction(i) \/ Hooks(i)
  PROVE  InstanceInv(i)'
<1> USE FileStates DEF TypeOK, InstanceInv, OutcomeInv, AttemptInv, TrajInv, PredInv,
        Unpredicted, NotStarted, Active, procVars, diskVars, Move
<1>1. CASE EnvCloses(i)
  <2>1. outcome[i] # "ok" => After(outcome[i]) \in Over \ {"skipped"}
    BY <1>1, AfterIsOver DEF EnvCloses, Outcomes
  <2> QED BY <1>1, <2>1 DEF EnvCloses, Over
<1>2. CASE CloseRaises(i)
  BY <1>2, AfterIsOver DEF CloseRaises, Over
<1>3. CASE BeginPrediction(i)
  BY <1>3 DEF BeginPrediction
<1>4. CASE EndPrediction(i)
  BY <1>4 DEF EndPrediction
<1>5. CASE Hooks(i)
  BY <1>5, AfterIsOver DEF Hooks, Over
<1> QED BY <1>1, <1>2, <1>3, <1>4, <1>5

\* A kill and a new launch: a launch finds no run between its two files, the
\* kill has marked those as lost.
LEMMA ProcessKeepsInstance ==
  ASSUME TypeOK, MainInv, NEW i \in Instances, InstanceInv(i), Process
  PROVE  InstanceInv(i)'
<1> USE DEF TypeOK, InstanceInv, OutcomeInv, AttemptInv, TrajInv, PredInv,
        Unpredicted, NotStarted, Active, diskVars
<1>1. CASE Launch
  <2>1. i \notin Unpredicted
    BY <1>1, EndedJobs DEF Launch, MainInv
  <2> QED BY <1>1, <2>1, BatchAssumption DEF Launch
<1>2. CASE Crash
  BY <1>2 DEF Crash
<1> QED BY <1>1, <1>2 DEF Process

LEMMA MainKeepsInstance ==
  ASSUME TypeOK, NEW i \in Instances, InstanceInv(i), Main
  PROVE  InstanceInv(i)'
<1> USE DEF TypeOK, InstanceInv, OutcomeInv, AttemptInv, TrajInv, PredInv,
        Unpredicted, NotStarted, Active, diskVars, jobVars
<1>1. CASE StopLoop
  BY <1>1 DEF StopLoop, CancelQueued
<1>2. CASE LoopRaises
  BY <1>2 DEF LoopRaises, CancelQueued
<1>3. CASE Joined
  BY <1>3 DEF Joined
<1>4. CASE Merge
  BY <1>4 DEF Merge
<1> QED BY <1>1, <1>2, <1>3, <1>4 DEF Main

-----------------------------------------------------------------------------
(* The main thread and its pool *)

\* No job is taken up once the main thread has joined its workers, or has
\* cancelled what was queued.
LEMMA WorkerKeepsMain ==
  ASSUME BatchInv, NEW i \in Instances, Worker(i)
  PROVE  /\ main \notin {"down", "merging", "done", "failed"}
         /\ MainInv' /\ MergeIsComplete'
<1>1. job[i] \in {"queued"} \cup Active
  BY DEF Worker, Start, Skip, Begin, EnvStarts, BeginSave, EndSave, RunRaises, EnvCloses,
         CloseRaises, BeginPrediction, EndPrediction, Hooks, Move, Active
<1>2. main \notin {"down", "merging", "done", "failed"} /\ main' = main
  BY <1>1, EndedJobs, WorkerFrame DEF BatchInv, MainInv
<1>3. ASSUME main = "draining"
      PROVE  job'[i] # "queued"
  <2> USE DEF Move, BatchInv, TypeOK
  <2>1. job[i] # "queued"
    BY <1>3, EndedJobs DEF MainInv
  <2>2. outcome[i] # "none" /\ outcome[i] # "ok" => After(outcome[i]) \in Over
    BY AfterIsOver DEF Outcomes
  <2>3. job[i] = "closing" => outcome[i] # "none"
    BY DEF InstanceInv, OutcomeInv
  <2> QED BY <2>1, <2>2, <2>3, AfterIsOver
          DEF Worker, Start, Skip, Begin, EnvStarts, BeginSave, EndSave, RunRaises, EnvCloses,
              CloseRaises, BeginPrediction, EndPrediction, Hooks, Over
<1>4. MainInv'
  BY <1>2, <1>3, WorkerFrame, EndedJobs, EndedJobsNext DEF MainInv, BatchInv
<1>5. MergeIsComplete'
  BY <1>2 DEF MergeIsComplete
<1> QED BY <1>2, <1>4, <1>5

LEMMA ProcessKeepsMain ==
  ASSUME BatchInv, Process
  PROVE  MainInv' /\ MergeIsComplete'
<1>1. main' \in {"looping", "down"}
  BY DEF Process, Launch, Crash
<1>2. \A i \in Instances : main' = "down" => job'[i] = "idle"
  BY DEF Process, Launch, Crash
<1> QED BY <1>1, <1>2, EndedJobsNext DEF MainInv, MergeIsComplete, Active

LEMMA MainKeepsMain ==
  ASSUME BatchInv, Main
  PROVE  MainInv' /\ MergeIsComplete'
<1> USE EndedJobs, EndedJobsNext DEF BatchInv, TypeOK, MainInv, MergeIsComplete
<1>1. CASE StopLoop
  BY <1>1 DEF StopLoop, CancelQueued
<1>2. CASE LoopRaises
  BY <1>2 DEF LoopRaises
<1>3. CASE Joined
  BY <1>3 DEF Joined, jobVars, diskVars
<1>4. CASE Merge
  <2>1. job' = job /\ pred' = pred /\ main' \in {"done", "failed"} /\ MainInv'
    BY <1>4 DEF Merge, jobVars
  <2>2. MergeIsComplete'
    BY <1>4, <2>1 DEF Merge
  <2> QED BY <2>1, <2>2
<1> QED BY <1>1, <1>2, <1>3, <1>4 DEF Main

-----------------------------------------------------------------------------
(* The invariant is inductive *)

LEMMA InitInv == Init => BatchInv
<1> SUFFICES ASSUME Init PROVE BatchInv
  OBVIOUS
<1>1. TypeOK
  BY InitTyped
<1>2. ASSUME NEW i \in Instances PROVE InstanceInv(i)
  BY FileStates, BatchAssumption
  DEF Init, InstanceInv, OutcomeInv, AttemptInv, TrajInv, PredInv, Unpredicted, Active
<1>3. MainInv /\ MergeIsComplete
  BY EndedJobs DEF Init, MainInv, MergeIsComplete, Active
<1> QED BY <1>1, <1>2, <1>3 DEF BatchInv

LEMMA NextInv == BatchInv /\ [Next]_vars => BatchInv'
<1> SUFFICES ASSUME BatchInv, [Next]_vars PROVE BatchInv'
  OBVIOUS
<1>1. TypeOK /\ \A i \in Instances : InstanceInv(i)
  BY DEF BatchInv
<1>2. CASE Main
  BY <1>1, <1>2, MainTyped, MainKeepsInstance, MainKeepsMain DEF BatchInv
<1>3. ASSUME NEW i \in Instances, Worker(i) PROVE BatchInv'
  <2>1. TypeOK'
    BY <1>1, <1>3, WorkerTyped
  <2>2. InstanceInv(i)'
    BY <1>1, <1>3, StartKeepsInstance, RunKeepsInstance, EndKeepsInstance DEF Worker
  <2>3. \A j \in Instances : InstanceInv(j)'
    BY <1>1, <1>3, <2>2, OthersKept
  <2>4. MainInv' /\ MergeIsComplete'
    BY <1>3, WorkerKeepsMain
  <2>5. Instances' = Instances
    BY DEF Instances
  <2> QED BY <2>1, <2>3, <2>4, <2>5 DEF BatchInv
<1>4. CASE Process
  BY <1>1, <1>4, ProcessTyped, ProcessKeepsInstance, ProcessKeepsMain DEF BatchInv
<1>5. CASE UNCHANGED vars
  BY <1>5 DEF vars, procVars, jobVars, diskVars, BatchInv, TypeOK, InstanceInv, OutcomeInv,
     AttemptInv, TrajInv, PredInv, Unpredicted, MainInv, AllEnded, In, MergeIsComplete
<1> QED BY <1>2, <1>3, <1>4, <1>5 DEF Next, Rest

-----------------------------------------------------------------------------
(* Theorems *)

\* At each place of each worker of RunBatch, in each launch: the types, and what
\* trajectory, prediction and preds.json may hold, whenever a kill came.
THEOREM BatchIsInvariant == Spec => []BatchInv
<1> QED BY InitInv, NextInv, PTL DEF Spec

\* Types: every file, job and exit of a launch has one of the values named for
\* it, whatever raises and whenever the process is killed.
THEOREM TypeCorrect == Spec => []TypeOK
<1>1. BatchInv => TypeOK
  BY DEF BatchInv
<1> QED BY <1>1, BatchIsInvariant, PTL

\* A prediction is that of the finished trajectory beside it, whatever was
\* killed, rerun or redone: run_instance writes the two one after the other,
\* and should_skip looks at the first only.
THEOREM PredictionsMatch == Spec => []PredictionMatches
<1>1. ASSUME BatchInv PROVE PredictionMatches
  <2> SUFFICES ASSUME NEW i \in Instances,
                      IsFinal(pred[i]), IsFinal(traj[i]), pred[i] # traj[i]
               PROVE  i \in lost \/ job[i] \in {"closing", "predicting"}
    BY DEF PredictionMatches
  <2>1. InstanceInv(i)
    BY <1>1 DEF BatchInv
  <2>2. job[i] # "writing"
    BY <2>1, FileStates DEF InstanceInv, PredInv
  <2> QED BY <2>1, <2>2 DEF InstanceInv, PredInv, Unpredicted
<1> QED BY <1>1, BatchIsInvariant, PTL

\* An instance that should_skip takes for complete has its prediction, unless
\* a kill or a failing env.close() fell between the two files.
THEOREM SkipsArePredicted == Spec => []SkippedIsPredicted
<1>1. ASSUME BatchInv PROVE SkippedIsPredicted
  BY <1>1 DEF BatchInv, InstanceInv, TrajInv, PredInv, Unpredicted, SkippedIsPredicted, In
<1> QED BY <1>1, BatchIsInvariant, PTL

\* merge_predictions runs when no thread writes any more: preds.json has every
\* prediction on disk.
THEOREM MergesAreComplete == Spec => []MergeIsComplete
<1>1. BatchInv => MergeIsComplete
  BY DEF BatchInv
<1> QED BY <1>1, BatchIsInvariant, PTL

\* What this launch completed is merged in the version of this launch, also
\* where an earlier one had left its files.
THEOREM MergesAreFresh == Spec => []MergeIsFresh
<1>1. ASSUME BatchInv PROVE MergeIsFresh
  <2> SUFFICES ASSUME main = "done", NEW i \in In({"finished"}), outcome[i] = "ok"
               PROVE  merged[i] = attempt[i]
    BY DEF MergeIsFresh
  <2>1. i \in Instances /\ job[i] = "finished"
    BY DEF In
  <2>2. pred[i] = Final(attempt[i])
    BY <1>1, <2>1 DEF BatchInv, InstanceInv, PredInv
  <2> QED BY <1>1, <2>1, <2>2, FileStates DEF BatchInv, MergeIsComplete
<1> QED BY <1>1, BatchIsInvariant, PTL

\* Nothing completed is lost to a later launch: a trajectory with an exit
\* status is not unlinked or truncated without redo_existing.
THEOREM FinalsAreKept == Spec => FinalKept
<1>1. ASSUME BatchInv, [Next]_vars
      PROVE  [\A i \in Instances : IsFinal(traj[i]) /\ ~opts'.redo => traj'[i] = traj[i]]_vars
  <2> SUFFICES ASSUME NEW i \in Instances, IsFinal(traj[i]), ~opts'.redo
               PROVE  traj'[i] = traj[i]
    OBVIOUS
  <2>1. InstanceInv(i) /\ TypeOK
    BY <1>1 DEF BatchInv
  <2>2. CASE Main \/ Process \/ UNCHANGED vars
    BY <2>2 DEF Main, StopLoop, LoopRaises, Joined, Merge, Process, Launch, Crash, vars, diskVars
  <2>3. ASSUME NEW w \in Instances, Worker(w) PROVE traj'[i] = traj[i]
    <3>1. CASE w # i
      BY <2>1, <2>3, <3>1, WorkerFrame
    <3>2. CASE w = i
      <4>1. ~opts.redo
        BY <2>1, <2>3, WorkerFrame
      <4>2. ~BeginSave(i) /\ ~EndSave(i) /\ ~Begin(i)
        BY <2>1, <4>1, FileStates
        DEF BeginSave, EndSave, Begin, Move, Skippable, InstanceInv, TrajInv
      <4> QED BY <2>3, <3>2, <4>2
              DEF Worker, Start, Skip, EnvStarts, RunRaises, EnvCloses, CloseRaises,
                  BeginPrediction, EndPrediction, Hooks, diskVars
    <3> QED BY <3>1, <3>2
  <2> QED BY <1>1, <2>2, <2>3 DEF Next, Rest
<1> QED BY <1>1, BatchIsInvariant, PTL DEF Spec, FinalKept

\* Once _BreakLoop, or the user, has stopped the loop, no waiting instance is
\* started: the pool has cancelled the queue.
THEOREM NoneStartsLate == Spec => NoLateStart
<1>1. ASSUME BatchInv, [Next]_vars
      PROVE  [main = "draining" => In(Active)' \subseteq In(Active)]_vars
  <2> SUFFICES ASSUME main = "draining", NEW i \in Instances, job'[i] \in Active
               PROVE  job[i] \in Active
    BY DEF In
  <2>1. job[i] # "queued" /\ TypeOK
    BY <1>1, EndedJobs DEF BatchInv, MainInv
  <2>2. CASE Main \/ Process \/ UNCHANGED vars
    BY <2>2 DEF Main, StopLoop, LoopRaises, Joined, Merge, Process, Launch, Crash, vars, jobVars,
                Active
  <2>3. ASSUME NEW w \in Instances, Worker(w) PROVE job[i] \in Active
    <3>1. CASE w # i
      BY <2>1, <2>3, <3>1, WorkerFrame
    <3>2. CASE w = i
      BY <2>1, <2>3, <3>2
      DEF Worker, Start, Skip, Begin, EnvStarts, BeginSave, EndSave, RunRaises, EnvCloses,
          CloseRaises, BeginPrediction, EndPrediction, Hooks, Move, Active
    <3> QED BY <3>1, <3>2
  <2> QED BY <1>1, <2>2, <2>3 DEF Next, Rest
<1> QED BY <1>1, BatchIsInvariant, PTL DEF Spec, NoLateStart
=============================================================================
