# A TLA+ model of SWE-agent

SWE-agent runs a language model agent on a software engineering task: it starts
a container, asks a model for a command, runs the command in a shell inside the
container, shows the model the output, and goes on until the agent submits a
patch. A batch does this for many tasks with a pool of threads. This directory
holds TLA+ modules of that program, TLC configurations that check them on small
instances, and proofs of what matters most for every instance.

Run everything from this directory: `tlc -config BatchRun.cfg MCBatchRun.tla`,
`tlapm AgentLoopProofs.tla`. `PROJECT.json` lists the runs, the source lines
behind every definition (`map`), the theorems and the hazards.

## 1. Inventory

| Component (source) | State it keeps | Operations |
|---|---|---|
| Agent loop: `DefaultAgent` (`sweagent/agent/agents.py`) | history, trajectory, `info`, timeouts in a row, execution time, the step under construction | `setup`, `step`, `forward_with_handling`, `handle_action`, `handle_submission`, `attempt_autosubmission_after_error`, `save_trajectory`, `run` |
| Retry agent and retry loops: `RetryAgent`, `ScoreRetryLoop`, `ChooserRetryLoop`, `Reviewer`, `Chooser`, `Preselector` (`agents.py`, `reviewer.py`) | attempts with their statistics and reviews, remaining budget, the chosen attempt | `step`, `_next_attempt`, `on_submit`, `retry`, `get_best`, `save_trajectory`, `run` |
| Batch runner: `RunBatch`, `save_predictions`, `merge_predictions` (`sweagent/run/`) | thread pool, `.traj`, `.pred` and `preds.json` files | `main`, `run_instance`, `should_skip`, `_run_instance`, merge |
| Models: `LiteLLMModel`, human and replay models (`sweagent/agent/models.py`) | statistics per model, global cost and timestamp under a lock | `query` with retries, `_sleep`, `_update_stats`, limits |
| Environment: `SWEEnv` (`sweagent/environment/`) | the deployment it owns, through it the shell, the tree and the tools' files | `start`, `reset`, `hard_reset`, `communicate`, `close` |
| Deployments (`swerex/deployment/`), cloud helpers (`swerex/utils/`) | runtime client, container, task or sandbox, its name; AWS role, policies, security group | `start`, `is_alive`, `stop`, teardown |
| Remote runtime and server (`swerex/runtime/remote.py`, `swerex/server.py`) | the last response by request id | requests, retries |
| Bash session (`swerex/runtime/local.py`) | a pty with pending output | `start`, `run`, `interrupt`, `close` |
| Tool handler (`sweagent/tools/tools.py`, `bundle.py`) | bundles, commands, state of the environment | `install`, `reset`, `get_state`, `parse_actions`, `guard_multiline_input` |
| Parsing (`sweagent/tools/parsing.py`, `commands.py`, `utils.py`) | none | eleven parsers, invocation formats, heredocs |
| Tool bundles (`tools/`) | registry, `state.json`, `model.patch`, the edited file, its window | open, scroll, edit, insert, state commands, submit |
| History processors (`sweagent/agent/history_processors.py`) | marks in the agent's history | one call per query |
| Action sampler (`sweagent/agent/action_sampler.py`) | the completions of one step | `get_action` |
| Shell agent and human model (`agent/extra/shell_agent.py`, `agent/models.py`) | the model and parser set aside | `run`, ^C, ^D |
| Problem statements and batch instances (`agent/problem_statement.py`, `run/batch_instances.py`) | deployment configurations shared by instances, cached images | load, shuffle, filter, slice, convert |
| Single run, replay, run hooks (`run_single.py`, `run_replay.py`, `run_traj_to_demo.py`, `hooks/`) | trajectory and patch files, the replayed actions | `run`, convert, replay, apply patch, open pull request |
| Progress manager (`sweagent/run/_progress.py`), log handlers (`sweagent/utils/log.py`) | tables shared by threads | start, status, end; add and remove handlers |
| Maintenance commands, inspectors | none | sequential readers of finished output |

How they interact. One worker thread of the batch owns one agent, one model and
one environment. The agent calls the model and the environment synchronously;
every call to the environment is an HTTP request to the server in the container
and may time out or fail at any point. Threads meet in the global statistics,
the progress manager, the log handlers, and the output directory; launches of
the program meet in the output directory. An agent run leaves a trajectory file
from which a later launch decides whether the instance is finished.

What is hard here:

* **errors on error paths**: every failure of a step becomes an
  autosubmission, which talks to the environment that has just failed;
* **files as the only memory**: a killed batch is resumed from a trajectory
  and a prediction written at different moments;
* **budgets**: costs are added after the call was made, limits of 0 mean none,
  and several layers subtract from one budget;
* **threads** that share statistics, tables and a stop signal;
* **containers** that hang, come back or survive, with calls that end by
  timeout while the work goes on.

What makes each component correct:

* *Agent loop*: a verdict names a submission only if there is a patch; the patch
  is the tree the agent left; timeouts, execution time and cost end the run; the
  trajectory file shows a verdict exactly when the run has ended.
* *Retry agent*: money, attempts and accepted attempts stay bounded; the attempt
  returned is one that was a candidate.
* *Batch runner*: finished work is neither lost nor redone; predictions belong to
  the trajectories beside them; the merge is complete; stopping starts nothing.
* *Models*: no charge is lost between threads; the total limit stops every
  thread in time; queries keep their distance; a query ends.
* *Environment and deployment*: an attempt runs in its own container; what was
  started is stopped; a start ends.
* *Runtime server and session*: a call is executed once and gets its own answer; an
  exit code is that of its own command, however many timeouts came before.
* *Tools and parsing*: what is executed is what the model wrote; every attempt starts
  with the same tools; a refused edit leaves no trace.
* *Histories, samples, replays*: cache marks and polling survive earlier queries and
  other processors; every sample is compared; a replay repeats the run.
* *A human*: takes over and gives back with the right parser, and has the last word.
* *Selections*: every instance is run by one machine, in its own image.
* *Shared tables*: a log receives the loggers of its own instance, the report every end.

`PROJECT.json` lists every component with its status, and every hazard with the
line where it bites and the properties that guard it.

## 2. Modules

| Module | Role |
|---|---|
| `AgentContract` | abstract: what a run promises through its trajectory file |
| `AgentLoop` | `DefaultAgent` with its environment; implements `AgentContract` |
| `AgentLoopProofs` | theorems about `AgentLoop`, the refinement among them |
| `RetryLoop` | `RetryAgent` with both retry loops, reviewer and chooser |
| `BatchRun` | thread pool, output files, kill and relaunch |
| `CostStats` | `LiteLLMModel.query` in several threads |
| `Deployment` | `SWEEnv` on a `DockerDeployment` |
| `BashSession` | one shell behind a pty and the client that reads it |
| `RuntimeServer` | client and server of the remote runtime, late answers and retries |
| `Environment` | what each attempt finds in shell, disk and tools |
| `Sandboxes` | the deployments other than Docker, with the AWS resources of Fargate |
| `Workers` | log handlers and progress tables shared by the threads of a batch |
| `History` | the agent's history, the chain of processors and the messages sent |
| `Parsing` | from bundles to commands, from replies to actions |
| `Editor` | the windowed editor with linter and registry |
| `Sampling` | the two action samplers |
| `Steering` | `ShellAgent`: a human who takes over and gives back |
| `Selection` | the instances of a batch on two machines, their images and statements |
| `SingleRun` | a single run, its hooks, its trajectory and the replay |
| `RetryLoopProofs`, `BatchRunProofs` | theorems about these two modules |
| `ThreadProofs` | theorems about `CostStats` and `Workers`: what threads share |
| `DeploymentProofs` | theorems about `Deployment` and `Environment` |
| `SessionProofs` | theorems about `RuntimeServer`, `Sandboxes`, `BashSession` and `Steering`: calls, sandboxes, interrupts and the human |
| `Lists` | what a list comprehension with a condition leaves |
| `ActionProofs` | theorems about `Parsing`, `Editor`, `Sampling` and `SingleRun`: which actions are taken, and what they do |
| `InputProofs` | theorems about `Selection` and `History`: which instance an agent is given, and which conversation |
| `MCAgentLoop`, `MCBatchRun`, `MCRetryLoop` | the modules with the values of small instances |
| `MCComponents` | `Deployment` and the modules from `BashSession` to `SingleRun`, one per behaviour |

Each module abstracts what the one below it models: `RetryLoop` sees an attempt as
queries that cost money and a way to end, `BatchRun` sees a run as saves and an
outcome, `AgentLoop` sees its container as a box that answers, hangs or is gone,
and the parts of `MCComponents` open these boxes: `BashSession` is the command behind
`AgentLoop`'s `exec`, `RuntimeServer` the request that carries it, `Environment` the
calls of `setup` and `get_state`, `Parsing`, `Sampling` and `Steering` what a reply
is before it is good or bad, `History` what the query is asked with.

### AgentLoop

`pc` names the call the agent makes next, so that the environment can move
before it. A step of the code is a path through

* `forward` - the 5 hour check and the query (`OutOfTime`, `GoodReply`,
  `BadReply`, `PolicyViolation`, `CostExceeded`, `QueryFails`, `QueryRaises`);
* `exec` - `handle_action`: `ExecExit`, `ExecSyntaxError`, `ExecCompletes`,
  `ExecTimesOut`, `ExecFails`, then `Interrupted` or `InterruptFails`, and
  `Dispatch` for the retry, forfeit and submission tokens in the output;
* `state` - the state commands (`GetState`, `GetStateDegraded`, `GetStateFails`);
* `submit` and `collect` - `handle_submission` (`ReadPatch`, `ReadPatchFails`);
* `alive`, `export` - the autosubmission: `RuntimeAnswers`, `SalvageDiff`,
  `AliveCheckRaises`, `Export`, `ExportFails`;
* `record` - info, trajectory and file (`Record`, `RecordRaises`).

`cur` is the `StepOutput` under construction, `info` and `disk` are exit status and
submission in memory and in the file. The environment hangs, recovers, exits (`Hang`,
`Recover`, `ContainerExits`), and a command that timed out and was not interrupted keeps
editing (`StragglerEdits`). `fault` says what has failed: nothing, the git command of the
export, or a call. The interrupt after a timeout takes up to `InterruptTime` of the
execution time. A diff is a number; 0 is the empty one. `KeyboardInterrupt` is modelled
during a query only. `max_requeries = 0` is excluded: the loop in `forward_with_handling`
would not query at all.

### RetryLoop

Attempts are records of price, exit status and review. `NextAttempt` is
`_next_attempt` with the budget arithmetic of `_setup_agent`
(`EffectiveLimit`), `AgentQuery` and the ways an attempt ends stand for
`AgentLoop`, `OnSubmit` is the review and `retry()`, `SaveChosen` and `Return` are
the two places that call `get_best()`. `max_attempts = 0` (no bound) is excluded.

### BatchRun

`job[i]` says where `run_instance` is for instance `i`, `traj` and `pred` are the
two files - missing, torn, open (no exit status), final with the number of the
attempt that wrote them - and `merged` is `preds.json`. `Crash` kills the process
between any two steps and leaves the files, a half-written one torn; `Launch`
starts it again with any options. `FreeThread` is the pool: an instance leaves its queue
when a thread is free. `lost` is a ghost: the verdict was written and
the prediction was not. A trajectory or a
prediction may be torn by a kill, and a merge that meets a torn prediction fails;
`preds.json` is written in one step.

### CostStats

One thread is a sequence of agents' models, each a sequence of queries: retries around
samples around `_single_query`. Between two attempts of a retry agent it may use a
judge's model (`Judged`), that of the reviewer or of the chooser. These catch every
exception of a query, the total limit included, and ask again (`JudgeQueries`), and their
model lives on in the next attempt (`Kept`). `+=` under the lock is a read and a write,
every unlocked read is a step. The timestamp is the time since the last query, cut off
at the delay. `late` (calls charged over the total limit by the agent's model, or by the
current query of the judge), `earlier` (costs of the models before) and `rested` (time
since the thread's own last query) are ghosts. `NextModel` is enabled after the total
limit too: a judge may have swallowed it, and a worker may take the next instance before
the batch has cancelled its queue.

### Deployment

`launches` are the `docker run`s so far, each a client process and a container;
`runtime`, `process` and `name` are the three handles of `DockerDeployment`, 0 for
`None`. `start` is `Start`, the wait (`RuntimeIsAlive`, `WaitRaises`, `TimeOut`,
`OutputRead`) and the fallback of the bare `except` (`FallBack`, also for a Ctrl-C);
`stop` is `CloseRuntime` or `CloseRuntimeFails`, then `KillContainer` or
`NothingToKill`. `closing` records what called `stop`: the startup timeout, a
failing command (`CommandFails`), `HardReset` or `FinalClose`. All launches of a
deployment publish the same port, hence `Answering`: the container on the port
answers if it was given the token of `runtime`.

### BashSession

`tty` and `unread` are the two directions of the pty as tokens; the shell reads
(`ShellReads`) and prints (`ShellEnds`) on its own, so that a command may end after
the client has given it up. `phase` is the `expect` that `_run_normal` or
`interrupt` waits in; each may match (`OutputEnds`, `CodeArrives`,
`LastPromptArrives`, `Interrupted`) or time out. `Communicate` is
`SWEEnv.communicate` on top, with its three kinds of check.

### RuntimeServer

A call is a number, the requests sent for it are `tasks`. The client sends
(`Request`), loses a try, retries or gives up; the server handles one request at a
time: `LooksUp` (the response manager), `Executes`, `Stores`, and `Answers`. Late
requests of a call that was given up stay in `tasks` and are executed between later
ones. `executed` counts, and is a ghost.

### Environment

`todo` is the list of commands that `start`, `install`, `reset` or `get_state` still
has to run; each may fail or time out, and `communicate`'s check decides what then
happens. Between them the agent changes tree, files and shell (`ChangesTree`,
`ChangesFiles`, `ChangesShell`); `NextAttempt` is `hard_reset` on a deployment that
keeps its disk (local, remote) or gives a new one. The post-startup commands run in the
agent's own session: they may leave it in another directory (`PostDir`) and set a variable
that the tools set too. Ones that change the `ROOT` of the tools are not modelled.

### Sandboxes

`step` is the request that `start` of a Modal, Fargate, Daytona, remote or local
deployment makes next; every request may fail, and the process may be killed in
between and started again. `cloud` holds role, policies, task definition and security
group, which outlive it and are removed by the teardown. `CreateReplyLost` is a create
that was carried out and whose reply never came: the deployment knows nothing of this
box, so `SandboxesAreOwn` does not ask it to stop it (`spared`), as with the boxes of a
killed process and those whose deletion was refused.

### Workers

`at[i]` is where the thread of instance `i` is. A `for` loop over a shared set or
dictionary takes a step per element and fails when the container has changed its size
meanwhile. In `add_file_handler`, `remove_file_handler` and `n_completed` (`CountFails`)
that exception ends the worker outside of `run_instance`'s `try`. In `get_logger` it is an
exception of the run: the lock is released, the logger stays set up without the handlers
it has not met, in `cut`, and the run goes on or ends like any other. Handlers are given
to loggers whose name has the instance's id as a part, as the code does; `a1` is a part of
`a10`.

### History

The history grows by `AddStepToHistory`; each query applies the configured chain to
it. A processor that works on the entries themselves changes the history for later
queries, one that copies does not: an item of the chain's input carries its place in
the history, 0 for a copy. `Processed` is what the first `k` processors of the chain make
of it, a recursive function. `QueryAgain` adds the temporary messages of a requery.
`Processors` are the configurations that are accepted: `validate_n` refuses an `n` that is
not positive; a polling interval is taken to be positive too, since the code divides by it.

### Parsing

Three pipelines from the configured bundles: `LoadTools` (with its refusals),
`ParseReply` (each parser as an operator from messages to an action, a format error or
a crash) and `Guard` (heredocs for multi-line commands). Lines and words are atoms. The
loops over the lines of a message and of a guarded script are recursive functions:
A null argument of a call counts as given and is rendered as `None`.
`FencesRead` gives the parser's state after each line, `GuardTurns` what has been
guarded after each turn.

### Editor

A call is one process: it reads the registry (`currentFile`, `firstLine`), does its
work and writes them back. `NewErrors` is the filter of linter errors with its shift
of line numbers, `UndoEdit` the way back; `seen` remembers what the last call found. `LineEdit`
takes its text as an argument, trimmed, or from a heredoc, as it is.

### Sampling

`drawn` is every completion that was paid for, in order; `TakesSamples` and
`TakesMoreSamples` are `get_completions`, `Compares` one turn of the loop in
`get_action`. `TakesNoList` is the request for a single sample, which returns no list.

### Steering

A step of `DefaultAgent` is cut into the moments between which ^C may come: query,
action, history, info, save, and the loop of `run()`. `driver` and `parser` are the
model and parser in place, `aside` those that `human_step_in` has set aside.

### Selection

Two machines load the same file, possibly in another order, and take slices of it.
`LoadedFirst` is the loop over the rows, `Order` the stable sort before a shuffle: an
item's `Rank` counts those with a smaller id and those with its own up to itself.
Deployment configurations are objects, referred to by their place in `configs`, so that
a missing copy shows. A row with an image's name that is empty is accepted for every
deployment, one with a name is refused by a local one. The askers of a statement race for
its images; `disabling` are the attempts whose agent configuration sets
`disable_image_processing`, which nothing resets on the statement.

### SingleRun

`RunSingle.run` with its saves, hooks and a kill between any two of them leaves
`traj`; the trajectory is replayed directly or converted to a demonstration first.
`reran` is what the replay executes, `ran` what the run executed.

### MCComponents

The parts share no state, so a product of them would say no more than each
alone. `part` chooses one of them initially and the others rest in one fixed initial
state; the states are the sum, not the product, of the parts.

## 3. Runs

| Run | Shows |
|---|---|
| `agent` | `TypeOK`; `StatusHonest`: a verdict has its patch; `TimeoutStreak`, `ExecBudget`: the two limits hold across requeries; `SubmissionIsCurrent`: a run without a failing call submits its tree, and that or nothing when only git fails; `KeepsContract`: refinement of `AgentContract`; `Terminates`: a cost limit ends the run |
| `agent_salvage` (violation) | the diff salvaged for a dead runtime is lost, because `step()` then reads files of that runtime before it records anything |
| `batch` | `FinalKept`, `SkippedIsPredicted`, `PredictionMatches`: resuming is sound; `MergeIsComplete`, `MergeIsFresh`; `NoLateStart`: stopping; `LaunchEnds`: a launch ends unless an instance never comes back; `PoolGoesOn`: such an instance keeps the others waiting only when all threads are lost |
| `batch_patches` (violation) | a kill or a failing `env.close()` between the two files loses a prediction for good, against `docs/usage/batch_mode.md` |
| `retry` | `FailsafeUnreachable`, `BudgetHolds`, `AcceptsBounded`, `ChoiceIsCandidate` for both loops; `RunEnds`: a run ends unless it stays in a reset or in an attempt without a limit |
| `retry_budget` (violation) | a budget spent exactly becomes the limit 0, which is no limit |
| `retry_fallback` (violation) | a failing chooser query selects an attempt that was filtered out |
| `retry_total` (violation) | reviewer and chooser swallow the total cost limit |
| `costs` | `TotalIsSum`: no charge is lost; `LateChargeOnce`: over the total limit an agent's model charges once more at most, and each query of a judge, under all interleavings |
| `pacing` | `QuerySpacing`: a thread keeps its own distance; `QueryEnds`: every query ends |
| `deployment_start` (violation) | at the startup timeout `start()` waits for the end of a container that should be stopped |
| `components` | `ExitCodeResyncs`: an observation with an exit code is in step with its command again, whatever timed out before; `AnswersAreOwn`: no call is executed twice, none gets another's response; `EnvironmentIsSound`: every attempt starts alike, the state shown is that of the last action; `SandboxesAreOwn`: stop leaves no task, a start talks to its own box, a task has all its policies; `ResetIsFresh`: never the container of an earlier attempt; `NoLeak`: a `close()` that returns has left nothing running unless `docker kill` failed; `StartIsUnnamed`: the assertion of `start()` holds; `ConversationHolds`: cache marks and polling; `ActionsAreWhole`: blocks, calls and multi-line commands arrive whole; `EditsAreSound`: refused edits are undone, accepted ones add no error; `SamplesAreUsed`: every different sample is compared, the best is chosen; `SteeringIsSound`: model and parser belong together, the human ends the run; `SelectionIsSound`: machines share all instances, images are own, attempts read alike unless one disables images; `ReplayRepeats`: a replay executes what was recorded; `LogsFollowInstances`: a log has the loggers of its instance but those that were cut short, and is let go of by all; `ReportKeepsEveryEnd`: the report keeps every instance under its own status |

A violation run checks one property that the source claims; the finding in
`PROJECT.json` quotes the claim.

Every property of a passing run has a mutant: a variant of one definition, kept
next to it under a name with `Mutant`, that a plausible bug would turn it into
and under which TLC finds the property violated.

### Bounds and why they are enough

* `agent`: two requeries and two timeouts make "the last of several" differ from
  "the first"; an execution limit of 3 with commands of 2 lets one command
  overrun it; four queries leave room for failure, retry and submission in one
  run; two patches tell a current one from an old one.
* `batch`: two instances, one or two workers and two launches. Each launch
  chooses its options, so a sequential one may resume a parallel one, with or
  without `redo_existing`. A property speaks of one instance, or of one
  instance and the main thread; the second instance is what fills the pool.
* `retry`: three attempts with two configurations that take turns, prices up to 2
  against a budget of 3, so that a budget is missed, met exactly and overrun.
* `costs`: two threads, each with two agents' models and a judge that is
  asked twice in between; queries of one or two samples, two tries. The total limit is
  passed by the third call, so one thread may be anywhere in a query when the other
  passes it, and a judge may ask again after it was passed. No delay. The theorems
  cover any number of threads.
* `pacing`: two threads, a judge that is asked once, a delay of two ticks; liveness
  needs a smaller instance.
* `components`, part by part. *Session*: three commands, of which the first may time out,
  the second meet its leftovers and the third be in step again; one interrupt with its two
  tries at a kill. *Deployment*: three starts, each with two `docker run`s, so that a
  container of the first start may be on the port of the second and third. *Server*: three
  calls, so that a call given up can be answered during the second and third; no retries,
  because no caller of the program asks for any: the response manager is there and is
  never needed, and its use with retries is outside of what the run shows. *History*: nine
  chains, each pairing two processors that touch the same fields, and three steps, more
  than any `n` in them. *Parsing*: messages of up to four lines (a block within a block
  needs four fences), all combinations of arguments, signatures and calls for two tools,
  among them the commands without arguments that can not be rendered. *Editor*: windows of
  two lines with an overlap of one on texts of up to five pieces, two edits in a row.
  *Selection*: three ids, filters that match all of them or all but the smallest, slices
  cut at -1 to 2 or by turns, two machines. *Sandboxes*: three boxes, that is a killed
  start, a failed one and one more. *SingleRun*: two actions and the submission, three
  requeries. *Environment*: three bundles with one install script each that the order
  matters for, two attempts. *Steering*: four steps and interruptions, enough to take
  over, give back and take over again. *Sampling*: three actions, one of them an edit,
  four configurations; up to four samples, all responses of the comparisons. *Workers*: three instances with
  nested ids on two threads: while one thread iterates, another may remove a handler and
  add that of the next instance, which leaves the size as it was; the theorems cover any
  number of threads and instances.

`MaxSessions`, `MaxCalls`, `MaxSamples`, `MaxModels`, `MaxAsks`, `InterruptTime`,
`MaxStarts`, `MaxCommands`, `MaxInterrupts`, `MaxRequests`, `MaxSteps`, `MaxLines`,
`MaxEdits`, `MaxText`, `MaxBoxes`, `MaxActions`, `MaxVersion`, `MaxAttempts` of
`Environment` and `MaxTurns` bound what the program leaves unbounded; the other constants
are its configuration.

Of the type invariants only that of `AgentLoop` is in a run: `BatchRunProofs`,
`RetryLoopProofs`, `ThreadProofs` and `DeploymentProofs` prove the others for every
instance, as theorems or as part of their invariants. Deadlock is not checked in
`components`, where the parts come to an end.

### Fairness

* `AgentLoop`: weak fairness of the agent's step. Every call to the environment
  has a client timeout, so it returns or raises. The environment owes nothing:
  a hung container may hang for ever. The cost limit is needed because a retry
  token queries again without counting a failure.
* `BatchRun`: threads are scheduled, and file writes and `env.close()` end (weak fairness
  of each worker there, and of the main thread). Nothing is assumed of a worker inside
  `env.start()` or `agent.run()`: at the startup timeout `docker.py:111` may wait for ever
  (run `deployment_start`), and an agent run may reset its environment or have no cost
  limit. `LaunchEnds` and `PoolGoesOn` therefore name the instances that never come back.
  Nor is it assumed that the user interrupts.
* `RetryLoop`: weak fairness of the thread, but neither in a reset, which starts a container, nor
  in an attempt whose limit is 0 or negative, which has no bound (run `retry_budget`); with a
  positive limit `AgentLoop!Terminates` gives the end. `RunEnds` names the two exceptions.
* `CostStats`: time passes, calls have a client timeout, and a thread that waits
  for the lock gets it: the lock is held for an addition only, hence strong
  fairness per thread. No agent or judge is assumed to ask.
* `Deployment`: weak fairness of the thread, none of the containers.
* The parts of `components` claim safety only and assume no fairness.

## 4. Proofs

All theorems hold for every value of the constants that the named assumptions of the
modules admit. Where a property is not inductive, the proof module states an invariant
that is; TLC was asked on small instances before a proof was tried. Every proof has the
same layout: lemmas about the operators that several actions share, one lemma per action
or group of actions, then the invariant, then the theorems that follow from it.

### The agent loop (`AgentLoopProofs`)

* `TypeCorrect`: `Spec => []TypeOK`;
* `HonestVerdict`, `TimeoutsBounded`, `TimeBounded`: `StatusHonest`,
  `TimeoutStreak` and `ExecBudget`;
* `SubmitsTheTree`: `SubmissionIsCurrent`;
* `ImplementsContract`: `AgentLoop` implements `AgentContract` under the mapping
  that shows `disk` and hides the rest.

They rest on the assumption `LoopAssumption` about the constants alone. None of
these properties is inductive: whether a verdict is honest at the end depends
on what the step looked like at the calls before. `LoopInv` adds that: a step
that is not done has no verdict, a step on its way to the autosubmission has the
failure's verdict and no submission, the file shows no verdict before the last
`Record`, the execution time is within the limit whenever a query may start, and
the streak is below its limit outside the error path. Helpers shared by actions
(`GiveUp`, `CountFailure`, `Dispatch`, `WithSubmission`) have lemmas of their own. The
refinement then needs only `LoopInv`: `Record` of a last step is `Finish`, an exception
is `Abort`, every other step stutters. `SubmitsTheTree` adds `CurrentInv`: as long as
no call has failed and no command is left running, a diff that is on its way
(written to the container, read by the step, recorded) is that of the tree as it is; only
a failing git of the export may leave an empty file instead.

### Threads that share a process (`ThreadProofs`)

For `CostStats`, with any number of threads, any prices and any limits:

* `TypeCorrect`;
* `ChargesOrdered`: whoever is between the read and the write of `+=` holds the
  lock and has read the current total (`LockHeld`), and a query that has made a
  late charge is on its way to the check that ends it or has met it, with the total over the
  limit for good (`LateIsLast`);
* `LateCharges`: `LateChargeOnce`, which follows. `LockHeld` is needed because
  without it a write could lower the total below the limit again, and the check
  would let the query pass;
* `QueriesSpaced`: `QuerySpacing`, since the shared timestamp is never older than a thread's
  own last query, and what has been slept of a delay has passed since then too (`Spaced`);
* `TotalsAreSums`: `TotalIsSum`. With `LockHeld` the equation is inductive, but the sum over
  all threads is a fold, and that a charge of one thread raises it by just that charge
  is an induction over the set of threads. It is done by hand, through the smallest
  counterexample among the sets of threads (`WFMin`): `SumExists` and `SumsDiffer`.

For `Workers` (`LogsFollow`, `ReportKeeps`), with any number of threads and instances
whose ids nest in any way: for the logs, a loop over loggers or handlers has the lock
(`LoopLocked`), the logger a worker makes is, beside the ones that were cut short, the
only one its own handler may still miss (`Attached`), a loop that attaches meets no
handler on its way out (`Meets`), and one that detaches has met all loggers of its handler
or notices that there are more now (`Detached`); for the report, what has ended is in the
table (`Entered`), in the file and in the copy that is being written (`Written`), and once
only (`TablesOnce`). That no instance is named "free" is a matter of the model: it stands
for a lock nobody holds.

### Batches (`BatchRunProofs`)

`TypeCorrect`, `PredictionsMatch`, `SkipsArePredicted`, `MergesAreComplete`,
`MergesAreFresh`, `FinalsAreKept`, `NoneStartsLate`: the properties of run `batch`, for any
instances, workers and launches. `BatchInv` follows one instance at a time through its
outcome, the attempt that is running, its trajectory file and its prediction file
(`OutcomeInv`, `AttemptInv`, `TrajInv`, `PredInv`) and relates them to the control of the
main thread (`MainInv`). The trajectory is
needed because a launch after a kill decides from that file alone whether an
instance is done; that the prediction then is of the same attempt is `PredInv`.

### Retries (`RetryLoopProofs`)

`RetryIsInvariant`, `FailsafeNeverTaken`, `BudgetKept`, `AcceptsKept`,
`ChoicesAreCandidates`, `AttemptsBounded` for both loops, any prices, scores and
limits. `RetryInv` is `TypeOK` with `WithinBudget` (what `retry()` has checked
still holds while the next attempt runs, since only the end of an attempt adds to the
cost of the loop), `WithinLimit` (an attempt ends with the query that exceeds its
limit), `WithinBounds` (the loop goes on below its bounds and ends within them) and
`WellChosen` (nothing is chosen before the last attempt has ended; then there is
something to choose from).

### Deployments and environment (`DeploymentProofs`)

`ResetsAreFresh`, `NoneLeaks`, `StartsAreUnnamed`: `DeploymentInv` is `TypeOK` with
`Labelled` (a launch has the name and the token of one and the same start), `Handled` (the
deployment knows name, process and token of its last start, or none), `Located` (what
`start()` has until it returns or gives up) and `Killable` (what runs has the name that
the next `docker kill` is for).
`AttemptsAreSound` is `EnvironmentIsSound`, for any bundles and any order of their
files: `EnvironmentInv` says that the commands still to do are the end of the whole
sequence (`Aligned`), what the first `k` commands have prepared in shell, disk and tools
(`Prepared`), and what the state commands that have run show (`Observed`).
`SetupSequence` computes the sequence from the bundles.

### Remote runtime and sandboxes (`SessionProofs`)

`AnswersReturnHome`: with any number of retries nobody gets the answer to another call.
`CallsRunOnce`: `AnswersAreOwn` as a whole under `NumRetries = 0`, the default of
`_request` (`swerex/runtime/remote.py:165`) that every caller uses; with retries a call
runs twice when the second try arrives before the first one's response is remembered.
`SandboxesHold` is `SandboxesAreOwn`: `SandboxesInv` adds which box a deployment knows at
each step (`Handled`), that whatever still lives and was not given up, or never heard of,
is that box (`Reachable`), and the order in which the AWS resources are made (`Ordered`).

### Interrupts (`SessionProofs`)

`ExitCodesResync` is `ExitCodeResyncs`, for any number of commands and interrupts:
unless the session is lost, `InStep` says that the command is still before the shell or
in it (`Underway`), that the line that asks for its exit code is the last one (`Asked`),
or that the answer and the prompt behind it end what was printed (`Arrived`).
`SteeringHolds` is `SteeringIsSound`: the model that drives has its parser, and a human
who has stepped in has set aside the configured model with its own (`Seated`); info and
file have the driver of the step (`Followed`).

### Actions (`ActionProofs`)

`EditsHold` is `EditsAreSound`, for windows and overlaps of any size, any texts and any
pieces. Its invariant only adds the types (a text is never empty) to the property; the
work is in the operators. Every edit is one that `undo_edit` leads back from (`IsEdit`,
`UndoLeadsBack`), which needs that the first line that a call finds is a fixed point of the
clamp in the constructor. When the filter reports nothing, the errors below the edited line
are errors from before, moved, so there is an injection (`FilterCounts`). That a
replacement leaves a text is an induction over its lines, again by hand
(`FlattenFull`, through `LeastOne`).

The filters of `Sampling`, `SingleRun`, `Parsing`, `Selection` and `History` are recursive
functions (`Lists`), because the prover knows nothing of `SelectSeq`: `KeptSteps` gives
their recursion, `KeptPlaces` says where the elements that stay come from,
`FilteredAppend` and `FilteredTail` what one more element or a prefix that goes does.

`SamplesUsed` is `SamplesAreUsed`, for any sets of actions and of edits and any numbers of
samples. The samples that are compared are `Ranked`: the actions among those drawn, each
once, in the order they were first drawn. Filtering again what was filtered and then
extended keeps that (`RankedMore`), since an action that comes first is kept first. During
the comparison the best so far has `Won`: it beat the one before it and has been beaten by
none since.

`ReplaysRepeat` is `ReplayRepeats`, for runs and histories of any length. The history is
the demonstrations, the recorded actions and at most one error (`Tells`); what is saved is
the history or all but its last entry (`StorySaved`); so the replay's script is the
recorded actions up to the last save and at most one entry without an action
(`ScriptTold`), and the replay has executed as many of them as it has asked for
(`Repeats`) until it submits (`Repeated`).

`ActionsStayWhole` is `ActionsAreWhole`, for messages and scripts of any length and all
commands that the configuration can load (`ParsingAssumption` only gives the types of
commands, calls and scripts). Its three parts have an argument each:

* *Blocks.* The property says what the last block is without a stack: by counting, a
  fence opens a block that ends where bare and named fences between balance and never
  ran into the negative, and the first fence behind it is never closed. The invariant of the
  fold over the lines (`FencesSound`) says of every place of the stack how many blocks are
  open above it, and that what is closed below the stack is a block of that kind.
* *Calls.* `validate_arguments` makes the fields of the invocation format the names of the
  arguments, and the checks of a call make what it gives a subset of these, with all
  that are required; so no field is left without a value (no `KeyError`) and no argument is
  dropped. The proof failed for one kind of command, and TLC then found it: without
  arguments `validate_arguments` returns before it compares anything (`commands.py:180`), so
  a signature with a field is accepted and every call of the command crashes. These
  commands (`Unrenderable`) are excepted by `CallsRender` and are among
  those the run loads. No bundle of the repository has one.
* *Multi-line commands.* The guard's second turn finds no further command, and every
  turn after that changes nothing.

### Instances and conversations (`InputProofs`)

`BatchesAreSound` is `SelectionIsSound`, for any finite set of ids, any filters, any cuts
(negative ones and those beyond the end included) and any permutations that the shuffle
may make (`SelectionAssumption`). `SelectionInv` says that the machines read the same
instances (`FilesAgree`), that what a machine has is nothing yet, or exactly what loading,
filtering and slicing its file gives (`MachinesLoad`), and that an attempt that was given
a statement with images was given the cached one, or the text alone from the first that
disables images on (`AttemptsCache`). The rest is about lists:

* *Sorting.* Items with different ids have different ranks (`RanksDiffer`), so the item
  in place `k` of the sorted list is the one whose id has `k` ids up to it (`NthPlace`): two files
  with the same ids are sorted, and then shuffled, to lists with the same ids.
* *Filtering.* Lists with the same ids are filtered to lists with the same ids (`FilterAlike`),
  and what is left has just the ids of the filter, each once (`FilterKeeps`).
* *Slicing.* Two slices that share a list give every place to one of the two
  (`SlicesShare`), which comes down to counting every second place.
* *Loading.* After `k` rows there are `k` items, each with a config of its own that
  has its image, and the source's config is as it was: an induction over the file.

`ConversationsHold` is `ConversationHolds`, for histories of any length, any observations
and any chain that `Composes`. `HistoryInv` (`HistoryKeepsInv`, for all chains) says that the
messages of a query are what the chain leaves of the history (`Asked`), those of the step before
what it left of the history without that step (`AskedBefore`), and that what was appended is as
it was (`Fresh`). It is needed because a query changes the history it reads: the entries
that are there at the next step are not those the last one saw. `StagesKeep` says that they differ
in tags, marks and shapes only, and that role, type and text of a stored entry are
never touched by any processor. `HistoryInv` quantifies over histories, so TLC has
checked it (64,768 states) with the history of each query kept in an auxiliary variable.

A chain composes when

* what comes after `cache_control` only adds tags or removes texts (`KeepsMarks`). A processor
  that copies or drops messages after the marks were set may take one away;
* what stands beside `last_n_observations` leaves the texts alone, or removes the same from all of
  them (`KeepsTexts`). `closed_window` changes an earlier text whenever a file is shown again, and
  `remove_regex` with `keep_last` does when a message is old enough, polling or not.

Every chain in the repository's `config` directory composes (`cache_control` alone,
`last_n_observations` alone, `remove_regex` before `cache_control`), as do seven of the nine of
run `components`. The other two have `cache_control` before `closed_window` or between two
`image_parsing`; for these `ConversationHolds` is only model-checked.

### Only model-checked

* Liveness: `Terminates`, `LaunchEnds`, `PoolGoesOn`, `RunEnds`, `QueryEnds`. Liveness
  under fairness and `ENABLED` are out of the prover's reach.
* `ConversationHolds` for chains that do not compose, see above.

## 5. Plan

Order: the agent loop first, because everything else runs or resumes it; then
what decides from its results (retry loop, batch); then what they stand on.

1. Done: `AgentContract`, `AgentLoop` with proofs, `RetryLoop`, `BatchRun`,
   `CostStats` with proofs, `Deployment`.
2. Done: the parts of `components`, and `Workers`.
3. Left: the evaluation hook's background submissions and merges within `BatchRun`; the
   review before submission (`review_on_submit_m`); `str_replace_editor`; liveness of a
   session whose shell goes on.
4. Theorems: done for every invariant and action property that a run checks. Left:
   `ConversationHolds` for chains that the other processors may break.

## 6. What is not modelled, and what was observed on the way

Left out on purpose: prompts, templates, wording and layout of logs, command-line
parsing, loading of configuration and data sets, image building, agent and environment
hooks other than those named above, the edit-format parser, the browser, inspectors
and maintenance scripts (sequential readers of finished output). `repo.py` is not
called by the code: its calls in `swe_env.py` are commented out. `PROJECT.json` gives
the reason per component.

Known gaps of the modules: two workers that share `agent_config` and race for its
`name`, which only goes into logs (`run_batch.py:336`); a `preds.json` torn by a kill;
`find_free_port` of two deployments at once; interactive commands of a session;
`HumanThoughtModel`, whose prompts do not catch ^C; commands that print
prompts or markers themselves.

Observed while modelling, in the model and without a property of its own:

* `total_execution_timeout` of the tool configuration is not read; `forward()`
  compares with five hours.
* A timeout of a state command ends the run with `exit_command_timeout`, after
  one timeout, as if it were the last of several.
* A chooser that fails is asked again by the next `get_best()`, so the file and
  the result of a run may name different attempts.
* An exception out of `agent.step()` within an attempt leaves that attempt without
  an exit status: the autosubmission result of `RetryAgent.step` only ends the
  loop.
* A `.pred` file torn by a kill beside a finished trajectory is skipped by every
  later launch and fails each of their merges.
* `_sleep` reads the timestamp without the lock, so two threads can query at the
  same moment; `QuerySpacing` therefore speaks of a thread's own queries.
* `stop()` raises when the runtime does not answer its `close`, and then kills
  nothing: the container of a hung runtime outlives the run. After a startup
  timeout whose `stop()` returned, the container has no name and the fallback
  fails with a `TypeError`.

Session, server and environment:

* With retries configured, a retry of a request that is still running, or that failed,
  is executed again (`server.py:82`).
* `LocalRuntime` keeps closed sessions in its table, and sessions whose start timed out.
* `communicate(check="ignore")` still asks for the exit code, against its docstring.
* `_copy_repo()` and the reset commands are commented out: on a deployment that keeps
  its disk an attempt starts on the tree of the one before. `ToolHandler.reset`
  overwrites the environment file after `install` has written it. `diff_state` shows an
  old `model.patch` when its git failed.
* Modal's `stop` terminates a sandbox only if it has exited already, and then unsets
  `_app`, so that a later start creates a sandbox and raises. A security group left
  without its rule by a killed start is never given it (`aws.py:176`). `delete_role` of
  the teardown does not detach policies. The Fargate command lacks the auth token that
  the client sends. `stop()` of a remote deployment raises when it is not started.

Threads:

* A thread may add or remove a handler or an exit status while another iterates over the
  table: the iteration fails with a `RuntimeError` (`log.py:80`, `log.py:117`,
  `_progress.py:83`, `_progress.py:147`). At `log.py:80` the new logger has been entered
  as set up and misses the log file of its instance for good, against the docstring of
  `add_file_handler`; at `_progress.py:83` an instance is lost, neither run nor reported.
* A reviewer or chooser that meets the total cost limit asks its model again, and pays
  each time.
* `SweBenchEvaluate.check_running_calls` is never called.

Parsing, tools and histories:

* `FunctionCallingParser` meets arguments that are a dictionary already with an unbound
  variable, and JSON that is no object with an `AttributeError`; `JsonParser` a missing
  argument with a `KeyError`. These end the run as unknown errors instead of asking again.
* A last `</command>` before the last `<command>` gives an empty action. Commands without
  arguments are not validated: one whose signature has a field is accepted, and a call of
  it is a `KeyError`. A second multi-line command in one action has its heredoc misplaced,
  and text before the first one is lost.
* `undo_edit` of `str_replace_editor` fails always. The windows of lint messages are off
  by one; "insert after" inserts before; each `open` without a line moves the window up.
* `ClosedWindow` drops a message with numbered lines but no header; a chain that
  continues with image parsing or elision loses the marks of `cache_control`.

Runs:

* A replay of a history that ended in an error is refused with function calling
  (`run_replay.py:162`); demonstrations in a history are replayed as actions; actions
  that were retried are not in it. `RunSingle` saves its prediction and closes its
  environment only when the run returns.
* ^C while the robot's last step is being saved ends the run with that step, although
  "Human has to submit the solution" (`shell_agent.py:95`): `SteeringIsSound` excludes
  this moment. ^C between the two history entries of a step leaves a tool call
  without its answer. A human's typing errors count as format errors and may end the run.
* `query(n=1)` returns a dictionary: with `min_n_samples = 1`, or with `max_n_samples` one
  more than it, the sampler raises after paying. `comparison_temperature` reaches no call:
  `n` is 1 by default and `_query` then drops the temperature. A last line that names both
  counts as the first.
