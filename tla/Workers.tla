------------------------------ MODULE Workers ------------------------------
(***************************************************************************)
(* What the threads of a batch share beside the files of BatchRun: the     *)
(* loggers and file handlers of sweagent/utils/log.py and the tables of    *)
(* RunBatchProgressManager (sweagent/run/_progress.py), used by            *)
(* RunBatch.run_instance.                                                  *)
(*                                                                         *)
(* Data: an instance is its worker; the logger <<k, i>> is the one of kind *)
(* k that the thread of instance i asks for, its name ends in i's id.  The *)
(* three log files of an instance are one handler, named i.  A for loop    *)
(* over a set or a dictionary takes a step per element and fails when the  *)
(* container has changed its size since it began.                          *)
(***************************************************************************)
EXTENDS Integers, FiniteSets, Sequences, SequencesExt

CONSTANTS
  Instances,   \* instances of the batch
  Kinds,       \* names of loggers a worker asks for
  Inside,      \* Inside[i]: the instances whose id is a part of i's id, i among them
  NumWorkers,  \* threads of the pool
  Statuses     \* exit statuses of agent runs

ASSUME WorkersAssumption ==
  /\ Inside \in [Instances -> SUBSET Instances] /\ \A i \in Instances : i \in Inside[i]
  /\ NumWorkers \in Nat \ {0}
  /\ "free" \notin Instances

VARIABLES
  at,         \* where each worker is
  loop,       \* its loop: elements to visit, size of the container at the start
  ends,       \* the exit status it reports
  setUp,      \* _SET_UP_LOGGERS
  handlers,   \* _ADDITIONAL_HANDLERS: the ids in it
  attached,   \* the file handlers of each logger
  cut,        \* the loggers whose set-up a change of _ADDITIONAL_HANDLERS cut short
  logLock,    \* who holds _LOG_LOCK
  byStatus,   \* _instances_by_exit_status
  spinners,   \* _spinner_tasks on the progress bar
  report,     \* the yaml file
  snapshot,   \* what a worker is about to write into it
  tableLock   \* who holds RunBatchProgressManager._lock

loggerVars == <<setUp, handlers, attached, cut, logLock>>
progressVars == <<byStatus, spinners, report, snapshot, tableLock>>
workerVars == <<at, loop, ends, loggerVars, progressVars>>

Loggers == Kinds \X Instances
Reports == Statuses \cup {"skipped", "Uncaught"}
Free == "free"
Finished == {"done", "stopped", "failed"}
Active == {i \in Instances : at[i] \notin Finished \cup {"queued"}}

NoDump == [s \in Reports |-> <<>>]
NoLoop == [todo |-> {}, size |-> 0, logger |-> <<>>]

WorkersInit ==
  /\ at = [i \in Instances |-> "queued"]
  /\ loop = [i \in Instances |-> NoLoop]
  /\ ends = [i \in Instances |-> "none"]
  /\ setUp = {} /\ handlers = {} /\ cut = {} /\ logLock = Free
  /\ attached = [l \in Loggers |-> {}]
  /\ byStatus = NoDump /\ spinners = {}
  /\ report = NoDump /\ snapshot = [i \in Instances |-> NoDump] /\ tableLock = Free

Goes(i, from, to) == at[i] = from /\ at' = [at EXCEPT ![i] = to]

\* An exception outside of run_instance's try: the worker is gone, with its locks.
Fails(i) ==
  /\ at' = [at EXCEPT ![i] = "failed"]
  /\ logLock' = IF logLock = i THEN Free ELSE logLock

-----------------------------------------------------------------------------
(* Loops under _LOG_LOCK *)

\* The filter of a handler is its instance's id, and it is looked for anywhere in
\* the name of the logger.
Matching(h, l) == h \in Inside[l[2]]

BeginLoop(i, from, to, container) ==
  /\ Goes(i, from, to) /\ logLock = Free
  /\ logLock' = i
  /\ loop' = [loop EXCEPT ![i] = [todo |-> container, size |-> Cardinality(container),
                                  logger |-> @.logger]]

\* One turn of the loop; body says what it does to attached.
Turn(i, phase, container, Body(_)) ==
  /\ at[i] = phase /\ Cardinality(container) = loop[i].size
  /\ \E x \in loop[i].todo :
       attached' = Body(x) /\ loop' = [loop EXCEPT ![i].todo = @ \ {x}]
  /\ UNCHANGED <<at, logLock>>

\* The next turn raises: the container has another size than when the loop began.
Changed(i, phase, container) == at[i] = phase /\ Cardinality(container) # loop[i].size

EndLoop(i, from, to, container) ==
  /\ Goes(i, from, to) /\ loop[i].todo = {} /\ Cardinality(container) = loop[i].size
  /\ logLock' = Free /\ loop' = [loop EXCEPT ![i] = NoLoop]

-----------------------------------------------------------------------------
(* add_file_handler, get_logger, remove_file_handler *)

\* A thread of the pool takes an instance and registers its name.
TakesInstance(i) ==
  /\ Goes(i, "queued", "add") /\ Cardinality(Active) < NumWorkers
  /\ UNCHANGED <<loop, ends, loggerVars, progressVars>>

Adds(i) ==
  \/ /\ BeginLoop(i, "add", "adding", setUp)
     /\ UNCHANGED <<ends, setUp, handlers, attached, cut, progressVars>>
  \/ /\ Turn(i, "adding", setUp, LAMBDA l :
             IF Matching(i, l) THEN [attached EXCEPT ![l] = @ \cup {i}] ELSE attached)
     /\ UNCHANGED <<ends, setUp, handlers, cut, progressVars>>
  \/ /\ Changed(i, "adding", setUp) /\ Fails(i)
     /\ UNCHANGED <<loop, ends, setUp, handlers, attached, cut, progressVars>>
  \/ /\ EndLoop(i, "adding", "enter", setUp)
     /\ UNCHANGED <<ends, setUp, handlers, attached, cut, progressVars>>

\* The handler enters the table after the lock was released.
EntersMutant(i) ==
  /\ Goes(i, "enter", "start")
  /\ UNCHANGED <<loop, ends, loggerVars, progressVars>>
Enters(i) ==
  /\ Goes(i, "enter", "start")
  /\ handlers' = handlers \cup {i}
  /\ UNCHANGED <<loop, ends, setUp, attached, cut, logLock, progressVars>>

\* A logger that has handlers is returned as it is; a new one enters the set
\* before the lock is taken, and meets the handlers of the table under it. When
\* that loop raises, the logger stays as it is, and so in the set. The exception is
\* one of the run, inside of run_instance's try: it ends the run (RunsInstance), or
\* the retries of a query and the error paths of the agent swallow it.
GetsLogger(i) ==
  \/ /\ Goes(i, "running", "logger")
     /\ \E k \in Kinds : /\ <<k, i>> \notin setUp /\ setUp' = setUp \cup {<<k, i>>}
                         /\ loop' = [loop EXCEPT ![i].logger = <<<<k, i>>>>]
     /\ UNCHANGED <<ends, handlers, attached, cut, logLock, progressVars>>
  \/ /\ BeginLoop(i, "logger", "attaching", handlers)
     /\ UNCHANGED <<ends, setUp, handlers, attached, cut, progressVars>>
  \/ /\ Turn(i, "attaching", handlers, LAMBDA h :
             LET l == Head(loop[i].logger)
             IN IF Matching(h, l) THEN [attached EXCEPT ![l] = @ \cup {h}] ELSE attached)
     /\ UNCHANGED <<ends, setUp, handlers, cut, progressVars>>
  \/ /\ Changed(i, "attaching", handlers)
     /\ Goes(i, "attaching", "running") /\ logLock' = Free
     /\ loop' = [loop EXCEPT ![i] = NoLoop] /\ cut' = cut \cup {Head(loop[i].logger)}
     /\ UNCHANGED <<ends, setUp, handlers, attached, progressVars>>
  \/ /\ EndLoop(i, "attaching", "running", handlers)
     /\ UNCHANGED <<ends, setUp, handlers, attached, cut, progressVars>>

\* The handler leaves the table before the lock is taken.
RemovesMutant(i) == at[i] = "remove" /\ at' = [at EXCEPT ![i] = "done"]
                    /\ handlers' = handlers \ {i}
                    /\ UNCHANGED <<loop, ends, setUp, attached, cut, logLock, progressVars>>
Removes(i) ==
  \/ /\ Goes(i, "remove", "removing")
     /\ handlers' = handlers \ {i}
     /\ UNCHANGED <<loop, ends, setUp, attached, cut, logLock, progressVars>>
  \/ /\ BeginLoop(i, "removing", "detaching", setUp)
     /\ UNCHANGED <<ends, setUp, handlers, attached, cut, progressVars>>
  \/ /\ Turn(i, "detaching", setUp, LAMBDA l : [attached EXCEPT ![l] = @ \ {i}])
     /\ UNCHANGED <<ends, setUp, handlers, cut, progressVars>>
  \/ /\ Changed(i, "detaching", setUp) /\ Fails(i)
     /\ UNCHANGED <<loop, ends, setUp, handlers, attached, cut, progressVars>>
  \/ /\ EndLoop(i, "detaching", IF ends[i] = "none" THEN "stopped" ELSE "done", setUp)
     /\ UNCHANGED <<ends, setUp, handlers, attached, cut, progressVars>>

-----------------------------------------------------------------------------
(* run_instance and the progress manager *)

ProgressIs(bs, sp, tl) ==
  byStatus' = bs /\ spinners' = sp /\ tableLock' = tl /\ UNCHANGED <<loop, loggerVars>>

\* n_completed sums over the exit statuses without the lock: one that enters the
\* dictionary meanwhile makes it raise, outside of the try.
CountFails(i) ==
  /\ at[i] = "start" /\ byStatus # NoDump /\ Fails(i)
  /\ UNCHANGED <<loop, ends, setUp, handlers, attached, cut, progressVars>>

\* on_instance_start
StartsInstance(i) ==
  /\ Goes(i, "start", "check") /\ tableLock = Free
  /\ ProgressIs(byStatus, spinners \cup {i}, Free)
  /\ UNCHANGED <<ends, report, snapshot>>

\* should_skip finds an earlier result, or the instance is run.
ChecksSkip(i) ==
  /\ \/ Goes(i, "check", "append") /\ ends' = [ends EXCEPT ![i] = "skipped"]
     \/ Goes(i, "check", "running") /\ UNCHANGED ends
  /\ UNCHANGED <<loop, loggerVars, progressVars>>

\* The run returns a status, raises, or stops the loop over the instances: then
\* on_instance_end is not called.
RunsInstance(i) ==
  /\ \/ /\ Goes(i, "running", "append")
        /\ \E s \in Statuses \cup {"Uncaught"} : ends' = [ends EXCEPT ![i] = s]
     \/ Goes(i, "running", "remove") /\ UNCHANGED ends
  /\ UNCHANGED <<loop, loggerVars, progressVars>>

\* on_instance_end: the entry is made without the lock,
EndsInstance(i) ==
  /\ Goes(i, "append", "advance")
  /\ ProgressIs([byStatus EXCEPT ![ends[i]] = Append(@, i)], spinners, tableLock)
  /\ UNCHANGED <<ends, report, snapshot>>

\* the spinner goes under it,
Advances(i) ==
  /\ Goes(i, "advance", "save") /\ tableLock = Free
  /\ ProgressIs(byStatus, spinners \ {i}, Free)
  /\ UNCHANGED <<ends, report, snapshot>>

\* and the yaml report is a dump made and written under it.
TableLockFreeMutant == TRUE
TableLockFree == tableLock = Free

DumpsReport(i) ==
  /\ Goes(i, "save", "saving") /\ TableLockFree
  /\ snapshot' = [snapshot EXCEPT ![i] = byStatus]
  /\ ProgressIs(byStatus, spinners, i)
  /\ UNCHANGED <<ends, report>>

WritesReport(i) ==
  /\ Goes(i, "saving", "remove")
  /\ report' = snapshot[i] /\ snapshot' = [snapshot EXCEPT ![i] = NoDump]
  /\ ProgressIs(byStatus, spinners, Free)
  /\ UNCHANGED ends

WorkersNext ==
  \E i \in Instances :
    \/ TakesInstance(i) \/ Adds(i) \/ Enters(i) \/ GetsLogger(i) \/ Removes(i)
    \/ CountFails(i) \/ StartsInstance(i) \/ ChecksSkip(i) \/ RunsInstance(i)
    \/ EndsInstance(i) \/ Advances(i) \/ DumpsReport(i) \/ WritesReport(i)

WorkersSpec == WorkersInit /\ [][WorkersNext]_workerVars

-----------------------------------------------------------------------------
(* Properties *)

\* The log file of an instance receives every logger that its own thread has set up,
\* as long as it runs (add_file_handler), but for those whose set-up another thread cut
\* short by adding or removing a handler; and no logger any more, those included, once
\* the thread has removed it, whatever the other threads add, create and remove.
LogsFollowInstances ==
  \A i \in Instances :
    /\ at[i] \in {"running", "append"} =>
         \A k \in Kinds : <<k, i>> \in setUp \ cut => i \in attached[<<k, i>>]
    /\ at[i] \in {"done", "stopped"} =>
         i \notin handlers /\ \A l \in Loggers : i \notin attached[l]

\* The yaml report never loses an instance again: once a worker has written it, its
\* instance is in it, once and with its own exit status, though every worker
\* overwrites the file with the whole table.
ReportKeepsEveryEnd ==
  \A i \in Instances :
    /\ at[i] \in {"remove", "removing", "detaching", "done"} /\ ends[i] # "none" =>
         Contains(report[ends[i]], i)
    /\ \A s, t \in Reports : \A m \in DOMAIN report[s], n \in DOMAIN report[t] :
         report[s][m] = i /\ report[t][n] = i => s = t /\ m = n
=============================================================================
