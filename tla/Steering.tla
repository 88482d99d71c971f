------------------------------ MODULE Steering ------------------------------
(***************************************************************************)
(* A run that a human may steer: ShellAgent (agent/extra/shell_agent.py)   *)
(* around DefaultAgent.step, the human model (HumanModel in                *)
(* agent/models.py), ^C and ^D.                                            *)
(*                                                                         *)
(* `moment` is what a step does next; ^C may come before each of them.     *)
(* Of a step only its driver and whether it is the last one are kept.      *)
(***************************************************************************)
EXTENDS Integers

CONSTANTS
  MaxTurns,   \* bound: steps and interruptions
  MaxRetypes  \* max_requeries of the agent

ASSUME SteeringAssumption == MaxTurns \in Nat /\ MaxRetypes \in Nat \ {0}

VARIABLES
  configured,  \* the model of the configuration
  catchEof,    \* catch_eof of a human model that is configured
  driver,      \* self.model
  parser,      \* tools.config.parse_function, named for the model it is for
  aside,       \* _original_model and _original_parser
  moment,      \* what the loop does next
  last,        \* the step under way is the last one
  done,        \* step_output.done in run()
  retypes,     \* n_format_fails
  info,        \* who made the last step that reached info (its model_stats)
  file,        \* the driver of the last step in the .traj file
  turns,
  late         \* ghost: ^C has come while the robot's last step was being saved

steeringVars ==
  <<configured, catchEof, driver, parser, aside, moment, last, done, retypes, info, file, turns, late>>

Nobody == [model |-> "none", parser |-> "none"]

SteeringInit ==
  /\ configured \in {"robot", "human"} /\ catchEof \in BOOLEAN
  /\ driver = configured /\ parser = configured /\ aside = Nobody
  /\ moment = "query" /\ last = FALSE /\ done = FALSE /\ retypes = 0
  /\ info = "none" /\ file = "none" /\ turns = 0 /\ late = FALSE

SteeringStays == UNCHANGED <<configured, catchEof, driver, parser, aside, turns, late>>
StepGoes(to) == moment' = to /\ SteeringStays

-----------------------------------------------------------------------------
(* A step, whoever makes it *)

\* The driver answers with an action; of a human who types, several lines of input
\* may be one action, and ^C starts the input again.
DriverAnswers ==
  /\ moment = "query" /\ StepGoes("act")
  /\ UNCHANGED <<last, done, retypes, info, file>>

\* A reply that cannot be parsed, is blocked or is no bash is asked for again; the
\* last of several ends the run, and a human's typing errors are counted alike.  A
\* retry that the action itself asks for is not counted.
AsksAgain ==
  /\ moment \in {"query", "act"}
  /\ retypes' \in {retypes, retypes + 1} /\ retypes' < MaxRetypes /\ StepGoes("query")
  /\ UNCHANGED <<last, done, info, file>>

\* Cost, context, environment and other errors, and too many retypes: autosubmission.
StepFails ==
  /\ moment \in {"query", "act"} /\ last' = TRUE /\ StepGoes("record")
  /\ UNCHANGED <<done, retypes, info, file>>

\* The total cost limit leaves run(), for either model.
TotalLimitRaises ==
  /\ moment = "query" /\ StepGoes("raised") /\ UNCHANGED <<last, done, retypes, info, file>>

\* The action has run; it may have been the submission, or the human's exit.
Acts ==
  /\ moment = "act" /\ last' \in BOOLEAN /\ StepGoes("record")
  /\ UNCHANGED <<done, retypes, info, file>>

\* add_step_to_history: ^C between its two entries leaves a call without its answer.
RecordsStep ==
  /\ moment = "record" /\ StepGoes("info") /\ UNCHANGED <<last, done, retypes, info, file>>

\* step() returns: info has the statistics of the model that drives.
StepReturns ==
  /\ moment = "info" /\ info' = driver /\ done' = last /\ StepGoes("save")
  /\ UNCHANGED <<last, retypes, file>>

StepIsSaved ==
  /\ moment = "save" /\ file' = info /\ StepGoes("loop")
  /\ UNCHANGED <<last, done, retypes, info>>

-----------------------------------------------------------------------------
(* ShellAgent *)

StepsIn ==
  /\ aside' = [model |-> driver, parser |-> parser]
  /\ driver' = "human" /\ parser' = "human"

NewParserMutant == parser
NewParser == aside.parser
\* human_step_out: without a model set aside, nothing happens.
StepsOut ==
  IF aside = Nobody THEN UNCHANGED <<driver, parser, aside>>
  ELSE driver' = aside.model /\ parser' = NewParser /\ aside' = Nobody

BeginStep == last' = FALSE /\ retypes' = 0 /\ turns < MaxTurns /\ turns' = turns + 1

DoneAfterMutant == done
\* The robot's last step is not the run's: a human has to submit.
DoneAfter == done /\ driver = "human"
Loops ==
  /\ moment = "loop" /\ done' = DoneAfter
  /\ IF done /\ driver # "human" THEN StepsIn ELSE UNCHANGED <<driver, parser, aside>>
  /\ IF DoneAfter
     THEN moment' = "returned" /\ UNCHANGED <<last, retypes, turns>>
     ELSE moment' = "query" /\ BeginStep
  /\ UNCHANGED <<configured, catchEof, info, file, late>>

\* ^C while the robot drives: the human steps in, and the loop tests step_output.done,
\* which the step under way has not set, unless it is only being saved.
TakesOver ==
  /\ driver = "robot" /\ moment \notin {"loop", "returned", "raised"}
  /\ StepsIn
  /\ IF done THEN moment' = "returned" /\ UNCHANGED <<last, retypes, turns>>
             ELSE moment' = "query" /\ BeginStep
  /\ late' = done
  /\ file' = IF moment = "save" THEN "torn" ELSE file
  /\ UNCHANGED <<configured, catchEof, done, info>>

\* ^C while the human drives, or between two turns of the loop, leaves run(); at the
\* prompt the human model catches it and asks again.
IsInterrupted ==
  /\ \/ driver = "human" /\ moment \in {"act", "record", "info", "save"}
     \/ moment = "loop"
  /\ file' = IF moment = "save" THEN "torn" ELSE file
  /\ StepGoes("raised") /\ UNCHANGED <<last, done, retypes, info>>

\* ^D at the prompt of a human who has stepped in; a configured human model that
\* catches it makes it the action "exit".
GivesBack ==
  /\ driver = "human" /\ moment = "query" /\ (configured = "robot" \/ ~catchEof)
  /\ StepsOut /\ BeginStep
  /\ UNCHANGED <<configured, catchEof, moment, done, info, file, late>>

SteeringNext ==
  \/ DriverAnswers \/ AsksAgain \/ StepFails \/ TotalLimitRaises \/ Acts \/ RecordsStep
  \/ StepReturns \/ StepIsSaved \/ Loops \/ TakesOver \/ IsInterrupted \/ GivesBack

SteeringSpec == SteeringInit /\ [][SteeringNext]_steeringVars

-----------------------------------------------------------------------------
(* Properties *)

\* Whatever ^C, ^D and failing steps come in whatever order: each query goes to a model
\* whose own parser is in place, and the configured model is either driving or set
\* aside with its own parser (human_step_in, human_step_out).
DriverHasItsParser ==
  /\ moment \in {"query", "act"} => parser = driver
  /\ aside = Nobody \/ aside = [model |-> configured, parser |-> configured]
  /\ (aside = Nobody) = (driver = configured)

\* A run returns with a step of the human as its last one, in info and in the file,
\* as the comment "Human has to submit the solution" says; not so when ^C comes while
\* the robot's last step is being saved: the loop then ends with the robot's step.
HumanHasTheLastWord == moment = "returned" /\ ~late => info = "human" /\ file = "human"

\* Both.
SteeringIsSound == DriverHasItsParser /\ HumanHasTheLastWord
=============================================================================
