----------------------------- MODULE Deployment -----------------------------
(***************************************************************************)
(* SWEEnv (sweagent/environment/swe_env.py) on a DockerDeployment          *)
(* (swerex/deployment/docker.py): start, the wait for the runtime with its *)
(* fallback command, hard_reset between attempts, the close that a failing *)
(* command triggers, and the close at the end of the run.                  *)
(*                                                                         *)
(* The thread shares the host with the containers it launched, which come  *)
(* up, hang and exit when they like.  A launch is one `docker run`: its    *)
(* client process and its container.  All launches of a deployment publish *)
(* the same port; name and token are numbers, 0 is Python's None.          *)
(***************************************************************************)
EXTENDS Integers, Sequences

CONSTANT MaxStarts  \* bound: calls of start()

ASSUME DeploymentAssumption == MaxStarts \in Nat \ {0}

VARIABLES
  removeContainer,  \* remove_container: docker run --rm
  pc,         \* where the thread is
  closing,    \* what the running stop() was called for
  fallback,   \* start() is past its first command
  starts,     \* calls of start()
  runtime,    \* the token of _runtime
  process,    \* the launch behind _container_process
  name,       \* _container_name
  launches,   \* every docker run so far
  unkilled    \* ghost: docker kill has failed on a running container

callVars == <<removeContainer, pc, closing, fallback, starts>>
handleVars == <<runtime, process, name>>
hostVars == <<launches, unkilled>>
vars == <<callVars, handleVars, hostVars>>

-----------------------------------------------------------------------------
(* Values *)

None == 0
Reasons == {"timeout", "check", "command", "reset", "final"}
Launches == [name : 1 .. MaxStarts, token : 1 .. MaxStarts,
             client : {"running", "exited"},
             box : {"refused", "booting", "serving", "hung", "exited"}]

Indices == 1 .. Len(launches)
Running(k) == launches[k].box \in {"booting", "serving", "hung"}
ClientGone(k) == launches[k].client = "exited"

\* The container on the port answers, and accepts this token.
Answering(k) == launches[k].box = "serving" /\ launches[k].token = runtime
PortAnswers == \E k \in Indices : Answering(k)

TypeOK ==
  /\ removeContainer \in BOOLEAN
  /\ pc \in {"start", "waiting", "output", "stop", "kill", "session", "up", "failed",
             "closed", "unclosed"}
  /\ closing \in Reasons
  /\ fallback \in BOOLEAN
  /\ starts \in 0 .. MaxStarts
  /\ runtime \in 0 .. MaxStarts
  /\ process \in 0 .. Len(launches)
  /\ name \in 0 .. MaxStarts
  /\ launches \in Seq(Launches)
  /\ unkilled \in BOOLEAN

Init ==
  /\ removeContainer \in BOOLEAN
  /\ pc = "start" /\ closing = "final" /\ fallback = FALSE /\ starts = 0
  /\ runtime = None /\ process = None /\ name = None
  /\ launches = <<>> /\ unkilled = FALSE

-----------------------------------------------------------------------------
(* start *)

\* docker run refuses a name that exists and a port that is taken; the client
\* then exits.
DockerRun(n, t) ==
  LET named(k) == launches[k].name = n /\ launches[k].box = "exited" /\ ~removeContainer
      refused == \E k \in Indices : Running(k) \/ named(k)
  IN launches' = Append(launches, [name |-> n, token |-> t, client |-> "running",
                                   box |-> IF refused THEN "refused" ELSE "booting"])

\* An exception of start(): the first command falls back to the second with the
\* same name and token.
FallBack ==
  IF fallback
  THEN pc' = "failed" /\ UNCHANGED <<fallback, process, launches>>
  ELSE /\ pc' = "waiting" /\ fallback' = TRUE
       /\ DockerRun(name, runtime) /\ process' = Len(launches')

\* Pulling or building the image fails before anything is named.
ImageFails ==
  /\ pc = "start"
  /\ pc' = "failed"
  /\ UNCHANGED <<removeContainer, closing, fallback, starts, handleVars, hostVars>>

ConstantTokenMutant == 1
StaleTokenMutant == starts
FreshToken == starts + 1

Start ==
  /\ pc = "start" /\ name = None
  /\ pc' = "waiting" /\ fallback' = FALSE /\ starts' = starts + 1
  /\ name' = starts + 1
  /\ DockerRun(name', FreshToken) /\ process' = Len(launches')
  /\ runtime' = FreshToken
  /\ UNCHANGED <<removeContainer, closing, unkilled>>

-----------------------------------------------------------------------------
(* _wait_until_alive *)

RuntimeIsAlive ==
  /\ pc = "waiting" /\ ~ClientGone(process) /\ PortAnswers
  /\ pc' = "session"
  /\ UNCHANGED <<removeContainer, closing, fallback, starts, handleVars, hostVars>>

\* is_alive raises for a client that has exited.
WaitRaises ==
  /\ pc = "waiting" /\ ClientGone(process)
  /\ FallBack
  /\ UNCHANGED <<removeContainer, closing, starts, runtime, name, unkilled>>

\* The bare except takes a Ctrl-C for a container that failed.
InterruptedWait ==
  /\ pc \in {"waiting", "output"}
  /\ FallBack
  /\ UNCHANGED <<removeContainer, closing, starts, runtime, name, unkilled>>

\* At the timeout the output of the client is read, up to its end.
TimeOut ==
  /\ pc = "waiting" /\ ~ClientGone(process)
  /\ pc' = "output"
  /\ UNCHANGED <<removeContainer, closing, fallback, starts, handleVars, hostVars>>

OutputRead ==
  /\ pc = "output" /\ ClientGone(process)
  /\ pc' = "stop" /\ closing' = "timeout"
  /\ UNCHANGED <<removeContainer, fallback, starts, handleVars, hostVars>>

-----------------------------------------------------------------------------
(* stop *)

\* What follows when stop() returns or raises.  After a timeout the container
\* has lost its name, so the fallback cannot build its command line.  The
\* exception of a command goes to the agent, which may go on without a container.
AfterStop(returned) ==
  pc' = CASE closing = "final"               -> IF returned THEN "closed" ELSE "unclosed"
          [] closing = "reset" /\ returned   -> "start"
          [] closing = "command"             -> "up"
          [] OTHER                           -> "failed"

CloseRuntimeMutant ==
  /\ pc = "stop" /\ (runtime # None => PortAnswers)
  /\ pc' = "kill" /\ runtime' = None
  /\ process' = None
  /\ UNCHANGED <<removeContainer, closing, fallback, starts, name, hostVars>>
CloseRuntime ==
  /\ pc = "stop" /\ (runtime # None => PortAnswers)
  /\ pc' = "kill" /\ runtime' = None
  /\ UNCHANGED <<removeContainer, closing, fallback, starts, process, name, hostVars>>

\* The request to the runtime fails, and with it stop(): nothing is killed.
CloseRuntimeFails ==
  /\ pc = "stop" /\ runtime # None
  /\ IF closing = "timeout"
     THEN FallBack
     ELSE AfterStop(FALSE) /\ UNCHANGED <<fallback, process, launches>>
  /\ UNCHANGED <<removeContainer, closing, starts, runtime, name, unkilled>>

\* docker kill by name, then SIGKILL for the client process.
Kill(worked) ==
  LET hit(k) == worked /\ launches[k].name = name /\ Running(k)
  IN /\ launches' = [k \in Indices |->
            [launches[k] EXCEPT !.client = IF hit(k) \/ k = process THEN "exited" ELSE @,
                                !.box = IF hit(k) THEN "exited" ELSE @]]
     /\ unkilled' = (unkilled \/ (~worked /\ \E k \in Indices : launches[k].name = name /\ Running(k)))

ForgetMutant == process' = None /\ UNCHANGED name
Forget == process' = None /\ name' = None

KillContainer ==
  /\ pc = "kill" /\ process # None
  /\ \E worked \in BOOLEAN : Kill(worked)
  /\ Forget
  /\ AfterStop(TRUE)
  /\ UNCHANGED <<removeContainer, closing, fallback, starts, runtime>>

NothingToKill ==
  /\ pc = "kill" /\ process = None
  /\ AfterStop(TRUE)
  /\ UNCHANGED <<removeContainer, closing, fallback, starts, handleVars, hostVars>>

-----------------------------------------------------------------------------
(* SWEEnv and its callers *)

\* create_session and the first commands of start() and reset().
SessionReady ==
  /\ pc = "session" /\ PortAnswers
  /\ pc' = "up"
  /\ UNCHANGED <<removeContainer, closing, fallback, starts, handleVars, hostVars>>

\* A request fails, and the exception leaves start().
RequestFails ==
  /\ pc = "session"
  /\ pc' = "failed"
  /\ UNCHANGED <<removeContainer, closing, fallback, starts, handleVars, hostVars>>

Close(reason) ==
  /\ pc' = "stop" /\ closing' = reason
  /\ UNCHANGED <<removeContainer, fallback, starts, handleVars, hostVars>>

\* communicate(check="raise") closes the environment when the command failed.
CommandFails ==
  /\ PortAnswers
  /\ \/ pc = "session" /\ Close("check")
     \/ pc = "up" /\ Close("command")

\* RetryAgent._next_attempt.
HardReset == pc = "up" /\ starts < MaxStarts /\ Close("reset")

\* The finally clause of _run_instance, after a result or an exception.
FinalClose == pc \in {"up", "failed"} /\ Close("final")

-----------------------------------------------------------------------------
(* The host *)

HostStep(k, client, box) ==
  /\ launches' = [launches EXCEPT ![k].client = client, ![k].box = box]
  /\ UNCHANGED <<callVars, handleVars, unkilled>>

ServerBoots(k) == launches[k].box = "booting" /\ HostStep(k, launches[k].client, "serving")
Hangs(k) == launches[k].box = "serving" /\ HostStep(k, launches[k].client, "hung")
Recovers(k) == launches[k].box = "hung" /\ HostStep(k, launches[k].client, "serving")
Exits(k) == Running(k) /\ HostStep(k, "exited", "exited")
ClientExits(k) == launches[k].box = "refused" /\ ~ClientGone(k) /\ HostStep(k, "exited", "refused")

Host == \E k \in Indices : ServerBoots(k) \/ Hangs(k) \/ Recovers(k) \/ Exits(k) \/ ClientExits(k)

-----------------------------------------------------------------------------

Waiting == RuntimeIsAlive \/ WaitRaises \/ TimeOut \/ OutputRead
Stop == CloseRuntime \/ CloseRuntimeFails \/ KillContainer \/ NothingToKill
Thread == Start \/ ImageFails \/ Waiting \/ Stop \/ SessionReady \/ RequestFails
          \/ CommandFails \/ HardReset \/ FinalClose

Ended == pc \in {"closed", "unclosed"}
Rest == Ended /\ UNCHANGED vars

Next == Thread \/ InterruptedWait \/ (~Ended /\ Host) \/ Rest

Spec == Init /\ [][Next]_vars

\* The thread runs; containers owe it nothing.
FairSpec == Spec /\ WF_vars(Thread)

-----------------------------------------------------------------------------
(* Properties *)

\* A runtime that answers the agent belongs to the container of the last start:
\* no attempt goes on in the container of an earlier one, although all of them
\* publish the same port and a kill may fail (the token of DockerDeployment.start).
ResetIsFresh ==
  \A k \in Indices : pc = "up" /\ Answering(k) => launches[k].name = starts

\* A close() that returns has left nothing running, whatever the starts before it
\* went through, unless a docker kill failed (DockerDeployment.stop).
NoLeak == pc = "closed" /\ ~unkilled => \A k \in Indices : ~Running(k)

\* A start never meets the name of an earlier container: the assertion of
\* DockerDeployment.start holds in every order of starts, timeouts and closes.
StartIsUnnamed == pc = "start" => name = None

\* "Runtime did not start within timeout. Here's the output from the container
\* process.": a start that waits for its runtime ends, one way or the other.
StartEnds == pc = "waiting" ~> pc \notin {"waiting", "output"}
=============================================================================
