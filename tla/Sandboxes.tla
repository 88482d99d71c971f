----------------------------- MODULE Sandboxes -----------------------------
(***************************************************************************)
(* The deployments other than docker (swerex/deployment/modal.py,          *)
(* fargate.py, daytona.py, remote.py, local.py, dummy.py) with the AWS     *)
(* resources that Fargate needs (swerex/utils/aws.py) and their removal by *)
(* hand (aws_teardown.py), as SWEEnv starts and closes them.               *)
(*                                                                         *)
(* Data: a box is a sandbox, task or workspace of the cloud, numbered in   *)
(* the order of creation.  A box may end at any time.  What the cloud is   *)
(* asked for may fail, and the process may be killed between two requests. *)
(***************************************************************************)
EXTENDS Integers, Sequences, SequencesExt

CONSTANT MaxBoxes  \* bound: boxes created

ASSUME SandboxesAssumption == MaxBoxes \in Nat \ {0}

VARIABLES
  host,       \* the kind of deployment
  boxes,      \* the boxes: "pending", "running", "exited" or "gone"
  handle,     \* _sandbox or _task_arn: a box, 0 for None
  runtimeOf,  \* the box that _runtime talks to, 0 for None
  app,        \* Modal's _app is set
  cloud,      \* the AWS resources that exist
  step,       \* where start is, or how the last call ended
  spared      \* ghost: boxes of a killed process, whose deletion was refused, or
              \* that were made in a request whose answer was lost

sandboxVars == <<host, boxes, handle, runtimeOf, app, cloud, step, spared>>

Clouds == {"modal", "fargate", "daytona"}
Elsewhere == -1  \* a runtime that is in no box
RolePolicies == <<"execution", "registry", "logs">>
Resting == {"off", "on", "failed", "unstopped", "stopped"}
Live(b) == boxes[b] \in {"pending", "running"}

SandboxesInit ==
  /\ host \in Clouds \cup {"remote", "local", "dummy"}
  /\ boxes = <<>> /\ handle = 0 /\ runtimeOf = 0 /\ app = TRUE /\ step = "off" /\ spared = {}
  /\ cloud = [role |-> FALSE, policies |-> {}, definition |-> FALSE, group |-> FALSE,
              rule |-> FALSE]

-----------------------------------------------------------------------------
(* start *)

BeginStart ==
  /\ step \in {"off", "stopped"}
  /\ CASE host = "fargate" -> step' = "role" /\ UNCHANGED runtimeOf
       [] host \in {"modal", "daytona"} -> step' = "create" /\ UNCHANGED runtimeOf
       [] host = "dummy" -> step' = "on" /\ UNCHANGED runtimeOf
       [] OTHER -> step' = "on" /\ runtimeOf' = Elsewhere
  /\ UNCHANGED <<host, boxes, handle, app, cloud, spared>>

\* A request fails, or nothing answers in time.
StartFails ==
  /\ step \notin Resting /\ step' = "failed"
  /\ UNCHANGED <<host, boxes, handle, runtimeOf, app, cloud, spared>>

AwsStep(from, to, resources) ==
  /\ step = from /\ step' = to /\ cloud' = resources
  /\ UNCHANGED <<host, boxes, handle, runtimeOf, app, spared>>

\* get_execution_role_arn: the role is made or found, and every policy it lacks is
\* attached, whoever made it.
EnsureRole == AwsStep("role", "policies", [cloud EXCEPT !.role = TRUE])

MissingPoliciesMutant == IF cloud.policies # {} THEN {} ELSE DOMAIN RolePolicies
MissingPolicies == {k \in DOMAIN RolePolicies : RolePolicies[k] \notin cloud.policies}
AttachPolicy ==
  IF MissingPolicies = {} THEN AwsStep("policies", "definition", cloud)
  ELSE \E k \in MissingPolicies :
         /\ \A j \in MissingPolicies : k <= j
         /\ AwsStep("policies", "policies", [cloud EXCEPT !.policies = @ \cup {RolePolicies[k]}])

EnsureDefinition == AwsStep("definition", "group", [cloud EXCEPT !.definition = TRUE])

\* get_security_group: a group that exists is taken as it is.
EnsureGroup ==
  IF cloud.group THEN AwsStep("group", "create", cloud)
  ELSE AwsStep("group", "rule", [cloud EXCEPT !.group = TRUE])
AuthorizeIngress == AwsStep("rule", "create", [cloud EXCEPT !.rule = TRUE])

\* Sandbox.create, run_fargate_task, Daytona.create
CreateBox ==
  /\ step = "create" /\ Len(boxes) < MaxBoxes
  /\ boxes' = Append(boxes, IF host = "fargate" THEN "pending" ELSE "running")
  /\ handle' = Len(boxes') /\ step' = "boot"
  /\ UNCHANGED <<host, runtimeOf, app, cloud, spared>>

\* The request is carried out and its answer lost: nobody knows of the box.
CreateReplyLost ==
  /\ step = "create" /\ Len(boxes) < MaxBoxes
  /\ boxes' = Append(boxes, IF host = "fargate" THEN "pending" ELSE "running")
  /\ step' = "failed" /\ spared' = spared \cup {Len(boxes')}
  /\ UNCHANGED <<host, handle, runtimeOf, app, cloud>>

\* A Fargate task has to run; Modal's log address needs the app, which stop() has
\* dropped; Daytona runs a command that starts the server.
Boots ==
  /\ step = "boot"
  /\ CASE host = "fargate" -> boxes[handle] = "running"
       [] host = "modal" -> app
       [] OTHER -> TRUE
  /\ runtimeOf' = handle /\ step' = "wait"
  /\ UNCHANGED <<host, boxes, handle, app, cloud, spared>>

\* _wait_until_alive: the deployment's own is_alive looks at the box first.
BecomesAlive ==
  /\ step = "wait" /\ boxes[handle] = "running" /\ step' = "on"
  /\ UNCHANGED <<host, boxes, handle, runtimeOf, app, cloud, spared>>

-----------------------------------------------------------------------------
(* stop *)

StopIs(how, bs, h, r) ==
  /\ step' = how /\ boxes' = bs /\ handle' = h /\ runtimeOf' = r
  /\ UNCHANGED <<host, cloud>>

Gone(b) == [boxes EXCEPT ![b] = "gone"]

\* The runtime is closed first; when it does not answer, nothing else is done.
ClosesRuntime == runtimeOf > 0 => boxes[runtimeOf] = "running"
RuntimeUnreachable ==
  /\ runtimeOf > 0
  /\ StopIs("unstopped", boxes, handle, runtimeOf) /\ UNCHANGED <<app, spared>>

\* Only a sandbox that has exited already is terminated.
StopModal ==
  /\ ClosesRuntime
  /\ StopIs("stopped",
            IF handle # 0 /\ boxes[handle] = "exited" THEN Gone(handle) ELSE boxes, 0, 0)
  /\ app' = FALSE /\ UNCHANGED spared

StopsTaskMutant == handle # 0 /\ runtimeOf # 0
StopsTask == handle # 0

StopFargate ==
  /\ ClosesRuntime /\ UNCHANGED <<app, spared>>
  /\ \/ StopIs("stopped", IF StopsTask THEN Gone(handle) ELSE boxes, 0, 0)
     \/ StopsTask /\ StopIs("unstopped", boxes, handle, 0)

\* A workspace that cannot be removed is logged.
StopDaytona(how) ==
  /\ ClosesRuntime /\ UNCHANGED app
  /\ \/ /\ StopIs(how, IF handle # 0 THEN Gone(handle) ELSE boxes, 0, 0)
        /\ UNCHANGED spared
     \/ handle # 0 /\ StopIs(how, boxes, 0, 0) /\ spared' = spared \cup {handle}

\* Daytona's start stops itself when its command fails.
ServerRefused == host = "daytona" /\ step = "boot" /\ StopDaytona("failed")

\* A remote deployment raises when it has no runtime.
StopElsewhere ==
  /\ UNCHANGED <<app, spared>>
  /\ IF host = "remote" /\ runtimeOf = 0
     THEN StopIs("unstopped", boxes, handle, 0)
     ELSE StopIs("stopped", boxes, handle, IF host = "dummy" THEN runtimeOf ELSE 0)

StopDeployment ==
  /\ step \in Resting
  /\ CASE host = "modal" -> StopModal \/ RuntimeUnreachable
       [] host = "fargate" -> StopFargate \/ RuntimeUnreachable
       [] host = "daytona" -> StopDaytona("stopped") \/ RuntimeUnreachable
       [] OTHER -> StopElsewhere

-----------------------------------------------------------------------------
(* The cloud, a kill, and the teardown *)

BoxMoves ==
  /\ \E b \in DOMAIN boxes :
       \/ boxes[b] = "pending" /\ boxes' = [boxes EXCEPT ![b] = "running"]
       \/ Live(b) /\ boxes' = [boxes EXCEPT ![b] = "exited"]
  /\ UNCHANGED <<host, handle, runtimeOf, app, cloud, step, spared>>

\* A new process knows nothing of the boxes of the old one.
ProcessKilled ==
  /\ host \in Clouds /\ step # "off"
  /\ handle' = 0 /\ runtimeOf' = 0 /\ app' = TRUE /\ step' = "off"
  /\ spared' = spared \cup DOMAIN boxes
  /\ UNCHANGED <<host, boxes, cloud>>

\* Tasks are stopped, a group loses its rule before it is deleted and stays when it
\* is in use, and a role that has policies cannot be deleted.  Each part may fail.
Teardown ==
  /\ host = "fargate" /\ step \in Resting
  /\ \/ boxes' = [b \in DOMAIN boxes |-> "gone"] /\ UNCHANGED cloud
     \/ cloud' = [cloud EXCEPT !.definition = FALSE] /\ UNCHANGED boxes
     \/ /\ cloud' = [cloud EXCEPT !.rule = FALSE, !.group = @ /\ \E b \in DOMAIN boxes : Live(b)]
        /\ UNCHANGED boxes
     \/ cloud' = [cloud EXCEPT !.role = @ /\ cloud.policies # {}] /\ UNCHANGED boxes
  /\ UNCHANGED <<host, handle, runtimeOf, app, step, spared>>

SandboxesNext ==
  \/ BeginStart \/ StartFails
  \/ EnsureRole \/ AttachPolicy \/ EnsureDefinition \/ EnsureGroup \/ AuthorizeIngress
  \/ CreateBox \/ CreateReplyLost \/ Boots \/ BecomesAlive \/ ServerRefused
  \/ StopDeployment \/ BoxMoves \/ ProcessKilled \/ Teardown

SandboxesSpec == SandboxesInit /\ [][SandboxesNext]_sandboxVars

-----------------------------------------------------------------------------
(* Properties *)

\* Whatever request a start has failed at: the close that follows it, or an orderly
\* one, leaves no task and no workspace of this process behind, but for those it was
\* never told of or could not delete.
StopIsFinal ==
  step = "stopped" /\ host \in {"fargate", "daytona"} =>
    \A b \in DOMAIN boxes : Live(b) => b \in spared

\* A started deployment talks to the box of its last start, and to none that an
\* earlier start or a failed one has left.
RuntimeIsOwn ==
  step = "on" /\ host \in Clouds => runtimeOf = handle /\ handle = Len(boxes)

\* A task is only run under a role that has all its policies, also when the start
\* that made the role was killed between two of them.
RoleIsWhole ==
  host = "fargate" /\ step \in {"group", "rule", "create", "boot", "wait"} =>
    cloud.role /\ cloud.policies = ToSet(RolePolicies)

SandboxesAreOwn == StopIsFinal /\ RuntimeIsOwn /\ RoleIsWhole
=============================================================================
