-------------------------- MODULE DeploymentProofs --------------------------
(***************************************************************************)
(* Proofs about Deployment for any number of starts and of containers that *)
(* boot, hang and exit in any order: the types, the names and tokens of    *)
(* the starts, and what a close leaves running. And about Environment, for  *)
(* any bundles and any number of attempts: what a setup prepares and what  *)
(* the state commands show.                                                *)
(***************************************************************************)
EXTENDS Deployment, Environment, SequenceTheorems, TLAPS

-----------------------------------------------------------------------------
(* The inductive invariant *)

\* A launch has the name and the token of one and the same start.
Labelled ==
  \A k \in Indices : launches[k].name = launches[k].token /\ launches[k].name <= starts

\* A deployment knows the name, the client process and the token of its last
\* start, or none.
Handled ==
  /\ name \in {None, starts} /\ runtime \in {None, starts}
  /\ name = None <=> process = None

\* What start() needs, and what it has until it returns or gives up.
Starting == pc \in {"waiting", "output"} \/ (pc = "stop" /\ closing = "timeout")
Located ==
  /\ Starting => name = starts /\ runtime = starts /\ starts # 0
  /\ pc = "start" => name = None /\ starts < MaxStarts
  /\ pc \in {"stop", "kill"} /\ closing = "reset" => starts < MaxStarts
  /\ pc = "closed" => name = None

\* What runs has the name that the next docker kill is for.
Killable ==
  ~unkilled => \A k \in Indices : Running(k) => launches[k].name = name

DeploymentInv == TypeOK /\ Labelled /\ Handled /\ Located /\ Killable

-----------------------------------------------------------------------------
(* The launches on the host *)

LEMMA LaunchFields ==
  ASSUME TypeOK
  PROVE  /\ Len(launches) \in Nat /\ DOMAIN launches = Indices
         /\ launches \in [Indices -> Launches]
         /\ \A k \in Indices : launches[k] \in Launches
BY LenProperties, ElementOfSeq DEF TypeOK, Indices

LEMMA IsSequence ==
  ASSUME NEW S, NEW len \in Nat, NEW f \in [1 .. len -> S]
  PROVE  f \in Seq(S) /\ Len(f) = len
<1>1. f \in Seq(S)
  BY SeqDef
<1> QED BY <1>1, LenProperties

\* docker run adds a launch, refused or booting.
LEMMA RunAppends ==
  ASSUME TypeOK, NEW n \in 1 .. MaxStarts, NEW t \in 1 .. MaxStarts, DockerRun(n, t)
  PROVE  /\ launches' \in Seq(Launches) /\ Len(launches') = Len(launches) + 1
         /\ Indices' = Indices \cup {Len(launches')}
         /\ \A k \in Indices : launches'[k] = launches[k]
         /\ launches'[Len(launches')].name = n /\ launches'[Len(launches')].token = t
<1>1. PICK box \in {"refused", "booting"} :
        launches' = Append(launches, [name |-> n, token |-> t, client |-> "running", box |-> box])
  BY DEF DockerRun
<1>2. [name |-> n, token |-> t, client |-> "running", box |-> box] \in Launches
  BY DEF Launches
<1>3. launches \in Seq(Launches) /\ Len(launches) \in Nat
  BY LaunchFields DEF TypeOK
<1>4. /\ launches' \in Seq(Launches) /\ Len(launches') = Len(launches) + 1
      /\ \A k \in 1 .. Len(launches) : launches'[k] = launches[k]
      /\ launches'[Len(launches) + 1] =
           [name |-> n, token |-> t, client |-> "running", box |-> box]
  BY <1>1, <1>2, <1>3, AppendProperties
<1> QED BY <1>3, <1>4 DEF Indices

\* docker kill stops the container of that name, if it works, and changes
\* nobody's name or token.
LEMMA KillStops ==
  ASSUME TypeOK, NEW worked \in BOOLEAN, Kill(worked)
  PROVE  /\ launches' \in Seq(Launches) /\ Len(launches') = Len(launches) /\ Indices' = Indices
         /\ \A k \in Indices :
              /\ launches'[k].name = launches[k].name /\ launches'[k].token = launches[k].token
              /\ Running(k)' => Running(k) /\ (launches[k].name = name => ~worked)
<1> USE LaunchFields
<1>1. \A k \in Indices :
        /\ launches'[k].name = launches[k].name /\ launches'[k].token = launches[k].token
        /\ launches'[k] \in Launches
        /\ Running(k)' => Running(k) /\ (launches[k].name = name => ~worked)
  BY DEF Kill, Running, Launches
<1>2. launches' \in [Indices -> Launches]
  BY <1>1 DEF Kill
<1>3. launches' \in Seq(Launches) /\ Len(launches') = Len(launches)
  BY <1>2, IsSequence DEF Indices
<1> QED BY <1>1, <1>3 DEF Indices

\* A container that runs on, or ends, by itself.
LEMMA HostMoves ==
  ASSUME TypeOK, Host
  PROVE  /\ launches' \in Seq(Launches) /\ Len(launches') = Len(launches) /\ Indices' = Indices
         /\ \A k \in Indices :
              /\ launches'[k].name = launches[k].name /\ launches'[k].token = launches[k].token
              /\ Running(k)' => Running(k)
         /\ UNCHANGED <<callVars, handleVars, unkilled>>
<1> USE LaunchFields
<1>1. PICK i \in Indices : ServerBoots(i) \/ Hangs(i) \/ Recovers(i) \/ Exits(i) \/ ClientExits(i)
  BY DEF Host
<1>2. PICK client \in {"running", "exited"}, box \in {"refused", "serving", "hung", "exited"} :
        /\ HostStep(i, client, box)
        /\ box \in {"serving", "hung"} => Running(i)
  BY <1>1 DEF ServerBoots, Hangs, Recovers, Exits, ClientExits, Running, Launches
<1>3. \A k \in Indices :
        /\ launches'[k].name = launches[k].name /\ launches'[k].token = launches[k].token
        /\ launches'[k] \in Launches
        /\ Running(k)' => Running(k)
  BY <1>2 DEF HostStep, Running, Launches
<1>4. launches' \in [Indices -> Launches]
  BY <1>2, <1>3 DEF HostStep
<1>5. launches' \in Seq(Launches) /\ Len(launches') = Len(launches)
  BY <1>4, IsSequence DEF Indices
<1> QED BY <1>2, <1>3, <1>5 DEF Indices, HostStep

-----------------------------------------------------------------------------
(* Steps *)

LEMMA InitInv == Init => DeploymentInv
<1> SUFFICES ASSUME Init PROVE DeploymentInv
  OBVIOUS
<1>1. launches \in Seq(Launches) /\ Len(launches) = 0 /\ Indices = {}
  BY EmptySeq DEF Init, Indices
<1>2. TypeOK
  <2>1. fallback \in BOOLEAN /\ unkilled \in BOOLEAN
    BY Zenon DEF Init
  <2> QED BY <1>1, <2>1, DeploymentAssumption DEF Init, TypeOK, None, Reasons
<1>3. Labelled /\ Handled /\ Located /\ Killable
  BY <1>1, DeploymentAssumption DEF Init, Labelled, Handled, Located, Starting, Killable, None
<1> QED BY <1>2, <1>3 DEF DeploymentInv

\* The first command of start().
LEMMA StartStep ==
  ASSUME DeploymentInv, Start
  PROVE  DeploymentInv'
<1> USE DEF DeploymentInv
<1>1. TypeOK /\ name = None /\ starts < MaxStarts /\ starts \in Nat
  BY DeploymentAssumption DEF Start, Located, TypeOK
<1>2. starts + 1 \in 1 .. MaxStarts
  BY <1>1, DeploymentAssumption
<1>3. DockerRun(starts + 1, starts + 1)
  BY DEF Start, FreshToken
<1>4. /\ launches' \in Seq(Launches) /\ Len(launches') = Len(launches) + 1
      /\ Indices' = Indices \cup {Len(launches')}
      /\ \A k \in Indices : launches'[k] = launches[k]
      /\ launches'[Len(launches')].name = starts + 1
      /\ launches'[Len(launches')].token = starts + 1
  BY <1>1, <1>2, <1>3, RunAppends
<1>5. Len(launches) \in Nat
  BY <1>1, LaunchFields
<1>6. /\ pc' = "waiting" /\ fallback' = FALSE /\ starts' = starts + 1 /\ name' = starts + 1
      /\ process' = Len(launches') /\ runtime' = starts + 1
      /\ UNCHANGED <<removeContainer, closing, unkilled>>
  BY DEF Start, FreshToken
<1>7. TypeOK'
  <2>1. fallback' \in BOOLEAN /\ removeContainer' \in BOOLEAN /\ unkilled' \in BOOLEAN
    BY <1>1, <1>6, Zenon DEF TypeOK
  <2> QED BY <1>1, <1>2, <1>4, <1>5, <1>6, <2>1 DEF TypeOK
<1>8. Labelled'
  BY <1>1, <1>4, <1>6, LaunchFields DEF Labelled, Launches
<1>9. Handled' /\ Located'
  BY <1>1, <1>4, <1>5, <1>6 DEF Handled, Located, Starting, None
<1>10. Killable'
  <2>1. ASSUME ~unkilled, NEW k \in Indices, Running(k) PROVE FALSE
    <3>1. launches[k].name = None
      BY <1>1, <2>1 DEF Killable
    <3> QED BY <1>1, <3>1, LaunchFields DEF Launches, None
  <2> QED BY <1>4, <1>6, <2>1 DEF Killable, Running
<1> QED BY <1>7, <1>8, <1>9, <1>10

\* The fallback command takes over the name and the token.
LEMMA FallBackStep ==
  ASSUME DeploymentInv, Starting, FallBack,
         UNCHANGED <<removeContainer, closing, starts, runtime, name, unkilled>>
  PROVE  DeploymentInv'
<1> USE DEF DeploymentInv
<1>1. TypeOK /\ name = starts /\ runtime = starts /\ starts \in 1 .. MaxStarts
  BY DeploymentAssumption DEF Located, TypeOK
<1>2. CASE fallback
  <2>1. pc' = "failed" /\ UNCHANGED <<fallback, process, launches>>
    BY <1>2 DEF FallBack
  <2>2. TypeOK'
    BY <1>1, <2>1 DEF TypeOK
  <2>3. Labelled' /\ Handled' /\ Located' /\ Killable'
    BY <1>1, <2>1 DEF Labelled, Handled, Located, Starting, Killable, Indices, Running
  <2> QED BY <2>2, <2>3
<1>3. CASE ~fallback
  <2>1. /\ pc' = "waiting" /\ fallback' = TRUE /\ process' = Len(launches')
        /\ DockerRun(starts, starts)
    BY <1>1, <1>3 DEF FallBack
  <2>2. /\ launches' \in Seq(Launches) /\ Len(launches') = Len(launches) + 1
        /\ Indices' = Indices \cup {Len(launches')}
        /\ \A k \in Indices : launches'[k] = launches[k]
        /\ launches'[Len(launches')].name = starts
        /\ launches'[Len(launches')].token = starts
    BY <1>1, <2>1, RunAppends
  <2>3. Len(launches) \in Nat
    BY <1>1, LaunchFields
  <2>4. TypeOK'
    <3>1. fallback' \in BOOLEAN
      BY <2>1, Zenon
    <3> QED BY <1>1, <2>1, <2>2, <2>3, <3>1 DEF TypeOK
  <2>5. Labelled'
    BY <1>1, <2>2 DEF Labelled
  <2>6. Handled' /\ Located'
    BY <1>1, <2>1, <2>2, <2>3 DEF Handled, Located, Starting, None
  <2>7. Killable'
    BY <1>1, <2>2 DEF Killable, Running
  <2> QED BY <2>4, <2>5, <2>6, <2>7
<1> QED BY <1>2, <1>3

\* Steps that leave the host and the name alone.
LEMMA QuietStep ==
  ASSUME DeploymentInv, UNCHANGED <<removeContainer, fallback, starts, process, name, hostVars>>,
         runtime' \in {runtime, None},
         pc' \in {"output", "stop", "kill", "session", "up", "failed", "closed", "unclosed", "start"},
         closing' \in Reasons,
         Starting' => Starting /\ runtime' = runtime,
         pc' \in {"start", "closed"} => name = None,
         pc' = "start" \/ (closing' = "reset" /\ pc' \in {"stop", "kill"}) => starts < MaxStarts
  PROVE  DeploymentInv'
<1> USE DEF DeploymentInv, hostVars
<1>1. TypeOK'
  <2>1. runtime' \in 0 .. MaxStarts
    BY DeploymentAssumption DEF TypeOK, None
  <2> QED BY <2>1 DEF TypeOK
<1>2. Labelled' /\ Killable'
  BY DEF Labelled, Killable, Indices, Running
<1>3. Handled' /\ Located'
  BY DEF Handled, Located, None
<1> QED BY <1>1, <1>2, <1>3

LEMMA KillStep ==
  ASSUME DeploymentInv, KillContainer
  PROVE  DeploymentInv'
<1> USE DEF DeploymentInv
<1>1. PICK worked \in BOOLEAN : Kill(worked)
  BY DEF KillContainer
<1>2. /\ launches' \in Seq(Launches) /\ Len(launches') = Len(launches) /\ Indices' = Indices
      /\ \A k \in Indices :
           /\ launches'[k].name = launches[k].name /\ launches'[k].token = launches[k].token
           /\ Running(k)' => Running(k) /\ (launches[k].name = name => ~worked)
  BY <1>1, KillStops
<1>3. /\ pc = "kill" /\ process' = None /\ name' = None /\ AfterStop(TRUE)
      /\ UNCHANGED <<removeContainer, closing, fallback, starts, runtime>>
  BY DEF KillContainer, Forget
<1>4. pc' \in {"closed", "start", "up", "failed"} /\ (pc' = "start" => closing = "reset")
  BY <1>3 DEF AfterStop
<1>5. unkilled' \in BOOLEAN
  BY <1>1 DEF Kill, TypeOK
<1>6. TypeOK'
  BY <1>2, <1>3, <1>4, <1>5, LaunchFields, DeploymentAssumption DEF TypeOK, None
<1>7. Labelled'
  BY <1>2, <1>3 DEF Labelled
<1>8. Handled' /\ Located'
  BY <1>3, <1>4 DEF Handled, Located, Starting, None
<1>9. Killable'
  <2>1. ASSUME ~unkilled', NEW k \in Indices, Running(k)' PROVE FALSE
    <3>1. ~unkilled /\ (worked \/ ~\E j \in Indices : launches[j].name = name /\ Running(j))
      BY <1>1, <2>1 DEF Kill
    <3>2. Running(k) /\ launches[k].name = name
      BY <1>2, <2>1, <3>1 DEF Killable
    <3> QED BY <1>2, <2>1, <3>1, <3>2
  <2> QED BY <1>2, <2>1 DEF Killable
<1> QED BY <1>6, <1>7, <1>8, <1>9

LEMMA HostInv ==
  ASSUME DeploymentInv, Host
  PROVE  DeploymentInv'
<1> USE DEF DeploymentInv, callVars, handleVars
<1>1. TypeOK'
  BY HostMoves DEF TypeOK
<1>2. Labelled' /\ Killable'
  BY HostMoves DEF Labelled, Killable
<1>3. Handled' /\ Located'
  BY HostMoves DEF Handled, Located, Starting
<1> QED BY <1>1, <1>2, <1>3

LEMMA WaitingStep ==
  ASSUME DeploymentInv, Waiting \/ InterruptedWait
  PROVE  DeploymentInv'
<1> USE DEF Starting, handleVars, hostVars, Reasons
<1>1. closing \in Reasons
  BY DEF DeploymentInv, TypeOK
<1>2. CASE RuntimeIsAlive
  BY <1>1, <1>2, QuietStep DEF RuntimeIsAlive
<1>3. CASE TimeOut
  BY <1>1, <1>3, QuietStep DEF TimeOut
<1>4. CASE OutputRead
  BY <1>1, <1>4, QuietStep DEF OutputRead
<1>5. CASE WaitRaises
  BY <1>5, FallBackStep DEF WaitRaises
<1>6. CASE InterruptedWait
  BY <1>6, FallBackStep DEF InterruptedWait
<1> QED BY <1>2, <1>3, <1>4, <1>5, <1>6 DEF Waiting

LEMMA StopStep ==
  ASSUME DeploymentInv, Stop
  PROVE  DeploymentInv'
<1> USE DEF Starting, handleVars, hostVars, Reasons
<1>1. closing \in Reasons
  BY DEF DeploymentInv, TypeOK
<1>2. closing = "reset" /\ pc \in {"stop", "kill"} => starts < MaxStarts
  BY DEF DeploymentInv, Located
<1>3. CASE CloseRuntime
  BY <1>1, <1>2, <1>3, QuietStep DEF CloseRuntime
<1>4. CASE CloseRuntimeFails
  <2>1. CASE closing = "timeout"
    BY <1>4, <2>1, FallBackStep DEF CloseRuntimeFails
  <2>2. CASE closing # "timeout"
    <3>1. pc' \in {"unclosed", "up", "failed"}
      BY <1>1, <1>4, <2>2 DEF CloseRuntimeFails, AfterStop
    <3> QED BY <1>1, <1>4, <2>2, <3>1, QuietStep DEF CloseRuntimeFails
  <2> QED BY <2>1, <2>2
<1>5. CASE KillContainer
  BY <1>5, KillStep
<1>6. CASE NothingToKill
  <2>1. pc' \in {"closed", "start", "up", "failed"} /\ (pc' = "start" => closing = "reset")
    BY <1>1, <1>6 DEF NothingToKill, AfterStop
  <2>2. name = None
    BY <1>6 DEF NothingToKill, DeploymentInv, Handled
  <2> QED BY <1>1, <1>2, <1>6, <2>1, <2>2, QuietStep DEF NothingToKill
<1> QED BY <1>3, <1>4, <1>5, <1>6 DEF Stop

LEMMA CallerStep ==
  ASSUME DeploymentInv,
         \/ ImageFails \/ SessionReady \/ RequestFails
         \/ CommandFails \/ HardReset \/ FinalClose
  PROVE  DeploymentInv'
<1> USE DEF Starting, handleVars, hostVars, Reasons
<1>1. closing \in Reasons
  BY DEF DeploymentInv, TypeOK
<1>2. CASE ImageFails \/ SessionReady \/ RequestFails
  BY <1>1, <1>2, QuietStep DEF ImageFails, SessionReady, RequestFails
<1>3. CASE CommandFails \/ HardReset \/ FinalClose
  BY <1>1, <1>3, QuietStep DEF CommandFails, HardReset, FinalClose, Close
<1> QED BY <1>2, <1>3

LEMMA NextInv == DeploymentInv /\ [Next]_vars => DeploymentInv'
<1> SUFFICES ASSUME DeploymentInv, [Next]_vars PROVE DeploymentInv'
  OBVIOUS
<1>1. CASE Thread \/ InterruptedWait
  BY <1>1, StartStep, WaitingStep, StopStep, CallerStep DEF Thread
<1>2. CASE Host
  BY <1>2, HostInv
<1>3. CASE UNCHANGED vars
  BY <1>3 DEF vars, callVars, handleVars, hostVars, DeploymentInv, TypeOK, Labelled, Handled, Located,
     Starting, Killable, Indices, Running
<1> QED BY <1>1, <1>2, <1>3 DEF Next, Rest

-----------------------------------------------------------------------------
(* Theorems *)

\* At each call of SWEEnv and DockerDeployment: the types, which containers can
\* still answer, and what runtime, process and name stand for.
THEOREM DeploymentIsInvariant == Spec => []DeploymentInv
<1> QED BY InitInv, NextInv, PTL DEF Spec

\* Types: handles name launches there are, and starts stay within their bound.
THEOREM TypeCorrect == Spec => []TypeOK
<1>1. DeploymentInv => TypeOK
  BY DEF DeploymentInv
<1> QED BY <1>1, DeploymentIsInvariant, PTL

\* The token of DockerDeployment.start tells the containers of all starts
\* apart: what answers after any number of hard_resets is the last one's.
THEOREM ResetsAreFresh == Spec => []ResetIsFresh
<1>1. ASSUME DeploymentInv PROVE ResetIsFresh
  <2> SUFFICES ASSUME NEW k \in Indices, Answering(k)
               PROVE  launches[k].name = starts
    BY DEF ResetIsFresh
  <2>1. launches[k].token = runtime /\ launches[k].token \in 1 .. MaxStarts
    BY <1>1, LaunchFields DEF Answering, DeploymentInv, Launches
  <2>2. runtime = starts
    BY <1>1, <2>1 DEF DeploymentInv, Handled, None
  <2> QED BY <1>1, <2>1, <2>2 DEF DeploymentInv, Labelled
<1> QED BY <1>1, DeploymentIsInvariant, PTL

\* A close() that returns has stopped every container of the deployment, the
\* ones of timeouts, fallbacks and earlier attempts included, as long as
\* docker kill works.
THEOREM NoneLeaks == Spec => []NoLeak
<1>1. ASSUME DeploymentInv PROVE NoLeak
  <2> SUFFICES ASSUME pc = "closed", ~unkilled, NEW k \in Indices, Running(k)
               PROVE  FALSE
    BY DEF NoLeak
  <2>1. launches[k].name = None
    BY <1>1 DEF DeploymentInv, Killable, Located
  <2> QED BY <1>1, <2>1, LaunchFields DEF DeploymentInv, Launches, None
<1> QED BY <1>1, DeploymentIsInvariant, PTL

\* The assertion of DockerDeployment.start holds whatever preceded the start.
THEOREM StartsAreUnnamed == Spec => []StartIsUnnamed
<1>1. DeploymentInv => StartIsUnnamed
  BY DEF DeploymentInv, Located, StartIsUnnamed
<1> QED BY <1>1, DeploymentIsInvariant, PTL

-----------------------------------------------------------------------------
(* Environment: the commands of a setup *)

\* How many bundles there are, how many of them have a state command, and how many
\* commands a setup has.
N == Len(Bundles)
M == Len(StateBundles)
Total == 19 + N + M

BeforeBundles ==
  <<Plain("deploy"), Plain("session"), Plain("bind"), Plain("defaults"), Plain("slash"),
    Plain("repo"), Plain("post"), Plain("tools"), Plain("pwd"), Plain("upload")>>
AfterBundles ==
  <<Plain("back"), Plain("path"), Plain("check"), Plain("tools"), Plain("registry"),
    Plain("json"), Plain("reset"), Plain("problem")>>

\* The command at each place of StartCommands \o SetupCommands.
CommandAt(i) ==
  IF i <= 10 THEN BeforeBundles[i]
  ELSE IF i <= 10 + N THEN Command("bundle", Bundles[i - 10])
  ELSE IF i <= 18 + N THEN AfterBundles[i - 10 - N]
  ELSE IF i < Total THEN Command("state", StateBundles[i - 18 - N])
  ELSE Plain("read")
Dos == {"deploy", "session", "bind", "defaults", "slash", "repo", "post", "tools", "pwd", "upload",
        "bundle", "back", "path", "check", "registry", "json", "reset", "problem", "state", "read"}
Commands == [do : Dos, bundle : ToSet(Bundles) \cup {""}]

-----------------------------------------------------------------------------
(* Environment: the inductive invariant *)

Modes == {"setup", "observing", "ready", "over", "raised", "closed"}
Dirs == {"none", "home", "/", "repo", "elsewhere"} \cup ToSet(Bundles)
Shells == [dir : Dirs, var : {"unset", "start", "tools", "script", "agent"},
           root : {"unset", "repo", "elsewhere"}, path : SUBSET ToSet(Bundles)]
Registries == {"none", "script", "config", "agent"}
Parts == [open : Registries, dir : Dirs, diff : Int]
Disks == [tree : Nat, registry : Registries, patch : Int, json : {"missing", "broken", "dict"},
          parts : Parts, bundles : SUBSET ToSet(Bundles)]

EnvironmentTyped ==
  /\ keeps \in BOOLEAN /\ mode \in Modes /\ shell \in Shells /\ disk \in Disks /\ cwd \in Dirs
  /\ sound \in BOOLEAN /\ state \in Parts /\ todo \in Seq(Commands)

\* What is left is the end of the whole sequence.
Aligned ==
  /\ (todo # <<>>) <=> mode \in {"setup", "observing"}
  /\ Len(todo) <= Total /\ (mode = "observing" => Len(todo) <= M + 1)
  /\ \A i \in 1 .. Len(todo) : todo[i] = CommandAt(Total - Len(todo) + i)

\* What the first k commands of a setup have prepared.
Prepared(k) ==
  /\ k >= 1 => keeps \/ disk.tree = 0
  /\ k >= 6 => shell.root = "repo"
  /\ 7 <= k /\ k <= 10 => shell.dir = PostDir
  /\ k >= 9 => cwd = PostDir
  /\ k >= 11 + N => shell.dir = PostDir
  /\ k >= 14 + N => shell.var = "tools"
  /\ k >= 15 + N => disk.registry = "config"
  /\ k >= 10 => disk.bundles = ToSet(Bundles)
  /\ \A i \in 1 .. N : k >= 10 + i => Bundles[i] \in shell.path

\* What the state commands that have worked say in state.json.
Shown(b) ==
  /\ disk.json = "dict"
  /\ b = "windowed" => disk.parts.open = disk.registry /\ disk.parts.dir = shell.dir
  /\ b = "diff_state" => disk.parts.diff = disk.tree
Observed == \A i \in 1 .. M : Len(todo) <= M + 1 - i => Shown(StateBundles[i])

EnvironmentInv ==
  /\ EnvironmentTyped /\ Aligned
  /\ mode = "setup" => Prepared(Total - Len(todo))
  /\ mode \in {"setup", "observing"} /\ sound => Observed
  /\ StateIsCurrent

-----------------------------------------------------------------------------
(* Environment: sequences *)

LEMMA Lengths ==
  /\ N \in Nat /\ M \in Nat /\ Total \in Nat /\ Total = 19 + N + M
  /\ \A i \in 1 .. N : Bundles[i] \in ToSet(Bundles)
  /\ \A i \in 1 .. M : StateBundles[i] \in {"windowed", "edit_anthropic", "diff_state"}
BY EnvironmentAssumption, LenProperties, ElementOfSeq DEF N, M, Total, ToSet

LEMMA PerBundleIs ==
  ASSUME NEW do, NEW S, NEW bundles \in Seq(S)
  PROVE  /\ Len(PerBundle(do, bundles)) = Len(bundles)
         /\ \A i \in 1 .. Len(bundles) : PerBundle(do, bundles)[i] = Command(do, bundles[i])
         /\ \A T : (\A i \in 1 .. Len(bundles) : Command(do, bundles[i]) \in T) =>
                     PerBundle(do, bundles) \in Seq(T)
BY DEF PerBundle

\* The concatenation of two sequences, by places.
LEMMA Joined ==
  ASSUME NEW s \in Seq(Commands), NEW t \in Seq(Commands)
  PROVE  /\ s \o t \in Seq(Commands) /\ Len(s \o t) = Len(s) + Len(t)
         /\ \A i \in 1 .. Len(s) + Len(t) :
              (s \o t)[i] = IF i <= Len(s) THEN s[i] ELSE t[i - Len(s)]
BY ConcatProperties

LEMMA PlainTyped == \A do \in Dos : Plain(do) \in Commands
BY DEF Plain, Command, Commands

LEMMA BundleCommands ==
  /\ PerBundle("bundle", Bundles) \in Seq(Commands) /\ Len(PerBundle("bundle", Bundles)) = N
  /\ \A i \in 1 .. N : PerBundle("bundle", Bundles)[i] = Command("bundle", Bundles[i])
<1>1. \A i \in 1 .. N : Command("bundle", Bundles[i]) \in Commands
  BY Lengths DEF Command, Commands, Dos
<1> QED BY <1>1, PerBundleIs, EnvironmentAssumption DEF N

LEMMA StateSequence ==
  /\ StateCommands \in Seq(Commands) /\ Len(StateCommands) = M + 1
  /\ \A i \in 1 .. M + 1 : StateCommands[i] = CommandAt(18 + N + i)
<1> DEFINE s == PerBundle("state", StateBundles)
<1>1. /\ s \in Seq(Commands) /\ Len(s) = M
      /\ \A i \in 1 .. M : s[i] = Command("state", StateBundles[i])
  <2>1. \A i \in 1 .. M : StateBundles[i] \in ToSet(Bundles)
    BY EnvironmentAssumption, ElementOfSeq DEF M
  <2>2. \A i \in 1 .. M : Command("state", StateBundles[i]) \in Commands
    BY <2>1 DEF Command, Commands, Dos
  <2> QED BY <2>2, PerBundleIs, EnvironmentAssumption DEF M
<1>2. <<Plain("read")>> \in Seq(Commands) /\ Len(<<Plain("read")>>) = 1
      /\ <<Plain("read")>>[1] = Plain("read")
  BY PlainTyped DEF Dos
<1>3. StateCommands = s \o <<Plain("read")>>
  BY DEF StateCommands
<1> HIDE DEF s
<1>4. /\ StateCommands \in Seq(Commands) /\ Len(StateCommands) = M + 1
      /\ \A i \in 1 .. M + 1 : StateCommands[i] = IF i <= M THEN s[i] ELSE <<Plain("read")>>[i - M]
  BY <1>1, <1>2, <1>3, Joined, Lengths
<1>5. ASSUME NEW i \in 1 .. M + 1 PROVE StateCommands[i] = CommandAt(18 + N + i)
  <2>1. CASE i <= M
    <3> DEFINE p == 18 + N + i
    <3>1. i \in 1 .. M /\ p - 18 - N = i /\ p < Total /\ ~(p <= 10) /\ ~(p <= 10 + N)
          /\ ~(p <= 18 + N)
      BY <2>1, Lengths
    <3>2. StateCommands[i] = Command("state", StateBundles[i])
      BY <1>1, <1>4, <2>1, <3>1
    <3> HIDE DEF p
    <3>3. CommandAt(p) = Command("state", StateBundles[p - 18 - N])
      BY <3>1, Zenon DEF CommandAt
    <3>4. CommandAt(p) = Command("state", StateBundles[i])
      BY <3>1, <3>3, Zenon
    <3> QED BY <3>2, <3>4 DEF p
  <2>2. CASE i = M + 1
    <3>1. i - M = 1 /\ ~(i <= M) /\ 18 + N + i = Total /\ ~(18 + N + i <= 10)
          /\ ~(18 + N + i <= 10 + N) /\ ~(18 + N + i <= 18 + N) /\ ~(Total < Total)
      BY <2>2, Lengths
    <3>2. CommandAt(18 + N + i) = Plain("read")
      BY <3>1 DEF CommandAt
    <3> QED BY <1>2, <1>4, <3>1, <3>2
  <2> QED BY <2>1, <2>2, Lengths
<1> QED BY <1>4, <1>5

LEMMA SetupSequence ==
  LET s == StartCommands \o SetupCommands
  IN /\ s \in Seq(Commands) /\ Len(s) = Total
     /\ \A i \in 1 .. Total : s[i] = CommandAt(i)
<1> DEFINE tools == <<Plain("tools"), Plain("pwd"), Plain("upload")>>
           bundles == PerBundle("bundle", Bundles)
           back == <<Plain("back"), Plain("path"), Plain("check")>>
           problem == <<Plain("problem")>>
           install == tools \o bundles \o back
           early == tools \o bundles
           prepare == install \o ResetCommands
           posed == prepare \o problem
           setup == posed \o StateCommands
           whole == StartCommands \o setup
<1>1. /\ StartCommands \in Seq(Commands) /\ tools \in Seq(Commands) /\ back \in Seq(Commands)
      /\ ResetCommands \in Seq(Commands) /\ problem \in Seq(Commands)
  BY PlainTyped DEF Dos, StartCommands, ResetCommands
<1>0. /\ Len(StartCommands) = 7 /\ Len(tools) = 3 /\ Len(back) = 3
      /\ Len(ResetCommands) = 4 /\ Len(problem) = 1
  BY DEF StartCommands, ResetCommands
<1>2. /\ \A i \in 1 .. 7 : StartCommands[i] = BeforeBundles[i]
      /\ \A i \in 1 .. 3 : tools[i] = BeforeBundles[7 + i]
      /\ \A i \in 1 .. 3 : back[i] = AfterBundles[i]
      /\ \A i \in 1 .. 4 : ResetCommands[i] = AfterBundles[3 + i]
      /\ problem[1] = AfterBundles[8]
  BY DEF StartCommands, ResetCommands, BeforeBundles, AfterBundles
<1>3. whole = StartCommands \o SetupCommands
  BY DEF SetupCommands, InstallCommands
<1> HIDE DEF tools, bundles, back, problem
<1>4. bundles \in Seq(Commands) /\ Len(bundles) = N
      /\ \A i \in 1 .. N : bundles[i] = Command("bundle", Bundles[i])
  BY BundleCommands DEF bundles
<1>5. /\ early \in Seq(Commands) /\ Len(early) = 3 + N
      /\ \A i \in 1 .. 3 + N : early[i] = IF i <= 3 THEN tools[i] ELSE bundles[i - 3]
  <2>1. early = tools \o bundles
    BY DEF early
  <2> HIDE DEF early
  <2>2. tools \in Seq(Commands) /\ bundles \in Seq(Commands)
    BY <1>1, <1>4, Zenon
  <2>3. /\ early \in Seq(Commands) /\ Len(early) = Len(tools) + Len(bundles)
        /\ \A i \in 1 .. Len(tools) + Len(bundles) :
             early[i] = IF i <= Len(tools) THEN tools[i] ELSE bundles[i - Len(tools)]
    BY <2>1, <2>2
  <2>4. Len(tools) = 3 /\ Len(bundles) = N /\ 3 + N = 3 + N
    BY <1>0, <1>4, Lengths
  <2> QED BY <2>3, <2>4, Zenon
<1> HIDE DEF early
<1>6. /\ install \in Seq(Commands) /\ Len(install) = 6 + N
      /\ \A i \in 1 .. 6 + N : install[i] = IF i <= 3 + N THEN early[i] ELSE back[i - (3 + N)]
  <2>1. install = early \o back
    BY DEF install, early
  <2> HIDE DEF install
  <2>2. early \in Seq(Commands) /\ back \in Seq(Commands)
    BY <1>1, <1>5, Zenon
  <2>3. /\ install \in Seq(Commands) /\ Len(install) = Len(early) + Len(back)
        /\ \A i \in 1 .. Len(early) + Len(back) :
             install[i] = IF i <= Len(early) THEN early[i] ELSE back[i - Len(early)]
    BY <2>1, <2>2
  <2>4. Len(early) = 3 + N /\ Len(back) = 3 /\ (3 + N) + 3 = 6 + N
    BY <1>0, <1>5, Lengths
  <2> QED BY <2>3, <2>4, Zenon
<1> HIDE DEF install
<1>7. /\ prepare \in Seq(Commands) /\ Len(prepare) = 10 + N
      /\ \A i \in 1 .. 10 + N :
           prepare[i] = IF i <= 6 + N THEN install[i] ELSE ResetCommands[i - (6 + N)]
  <2>1. prepare = install \o ResetCommands
    BY DEF prepare
  <2> HIDE DEF prepare
  <2>2. install \in Seq(Commands) /\ ResetCommands \in Seq(Commands)
    BY <1>1, <1>6, Zenon
  <2>3. /\ prepare \in Seq(Commands) /\ Len(prepare) = Len(install) + Len(ResetCommands)
        /\ \A i \in 1 .. Len(install) + Len(ResetCommands) :
             prepare[i] = IF i <= Len(install) THEN install[i] ELSE ResetCommands[i - Len(install)]
    BY <2>1, <2>2
  <2>4. Len(install) = 6 + N /\ Len(ResetCommands) = 4 /\ (6 + N) + 4 = 10 + N
    BY <1>0, <1>6, Lengths
  <2> QED BY <2>3, <2>4, Zenon
<1> HIDE DEF prepare
<1>8. /\ posed \in Seq(Commands) /\ Len(posed) = 11 + N
      /\ \A i \in 1 .. 11 + N : posed[i] = IF i <= 10 + N THEN prepare[i] ELSE problem[i - (10 + N)]
  <2>1. posed = prepare \o problem
    BY DEF posed
  <2> HIDE DEF posed
  <2>2. prepare \in Seq(Commands) /\ problem \in Seq(Commands)
    BY <1>1, <1>7, Zenon
  <2>3. /\ posed \in Seq(Commands) /\ Len(posed) = Len(prepare) + Len(problem)
        /\ \A i \in 1 .. Len(prepare) + Len(problem) :
             posed[i] = IF i <= Len(prepare) THEN prepare[i] ELSE problem[i - Len(prepare)]
    BY <2>1, <2>2
  <2>4. Len(prepare) = 10 + N /\ Len(problem) = 1 /\ (10 + N) + 1 = 11 + N
    BY <1>0, <1>7, Lengths
  <2> QED BY <2>3, <2>4, Zenon
<1> HIDE DEF posed
<1>9. /\ setup \in Seq(Commands) /\ Len(setup) = 12 + N + M
      /\ \A i \in 1 .. 12 + N + M :
           setup[i] = IF i <= 11 + N THEN posed[i] ELSE StateCommands[i - (11 + N)]
  <2>1. setup = posed \o StateCommands
    BY DEF setup
  <2> HIDE DEF setup
  <2>2. posed \in Seq(Commands) /\ StateCommands \in Seq(Commands)
    BY <1>8, StateSequence, Zenon
  <2>3. /\ setup \in Seq(Commands) /\ Len(setup) = Len(posed) + Len(StateCommands)
        /\ \A i \in 1 .. Len(posed) + Len(StateCommands) :
             setup[i] = IF i <= Len(posed) THEN posed[i] ELSE StateCommands[i - Len(posed)]
    BY <2>1, <2>2
  <2>4. Len(posed) = 11 + N /\ Len(StateCommands) = M + 1 /\ (11 + N) + (M + 1) = 12 + N + M
    BY <1>8, StateSequence, Lengths
  <2> QED BY <2>3, <2>4, Zenon
<1> HIDE DEF setup
<1>10. /\ whole \in Seq(Commands) /\ Len(whole) = Total
      /\ \A i \in 1 .. Total : whole[i] = IF i <= 7 THEN StartCommands[i] ELSE setup[i - 7]
  <2>1. whole = StartCommands \o setup
    BY DEF whole
  <2> HIDE DEF whole
  <2>2. StartCommands \in Seq(Commands) /\ setup \in Seq(Commands)
    BY <1>1, <1>9, Zenon
  <2>3. /\ whole \in Seq(Commands) /\ Len(whole) = Len(StartCommands) + Len(setup)
        /\ \A i \in 1 .. Len(StartCommands) + Len(setup) :
             whole[i] = IF i <= Len(StartCommands) THEN StartCommands[i]
                        ELSE setup[i - Len(StartCommands)]
    BY <2>1, <2>2
  <2>4. Len(StartCommands) = 7 /\ Len(setup) = 12 + N + M /\ 7 + (12 + N + M) = Total
    BY <1>0, <1>9, Lengths
  <2> QED BY <2>3, <2>4, Zenon
<1> HIDE DEF whole
<1>11. ASSUME NEW i \in 1 .. Total PROVE whole[i] = CommandAt(i)
  <2>1. CASE i <= 7
    BY <1>2, <1>10, <2>1 DEF CommandAt
  <2>2. CASE 7 < i /\ i <= 10
    <3>1. i - 7 \in 1 .. 3 /\ 7 + (i - 7) = i /\ i - 7 \in 1 .. 12 + N + M
      BY <2>2, Lengths
    <3>2. whole[i] = setup[i - 7] /\ setup[i - 7] = posed[i - 7]
      BY <1>9, <1>10, <2>2, <3>1, Lengths
    <3>3. posed[i - 7] = prepare[i - 7] /\ prepare[i - 7] = install[i - 7]
      BY <1>7, <1>8, <2>2, <3>1, Lengths
    <3>4. install[i - 7] = early[i - 7] /\ early[i - 7] = tools[i - 7]
      BY <1>5, <1>6, <2>2, <3>1, Lengths
    <3>5. whole[i] = tools[i - 7]
      BY <3>2, <3>3, <3>4, Zenon
    <3> QED BY <1>2, <2>2, <3>1, <3>5 DEF CommandAt
  <2>3. CASE 10 < i /\ i <= 10 + N
    <3>1. i - 10 \in 1 .. N /\ i - 7 - 3 = i - 10
      BY <2>3, Lengths
    <3>2. whole[i] = setup[i - 7] /\ setup[i - 7] = posed[i - 7]
      BY <1>9, <1>10, <2>3, Lengths
    <3>3. posed[i - 7] = prepare[i - 7] /\ prepare[i - 7] = install[i - 7]
      BY <1>7, <1>8, <2>3, Lengths
    <3>4. install[i - 7] = early[i - 7] /\ early[i - 7] = bundles[i - 7 - 3]
      BY <1>5, <1>6, <2>3, Lengths
    <3>5. whole[i] = bundles[i - 10]
      BY <3>1, <3>2, <3>3, <3>4, Zenon
    <3> QED BY <1>4, <2>3, <3>1, <3>5 DEF CommandAt
  <2>4. CASE 10 + N < i /\ i <= 18 + N
    <3> DEFINE j == i - 10 - N
    <3>1. j \in 1 .. 8 /\ CommandAt(i) = AfterBundles[j]
      BY <2>4, Lengths DEF CommandAt
    <3>2. whole[i] = posed[j + 3 + N]
      BY <1>9, <1>10, <2>4, Lengths
    <3>3. posed[j + 3 + N] = AfterBundles[j]
      <4>1. CASE j <= 3
        <5>1. posed[j + 3 + N] = back[j]
          BY <1>6, <1>7, <1>8, <3>1, <4>1, Lengths
        <5> QED BY <1>2, <3>1, <4>1, <5>1
      <4>2. CASE 3 < j /\ j <= 7
        <5>1. j + 3 + N - (6 + N) = j - 3 /\ j - 3 \in 1 .. 4 /\ 3 + (j - 3) = j
          BY <3>1, <4>2, Lengths
        <5>2. posed[j + 3 + N] = prepare[j + 3 + N]
          BY <1>8, <3>1, <4>2, Lengths
        <5>3. prepare[j + 3 + N] = ResetCommands[j + 3 + N - (6 + N)]
          BY <1>7, <3>1, <4>2, Lengths
        <5>4. posed[j + 3 + N] = ResetCommands[j - 3]
          BY <5>1, <5>2, <5>3, Zenon
        <5> QED BY <1>2, <5>1, <5>4
      <4>3. CASE j = 8
        <5>1. posed[j + 3 + N] = problem[1]
          BY <1>8, <3>1, <4>3, Lengths
        <5> QED BY <1>2, <4>3, <5>1
      <4> QED BY <3>1, <4>1, <4>2, <4>3
    <3> QED BY <3>1, <3>2, <3>3
  <2>5. CASE 18 + N < i
    <3>1. i - (18 + N) \in 1 .. M + 1 /\ 18 + N + (i - (18 + N)) = i
      BY <2>5, Lengths
    <3>2. i - 7 - (11 + N) = i - (18 + N)
      BY Lengths
    <3>3. whole[i] = setup[i - 7] /\ setup[i - 7] = StateCommands[i - 7 - (11 + N)]
      BY <1>9, <1>10, <2>5, Lengths
    <3>4. whole[i] = StateCommands[i - (18 + N)]
      BY <3>2, <3>3, Zenon
    <3> QED BY <3>1, <3>4, StateSequence
  <2> QED BY <2>1, <2>2, <2>3, <2>4, <2>5, Lengths
<1> QED BY <1>3, <1>10, <1>11
-----------------------------------------------------------------------------
(* Environment: what a command does *)

LEMMA PlainIs == \A do : Plain(do).do = do
BY Zenon DEF Plain, Command

LEMMA NoStateTyped == NoState \in Parts
BY DEF Parts, NoState, Registries, Dirs

\* Where each command is.
LEMMA Places ==
  ASSUME NEW p \in 1 .. Total
  PROVE  LET do == CommandAt(p).do
         IN /\ (do = "deploy" <=> p = 1) /\ (do = "session" <=> p = 2)
            /\ (do = "defaults" <=> p = 4)
            /\ (do = "slash" <=> p = 5) /\ (do = "repo" <=> p = 6) /\ (do = "post" <=> p = 7)
            /\ (do = "pwd" <=> p = 9)
            /\ (do = "tools" <=> p = 8 \/ p = 14 + N) /\ (do = "upload" <=> p = 10)
            /\ (do = "bundle" <=> 10 < p /\ p <= 10 + N) /\ (do = "back" <=> p = 11 + N)
            /\ (do = "registry" <=> p = 15 + N) /\ (do = "json" <=> p = 16 + N)
            /\ (do = "state" <=> 18 + N < p /\ p < Total) /\ (do = "read" <=> p = Total)
            /\ do = "bundle" => CommandAt(p).bundle = Bundles[p - 10]
            /\ do = "state" => CommandAt(p).bundle = StateBundles[p - 18 - N]
<1>1. CASE p <= 10
  <2>1. CommandAt(p) = BeforeBundles[p] /\ p \in 1 .. 10
    BY <1>1, Lengths DEF CommandAt
  <2>2. /\ p = 1 => CommandAt(p).do = "deploy"
        /\ p = 2 => CommandAt(p).do = "session"
        /\ p = 3 => CommandAt(p).do = "bind"
        /\ p = 4 => CommandAt(p).do = "defaults"
        /\ p = 5 => CommandAt(p).do = "slash"
        /\ p = 6 => CommandAt(p).do = "repo"
        /\ p = 7 => CommandAt(p).do = "post"
        /\ p = 8 => CommandAt(p).do = "tools"
        /\ p = 9 => CommandAt(p).do = "pwd"
        /\ p = 10 => CommandAt(p).do = "upload"
    BY <2>1, PlainIs DEF BeforeBundles
  <2> QED BY <1>1, <2>1, <2>2, Lengths
<1>2. CASE 10 < p /\ p <= 10 + N
  <2>1. CommandAt(p) = Command("bundle", Bundles[p - 10])
    BY <1>2, Lengths DEF CommandAt
  <2> QED BY <1>2, <2>1, Lengths DEF Command
<1>3. CASE 10 + N < p /\ p <= 18 + N
  <2>1. CommandAt(p) = AfterBundles[p - 10 - N] /\ p - 10 - N \in 1 .. 8
    BY <1>3, Lengths DEF CommandAt
  <2> DEFINE j == p - 10 - N
  <2>2. /\ j = 1 => CommandAt(p).do = "back"
        /\ j = 2 => CommandAt(p).do = "path"
        /\ j = 3 => CommandAt(p).do = "check"
        /\ j = 4 => CommandAt(p).do = "tools"
        /\ j = 5 => CommandAt(p).do = "registry"
        /\ j = 6 => CommandAt(p).do = "json"
        /\ j = 7 => CommandAt(p).do = "reset"
        /\ j = 8 => CommandAt(p).do = "problem"
    BY <2>1, PlainIs DEF AfterBundles
  <2> QED BY <1>3, <2>1, <2>2, Lengths
<1>4. CASE 18 + N < p /\ p < Total
  <2>1. CommandAt(p) = Command("state", StateBundles[p - 18 - N])
    BY <1>4, Lengths DEF CommandAt
  <2> QED BY <1>4, <2>1, Lengths DEF Command
<1>5. CASE p = Total
  <2>1. CommandAt(p) = Plain("read")
    BY <1>5, Lengths DEF CommandAt
  <2>2. CommandAt(p).do = "read"
    BY <2>1, PlainIs
  <2> QED BY <1>5, <2>2, Lengths
<1> QED BY <1>1, <1>2, <1>3, <1>4, <1>5, Lengths

\* What a command does to the shell.
LEMMA ShellEffect ==
  ASSUME NEW c \in Commands, EnvironmentTyped, shell' \in ShellAfter(c),
         c.do = "bundle" => c.bundle \in ToSet(Bundles)
  PROVE  /\ shell' \in Shells
         /\ c.do \notin {"session", "defaults", "slash", "repo", "post", "tools", "bundle",
                           "back"} => shell' = shell
         /\ c.do \notin {"session", "repo"} => shell'.root = shell.root
         /\ c.do # "session" => shell.path \subseteq shell'.path
         /\ c.do \notin {"session", "slash", "repo", "post", "bundle", "back"} => shell'.dir = shell.dir
         /\ c.do \notin {"session", "defaults", "post", "tools", "bundle"} => shell'.var = shell.var
         /\ c.do = "repo" => shell'.dir = "repo" /\ shell'.root = "repo"
         /\ c.do = "post" => shell'.dir = PostDir
         /\ c.do = "tools" => shell'.var = "tools"
         /\ c.do = "bundle" => c.bundle \in shell'.path
         /\ c.do = "back" => shell'.dir = cwd
<1> USE DEF EnvironmentTyped, ShellAfter
<1>1. CASE c.do = "session"
  BY <1>1 DEF NewShell, NoShell, Shells, Dirs
<1>2. CASE c.do = "defaults"
  BY <1>2 DEF Shells
<1>3. CASE c.do = "slash"
  BY <1>3 DEF Shells, Dirs
<1>4. CASE c.do = "repo"
  BY <1>4 DEF Shells, Dirs
<1>5. CASE c.do = "tools"
  BY <1>5 DEF Shells
<1>6. CASE c.do = "bundle"
  <2> DEFINE on == [shell EXCEPT !.path = @ \cup {c.bundle}]
  <2>1. on \in Shells /\ on.root = shell.root /\ on.path = shell.path \cup {c.bundle}
    BY <1>6 DEF Shells
  <2>2. \/ shell' = on
        \/ \E v \in {shell.var, "script"} : shell' = [on EXCEPT !.dir = c.bundle, !.var = v]
    BY <1>6
  <2> HIDE DEF on
  <2>3. shell.var \in {"unset", "start", "tools", "script", "agent"} /\ c.bundle \in Dirs
    BY <1>6 DEF Shells, Dirs
  <2>4. shell' \in Shells /\ shell'.root = shell.root /\ shell'.path = shell.path \cup {c.bundle}
    BY <2>1, <2>2, <2>3 DEF Shells
  <2> QED BY <1>6, <2>4
<1>7. CASE c.do = "back"
  BY <1>7 DEF Shells
<1>9. CASE c.do = "post"
  BY <1>9, EnvironmentAssumption DEF Shells, Dirs
<1>8. CASE c.do \notin {"session", "defaults", "slash", "repo", "post", "tools", "bundle", "back"}
  BY <1>8
<1> QED BY <1>1, <1>2, <1>3, <1>4, <1>5, <1>6, <1>7, <1>8, <1>9

\* ... and to the disk; first the state commands, which also say what is shown.
LEMMA StateEffect ==
  ASSUME NEW c \in Commands, EnvironmentTyped, NEW gitWorks \in BOOLEAN,
         disk' \in DiskAfter(c, gitWorks), c.do = "state",
         c.bundle \in {"windowed", "edit_anthropic", "diff_state"}
  PROVE  /\ disk' \in Disks /\ disk'.json = "dict"
         /\ disk'.tree = disk.tree /\ disk'.registry = disk.registry
         /\ disk'.bundles = disk.bundles
         /\ c.bundle = "windowed" =>
              disk'.parts.open = disk.registry /\ disk'.parts.dir = shell.dir
         /\ c.bundle = "diff_state" /\ gitWorks => disk'.parts.diff = disk.tree
         /\ disk.json = "dict" =>
              /\ c.bundle # "windowed" => disk'.parts.open = disk.parts.open
              /\ c.bundle = "diff_state" => disk'.parts.dir = disk.parts.dir
              /\ c.bundle = "edit_anthropic" => disk'.parts.dir = shell.dir
              /\ c.bundle # "diff_state" => disk'.parts.diff = disk.parts.diff
<1> DEFINE read == IF disk.json = "missing" THEN NoState ELSE disk.parts
           patch == IF gitWorks THEN disk.tree ELSE disk.patch
           changed(p, q) == [disk EXCEPT !.json = "dict", !.parts = p, !.patch = q]
<1>1. read \in Parts /\ (disk.json = "dict" => read = disk.parts) /\ patch \in Int
      /\ disk.registry \in Registries /\ shell.dir \in Dirs
      /\ (gitWorks => patch = disk.tree)
  BY DEF EnvironmentTyped, Disks, Parts, NoState, Registries, Dirs, Shells
<1>2. ASSUME NEW p \in Parts, NEW q \in Int, disk' = changed(p, q)
      PROVE  /\ disk' \in Disks /\ disk'.json = "dict" /\ disk'.parts = p
             /\ disk'.tree = disk.tree /\ disk'.registry = disk.registry
             /\ disk'.bundles = disk.bundles
  BY <1>2 DEF EnvironmentTyped, Disks
<1>3. CASE c.bundle = "windowed"
  <2> DEFINE p == [read EXCEPT !.open = disk.registry, !.dir = shell.dir]
  <2>1. disk' = changed(p, disk.patch) /\ disk.patch \in Int
    BY <1>3 DEF DiskAfter, EnvironmentTyped, Disks
  <2> HIDE DEF read, patch, changed
  <2>2. p \in Parts /\ p.open = disk.registry /\ p.dir = shell.dir /\ p.diff = read.diff
    BY <1>1 DEF Parts
  <2> HIDE DEF p
  <2> QED BY <1>1, <1>2, <1>3, <2>1, <2>2
<1>4. CASE c.bundle = "edit_anthropic"
  <2> DEFINE p == [read EXCEPT !.dir = shell.dir]
  <2>1. disk' = changed(p, disk.patch) /\ disk.patch \in Int
    BY <1>4 DEF DiskAfter, EnvironmentTyped, Disks
  <2> HIDE DEF read, patch, changed
  <2>2. p \in Parts /\ p.open = read.open /\ p.dir = shell.dir /\ p.diff = read.diff
    BY <1>1 DEF Parts
  <2> HIDE DEF p
  <2> QED BY <1>1, <1>2, <1>4, <2>1, <2>2
<1>5. CASE c.bundle = "diff_state"
  <2> DEFINE diffs == IF gitWorks THEN {patch} ELSE {0, IF patch = -1 THEN 0 ELSE patch}
  <2>0. PICK q \in {[read EXCEPT !.diff = d] : d \in diffs} : disk' = changed(q, patch)
    BY <1>5 DEF DiskAfter
  <2>1. PICK d \in diffs : q = [read EXCEPT !.diff = d]
    BY <2>0
  <2> DEFINE p == [read EXCEPT !.diff = d]
  <2>2. d \in Int /\ (gitWorks => d = disk.tree)
    BY <1>1, <2>1
  <2>3. disk' = changed(p, patch)
    BY <2>0, <2>1
  <2> HIDE DEF read, patch, changed
  <2>4. p \in Parts /\ p.open = read.open /\ p.dir = read.dir /\ p.diff = d
    BY <1>1, <2>2 DEF Parts
  <2> HIDE DEF p
  <2> QED BY <1>1, <1>2, <1>5, <2>2, <2>3, <2>4
<1> QED BY <1>3, <1>4, <1>5

\* What any command does to the disk.
LEMMA DiskEffect ==
  ASSUME NEW c \in Commands, EnvironmentTyped, NEW gitWorks \in BOOLEAN,
         disk' \in DiskAfter(c, gitWorks),
         c.do = "state" => c.bundle \in {"windowed", "edit_anthropic", "diff_state"}
  PROVE  /\ disk' \in Disks
         /\ c.do # "deploy" => disk'.tree = disk.tree
         /\ c.do \notin {"deploy", "bundle", "registry"} => disk'.registry = disk.registry
         /\ c.do \notin {"deploy", "upload"} => disk'.bundles = disk.bundles
         /\ c.do = "deploy" => keeps \/ disk'.tree = 0
         /\ c.do = "upload" => disk'.bundles = ToSet(Bundles)
         /\ c.do = "registry" => disk'.registry = "config"
<1> USE DEF EnvironmentTyped, DiskAfter
<1>1. CASE c.do = "deploy"
  BY <1>1 DEF NewDisk, NoState, Disks, Parts, Registries, Dirs
<1>2. CASE c.do = "upload"
  BY <1>2 DEF Disks
<1>3. CASE c.do = "bundle"
  BY <1>3 DEF Disks, Registries
<1>4. CASE c.do = "registry"
  BY <1>4 DEF Disks, Registries
<1>5. CASE c.do = "json"
  <2>1. disk' = [disk EXCEPT !.json = "dict", !.parts = NoState]
    BY <1>5
  <2>2. NoState \in Parts
    BY NoStateTyped
  <2> HIDE DEF NoState
  <2> QED BY <1>5, <2>1, <2>2 DEF Disks
<1>6. CASE c.do = "state"
  BY <1>6, StateEffect
<1>7. CASE c.do \notin {"deploy", "upload", "bundle", "registry", "json", "state"}
  BY <1>7
<1> QED BY <1>1, <1>2, <1>3, <1>4, <1>5, <1>6, <1>7
-----------------------------------------------------------------------------
(* Environment: the steps *)

LEMMA CommandTyped ==
  ASSUME NEW p \in 1 .. Total
  PROVE  /\ CommandAt(p) \in Commands
         /\ CommandAt(p).do = "bundle" => CommandAt(p).bundle \in ToSet(Bundles)
         /\ CommandAt(p).do = "state" =>
              CommandAt(p).bundle \in {"windowed", "edit_anthropic", "diff_state"}
<1> DEFINE s == StartCommands \o SetupCommands
<1>1. s \in Seq(Commands) /\ Len(s) = Total /\ s[p] = CommandAt(p)
  BY SetupSequence
<1> HIDE DEF s
<1>2. CommandAt(p) \in Commands
  BY <1>1, ElementOfSeq
<1>3. CommandAt(p).do = "bundle" => p - 10 \in 1 .. N /\ CommandAt(p).bundle = Bundles[p - 10]
  BY Places, Lengths
<1>4. CommandAt(p).do = "state" =>
        p - 18 - N \in 1 .. M /\ CommandAt(p).bundle = StateBundles[p - 18 - N]
  BY Places, Lengths
<1>5. CommandAt(p).do = "bundle" => CommandAt(p).bundle \in ToSet(Bundles)
  BY <1>3, Lengths
<1>6. CommandAt(p).do = "state" =>
        CommandAt(p).bundle \in {"windowed", "edit_anthropic", "diff_state"}
  BY <1>4, Lengths
<1> QED BY <1>2, <1>5, <1>6

\* A command that works prepares what its place promises.
LEMMA PreparedStep ==
  ASSUME EnvironmentTyped, NEW k \in 0 .. Total - 1, Prepared(k), NEW gitWorks \in BOOLEAN,
         shell' \in ShellAfter(CommandAt(k + 1)), disk' \in DiskAfter(CommandAt(k + 1), gitWorks),
         cwd' = IF CommandAt(k + 1).do = "pwd" THEN shell.dir ELSE cwd, UNCHANGED keeps
  PROVE  Prepared(k + 1)'
<1> DEFINE c == CommandAt(k + 1)
<1>1. k + 1 \in 1 .. Total /\ k \in Int /\ N \in Nat
  BY Lengths
<1>2. /\ c \in Commands
      /\ c.do = "bundle" => c.bundle \in ToSet(Bundles)
      /\ c.do = "state" => c.bundle \in {"windowed", "edit_anthropic", "diff_state"}
  BY <1>1, CommandTyped
<1> DEFINE do == c.do
<1>3. /\ (do = "deploy" <=> k = 0) /\ (do = "session" <=> k = 1) /\ (do = "defaults" <=> k = 3)
      /\ (do = "slash" <=> k = 4) /\ (do = "repo" <=> k = 5) /\ (do = "post" <=> k = 6)
      /\ (do = "pwd" <=> k = 8)
      /\ (do = "tools" <=> k = 7 \/ k = 13 + N) /\ (do = "upload" <=> k = 9)
      /\ (do = "bundle" <=> 10 <= k /\ k < 10 + N) /\ (do = "back" <=> k = 10 + N)
      /\ (do = "registry" <=> k = 14 + N)
      /\ do = "bundle" => c.bundle = Bundles[k + 1 - 10]
  <2>1. /\ (do = "deploy" <=> k + 1 = 1) /\ (do = "session" <=> k + 1 = 2)
        /\ (do = "defaults" <=> k + 1 = 4)
        /\ (do = "slash" <=> k + 1 = 5) /\ (do = "repo" <=> k + 1 = 6) /\ (do = "post" <=> k + 1 = 7)
        /\ (do = "pwd" <=> k + 1 = 9)
        /\ (do = "tools" <=> k + 1 = 8 \/ k + 1 = 14 + N) /\ (do = "upload" <=> k + 1 = 10)
        /\ (do = "bundle" <=> 10 < k + 1 /\ k + 1 <= 10 + N) /\ (do = "back" <=> k + 1 = 11 + N)
        /\ (do = "registry" <=> k + 1 = 15 + N)
        /\ do = "bundle" => c.bundle = Bundles[k + 1 - 10]
    BY <1>1, Places
  <2> QED BY <1>1, <2>1
<1>4. /\ do \notin {"session", "repo"} => shell'.root = shell.root
      /\ do # "session" => shell.path \subseteq shell'.path
      /\ do \notin {"session", "slash", "repo", "post", "bundle", "back"} => shell'.dir = shell.dir
      /\ do \notin {"session", "defaults", "post", "tools", "bundle"} => shell'.var = shell.var
      /\ do = "repo" => shell'.dir = "repo" /\ shell'.root = "repo"
      /\ do = "post" => shell'.dir = PostDir
      /\ do = "tools" => shell'.var = "tools"
      /\ do = "bundle" => c.bundle \in shell'.path
      /\ do = "back" => shell'.dir = cwd
  BY <1>2, ShellEffect
<1>5. /\ do # "deploy" => disk'.tree = disk.tree
      /\ do \notin {"deploy", "bundle", "registry"} => disk'.registry = disk.registry
      /\ do \notin {"deploy", "upload"} => disk'.bundles = disk.bundles
      /\ do = "deploy" => keeps \/ disk'.tree = 0
      /\ do = "upload" => disk'.bundles = ToSet(Bundles)
      /\ do = "registry" => disk'.registry = "config"
  BY <1>2, DiskEffect
<1>6. cwd' = IF do = "pwd" THEN shell.dir ELSE cwd
  OBVIOUS
<1> HIDE DEF c, do
<1>7. k + 1 >= 1 => keeps' \/ disk'.tree = 0
  BY <1>1, <1>3, <1>5 DEF Prepared
<1>8. k + 1 >= 6 => shell'.root = "repo"
  BY <1>1, <1>3, <1>4 DEF Prepared
<1>9. 7 <= k + 1 /\ k + 1 <= 10 => shell'.dir = PostDir
  BY <1>1, <1>3, <1>4 DEF Prepared
<1>10. k + 1 >= 9 => cwd' = PostDir
  BY <1>1, <1>3, <1>6 DEF Prepared
<1>11. k + 1 >= 11 + N => shell'.dir = PostDir
  BY <1>1, <1>3, <1>4 DEF Prepared
<1>12. k + 1 >= 14 + N => shell'.var = "tools"
  BY <1>1, <1>3, <1>4 DEF Prepared
<1>13. k + 1 >= 15 + N => disk'.registry = "config"
  BY <1>1, <1>3, <1>5 DEF Prepared
<1>14. k + 1 >= 10 => disk'.bundles = ToSet(Bundles)
  BY <1>1, <1>3, <1>5 DEF Prepared
<1>15. ASSUME NEW i \in 1 .. N, k + 1 >= 10 + i PROVE Bundles[i] \in shell'.path
  <2>1. CASE k + 1 = 10 + i
    <3>1. do = "bundle" /\ k + 1 - 10 = i
      BY <1>1, <1>3, <2>1
    <3> QED BY <1>3, <1>4, <3>1
  <2>2. CASE k >= 10 + i
    BY <1>1, <1>3, <1>4, <2>2 DEF Prepared
  <2> QED BY <1>1, <1>15, <2>1, <2>2
<1> QED BY <1>7, <1>8, <1>9, <1>10, <1>11, <1>12, <1>13, <1>14, <1>15 DEF Prepared

\* A state command that works keeps what the others have shown.
LEMMA ShownStep ==
  ASSUME EnvironmentTyped, NEW gitWorks \in BOOLEAN, NEW c \in Commands, c.do = "state",
         c.bundle \in {"windowed", "edit_anthropic", "diff_state"},
         shell' \in ShellAfter(c), disk' \in DiskAfter(c, gitWorks),
         c.bundle = "diff_state" => gitWorks
  PROVE  Shown(c.bundle)' /\ \A b : Shown(b) => Shown(b)'
<1>1. shell' = shell
  BY DEF ShellAfter
<1>2. Shown(c.bundle)'
  BY <1>1, StateEffect DEF Shown
<1>3. ASSUME NEW b, Shown(b) PROVE Shown(b)'
  BY <1>1, <1>3, StateEffect DEF Shown
<1> QED BY <1>2, <1>3

\* The command that is next, and what is left when it is done or has failed.
LEMMA NextCommand ==
  ASSUME EnvironmentInv, todo # <<>>, Head(todo).do # "read"
  PROVE  LET p == Total - Len(todo) + 1 IN
         /\ p \in 1 .. Total /\ Head(todo) = CommandAt(p) /\ mode \in {"setup", "observing"}
         /\ Tail(todo) \in Seq(Commands) /\ Len(Tail(todo)) = Len(todo) - 1
         /\ Len(todo) \in Nat /\ Len(todo) >= 2
         /\ todo' = Tail(todo) /\ UNCHANGED mode => Aligned'
<1>1. EnvironmentTyped /\ Aligned /\ todo \in Seq(Commands)
  BY DEF EnvironmentInv, EnvironmentTyped
<1>2. /\ Len(todo) \in Nat /\ Len(todo) >= 1 /\ Head(todo) = todo[1]
      /\ Tail(todo) \in Seq(Commands) /\ Len(Tail(todo)) = Len(todo) - 1
      /\ \A i \in 1 .. Len(todo) - 1 : Tail(todo)[i] = todo[i + 1]
  BY <1>1
<1>3. Len(todo) <= Total
  BY <1>1 DEF Aligned
<1>4. PICK p \in 1 .. Total : p = Total - Len(todo) + 1
  <2>1. Total - Len(todo) + 1 \in 1 .. Total
    BY <1>2, <1>3, Lengths
  <2> QED BY <2>1
<1>5. Head(todo) = CommandAt(p)
  BY <1>1, <1>2, <1>4 DEF Aligned
<1>6. p # Total
  BY <1>5, Places
<1>7. Len(todo) >= 2
  BY <1>2, <1>4, <1>6, Lengths
<1>8. mode \in {"setup", "observing"}
  BY <1>1 DEF Aligned
<1>9. ASSUME todo' = Tail(todo), UNCHANGED mode PROVE Aligned'
  <2>1. Len(todo') = Len(todo) - 1
    BY <1>2, <1>9, Zenon
  <2>2. todo' # <<>>
    BY <1>2, <1>7, <2>1
  <2>3. ASSUME NEW i \in 1 .. Len(todo) - 1 PROVE todo'[i] = CommandAt(Total - (Len(todo) - 1) + i)
    <3>1. i + 1 \in 1 .. Len(todo) /\ Total - Len(todo) + (i + 1) = Total - (Len(todo) - 1) + i
      BY <1>2, Lengths
    <3>2. todo'[i] = todo[i + 1] /\ todo[i + 1] = CommandAt(Total - Len(todo) + (i + 1))
      BY <1>1, <1>2, <1>9, <3>1 DEF Aligned
    <3> QED BY <3>1, <3>2, Zenon
  <2>4. Len(todo') <= Total /\ (mode' = "observing" => Len(todo') <= M + 1)
    BY <1>1, <1>2, <1>9, <2>1, Lengths DEF Aligned
  <2> QED BY <1>8, <1>9, <2>1, <2>2, <2>3, <2>4 DEF Aligned
<1> QED BY <1>2, <1>4, <1>5, <1>7, <1>8, <1>9

LEMMA WorksInv == ASSUME EnvironmentInv, CommandWorks PROVE EnvironmentInv'
<1>1. EnvironmentTyped /\ (mode = "setup" => Prepared(Total - Len(todo)))
      /\ (mode \in {"setup", "observing"} /\ sound => Observed)
  BY DEF EnvironmentInv
<1>2. todo # <<>> /\ Head(todo).do # "read"
  BY DEF CommandWorks
<1>3. /\ Total - Len(todo) + 1 \in 1 .. Total /\ Head(todo) = CommandAt(Total - Len(todo) + 1)
      /\ mode \in {"setup", "observing"} /\ mode # "ready"
      /\ Tail(todo) \in Seq(Commands) /\ Len(Tail(todo)) = Len(todo) - 1
      /\ Len(todo) \in Nat /\ Len(todo) >= 2
      /\ todo' = Tail(todo) /\ UNCHANGED mode => Aligned'
  BY <1>2, NextCommand
<1>4. PICK k \in 0 .. Total - 1 : k = Total - Len(todo)
  BY <1>3, Lengths
<1>5. PICK p \in 1 .. Total : p = k + 1 /\ p = Total - Len(todo) + 1
  BY <1>3, <1>4, Lengths
<1>6. PICK c : c = CommandAt(p)
  OBVIOUS
<1>7. Head(todo) = c /\ CommandAt(k + 1) = c
  BY <1>3, <1>5, <1>6, Zenon
<1>8. /\ c \in Commands
      /\ c.do = "bundle" => c.bundle \in ToSet(Bundles)
      /\ c.do = "state" => c.bundle \in {"windowed", "edit_anthropic", "diff_state"}
  BY <1>6, CommandTyped
<1>9. PICK gitWorks \in BOOLEAN :
        /\ disk' \in DiskAfter(c, gitWorks)
        /\ sound' = (sound /\ (c = Command("state", "diff_state") => gitWorks))
  BY <1>7 DEF CommandWorks
<1>10. /\ shell' \in ShellAfter(c) /\ cwd' = (IF c.do = "pwd" THEN shell.dir ELSE cwd)
       /\ todo' = Tail(todo) /\ UNCHANGED <<mode, state, keeps>>
  BY <1>7 DEF CommandWorks, Stays
<1>11. EnvironmentTyped'
  <2>1. shell' \in Shells
    BY <1>1, <1>8, <1>10, ShellEffect
  <2>2. disk' \in Disks
    BY <1>1, <1>8, <1>9, DiskEffect
  <2>3. cwd' \in Dirs
    BY <1>1, <1>10 DEF EnvironmentTyped, Shells
  <2>4. sound' \in BOOLEAN
    BY <1>9, Zenon
  <2> QED BY <1>1, <1>3, <1>10, <2>1, <2>2, <2>3, <2>4 DEF EnvironmentTyped
<1>12. Aligned'
  BY <1>3, <1>10
<1>13. Len(todo') = Len(todo) - 1
  BY <1>3, <1>10, Zenon
<1>14. mode' = "setup" => Prepared(Total - Len(todo))'
  <2>1. (Total - Len(todo))' = k + 1
    BY <1>3, <1>4, <1>13, Lengths DEF Total, N, M
  <2>2. mode = "setup" => Prepared(k + 1)'
    <3> SUFFICES ASSUME mode = "setup" PROVE Prepared(k + 1)'
      OBVIOUS
    <3>1. Prepared(k)
      BY <1>1, <1>4
    <3>2. /\ shell' \in ShellAfter(CommandAt(k + 1))
          /\ disk' \in DiskAfter(CommandAt(k + 1), gitWorks)
          /\ cwd' = IF CommandAt(k + 1).do = "pwd" THEN shell.dir ELSE cwd
          /\ UNCHANGED keeps
      BY <1>7, <1>9, <1>10
    <3> QED BY <1>1, <3>1, <3>2, PreparedStep
  <2> QED BY <1>10, <2>1, <2>2 DEF Prepared
<1>15. ASSUME sound' PROVE Observed'
  <2>1. ASSUME NEW i \in 1 .. M, Len(todo) - 1 <= M + 1 - i PROVE Shown(StateBundles[i])'
    <3>1. 18 + N < p /\ p < Total /\ p - 18 - N \in 1 .. M
      BY <1>3, <1>5, <2>1, Lengths
    <3>2. CommandAt(p).do = "state" /\ CommandAt(p).bundle = StateBundles[p - 18 - N]
      BY <3>1, Places
    <3>3. PICK j \in 1 .. M : c.bundle = StateBundles[j] /\ j = p - 18 - N /\ c.do = "state"
      BY <1>6, <3>1, <3>2, Zenon
    <3>4. sound /\ (c.bundle = "diff_state" => gitWorks)
      <4>1. c.bundle = "diff_state" => c = Command("state", "diff_state")
        BY <1>8, <3>3 DEF Commands, Command
      <4> QED BY <1>9, <1>15, <4>1
    <3>5. Shown(c.bundle)' /\ \A b : Shown(b) => Shown(b)'
      BY <1>1, <1>8, <1>9, <1>10, <3>3, <3>4, ShownStep
    <3>6. CASE i = j
      BY <3>3, <3>5, <3>6
    <3>7. CASE Len(todo) <= M + 1 - i
      BY <1>1, <1>3, <3>4, <3>5, <3>7 DEF Observed
    <3>8. i = j \/ Len(todo) <= M + 1 - i
      BY <1>3, <1>5, <2>1, <3>3, Lengths
    <3> QED BY <3>6, <3>7, <3>8
  <2> QED BY <1>13, <2>1 DEF Observed
<1> QED BY <1>3, <1>10, <1>11, <1>12, <1>14, <1>15 DEF EnvironmentInv, StateIsCurrent

\* A state command that fails shows nothing, and nothing is promised any more.
LEMMA FailsInv == ASSUME EnvironmentInv, StateCommandFails PROVE EnvironmentInv'
<1>1. EnvironmentTyped /\ (mode = "setup" => Prepared(Total - Len(todo)))
  BY DEF EnvironmentInv
<1>2. todo # <<>> /\ Head(todo).do = "state" /\ todo' = Tail(todo) /\ sound' = FALSE
      /\ UNCHANGED <<mode, shell, disk, cwd, state, keeps>>
  BY DEF StateCommandFails, Stays
<1>3. /\ Total - Len(todo) + 1 \in 1 .. Total /\ Head(todo) = CommandAt(Total - Len(todo) + 1)
      /\ mode \in {"setup", "observing"} /\ mode # "ready"
      /\ Tail(todo) \in Seq(Commands) /\ Len(Tail(todo)) = Len(todo) - 1
      /\ Len(todo) \in Nat /\ Len(todo) >= 2
      /\ todo' = Tail(todo) /\ UNCHANGED mode => Aligned'
  BY <1>2, NextCommand
<1>4. PICK p \in 1 .. Total : p = Total - Len(todo) + 1 /\ CommandAt(p).do = "state"
  BY <1>2, <1>3, Zenon
<1>5. EnvironmentTyped' /\ Aligned'
  BY <1>1, <1>2, <1>3 DEF EnvironmentTyped
<1>6. mode' = "setup" => Prepared(Total - Len(todo))'
  <2> SUFFICES ASSUME mode = "setup" PROVE Prepared(Total - Len(todo))'
    BY <1>2
  <2>1. 18 + N < p /\ Prepared(p - 1)
    <3>1. 18 + N < p
      BY <1>4, Places
    <3>2. p - 1 = Total - Len(todo)
      BY <1>3, <1>4, Lengths
    <3> QED BY <1>1, <3>1, <3>2
  <2>2. Prepared(p)'
    BY <1>2, <2>1, Lengths DEF Prepared
  <2>3. (Total - Len(todo))' = p
    <3>1. Len(todo') = Len(todo) - 1
      BY <1>2, <1>3, Zenon
    <3> QED BY <1>3, <1>4, <3>1, Lengths DEF Total, N, M
  <2> QED BY <2>2, <2>3
<1> QED BY <1>2, <1>3, <1>5, <1>6 DEF EnvironmentInv, StateIsCurrent

\* The environment is given up, and an attempt ends or begins.
LEMMA OtherStepsInv ==
  ASSUME EnvironmentInv,
         \/ CommandRaises \/ CallRaises \/ AgentCommand \/ AttemptEnds \/ NextAttempt
         \/ CloseEnvironment \/ UNCHANGED environmentVars
  PROVE  EnvironmentInv' /\ ~(mode = "setup" /\ mode' = "ready")
<1> USE DEF EnvironmentInv, Stays
<1>1. NoShell \in Shells /\ <<>> \in Seq(Commands)
  BY DEF NoShell, Shells, Dirs
<1>2. CASE CommandRaises
  BY <1>1, <1>2, Lengths DEF CommandRaises, EnvironmentTyped, Aligned, StateIsCurrent, Modes
<1>3. CASE CallRaises
  BY <1>1, <1>3, Lengths DEF CallRaises, EnvironmentTyped, Aligned, StateIsCurrent, Modes
<1>4. CASE AttemptEnds
  BY <1>4 DEF AttemptEnds, EnvironmentTyped, Aligned, StateIsCurrent, Modes
<1>5. CASE CloseEnvironment
  BY <1>1, <1>5 DEF CloseEnvironment, EnvironmentTyped, Aligned, StateIsCurrent, Modes
<1>6. CASE NextAttempt
  <2> DEFINE s == StartCommands \o SetupCommands
  <2>1. s \in Seq(Commands) /\ Len(s) = Total /\ \A i \in 1 .. Total : s[i] = CommandAt(i)
    BY SetupSequence
  <2>2. /\ mode = "over" /\ mode' = "setup" /\ shell' = NoShell /\ todo' = s /\ sound' = TRUE
        /\ UNCHANGED <<keeps, disk, cwd, state>>
    BY <1>6 DEF NextAttempt
  <2> HIDE DEF s
  <2>3. EnvironmentTyped'
    BY <1>1, <2>1, <2>2 DEF EnvironmentTyped, Modes
  <2>4. Aligned'
    BY <2>1, <2>2, Lengths DEF Aligned
  <2>5. (Total - Len(todo))' = 0 /\ Len(todo') = Total
    BY <2>1, <2>2, Lengths DEF Total, N, M
  <2>6. Prepared(Total - Len(todo))'
    BY <2>5, Lengths DEF Prepared
  <2>7. Observed'
    BY <2>5, Lengths DEF Observed
  <2> QED BY <2>2, <2>3, <2>4, <2>6, <2>7 DEF StateIsCurrent
<1>7. CASE AgentCommand
  <2>1. mode = "ready" /\ mode' = "observing" /\ todo' = StateCommands /\ sound' = TRUE
        /\ UNCHANGED <<cwd, state, keeps>>
    BY <1>7 DEF AgentCommand
  <2>2. shell' \in Shells /\ disk' \in Disks
    BY <1>7 DEF AgentCommand, ChangesTree, ChangesFiles, ChangesShell, EnvironmentTyped, Shells,
                Disks, Dirs, Registries
  <2>3. EnvironmentTyped'
    BY <2>1, <2>2, StateSequence DEF EnvironmentTyped, Modes
  <2>4. Len(todo') = M + 1 /\ todo' # <<>>
    BY <2>1, StateSequence, Lengths
  <2>5. Aligned'
    <3>1. ASSUME NEW i \in 1 .. M + 1 PROVE todo'[i] = CommandAt(Total - (M + 1) + i)
      <4>1. Total - (M + 1) + i = 18 + N + i
        BY Lengths
      <4>2. todo'[i] = CommandAt(18 + N + i)
        BY <2>1, StateSequence
      <4> QED BY <4>1, <4>2, Zenon
    <3> QED BY <2>1, <2>4, <3>1, Lengths DEF Aligned
  <2>6. Observed'
    BY <2>4, Lengths DEF Observed
  <2> QED BY <2>1, <2>3, <2>5, <2>6 DEF StateIsCurrent
<1>8. CASE UNCHANGED environmentVars
  BY <1>8 DEF environmentVars, EnvironmentTyped, Aligned, StateIsCurrent, Prepared, Observed, Shown
<1> QED BY <1>2, <1>3, <1>4, <1>5, <1>6, <1>7, <1>8

LEMMA InitEnvironment == EnvironmentInit => EnvironmentInv
<1> SUFFICES ASSUME EnvironmentInit PROVE EnvironmentInv
  OBVIOUS
<1> DEFINE s == StartCommands \o SetupCommands
<1>1. s \in Seq(Commands) /\ Len(s) = Total /\ \A i \in 1 .. Total : s[i] = CommandAt(i)
  BY SetupSequence
<1>2. todo = s /\ mode = "setup" /\ sound = TRUE /\ keeps \in BOOLEAN
  BY DEF EnvironmentInit
<1> HIDE DEF s
<1>3. EnvironmentTyped
  <2>1. NewDisk \in Disks /\ NoShell \in Shells
    BY NoStateTyped DEF NewDisk, Disks, Registries, NoShell, Shells, Dirs
  <2> QED BY <1>1, <1>2, <2>1, NoStateTyped DEF EnvironmentInit, EnvironmentTyped, Modes, Dirs
<1>4. Aligned
  BY <1>1, <1>2, Lengths DEF Aligned
<1>5. Total - Len(todo) = 0
  BY <1>1, <1>2, Lengths
<1>6. Prepared(Total - Len(todo))
  BY <1>5, Lengths DEF Prepared
<1>7. Observed
  BY <1>1, <1>2, Lengths DEF Observed
<1> QED BY <1>2, <1>3, <1>4, <1>6, <1>7 DEF EnvironmentInv, StateIsCurrent

\* What is shown when nothing is left but to read state.json.
LEMMA ReadInv ==
  ASSUME EnvironmentInv, ReadState
  PROVE  EnvironmentInv' /\ StartsAlike
<1>1. Len(todo) = 1 /\ todo # <<>>
  BY DEF ReadState
<1>2. mode \in {"setup", "observing"} /\ EnvironmentTyped
  BY <1>1 DEF EnvironmentInv, Aligned
<1>3. UNCHANGED <<shell, disk, cwd, sound, keeps>> /\ mode' = "ready" /\ todo' = <<>>
      /\ state' = IF disk.json = "missing" THEN NoState ELSE disk.parts
  BY DEF ReadState, Stays
<1>4. EnvironmentTyped'
  BY <1>2, <1>3, NoStateTyped DEF EnvironmentTyped, Modes, Disks
<1>5. Aligned'
  BY <1>3, Lengths DEF Aligned
<1>6. StateIsCurrent'
  <2> SUFFICES ASSUME sound
               PROVE  /\ "windowed" \in ToSet(StateBundles) =>
                           state'.open = disk.registry /\ state'.dir = shell.dir
                      /\ "diff_state" \in ToSet(StateBundles) => state'.diff = disk.tree
    BY <1>3 DEF StateIsCurrent
  <2>1. \A i \in 1 .. M : Shown(StateBundles[i])
    BY <1>1, <1>2, Lengths DEF EnvironmentInv, Observed
  <2>2. ASSUME NEW b \in ToSet(StateBundles) PROVE Shown(b)
    <3>1. PICK i \in 1 .. M : b = StateBundles[i]
      BY <2>2 DEF ToSet, M
    <3> QED BY <2>1, <3>1
  <2> QED BY <1>3, <2>2 DEF Shown
<1>7. EnvironmentInv'
  BY <1>3, <1>4, <1>5, <1>6 DEF EnvironmentInv
<1>8. ASSUME mode = "setup"
      PROVE  /\ shell = [dir |-> PostDir, var |-> "tools", root |-> "repo", path |-> ToSet(Bundles)]
             /\ disk.registry = "config" /\ disk.bundles = ToSet(Bundles)
             /\ keeps \/ disk.tree = 0
  <2>1. Prepared(Total - 1)
    BY <1>1, <1>8 DEF EnvironmentInv
  <2>2. /\ shell.dir = PostDir /\ shell.var = "tools" /\ shell.root = "repo"
        /\ disk.registry = "config" /\ disk.bundles = ToSet(Bundles)
        /\ keeps \/ disk.tree = 0
        /\ \A i \in 1 .. N : Bundles[i] \in shell.path
    BY <2>1, Lengths DEF Prepared
  <2>3. shell.path = ToSet(Bundles)
    <3>1. ASSUME NEW b \in ToSet(Bundles) PROVE b \in shell.path
      <4>1. PICK i \in 1 .. N : b = Bundles[i]
        BY <3>1 DEF ToSet, N
      <4> QED BY <2>2, <4>1
    <3>2. shell.path \subseteq ToSet(Bundles)
      BY <1>2 DEF EnvironmentTyped, Shells
    <3> QED BY <3>1, <3>2
  <2>4. shell = [dir |-> shell.dir, var |-> shell.var, root |-> shell.root, path |-> shell.path]
    BY <1>2 DEF EnvironmentTyped, Shells
  <2> QED BY <2>2, <2>3, <2>4
<1>9. StartsAlike
  BY <1>3, <1>8 DEF StartsAlike
<1> QED BY <1>7, <1>9

LEMMA EnvironmentStep ==
  ASSUME EnvironmentInv, [EnvironmentNext]_environmentVars
  PROVE  EnvironmentInv' /\ StartsAlike
<1>1. CASE ReadState
  BY <1>1, ReadInv
<1>2. CASE CommandWorks
  <2>1. UNCHANGED mode
    BY <1>2 DEF CommandWorks
  <2> QED BY <1>2, <2>1, WorksInv DEF StartsAlike
<1>3. CASE StateCommandFails
  <2>1. UNCHANGED mode
    BY <1>3 DEF StateCommandFails
  <2> QED BY <1>3, <2>1, FailsInv DEF StartsAlike
<1>4. CASE \/ CommandRaises \/ CallRaises \/ AgentCommand \/ AttemptEnds \/ NextAttempt
           \/ CloseEnvironment \/ UNCHANGED environmentVars
  BY <1>4, OtherStepsInv DEF StartsAlike
<1> QED BY <1>1, <1>2, <1>3, <1>4 DEF EnvironmentNext

\* What a setup has prepared and what the state commands have shown so far holds
\* in every state.
THEOREM EnvironmentIsInvariant == EnvironmentSpec => []EnvironmentInv
<1>1. EnvironmentInit => EnvironmentInv
  BY InitEnvironment
<1>2. EnvironmentInv /\ [EnvironmentNext]_environmentVars => EnvironmentInv'
  BY EnvironmentStep
<1> QED BY <1>1, <1>2, PTL DEF EnvironmentSpec

\* Every attempt of a retry agent starts alike, whatever the install scripts and
\* the attempts before it did, and the state it is shown is of the environment as
\* its last action left it, unless a state command or its git failed.
THEOREM AttemptsAreSound == EnvironmentSpec => EnvironmentIsSound
<1>1. EnvironmentInv /\ [EnvironmentNext]_environmentVars =>
        [StartsAlike /\ StateIsCurrent']_environmentVars
  BY EnvironmentStep DEF EnvironmentInv
<1> QED BY <1>1, EnvironmentIsInvariant, PTL DEF EnvironmentSpec, EnvironmentIsSound
=============================================================================
