---------------------------- MODULE Environment ----------------------------
(***************************************************************************)
(* What an attempt finds in its environment: SWEEnv (swe_env.py) starting, *)
(* resetting and closing it, ToolHandler (tools/tools.py) installing the   *)
(* bundles and reading the state, and the agent's own commands in between, *)
(* over the attempts of a retry agent.                                     *)
(*                                                                         *)
(* Data: of the shell its directory, the last writer of one variable of    *)
(* the tools, ROOT and the bundles on PATH; of the disk the version of     *)
(* the tree, the last writer of the registry, the model.patch that         *)
(* diff_state writes, state.json and the bundles that are uploaded.        *)
(* start, install and get_state are sequences of commands: `todo` holds    *)
(* those that are left, and any of them may fail or time out.              *)
(***************************************************************************)
EXTENDS Integers, Sequences, SequencesExt

CONSTANTS
  Bundles,      \* the bundles of the tool configuration, in their order
  HasInstall,   \* the bundles with an install.sh
  StateBundles, \* the bundles with a state_command, in their order
  PostDir,      \* where the post-startup commands leave the shell
  MaxVersion,   \* bound: versions of the tree
  MaxAttempts   \* bound: attempts of the retry agent

ASSUME EnvironmentAssumption ==
  /\ Bundles \in Seq(STRING) /\ HasInstall \subseteq ToSet(Bundles)
  /\ StateBundles \in Seq(ToSet(Bundles) \cap {"windowed", "edit_anthropic", "diff_state"})
  /\ PostDir \in {"repo", "elsewhere"}
  /\ MaxVersion \in Nat /\ MaxAttempts \in Nat

VARIABLES
  keeps,    \* the deployment keeps its disk over a restart (local, remote)
  mode,     \* who has the environment, or how it ended
  attempt,  \* attempts begun
  todo,     \* the commands that are left of start, install or get_state
  shell,    \* the bash session
  disk,     \* the file system of the box
  cwd,      \* the directory _install_commands returns to
  state,    \* the state that get_state returned last
  sound     \* ghost: every state command since has worked, git included

environmentVars == <<keeps, mode, attempt, todo, shell, disk, cwd, state, sound>>

NoShell == [dir |-> "none", var |-> "unset", root |-> "unset", path |-> {}]
NewShell == [NoShell EXCEPT !.dir = "home"]
NoState == [open |-> "none", dir |-> "none", diff |-> -1]
NewDisk == [tree |-> 0, registry |-> "none", patch |-> -1, json |-> "missing", parts |-> NoState,
            bundles |-> {}]

Command(do, bundle) == [do |-> do, bundle |-> bundle]
Plain(do) == Command(do, "")
PerBundle(do, bundles) == [i \in DOMAIN bundles |-> Command(do, bundles[i])]

\* start: the deployment and its session, the variables, cd /, the repository, and
\* the post-startup commands.
StartCommands ==
  <<Plain("deploy"), Plain("session"), Plain("bind"), Plain("defaults"), Plain("slash"),
    Plain("repo"), Plain("post")>>

ResetCommandsMutant == <<Plain("registry"), Plain("json"), Plain("reset")>>
\* ToolHandler.reset, after the installation: what an install.sh has exported or
\* written into the registry is written over.
ResetCommands == <<Plain("tools"), Plain("registry"), Plain("json"), Plain("reset")>>

InstallCommandsMutant ==
  <<Plain("tools"), Plain("pwd"), Plain("upload")>> \o PerBundle("bundle", Bundles)
    \o <<Plain("path"), Plain("check")>>
InstallCommands ==
  <<Plain("tools"), Plain("pwd"), Plain("upload")>> \o PerBundle("bundle", Bundles)
    \o <<Plain("back"), Plain("path"), Plain("check")>>

StateCommandsMutant ==
  SubSeq(PerBundle("state", StateBundles), 1, 1) \o <<Plain("read")>>
StateCommands == PerBundle("state", StateBundles) \o <<Plain("read")>>

\* DefaultAgent.setup
SetupCommands == InstallCommands \o ResetCommands \o <<Plain("problem")>> \o StateCommands

EnvironmentInit ==
  /\ keeps \in BOOLEAN
  /\ mode = "setup" /\ attempt = 1 /\ todo = StartCommands \o SetupCommands
  /\ shell = NoShell /\ disk = NewDisk /\ cwd = "none" /\ state = NoState /\ sound = TRUE

-----------------------------------------------------------------------------
(* The commands *)

\* What a command that works does to the shell. The post-startup commands run in the
\* agent's session and may export and change the directory; install.sh is sourced: it
\* leaves the shell where it wants, and its exports stay.
ShellAfter(c) ==
  CASE c.do = "session" -> {NewShell}
    [] c.do = "defaults" -> {[shell EXCEPT !.var = "start"]}
    [] c.do = "slash" -> {[shell EXCEPT !.dir = "/"]}
    [] c.do = "repo" -> {[shell EXCEPT !.dir = "repo", !.root = "repo"]}
    [] c.do = "post" -> {[shell EXCEPT !.dir = PostDir, !.var = v] : v \in {shell.var, "script"}}
    [] c.do = "tools" -> {[shell EXCEPT !.var = "tools"]}
    [] c.do = "bundle" ->
         LET on == [shell EXCEPT !.path = @ \cup {c.bundle}]
         IN IF c.bundle \in HasInstall
            THEN {[on EXCEPT !.dir = c.bundle, !.var = v] : v \in {shell.var, "script"}}
            ELSE {on}
    [] c.do = "back" -> {[shell EXCEPT !.dir = cwd]}
    [] OTHER -> {shell}

\* ... and to the disk. The bundles' state commands add their part to state.json;
\* diff_state reads model.patch also when git did not write it (gitWorks), and
\* gives no diff (0) when that fails too.
DiskAfter(c, gitWorks) ==
  CASE c.do = "deploy" -> {IF keeps THEN disk ELSE NewDisk}
    [] c.do = "upload" -> {[disk EXCEPT !.bundles = @ \cup ToSet(Bundles)]}
    [] c.do = "bundle" /\ c.bundle \in HasInstall ->
         {disk, [disk EXCEPT !.registry = "script"]}
    [] c.do = "registry" -> {[disk EXCEPT !.registry = "config"]}
    [] c.do = "json" -> {[disk EXCEPT !.json = "dict", !.parts = NoState]}
    [] c.do = "state" ->
         LET read == IF disk.json = "missing" THEN NoState ELSE disk.parts
             patch == IF gitWorks THEN disk.tree ELSE disk.patch
             parts ==
               CASE c.bundle = "windowed" ->
                      {[read EXCEPT !.open = disk.registry, !.dir = shell.dir]}
                 [] c.bundle = "edit_anthropic" -> {[read EXCEPT !.dir = shell.dir]}
                 [] c.bundle = "diff_state" ->
                      {[read EXCEPT !.diff = d] :
                         d \in IF gitWorks THEN {patch} ELSE {0, IF patch = -1 THEN 0 ELSE patch}}
         IN {[disk EXCEPT !.json = "dict", !.parts = p,
                          !.patch = IF c.bundle = "diff_state" THEN patch ELSE @] : p \in parts}
    [] OTHER -> {disk}

\* A state command needs a state.json it can read, and its bundle on PATH.
CanWork(c) ==
  /\ c.do = "state" => disk.json # "broken" /\ c.bundle \in shell.path \cap disk.bundles
  /\ c.do \in {"bundle", "check"} => ToSet(Bundles) \subseteq disk.bundles
  /\ c.do = "read" => disk.json # "broken"

Stays == UNCHANGED <<keeps, attempt>>

CommandWorks ==
  /\ todo # <<>> /\ Head(todo).do # "read" /\ CanWork(Head(todo))
  /\ shell' \in ShellAfter(Head(todo))
  /\ \E gitWorks \in (IF shell.root = "repo" THEN BOOLEAN ELSE {FALSE}) :
       /\ disk' \in DiskAfter(Head(todo), gitWorks)
       /\ sound' = (sound /\ (Head(todo) = Command("state", "diff_state") => gitWorks))
  /\ cwd' = IF Head(todo).do = "pwd" THEN shell.dir ELSE cwd
  /\ todo' = Tail(todo)
  /\ UNCHANGED <<mode, state>> /\ Stays

\* _get_state
ReadState ==
  /\ todo = <<Plain("read")>> /\ CanWork(Plain("read"))
  /\ state' = IF disk.json = "missing" THEN NoState ELSE disk.parts
  /\ todo' = <<>> /\ mode' = "ready"
  /\ UNCHANGED <<shell, disk, cwd, sound>> /\ Stays

\* A state command is only warned about when it fails: state.json stays as it is.
StateCommandFails ==
  /\ todo # <<>> /\ Head(todo).do = "state"
  /\ todo' = Tail(todo) /\ sound' = FALSE
  /\ UNCHANGED <<mode, shell, disk, cwd, state>> /\ Stays

Checked == {"defaults", "slash", "repo", "post", "tools", "pwd", "bundle", "back", "path",
            "reset", "problem"}

\* communicate(check="raise"): the environment is closed before the exception is raised.
CommandRaises ==
  /\ todo # <<>> /\ Head(todo).do \in Checked
  /\ mode' = "raised" /\ todo' = <<>> /\ shell' = NoShell
  /\ UNCHANGED <<disk, cwd, state, sound>> /\ Stays

\* Everything else that fails or times out raises as it is: out of the run while the
\* environment is set up, and out of the attempt when it observes.
CallRaises ==
  /\ todo # <<>>
  /\ mode' = IF mode = "observing" THEN "over" ELSE "raised"
  /\ todo' = <<>>
  /\ UNCHANGED <<shell, disk, cwd, state, sound>> /\ Stays

-----------------------------------------------------------------------------
(* The agent *)

\* An action of the agent does what it likes to the shell and to the box.
ChangesTree == disk' = [disk EXCEPT !.tree = @ + 1] /\ disk.tree < MaxVersion /\ UNCHANGED shell
ChangesFiles == disk' \in {[disk EXCEPT !.json = "broken"], [disk EXCEPT !.json = "missing"],
                     [disk EXCEPT !.registry = "agent"], [disk EXCEPT !.bundles = {}]}
          /\ UNCHANGED shell
ChangesShell == shell' \in {[shell EXCEPT !.dir = "elsewhere"], [shell EXCEPT !.var = "agent"],
                     [shell EXCEPT !.root = "elsewhere"], [shell EXCEPT !.path = {}]}
         /\ UNCHANGED disk

AgentCommand ==
  /\ mode = "ready"
  /\ ChangesTree \/ ChangesFiles \/ ChangesShell
  /\ mode' = "observing" /\ todo' = StateCommands /\ sound' = TRUE
  /\ UNCHANGED <<cwd, state>> /\ Stays

AttemptEnds ==
  /\ mode = "ready" /\ mode' = "over"
  /\ UNCHANGED <<todo, shell, disk, cwd, state, sound>> /\ Stays

\* _next_attempt: hard_reset (close, start), and the setup of the next agent.
NextAttempt ==
  /\ mode = "over" /\ attempt < MaxAttempts
  /\ attempt' = attempt + 1 /\ mode' = "setup" /\ shell' = NoShell
  /\ todo' = StartCommands \o SetupCommands /\ sound' = TRUE
  /\ UNCHANGED <<keeps, disk, cwd, state>>

\* The runner closes the environment after the last attempt, or after an exception.
CloseEnvironment ==
  /\ mode \in {"over", "raised"} /\ mode' = "closed" /\ shell' = NoShell
  /\ UNCHANGED <<todo, disk, cwd, state, sound>> /\ Stays

EnvironmentNext ==
  \/ CommandWorks \/ ReadState \/ StateCommandFails \/ CommandRaises \/ CallRaises
  \/ AgentCommand \/ AttemptEnds \/ NextAttempt \/ CloseEnvironment

EnvironmentSpec == EnvironmentInit /\ [][EnvironmentNext]_environmentVars

-----------------------------------------------------------------------------
(* Properties *)

\* Whatever the attempts before it have done, and whatever the install scripts have,
\* every attempt begins where the post-startup commands end (in the repository when
\* they change no directory) and with ROOT its own, with the variables and the registry of the
\* tool configuration and with every bundle; and, unless the deployment keeps its
\* disk, on the tree as it was (hard_reset, install and reset).
StartsAlike ==
  mode = "setup" /\ mode' = "ready" =>
    /\ shell' = [dir |-> PostDir, var |-> "tools", root |-> "repo", path |-> ToSet(Bundles)]
    /\ disk'.registry = "config" /\ disk'.bundles = ToSet(Bundles)
    /\ keeps \/ disk'.tree = 0

\* The state that the model is shown and that is kept for an autosubmission is of the
\* environment as the observed action has left it, unless a state command or its git
\* has failed since.
StateIsCurrent ==
  mode = "ready" /\ sound =>
    /\ "windowed" \in ToSet(StateBundles) => state.open = disk.registry /\ state.dir = shell.dir
    /\ "diff_state" \in ToSet(StateBundles) => state.diff = disk.tree

\* Both, of every step.
EnvironmentIsSound == [][StartsAlike /\ StateIsCurrent']_environmentVars
=============================================================================
