--------------------------- MODULE AgentContract ---------------------------
(***************************************************************************)
(* What one agent run promises to whoever started it (the batch runner,    *)
(* the retry agent, a resumed run): the trajectory file shows no exit      *)
(* status while the run is in progress, shows one from the step that ends  *)
(* the run, and a status of the form "submitted (...)" comes with a patch. *)
(* RunBatch.should_skip decides from this file alone whether an instance   *)
(* still has to be run.                                                    *)
(***************************************************************************)
EXTENDS Integers

CONSTANTS Patches,     \* submissions a run can end with
          Nothing,     \* no submission (Python's None)
          Blank,       \* the empty diff
          Reasons      \* the exit statuses a run can end with

VARIABLES phase,       \* "running", "done" or "aborted" (an exception left run())
          shown        \* exit status and submission in the trajectory file

contractVars == <<phase, shown>>

Unset == [submitted |-> FALSE, why |-> "none"]
Statuses == [submitted : BOOLEAN, why : Reasons \cup {"none"}]

\* A status that names a reason next to "submitted" owes the reader a patch.
Honest(exit, sub) ==
  /\ exit # Unset
  /\ exit.submitted /\ exit.why # "none" => sub \notin {Nothing, Blank}

Init == phase = "running" /\ shown = [exit |-> Unset, sub |-> Nothing]

\* A step that does not end the run leaves the file without a verdict.
Progress == /\ phase = "running"
            /\ UNCHANGED contractVars

Finish(exit, sub) == /\ phase = "running"
                     /\ Honest(exit, sub)
                     /\ phase' = "done"
                     /\ shown' = [exit |-> exit, sub |-> sub]

Abort == /\ phase = "running"
         /\ phase' = "aborted"
         /\ UNCHANGED shown

Next == \/ Progress
        \/ \E exit \in Statuses, sub \in Patches \cup {Nothing, Blank} : Finish(exit, sub)
        \/ Abort

Spec == Init /\ [][Next]_contractVars
=============================================================================
