---------------------------- MODULE BashSession ----------------------------
(***************************************************************************)
(* BashSession (swerex/runtime/local.py): one shell behind a pty, and the  *)
(* client that sends it lines and looks for prompts and markers in what    *)
(* comes back.  The shell runs on its own: a command may finish before or  *)
(* after the client has given up on it.                                    *)
(*                                                                         *)
(* Data: the output stream is a sequence of tokens.  Token "ps1" is a      *)
(* prompt, "out" the output of a command, "uniq" the fallback terminator,  *)
(* "code" the exit-code marker with the command whose code it shows, and   *)
(* "junk" a token that has lost its first character.  Commands do not read *)
(* the terminal themselves and do not print prompts or markers.            *)
(***************************************************************************)
EXTENDS Integers, Sequences, SequencesExt

CONSTANTS
  MaxCommands,    \* bound: commands sent in one session
  MaxInterrupts,  \* bound: calls of interrupt()
  Retries         \* BashInterruptAction.n_retry

ASSUME BashSessionAssumption ==
  MaxCommands \in Nat \ {0} /\ MaxInterrupts \in Nat /\ Retries \in Nat \ {0}

VARIABLES
  tty,      \* lines sent to the terminal that nobody has read
  job,      \* the line in the foreground, or NoLine at the prompt
  status,   \* the command whose exit code is in $?
  unread,   \* tokens printed and not yet consumed by an expect
  call,     \* the call under way, or the last one
  phase,    \* which expect the client is blocked in
  obs,      \* the last observation
  sent,     \* commands sent so far
  interrupts, \* interrupts so far
  lost      \* ghost: an exit code that was asked for has not been read

shellVars == <<tty, job, status, unread>>
clientVars == <<call, phase, obs, sent, interrupts, lost>>
sessionVars == <<shellVars, clientVars>>

-----------------------------------------------------------------------------
(* Lines and tokens; command 0 stands for none. *)

NoLine == [kind |-> "none", c |-> 0]
Line(k, c) == [kind |-> k, c |-> c]
Token(k, c) == [kind |-> k, c |-> c]
Prompt == Token("ps1", 0)

\* Where the first of these tokens is, 0 if none was printed.
Printed(kinds) == SelectInSeq(unread, LAMBDA t : t.kind \in kinds)
OutputsIn(s) == {s[i].c : i \in {j \in DOMAIN s : s[j].kind = "out"}}

-----------------------------------------------------------------------------
(* The shell *)

\* The next line goes to the foreground.
ShellReads ==
  /\ job = NoLine /\ tty # <<>>
  /\ job' = Head(tty) /\ tty' = Tail(tty)
  /\ UNCHANGED <<status, unread, clientVars>>

\* A line ends with its output and a prompt.  The terminator of a multi-line
\* command keeps the command's exit code, an empty line too; echo has its own.
ShellEnds ==
  /\ job # NoLine
  /\ job' = NoLine
  /\ unread' = unread \o
       CASE job.kind = "cmd" -> <<Token("out", job.c), Prompt>>
         [] job.kind = "term" -> <<Token("uniq", job.c), Prompt>>
         [] job.kind = "echo" -> <<Token("code", status), Prompt>>
         [] OTHER -> <<Prompt>>
  /\ status' = CASE job.kind = "cmd" -> job.c
                 [] job.kind \in {"echo", "kill"} -> 0
                 [] OTHER -> status
  /\ UNCHANGED <<tty, clientVars>>

\* ^C and ^Z discard the lines that nobody has read and bring a prompt; the
\* foreground job may ignore them.
Signalled ==
  /\ tty' = <<>>
  /\ \/ /\ job' = NoLine /\ unread' = Append(unread, Prompt)
        /\ status' = IF job.kind = "cmd" THEN job.c ELSE status
     \/ job # NoLine /\ UNCHANGED <<job, status, unread>>

-----------------------------------------------------------------------------
(* expect: everything up to the first match is consumed. *)

Before(i) == SubSeq(unread, 1, i - 1)
After(i) == SubSeq(unread, i + 1, Len(unread))
Waits(p) == phase = p
Matches(i) == i > 0 /\ unread' = After(i)
NoMatch(i) == i = 0 /\ UNCHANGED unread

NoObs == [c |-> 0, code |-> 0, outs |-> {}]

\* The call returns an observation; code 0 stands for exit_code = None.
Returns(code, outs) ==
  /\ phase' = "idle"
  /\ obs' = [c |-> call.c, code |-> code, outs |-> outs]
  /\ call' = [call EXCEPT !.outs = {}, !.code = 0]
\* The call raises; "timeout" is the CommandTimeoutError that the agent answers
\* with an interrupt.
Raises(error) ==
  /\ phase' = "idle" /\ obs' = NoObs
  /\ call' = [call EXCEPT !.outs = {}, !.code = 0, !.check = error]

-----------------------------------------------------------------------------
(* BashSession.start *)

\* bash is spawned and told to reset its prompts.  Its first prompt is a match
\* already, unless a startup file has changed PS1.
SessionInit ==
  /\ tty = <<Line("blank", 0)>> /\ job = NoLine /\ status = 0
  /\ unread \in {<<>>, <<Prompt>>}
  /\ call = [c |-> 0, check |-> "none", asked |-> "none", fallback |-> FALSE,
             tries |-> 0, outs |-> {}, code |-> 0]
  /\ phase = "start" /\ obs = NoObs /\ sent = 0 /\ interrupts = 0 /\ lost = FALSE

Started ==
  /\ Waits("start") /\ Matches(Printed({"ps1"}))
  /\ phase' = "idle"
  /\ UNCHANGED <<tty, job, status, call, obs, sent, interrupts, lost>>

StartTimesOut ==
  /\ Waits("start") /\ NoMatch(Printed({"ps1"}))
  /\ phase' = "failed"
  /\ UNCHANGED <<shellVars, call, obs, sent, interrupts, lost>>

-----------------------------------------------------------------------------
(* BashSession.run, a normal action *)

\* Commands are joined into one line; when bashlex cannot split them they are
\* sent as they are, with a terminator on a line of its own.
CommandLines(c, fallback) ==
  IF fallback THEN <<Line("cmd", c), Line("term", c)>> ELSE <<Line("cmd", c)>>
\* The exit code is asked for after an empty line.
AskCodeMutant(c) == <<Line("echo", c), Line("blank", c)>>
AskCode(c) == <<Line("blank", c), Line("echo", c)>>

Run(check, asked, fallback) ==
  /\ Waits("idle") /\ sent < MaxCommands
  /\ sent' = sent + 1
  /\ call' = [c |-> sent + 1, check |-> check, asked |-> asked, fallback |-> fallback,
              tries |-> 0, outs |-> {}, code |-> 0]
  /\ tty' = tty \o CommandLines(sent + 1, fallback)
  /\ phase' = "output" /\ obs' = NoObs
  /\ UNCHANGED <<job, status, unread, interrupts, lost>>

\* SWEEnv.communicate turns its own check into the runtime's: every string that is
\* not empty becomes "silent", "ignore" too.
RexCheck(check) == IF check # "" THEN "silent" ELSE "ignore"
Communicate(check, fallback) == Run(RexCheck(check), check, fallback)

\* bash -n refuses the command before anything is sent.
SyntaxError ==
  /\ Waits("idle") /\ sent < MaxCommands
  /\ sent' = sent + 1 /\ call' = [call EXCEPT !.c = sent + 1, !.check = "syntax"]
  /\ obs' = NoObs
  /\ UNCHANGED <<shellVars, phase, interrupts, lost>>

EndOfOutput == Printed(IF call.fallback THEN {"uniq"} ELSE {"ps1"})

OutputEnds ==
  /\ Waits("output") /\ Matches(EndOfOutput)
  /\ LET outs == OutputsIn(Before(EndOfOutput))
     IN IF call.check = "ignore"
        THEN Returns(0, outs) /\ UNCHANGED tty
        ELSE /\ tty' = tty \o AskCode(call.c) /\ phase' = "code"
             /\ call' = [call EXCEPT !.outs = outs] /\ UNCHANGED obs
  /\ UNCHANGED <<job, status, sent, interrupts, lost>>

CommandTimesOut ==
  /\ Waits("output") /\ NoMatch(EndOfOutput)
  /\ Raises("timeout")
  /\ UNCHANGED <<tty, job, status, sent, interrupts, lost>>

\* No exit code: "silent" returns without one, "raise" raises.
NoExitCode ==
  IF call.check = "raise" THEN Raises("no code") ELSE Returns(0, call.outs)

\* One marker up to the first suffix; one without its first character is no match
\* of the pattern.
CodeMarker == Printed({"code", "badcode"})

CodeArrives ==
  /\ Waits("code") /\ Matches(CodeMarker)
  /\ LET marker == unread[CodeMarker]
     IN IF marker.kind = "badcode"
        THEN NoExitCode
        ELSE /\ phase' = "last" /\ UNCHANGED obs
             /\ call' = [call EXCEPT !.outs = @ \cup OutputsIn(Before(CodeMarker)),
                                     !.code = marker.c]
  /\ UNCHANGED <<tty, job, status, sent, interrupts, lost>>

CodeTimesOut ==
  /\ Waits("code") /\ NoMatch(CodeMarker)
  /\ NoExitCode /\ lost' = TRUE
  /\ UNCHANGED <<tty, job, status, sent, interrupts>>

LastPromptMutant == Returns(call.code, call.outs) /\ UNCHANGED unread
LastPrompt == Matches(Printed({"ps1"})) /\ Returns(call.code, call.outs)

\* With check = "raise" a non-zero exit code raises after the prompt was read.
LastPromptArrives ==
  /\ Waits("last")
  /\ \/ LastPrompt
     \/ call.check = "raise" /\ Matches(Printed({"ps1"})) /\ Raises("non-zero")
  /\ UNCHANGED <<tty, job, status, sent, interrupts, lost>>

LastPromptTimesOut ==
  /\ Waits("last") /\ NoMatch(Printed({"ps1"}))
  /\ NoExitCode
  /\ UNCHANGED <<tty, job, status, sent, interrupts, lost>>

-----------------------------------------------------------------------------
(* BashSession.interrupt *)

\* After a timeout the agent interrupts: ^C, and a prompt is expected.
Interrupt ==
  /\ Waits("idle") /\ call.check = "timeout" /\ interrupts < MaxInterrupts
  /\ interrupts' = interrupts + 1
  /\ Signalled /\ phase' = "interrupt" /\ call' = [call EXCEPT !.tries = 1]
  /\ UNCHANGED <<obs, sent, lost>>

Interrupted ==
  /\ Waits("interrupt") /\ Matches(Printed({"ps1"}))
  /\ phase' = "eat"
  /\ UNCHANGED <<tty, job, status, call, obs, sent, interrupts, lost>>

\* No prompt: ^C again, and in the end ^Z.
InterruptTimesOut ==
  /\ Waits("interrupt") /\ Printed({"ps1"}) = 0
  /\ Signalled
  /\ IF call.tries < Retries
     THEN call' = [call EXCEPT !.tries = @ + 1] /\ UNCHANGED phase
     ELSE phase' = "stop" /\ UNCHANGED call
  /\ UNCHANGED <<obs, sent, interrupts, lost>>

Stopped ==
  /\ Waits("stop") /\ Matches(Printed({"ps1"}))
  /\ tty' = Append(tty, Line("kill", 0)) /\ phase' = "kill"
  /\ UNCHANGED <<job, status, call, obs, sent, interrupts, lost>>

Killed ==
  /\ Waits("kill") /\ Matches(Printed({"ps1"}))
  /\ phase' = "eat"
  /\ UNCHANGED <<tty, job, status, call, obs, sent, interrupts, lost>>

InterruptFails ==
  /\ phase \in {"stop", "kill"} /\ NoMatch(Printed({"ps1"}))
  /\ Raises("not interrupted")
  /\ UNCHANGED <<tty, job, status, sent, interrupts, lost>>

\* _eat_following_output reads one character, past what pexpect holds in its
\* buffer: the first character of some unread token is gone.
WithoutFirstCharacter(t) ==
  CASE t.kind = "code" -> Token("badcode", t.c)
    [] t.kind = "out" -> t
    [] OTHER -> Token("junk", t.c)

EatFollowingOutput ==
  /\ Waits("eat")
  /\ \/ UNCHANGED unread
     \/ \E i \in DOMAIN unread : unread' = [unread EXCEPT ![i] = WithoutFirstCharacter(@)]
  /\ phase' = "idle" /\ call' = [call EXCEPT !.check = "interrupted"]
  /\ UNCHANGED <<tty, job, status, obs, sent, interrupts, lost>>

CloseSession ==
  /\ Waits("idle")
  /\ phase' = "closed"
  /\ UNCHANGED <<shellVars, call, obs, sent, interrupts, lost>>

-----------------------------------------------------------------------------

Expects ==
  \/ Started \/ StartTimesOut
  \/ OutputEnds \/ CommandTimesOut
  \/ CodeArrives \/ CodeTimesOut
  \/ LastPromptArrives \/ LastPromptTimesOut
  \/ Interrupted \/ InterruptTimesOut \/ Stopped \/ Killed \/ InterruptFails
  \/ EatFollowingOutput

SessionNext ==
  \/ ShellReads \/ ShellEnds
  \/ \E fallback \in BOOLEAN :
       \/ \E check \in {"ignore", "warn"} : Communicate(check, fallback)
       \/ \E check \in {"raise", "ignore"} : Run(check, "none", fallback)
  \/ SyntaxError \/ Interrupt \/ CloseSession
  \/ Expects

SessionSpec == SessionInit /\ [][SessionNext]_sessionVars

-----------------------------------------------------------------------------
(* Properties *)

\* An observation with an exit code is in step again, whatever timeouts,
\* interrupts and leftover prompts came before: the code is that of its own
\* command, the output holds all its command printed, and nothing is left to be
\* read or run.  Only an exit code that was asked for and never read spoils it.
ExitCodeResyncs ==
  phase = "idle" /\ obs.code # 0 /\ ~lost =>
    /\ obs.code = obs.c /\ obs.c \in obs.outs
    /\ unread = <<>> /\ tty = <<>> /\ job = NoLine
=============================================================================
