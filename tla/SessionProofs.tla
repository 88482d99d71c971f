---------------------------- MODULE SessionProofs ----------------------------
(***************************************************************************)
(* Proofs about what is between an agent and the shell its commands run    *)
(* in, and about who is at its keyboard.                                   *)
(*                                                                         *)
(* RuntimeServer, for any number of calls and sessions: whose answer a     *)
(* call returns, for any number of retries, and how often a call is        *)
(* executed, for the num_retries = 0 with which _request is called.        *)
(*                                                                         *)
(* Sandboxes, for any number of boxes, of starts that fail or are killed   *)
(* anywhere, and of teardowns between them: which boxes are left behind.   *)
(*                                                                         *)
(* BashSession, for any number of commands, interrupts and retries of ^C:  *)
(* whose exit code run() returns, and what it leaves behind.               *)
(*                                                                         *)
(* Steering, for any number of turns: whose parser reads an answer, and    *)
(* who makes the last step of a run.                                       *)
(***************************************************************************)
EXTENDS RuntimeServer, Sandboxes, BashSession, Steering, WellFoundedInduction, SequenceTheorems, TLAPS

-----------------------------------------------------------------------------
(* RuntimeServer: the inductive invariant *)

Names == Sessions \cup {CHOOSE s \in Sessions : TRUE}
Calls == [id : 1 .. MaxRequests, op : Operations, session : Names]
Responses == [id : 0 .. MaxRequests, ok : BOOLEAN]
Tasks == [call : Calls, try : 0 .. NumRetries, at : {"sent", "new", "done", "answered"},
          answer : Responses]

Typed ==
  /\ request.id \in 0 .. MaxRequests /\ request.session \in Names
  /\ request.id # 0 => request \in Calls
  /\ tries \in [count : 0 .. NumRetries, waits : BOOLEAN]
  /\ tries.waits => request.id # 0
  /\ result \in Responses /\ stored \in Responses
  /\ tasks \subseteq Tasks
  /\ executed \in [1 .. MaxRequests -> Nat]

\* A response that is good is that of a call that was executed.
Earned(answer) == answer.ok => answer.id # 0 /\ executed[answer.id] >= 1

\* A task works for a call that was made, and its answer is for that call.
OwnTask(t) ==
  /\ t.call.id <= request.id /\ (t.call.id = request.id => t.call = request)
  /\ t.at \in {"done", "answered"} => t.answer.id = t.call.id /\ Earned(t.answer)

AnswerInv ==
  /\ Typed
  /\ \A t \in tasks : OwnTask(t)
  /\ Earned(stored) /\ Earned(result)
  /\ result.ok => result.id = request.id

\* Without retries a call has one task, and one that was executed waits for
\* nothing but its way back.
OnceInv ==
  /\ \A t, u \in tasks : t.call.id = u.call.id => t = u
  /\ \A t \in tasks : t.at \in {"sent", "new"} => executed[t.call.id] = 0
  /\ \A i \in DOMAIN executed : executed[i] <= 1 /\ (executed[i] = 1 => i <= request.id)

\* Whatever is retried: a call that returns was executed and returns its own
\* response.
AnswerIsOwn == result.ok => result.id = request.id /\ executed[request.id] >= 1

-----------------------------------------------------------------------------
(* Operators *)

Task(c, try, at, answer) == [call |-> c, try |-> try, at |-> at, answer |-> answer]

LEMMA OutcomeIsBoolean == \A c : \A e \in Effects(c) : e.ok \in BOOLEAN
<1> SUFFICES ASSUME NEW c, NEW e \in Effects(c) PROVE e.ok \in BOOLEAN
  OBVIOUS
<1>1. \E tb : e = [table |-> tb, ok |-> TRUE] \/ e = [table |-> tb, ok |-> FALSE]
  BY SMTT(30) DEF Effects
<1>2. e.ok = TRUE \/ e.ok = FALSE
  BY <1>1
<1> QED BY <1>2, Zenon

LEMMA RetriesAreFew == \A op : RetriesOf(op) \in 0 .. NumRetries
BY RuntimeServerAssumption DEF RetriesOf

\* A task that moves on keeps its call and its try.
LEMMA MovedTask ==
  ASSUME NEW t \in Tasks, NEW at, NEW answer, Moves(t, at, answer)
  PROVE  tasks' = (tasks \ {t}) \cup {Task(t.call, t.try, at, answer)}
<1>1. t = Task(t.call, t.try, t.at, t.answer)
  BY DEF Tasks, Task
<1>2. [t EXCEPT !.at = at] = Task(t.call, t.try, at, t.answer)
  BY <1>1 DEF Task
<1>3. ASSUME NEW u, u = Task(t.call, t.try, at, t.answer)
      PROVE  [u EXCEPT !.answer = answer] = Task(t.call, t.try, at, answer)
  BY <1>3 DEF Task
<1>4. [t EXCEPT !.at = at, !.answer = answer] = Task(t.call, t.try, at, answer)
  BY <1>2, <1>3
<1> QED BY <1>4 DEF Moves

-----------------------------------------------------------------------------
(* Steps: every answer is the call's own *)

LEMMA InitAnswer == RpcInit => AnswerInv
<1> SUFFICES ASSUME RpcInit PROVE AnswerInv
  OBVIOUS
<1>1. NoAnswer \in Responses /\ ~NoAnswer.ok
  BY RuntimeServerAssumption DEF NoAnswer, Responses
<1>2. tries \in [count : 0 .. NumRetries, waits : BOOLEAN] /\ ~tries.waits
  BY RuntimeServerAssumption DEF RpcInit
<1>3. Typed
  BY <1>1, <1>2, RuntimeServerAssumption DEF RpcInit, Typed, Names
<1> QED BY <1>1, <1>3 DEF RpcInit, AnswerInv, Earned

\* The client: a new call has a number of its own.
LEMMA RequestAnswer ==
  ASSUME AnswerInv, NEW op \in Operations, NEW s \in Names, Request(op, s)
  PROVE  AnswerInv'
<1> USE DEF AnswerInv
<1>1. /\ request.id \in Nat /\ request.id < MaxRequests
      /\ request' = [id |-> request.id + 1, op |-> op, session |-> s]
      /\ tries' = [count |-> 0, waits |-> TRUE] /\ result' = NoAnswer
      /\ tasks' = tasks \cup {Task(request', 0, "sent", NoAnswer)}
      /\ UNCHANGED <<stored, executed>>
  BY RuntimeServerAssumption DEF Request, Typed, Task
<1>2. request' \in Calls /\ request'.id = request.id + 1
  BY <1>1, RuntimeServerAssumption DEF Calls
<1>3. NoAnswer \in Responses /\ ~NoAnswer.ok
  BY RuntimeServerAssumption DEF NoAnswer, Responses
<1>4. Task(request', 0, "sent", NoAnswer) \in Tasks
  BY <1>2, <1>3, RuntimeServerAssumption DEF Tasks, Task
<1>5. tries' \in [count : 0 .. NumRetries, waits : BOOLEAN]
  BY <1>1, RuntimeServerAssumption
<1>6. Typed'
  BY <1>1, <1>2, <1>3, <1>4, <1>5, RuntimeServerAssumption DEF Typed, Calls
<1>7. ASSUME NEW t \in tasks' PROVE OwnTask(t)'
  <2>1. CASE t \in tasks
    <3>1. t.call.id <= request.id /\ t.call.id \in Nat /\ OwnTask(t)
      BY <2>1 DEF Typed, Tasks, Calls, OwnTask
    <3> QED BY <1>1, <1>2, <3>1 DEF OwnTask, Earned
  <2>2. CASE t = Task(request', 0, "sent", NoAnswer)
    BY <1>1, <1>2, <2>2 DEF OwnTask, Task
  <2> QED BY <1>1, <1>7, <2>1, <2>2
<1>8. Earned(stored)' /\ Earned(result)' /\ (result'.ok => result'.id = request'.id)
  BY <1>1, <1>3 DEF Earned
<1> QED BY <1>6, <1>7, <1>8

\* A try that fails is followed by one of the same call, or by the error.
LEMMA TryFailsAnswer ==
  ASSUME AnswerInv, tries.waits, NEW rest \in SUBSET tasks, TryFails(rest),
         UNCHANGED <<request, stored, executed>>
  PROVE  AnswerInv'
<1> USE DEF AnswerInv
<1>1. tries.count \in Nat /\ RetriesOf(request.op) \in 0 .. NumRetries
  BY RetriesAreFew, RuntimeServerAssumption DEF Typed
<1>2. NoAnswer \in Responses /\ ~NoAnswer.ok
  BY RuntimeServerAssumption DEF NoAnswer, Responses
<1>3. request \in Calls
  BY DEF Typed
<1>4. CASE tries.count < RetriesOf(request.op)
  <2>1. /\ tries' = [tries EXCEPT !.count = @ + 1] /\ result' = result
        /\ tasks' = rest \cup {Task(request, tries.count + 1, "sent", NoAnswer)}
    BY <1>4 DEF TryFails, Task
  <2>2. Task(request, tries.count + 1, "sent", NoAnswer) \in Tasks
    BY <1>1, <1>2, <1>3, <1>4, RuntimeServerAssumption DEF Tasks, Task
  <2>3. tries' \in [count : 0 .. NumRetries, waits : BOOLEAN]
    BY <1>1, <1>4, <2>1, RuntimeServerAssumption DEF Typed
  <2>4. Typed'
    BY <1>3, <2>1, <2>2, <2>3 DEF Typed, Calls
  <2>5. ASSUME NEW t \in tasks' PROVE OwnTask(t)'
    <3>1. CASE t \in tasks
      BY <3>1 DEF OwnTask, Earned
    <3>2. CASE t = Task(request, tries.count + 1, "sent", NoAnswer)
      BY <1>3, <3>2 DEF OwnTask, Task, Calls
    <3> QED BY <2>1, <2>5, <3>1, <3>2
  <2> QED BY <2>1, <2>4, <2>5 DEF Earned
<1>5. CASE ~(tries.count < RetriesOf(request.op))
  <2>1. tries' = [tries EXCEPT !.waits = FALSE] /\ tasks' = rest /\ result' = NoAnswer
    BY <1>5 DEF TryFails
  <2>2. tries' \in [count : 0 .. NumRetries, waits : BOOLEAN] /\ ~tries'.waits
    BY <2>1 DEF Typed
  <2>3. Typed'
    BY <1>2, <2>1, <2>2 DEF Typed
  <2>4. \A t \in tasks' : OwnTask(t)'
    BY <2>1 DEF OwnTask, Earned
  <2> QED BY <1>2, <2>1, <2>3, <2>4 DEF Earned
<1> QED BY <1>4, <1>5

\* The server: what a task becomes is still for its call.
LEMMA MovesAnswer ==
  ASSUME AnswerInv, NEW t \in tasks, NEW at \in {"new", "done", "answered"},
         NEW answer \in Responses, Moves(t, at, answer),
         UNCHANGED <<request, tries, result>>, stored' \in Responses, Earned(stored)',
         executed' \in [1 .. MaxRequests -> Nat],
         \A i \in 1 .. MaxRequests : executed'[i] >= executed[i],
         at \in {"done", "answered"} =>
           answer.id = t.call.id /\ (answer.ok => executed'[t.call.id] >= 1)
  PROVE  AnswerInv'
<1> USE DEF AnswerInv
<1>1. t \in Tasks /\ t.call \in Calls /\ t.try \in 0 .. NumRetries /\ OwnTask(t)
      /\ t.call.id \in 1 .. MaxRequests
  BY DEF Typed, Tasks, Calls
<1>2. tasks' = (tasks \ {t}) \cup {Task(t.call, t.try, at, answer)}
  BY <1>1, MovedTask
<1>3. Task(t.call, t.try, at, answer) \in Tasks
  BY <1>1 DEF Tasks, Task
<1>4. Typed'
  BY <1>2, <1>3 DEF Typed
<1>5. \A r \in Responses : Earned(r) => Earned(r)'
  <2> SUFFICES ASSUME NEW r \in Responses, Earned(r), r.ok
               PROVE  r.id # 0 /\ executed'[r.id] >= 1
    BY DEF Earned
  <2>1. r.id \in 1 .. MaxRequests /\ executed[r.id] >= 1
    BY RuntimeServerAssumption DEF Earned, Responses
  <2>2. executed[r.id] \in Nat /\ executed'[r.id] \in Nat /\ executed'[r.id] >= executed[r.id]
    BY <2>1 DEF Typed
  <2> QED BY <2>1, <2>2
<1>6. ASSUME NEW u \in tasks' PROVE OwnTask(u)'
  <2>1. CASE u \in tasks
    <3>1. OwnTask(u) /\ u.answer \in Responses
      BY <2>1 DEF Typed, Tasks
    <3> QED BY <1>5, <3>1 DEF OwnTask
  <2>2. CASE u = Task(t.call, t.try, at, answer)
    <3>1. u.call = t.call /\ u.at = at /\ u.answer = answer
      BY <2>2 DEF Task
    <3>2. at \in {"done", "answered"} => answer.id = t.call.id /\ Earned(answer)'
      BY <1>1, RuntimeServerAssumption DEF Earned
    <3> QED BY <1>1, <3>1, <3>2 DEF OwnTask
  <2> QED BY <1>2, <1>6, <2>1, <2>2
<1>7. Earned(result)'
  BY <1>5 DEF Typed
<1> QED BY <1>4, <1>6, <1>7

LEMMA ServerAnswer ==
  ASSUME AnswerInv, NEW t \in tasks, LooksUp(t) \/ Executes(t) \/ Stores(t)
  PROVE  AnswerInv'
<1> USE DEF AnswerInv
<1>1. /\ t.call.id \in 1 .. MaxRequests /\ t.answer \in Responses /\ OwnTask(t)
      /\ stored \in Responses /\ Earned(stored)
      /\ executed \in [1 .. MaxRequests -> Nat]
  BY DEF Typed, Tasks, Calls
<1>2. NoAnswer \in Responses
  BY RuntimeServerAssumption DEF NoAnswer, Responses
<1>3. \A i \in 1 .. MaxRequests : executed[i] \in Nat
  BY <1>1
<1>4. CASE LooksUp(t)
  <2>1. UNCHANGED <<request, tries, result, stored, executed>>
    BY <1>4 DEF LooksUp
  <2>2. CASE Remembered(t)
    <3>1. Moves(t, "answered", stored) /\ stored.id = t.call.id
      BY <1>4, <2>2 DEF LooksUp, Remembered
    <3> QED BY <1>1, <1>3, <2>1, <3>1, MovesAnswer DEF Earned
  <2>3. CASE ~Remembered(t)
    <3>1. Moves(t, "new", NoAnswer)
      BY <1>4, <2>3 DEF LooksUp
    <3> QED BY <1>1, <1>2, <1>3, <2>1, <3>1, MovesAnswer DEF Earned
  <2> QED BY <2>2, <2>3
<1>5. CASE Executes(t)
  <2>1. PICK e \in Effects(t.call) :
          Moves(t, IF e.ok THEN "done" ELSE "answered", [id |-> t.call.id, ok |-> e.ok])
    BY <1>5 DEF Executes
  <2>2. e.ok \in BOOLEAN
    BY OutcomeIsBoolean
  <2>3. UNCHANGED <<request, tries, result, stored>>
        /\ executed' = [executed EXCEPT ![t.call.id] = @ + 1]
    BY <1>5 DEF Executes
  <2>4. /\ executed' \in [1 .. MaxRequests -> Nat] /\ executed'[t.call.id] >= 1
        /\ \A i \in 1 .. MaxRequests : executed'[i] >= executed[i]
    BY <1>1, <1>3, <2>3
  <2>5. Earned(stored)'
    <3>1. ASSUME stored.ok PROVE stored.id # 0 /\ executed'[stored.id] >= 1
      <4>1. stored.id \in 1 .. MaxRequests /\ executed[stored.id] >= 1
        BY <1>1, <3>1, RuntimeServerAssumption DEF Earned, Responses
      <4>2. executed'[stored.id] \in Nat /\ executed'[stored.id] >= executed[stored.id]
        BY <2>4, <4>1
      <4> QED BY <1>1, <4>1, <4>2
    <3> QED BY <2>3, <3>1 DEF Earned
  <2>6. DEFINE answer == [id |-> t.call.id, ok |-> e.ok]
  <2>7. answer \in Responses /\ answer.id = t.call.id
    BY <1>1, <2>2 DEF Responses
  <2>8. PICK at \in {"done", "answered"} : Moves(t, at, answer)
    BY <2>1
  <2> HIDE DEF answer
  <2> QED BY <1>1, <2>3, <2>4, <2>5, <2>7, <2>8, MovesAnswer
<1>6. CASE Stores(t)
  <2>1. /\ Moves(t, "answered", t.answer) /\ UNCHANGED <<request, tries, result, executed>>
        /\ stored' \in {stored, t.answer}
        /\ t.answer.id = t.call.id /\ Earned(t.answer)
    BY <1>1, <1>6 DEF Stores, OwnTask
  <2>2. stored' \in Responses /\ Earned(stored)'
    BY <1>1, <2>1 DEF Earned
  <2> QED BY <1>1, <1>3, <2>1, <2>2, MovesAnswer DEF Earned
<1> QED BY <1>4, <1>5, <1>6

\* An answer is read by the call it is for, or by nobody.
LEMMA AnswersAnswer ==
  ASSUME AnswerInv, NEW t \in tasks, Answers(t)
  PROVE  AnswerInv'
<1> USE DEF AnswerInv
<1>1. t.answer \in Responses /\ OwnTask(t) /\ t.at = "answered"
      /\ UNCHANGED <<request, stored, executed>>
  BY DEF Typed, Tasks, Answers
<1>2. CASE /\ tries.waits /\ t.call.id = request.id /\ t.try = tries.count
           /\ t.answer.ok
  <2>1. result' = t.answer /\ tries' = [tries EXCEPT !.waits = FALSE] /\ tasks' = tasks \ {t}
    BY <1>2 DEF Answers
  <2>2. tries' \in [count : 0 .. NumRetries, waits : BOOLEAN] /\ ~tries'.waits
    BY <2>1 DEF Typed
  <2>3. Typed'
    BY <1>1, <2>1, <2>2 DEF Typed
  <2>4. \A u \in tasks' : OwnTask(u)'
    BY <1>1, <2>1 DEF OwnTask, Earned
  <2>5. Earned(result)' /\ result'.id = request'.id
    BY <1>1, <1>2, <2>1 DEF OwnTask, Earned
  <2> QED BY <1>1, <2>3, <2>4, <2>5 DEF Earned
<1>3. CASE /\ tries.waits /\ t.call.id = request.id /\ t.try = tries.count
           /\ ~t.answer.ok
  <2>1. TryFails(tasks \ {t})
    BY <1>3 DEF Answers
  <2> QED BY <1>1, <1>3, <2>1, TryFailsAnswer
<1>4. CASE ~(tries.waits /\ t.call.id = request.id /\ t.try = tries.count)
  <2>1. tasks' = tasks \ {t} /\ UNCHANGED <<tries, result>>
    BY <1>4 DEF Answers
  <2>2. Typed'
    BY <1>1, <2>1 DEF Typed
  <2>3. \A u \in tasks' : OwnTask(u)'
    BY <1>1, <2>1 DEF OwnTask, Earned
  <2> QED BY <1>1, <2>1, <2>2, <2>3 DEF Earned
<1> QED BY <1>2, <1>3, <1>4

LEMMA NextAnswer == AnswerInv /\ [RpcNext]_rpcVars => AnswerInv'
<1> SUFFICES ASSUME AnswerInv, [RpcNext]_rpcVars PROVE AnswerInv'
  OBVIOUS
<1>1. ASSUME NEW s \in Sessions, NEW op \in SessionOperations, Request(op, s) PROVE AnswerInv'
  BY <1>1, RequestAnswer DEF Names, SessionOperations, Operations
<1>2. ASSUME NEW op \in Operations \ SessionOperations, Request(op, request.session)
      PROVE  AnswerInv'
  BY <1>2, RequestAnswer DEF AnswerInv, Typed
<1>3. CASE GivesUp
  BY <1>3, TryFailsAnswer DEF GivesUp
<1>4. ASSUME NEW t \in tasks, LooksUp(t) \/ Executes(t) \/ Stores(t) \/ Answers(t)
      PROVE  AnswerInv'
  BY <1>4, ServerAnswer, AnswersAnswer
<1>5. CASE UNCHANGED rpcVars
  BY <1>5 DEF rpcVars, AnswerInv, Typed, OwnTask, Earned
<1> QED BY <1>1, <1>2, <1>3, <1>4, <1>5 DEF RpcNext

-----------------------------------------------------------------------------
(* Steps: without retries, no call is executed twice *)

LEMMA InitOnce == RpcInit => OnceInv
BY DEF RpcInit, OnceInv

LEMMA RequestOnce ==
  ASSUME AnswerInv, OnceInv, NEW op, NEW s, Request(op, s)
  PROVE  OnceInv'
<1> USE DEF OnceInv
<1>1. /\ request.id + 1 \in 1 .. MaxRequests /\ request.id \in Nat
      /\ request'.id = request.id + 1
      /\ tasks' = tasks \cup {Task(request', 0, "sent", NoAnswer)}
      /\ executed' = executed /\ executed \in [1 .. MaxRequests -> Nat]
  BY RuntimeServerAssumption DEF AnswerInv, Typed, Request, Task
<1>2. \A t \in tasks : t.call.id # request'.id
  <2> SUFFICES ASSUME NEW t \in tasks PROVE t.call.id # request'.id
    OBVIOUS
  <2>1. t.call.id \in Nat /\ t.call.id <= request.id
    BY DEF AnswerInv, Typed, Tasks, Calls, OwnTask
  <2> QED BY <1>1, <2>1
<1>3. Task(request', 0, "sent", NoAnswer).call.id = request'.id
  BY DEF Task
<1>4. executed[request'.id] = 0
  <2>1. executed[request'.id] \in Nat /\ executed[request'.id] <= 1
        /\ executed[request'.id] # 1
    BY <1>1
  <2> QED BY <2>1
<1>5. \A t, u \in tasks' : t.call.id = u.call.id => t = u
  BY <1>1, <1>2, <1>3
<1>6. \A t \in tasks' : t.at \in {"sent", "new"} => executed'[t.call.id] = 0
  BY <1>1, <1>3, <1>4
<1>7. \A i \in DOMAIN executed' : executed'[i] <= 1 /\ (executed'[i] = 1 => i <= request'.id)
  BY <1>1
<1> QED BY <1>5, <1>6, <1>7

\* No retry: a try that fails leaves the tasks there were.
LEMMA TryFailsOnce ==
  ASSUME NumRetries = 0, AnswerInv, NEW rest, TryFails(rest)
  PROVE  tasks' = rest
<1>1. ~(tries.count < RetriesOf(request.op))
  BY DEF AnswerInv, Typed, RetriesOf
<1> QED BY <1>1 DEF TryFails

LEMMA FewerOnce ==
  ASSUME OnceInv, tasks' \subseteq tasks, UNCHANGED <<request, executed>>
  PROVE  OnceInv'
BY DEF OnceInv

LEMMA MovesOnce ==
  ASSUME AnswerInv, OnceInv, NEW t \in tasks, NEW at, NEW answer, Moves(t, at, answer),
         UNCHANGED request,
         \/ executed' = executed /\ (at \in {"sent", "new"} => t.at \in {"sent", "new"})
         \/ /\ t.at = "new" /\ at \notin {"sent", "new"}
            /\ executed' = [executed EXCEPT ![t.call.id] = @ + 1]
  PROVE  OnceInv'
<1> USE DEF OnceInv
<1>1. /\ t \in Tasks /\ t.call.id \in 1 .. MaxRequests /\ t.call.id <= request.id
      /\ executed \in [1 .. MaxRequests -> Nat]
  BY DEF AnswerInv, Typed, Tasks, Calls, OwnTask
<1>2. tasks' = (tasks \ {t}) \cup {Task(t.call, t.try, at, answer)}
  BY <1>1, MovedTask
<1>3. Task(t.call, t.try, at, answer).call = t.call /\ Task(t.call, t.try, at, answer).at = at
  BY DEF Task
<1>4. \A u, v \in tasks' : u.call.id = v.call.id => u = v
  BY <1>2, <1>3
<1>5. CASE executed' = executed /\ (at \in {"sent", "new"} => t.at \in {"sent", "new"})
  BY <1>2, <1>3, <1>4, <1>5
<1>6. CASE /\ t.at = "new" /\ at \notin {"sent", "new"}
           /\ executed' = [executed EXCEPT ![t.call.id] = @ + 1]
  <2>1. executed[t.call.id] = 0
    BY <1>6
  <2>2. executed'[t.call.id] = 1 /\ DOMAIN executed' = DOMAIN executed
        /\ \A i \in DOMAIN executed : i # t.call.id => executed'[i] = executed[i]
    BY <1>1, <1>6, <2>1
  <2>3. \A u \in tasks' : u.at \in {"sent", "new"} => executed'[u.call.id] = 0
    <3> SUFFICES ASSUME NEW u \in tasks', u.at \in {"sent", "new"}
                 PROVE  executed'[u.call.id] = 0
      OBVIOUS
    <3>1. u \in tasks /\ u # t
      BY <1>2, <1>3, <1>6
    <3>2. u.call.id # t.call.id /\ u.call.id \in DOMAIN executed /\ executed[u.call.id] = 0
      BY <1>1, <3>1 DEF AnswerInv, Typed, Tasks, Calls
    <3> QED BY <2>2, <3>2
  <2>4. \A i \in DOMAIN executed' : executed'[i] <= 1 /\ (executed'[i] = 1 => i <= request'.id)
    BY <1>1, <2>2
  <2> QED BY <1>4, <2>3, <2>4
<1> QED BY <1>5, <1>6

LEMMA ServerOnce ==
  ASSUME AnswerInv, OnceInv, NEW t \in tasks, LooksUp(t) \/ Executes(t) \/ Stores(t)
  PROVE  OnceInv'
<1>1. CASE LooksUp(t)
  BY <1>1, MovesOnce DEF LooksUp
<1>2. CASE Executes(t)
  <2>1. PICK e \in Effects(t.call) :
          Moves(t, IF e.ok THEN "done" ELSE "answered", [id |-> t.call.id, ok |-> e.ok])
    BY <1>2 DEF Executes
  <2>2. PICK at, answer : at \in {"done", "answered"} /\ Moves(t, at, answer)
    BY <2>1
  <2> QED BY <1>2, <2>2, MovesOnce DEF Executes
<1>3. CASE Stores(t)
  BY <1>3, MovesOnce DEF Stores
<1> QED BY <1>1, <1>2, <1>3

LEMMA AnswersOnce ==
  ASSUME NumRetries = 0, AnswerInv, OnceInv, NEW t \in tasks, Answers(t)
  PROVE  OnceInv'
<1>1. tasks' = tasks \ {t}
  BY TryFailsOnce DEF Answers
<1> QED BY <1>1, FewerOnce DEF Answers

LEMMA NextOnce ==
  ASSUME NumRetries = 0
  PROVE  AnswerInv /\ OnceInv /\ [RpcNext]_rpcVars => OnceInv'
<1> SUFFICES ASSUME AnswerInv, OnceInv, [RpcNext]_rpcVars PROVE OnceInv'
  OBVIOUS
<1>1. ASSUME NEW op, NEW s, Request(op, s) PROVE OnceInv'
  BY <1>1, RequestOnce
<1>2. CASE GivesUp
  BY <1>2, TryFailsOnce, FewerOnce DEF GivesUp
<1>3. ASSUME NEW t \in tasks, LooksUp(t) \/ Executes(t) \/ Stores(t) \/ Answers(t)
      PROVE  OnceInv'
  BY <1>3, ServerOnce, AnswersOnce
<1>4. CASE UNCHANGED rpcVars
  BY <1>4 DEF rpcVars, OnceInv
<1> QED BY <1>1, <1>2, <1>3, <1>4 DEF RpcNext

-----------------------------------------------------------------------------
(* Theorems *)

\* The typed tables, and whose answers are where: on the way, remembered by
\* ResponseManager, returned by RemoteRuntime._request.
THEOREM AnswerIsInvariant == RpcSpec => []AnswerInv
<1> QED BY InitAnswer, NextAnswer, PTL DEF RpcSpec

\* RemoteRuntime._request with any num_retries: a call that returns was executed
\* and returns the response to its own request id, whatever was given up before,
\* answered late or remembered by the server.
THEOREM AnswersReturnHome == RpcSpec => []AnswerIsOwn
<1>1. AnswerInv => AnswerIsOwn
  BY DEF AnswerInv, AnswerIsOwn, Earned
<1> QED BY <1>1, AnswerIsInvariant, PTL

\* With the num_retries = 0 that every caller of RemoteRuntime._request uses: no
\* call is executed twice, and a call that returns was executed exactly once.
THEOREM CallsRunOnce ==
  ASSUME NumRetries = 0
  PROVE  RpcSpec => []AnswersAreOwn
<1>1. RpcInit => AnswerInv /\ OnceInv
  BY InitAnswer, InitOnce
<1>2. AnswerInv /\ OnceInv /\ [RpcNext]_rpcVars => (AnswerInv /\ OnceInv)'
  BY NextAnswer, NextOnce
<1>3. ASSUME AnswerInv, OnceInv PROVE AnswersAreOwn
  <2>1. ASSUME result.ok PROVE result.id = request.id /\ executed[request.id] = 1
    <3>1. result.id = request.id /\ executed[request.id] >= 1 /\ request.id \in 1 .. MaxRequests
      BY <1>3, <2>1, RuntimeServerAssumption DEF AnswerInv, Earned, Typed
    <3>2. executed[request.id] \in Nat /\ executed[request.id] <= 1
      BY <1>3, <3>1 DEF AnswerInv, OnceInv, Typed
    <3> QED BY <3>1, <3>2
  <2> QED BY <1>3, <2>1 DEF AnswersAreOwn, OnceInv
<1> QED BY <1>1, <1>2, <1>3, PTL DEF RpcSpec

-----------------------------------------------------------------------------
(* Sandboxes: the inductive invariant *)

BoxStates == {"pending", "running", "exited", "gone"}
\* Before start has made a box, while it waits for it, and what the AWS part needs.
Preparing == {"role", "policies", "definition", "group", "rule", "create"}
Boxed == {"boot", "wait"}
Policies == {"execution", "registry", "logs"}
Resources ==
  [role : BOOLEAN, policies : SUBSET Policies, definition : BOOLEAN, group : BOOLEAN,
   rule : BOOLEAN]

BoxesTyped ==
  /\ host \in Clouds \cup {"remote", "local", "dummy"}
  /\ boxes \in Seq(BoxStates)
  /\ handle \in 0 .. Len(boxes) /\ runtimeOf \in {Elsewhere} \cup 0 .. Len(boxes)
  /\ cloud \in Resources
  /\ step \in Resting \cup Preparing \cup Boxed
  /\ spared \subseteq DOMAIN boxes

\* A deployment has no box before it has made one, and then its last one.
Handled ==
  host \in Clouds =>
    /\ step \in Preparing \cup {"off", "stopped"} => handle = 0
    /\ step \in Boxed \cup {"on"} => handle = Len(boxes) /\ handle # 0
    /\ step \in {"wait", "on"} => runtimeOf = handle

\* What still lives and was not given up is the box that stop() will end.
Reachable ==
  host \in {"fargate", "daytona"} =>
    \A b \in DOMAIN boxes : Live(b) /\ b \notin spared => b = handle

\* The role is made before its policies, and they before all else.
Ordered ==
  host = "fargate" =>
    /\ step \in (Preparing \cup Boxed) \ {"role"} => cloud.role
    /\ step \in (Preparing \cup Boxed) \ {"role", "policies"} => cloud.policies = Policies

SandboxesInv == BoxesTyped /\ Handled /\ Reachable /\ Ordered

-----------------------------------------------------------------------------
(* Boxes *)

LEMMA BoxFields ==
  ASSUME BoxesTyped
  PROVE  /\ Len(boxes) \in Nat /\ DOMAIN boxes = 1 .. Len(boxes)
         /\ boxes \in [1 .. Len(boxes) -> BoxStates]
         /\ \A b \in DOMAIN boxes : boxes[b] \in BoxStates
BY LenProperties, ElementOfSeq DEF BoxesTyped

LEMMA IsSequence ==
  ASSUME NEW S, NEW len \in Nat, NEW f \in [1 .. len -> S]
  PROVE  f \in Seq(S) /\ Len(f) = len
<1>1. f \in Seq(S)
  BY SeqDef
<1> QED BY <1>1, LenProperties

\* A box that ends, moves or is deleted keeps its number.
LEMMA BoxesMove ==
  ASSUME BoxesTyped, NEW bs \in [1 .. Len(boxes) -> BoxStates]
  PROVE  bs \in Seq(BoxStates) /\ Len(bs) = Len(boxes) /\ DOMAIN bs = DOMAIN boxes
BY BoxFields, IsSequence

LEMMA GoneBoxes ==
  ASSUME BoxesTyped, NEW b \in DOMAIN boxes
  PROVE  /\ Gone(b) \in [1 .. Len(boxes) -> BoxStates]
         /\ \A c \in DOMAIN boxes : Gone(b)[c] = IF c = b THEN "gone" ELSE boxes[c]
BY BoxFields DEF Gone, BoxStates

LEMMA AllPolicies ==
  /\ ToSet(RolePolicies) = Policies
  /\ \A k \in DOMAIN RolePolicies : RolePolicies[k] \in Policies
  /\ MissingPolicies = {} => Policies \subseteq cloud.policies
<1>1. DOMAIN RolePolicies = 1 .. 3 /\ RolePolicies[1] = "execution"
      /\ RolePolicies[2] = "registry" /\ RolePolicies[3] = "logs"
  BY DEF RolePolicies
<1>2. 1 .. 3 = {1, 2, 3}
  OBVIOUS
<1> QED BY <1>1, <1>2 DEF Policies, ToSet, MissingPolicies

-----------------------------------------------------------------------------
(* Steps *)

LEMMA InitSandboxes == SandboxesInit => SandboxesInv
<1> SUFFICES ASSUME SandboxesInit PROVE SandboxesInv
  OBVIOUS
<1>1. boxes \in Seq(BoxStates) /\ Len(boxes) = 0 /\ DOMAIN boxes = {}
  BY EmptySeq DEF SandboxesInit
<1>2. cloud \in Resources
  BY DEF SandboxesInit, Resources
<1>3. BoxesTyped
  BY <1>1, <1>2 DEF SandboxesInit, BoxesTyped, Resting, Elsewhere
<1>4. Handled /\ Reachable /\ Ordered
  BY <1>1 DEF SandboxesInit, Handled, Reachable, Ordered, Preparing, Boxed, Clouds
<1> QED BY <1>3, <1>4 DEF SandboxesInv

\* The calls of start that make no box.
LEMMA StartStep ==
  ASSUME SandboxesInv,
         \/ BeginStart \/ StartFails \/ Boots \/ BecomesAlive
         \/ EnsureRole \/ AttachPolicy \/ EnsureDefinition \/ EnsureGroup \/ AuthorizeIngress
  PROVE  SandboxesInv'
<1> USE DEF SandboxesInv, Resting, Preparing, Boxed, Clouds
<1>1. UNCHANGED <<host, boxes, handle, app, spared>>
  BY DEF BeginStart, StartFails, Boots, BecomesAlive, EnsureRole, AttachPolicy,
     EnsureDefinition, EnsureGroup, AuthorizeIngress, AwsStep
<1>2. Reachable'
  BY <1>1 DEF Reachable, Live
<1>3. CASE BeginStart
  <2>1. /\ step \in {"off", "stopped"} /\ cloud' = cloud
        /\ host = "fargate" => step' = "role" /\ runtimeOf' = runtimeOf
        /\ host \in {"modal", "daytona"} => step' = "create" /\ runtimeOf' = runtimeOf
        /\ host \notin Clouds => step' = "on" /\ runtimeOf' \in {runtimeOf, Elsewhere}
    BY <1>3 DEF BeginStart
  <2>2. BoxesTyped'
    BY <1>1, <2>1 DEF BoxesTyped
  <2>3. Handled' /\ Ordered'
    BY <1>1, <2>1 DEF Handled, Ordered
  <2> QED BY <1>2, <2>2, <2>3
<1>4. CASE StartFails
  BY <1>1, <1>2, <1>4 DEF StartFails, BoxesTyped, Handled, Ordered
<1>5. CASE Boots
  <2>1. step = "boot" /\ step' = "wait" /\ runtimeOf' = handle /\ cloud' = cloud
    BY <1>5 DEF Boots
  <2> QED BY <1>1, <1>2, <2>1 DEF BoxesTyped, Handled, Ordered
<1>6. CASE BecomesAlive
  BY <1>1, <1>2, <1>6 DEF BecomesAlive, BoxesTyped, Handled, Ordered
<1>7. ASSUME NEW from, NEW to, NEW resources, AwsStep(from, to, resources),
             from \in Preparing, to \in Preparing, resources \in Resources,
             host = "fargate" /\ to # "role" => resources.role,
             host = "fargate" /\ to \notin {"role", "policies"} => resources.policies = Policies
      PROVE  SandboxesInv'
  <2>1. step = from /\ step' = to /\ cloud' = resources /\ UNCHANGED runtimeOf
    BY <1>7 DEF AwsStep
  <2>2. BoxesTyped'
    BY <1>1, <1>7, <2>1 DEF BoxesTyped
  <2>3. Handled' /\ Ordered'
    BY <1>1, <1>7, <2>1 DEF Handled, Ordered
  <2> QED BY <1>2, <2>2, <2>3
<1>8. cloud \in Resources
  BY DEF BoxesTyped
<1>9. host = "fargate" =>
        /\ step \in Preparing \ {"role"} => cloud.role
        /\ step \in Preparing \ {"role", "policies"} => cloud.policies = Policies
  BY DEF Ordered
<1>10. CASE EnsureRole
  <2>1. [cloud EXCEPT !.role = TRUE] \in Resources /\ [cloud EXCEPT !.role = TRUE].role
    BY <1>8 DEF Resources
  <2> QED BY <1>7, <1>10, <2>1 DEF EnsureRole
<1>11. CASE AttachPolicy
  <2>1. step = "policies"
    BY <1>11 DEF AttachPolicy, AwsStep
  <2>2. CASE MissingPolicies = {}
    <3>1. cloud.policies = Policies
      BY <1>8, <2>2, AllPolicies DEF Resources
    <3> QED BY <1>7, <1>8, <1>9, <1>11, <2>1, <2>2, <3>1 DEF AttachPolicy
  <2>3. CASE MissingPolicies # {}
    <3>1. PICK k \in MissingPolicies :
            AwsStep("policies", "policies", [cloud EXCEPT !.policies = @ \cup {RolePolicies[k]}])
      BY <1>11, <2>3 DEF AttachPolicy
    <3>2. RolePolicies[k] \in Policies
      BY AllPolicies DEF MissingPolicies
    <3> DEFINE resources == [cloud EXCEPT !.policies = @ \cup {RolePolicies[k]}]
    <3>3. resources \in Resources /\ resources.role = cloud.role
      BY <1>8, <3>2 DEF Resources
    <3>4. AwsStep("policies", "policies", resources)
      BY <3>1
    <3> HIDE DEF resources
    <3> QED BY <1>7, <1>9, <2>1, <3>3, <3>4
  <2> QED BY <2>2, <2>3
<1>12. CASE EnsureDefinition
  <2> DEFINE resources == [cloud EXCEPT !.definition = TRUE]
  <2>1. resources \in Resources /\ resources.role = cloud.role /\ resources.policies = cloud.policies
    BY <1>8 DEF Resources
  <2>2. step = "definition" /\ AwsStep("definition", "group", resources)
    BY <1>12 DEF EnsureDefinition, AwsStep
  <2> HIDE DEF resources
  <2> QED BY <1>7, <1>9, <2>1, <2>2
<1>13. CASE EnsureGroup
  <2> DEFINE resources == [cloud EXCEPT !.group = TRUE]
  <2>1. resources \in Resources /\ resources.role = cloud.role /\ resources.policies = cloud.policies
    BY <1>8 DEF Resources
  <2>2. /\ step = "group"
        /\ AwsStep("group", "create", cloud) \/ AwsStep("group", "rule", resources)
    BY <1>13 DEF EnsureGroup, AwsStep
  <2> HIDE DEF resources
  <2> QED BY <1>7, <1>8, <1>9, <2>1, <2>2
<1>14. CASE AuthorizeIngress
  <2> DEFINE resources == [cloud EXCEPT !.rule = TRUE]
  <2>1. resources \in Resources /\ resources.role = cloud.role /\ resources.policies = cloud.policies
    BY <1>8 DEF Resources
  <2>2. step = "rule" /\ AwsStep("rule", "create", resources)
    BY <1>14 DEF AuthorizeIngress, AwsStep
  <2> HIDE DEF resources
  <2> QED BY <1>7, <1>9, <2>1, <2>2
<1> QED BY <1>3, <1>4, <1>5, <1>6, <1>10, <1>11, <1>12, <1>13, <1>14

\* The new box is the handle; what an earlier start has left was given up.
LEMMA CreateStep ==
  ASSUME SandboxesInv, CreateBox
  PROVE  SandboxesInv'
<1> USE DEF SandboxesInv, Resting, Preparing, Boxed
<1>1. Len(boxes) \in Nat /\ DOMAIN boxes = 1 .. Len(boxes) /\ boxes \in Seq(BoxStates)
  BY BoxFields DEF BoxesTyped
<1>2. PICK box \in {"pending", "running"} : boxes' = Append(boxes, box)
  BY DEF CreateBox
<1>3. /\ boxes' \in Seq(BoxStates) /\ Len(boxes') = Len(boxes) + 1
      /\ \A b \in 1 .. Len(boxes) : boxes'[b] = boxes[b]
  BY <1>1, <1>2, AppendProperties DEF BoxStates
<1>4. DOMAIN boxes' = 1 .. Len(boxes')
  BY <1>1, <1>3, LenProperties
<1>5. /\ step = "create" /\ step' = "boot" /\ handle' = Len(boxes')
      /\ UNCHANGED <<host, runtimeOf, cloud, spared>>
  BY DEF CreateBox
<1>6. BoxesTyped'
  BY <1>1, <1>3, <1>4, <1>5 DEF BoxesTyped, Elsewhere
<1>7. Handled' /\ Ordered'
  BY <1>1, <1>3, <1>5 DEF Handled, Ordered
<1>8. Reachable'
  <2> SUFFICES ASSUME host \in {"fargate", "daytona"}, NEW b \in DOMAIN boxes',
                      Live(b)', b \notin spared
               PROVE  b = Len(boxes')
    BY <1>5 DEF Reachable
  <2>1. handle = 0
    BY <1>5 DEF Handled, Clouds
  <2>2. b \in DOMAIN boxes => Live(b)
    BY <1>1, <1>3 DEF Live
  <2> QED BY <1>1, <1>3, <1>4, <2>1, <2>2 DEF Reachable
<1> QED BY <1>6, <1>7, <1>8

\* A box that nobody knows of is given up as it is made.
LEMMA LostStep ==
  ASSUME SandboxesInv, CreateReplyLost
  PROVE  SandboxesInv'
<1> USE DEF SandboxesInv, Resting, Preparing, Boxed
<1>1. Len(boxes) \in Nat /\ DOMAIN boxes = 1 .. Len(boxes) /\ boxes \in Seq(BoxStates)
  BY BoxFields DEF BoxesTyped
<1>2. PICK box \in {"pending", "running"} : boxes' = Append(boxes, box)
  BY DEF CreateReplyLost
<1>3. /\ boxes' \in Seq(BoxStates) /\ Len(boxes') = Len(boxes) + 1
      /\ \A b \in 1 .. Len(boxes) : boxes'[b] = boxes[b]
  BY <1>1, <1>2, AppendProperties DEF BoxStates
<1>4. DOMAIN boxes' = 1 .. Len(boxes')
  BY <1>1, <1>3, LenProperties
<1>5. /\ step = "create" /\ step' = "failed" /\ spared' = spared \cup {Len(boxes')}
      /\ UNCHANGED <<host, handle, runtimeOf, cloud>>
  BY DEF CreateReplyLost
<1>6. BoxesTyped'
  BY <1>1, <1>3, <1>4, <1>5 DEF BoxesTyped, Elsewhere
<1>7. Handled' /\ Ordered'
  BY <1>5 DEF Handled, Ordered
<1>8. Reachable'
  <2> SUFFICES ASSUME host \in {"fargate", "daytona"}, NEW b \in DOMAIN boxes',
                      Live(b)', b \notin spared'
               PROVE  b = handle
    BY <1>5 DEF Reachable
  <2>1. b \in DOMAIN boxes /\ b \notin spared
    BY <1>1, <1>3, <1>4, <1>5
  <2>2. Live(b)
    BY <1>1, <1>3, <2>1 DEF Live
  <2> QED BY <2>1, <2>2 DEF Reachable
<1> QED BY <1>6, <1>7, <1>8

\* A stop that keeps, ends or gives up the box of the handle.
LEMMA StopIsStep ==
  ASSUME SandboxesInv, NEW how \in {"stopped", "unstopped", "failed"},
         NEW bs \in [1 .. Len(boxes) -> BoxStates], NEW h \in {0, handle},
         NEW r \in {0, runtimeOf}, StopIs(how, bs, h, r),
         spared' \in {spared, spared \cup {handle}}, spared' \subseteq DOMAIN boxes,
         how = "stopped" /\ host \in Clouds => h = 0,
         host \in {"fargate", "daytona"} =>
           \A b \in DOMAIN boxes :
             bs[b] \in {"pending", "running"} => Live(b) /\ (h = handle \/ b # handle \/ b \in spared')
  PROVE  SandboxesInv'
<1> USE DEF SandboxesInv, Resting, Preparing, Boxed
<1>1. /\ step' = how /\ boxes' = bs /\ handle' = h /\ runtimeOf' = r
      /\ UNCHANGED <<host, cloud>>
  BY DEF StopIs
<1>2. bs \in Seq(BoxStates) /\ Len(bs) = Len(boxes) /\ DOMAIN bs = DOMAIN boxes
      /\ Len(boxes) \in Nat
  BY BoxesMove, BoxFields
<1>3. BoxesTyped'
  BY <1>1, <1>2 DEF BoxesTyped, Elsewhere
<1>4. Handled' /\ Ordered'
  BY <1>1 DEF Handled, Ordered
<1>5. Reachable'
  <2> SUFFICES ASSUME host \in {"fargate", "daytona"}, NEW b \in DOMAIN boxes,
                      bs[b] \in {"pending", "running"}, b \notin spared'
               PROVE  b = h
    BY <1>1, <1>2 DEF Reachable, Live
  <2>1. Live(b) /\ b \notin spared /\ (h = handle \/ b # handle)
    OBVIOUS
  <2>2. b = handle
    BY <2>1 DEF Reachable
  <2> QED BY <2>1, <2>2
<1> QED BY <1>3, <1>4, <1>5

LEMMA StopStep ==
  ASSUME SandboxesInv, StopDeployment \/ ServerRefused
  PROVE  SandboxesInv'
<1> USE DEF SandboxesInv, Clouds
<1>1. /\ BoxesTyped /\ Len(boxes) \in Nat /\ DOMAIN boxes = 1 .. Len(boxes)
      /\ boxes \in [1 .. Len(boxes) -> BoxStates]
      /\ handle \in 0 .. Len(boxes) /\ spared \subseteq DOMAIN boxes
  BY BoxFields DEF BoxesTyped
<1>2. handle # 0 =>
        /\ handle \in DOMAIN boxes /\ Gone(handle) \in [1 .. Len(boxes) -> BoxStates]
        /\ \A b \in DOMAIN boxes : Gone(handle)[b] = IF b = handle THEN "gone" ELSE boxes[b]
  BY <1>1, GoneBoxes
<1>3. CASE RuntimeUnreachable
  BY <1>1, <1>3, StopIsStep DEF RuntimeUnreachable, Live
<1>4. CASE host = "modal" /\ StopModal
  <2>1. PICK bs \in [1 .. Len(boxes) -> BoxStates] : StopIs("stopped", bs, 0, 0)
    BY <1>1, <1>2, <1>4 DEF StopModal
  <2> QED BY <1>1, <1>4, <2>1, StopIsStep DEF StopModal
<1>5. CASE host = "fargate" /\ StopFargate
  <2>1. CASE StopIs("stopped", IF StopsTask THEN Gone(handle) ELSE boxes, 0, 0)
    <3>1. CASE handle # 0
      BY <1>1, <1>2, <1>5, <2>1, <3>1, StopIsStep DEF StopFargate, StopsTask, Live
    <3>2. CASE handle = 0
      BY <1>1, <1>5, <2>1, <3>2, StopIsStep DEF StopFargate, StopsTask, Live
    <3> QED BY <3>1, <3>2
  <2>2. CASE StopIs("unstopped", boxes, handle, 0)
    BY <1>1, <1>5, <2>2, StopIsStep DEF StopFargate, Live
  <2> QED BY <1>5, <2>1, <2>2 DEF StopFargate
<1>6. ASSUME NEW how \in {"stopped", "failed"}, StopDaytona(how) PROVE SandboxesInv'
  <2>1. CASE handle = 0
    <3>1. StopIs(how, boxes, 0, 0) /\ UNCHANGED spared
      BY <1>6, <2>1 DEF StopDaytona
    <3> QED BY <1>1, <2>1, <3>1, StopIsStep DEF Live
  <2>2. CASE handle # 0 /\ StopIs(how, Gone(handle), 0, 0) /\ UNCHANGED spared
    BY <1>1, <1>2, <2>2, StopIsStep DEF Live
  <2>3. CASE handle # 0 /\ StopIs(how, boxes, 0, 0) /\ spared' = spared \cup {handle}
    BY <1>1, <1>2, <2>3, StopIsStep DEF Live
  <2> QED BY <1>6, <2>1, <2>2, <2>3 DEF StopDaytona
<1>7. CASE host \notin Clouds /\ StopElsewhere
  <2>1. PICK how \in {"stopped", "unstopped"}, r \in {0, runtimeOf} : StopIs(how, boxes, handle, r)
    BY <1>7 DEF StopElsewhere
  <2> QED BY <1>1, <1>7, <2>1, StopIsStep DEF StopElsewhere
<1>8. CASE ServerRefused
  BY <1>6, <1>8 DEF ServerRefused
<1> QED BY <1>3, <1>4, <1>5, <1>6, <1>7, <1>8 DEF StopDeployment

\* The cloud and the teardown end boxes and make none; a kill forgets them all.
LEMMA OutsideStep ==
  ASSUME SandboxesInv, BoxMoves \/ ProcessKilled \/ Teardown
  PROVE  SandboxesInv'
<1> USE DEF SandboxesInv, Resting, Preparing, Boxed
<1>1. /\ BoxesTyped /\ Len(boxes) \in Nat /\ DOMAIN boxes = 1 .. Len(boxes)
      /\ boxes \in [1 .. Len(boxes) -> BoxStates] /\ cloud \in Resources
  BY BoxFields DEF BoxesTyped
<1>2. ASSUME boxes' \in [1 .. Len(boxes) -> BoxStates], cloud' \in Resources,
             \A b \in DOMAIN boxes : Live(b)' => Live(b),
             UNCHANGED <<host, handle, runtimeOf, step, spared>>,
             cloud' = cloud \/ step \in Resting
      PROVE  SandboxesInv'
  <2>1. boxes' \in Seq(BoxStates) /\ Len(boxes') = Len(boxes) /\ DOMAIN boxes' = DOMAIN boxes
    BY <1>1, <1>2, BoxesMove
  <2>2. BoxesTyped'
    BY <1>2, <2>1 DEF BoxesTyped
  <2>3. Handled' /\ Ordered' /\ Reachable'
    BY <1>2, <2>1 DEF Handled, Ordered, Reachable
  <2> QED BY <2>2, <2>3
<1>3. CASE BoxMoves
  <2>1. PICK b \in DOMAIN boxes, box \in BoxStates :
          boxes' = [boxes EXCEPT ![b] = box] /\ Live(b)
    BY <1>3 DEF BoxMoves, BoxStates, Live
  <2>2. /\ boxes' \in [1 .. Len(boxes) -> BoxStates]
        /\ \A c \in DOMAIN boxes : Live(c)' => Live(c)
    BY <1>1, <2>1 DEF Live
  <2> QED BY <1>1, <1>2, <1>3, <2>2 DEF BoxMoves
<1>4. CASE ProcessKilled
  <2>1. /\ handle' = 0 /\ runtimeOf' = 0 /\ step' = "off" /\ spared' = spared \cup DOMAIN boxes
        /\ UNCHANGED <<host, boxes, cloud>>
    BY <1>4 DEF ProcessKilled
  <2>2. BoxesTyped'
    BY <1>1, <2>1 DEF BoxesTyped
  <2>3. Handled' /\ Ordered' /\ Reachable'
    BY <2>1 DEF Handled, Ordered, Reachable
  <2> QED BY <2>2, <2>3
<1>5. CASE Teardown
  <2>1. step \in Resting /\ UNCHANGED <<host, handle, runtimeOf, step, spared>>
    BY <1>5 DEF Teardown
  <2>2. cloud' \in Resources
    BY <1>1, <1>5 DEF Teardown, Resources
  <2>3. /\ boxes' \in [1 .. Len(boxes) -> BoxStates]
        /\ \A b \in DOMAIN boxes : Live(b)' => Live(b)
    BY <1>1, <1>5 DEF Teardown, BoxStates, Live
  <2> QED BY <1>2, <2>1, <2>2, <2>3
<1> QED BY <1>3, <1>4, <1>5

LEMMA NextSandboxes == SandboxesInv /\ [SandboxesNext]_sandboxVars => SandboxesInv'
<1> SUFFICES ASSUME SandboxesInv, [SandboxesNext]_sandboxVars PROVE SandboxesInv'
  OBVIOUS
<1>1. CASE UNCHANGED sandboxVars
  BY <1>1 DEF sandboxVars, SandboxesInv, BoxesTyped, Handled, Reachable, Ordered, Live
<1> QED BY <1>1, StartStep, CreateStep, LostStep, StopStep, OutsideStep DEF SandboxesNext

-----------------------------------------------------------------------------
(* Theorems *)

\* The types, what the handle of a deployment names, which boxes a stop can still
\* reach, and the order in which start() makes what AWS needs.
THEOREM SandboxesIsInvariant == SandboxesSpec => []SandboxesInv
<1> QED BY InitSandboxes, NextSandboxes, PTL DEF SandboxesSpec

\* Whatever requests fail, whatever the cloud ends by itself and wherever the
\* process is killed: stop() leaves no task and no workspace of its own, a started
\* deployment talks to the box of its last start, and a task runs under a role that
\* has all its policies.
THEOREM SandboxesHold == SandboxesSpec => []SandboxesAreOwn
<1>1. ASSUME SandboxesInv PROVE StopIsFinal
  <2> SUFFICES ASSUME step = "stopped", host \in {"fargate", "daytona"},
                      NEW b \in DOMAIN boxes, Live(b), b \notin spared
               PROVE  FALSE
    BY DEF StopIsFinal
  <2>1. b = handle /\ handle = 0
    BY <1>1 DEF SandboxesInv, Reachable, Handled, Clouds
  <2> QED BY <1>1, <2>1, BoxFields DEF SandboxesInv
<1>2. SandboxesInv => RuntimeIsOwn
  BY DEF SandboxesInv, Handled, RuntimeIsOwn
<1>3. SandboxesInv => RoleIsWhole
  BY AllPolicies DEF SandboxesInv, Ordered, RoleIsWhole, Preparing, Boxed
<1> QED BY <1>1, <1>2, <1>3, SandboxesIsInvariant, PTL DEF SandboxesAreOwn

-----------------------------------------------------------------------------
(* BashSession: the inductive invariant *)

LineKinds == {"cmd", "term", "blank", "echo", "kill"}
TokenKinds == {"ps1", "out", "uniq", "code", "badcode", "junk"}
Lines == [kind : LineKinds, c : Nat]
Tokens == [kind : TokenKinds, c : Nat]
Interrupting == {"interrupt", "eat", "stop", "kill"}
Phases == {"start", "failed", "idle", "closed", "output", "code", "last"} \cup Interrupting

Errors == {"timeout", "syntax", "no code", "non-zero", "not interrupted", "interrupted"}
Checks == {"none", "ignore", "silent", "raise"} \cup Errors
BashCalls == [c : Nat, check : Checks, asked : {"none", "ignore", "warn"}, fallback : BOOLEAN,
          tries : Nat, outs : SUBSET Nat, code : Nat]
Observations == [c : Nat, code : Nat, outs : SUBSET Nat]

BashTyped ==
  /\ tty \in Seq(Lines) /\ job \in Lines \cup {NoLine} /\ status \in Nat
  /\ unread \in Seq(Tokens)
  /\ call \in BashCalls
  /\ phase \in Phases
  /\ obs \in Observations
  /\ sent \in Nat /\ interrupts \in Nat /\ lost \in BOOLEAN

\* No exit code is on its way.
NoCode(s) == \A i \in DOMAIN s : s[i].kind \notin {"code", "badcode"}
NoEcho == job.kind # "echo" /\ \A i \in DOMAIN tty : tty[i].kind # "echo"

\* The command of the call waits in the terminal, runs, or has run, has printed and
\* left its exit code; what waits behind it changes none of this.
Quiet == {"term", "blank", "echo"}
Behind(n) == \A i \in DOMAIN tty : n < i => tty[i].kind \in Quiet
Own == Line("cmd", call.c)
Printing(s) == call.c \in call.outs \/ \E i \in DOMAIN s : s[i] = Token("out", call.c)
Underway ==
  \/ \E n \in DOMAIN tty : tty[n] = Own /\ Behind(n)
  \/ job = Own /\ Behind(0)
  \/ job.kind \in Quiet \cup {"none"} /\ Behind(0) /\ status = call.c /\ Printing(unread)

\* The one line that asks for the exit code is the last one.
Asked ==
  \/ /\ tty # <<>> /\ tty[Len(tty)].kind = "echo" /\ job.kind # "echo"
     /\ \A i \in DOMAIN tty : tty[i].kind = "echo" => i = Len(tty)
  \/ tty = <<>> /\ job.kind = "echo"

\* The answer and the prompt behind it end what was printed.
Arrived ==
  /\ tty = <<>> /\ job = NoLine /\ Printing(unread)
  /\ \E n \in DOMAIN unread :
       /\ Len(unread) = n + 1 /\ unread[n] = Token("code", call.c) /\ unread[n + 1] = Prompt
       /\ \A i \in DOMAIN unread : unread[i].kind \in {"code", "badcode"} => i = n

InStep ==
  /\ phase \notin {"code", "last"} => NoEcho /\ NoCode(unread)
  /\ phase = "output" => Underway /\ call.outs = {}
  /\ phase = "code" => (Underway /\ Asked /\ NoCode(unread)) \/ Arrived
  /\ phase = "last" =>
       /\ tty = <<>> /\ job = NoLine /\ Len(unread) = 1 /\ unread[1] = Prompt
       /\ call.code = call.c /\ call.c \in call.outs
  /\ phase = "idle" /\ obs.code # 0 =>
       /\ obs.code = obs.c /\ obs.c \in obs.outs
       /\ unread = <<>> /\ tty = <<>> /\ job = NoLine

\* An observation lasts until the next command, and a timeout leaves none.
Unseen ==
  /\ phase \notin {"idle", "closed"} => obs.code = 0
  /\ call.check = "timeout" => obs.code = 0 /\ phase \notin {"output", "code", "last"}

SessionInv == BashTyped /\ Unseen /\ (~lost => InStep)

-----------------------------------------------------------------------------
(* Lines and tokens *)

LEMMA LineTyped == \A k \in LineKinds, c \in Nat : Line(k, c) \in Lines
BY DEF Line, Lines

LEMMA TokenTyped == \A k \in TokenKinds, c \in Nat : Token(k, c) \in Tokens
BY DEF Token, Tokens

\* The first token of these kinds, if one was printed.
LEMMA FirstPrinted ==
  ASSUME unread \in Seq(Tokens), NEW kinds
  PROVE  /\ Printed(kinds) \in 0 .. Len(unread)
         /\ Printed(kinds) = 0 => \A i \in DOMAIN unread : unread[i].kind \notin kinds
         /\ Printed(kinds) # 0 => unread[Printed(kinds)].kind \in kinds
<1> DEFINE I == {i \in 1 .. Len(unread) : unread[i].kind \in kinds}
<1>1. Printed(kinds) = IF I # {} THEN CHOOSE x \in I : \A y \in I : x =< y ELSE 0
  BY DEF Printed, SelectInSeq, Min
<1>2. Len(unread) \in Nat /\ DOMAIN unread = 1 .. Len(unread)
  BY LenProperties
<1>3. ASSUME I # {} PROVE \E x \in I : \A y \in I : x =< y
  <2> DEFINE R == {p \in Nat \X Nat : p[1] < p[2]}
  <2>1. IsWellFoundedOn(R, Nat)
    BY NatLessThanWellFounded DEF OpToRel
  <2>2. I \subseteq Nat
    BY <1>2
  <2> HIDE DEF I, R
  <2>3. \E x \in I : \A y \in I : ~ (<<y, x>> \in R)
    BY <1>3, <2>1, <2>2, WFMin
  <2>4. ASSUME NEW x \in I, NEW y \in I, ~ (<<y, x>> \in R) PROVE x =< y
    BY <2>2, <2>4 DEF R
  <2> QED BY <2>3, <2>4, Zenon
<1>4. ASSUME I # {} PROVE Printed(kinds) \in I
  <2> HIDE DEF I
  <2> QED BY <1>1, <1>3, <1>4
<1>5. I = {} => Printed(kinds) = 0
  BY <1>1
<1> QED BY <1>2, <1>4, <1>5

-----------------------------------------------------------------------------
(* Types *)

LEMMA StreamFields ==
  ASSUME BashTyped
  PROVE  /\ Len(tty) \in Nat /\ DOMAIN tty = 1 .. Len(tty)
         /\ Len(unread) \in Nat /\ DOMAIN unread = 1 .. Len(unread)
         /\ \A i \in DOMAIN tty : tty[i] \in Lines
         /\ \A i \in DOMAIN unread : unread[i] \in Tokens
BY LenProperties, ElementOfSeq DEF BashTyped

\* What an expect leaves, and what it has read before its match.
LEMMA AfterMatch ==
  ASSUME BashTyped, NEW n \in 1 .. Len(unread)
  PROVE  /\ After(n) \in Seq(Tokens) /\ Len(After(n)) = Len(unread) - n
         /\ DOMAIN After(n) = 1 .. Len(unread) - n
         /\ \A i \in DOMAIN After(n) : After(n)[i] = unread[n + i]
<1>1. Len(unread) \in Nat /\ \A i \in n + 1 .. Len(unread) : unread[i] \in Tokens
  BY StreamFields
<1>2. /\ After(n) \in Seq(Tokens) /\ Len(After(n)) = Len(unread) - n
      /\ \A i \in 1 .. Len(unread) - n : After(n)[i] = unread[n + i]
  BY <1>1, SubSeqProperties DEF After
<1> QED BY <1>1, <1>2, LenProperties

LEMMA OutputsBefore ==
  ASSUME BashTyped, NEW n \in 1 .. Len(unread)
  PROVE  /\ OutputsIn(Before(n)) \subseteq Nat
         /\ \A i \in 1 .. n - 1 : unread[i].kind = "out" => unread[i].c \in OutputsIn(Before(n))
<1>1. Len(unread) \in Nat /\ \A i \in 1 .. n - 1 : unread[i] \in Tokens
  BY StreamFields
<1>2. /\ Before(n) \in Seq(Tokens) /\ Len(Before(n)) = n - 1
      /\ \A i \in 1 .. n - 1 : Before(n)[i] = unread[i]
  BY <1>1, SubSeqProperties DEF Before
<1>3. DOMAIN Before(n) = 1 .. n - 1
  BY <1>2, LenProperties
<1>4. \A i \in 1 .. n - 1 : Before(n)[i] \in Tokens /\ unread[i].c \in Nat
  BY <1>1, <1>2 DEF Tokens
<1> HIDE DEF Before
<1> QED BY <1>2, <1>3, <1>4 DEF OutputsIn

\* Lines behind those that wait.
LEMMA LinesAdded ==
  ASSUME BashTyped, NEW more \in Seq(Lines)
  PROVE  /\ tty \o more \in Seq(Lines) /\ Len(tty \o more) = Len(tty) + Len(more)
         /\ DOMAIN (tty \o more) = 1 .. Len(tty) + Len(more)
         /\ \A i \in 1 .. Len(tty) : (tty \o more)[i] = tty[i]
         /\ \A i \in 1 .. Len(more) : (tty \o more)[Len(tty) + i] = more[i]
<1>1. Len(tty) \in Nat /\ Len(more) \in Nat /\ tty \in Seq(Lines)
  BY StreamFields, LenProperties DEF BashTyped
<1>2. /\ tty \o more \in Seq(Lines) /\ Len(tty \o more) = Len(tty) + Len(more)
      /\ \A i \in 1 .. Len(tty) + Len(more) :
           (tty \o more)[i] = IF i <= Len(tty) THEN tty[i] ELSE more[i - Len(tty)]
  BY <1>1, ConcatProperties
<1>3. ASSUME NEW i \in 1 .. Len(tty) PROVE (tty \o more)[i] = tty[i]
  BY <1>1, <1>2
<1>4. ASSUME NEW i \in 1 .. Len(more) PROVE (tty \o more)[Len(tty) + i] = more[i]
  <2>1. Len(tty) + i \in 1 .. Len(tty) + Len(more) /\ ~(Len(tty) + i <= Len(tty))
        /\ Len(tty) + i - Len(tty) = i
    BY <1>1
  <2> QED BY <1>2, <2>1
<1> QED BY <1>2, <1>3, <1>4, LenProperties

LEMMA TokensAdded ==
  ASSUME BashTyped, NEW more \in Seq(Tokens)
  PROVE  /\ unread \o more \in Seq(Tokens) /\ Len(unread \o more) = Len(unread) + Len(more)
         /\ DOMAIN (unread \o more) = 1 .. Len(unread) + Len(more)
         /\ \A i \in 1 .. Len(unread) : (unread \o more)[i] = unread[i]
         /\ \A i \in 1 .. Len(more) : (unread \o more)[Len(unread) + i] = more[i]
<1>1. Len(unread) \in Nat /\ Len(more) \in Nat /\ unread \in Seq(Tokens)
  BY StreamFields, LenProperties DEF BashTyped
<1>2. /\ unread \o more \in Seq(Tokens) /\ Len(unread \o more) = Len(unread) + Len(more)
      /\ \A i \in 1 .. Len(unread) + Len(more) :
           (unread \o more)[i] = IF i <= Len(unread) THEN unread[i] ELSE more[i - Len(unread)]
  BY <1>1, ConcatProperties
<1>3. ASSUME NEW i \in 1 .. Len(unread) PROVE (unread \o more)[i] = unread[i]
  BY <1>1, <1>2
<1>4. ASSUME NEW i \in 1 .. Len(more) PROVE (unread \o more)[Len(unread) + i] = more[i]
  <2>1. Len(unread) + i \in 1 .. Len(unread) + Len(more) /\ ~(Len(unread) + i <= Len(unread))
        /\ Len(unread) + i - Len(unread) = i
    BY <1>1
  <2> QED BY <1>2, <2>1
<1> QED BY <1>2, <1>3, <1>4, LenProperties

\* What the shell prints.
LEMMA PromptPrinted ==
  ASSUME BashTyped, unread' = unread \o <<Prompt>>
  PROVE  /\ unread' \in Seq(Tokens) /\ Len(unread') = Len(unread) + 1
         /\ DOMAIN unread' = 1 .. Len(unread) + 1
         /\ \A i \in DOMAIN unread : unread'[i] = unread[i]
         /\ unread'[Len(unread) + 1] = Prompt
<1>1. Prompt \in Tokens
  BY TokenTyped DEF Prompt, TokenKinds
<1>2. <<Prompt>> \in Seq(Tokens) /\ Len(<<Prompt>>) = 1
  BY <1>1
<1> QED BY <1>2, TokensAdded, StreamFields

LEMMA TokenPrinted ==
  ASSUME BashTyped, NEW t \in Tokens, unread' = unread \o <<t, Prompt>>
  PROVE  /\ unread' \in Seq(Tokens) /\ Len(unread') = Len(unread) + 2
         /\ DOMAIN unread' = 1 .. Len(unread) + 2
         /\ \A i \in DOMAIN unread : unread'[i] = unread[i]
         /\ unread'[Len(unread) + 1] = t /\ unread'[Len(unread) + 2] = Prompt
<1>1. Prompt \in Tokens
  BY TokenTyped DEF Prompt, TokenKinds
<1>2. <<t, Prompt>> \in Seq(Tokens) /\ Len(<<t, Prompt>>) = 2
  BY <1>1
<1>3. 1 \in 1 .. 2 /\ 2 \in 1 .. 2 /\ <<t, Prompt>>[1] = t /\ <<t, Prompt>>[2] = Prompt
  OBVIOUS
<1> HIDE DEF Prompt
<1> QED BY <1>2, <1>3, TokensAdded, StreamFields

-----------------------------------------------------------------------------
(* The shell *)

LEMMA KindsApart ==
  /\ Own.kind = "cmd" /\ NoLine.kind = "none" /\ Prompt.kind = "ps1"
  /\ \A k, c : Token(k, c).kind = k /\ Token(k, c).c = c /\ Line(k, c).kind = k /\ Line(k, c).c = c
BY DEF Own, Line, NoLine, Prompt, Token

LEMMA ReadsStep == SessionInv /\ ShellReads => SessionInv'
<1> SUFFICES ASSUME SessionInv, ShellReads PROVE SessionInv'
  OBVIOUS
<1>1. /\ BashTyped /\ tty \in Seq(Lines) /\ job = NoLine /\ tty # <<>>
      /\ UNCHANGED <<status, unread, clientVars>>
  BY DEF SessionInv, ShellReads, BashTyped
<1>2. /\ tty' \in Seq(Lines) /\ job' = tty[1] /\ tty[1] \in Lines
      /\ Len(tty) \in Nat \ {0} /\ DOMAIN tty = 1 .. Len(tty)
      /\ Len(tty') = Len(tty) - 1 /\ DOMAIN tty' = 1 .. Len(tty) - 1
      /\ \A i \in DOMAIN tty' : tty'[i] = tty[i + 1]
  <2>1. Len(tty) \in Nat \ {0} /\ DOMAIN tty = 1 .. Len(tty)
    BY <1>1, StreamFields, EmptySeq
  <2>2. Tail(tty) \in Seq(Lines) /\ Len(Tail(tty)) = Len(tty) - 1
        /\ \A i \in 1 .. Len(Tail(tty)) : Tail(tty)[i] = tty[i + 1]
    BY <1>1, HeadTailProperties
  <2>3. Head(tty) = tty[1] /\ tty[1] \in Lines
    BY <1>1, <2>1, StreamFields
  <2> QED BY <2>1, <2>2, <2>3, LenProperties DEF ShellReads
<1>3. BashTyped'
  BY <1>1, <1>2 DEF BashTyped, clientVars
<1>4. Unseen'
  BY <1>1 DEF SessionInv, Unseen, clientVars
<1>5. ASSUME ~lost PROVE InStep'
  <2>1. InStep
    BY <1>5 DEF SessionInv
  <2>2. phase # "last" /\ ~(phase = "idle" /\ obs.code # 0) /\ ~Arrived
    BY <1>1, <2>1 DEF InStep, Arrived
  <2>3. ASSUME NoEcho PROVE NoEcho'
    BY <1>2, <2>3 DEF NoEcho
  <2>4. ASSUME Underway PROVE Underway'
    <3>1. CASE \E n \in DOMAIN tty : tty[n] = Own /\ Behind(n)
      <4>1. PICK n \in DOMAIN tty : tty[n] = Own /\ Behind(n)
        BY <3>1
      <4>2. CASE n = 1
        BY <1>1, <1>2, <4>1, <4>2 DEF Underway, Behind, Own, clientVars
      <4>3. CASE n # 1
        <5>1. n - 1 \in DOMAIN tty' /\ tty'[n - 1] = Own' /\ Behind(n - 1)'
          BY <1>1, <1>2, <4>1, <4>3 DEF Behind, Own, clientVars
        <5> QED BY <5>1 DEF Underway
      <4> QED BY <4>2, <4>3
    <3>2. CASE Behind(0) /\ status = call.c /\ Printing(unread)
      <4>1. job'.kind \in Quiet /\ Behind(0)'
        BY <1>2, <3>2 DEF Behind
      <4>2. status' = call'.c /\ Printing(unread)'
        BY <1>1, <3>2 DEF Printing, clientVars
      <4> QED BY <4>1, <4>2 DEF Underway
    <3> QED BY <1>1, <2>4, <3>1, <3>2, KindsApart DEF Underway
  <2>5. ASSUME Asked PROVE Asked'
    <3>1. tty[Len(tty)].kind = "echo" /\ \A i \in DOMAIN tty : tty[i].kind = "echo" => i = Len(tty)
      BY <1>1, <2>5 DEF Asked
    <3>2. CASE Len(tty) = 1
      BY <1>2, <3>1, <3>2, EmptySeq DEF Asked
    <3>3. CASE Len(tty) # 1
      <4>1. tty' # <<>> /\ Len(tty') \in DOMAIN tty' /\ tty'[Len(tty')] = tty[Len(tty)]
            /\ job'.kind # "echo"
        BY <1>2, <3>1, <3>3
      <4>2. \A i \in DOMAIN tty' : tty'[i].kind = "echo" => i = Len(tty')
        BY <1>2, <3>1
      <4> QED BY <3>1, <4>1, <4>2 DEF Asked
    <3> QED BY <3>2, <3>3
  <2>6. NoCode(unread) => NoCode(unread)'
    BY <1>1 DEF NoCode
  <2> QED BY <1>1, <2>1, <2>2, <2>3, <2>4, <2>5, <2>6 DEF InStep, clientVars
<1> QED BY <1>1, <1>3, <1>4, <1>5 DEF SessionInv, clientVars

\* What was printed stays until an expect consumes it.
LEMMA StillPrinted ==
  ASSUME BashTyped, BashTyped', Len(unread') >= Len(unread),
         \A i \in DOMAIN unread : unread'[i] = unread[i],
         UNCHANGED call
  PROVE  Printing(unread) => Printing(unread)'
BY StreamFields DEF Printing, BashTyped

LEMMA EndsStep == SessionInv /\ ShellEnds => SessionInv'
<1> SUFFICES ASSUME SessionInv, ShellEnds PROVE SessionInv'
  OBVIOUS
<1>1. /\ BashTyped /\ job # NoLine /\ job \in Lines /\ job' = NoLine /\ UNCHANGED <<tty, clientVars>>
      /\ UNCHANGED <<tty, call, phase, obs, sent, interrupts, lost>>
  BY DEF SessionInv, ShellEnds, BashTyped, clientVars
<1>2. job.kind \in LineKinds /\ job.c \in Nat /\ status \in Nat
  BY <1>1 DEF Lines, BashTyped
<1>3. Unseen'
  BY <1>1 DEF SessionInv, Unseen
<1>4. NoEcho => NoEcho'
  BY <1>1, KindsApart DEF NoEcho
<1>5. ~lost => phase # "last" /\ ~(phase = "idle" /\ obs.code # 0) /\ ~Arrived /\ InStep
  BY <1>1 DEF SessionInv, InStep, Arrived
\* The command ends with its output and a prompt.
<1>6. ASSUME job.kind = "cmd" PROVE BashTyped' /\ (~lost => InStep')
  <2>1. unread' = unread \o <<Token("out", job.c), Prompt>> /\ status' = job.c
    BY <1>6 DEF ShellEnds
  <2>2. Token("out", job.c) \in Tokens
    BY <1>2, TokenTyped DEF TokenKinds
  <2>3. /\ unread' \in Seq(Tokens) /\ Len(unread') = Len(unread) + 2
        /\ DOMAIN unread' = 1 .. Len(unread) + 2
        /\ \A i \in DOMAIN unread : unread'[i] = unread[i]
        /\ unread'[Len(unread) + 1] = Token("out", job.c) /\ unread'[Len(unread) + 2] = Prompt
    BY <1>1, <2>1, <2>2, TokenPrinted
  <2>4. BashTyped'
    BY <1>1, <1>2, <2>1, <2>3 DEF BashTyped
  <2>5. ASSUME ~lost PROVE InStep'
    <3>1. NoCode(unread) => NoCode(unread)'
      BY <1>1, <2>3, StreamFields, KindsApart DEF NoCode
    <3>2. ASSUME Underway PROVE Underway'
      <4>1. CASE \E n \in DOMAIN tty : tty[n] = Own /\ Behind(n)
        BY <1>1, <4>1 DEF Underway, Own, Behind
      <4>2. CASE job = Own /\ Behind(0)
        <5>1. job.c = call.c
          BY <4>2, KindsApart DEF Own
        <5>2. Len(unread) + 1 \in DOMAIN unread' /\ unread'[Len(unread) + 1] = Token("out", call'.c)
          BY <1>1, <2>3, <5>1, StreamFields
        <5>3. Printing(unread)'
          BY <5>2 DEF Printing
        <5> QED BY <1>1, <2>1, <4>2, <5>1, <5>3, KindsApart DEF Underway, Behind
      <4> QED BY <1>6, <3>2, <4>1, <4>2 DEF Underway, Quiet
    <3>3. Asked => Asked'
      BY <1>1, <1>6, KindsApart DEF Asked
    <3> QED BY <1>1, <1>4, <1>5, <2>5, <3>1, <3>2, <3>3 DEF InStep
  <2> QED BY <2>4, <2>5
\* echo prints the exit code of the command that has just run.
<1>7. ASSUME job.kind = "echo" PROVE BashTyped' /\ (~lost => InStep')
  <2>1. unread' = unread \o <<Token("code", status), Prompt>> /\ status' = 0
    BY <1>7 DEF ShellEnds
  <2>2. Token("code", status) \in Tokens
    BY <1>2, TokenTyped DEF TokenKinds
  <2>3. /\ unread' \in Seq(Tokens) /\ Len(unread') = Len(unread) + 2
        /\ DOMAIN unread' = 1 .. Len(unread) + 2
        /\ \A i \in DOMAIN unread : unread'[i] = unread[i]
        /\ unread'[Len(unread) + 1] = Token("code", status) /\ unread'[Len(unread) + 2] = Prompt
    BY <1>1, <2>1, <2>2, TokenPrinted
  <2>4. BashTyped'
    BY <1>1, <1>2, <2>1, <2>3 DEF BashTyped
  <2>5. ASSUME ~lost PROVE InStep'
    <3>1. phase = "code" /\ Underway /\ Asked /\ NoCode(unread)
      BY <1>5, <1>7, <2>5 DEF InStep, NoEcho
    <3>2. tty = <<>>
      <4>1. ASSUME tty # <<>> PROVE FALSE
        BY <1>7, <3>1, <4>1 DEF Asked
      <4> QED BY <4>1
    <3>3. status = call.c /\ Printing(unread)
      BY <1>1, <1>7, <3>1, <3>2, StreamFields, EmptySeq, KindsApart DEF Underway
    <3>4. Printing(unread)'
      BY <1>1, <2>3, <2>4, <3>3, StillPrinted, StreamFields
    <3>5. Arrived'
      <4>1. Len(unread) + 1 \in DOMAIN unread'
        BY <1>1, <2>3, StreamFields
      <4>2. \A i \in DOMAIN unread' : unread'[i].kind \in {"code", "badcode"} => i = Len(unread) + 1
        BY <1>1, <2>3, <3>1, StreamFields, KindsApart DEF NoCode
      <4>3. Len(unread') = (Len(unread) + 1) + 1 /\ unread'[(Len(unread) + 1) + 1] = Prompt
        BY <1>1, <2>3, StreamFields
      <4>4. unread'[Len(unread) + 1] = Token("code", call'.c)
        BY <1>1, <2>3, <3>3
      <4> QED BY <1>1, <3>2, <3>4, <4>1, <4>2, <4>3, <4>4 DEF Arrived
    <3> QED BY <1>1, <3>1, <3>5 DEF InStep
  <2> QED BY <2>4, <2>5
\* Every other line leaves the exit code of the command, or comes before it.
<1>8. ASSUME job.kind \in {"term", "blank", "kill"} PROVE BashTyped' /\ (~lost => InStep')
  <2>1. /\ \/ unread' = unread \o <<Token("uniq", job.c), Prompt>>
           \/ unread' = unread \o <<Prompt>>
        /\ status' = IF job.kind = "kill" THEN 0 ELSE status
    BY <1>8 DEF ShellEnds
  <2>2. Token("uniq", job.c) \in Tokens
    BY <1>2, TokenTyped DEF TokenKinds
  <2>3. /\ unread' \in Seq(Tokens) /\ Len(unread') \in Len(unread) + 1 .. Len(unread) + 2
        /\ DOMAIN unread' = 1 .. Len(unread')
        /\ \A i \in DOMAIN unread : unread'[i] = unread[i]
        /\ \A i \in DOMAIN unread' : i > Len(unread) => unread'[i].kind \in {"uniq", "ps1"}
    <3>1. CASE unread' = unread \o <<Token("uniq", job.c), Prompt>>
      <4>1. /\ unread' \in Seq(Tokens) /\ Len(unread') = Len(unread) + 2
            /\ DOMAIN unread' = 1 .. Len(unread) + 2
            /\ \A i \in DOMAIN unread : unread'[i] = unread[i]
            /\ unread'[Len(unread) + 1] = Token("uniq", job.c) /\ unread'[Len(unread) + 2] = Prompt
        BY <1>1, <2>2, <3>1, TokenPrinted
      <4> QED BY <1>1, <4>1, StreamFields, KindsApart
    <3>2. CASE unread' = unread \o <<Prompt>>
      <4>1. /\ unread' \in Seq(Tokens) /\ Len(unread') = Len(unread) + 1
            /\ DOMAIN unread' = 1 .. Len(unread) + 1
            /\ \A i \in DOMAIN unread : unread'[i] = unread[i]
            /\ unread'[Len(unread) + 1] = Prompt
        BY <1>1, <3>2, PromptPrinted
      <4> QED BY <1>1, <4>1, StreamFields, KindsApart
    <3> QED BY <2>1, <3>1, <3>2
  <2>4. BashTyped'
    BY <1>1, <1>2, <2>1, <2>3 DEF BashTyped
  <2>5. ASSUME ~lost PROVE InStep'
    <3>1. NoCode(unread) => NoCode(unread)'
      BY <1>1, <2>3, StreamFields DEF NoCode
    <3>2. ASSUME Underway PROVE Underway'
      <4>1. CASE \E n \in DOMAIN tty : tty[n] = Own /\ Behind(n)
        BY <1>1, <4>1 DEF Underway, Own, Behind
      <4>2. CASE job.kind \in Quiet /\ Behind(0) /\ status = call.c /\ Printing(unread)
        <5>1. Printing(unread)'
          BY <1>1, <2>3, <2>4, <4>2, StillPrinted, StreamFields
        <5>2. status' = status
          BY <1>8, <2>1, <4>2 DEF Quiet
        <5> QED BY <1>1, <4>2, <5>1, <5>2, KindsApart DEF Underway, Behind
      <4> QED BY <1>8, <3>2, <4>1, <4>2, KindsApart DEF Underway
    <3>3. Asked => Asked'
      BY <1>1, <1>8, KindsApart DEF Asked
    <3> QED BY <1>1, <1>4, <1>5, <2>5, <3>1, <3>2, <3>3 DEF InStep
  <2> QED BY <2>4, <2>5
<1> QED BY <1>1, <1>2, <1>3, <1>6, <1>7, <1>8 DEF SessionInv, LineKinds

-----------------------------------------------------------------------------
(* The client *)

\* An expect that finds a token of one of these kinds.
LEMMA MatchFound ==
  ASSUME BashTyped, NEW kinds, Matches(Printed(kinds))
  PROVE  /\ Printed(kinds) \in DOMAIN unread /\ unread[Printed(kinds)].kind \in kinds
         /\ unread' = After(Printed(kinds)) /\ unread' \in Seq(Tokens)
         /\ Len(unread') = Len(unread) - Printed(kinds)
         /\ DOMAIN unread' = 1 .. Len(unread) - Printed(kinds)
         /\ \A i \in DOMAIN unread' : unread'[i] = unread[Printed(kinds) + i]
         /\ NoCode(unread) => NoCode(unread)'
<1> DEFINE n == Printed(kinds)
<1>1. unread \in Seq(Tokens) /\ n > 0 /\ unread' = After(n)
  BY DEF BashTyped, Matches
<1>2. n \in 0 .. Len(unread) /\ (n # 0 => unread[n].kind \in kinds)
  BY <1>1, FirstPrinted
<1> HIDE DEF n
<1>3. n \in 1 .. Len(unread) /\ n \in DOMAIN unread
  BY <1>1, <1>2, StreamFields
<1>4. /\ unread' \in Seq(Tokens) /\ Len(unread') = Len(unread) - n
      /\ DOMAIN unread' = 1 .. Len(unread) - n
      /\ \A i \in DOMAIN unread' : unread'[i] = unread[n + i]
  BY <1>1, <1>3, AfterMatch
<1>5. \A i \in DOMAIN unread' : n + i \in DOMAIN unread
  BY <1>3, <1>4, StreamFields
<1>6. NoCode(unread) => NoCode(unread)'
  BY <1>4, <1>5 DEF NoCode
<1> QED BY <1>1, <1>2, <1>3, <1>4, <1>6 DEF n

\* What a call records.
LEMMA CallFields ==
  ASSUME BashTyped
  PROVE  /\ call.c \in Nat /\ call.fallback \in BOOLEAN /\ call.tries \in Nat
         /\ call.outs \in SUBSET Nat /\ call.code \in Nat
BY DEF BashTyped, BashCalls

LEMMA CallChanged ==
  ASSUME BashTyped
  PROVE  /\ \A n \in Nat : [call EXCEPT !.c = n] \in BashCalls /\ [call EXCEPT !.tries = n] \in BashCalls
         /\ \A x \in Errors : [call EXCEPT !.check = x] \in BashCalls
         /\ \A n \in Nat, x \in Errors : [call EXCEPT !.c = n, !.check = x] \in BashCalls
         /\ \A o \in SUBSET Nat : [call EXCEPT !.outs = o] \in BashCalls
         /\ \A o \in SUBSET Nat, n \in Nat : [call EXCEPT !.outs = o, !.code = n] \in BashCalls
         /\ \A o \in SUBSET Nat, n \in Nat, x \in Errors :
              [call EXCEPT !.outs = o, !.code = n, !.check = x] \in BashCalls
BY DEF BashTyped, BashCalls, Checks

\* How a call ends.
LEMMA ReturnTyped ==
  ASSUME BashTyped, NEW code \in Nat, NEW outs \in SUBSET Nat, Returns(code, outs)
  PROVE  /\ phase' = "idle" /\ obs' \in Observations
         /\ obs'.c = call.c /\ obs'.code = code /\ obs'.outs = outs
         /\ call' \in BashCalls /\ call'.check = call.check
BY DEF BashTyped, Returns, BashCalls, Observations

LEMMA RaiseTyped ==
  ASSUME BashTyped, NEW error \in Errors, Raises(error)
  PROVE  /\ phase' = "idle" /\ obs' = NoObs /\ NoObs.code = 0
         /\ obs' \in Observations /\ call' \in BashCalls
<1>1. NoObs.code = 0 /\ NoObs \in Observations
  BY DEF NoObs, Observations
<1>2. call' \in BashCalls
  BY CallChanged DEF Raises
<1> QED BY <1>1, <1>2 DEF Raises

\* Outside of the two expects of an exit code nothing is owed but a clean terminal.
LEMMA CalmStep ==
  ASSUME SessionInv, BashTyped', Unseen', phase \notin {"code", "last"},
         phase' \notin {"output", "code", "last"}, phase' = "idle" => obs'.code = 0,
         NoEcho => NoEcho', NoCode(unread) => NoCode(unread)', UNCHANGED lost
  PROVE  SessionInv'
BY DEF SessionInv, InStep

\* start() and close().
LEMMA BashStartStep == SessionInv /\ (Started \/ StartTimesOut \/ CloseSession) => SessionInv'
<1> SUFFICES ASSUME SessionInv, Started \/ StartTimesOut \/ CloseSession PROVE SessionInv'
  OBVIOUS
<1>1. BashTyped /\ Unseen
  BY DEF SessionInv
<1>2. CASE Started
  <2>1. /\ phase = "start" /\ phase' = "idle" /\ Matches(Printed({"ps1"}))
        /\ UNCHANGED <<tty, job, status, call, obs, sent, interrupts, lost>>
    BY <1>2 DEF Started, Waits
  <2>2. unread' \in Seq(Tokens) /\ (NoCode(unread) => NoCode(unread)')
    BY <1>1, <2>1, MatchFound
  <2>3. BashTyped'
    BY <1>1, <2>1, <2>2 DEF BashTyped, Phases
  <2>4. Unseen' /\ obs'.code = 0
    BY <1>1, <2>1 DEF Unseen
  <2>5. NoEcho => NoEcho'
    BY <2>1 DEF NoEcho
  <2> QED BY <2>1, <2>2, <2>3, <2>4, <2>5, CalmStep
<1>3. CASE StartTimesOut \/ CloseSession
  <2>1. /\ phase \in {"start", "idle"} /\ phase' \in {"failed", "closed"}
        /\ (phase = "start" => obs.code = 0) /\ (phase' = "failed" => phase = "start")
        /\ UNCHANGED <<tty, job, status, unread, call, obs, sent, interrupts, lost>>
    BY <1>1, <1>3 DEF StartTimesOut, CloseSession, Waits, NoMatch, shellVars, Unseen
  <2>2. BashTyped' /\ Unseen'
    BY <1>1, <2>1 DEF BashTyped, Phases, Unseen
  <2>3. (NoEcho => NoEcho') /\ (NoCode(unread) => NoCode(unread)')
    BY <2>1 DEF NoEcho, NoCode
  <2> QED BY <2>1, <2>2, <2>3, CalmStep
<1> QED BY <1>2, <1>3

\* A signal may end the line in the foreground, and empties the terminal.
LEMMA SignalledTyped ==
  ASSUME BashTyped, Signalled
  PROVE  /\ tty' = <<>> /\ tty' \in Seq(Lines) /\ job' \in {job, NoLine} /\ status' \in Nat
         /\ unread' \in Seq(Tokens)
         /\ NoEcho => NoEcho'
         /\ NoCode(unread) => NoCode(unread)'
<1>1. tty' = <<>> /\ tty' \in Seq(Lines)
  BY DEF Signalled
<1>2. CASE job' = NoLine /\ unread' = Append(unread, Prompt)
  <2>1. unread \in Seq(Tokens) /\ Prompt \in Tokens /\ status \in Nat
        /\ (job.kind = "cmd" => job.c \in Nat)
    BY TokenTyped, KindsApart DEF BashTyped, Lines, Prompt, TokenKinds
  <2>2. /\ unread' \in Seq(Tokens) /\ Len(unread') = Len(unread) + 1
        /\ \A i \in 1 .. Len(unread) : unread'[i] = unread[i]
        /\ unread'[Len(unread) + 1] = Prompt
    BY <1>2, <2>1, AppendProperties
  <2>3. NoCode(unread) => NoCode(unread)'
    <3>1. DOMAIN unread' = 1 .. Len(unread) + 1
      BY <2>2, LenProperties
    <3> QED BY <2>2, <3>1, StreamFields, KindsApart DEF NoCode
  <2>4. status' \in Nat
    BY <2>1 DEF Signalled, BashTyped
  <2>5. NoEcho => NoEcho'
    BY <1>1, <1>2, KindsApart, EmptySeq DEF NoEcho
  <2> QED BY <1>1, <1>2, <2>2, <2>3, <2>4, <2>5
<1>3. CASE UNCHANGED <<job, status, unread>>
  BY <1>1, <1>3 DEF BashTyped, NoEcho, NoCode
<1> QED BY <1>2, <1>3 DEF Signalled

LEMMA InterruptStep ==
  SessionInv /\ (Interrupt \/ Interrupted \/ InterruptTimesOut) => SessionInv'
<1> SUFFICES ASSUME SessionInv, Interrupt \/ Interrupted \/ InterruptTimesOut PROVE SessionInv'
  OBVIOUS
<1>1. BashTyped /\ Unseen
  BY DEF SessionInv
<1>2. CASE Interrupt
  <2>1. /\ phase = "idle" /\ call.check = "timeout" /\ phase' = "interrupt"
        /\ call' = [call EXCEPT !.tries = 1] /\ interrupts' = interrupts + 1
        /\ Signalled /\ UNCHANGED <<obs, sent, lost>>
    BY <1>2 DEF Interrupt, Waits
  <2>2. BashTyped'
    <3>1. call' \in BashCalls
      BY <1>1, <2>1, CallChanged
    <3> QED BY <1>1, <2>1, <3>1, SignalledTyped DEF BashTyped, Phases, Interrupting
  <2>3. Unseen'
    BY <1>1, <2>1 DEF Unseen
  <2> QED BY <1>1, <2>1, <2>2, <2>3, SignalledTyped, CalmStep
<1>3. CASE Interrupted
  <2>1. /\ phase = "interrupt" /\ phase' = "eat" /\ Matches(Printed({"ps1"}))
        /\ UNCHANGED <<tty, job, status, call, obs, sent, interrupts, lost>>
    BY <1>3 DEF Interrupted, Waits
  <2>2. unread' \in Seq(Tokens) /\ (NoCode(unread) => NoCode(unread)')
    BY <1>1, <2>1, MatchFound
  <2>3. BashTyped' /\ Unseen'
    BY <1>1, <2>1, <2>2 DEF BashTyped, Phases, Interrupting, Unseen
  <2>4. NoEcho => NoEcho'
    BY <2>1 DEF NoEcho
  <2> QED BY <2>1, <2>2, <2>3, <2>4, CalmStep
<1>4. CASE InterruptTimesOut
  <2>1. /\ phase = "interrupt" /\ phase' \in {"interrupt", "stop"}
        /\ (call' = [call EXCEPT !.tries = call.tries + 1] \/ call' = call)
        /\ Signalled /\ UNCHANGED <<obs, sent, interrupts, lost>>
    BY <1>4 DEF InterruptTimesOut, Waits
  <2>2. BashTyped'
    <3>1. call.tries + 1 \in Nat
      BY <1>1, CallFields
    <3>2. call' \in BashCalls
      BY <1>1, <2>1, <3>1, CallChanged DEF BashTyped
    <3> QED BY <1>1, <2>1, <3>2, SignalledTyped DEF BashTyped, Phases, Interrupting
  <2>3. Unseen'
    <3>1. call'.check = call.check
      BY <1>1, <2>1 DEF BashTyped, BashCalls
    <3> QED BY <1>1, <2>1, <3>1 DEF Unseen
  <2> QED BY <1>1, <2>1, <2>2, <2>3, SignalledTyped, CalmStep
<1> QED BY <1>2, <1>3, <1>4

LEMMA BashStopStep ==
  SessionInv /\ (Stopped \/ Killed \/ InterruptFails) => SessionInv'
<1> SUFFICES ASSUME SessionInv, Stopped \/ Killed \/ InterruptFails PROVE SessionInv'
  OBVIOUS
<1>1. BashTyped /\ Unseen
  BY DEF SessionInv
<1>2. CASE Stopped
  <2>1. /\ phase = "stop" /\ phase' = "kill" /\ Matches(Printed({"ps1"}))
        /\ tty' = Append(tty, Line("kill", 0))
        /\ UNCHANGED <<job, status, call, obs, sent, interrupts, lost>>
    BY <1>2 DEF Stopped, Waits
  <2>2. unread' \in Seq(Tokens) /\ (NoCode(unread) => NoCode(unread)')
    BY <1>1, <2>1, MatchFound
  <2>3. /\ tty' \in Seq(Lines) /\ Len(tty') = Len(tty) + 1 /\ DOMAIN tty' = 1 .. Len(tty) + 1
        /\ \A i \in 1 .. Len(tty) : tty'[i] = tty[i]
        /\ tty'[Len(tty) + 1] = Line("kill", 0)
    <3>1. Line("kill", 0) \in Lines /\ tty \in Seq(Lines)
      BY <1>1, LineTyped DEF LineKinds, BashTyped
    <3> QED BY <2>1, <3>1, AppendProperties, LenProperties
  <2>4. BashTyped' /\ Unseen'
    BY <1>1, <2>1, <2>2, <2>3 DEF BashTyped, Phases, Interrupting, Unseen
  <2>5. NoEcho => NoEcho'
    BY <1>1, <2>1, <2>3, StreamFields, KindsApart DEF NoEcho
  <2> QED BY <2>1, <2>2, <2>4, <2>5, CalmStep
<1>3. CASE Killed
  <2>1. /\ phase = "kill" /\ phase' = "eat" /\ Matches(Printed({"ps1"}))
        /\ UNCHANGED <<tty, job, status, call, obs, sent, interrupts, lost>>
    BY <1>3 DEF Killed, Waits
  <2>2. unread' \in Seq(Tokens) /\ (NoCode(unread) => NoCode(unread)')
    BY <1>1, <2>1, MatchFound
  <2>3. BashTyped' /\ Unseen'
    BY <1>1, <2>1, <2>2 DEF BashTyped, Phases, Interrupting, Unseen
  <2>4. NoEcho => NoEcho'
    BY <2>1 DEF NoEcho
  <2> QED BY <2>1, <2>2, <2>3, <2>4, CalmStep
<1>4. CASE InterruptFails
  <2>1. /\ phase \in {"stop", "kill"} /\ UNCHANGED unread /\ Raises("not interrupted")
        /\ UNCHANGED <<tty, job, status, sent, interrupts, lost>>
    BY <1>4 DEF InterruptFails, NoMatch
  <2>2. /\ phase' = "idle" /\ obs'.code = 0 /\ call' \in BashCalls
        /\ obs' \in Observations
    <3>1. "not interrupted" \in Errors
      BY Zenon DEF Errors
    <3> QED BY <1>1, <2>1, <3>1, RaiseTyped
  <2>3. BashTyped' /\ Unseen'
    BY <1>1, <2>1, <2>2 DEF BashTyped, Phases, Unseen
  <2>4. (NoEcho => NoEcho') /\ (NoCode(unread) => NoCode(unread)')
    BY <2>1 DEF NoEcho, NoCode
  <2> QED BY <2>1, <2>2, <2>3, <2>4, CalmStep
<1> QED BY <1>2, <1>3, <1>4

LEMMA EatStep == SessionInv /\ EatFollowingOutput => SessionInv'
<1> SUFFICES ASSUME SessionInv, EatFollowingOutput PROVE SessionInv'
  OBVIOUS
<1>1. /\ BashTyped /\ Unseen /\ phase = "eat" /\ phase' = "idle"
      /\ call' = [call EXCEPT !.check = "interrupted"]
      /\ UNCHANGED <<tty, job, status, obs, sent, interrupts, lost>>
  BY DEF SessionInv, EatFollowingOutput, Waits
<1>2. unread' \in Seq(Tokens) /\ (NoCode(unread) => NoCode(unread)')
  <2>1. CASE UNCHANGED unread
    BY <1>1, <2>1 DEF BashTyped, NoCode
  <2>2. ASSUME NEW i \in DOMAIN unread,
               unread' = [unread EXCEPT ![i] = WithoutFirstCharacter(unread[i])]
        PROVE  unread' \in Seq(Tokens) /\ (NoCode(unread) => NoCode(unread)')
    <3>1. unread \in Seq(Tokens) /\ i \in 1 .. Len(unread) /\ unread[i] \in Tokens
      BY <1>1, StreamFields DEF BashTyped
    <3>2. WithoutFirstCharacter(unread[i]) \in Tokens
      <4>1. unread[i].c \in Nat
        BY <3>1 DEF Tokens
      <4>2. Token("badcode", unread[i].c) \in Tokens /\ Token("junk", unread[i].c) \in Tokens
        BY <4>1, TokenTyped DEF TokenKinds
      <4> QED BY <3>1, <4>2 DEF WithoutFirstCharacter
    <3>3. unread[i].kind \notin {"code", "badcode"} =>
            WithoutFirstCharacter(unread[i]).kind \notin {"code", "badcode"}
      BY KindsApart DEF WithoutFirstCharacter
    <3>4. unread' \in Seq(Tokens)
      BY <2>2, <3>1, <3>2, ExceptSeq
    <3>5. \A k \in DOMAIN unread' :
            unread'[k] = IF k = i THEN WithoutFirstCharacter(unread[i]) ELSE unread[k]
      BY <2>2, <3>1
    <3>6. DOMAIN unread' = DOMAIN unread
      BY <2>2
    <3> QED BY <3>3, <3>4, <3>5, <3>6 DEF NoCode
  <2> QED BY <2>1, <2>2 DEF EatFollowingOutput
<1>3. BashTyped' /\ Unseen' /\ obs'.code = 0
  <2>1. "interrupted" \in Errors
    BY Zenon DEF Errors
  <2>2. call' \in BashCalls /\ call'.check # "timeout"
    BY <1>1, <2>1, CallChanged DEF BashTyped, BashCalls
  <2>3. obs'.code = 0
    BY <1>1 DEF Unseen
  <2> QED BY <1>1, <1>2, <2>2, <2>3 DEF BashTyped, Phases, Unseen
<1>4. NoEcho => NoEcho'
  BY <1>1 DEF NoEcho
<1> QED BY <1>1, <1>2, <1>3, <1>4, CalmStep

\* A call of run that is refused, or gives up its command.
LEMMA GiveUpStep == SessionInv /\ (SyntaxError \/ CommandTimesOut) => SessionInv'
<1> SUFFICES ASSUME SessionInv, SyntaxError \/ CommandTimesOut PROVE SessionInv'
  OBVIOUS
<1>1. BashTyped /\ Unseen
  BY DEF SessionInv
<1>2. CASE SyntaxError
  <2>1. /\ phase = "idle" /\ phase' = "idle" /\ obs' = NoObs /\ sent' = sent + 1
        /\ call' = [call EXCEPT !.c = sent + 1, !.check = "syntax"]
        /\ UNCHANGED <<tty, job, status, unread, interrupts, lost>>
    BY <1>2 DEF SyntaxError, Waits, shellVars
  <2>2. call' \in BashCalls /\ obs' \in Observations /\ obs'.code = 0
        /\ sent' \in Nat
    <3>1. sent' \in Nat /\ sent' = sent + 1 /\ "syntax" \in Errors
      BY <1>1, <2>1 DEF BashTyped, Errors
    <3>2. call' \in BashCalls
      BY <1>1, <2>1, <3>1, CallChanged
    <3>3. obs' \in Observations /\ obs'.code = 0
      BY <2>1 DEF Observations, NoObs
    <3> QED BY <3>1, <3>2, <3>3
  <2>3. BashTyped' /\ Unseen'
    BY <1>1, <2>1, <2>2 DEF BashTyped, Phases, Unseen
  <2>4. (NoEcho => NoEcho') /\ (NoCode(unread) => NoCode(unread)')
    BY <2>1 DEF NoEcho, NoCode
  <2> QED BY <2>1, <2>2, <2>3, <2>4, CalmStep
<1>3. CASE CommandTimesOut
  <2>1. /\ phase = "output" /\ UNCHANGED unread /\ Raises("timeout")
        /\ UNCHANGED <<tty, job, status, sent, interrupts, lost>>
    BY <1>3 DEF CommandTimesOut, NoMatch, Waits
  <2>2. /\ phase' = "idle" /\ obs'.code = 0 /\ call' \in BashCalls
        /\ obs' \in Observations
    <3>1. "timeout" \in Errors
      BY Zenon DEF Errors
    <3> QED BY <1>1, <2>1, <3>1, RaiseTyped
  <2>3. BashTyped' /\ Unseen'
    BY <1>1, <2>1, <2>2 DEF BashTyped, Phases, Unseen
  <2>4. (NoEcho => NoEcho') /\ (NoCode(unread) => NoCode(unread)')
    BY <2>1 DEF NoEcho, NoCode
  <2> QED BY <2>1, <2>2, <2>3, <2>4, CalmStep
<1> QED BY <1>2, <1>3

-----------------------------------------------------------------------------
(* A command, and its exit code *)

LEMMA CommandLinesTyped ==
  ASSUME NEW c \in Nat, NEW fallback \in BOOLEAN
  PROVE  LET s == CommandLines(c, fallback)
         IN  /\ s \in Seq(Lines) /\ Len(s) \in 1 .. 2 /\ s[1] = Line("cmd", c)
             /\ \A i \in 1 .. Len(s) : i # 1 => s[i].kind = "term"
<1>1. Line("cmd", c) \in Lines /\ Line("term", c) \in Lines /\ Line("term", c).kind = "term"
  BY LineTyped, KindsApart DEF LineKinds
<1> HIDE DEF Lines
<1>2. CASE fallback
  <2>1. CommandLines(c, fallback) = <<Line("cmd", c), Line("term", c)>>
    BY <1>2 DEF CommandLines
  <2> QED BY <1>1, <2>1
<1>3. CASE ~fallback
  <2>1. CommandLines(c, fallback) = <<Line("cmd", c)>>
    BY <1>3 DEF CommandLines
  <2> QED BY <1>1, <2>1
<1> QED BY <1>2, <1>3

LEMMA RunStep ==
  ASSUME SessionInv, NEW check \in Checks, NEW asked \in {"none", "ignore", "warn"},
         NEW fallback \in BOOLEAN, check # "timeout", Run(check, asked, fallback)
  PROVE  SessionInv'
<1> DEFINE more == CommandLines(sent + 1, fallback)
<1>1. /\ BashTyped /\ phase = "idle" /\ sent' = sent + 1 /\ phase' = "output" /\ obs' = NoObs
      /\ call' = [c |-> sent + 1, check |-> check, asked |-> asked, fallback |-> fallback,
                  tries |-> 0, outs |-> {}, code |-> 0]
      /\ tty' = tty \o more /\ UNCHANGED <<job, status, unread, interrupts, lost>>
  BY DEF SessionInv, Run, Waits
<1>2. sent + 1 \in Nat
  BY <1>1 DEF BashTyped
<1>3. /\ more \in Seq(Lines) /\ Len(more) \in 1 .. 2 /\ more[1] = Line("cmd", sent + 1)
      /\ \A i \in 1 .. Len(more) : i # 1 => more[i].kind = "term"
  BY <1>2, CommandLinesTyped
<1> HIDE DEF more
<1>4. /\ tty' \in Seq(Lines) /\ DOMAIN tty' = 1 .. Len(tty) + Len(more)
      /\ \A i \in 1 .. Len(tty) : tty'[i] = tty[i]
      /\ \A i \in 1 .. Len(more) : tty'[Len(tty) + i] = more[i]
  BY <1>1, <1>3, LinesAdded
<1>5. call' \in BashCalls /\ call'.c = sent + 1 /\ call'.check = check /\ call'.outs = {}
  BY <1>1, <1>2 DEF BashCalls
<1>6. obs' \in Observations /\ obs'.code = 0
  BY <1>1 DEF Observations, NoObs
<1>7. BashTyped' /\ Unseen'
  BY <1>1, <1>2, <1>4, <1>5, <1>6 DEF BashTyped, Phases, Unseen
<1>8. \A i \in DOMAIN tty' : Len(tty) < i =>
        /\ i - Len(tty) \in 1 .. Len(more) /\ tty'[i] = more[i - Len(tty)]
  <2> TAKE i \in DOMAIN tty'
  <2>1. Len(tty) \in Nat /\ Len(more) \in Nat
    BY <1>1, <1>3, StreamFields
  <2>2. Len(tty) < i => i - Len(tty) \in 1 .. Len(more) /\ Len(tty) + (i - Len(tty)) = i
    BY <1>4, <2>1
  <2> QED BY <1>4, <2>2
<1>9. ASSUME ~lost PROVE InStep'
  <2>1. NoEcho /\ NoCode(unread)
    BY <1>1, <1>9 DEF SessionInv, InStep
  <2>2. NoEcho'
    <3>1. ASSUME NEW i \in DOMAIN tty' PROVE tty'[i].kind # "echo"
      <4>1. CASE i <= Len(tty)
        BY <1>1, <1>4, <2>1, <4>1, StreamFields DEF NoEcho
      <4>2. CASE Len(tty) < i
        BY <1>3, <1>8, <4>2, KindsApart
      <4> QED BY <1>1, <1>4, <4>1, <4>2, StreamFields
    <3> QED BY <1>1, <2>1, <3>1 DEF NoEcho
  <2>3. Underway'
    <3>1. Len(tty) + 1 \in DOMAIN tty' /\ tty'[Len(tty) + 1] = more[1]
      BY <1>1, <1>3, <1>4, StreamFields
    <3>2. tty'[Len(tty) + 1] = Own'
      BY <1>3, <1>5, <3>1 DEF Own
    <3>3. ASSUME NEW i \in DOMAIN tty', Len(tty) + 1 < i PROVE tty'[i].kind \in Quiet
      BY <1>1, <1>3, <1>4, <1>8, <3>3, StreamFields DEF Quiet
    <3> QED BY <3>1, <3>2, <3>3 DEF Underway, Behind
  <2> QED BY <1>1, <1>5, <2>1, <2>2, <2>3 DEF InStep, NoCode
<1> QED BY <1>1, <1>7, <1>9 DEF SessionInv

LEMMA AskCodeTyped ==
  ASSUME NEW c \in Nat
  PROVE  /\ AskCode(c) \in Seq(Lines) /\ Len(AskCode(c)) = 2
         /\ AskCode(c)[1].kind = "blank" /\ AskCode(c)[2].kind = "echo"
<1>1. Line("blank", c) \in Lines /\ Line("echo", c) \in Lines
  BY LineTyped DEF LineKinds
<1>2. AskCode(c) = <<Line("blank", c), Line("echo", c)>>
  BY DEF AskCode
<1>3. /\ AskCode(c) \in Seq(Lines) /\ Len(AskCode(c)) = 2
      /\ AskCode(c)[1] = Line("blank", c) /\ AskCode(c)[2] = Line("echo", c)
  BY <1>1, <1>2
<1> QED BY <1>3, KindsApart

\* The output of a command ends, and its exit code is asked for.
LEMMA OutputStep == SessionInv /\ OutputEnds => SessionInv'
<1> SUFFICES ASSUME SessionInv, OutputEnds PROVE SessionInv'
  OBVIOUS
<1> DEFINE kinds == IF call.fallback THEN {"uniq"} ELSE {"ps1"}
           n == Printed(kinds)
           outs == OutputsIn(Before(n))
<1>1. /\ BashTyped /\ Unseen /\ phase = "output" /\ Matches(Printed(kinds))
      /\ UNCHANGED <<job, status, sent, interrupts, lost>>
      /\ \/ call.check = "ignore" /\ Returns(0, outs) /\ UNCHANGED tty
         \/ /\ tty' = tty \o AskCode(call.c) /\ phase' = "code"
            /\ call' = [call EXCEPT !.outs = outs] /\ UNCHANGED obs
  BY DEF SessionInv, OutputEnds, Waits, EndOfOutput
<1>2. /\ n \in DOMAIN unread /\ unread[n].kind \in {"uniq", "ps1"} /\ unread' \in Seq(Tokens)
      /\ DOMAIN unread' = 1 .. Len(unread) - n
      /\ \A i \in DOMAIN unread' : unread'[i] = unread[n + i]
      /\ NoCode(unread) => NoCode(unread)'
  <2> HIDE DEF kinds
  <2>1. Printed(kinds) \in DOMAIN unread /\ unread[Printed(kinds)].kind \in kinds
    BY <1>1, MatchFound
  <2>2. /\ unread' \in Seq(Tokens) /\ DOMAIN unread' = 1 .. Len(unread) - n
        /\ \A i \in DOMAIN unread' : unread'[i] = unread[n + i]
        /\ NoCode(unread) => NoCode(unread)'
    BY <1>1, MatchFound
  <2> QED BY <2>1, <2>2 DEF kinds
<1> HIDE DEF n, kinds
<1>3. n \in 1 .. Len(unread) /\ Len(unread) \in Nat /\ DOMAIN unread = 1 .. Len(unread)
  BY <1>1, <1>2, StreamFields
<1>4. /\ outs \in SUBSET Nat
      /\ \A i \in 1 .. n - 1 : unread[i].kind = "out" => unread[i].c \in outs
  BY <1>1, <1>3, OutputsBefore
<1> HIDE DEF outs
<1>5. call.c \in Nat /\ obs.code = 0
  BY <1>1, CallFields DEF Unseen
<1>6. CASE Returns(0, outs) /\ UNCHANGED tty
  <2>1. /\ phase' = "idle" /\ obs' \in Observations /\ obs'.code = 0 /\ call' \in BashCalls
    BY <1>1, <1>4, <1>6, ReturnTyped
  <2>2. BashTyped' /\ Unseen'
    BY <1>1, <1>2, <1>6, <2>1 DEF BashTyped, Phases, Unseen
  <2>3. NoEcho => NoEcho'
    BY <1>1, <1>6 DEF NoEcho
  <2> QED BY <1>1, <1>2, <2>1, <2>2, <2>3, CalmStep
<1>7. CASE /\ tty' = tty \o AskCode(call.c) /\ phase' = "code"
           /\ call' = [call EXCEPT !.outs = outs] /\ UNCHANGED obs
  <2>1. /\ tty' \in Seq(Lines) /\ Len(tty') = Len(tty) + 2 /\ DOMAIN tty' = 1 .. Len(tty) + 2
        /\ \A i \in 1 .. Len(tty) : tty'[i] = tty[i]
        /\ tty'[Len(tty) + 1].kind = "blank" /\ tty'[Len(tty) + 2].kind = "echo"
    <3>1. 1 \in 1 .. 2 /\ 2 \in 1 .. 2
      OBVIOUS
    <3>2. /\ AskCode(call.c) \in Seq(Lines) /\ Len(AskCode(call.c)) = 2
          /\ AskCode(call.c)[1].kind = "blank" /\ AskCode(call.c)[2].kind = "echo"
      BY <1>5, AskCodeTyped
    <3> QED BY <1>1, <1>7, <3>1, <3>2, LinesAdded
  <2>2. call' \in BashCalls /\ call'.c = call.c /\ call'.outs = outs /\ call'.check = call.check
    BY <1>1, <1>4, <1>7, CallChanged DEF BashTyped, BashCalls
  <2>3. BashTyped' /\ Unseen'
    BY <1>1, <1>2, <1>5, <1>7, <2>1, <2>2 DEF BashTyped, Phases, Unseen
  <2>4. ASSUME ~lost PROVE InStep'
    <3>1. NoEcho /\ NoCode(unread) /\ Underway /\ call.outs = {}
      BY <1>1, <2>4 DEF SessionInv, InStep
    <3>2. Len(tty) \in Nat /\ DOMAIN tty = 1 .. Len(tty)
      BY <1>1, StreamFields
    <3>3. Asked'
      <4>1. tty' # <<>>
        BY <2>1, <3>2, EmptySeq
      <4>2. \A i \in DOMAIN tty' : tty'[i].kind = "echo" => i = Len(tty')
        BY <2>1, <3>1, <3>2 DEF NoEcho
      <4>3. tty'[Len(tty')].kind = "echo" /\ job'.kind # "echo"
        BY <1>1, <2>1, <3>1 DEF NoEcho
      <4> QED BY <4>1, <4>2, <4>3 DEF Asked
    <3>4. ASSUME NEW k \in 0 .. Len(tty), Behind(k) PROVE Behind(k)'
      BY <2>1, <3>2, <3>4 DEF Behind, Quiet
    <3>5. Underway'
      <4>1. CASE \E k \in DOMAIN tty : tty[k] = Own /\ Behind(k)
        <5>1. PICK k \in DOMAIN tty : tty[k] = Own /\ Behind(k)
          BY <4>1
        <5>2. k \in DOMAIN tty' /\ tty'[k] = Own' /\ Behind(k)'
          BY <2>1, <2>2, <3>2, <3>4, <5>1 DEF Own
        <5> QED BY <5>2 DEF Underway
      <4>2. CASE job = Own /\ Behind(0)
        <5>1. job' = Own' /\ Behind(0)'
          BY <1>1, <2>2, <3>2, <3>4, <4>2 DEF Own
        <5> QED BY <5>1 DEF Underway
      <4>3. CASE /\ job.kind \in Quiet \cup {"none"} /\ Behind(0)
                 /\ status = call.c /\ Printing(unread)
        <5>1. PICK i \in DOMAIN unread : unread[i] = Token("out", call.c)
          BY <3>1, <4>3 DEF Printing
        <5>2. unread[i].kind = "out" /\ unread[i].c = call.c
          BY <5>1, KindsApart
        <5>3. ASSUME i < n PROVE Printing(unread)'
          BY <1>3, <1>4, <2>2, <5>2, <5>3 DEF Printing
        <5>4. ASSUME i > n PROVE Printing(unread)'
          <6>1. i - n \in DOMAIN unread' /\ n + (i - n) = i
            BY <1>2, <1>3, <5>4
          <6>2. unread'[i - n] = Token("out", call'.c)
            BY <1>2, <2>2, <5>1, <6>1
          <6> QED BY <6>1, <6>2 DEF Printing
        <5>5. Printing(unread)'
          BY <1>2, <1>3, <5>2, <5>3, <5>4
        <5>6. Behind(0)'
          BY <3>2, <3>4, <4>3
        <5> QED BY <1>1, <2>2, <4>3, <5>5, <5>6 DEF Underway
      <4> QED BY <3>1, <4>1, <4>2, <4>3 DEF Underway
    <3> QED BY <1>2, <1>7, <3>1, <3>3, <3>5 DEF InStep
  <2> QED BY <1>1, <2>3, <2>4 DEF SessionInv
<1> QED BY <1>1, <1>6, <1>7

\* No exit code came: the call ends without one, or raises.
LEMMA NoExitCodeTyped ==
  ASSUME BashTyped, Unseen, NoExitCode
  PROVE  /\ phase' = "idle" /\ obs' \in Observations /\ obs'.code = 0 /\ call' \in BashCalls
         /\ Unseen'
<1>1. call.outs \in SUBSET Nat
  BY CallFields
<1>2. CASE Returns(0, call.outs)
  BY <1>1, <1>2, ReturnTyped DEF Unseen
<1>3. CASE Raises("no code")
  <2>1. "no code" \in Errors
    BY Zenon DEF Errors
  <2>2. /\ phase' = "idle" /\ obs' = NoObs /\ NoObs.code = 0
          /\ obs' \in Observations /\ call' \in BashCalls
    BY <1>3, <2>1, RaiseTyped
  <2> QED BY <2>2 DEF Unseen
<1> QED BY <1>2, <1>3 DEF NoExitCode

\* The marker of the exit code is found: what is left is the prompt behind it.
LEMMA CodeStep == SessionInv /\ CodeArrives => SessionInv'
<1> SUFFICES ASSUME SessionInv, CodeArrives PROVE SessionInv'
  OBVIOUS
<1> DEFINE n == CodeMarker
           outs == call.outs \cup OutputsIn(Before(n))
<1>1. /\ BashTyped /\ Unseen /\ phase = "code" /\ Matches(Printed({"code", "badcode"}))
      /\ n = Printed({"code", "badcode"})
      /\ UNCHANGED <<tty, job, status, sent, interrupts, lost>>
      /\ \/ unread[n].kind = "badcode" /\ NoExitCode
         \/ /\ unread[n].kind # "badcode" /\ phase' = "last" /\ UNCHANGED obs
            /\ call' = [call EXCEPT !.outs = outs, !.code = unread[n].c]
  BY DEF SessionInv, CodeArrives, Waits, CodeMarker
<1>2. /\ n \in DOMAIN unread /\ unread[n].kind \in {"code", "badcode"} /\ unread' \in Seq(Tokens)
      /\ Len(unread') = Len(unread) - n
      /\ \A i \in DOMAIN unread' : unread'[i] = unread[n + i]
  BY <1>1, MatchFound
<1> HIDE DEF n
<1>3. n \in 1 .. Len(unread) /\ Len(unread) \in Nat /\ DOMAIN unread = 1 .. Len(unread)
      /\ unread[n].c \in Nat
  BY <1>1, <1>2, StreamFields DEF Tokens
<1>4. /\ outs \in SUBSET Nat /\ call.outs \subseteq outs
      /\ \A i \in 1 .. n - 1 : unread[i].kind = "out" => unread[i].c \in outs
  BY <1>1, <1>3, OutputsBefore, CallFields
<1> HIDE DEF outs
<1>5. Arrived \/ lost
  BY <1>1, <1>2 DEF SessionInv, InStep, NoCode
<1>6. ASSUME ~lost
      PROVE  n + 1 = Len(unread) /\ unread[n] = Token("code", call.c) /\ unread[n + 1] = Prompt
  BY <1>2, <1>5, <1>6 DEF Arrived
<1>7. CASE unread[n].kind = "badcode" /\ NoExitCode
  <2>1. phase' = "idle" /\ obs' \in Observations /\ obs'.code = 0 /\ call' \in BashCalls /\ Unseen'
    BY <1>1, <1>7, NoExitCodeTyped
  <2>2. BashTyped'
    BY <1>1, <1>2, <2>1 DEF BashTyped, Phases
  <2>3. lost
    BY <1>6, <1>7, KindsApart
  <2> QED BY <1>1, <2>1, <2>2, <2>3 DEF SessionInv
<1>8. CASE /\ unread[n].kind # "badcode" /\ phase' = "last" /\ UNCHANGED obs
           /\ call' = [call EXCEPT !.outs = outs, !.code = unread[n].c]
  <2>1. /\ call' \in BashCalls /\ call'.c = call.c /\ call'.check = call.check
        /\ call'.outs = outs /\ call'.code = unread[n].c
    BY <1>1, <1>3, <1>4, <1>8, CallChanged DEF BashTyped, BashCalls
  <2>2. BashTyped' /\ Unseen'
    BY <1>1, <1>2, <1>8, <2>1 DEF BashTyped, Phases, Unseen
  <2>3. ASSUME ~lost PROVE InStep'
    <3>1. /\ tty' = <<>> /\ job' = NoLine /\ Printing(unread)
      BY <1>1, <1>5, <2>3 DEF Arrived
    <3>2. Len(unread') = 1 /\ unread'[1] = Prompt
      BY <1>2, <1>3, <1>6, <2>3, LenProperties
    <3>3. call'.code = call'.c
      BY <1>6, <2>1, <2>3, KindsApart
    <3>4. call'.c \in call'.outs
      <4>1. CASE call.c \in call.outs
        BY <1>4, <2>1, <4>1
      <4>2. CASE \E i \in DOMAIN unread : unread[i] = Token("out", call.c)
        <5>1. PICK i \in DOMAIN unread : unread[i] = Token("out", call.c)
          BY <4>2
        <5>2. unread[i].kind = "out" /\ unread[i].c = call.c
          BY <5>1, KindsApart
        <5>3. i # n /\ i # n + 1
          BY <1>6, <2>3, <5>2, KindsApart
        <5>4. i \in 1 .. n - 1
          BY <1>3, <1>6, <2>3, <5>1, <5>3
        <5> QED BY <1>4, <2>1, <5>2, <5>4
      <4> QED BY <3>1, <4>1, <4>2 DEF Printing
    <3> QED BY <1>8, <3>1, <3>2, <3>3, <3>4 DEF InStep
  <2> QED BY <1>1, <2>2, <2>3 DEF SessionInv
<1> QED BY <1>1, <1>7, <1>8

\* An exit code that does not come in time is lost.
LEMMA CodeLostStep == SessionInv /\ CodeTimesOut => SessionInv'
<1> SUFFICES ASSUME SessionInv, CodeTimesOut PROVE SessionInv'
  OBVIOUS
<1>1. /\ BashTyped /\ Unseen /\ NoExitCode /\ lost' = TRUE /\ UNCHANGED unread
      /\ UNCHANGED <<tty, job, status, sent, interrupts>>
  BY DEF SessionInv, CodeTimesOut, NoMatch
<1>2. phase' = "idle" /\ obs' \in Observations /\ call' \in BashCalls /\ Unseen'
  BY <1>1, NoExitCodeTyped
<1>3. BashTyped'
  BY <1>1, <1>2 DEF BashTyped, Phases
<1> QED BY <1>1, <1>2, <1>3 DEF SessionInv

\* The last prompt is read, and nothing else is left.
LEMMA LastStep == SessionInv /\ (LastPromptArrives \/ LastPromptTimesOut) => SessionInv'
<1> SUFFICES ASSUME SessionInv, LastPromptArrives \/ LastPromptTimesOut PROVE SessionInv'
  OBVIOUS
<1>1. /\ BashTyped /\ Unseen /\ phase = "last" /\ UNCHANGED <<tty, job, status, sent, interrupts, lost>>
      /\ call.code \in Nat /\ call.outs \in SUBSET Nat
  BY CallFields DEF SessionInv, LastPromptArrives, LastPromptTimesOut, Waits
<1>2. ASSUME ~lost
      PROVE  /\ tty = <<>> /\ job = NoLine /\ Len(unread) = 1 /\ unread[1] = Prompt
             /\ call.code = call.c /\ call.c \in call.outs
  BY <1>1, <1>2 DEF SessionInv, InStep
<1>3. ~lost => NoEcho
  BY <1>2, KindsApart, EmptySeq DEF NoEcho
<1>4. CASE Matches(Printed({"ps1"}))
  <2>1. /\ unread' \in Seq(Tokens) /\ Printed({"ps1"}) \in DOMAIN unread
        /\ Len(unread') = Len(unread) - Printed({"ps1"})
    BY <1>1, <1>4, MatchFound
  <2>2. ASSUME ~lost PROVE unread' = <<>>
    <3>1. Printed({"ps1"}) = 1
      BY <1>1, <1>2, <2>1, <2>2, StreamFields
    <3> HIDE DEF Printed
    <3>2. Len(unread') = 0
      BY <1>2, <2>1, <2>2, <3>1
    <3> QED BY <2>1, <3>2, EmptySeq
  <2>3. ~lost => NoEcho' /\ NoCode(unread)'
    BY <1>1, <1>3, <2>2, EmptySeq DEF NoEcho, NoCode
  <2>4. CASE Returns(call.code, call.outs)
    <3>1. /\ phase' = "idle" /\ obs' \in Observations /\ call' \in BashCalls /\ call'.check = call.check
          /\ obs'.c = call.c /\ obs'.code = call.code /\ obs'.outs = call.outs
      BY <1>1, <2>4, ReturnTyped
    <3>2. BashTyped'
      BY <1>1, <2>1, <3>1 DEF BashTyped, Phases
    <3>3. Unseen'
      BY <1>1, <3>1 DEF Unseen
    <3> QED BY <1>1, <1>2, <2>2, <2>3, <3>1, <3>2, <3>3 DEF SessionInv, InStep
  <2>5. CASE \E error \in Errors : error # "timeout" /\ Raises(error)
    <3>1. PICK error \in Errors : error # "timeout" /\ Raises(error)
      BY <2>5
    <3>2. /\ phase' = "idle" /\ obs' = NoObs /\ NoObs.code = 0
          /\ obs' \in Observations /\ call' \in BashCalls
      BY <1>1, <3>1, RaiseTyped
    <3>3. BashTyped' /\ Unseen'
      BY <1>1, <2>1, <3>2 DEF BashTyped, Phases, Unseen
    <3> QED BY <1>1, <2>3, <3>2, <3>3 DEF SessionInv, InStep
  <2>6. Returns(call.code, call.outs) \/ (\E error \in Errors : error # "timeout" /\ Raises(error))
    <3>1. /\ "non-zero" \in Errors /\ "no code" \in Errors
          /\ "non-zero" # "timeout" /\ "no code" # "timeout"
      BY Zenon DEF Errors
    <3>2. CASE LastPromptArrives
      BY <3>1, <3>2, Zenon DEF LastPromptArrives, LastPrompt
    <3>3. CASE LastPromptTimesOut
      BY <1>4, <3>3 DEF LastPromptTimesOut, NoMatch, Matches
    <3> QED BY <3>2, <3>3
  <2> QED BY <2>4, <2>5, <2>6
<1>5. CASE LastPromptTimesOut
  <2>1. UNCHANGED unread /\ NoExitCode /\ Printed({"ps1"}) = 0
    BY <1>5 DEF LastPromptTimesOut, NoMatch
  <2>2. phase' = "idle" /\ obs' \in Observations /\ obs'.code = 0 /\ call' \in BashCalls /\ Unseen'
    BY <1>1, <2>1, NoExitCodeTyped
  <2>3. BashTyped'
    BY <1>1, <2>1, <2>2 DEF BashTyped, Phases
  \* The prompt is there.
  <2>4. lost
    <3>1. \A i \in DOMAIN unread : unread[i].kind \notin {"ps1"}
      BY <1>1, <2>1, FirstPrinted DEF BashTyped
    <3> QED BY <1>1, <1>2, <3>1, StreamFields, KindsApart
  <2> QED BY <1>1, <2>2, <2>3, <2>4 DEF SessionInv
<1> QED BY <1>4, <1>5 DEF LastPromptArrives, LastPrompt

-----------------------------------------------------------------------------
(* Theorems *)

\* SessionInv is inductive: between the calls that read an exit code, no line in the
\* terminal asks for one and none is printed; inside of them the command of the call is
\* ahead of the one echo that asks, and its answer and a prompt are the last tokens.
THEOREM SessionIsInvariant == SessionSpec => []SessionInv
<1>1. SessionInit => SessionInv
  <2> SUFFICES ASSUME SessionInit PROVE SessionInv
    OBVIOUS
  <2>1. Line("blank", 0) \in Lines /\ Prompt \in Tokens
    BY LineTyped, TokenTyped DEF LineKinds, TokenKinds, Prompt
  <2>2. tty = <<Line("blank", 0)>> /\ unread \in {<<>>, <<Prompt>>}
    BY DEF SessionInit
  <2>3. tty \in Seq(Lines) /\ unread \in Seq(Tokens)
    <3>1. <<Line("blank", 0)>> \in Seq(Lines) /\ <<Prompt>> \in Seq(Tokens) /\ <<>> \in Seq(Tokens)
      BY <2>1
    <3> QED BY <2>2, <3>1, Zenon
  <2>4. call \in BashCalls /\ call.check = "none" /\ obs \in Observations /\ obs.code = 0
    BY DEF SessionInit, BashCalls, Checks, Observations, NoObs
  <2>5. phase = "start" /\ job = NoLine /\ status = 0 /\ sent = 0 /\ interrupts = 0 /\ lost = FALSE
    BY DEF SessionInit
  <2>6. BashTyped /\ Unseen
    BY <2>3, <2>4, <2>5 DEF BashTyped, Unseen, Phases
  <2>7. NoEcho /\ NoCode(unread)
    <3>1. \A i \in DOMAIN tty : tty[i].kind = "blank"
      BY <2>2, KindsApart
    <3>2. \A i \in DOMAIN unread : unread[i].kind = "ps1"
      BY <2>2, KindsApart, EmptySeq
    <3> QED BY <2>5, <3>1, <3>2, KindsApart DEF NoEcho, NoCode
  <2> QED BY <2>5, <2>6, <2>7 DEF SessionInv, InStep
<1>2. SessionInv /\ [SessionNext]_sessionVars => SessionInv'
  <2> SUFFICES ASSUME SessionInv, [SessionNext]_sessionVars PROVE SessionInv'
    OBVIOUS
  <2>1. CASE UNCHANGED sessionVars
    BY <2>1 DEF sessionVars, shellVars, clientVars, SessionInv, BashTyped, Unseen, InStep, NoEcho,
                NoCode, Underway, Asked, Arrived, Behind, Own, Printing
  <2>2. CASE \E fallback \in BOOLEAN, check \in {"ignore", "warn"} : Communicate(check, fallback)
    <3>1. PICK fallback \in BOOLEAN, check \in {"ignore", "warn"} :
            Run(RexCheck(check), check, fallback)
      BY <2>2 DEF Communicate
    <3>2. /\ RexCheck(check) \in Checks /\ RexCheck(check) # "timeout"
          /\ check \in {"none", "ignore", "warn"}
      BY <3>1 DEF RexCheck, Checks
    <3> QED BY <3>1, <3>2, RunStep
  <2>3. CASE \E fallback \in BOOLEAN, check \in {"raise", "ignore"} : Run(check, "none", fallback)
    <3>1. PICK fallback \in BOOLEAN, check \in {"raise", "ignore"} : Run(check, "none", fallback)
      BY <2>3
    <3>2. check \in Checks /\ check # "timeout" /\ "none" \in {"none", "ignore", "warn"}
      BY <3>1 DEF Checks
    <3> QED BY <3>1, <3>2, RunStep
  <2> QED BY <2>1, <2>2, <2>3, ReadsStep, EndsStep, BashStartStep, InterruptStep, BashStopStep, EatStep,
             GiveUpStep, OutputStep, CodeStep, CodeLostStep, LastStep DEF SessionNext, Expects
<1> QED BY <1>1, <1>2, PTL DEF SessionSpec

\* An exit code that a call of run returns is that of its own command, with nothing left
\* to be read or run, however the calls before it ended.
THEOREM ExitCodesResync == SessionSpec => []ExitCodeResyncs
<1>1. SessionInv => ExitCodeResyncs
  BY DEF SessionInv, InStep, ExitCodeResyncs
<1> QED BY <1>1, SessionIsInvariant, PTL

-----------------------------------------------------------------------------
(* Steering: the inductive invariant *)

Drivers == {"robot", "human"}
Moments == {"query", "act", "record", "info", "save", "loop", "returned", "raised"}

SteeringTyped ==
  /\ configured \in Drivers /\ driver \in Drivers /\ moment \in Moments
  /\ done \in BOOLEAN /\ late \in BOOLEAN /\ last \in BOOLEAN

\* The model that drives has its parser; a human who has stepped in has set aside the
\* configured model with its own.
Seated ==
  /\ parser = driver
  /\ IF driver = configured THEN aside = Nobody
     ELSE driver = "human" /\ aside = [model |-> configured, parser |-> configured]

\* Only a step that has returned ends the loop; info and the file have its driver.
Followed ==
  /\ moment \in {"query", "act", "record", "info"} => ~done
  /\ moment \in {"save", "loop"} => info = driver
  /\ moment = "loop" => file = driver

SteeringInv == SteeringTyped /\ Seated /\ Followed /\ HumanHasTheLastWord

-----------------------------------------------------------------------------
(* Steering: steps *)

LEMMA InitSteering == SteeringInit => SteeringInv
BY DEF SteeringInit, SteeringInv, SteeringTyped, Seated, Followed, HumanHasTheLastWord, Drivers,
       Moments

\* The steps of a driver.
LEMMA DrivenStep ==
  SteeringInv /\ (DriverAnswers \/ AsksAgain \/ StepFails \/ TotalLimitRaises \/ Acts
                    \/ RecordsStep \/ StepReturns \/ StepIsSaved) => SteeringInv'
<1> SUFFICES ASSUME SteeringInv, DriverAnswers \/ AsksAgain \/ StepFails \/ TotalLimitRaises \/ Acts
                      \/ RecordsStep \/ StepReturns \/ StepIsSaved
             PROVE  SteeringInv'
  OBVIOUS
<1>1. UNCHANGED <<configured, catchEof, driver, parser, aside, turns, late>>
  BY DEF DriverAnswers, AsksAgain, StepFails, TotalLimitRaises, Acts, RecordsStep, StepReturns,
         StepIsSaved, StepGoes, SteeringStays
<1>2. Seated'
  BY <1>1 DEF SteeringInv, Seated
<1>3. ASSUME UNCHANGED <<done, info, file>>,
             moment \in {"query", "act", "record"}, last' \in BOOLEAN,
             moment' \in {"query", "act", "record", "info", "raised"}
      PROVE  SteeringInv'
  BY <1>1, <1>2, <1>3 DEF SteeringInv, SteeringTyped, Followed,
                                      HumanHasTheLastWord, Moments
<1>4. CASE StepReturns
  BY <1>1, <1>2, <1>4 DEF StepReturns, StepGoes, SteeringInv, SteeringTyped, Followed,
                          HumanHasTheLastWord, Moments
<1>5. CASE StepIsSaved
  BY <1>1, <1>2, <1>5 DEF StepIsSaved, StepGoes, SteeringInv, SteeringTyped, Followed,
                          HumanHasTheLastWord, Moments
<1>6. last \in BOOLEAN
  BY DEF SteeringInv, SteeringTyped
<1>7. CASE DriverAnswers \/ AsksAgain \/ StepFails \/ TotalLimitRaises \/ Acts \/ RecordsStep
  BY <1>3, <1>6, <1>7 DEF DriverAnswers, AsksAgain, StepFails, TotalLimitRaises, Acts, RecordsStep,
                          StepGoes
<1> QED BY <1>4, <1>5, <1>7

LEMMA LoopStep == SteeringInv /\ Loops => SteeringInv'
<1> SUFFICES ASSUME SteeringInv, Loops PROVE SteeringInv'
  OBVIOUS
<1>1. /\ moment = "loop" /\ UNCHANGED <<configured, info, file, late>>
      /\ info = driver /\ file = driver /\ parser = driver /\ driver \in Drivers /\ done \in BOOLEAN
      /\ last \in BOOLEAN
  BY DEF Loops, SteeringInv, SteeringTyped, Seated, Followed
<1>2. done' = (done /\ driver = "human") /\ done' \in BOOLEAN
  BY <1>1 DEF Loops, DoneAfter
<1>3. moment' = (IF done' THEN "returned" ELSE "query") /\ last' \in BOOLEAN
  BY <1>1, <1>2 DEF Loops, DoneAfter, BeginStep
<1>4. driver' \in Drivers /\ Seated'
  <2>1. CASE done /\ driver # "human"
    BY <1>1, <2>1 DEF Loops, StepsIn, SteeringInv, Seated, Drivers, Nobody
  <2>2. CASE ~(done /\ driver # "human")
    BY <1>1, <2>2 DEF Loops, SteeringInv, Seated
  <2> QED BY <2>1, <2>2
<1> QED BY <1>1, <1>2, <1>3, <1>4 DEF SteeringInv, SteeringTyped, Followed,
                                      HumanHasTheLastWord, Moments

\* ^C and ^D.
LEMMA KeysStep == SteeringInv /\ (TakesOver \/ IsInterrupted \/ GivesBack) => SteeringInv'
<1> SUFFICES ASSUME SteeringInv, TakesOver \/ IsInterrupted \/ GivesBack PROVE SteeringInv'
  OBVIOUS
<1>1. CASE TakesOver
  <2>1. Seated'
    BY <1>1 DEF TakesOver, StepsIn, SteeringInv, SteeringTyped, Seated, Nobody, Drivers
  <2>2. SteeringTyped' /\ Followed' /\ HumanHasTheLastWord'
    BY <1>1 DEF TakesOver, StepsIn, BeginStep, SteeringInv, SteeringTyped, Followed,
                HumanHasTheLastWord, Moments, Drivers
  <2> QED BY <2>1, <2>2 DEF SteeringInv
<1>2. CASE IsInterrupted
  BY <1>2 DEF IsInterrupted, StepGoes, SteeringStays, SteeringInv, SteeringTyped, Seated, Followed,
              HumanHasTheLastWord, Moments, Drivers
<1>3. CASE GivesBack
  <2>1. moment = "query" /\ UNCHANGED <<configured, moment, done, info, file, late>> /\ StepsOut
        /\ last' = FALSE
    BY <1>3 DEF GivesBack, BeginStep
  <2>2. driver' \in Drivers /\ Seated'
    BY <2>1 DEF StepsOut, NewParser, SteeringInv, SteeringTyped, Seated, Nobody, Drivers
  <2> QED BY <2>1, <2>2 DEF SteeringInv, SteeringTyped, Followed, HumanHasTheLastWord
<1> QED BY <1>1, <1>2, <1>3

\* Whatever ^C, ^D and failing steps come in whatever order: the model that is asked has
\* its own parser, and the last word is a human's unless ^C came while the robot's last
\* step was being saved.
THEOREM SteeringHolds == SteeringSpec => []SteeringIsSound
<1>1. SteeringInv /\ [SteeringNext]_steeringVars => SteeringInv'
  <2>1. SteeringInv /\ UNCHANGED steeringVars => SteeringInv'
    BY DEF steeringVars, SteeringInv, SteeringTyped, Seated, Followed, HumanHasTheLastWord
  <2> QED BY <2>1, DrivenStep, LoopStep, KeysStep DEF SteeringNext
<1>2. SteeringInv => SteeringIsSound
  BY DEF SteeringInv, SteeringTyped, Seated, SteeringIsSound, DriverHasItsParser, Nobody, Drivers
<1> QED BY InitSteering, <1>1, <1>2, PTL DEF SteeringSpec
=============================================================================
