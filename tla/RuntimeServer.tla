--------------------------- MODULE RuntimeServer ---------------------------
(***************************************************************************)
(* RemoteRuntime (swerex/runtime/remote.py), the server in the container   *)
(* (swerex/server.py) and the table of sessions of its LocalRuntime        *)
(* (swerex/runtime/local.py).  One client makes one call after another and *)
(* may give a call up while the server, which blocks in one request at a   *)
(* time, has not seen it, executes it or has not answered yet.             *)
(*                                                                         *)
(* A call is a number, its request id; the requests sent for it are its    *)
(* tries.  Uploads carry no id.                                            *)
(***************************************************************************)
EXTENDS Integers, FiniteSets

CONSTANTS
  Sessions,    \* names of sessions
  NumRetries,  \* num_retries of RemoteRuntime._request
  MaxRequests  \* bound: calls of the client

ASSUME RuntimeServerAssumption == NumRetries \in Nat /\ MaxRequests \in Nat \ {0}

VARIABLES
  request,    \* the client's call: its number, operation and session
  tries,      \* retry_count, and whether the client waits
  result,     \* what the last call returned
  tasks,      \* requests the server has or will get
  stored,     \* last_processed_request_id and _response
  table,      \* LocalRuntime._sessions: the state of each session's shell
  executed    \* ghost: how often each call was executed

rpcVars == <<request, tries, result, tasks, stored, table, executed>>

Operations == {"create_session", "run_in_session", "close_session", "execute", "files",
               "upload", "close"}
SessionOperations == {"create_session", "run_in_session", "close_session"}
NoAnswer == [id |-> 0, ok |-> FALSE]

RpcInit ==
  /\ request = [id |-> 0, op |-> "none", session |-> CHOOSE s \in Sessions : TRUE]
  /\ tries = [count |-> 0, waits |-> FALSE] /\ result = NoAnswer
  /\ tasks = {} /\ stored = NoAnswer
  /\ table = [s \in Sessions |-> "absent"] /\ executed = [i \in 1 .. MaxRequests |-> 0]

-----------------------------------------------------------------------------
(* RemoteRuntime *)

Request(op, s) ==
  /\ ~tries.waits /\ request.id < MaxRequests
  /\ request' = [id |-> request.id + 1, op |-> op, session |-> s]
  /\ tries' = [count |-> 0, waits |-> TRUE] /\ result' = NoAnswer
  /\ tasks' = tasks \cup {[call |-> request', try |-> 0, at |-> "sent",
                           answer |-> NoAnswer]}
  /\ UNCHANGED <<stored, table, executed>>

\* while retry_count <= num_retries; upload has no loop.
RetriesOfMutant(op) == NumRetries + 1
RetriesOf(op) == IF op = "upload" THEN 0 ELSE NumRetries

\* An exception of the exchange: the same id is sent again, or the call raises.
TryFails(rest) ==
  IF tries.count < RetriesOf(request.op)
  THEN /\ tries' = [tries EXCEPT !.count = @ + 1]
       /\ tasks' = rest \cup {[call |-> request, try |-> tries.count + 1, at |-> "sent",
                               answer |-> NoAnswer]}
       /\ UNCHANGED result
  ELSE tries' = [tries EXCEPT !.waits = FALSE] /\ tasks' = rest /\ result' = NoAnswer

\* The client's timeout, or a broken connection.  What was sent is not withdrawn.
GivesUp ==
  /\ tries.waits
  /\ TryFails(tasks)
  /\ UNCHANGED <<request, stored, table, executed>>

-----------------------------------------------------------------------------
(* LocalRuntime: what an operation does to the sessions *)

\* A session is in the table before its shell is started; a start that times out
\* leaves it there.  close() closes the shells and leaves the table.
Effects(call) ==
  LET s == call.session
      Sets(v) == [table EXCEPT ![s] = v]
      fails == [table |-> table, ok |-> FALSE]
      does == [table |-> table, ok |-> TRUE]
  IN CASE call.op = "create_session" ->
            IF table[s] # "absent" THEN {fails}
            ELSE {[table |-> Sets("open"), ok |-> TRUE], [table |-> Sets("stuck"), ok |-> FALSE]}
       [] call.op = "run_in_session" ->
            IF table[s] \in {"absent", "closed"} THEN {fails} ELSE {does, fails}
       [] call.op = "close_session" ->
            IF table[s] = "absent" THEN {fails} ELSE {[table |-> Sets("absent"), ok |-> TRUE]}
       [] call.op = "close" ->
            {[table |-> [n \in Sessions |-> IF table[n] = "absent" THEN "absent" ELSE "closed"],
              ok |-> TRUE]}
       [] OTHER -> {does, fails}

-----------------------------------------------------------------------------
(* The server's middleware *)

Moves(t, at, answer) == tasks' = (tasks \ {t}) \cup {[t EXCEPT !.at = at, !.answer = answer]}

\* ResponseManager.get_response: only the last processed request is remembered.
RememberedMutant(t) == stored.id # 0
Remembered(t) == t.call.op # "upload" /\ stored.id = t.call.id

LooksUp(t) ==
  /\ t.at = "sent"
  /\ IF Remembered(t) THEN Moves(t, "answered", stored) ELSE Moves(t, "new", NoAnswer)
  /\ UNCHANGED <<request, tries, result, stored, table, executed>>

\* The handler runs to its end: nothing else runs in the server's only thread.
\* An exception passes the middleware by and is not remembered.
Executes(t) ==
  /\ t.at = "new"
  /\ \E e \in Effects(t.call) :
       /\ table' = e.table
       /\ Moves(t, IF e.ok THEN "done" ELSE "answered", [id |-> t.call.id, ok |-> e.ok])
  /\ executed' = [executed EXCEPT ![t.call.id] = @ + 1]
  /\ UNCHANGED <<request, tries, result, stored>>

\* The body is read, and set_response remembers it under the request's id.
Stores(t) ==
  /\ t.at = "done"
  /\ stored' = IF t.call.op = "upload" THEN stored ELSE t.answer
  /\ Moves(t, "answered", t.answer)
  /\ UNCHANGED <<request, tries, result, table, executed>>

\* Only the connection of the try the client waits for is still read.  A
\* response with an error raises in the client and counts as a failed try.
Answers(t) ==
  /\ t.at = "answered"
  /\ IF tries.waits /\ t.call.id = request.id /\ t.try = tries.count
     THEN IF t.answer.ok
          THEN /\ result' = t.answer /\ tries' = [tries EXCEPT !.waits = FALSE]
               /\ tasks' = tasks \ {t}
          ELSE TryFails(tasks \ {t})
     ELSE tasks' = tasks \ {t} /\ UNCHANGED <<tries, result>>
  /\ UNCHANGED <<request, stored, table, executed>>

RpcNext ==
  \/ \E s \in Sessions : \E op \in SessionOperations : Request(op, s)
  \/ \E op \in Operations \ SessionOperations : Request(op, request.session)
  \/ GivesUp
  \/ \E t \in tasks : LooksUp(t) \/ Executes(t) \/ Stores(t) \/ Answers(t)

RpcSpec == RpcInit /\ [][RpcNext]_rpcVars

-----------------------------------------------------------------------------
(* Properties *)

\* Whatever the client gives up and whatever is answered late: no call is executed
\* twice, and a call that returns was executed and returns its own response.
AnswersAreOwn ==
  /\ \A i \in DOMAIN executed : executed[i] <= 1
  /\ result.ok => result.id = request.id /\ executed[request.id] = 1
=============================================================================
