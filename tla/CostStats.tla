------------------------------ MODULE CostStats ------------------------------
(***************************************************************************)
(* LiteLLMModel.query (sweagent/agent/models.py) in the threads of a batch: *)
(* the statistics they share, the lock around them, the delay between      *)
(* queries, the limits, and the retries of failed calls.                   *)
(*                                                                         *)
(* A thread uses one agent's model after the other, one per attempt of an  *)
(* instance, and between the attempts of a RetryAgent a judge's: that of   *)
(* its reviewer or chooser, which swallow every exception of a query.  The *)
(* global statistics are written under GLOBAL_STATS_LOCK and read without  *)
(* it, so += is a read and a write, and each read of the limit and of the  *)
(* timestamp is a step of its own.                                         *)
(*                                                                         *)
(* last_query_timestamp is kept as the time that has passed since, up to   *)
(* Delay: nothing depends on more.                                         *)
(***************************************************************************)
EXTENDS Integers, FiniteSetsExt

CONSTANTS
  Threads,
  Prices,         \* what completion_cost may return
  TotalLimit,     \* total_cost_limit, 0: none
  InstanceLimit,  \* per_instance_cost_limit, 0: none
  CallLimit,      \* per_instance_call_limit, 0: none
  Delay,          \* delay
  Retries,        \* retry.retries
  MaxSamples,     \* bound: n of query()
  MaxModels,      \* bound: agents' models a thread uses one after the other
  MaxAsks         \* bound: queries of a judge between two attempts (n_sample)

ASSUME CostStatsAssumption ==
  /\ IsFiniteSet(Threads)
  /\ Prices \subseteq Nat
  /\ {TotalLimit, InstanceLimit, CallLimit, Delay} \subseteq Nat
  /\ {Retries, MaxSamples, MaxModels, MaxAsks} \subseteq Nat \ {0}

VARIABLES
  pc,        \* pc[t]: where the query of thread t is
  n,         \* n[t]: the samples query() was asked for
  left,      \* left[t]: the samples of this attempt to come
  attempt,   \* attempt[t]: attempt_number of Retrying
  wait,      \* wait[t]: what remains of time.sleep
  price,     \* price[t]: cost of the call just answered
  register,  \* register[t]: total_cost as read by +=
  role,      \* role[t]: whose model t uses
  stats,     \* stats[t]: InstanceStats of the two models of t
  lock,      \* who holds GLOBAL_STATS_LOCK
  total,     \* GLOBAL_STATS.total_cost
  age,       \* time since last_query_timestamp
  models,    \* models[t]: agents' models t has used
  asked,     \* asked[t]: queries of the judge since the last attempt
  earlier,   \* ghost: what the earlier models of t have cost
  late,      \* ghost: calls charged over the total limit by the agent's model, or
             \* by the judge's since it was last asked
  rested     \* ghost: time since t's own last query

queryVars == <<n, left, attempt>>
globalVars == <<lock, total>>
clockVars == <<wait, age, rested>>
modelVars == <<role, models, asked, earlier>>
vars == <<pc, queryVars, price, register, stats, globalVars, clockVars, modelVars, late>>

Roles == {"agent", "judge"}
Fresh == [cost |-> 0, calls |-> 0]
Unused == [r \in Roles |-> Fresh]
Mine(t) == stats[t][role[t]]

\* 0 < limit < value
Exceeds(value, limit) == 0 < limit /\ limit < value
Capped(time) == IF time < Delay THEN time ELSE Delay

Ended == {"over", "stopped"}  \* a query that raised: for the instance, for the batch
Locations ==
  {"idle", "begin", "sleep", "call", "charge", "add", "count", "check"} \cup Ended

TypeOK ==
  /\ pc \in [Threads -> Locations]
  /\ n \in [Threads -> 1 .. MaxSamples]
  /\ left \in [Threads -> 1 .. MaxSamples]
  /\ attempt \in [Threads -> 1 .. Retries]
  /\ wait \in [Threads -> 0 .. Delay]
  /\ price \in [Threads -> Prices \cup {0}]
  /\ register \in [Threads -> Nat]
  /\ role \in [Threads -> Roles]
  /\ stats \in [Threads -> [Roles -> [cost : Nat, calls : Nat]]]
  /\ lock \subseteq Threads
  /\ total \in Nat
  /\ age \in 0 .. Delay
  /\ models \in [Threads -> 1 .. MaxModels]
  /\ asked \in [Threads -> 0 .. MaxAsks]
  /\ earlier \in [Threads -> Nat]
  /\ late \in [Threads -> Nat]
  /\ rested \in [Threads -> 0 .. Delay]

Everywhere(value) == [t \in Threads |-> value]

Init ==
  /\ pc = Everywhere("idle")
  /\ n = Everywhere(1) /\ left = Everywhere(1) /\ attempt = Everywhere(1)
  /\ wait = Everywhere(0) /\ age = Delay /\ rested = Everywhere(Delay)
  /\ price = Everywhere(0) /\ register = Everywhere(0)
  /\ role = Everywhere("agent") /\ stats = Everywhere(Unused)
  /\ lock = {} /\ total = 0
  /\ models = Everywhere(1) /\ asked = Everywhere(0) /\ earlier = Everywhere(0)
  /\ late = Everywhere(0)

-----------------------------------------------------------------------------

Goto(t, where) == pc' = [pc EXCEPT ![t] = where]

\* query() and the first attempt of Retrying.
Begins(t) ==
  /\ Goto(t, "begin")
  /\ \E samples \in 1 .. MaxSamples :
       n' = [n EXCEPT ![t] = samples] /\ left' = [left EXCEPT ![t] = samples]
  /\ attempt' = [attempt EXCEPT ![t] = 1]
  /\ UNCHANGED <<price, register, stats, globalVars, clockVars, role, models, earlier>>

AgentQueries(t) ==
  /\ role[t] = "agent" /\ pc[t] = "idle"
  /\ Begins(t)
  /\ UNCHANGED <<asked, late>>

\* Reviewer.review and the chooser ask again whatever the last query has raised,
\* the total limit included.
JudgeQueries(t) ==
  /\ role[t] = "judge" /\ pc[t] \in {"idle"} \cup Ended /\ asked[t] < MaxAsks
  /\ Begins(t)
  /\ asked' = [asked EXCEPT ![t] = @ + 1]
  /\ late' = [late EXCEPT ![t] = 0]

Query(t) == AgentQueries(t) \/ JudgeQueries(t)

\* A query raises for its instance when Retrying does not retry the exception or
\* is out of attempts; a retried attempt asks for all samples again.
RetryMutant(t) ==
  /\ pc' = [pc EXCEPT ![t] = "begin"]
  /\ left' = [left EXCEPT ![t] = n[t]]
  /\ UNCHANGED attempt
Retry(t) ==
  IF attempt[t] < Retries
  THEN /\ Goto(t, "begin")
       /\ left' = [left EXCEPT ![t] = n[t]]
       /\ attempt' = [attempt EXCEPT ![t] = @ + 1]
  ELSE Goto(t, "over") /\ UNCHANGED <<left, attempt>>

\* _sleep: the time to sleep follows from a timestamp read without the lock.
RemainingDelayMutant == age
RemainingDelay == Delay - age

ReadTimestamp(t) ==
  /\ pc[t] = "begin"
  /\ Goto(t, "sleep")
  /\ wait' = [wait EXCEPT ![t] = RemainingDelay]
  /\ UNCHANGED <<queryVars, price, register, stats, globalVars, age, rested, modelVars, late>>

Stamp(t) ==
  /\ pc[t] = "sleep" /\ wait[t] = 0 /\ lock = {}
  /\ Goto(t, "call")
  /\ age' = 0 /\ rested' = [rested EXCEPT ![t] = 0]
  /\ UNCHANGED <<queryVars, price, register, stats, globalVars, wait, modelVars, late>>

\* The messages are too long, or the exception is not one that is retried; after a
\* violation of the content policy the agent asks again.
CallRaises(t) ==
  /\ pc[t] = "call"
  /\ \E where \in {"over", "idle"} : Goto(t, where)
  /\ UNCHANGED <<queryVars, price, register, stats, globalVars, clockVars, modelVars, late>>

CallFails(t) ==
  /\ pc[t] = "call"
  /\ Retry(t)
  /\ UNCHANGED <<n, price, register, stats, globalVars, clockVars, modelVars, late>>

CallAnswers(t) ==
  /\ pc[t] = "call"
  /\ Goto(t, "charge")
  /\ \E cost \in Prices : price' = [price EXCEPT ![t] = cost]
  /\ UNCHANGED <<queryVars, register, stats, globalVars, clockVars, modelVars, late>>

-----------------------------------------------------------------------------
(* _update_stats *)

\* total_cost += cost, under the lock.
MayReadTotalMutant(t) == pc[t] = "charge"
MayReadTotal(t) == pc[t] = "charge" /\ lock = {}

ReadTotal(t) ==
  /\ MayReadTotal(t)
  /\ Goto(t, "add")
  /\ lock' = {t}
  /\ register' = [register EXCEPT ![t] = total]
  /\ UNCHANGED <<queryVars, price, stats, total, clockVars, modelVars, late>>

WriteTotal(t) ==
  /\ pc[t] = "add"
  /\ Goto(t, "count")
  /\ total' = register[t] + price[t]
  /\ register' = [register EXCEPT ![t] = 0]
  /\ lock' = {}
  /\ late' = [late EXCEPT ![t] = @ + (IF Exceeds(total, TotalLimit) THEN 1 ELSE 0)]
  /\ UNCHANGED <<queryVars, price, stats, clockVars, modelVars>>

CountStats(t) == [cost |-> Mine(t).cost + price[t], calls |-> Mine(t).calls + 1]

CountCall(t) ==
  /\ pc[t] = "count"
  /\ Goto(t, "check")
  /\ stats' = [stats EXCEPT ![t][role[t]] = CountStats(t)]
  /\ price' = [price EXCEPT ![t] = 0]
  /\ UNCHANGED <<queryVars, register, globalVars, clockVars, modelVars, late>>

OverInstance(t) ==
  \/ Exceeds(Mine(t).cost, InstanceLimit)
  \/ Exceeds(Mine(t).calls, CallLimit)

TotalExceededMutant(t) ==
  /\ pc[t] = "check" /\ Exceeds(total, TotalLimit)
  /\ Retry(t)
  /\ UNCHANGED <<n, price, register, stats, globalVars, clockVars, modelVars, late>>
TotalExceeded(t) ==
  /\ pc[t] = "check" /\ Exceeds(total, TotalLimit)
  /\ Goto(t, "stopped")
  /\ UNCHANGED <<queryVars, price, register, stats, globalVars, clockVars, modelVars, late>>

InstanceExceeded(t) ==
  /\ pc[t] = "check" /\ ~Exceeds(total, TotalLimit) /\ OverInstance(t)
  /\ Goto(t, "over")
  /\ UNCHANGED <<queryVars, price, register, stats, globalVars, clockVars, modelVars, late>>

NextSample(t) ==
  /\ pc[t] = "check" /\ ~Exceeds(total, TotalLimit) /\ ~OverInstance(t)
  /\ IF left[t] = 1
     THEN Goto(t, "idle") /\ UNCHANGED left
     ELSE Goto(t, "begin") /\ left' = [left EXCEPT ![t] = @ - 1]
  /\ UNCHANGED <<n, attempt, price, register, stats, globalVars, clockVars, modelVars, late>>

-----------------------------------------------------------------------------

\* An attempt of a RetryAgent is over and is judged; not one that met the total
\* limit, which ends the run.
Judged(t) ==
  /\ role[t] = "agent" /\ pc[t] \in {"idle", "over"}
  /\ Goto(t, "idle")
  /\ role' = [role EXCEPT ![t] = "judge"]
  /\ asked' = [asked EXCEPT ![t] = 0] /\ late' = [late EXCEPT ![t] = 0]
  /\ UNCHANGED <<queryVars, price, register, stats, globalVars, clockVars, models, earlier>>

\* A new agent with a new model: the next attempt keeps the judge, the next instance
\* has its own.  There may be one also after the total limit, for a judge swallows
\* it and a thread may take an instance from the queue before the batch cancels it.
Kept(t, again) == [Unused EXCEPT !["judge"] = IF again THEN stats[t]["judge"] ELSE Fresh]
Closed(t, again) == stats[t]["agent"].cost + (IF again THEN 0 ELSE stats[t]["judge"].cost)

NextModel(t) ==
  /\ pc[t] \in {"idle"} \cup Ended
  /\ models[t] < MaxModels
  /\ Goto(t, "idle")
  /\ role' = [role EXCEPT ![t] = "agent"]
  /\ models' = [models EXCEPT ![t] = @ + 1]
  /\ asked' = [asked EXCEPT ![t] = 0] /\ late' = [late EXCEPT ![t] = 0]
  /\ \E again \in BOOLEAN :
       /\ again => role[t] = "judge"
       /\ stats' = [stats EXCEPT ![t] = Kept(t, again)]
       /\ earlier' = [earlier EXCEPT ![t] = @ + Closed(t, again)]
  /\ UNCHANGED <<queryVars, price, register, globalVars, clockVars>>

Tick ==
  /\ age' = Capped(age + 1)
  /\ rested' = [t \in Threads |-> Capped(rested[t] + 1)]
  /\ wait' = [t \in Threads |-> IF wait[t] = 0 THEN 0 ELSE wait[t] - 1]
  /\ UNCHANGED <<pc, queryVars, price, register, stats, globalVars, modelVars, late>>

Call(t) == CallRaises(t) \/ CallFails(t) \/ CallAnswers(t)
Charge(t) == ReadTotal(t) \/ WriteTotal(t) \/ CountCall(t)
Check(t) == TotalExceeded(t) \/ InstanceExceeded(t) \/ NextSample(t)
Step(t) == ReadTimestamp(t) \/ Stamp(t) \/ Call(t) \/ Charge(t) \/ Check(t)

Next == Tick \/ \E t \in Threads : Query(t) \/ Step(t) \/ Judged(t) \/ NextModel(t)

Spec == Init /\ [][Next]_vars

\* Time passes, every call has a client timeout, and a lock is held for a moment.
FairSpec ==
  /\ Spec
  /\ WF_vars(Tick)
  /\ \A t \in Threads : SF_vars(Step(t))

-----------------------------------------------------------------------------
(* Properties *)

\* The total shown and limited is the sum of what the models of all threads have
\* charged: no += of another thread is lost (GLOBAL_STATS_LOCK).
Charged(t) ==
  earlier[t] + stats[t]["agent"].cost + stats[t]["judge"].cost + (IF pc[t] = "count" THEN price[t] ELSE 0)
TotalIsSum ==
  (\A t \in Threads : pc[t] # "add") => total = MapThenSumSet(Charged, Threads)

\* Once the total is over its limit no agent's model charges more than one further
\* call, and no query of a judge does, although the limit is read without the lock,
\* a query asks for several samples and each failed call of it may be retried (the
\* order of LiteLLMModel._update_stats, and the exceptions that query() does not
\* retry).
LateChargeOnce == \A t \in Threads : late[t] <= 1

\* No thread queries again within the delay after its own last query, whatever
\* the timestamps other threads leave between (LiteLLMModel._sleep).
QuerySpacing ==
  \A t \in Threads : pc[t] = "sleep" /\ wait[t] = 0 => rested[t] = Delay

\* A query ends: with its samples, or with an exception after its last attempt.
QueryEnds == \A t \in Threads : pc[t] = "begin" ~> pc[t] \in {"idle"} \cup Ended
=============================================================================
