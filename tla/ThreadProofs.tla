---------------------------- MODULE ThreadProofs ----------------------------
(***************************************************************************)
(* Proofs about what the threads of a batch share.                         *)
(*                                                                         *)
(* CostStats, for any number of threads, any prices and any limits: the    *)
(* types, the mutual exclusion of the lock, what a model may still charge  *)
(* once the total limit is exceeded, the delay between queries, and that   *)
(* the total is the sum of all charges.                                    *)
(*                                                                         *)
(* Workers, for any batch, any number of threads and any ids that are      *)
(* parts of one another: the handlers that a log file has while the others *)
(* come and go, and the report that every worker overwrites.               *)
(***************************************************************************)
EXTENDS CostStats, Workers, FiniteSetTheorems, WellFoundedInduction, SequenceTheorems, TLAPS

-----------------------------------------------------------------------------
(* CostStats: types *)

LEMMA InitTyped == Init => TypeOK
<1> SUFFICES ASSUME Init PROVE TypeOK
  OBVIOUS
<1>1. Unused \in [Roles -> [cost : Nat, calls : Nat]]
  BY DEF Unused, Fresh
<1> QED BY <1>1, CostStatsAssumption
        DEF Init, TypeOK, Everywhere, Locations, Ended, Roles

LEMMA RetryTyped ==
  ASSUME TypeOK, NEW t \in Threads, Retry(t)
  PROVE  /\ pc' \in [Threads -> Locations]
         /\ left' \in [Threads -> 1 .. MaxSamples]
         /\ attempt' \in [Threads -> 1 .. Retries]
<1>1. CASE attempt[t] < Retries
  <2>1. attempt[t] + 1 \in 1 .. Retries
    BY <1>1, CostStatsAssumption DEF TypeOK
  <2> QED BY <1>1, <2>1 DEF TypeOK, Retry, Goto, Locations
<1>2. CASE ~(attempt[t] < Retries)
  BY <1>2 DEF TypeOK, Retry, Goto, Locations, Ended
<1> QED BY <1>1, <1>2

LEMMA PriceIsNat ==
  ASSUME TypeOK, NEW t \in Threads
  PROVE  price[t] \in Nat
<1>1. Prices \cup {0} \subseteq Nat
  BY CostStatsAssumption
<1>2. price[t] \in Prices \cup {0}
  BY DEF TypeOK
<1> QED BY <1>1, <1>2

\* A query begins, of an agent or of a judge.
LEMMA QueryTyped ==
  ASSUME TypeOK, NEW t \in Threads, Query(t)
  PROVE  TypeOK'
<1> USE CostStatsAssumption
<1>1. Begins(t)
  BY DEF Query, AgentQueries, JudgeQueries
<1>2. asked' \in [Threads -> 0 .. MaxAsks] /\ late' \in [Threads -> Nat]
  <2>1. CASE AgentQueries(t)
    BY <2>1 DEF AgentQueries, TypeOK
  <2>2. CASE JudgeQueries(t)
    <3>1. asked[t] + 1 \in 0 .. MaxAsks
      BY <2>2 DEF JudgeQueries, TypeOK
    <3> QED BY <2>2, <3>1 DEF JudgeQueries, TypeOK
  <2> QED BY <2>1, <2>2 DEF Query
<1>3. /\ UNCHANGED <<price, register, lock, total, wait, age, rested, role, models, earlier, stats>>
      /\ pc' = [pc EXCEPT ![t] = "begin"] /\ attempt' = [attempt EXCEPT ![t] = 1]
      /\ \E samples \in 1 .. MaxSamples :
           n' = [n EXCEPT ![t] = samples] /\ left' = [left EXCEPT ![t] = samples]
  BY <1>1 DEF Begins, Goto, globalVars, clockVars
<1>4. /\ pc' \in [Threads -> Locations] /\ attempt' \in [Threads -> 1 .. Retries]
      /\ n' \in [Threads -> 1 .. MaxSamples] /\ left' \in [Threads -> 1 .. MaxSamples]
  BY <1>3 DEF TypeOK, Locations
<1> QED BY <1>2, <1>3, <1>4 DEF TypeOK

\* _sleep and the call.
LEMMA CallTyped ==
  ASSUME TypeOK, NEW t \in Threads, ReadTimestamp(t) \/ Stamp(t) \/ Call(t)
  PROVE  TypeOK'
<1> USE CostStatsAssumption
<1>2. CASE ReadTimestamp(t)
  BY <1>2 DEF ReadTimestamp, RemainingDelay, Goto, TypeOK, Locations, queryVars, globalVars, modelVars
<1>3. CASE Stamp(t)
  BY <1>3 DEF Stamp, Goto, TypeOK, Locations, queryVars, globalVars, modelVars
<1>4. CASE CallRaises(t)
  BY <1>4 DEF CallRaises, Goto, TypeOK, Locations, Ended, queryVars, globalVars, clockVars, modelVars
<1>5. CASE CallFails(t)
  BY <1>5, RetryTyped DEF CallFails, TypeOK, globalVars, clockVars, modelVars
<1>6. CASE CallAnswers(t)
  BY <1>6 DEF CallAnswers, Goto, TypeOK, Locations, queryVars, globalVars, clockVars, modelVars
<1> QED BY <1>2, <1>3, <1>4, <1>5, <1>6 DEF Call

\* _update_stats up to its limits.
LEMMA ChargeTyped ==
  ASSUME TypeOK, NEW t \in Threads, Charge(t)
  PROVE  TypeOK'
<1> USE CostStatsAssumption
<1>0. /\ price[t] \in Nat /\ register[t] \in Nat /\ role[t] \in Roles
      /\ Mine(t).cost \in Nat /\ Mine(t).calls \in Nat
  BY PriceIsNat DEF TypeOK, Mine
<1>1. CASE ReadTotal(t)
  BY <1>1 DEF ReadTotal, Goto, TypeOK, Locations, queryVars, clockVars, modelVars
<1>2. CASE WriteTotal(t)
  <2>1. late' \in [Threads -> Nat]
    BY <1>2 DEF WriteTotal, TypeOK
  <2> QED BY <1>0, <1>2, <2>1 DEF WriteTotal, Goto, TypeOK, Locations, queryVars, clockVars, modelVars
<1>3. CASE CountCall(t)
  <2>1. CountStats(t) \in [cost : Nat, calls : Nat]
    BY <1>0 DEF CountStats
  <2>2. stats' \in [Threads -> [Roles -> [cost : Nat, calls : Nat]]]
    BY <1>0, <1>3, <2>1 DEF CountCall, TypeOK
  <2> QED BY <1>3, <2>2 DEF CountCall, Goto, TypeOK, Locations, queryVars, globalVars, clockVars, modelVars
<1> QED BY <1>1, <1>2, <1>3 DEF Charge

\* The limits, the next sample, the judge and the next model.
LEMMA CheckTyped ==
  ASSUME TypeOK, NEW t \in Threads, Check(t) \/ Judged(t) \/ NextModel(t)
  PROVE  TypeOK'
<1> USE CostStatsAssumption
<1>1. CASE TotalExceeded(t)
  BY <1>1 DEF TotalExceeded, Goto, TypeOK, Locations, Ended, queryVars, globalVars, clockVars, modelVars
<1>2. CASE InstanceExceeded(t)
  BY <1>2 DEF InstanceExceeded, Goto, TypeOK, Locations, Ended, queryVars, globalVars, clockVars, modelVars
<1>3. CASE NextSample(t)
  <2>1. left' \in [Threads -> 1 .. MaxSamples] /\ pc' \in [Threads -> Locations]
    <3>1. CASE left[t] = 1
      BY <1>3, <3>1 DEF NextSample, Goto, TypeOK, Locations
    <3>2. CASE left[t] # 1
      <4>1. left[t] - 1 \in 1 .. MaxSamples
        BY <3>2 DEF TypeOK
      <4> QED BY <1>3, <3>2, <4>1 DEF NextSample, Goto, TypeOK, Locations
    <3> QED BY <3>1, <3>2
  <2> QED BY <1>3, <2>1 DEF NextSample, TypeOK, globalVars, clockVars, modelVars
<1>4. CASE NextModel(t)
  <2>0. stats[t] \in [Roles -> [cost : Nat, calls : Nat]] /\ {"agent", "judge"} = Roles
    BY DEF TypeOK, Roles
  <2>1. \A again \in BOOLEAN : Kept(t, again) \in [Roles -> [cost : Nat, calls : Nat]]
    BY <2>0 DEF Kept, Unused, Fresh
  <2>2. \A again \in BOOLEAN : Closed(t, again) \in Nat
    BY <2>0 DEF Closed
  <2>3. models[t] + 1 \in 1 .. MaxModels
    BY <1>4 DEF NextModel, TypeOK
  <2>4. stats' \in [Threads -> [Roles -> [cost : Nat, calls : Nat]]] /\ earlier' \in [Threads -> Nat]
    <3>1. PICK again \in BOOLEAN : /\ stats' = [stats EXCEPT ![t] = Kept(t, again)]
                                  /\ earlier' = [earlier EXCEPT ![t] = @ + Closed(t, again)]
      BY <1>4 DEF NextModel
    <3>2. Kept(t, again) \in [Roles -> [cost : Nat, calls : Nat]] /\ Closed(t, again) \in Nat
      BY <2>1, <2>2
    <3> QED BY <3>1, <3>2 DEF TypeOK
  <2> QED BY <1>4, <2>0, <2>3, <2>4 DEF NextModel, Goto, TypeOK, Locations, queryVars, globalVars, clockVars
<1>5. CASE Judged(t)
  BY <1>5 DEF Judged, Goto, TypeOK, Roles, Locations, queryVars, globalVars, clockVars
<1> QED BY <1>1, <1>2, <1>3, <1>4, <1>5 DEF Check

LEMMA TickTyped == TypeOK /\ Tick => TypeOK'
<1> SUFFICES ASSUME TypeOK, Tick PROVE TypeOK'
  OBVIOUS
<1>1. \A time \in 0 .. Delay : Capped(time + 1) \in 0 .. Delay
  BY CostStatsAssumption DEF Capped
<1>2. rested' \in [Threads -> 0 .. Delay] /\ age' \in 0 .. Delay
  BY <1>1 DEF Tick, TypeOK
<1>3. wait' \in [Threads -> 0 .. Delay]
  <2>1. Delay \in Nat
    BY CostStatsAssumption
  <2>2. \A t \in Threads : wait[t] \in 0 .. Delay
    BY DEF TypeOK
  <2>3. \A t \in Threads : (IF wait[t] = 0 THEN 0 ELSE wait[t] - 1) \in 0 .. Delay
    BY <2>1, <2>2
  <2> QED BY <2>3 DEF Tick
<1> QED BY <1>2, <1>3 DEF Tick, TypeOK, queryVars, globalVars, modelVars

LEMMA StutterTyped == TypeOK /\ UNCHANGED vars => TypeOK'
BY DEF TypeOK, vars, queryVars, globalVars, clockVars, modelVars

LEMMA NextTyped == TypeOK /\ [Next]_vars => TypeOK'
<1> SUFFICES ASSUME TypeOK, [Next]_vars PROVE TypeOK'
  OBVIOUS
<1>1. ASSUME NEW t \in Threads, Query(t) \/ Step(t) \/ Judged(t) \/ NextModel(t) PROVE TypeOK'
  BY <1>1, QueryTyped, CallTyped, ChargeTyped, CheckTyped DEF Step
<1> QED BY <1>1, TickTyped, StutterTyped DEF Next

\* Every variable of LiteLLMModel and GlobalStats keeps its type.
THEOREM TypeCorrect == Spec => []TypeOK
<1>1. Init => TypeOK
  BY InitTyped
<1>2. TypeOK /\ [Next]_vars => TypeOK'
  BY NextTyped
<1> QED BY <1>1, <1>2, PTL DEF Spec

-----------------------------------------------------------------------------
(* The lock, and the charges over the total limit *)

\* Who is inside += holds the lock, and nobody changes the total under him.
LockHeld ==
  \A t \in Threads : pc[t] = "add" => lock = {t} /\ register[t] = total

\* A late charge means that the total is over its limit for good, and that the
\* query is on its way to the check that ends it, or has met it.
LateIsLast ==
  \A t \in Threads :
    \/ late[t] = 0
    \/ /\ late[t] = 1
       /\ Exceeds(total, TotalLimit)
       /\ pc[t] \in {"count", "check", "stopped"}

ChargeInv == TypeOK /\ LockHeld /\ LateIsLast

LEMMA InitCharge == Init => LockHeld /\ LateIsLast
BY DEF Init, LockHeld, LateIsLast, Everywhere

LEMMA LockStep == ChargeInv /\ [Next]_vars => LockHeld'
<1> SUFFICES ASSUME ChargeInv, [Next]_vars PROVE LockHeld'
  OBVIOUS
<1>1. ASSUME NEW t \in Threads, Query(t) \/ Judged(t) \/ NextModel(t) PROVE LockHeld'
  <2>1. UNCHANGED <<register, globalVars>> /\ (Goto(t, "begin") \/ Goto(t, "idle"))
    BY <1>1 DEF Query, AgentQueries, JudgeQueries, Begins, Judged, NextModel
  <2> QED BY <2>1 DEF ChargeInv, TypeOK, LockHeld, Goto, globalVars
<1>2. ASSUME NEW t \in Threads, ReadTimestamp(t) \/ Stamp(t) PROVE LockHeld'
  BY <1>2 DEF ChargeInv, TypeOK, LockHeld, ReadTimestamp, Stamp, Goto, globalVars
<1>3. ASSUME NEW t \in Threads, Call(t) PROVE LockHeld'
  BY <1>3 DEF ChargeInv, TypeOK, LockHeld, Call, CallRaises, CallFails, CallAnswers, Retry, Goto, globalVars
<1>4. ASSUME NEW t \in Threads, ReadTotal(t) PROVE LockHeld'
  BY <1>4 DEF ChargeInv, TypeOK, LockHeld, ReadTotal, MayReadTotal, Goto
<1>5. ASSUME NEW t \in Threads, WriteTotal(t) PROVE LockHeld'
  BY <1>5 DEF ChargeInv, TypeOK, LockHeld, WriteTotal, Goto
<1>6. ASSUME NEW t \in Threads, CountCall(t) PROVE LockHeld'
  BY <1>6 DEF ChargeInv, TypeOK, LockHeld, CountCall, Goto, globalVars
<1>7. ASSUME NEW t \in Threads, Check(t) PROVE LockHeld'
  BY <1>7 DEF ChargeInv, TypeOK, LockHeld, Check, TotalExceeded, InstanceExceeded, NextSample, Goto, globalVars
<1>8. CASE Tick \/ UNCHANGED vars
  BY <1>8 DEF ChargeInv, LockHeld, Tick, vars, globalVars
<1> QED BY <1>1, <1>2, <1>3, <1>4, <1>5, <1>6, <1>7, <1>8 DEF Next, Step, Charge

LEMMA LateStep == ChargeInv /\ [Next]_vars => LateIsLast'
<1> SUFFICES ASSUME ChargeInv, [Next]_vars PROVE LateIsLast'
  OBVIOUS
<1>1. ASSUME NEW t \in Threads, Query(t) \/ Judged(t) \/ NextModel(t) PROVE LateIsLast'
  <2>1. UNCHANGED total /\ (Goto(t, "begin") \/ Goto(t, "idle"))
    BY <1>1 DEF Query, AgentQueries, JudgeQueries, Begins, Judged, NextModel, globalVars
  <2>2. (late' = late /\ pc[t] = "idle") \/ late' = [late EXCEPT ![t] = 0]
    BY <1>1 DEF Query, AgentQueries, JudgeQueries, Judged, NextModel
  <2> QED BY <2>1, <2>2 DEF ChargeInv, TypeOK, LateIsLast, Goto, Exceeds
<1>2. ASSUME NEW t \in Threads, ReadTimestamp(t) \/ Stamp(t) PROVE LateIsLast'
  BY <1>2 DEF ChargeInv, TypeOK, LateIsLast, ReadTimestamp, Stamp, Goto, globalVars, Exceeds, Ended
<1>3. ASSUME NEW t \in Threads, Call(t) PROVE LateIsLast'
  BY <1>3 DEF ChargeInv, TypeOK, LateIsLast, Call, CallRaises, CallFails, CallAnswers, Retry, Goto,
              globalVars, Exceeds, Ended
<1>4. ASSUME NEW t \in Threads, ReadTotal(t) PROVE LateIsLast'
  BY <1>4 DEF ChargeInv, TypeOK, LateIsLast, ReadTotal, MayReadTotal, Goto, Exceeds, Ended
<1>5. ASSUME NEW t \in Threads, WriteTotal(t) PROVE LateIsLast'
  <2>1. total' = total + price[t] /\ price[t] \in Nat /\ total \in Nat
    <3>1. register[t] = total
      BY <1>5 DEF ChargeInv, LockHeld, WriteTotal
    <3>2. TypeOK
      BY DEF ChargeInv
    <3> QED BY <1>5, <3>1, <3>2, PriceIsNat DEF WriteTotal, TypeOK
  <2>2. Exceeds(total, TotalLimit) => Exceeds(total, TotalLimit)'
    BY <2>1, CostStatsAssumption DEF Exceeds
  <2>3. late[t] = 0
    BY <1>5 DEF ChargeInv, LateIsLast, WriteTotal, Ended
  <2>4. late'[t] = IF Exceeds(total, TotalLimit) THEN 1 ELSE 0
    BY <1>5, <2>3 DEF ChargeInv, TypeOK, WriteTotal
  <2>5. pc'[t] = "count"
    BY <1>5 DEF ChargeInv, TypeOK, WriteTotal, Goto
  <2>6. ASSUME NEW s \in Threads, s # t PROVE pc'[s] = pc[s] /\ late'[s] = late[s]
    BY <1>5, <2>6 DEF ChargeInv, TypeOK, WriteTotal, Goto
  <2> QED BY <2>2, <2>4, <2>5, <2>6 DEF ChargeInv, LateIsLast
<1>6. ASSUME NEW t \in Threads, CountCall(t) PROVE LateIsLast'
  BY <1>6 DEF ChargeInv, TypeOK, LateIsLast, CountCall, Goto, globalVars, Exceeds, Ended
<1>7. ASSUME NEW t \in Threads, Check(t) PROVE LateIsLast'
  BY <1>7 DEF ChargeInv, TypeOK, LateIsLast, Check, TotalExceeded, InstanceExceeded, NextSample, Goto,
              globalVars, Exceeds, Ended
<1>8. CASE Tick \/ UNCHANGED vars
  BY <1>8 DEF ChargeInv, LateIsLast, Tick, vars, globalVars, Exceeds
<1> QED BY <1>1, <1>2, <1>3, <1>4, <1>5, <1>6, <1>7, <1>8 DEF Next, Step, Charge

\* The total and what += has read belong together, and with them the late charges.
THEOREM ChargesOrdered == Spec => []ChargeInv
<1>1. Init => ChargeInv
  BY InitTyped, InitCharge DEF ChargeInv
<1>2. ChargeInv /\ [Next]_vars => ChargeInv'
  BY NextTyped, LockStep, LateStep DEF ChargeInv
<1> QED BY <1>1, <1>2, PTL DEF Spec

\* Over the total limit no agent's model charges more than one further call, and no
\* query of a judge, whose caller may ask again, does: whatever the number of
\* threads, of samples and of retries (LiteLLMModel._update_stats).
THEOREM LateCharges == Spec => []LateChargeOnce
<1>1. ChargeInv => LateChargeOnce
  BY DEF ChargeInv, LateIsLast, LateChargeOnce
<1> QED BY <1>1, ChargesOrdered, PTL
-----------------------------------------------------------------------------
(* The delay between two queries *)

\* The shared timestamp is never older than a thread's own last query, and what
\* has been slept of a remaining delay has passed since that query as well.
Spaced ==
  \A t \in Threads :
    /\ age <= rested[t]
    /\ pc[t] = "sleep" => Delay - wait[t] <= rested[t]

SpacingInv == TypeOK /\ Spaced

LEMMA InitSpaced == Init => Spaced
BY CostStatsAssumption DEF Init, Spaced, Everywhere

\* A moment that passes counts for the timestamp, for every thread's own query
\* and for every sleep.
LEMMA TickSpaced == SpacingInv /\ Tick => Spaced'
<1> SUFFICES ASSUME SpacingInv, Tick, NEW t \in Threads
             PROVE  /\ age' <= rested'[t]
                    /\ pc'[t] = "sleep" => Delay - wait'[t] <= rested'[t]
  BY DEF Spaced
<1>1. Delay \in Nat /\ age \in 0 .. Delay /\ rested[t] \in 0 .. Delay /\ wait[t] \in 0 .. Delay
  BY CostStatsAssumption DEF SpacingInv, TypeOK
<1>2. age <= rested[t] /\ (pc[t] = "sleep" => Delay - wait[t] <= rested[t])
  BY DEF SpacingInv, Spaced
<1>3. /\ age' = Capped(age + 1) /\ rested'[t] = Capped(rested[t] + 1) /\ pc'[t] = pc[t]
      /\ wait'[t] = IF wait[t] = 0 THEN 0 ELSE wait[t] - 1
  BY DEF Tick
<1> QED BY <1>1, <1>2, <1>3 DEF Capped

LEMMA SpacingStep == SpacingInv /\ [Next]_vars => Spaced'
<1> SUFFICES ASSUME SpacingInv, [Next]_vars PROVE Spaced'
  OBVIOUS
<1>1. ASSUME NEW t \in Threads, Query(t) \/ Judged(t) \/ NextModel(t) PROVE Spaced'
  <2>1. UNCHANGED clockVars /\ (Goto(t, "begin") \/ Goto(t, "idle"))
    BY <1>1 DEF Query, AgentQueries, JudgeQueries, Begins, Judged, NextModel
  <2> QED BY <2>1 DEF SpacingInv, TypeOK, Spaced, Goto, clockVars
<1>2. ASSUME NEW t \in Threads, ReadTimestamp(t) PROVE Spaced'
  BY <1>2, CostStatsAssumption DEF SpacingInv, TypeOK, Spaced, ReadTimestamp, RemainingDelay, Goto
<1>3. ASSUME NEW t \in Threads, Stamp(t) PROVE Spaced'
  BY <1>3 DEF SpacingInv, TypeOK, Spaced, Stamp, Goto
<1>4. ASSUME NEW t \in Threads, Call(t) PROVE Spaced'
  BY <1>4 DEF SpacingInv, TypeOK, Spaced, Call, CallRaises, CallFails, CallAnswers, Retry, Goto, clockVars
<1>5. ASSUME NEW t \in Threads, Charge(t) PROVE Spaced'
  <2>1. UNCHANGED clockVars /\ \E where \in {"add", "count", "check"} : Goto(t, where)
    BY <1>5 DEF Charge, ReadTotal, WriteTotal, CountCall
  <2> QED BY <2>1 DEF SpacingInv, TypeOK, Spaced, Goto, clockVars
<1>6. ASSUME NEW t \in Threads, Check(t) PROVE Spaced'
  BY <1>6 DEF SpacingInv, TypeOK, Spaced, Check, TotalExceeded, InstanceExceeded, NextSample, Goto,
              clockVars
<1>7. CASE UNCHANGED vars
  BY <1>7 DEF SpacingInv, Spaced, vars, clockVars
<1> QED BY <1>1, <1>2, <1>3, <1>4, <1>5, <1>6, <1>7, TickSpaced DEF Next, Step

\* No thread queries within the delay after its own last query, for any number
\* of threads that share the timestamp and read it without the lock
\* (LiteLLMModel._sleep).
THEOREM QueriesSpaced == Spec => []QuerySpacing
<1>1. Init => SpacingInv
  BY InitTyped, InitSpaced DEF SpacingInv
<1>2. SpacingInv /\ [Next]_vars => SpacingInv'
  BY NextTyped, SpacingStep DEF SpacingInv
<1>3. ASSUME SpacingInv, NEW t \in Threads, pc[t] = "sleep", wait[t] = 0
      PROVE  rested[t] = Delay
  <2>1. Delay \in Nat /\ rested[t] \in 0 .. Delay
    BY <1>3, CostStatsAssumption DEF SpacingInv, TypeOK
  <2>2. Delay - wait[t] <= rested[t]
    BY <1>3 DEF SpacingInv, Spaced
  <2> QED BY <1>3, <2>1, <2>2
<1>4. SpacingInv => QuerySpacing
  BY <1>3 DEF QuerySpacing
<1> QED BY <1>1, <1>2, <1>4, PTL DEF Spec
-----------------------------------------------------------------------------
(* The total is the sum of the charges *)

\* The recursion by which MapThenSumSet adds up the charges of a set of threads,
\* for the charges c of one state.
Some(s) == CHOOSE x \in s : TRUE
AddsUp(f, c) ==
  f = [s \in SUBSET Threads |-> IF s = {} THEN 0 ELSE c[Some(s)] + f[s \ {Some(s)}]]

\* The sum over the threads, for the values of one state.
IsSum(c, sum) == \E f : AddsUp(f, c) /\ f[Threads] = sum

\* d is c with k more for one thread t.
Exceed(d, c, t, k) == \A s \in Threads : d[s] = c[s] + IF s = t THEN k ELSE 0

\* A way to count: a coin for each unit of cost.
Coins(s, c) == UNION {{t} \X (1 .. c[t]) : t \in s}

LEMMA CoinsAdd ==
  ASSUME NEW c \in [Threads -> Nat], NEW s \in SUBSET Threads, NEW t \in s
  PROVE  /\ IsFiniteSet(Coins(s, c))
         /\ Cardinality(Coins(s, c)) = c[t] + Cardinality(Coins(s \ {t}, c))
<1> DEFINE Pile(r) == {r} \X (1 .. c[r])
<1>1. IsFiniteSet(s) /\ \A r \in s : c[r] \in Nat
  BY CostStatsAssumption, FS_Subset
<1>2. ASSUME NEW r \in s PROVE IsFiniteSet(Pile(r)) /\ Cardinality(Pile(r)) = c[r]
  <2>1. PICK units \in Nat : c[r] = units
    BY <1>1
  <2>2. IsFiniteSet(1 .. units) /\ Cardinality(1 .. units) = units
    BY FS_Interval
  <2>3. IsFiniteSet({r}) /\ Cardinality({r}) = 1
    BY FS_Singleton
  <2>4. IsFiniteSet({r} \X (1 .. units)) /\ Cardinality({r} \X (1 .. units)) = 1 * units
    BY <2>2, <2>3, FS_Product
  <2> QED BY <2>1, <2>4
<1>3. ASSUME NEW u \in SUBSET s PROVE IsFiniteSet(Coins(u, c))
  <2> DEFINE P == {Pile(r) : r \in u}
  <2>1. IsFiniteSet(u)
    BY <1>1, FS_Subset
  <2>2. [r \in u |-> Pile(r)] \in Surjection(u, P)
    BY DEF Surjection
  <2>3. IsFiniteSet(P)
    <3> HIDE DEF P
    <3> QED BY <2>1, <2>2, FS_Surjection
  <2>4. \A T \in P : IsFiniteSet(T)
    BY <1>2
  <2>5. Coins(u, c) = UNION P
    BY DEF Coins
  <2> HIDE DEF P
  <2> QED BY <2>3, <2>4, <2>5, FS_UNION
<1>4. Coins(s, c) = Coins(s \ {t}, c) \cup Pile(t)
  BY DEF Coins
<1>5. Coins(s \ {t}, c) \cap Pile(t) = {}
  BY DEF Coins
<1> HIDE DEF Pile
<1>6. /\ IsFiniteSet(Coins(s \ {t}, c)) /\ Cardinality(Coins(s \ {t}, c)) \in Nat
      /\ IsFiniteSet(Pile(t)) /\ Cardinality(Pile(t)) = c[t] /\ c[t] \in Nat
  BY <1>1, <1>2, <1>3, FS_CardinalityType
<1>7. Cardinality(Coins(s \ {t}, c) \cup Pile(t)) = Cardinality(Coins(s \ {t}, c)) + c[t]
  <2>1. Cardinality(Coins(s \ {t}, c) \cap Pile(t)) = 0
    BY <1>5, FS_EmptySet
  <2>2. Cardinality(Coins(s \ {t}, c) \cup Pile(t))
          = Cardinality(Coins(s \ {t}, c)) + Cardinality(Pile(t))
            - Cardinality(Coins(s \ {t}, c) \cap Pile(t))
    BY <1>6, FS_Union
  <2> QED BY <1>6, <2>1, <2>2
<1>8. IsFiniteSet(Coins(s, c))
  BY <1>3
<1> QED BY <1>4, <1>6, <1>7, <1>8

\* The recursion that MapThenSumSet is defined by has a solution.
LEMMA SumExists ==
  ASSUME NEW c \in [Threads -> Nat]
  PROVE  \E f \in [SUBSET Threads -> Nat] : AddsUp(f, c)
<1> DEFINE f == [s \in SUBSET Threads |-> Cardinality(Coins(s, c))]
<1>1. Cardinality(Coins({}, c)) = 0
  BY FS_EmptySet DEF Coins
<1>2. ASSUME NEW s \in SUBSET Threads, s # {}
      PROVE  f[s] = c[Some(s)] + f[s \ {Some(s)}] /\ f[s] \in Nat
  <2>1. Some(s) \in s
    BY <1>2 DEF Some
  <2>2. IsFiniteSet(Coins(s, c))
         /\ Cardinality(Coins(s, c)) = c[Some(s)] + Cardinality(Coins(s \ {Some(s)}, c))
    BY <2>1, CoinsAdd
  <2> QED BY <2>2, FS_CardinalityType
<1>3. f \in [SUBSET Threads -> Nat]
  <2>1. ASSUME NEW s \in SUBSET Threads PROVE Cardinality(Coins(s, c)) \in Nat
    <3>1. CASE s = {}
      BY <1>1, <3>1
    <3>2. CASE s # {}
      BY <3>2, CoinsAdd, FS_CardinalityType
    <3> QED BY <3>1, <3>2
  <2> QED BY <2>1
<1>4. f = [s \in SUBSET Threads |-> IF s = {} THEN 0 ELSE c[Some(s)] + f[s \ {Some(s)}]]
  BY <1>1, <1>2
<1> QED BY <1>3, <1>4 DEF AddsUp

\* Two solutions differ by what their summands differ.
LEMMA SumsDiffer ==
  ASSUME NEW c \in [Threads -> Nat], NEW d \in [Threads -> Nat], NEW t, NEW k \in Nat,
         Exceed(d, c, t, k), NEW sum, IsSum(c, sum), NEW sumNext, IsSum(d, sumNext)
  PROVE  sum \in Nat /\ sumNext = sum + IF t \in Threads THEN k ELSE 0
<1>0. PICK f, g : AddsUp(f, c) /\ f[Threads] = sum /\ AddsUp(g, d) /\ g[Threads] = sumNext
  BY DEF IsSum
<1> DEFINE Good(s) == f[s] \in Nat /\ g[s] = f[s] + IF t \in s THEN k ELSE 0
           Bad == {s \in SUBSET Threads : ~Good(s)}
           R == StrictSubsetOrdering(Threads)
<1>1. IsWellFoundedOn(R, SUBSET Threads)
  BY CostStatsAssumption, FS_StrictSubsetOrderingWellFounded, FS_FiniteSubsetsOfFinite
<1>2. ASSUME NEW s \in Bad PROVE \E r \in Bad : <<r, s>> \in R
  <2>1. s # {}
    BY <1>0 DEF AddsUp
  <2>2. PICK x \in s : x = Some(s)
    BY <2>1 DEF Some
  <2>3. f[s] = c[x] + f[s \ {x}] /\ g[s] = d[x] + g[s \ {x}]
    BY <1>0, <2>1, <2>2 DEF AddsUp
  <2>4. ~Good(s \ {x})
    BY <2>2, <2>3 DEF Exceed
  <2>5. <<s \ {x}, s>> \in R
    BY <2>2 DEF StrictSubsetOrdering
  <2> QED BY <2>4, <2>5
<1>3. Bad = {}
  <2> HIDE DEF R, Bad
  <2>1. Bad \subseteq SUBSET Threads
    BY DEF Bad
  <2> QED BY <1>1, <1>2, <2>1, WFMin
<1>4. Good(Threads)
  BY <1>3
<1> QED BY <1>0, <1>4

LEMMA SumOfCharges ==
  ASSUME NEW c \in [Threads -> Nat], \A t \in Threads : c[t] = Charged(t)
  PROVE  IsSum(c, MapThenSumSet(Charged, Threads))
<1> DEFINE it == CHOOSE f : f = [s \in SUBSET Threads |->
         IF s = {} THEN 0 ELSE Charged(Some(s)) + f[s \ {Some(s)}]]
<1>1. MapThenSumSet(Charged, Threads) = it[Threads]
  BY DEF MapThenSumSet, MapThenFoldSet, Some
<1>2. PICK g : AddsUp(g, c)
  BY SumExists
<1>3. \A s \in SUBSET Threads : s # {} => c[Some(s)] = Charged(Some(s))
  BY DEF Some
<1>4. g = [s \in SUBSET Threads |-> IF s = {} THEN 0 ELSE Charged(Some(s)) + g[s \ {Some(s)}]]
  BY <1>2, <1>3 DEF AddsUp
<1>5. it = [s \in SUBSET Threads |-> IF s = {} THEN 0 ELSE Charged(Some(s)) + it[s \ {Some(s)}]]
  BY <1>4
<1> HIDE DEF it
<1>6. AddsUp(it, c)
  BY <1>3, <1>5 DEF AddsUp
<1> QED BY <1>1, <1>6 DEF IsSum

LEMMA SumOfChargesNext ==
  ASSUME NEW c \in [Threads -> Nat], \A t \in Threads : c[t] = Charged(t)'
  PROVE  IsSum(c, MapThenSumSet(Charged, Threads)')
<1> DEFINE it == CHOOSE f : f = [s \in SUBSET Threads |->
         IF s = {} THEN 0 ELSE Charged(Some(s))' + f[s \ {Some(s)}]]
<1>1. MapThenSumSet(Charged, Threads)' = it[Threads]
  BY DEF MapThenSumSet, MapThenFoldSet, Some
<1>2. PICK g : AddsUp(g, c)
  BY SumExists
<1>3. \A s \in SUBSET Threads : s # {} => c[Some(s)] = Charged(Some(s))'
  BY DEF Some
<1>4. g = [s \in SUBSET Threads |-> IF s = {} THEN 0 ELSE Charged(Some(s))' + g[s \ {Some(s)}]]
  BY <1>2, <1>3 DEF AddsUp
<1>5. it = [s \in SUBSET Threads |-> IF s = {} THEN 0 ELSE Charged(Some(s))' + it[s \ {Some(s)}]]
  BY <1>4
<1> HIDE DEF it
<1>6. AddsUp(it, c)
  BY <1>3, <1>5 DEF AddsUp
<1> QED BY <1>1, <1>6 DEF IsSum

SumOfAll == MapThenSumSet(Charged, Threads)

LEMMA ChargedIsNat == TypeOK => \A t \in Threads : Charged(t) \in Nat
BY PriceIsNat DEF TypeOK, Charged, Roles

\* A step in which at most one thread is charged.
LEMMA SumStep ==
  ASSUME TypeOK, TypeOK', NEW t, NEW k \in Nat,
         \A s \in Threads : Charged(s)' = Charged(s) + IF s = t THEN k ELSE 0
  PROVE  SumOfAll \in Nat /\ SumOfAll' = SumOfAll + IF t \in Threads THEN k ELSE 0
<1>1. \A s \in Threads : Charged(s) \in Nat /\ Charged(s)' \in Nat
  BY ChargedIsNat
<1>2. PICK c \in [Threads -> Nat] : \A s \in Threads : c[s] = Charged(s)
  <2>1. [s \in Threads |-> Charged(s)] \in [Threads -> Nat]
    BY <1>1
  <2> QED BY <2>1
<1>3. PICK d \in [Threads -> Nat] : \A s \in Threads : d[s] = Charged(s)'
  <2>1. [s \in Threads |-> Charged(s)'] \in [Threads -> Nat]
    BY <1>1
  <2> QED BY <2>1
<1>4. IsSum(c, SumOfAll) /\ IsSum(d, SumOfAll')
  BY <1>2, <1>3, SumOfCharges, SumOfChargesNext DEF SumOfAll
<1>5. Exceed(d, c, t, k)
  BY <1>2, <1>3 DEF Exceed
<1> QED BY <1>2, <1>3, <1>4, <1>5, SumsDiffer

LEMMA InitSum == Init => total = SumOfAll
<1> SUFFICES ASSUME Init PROVE total = SumOfAll
  OBVIOUS
<1>1. \A s \in Threads : Charged(s) = 0
  BY DEF Init, Charged, Everywhere, Unused, Fresh, Roles
<1>2. PICK c \in [Threads -> Nat] : \A s \in Threads : c[s] = 0
  <2>1. [s \in Threads |-> 0] \in [Threads -> Nat]
    OBVIOUS
  <2> QED BY <2>1
<1>3. IsSum(c, SumOfAll)
  BY <1>1, <1>2, SumOfCharges DEF SumOfAll
<1>4. IsSum(c, 0)
  <2> DEFINE f == [s \in SUBSET Threads |-> 0]
  <2>1. \A s \in SUBSET Threads : s # {} => c[Some(s)] = 0
    BY <1>2 DEF Some
  <2>2. AddsUp(f, c)
    BY <2>1 DEF AddsUp
  <2> QED BY <2>2 DEF IsSum
<1>5. Exceed(c, c, 0, 0)
  BY <1>2 DEF Exceed
<1>6. SumOfAll = 0 + IF 0 \in Threads THEN 0 ELSE 0
  BY <1>3, <1>4, <1>5, SumsDiffer
<1> QED BY <1>6 DEF Init

LEMMA SumIsKept == ChargeInv /\ total = SumOfAll /\ [Next]_vars => total' = SumOfAll'
<1> SUFFICES ASSUME ChargeInv, total = SumOfAll, [Next]_vars PROVE total' = SumOfAll'
  OBVIOUS
<1>0. TypeOK /\ TypeOK'
  BY NextTyped DEF ChargeInv
<1>1. ASSUME NEW t \in Threads, WriteTotal(t) PROVE total' = SumOfAll'
  <2>0. PICK paid \in Nat : paid = price[t]
    BY <1>0, PriceIsNat
  <2>1. register[t] = total
    BY <1>0, <1>1 DEF ChargeInv, LockHeld, WriteTotal
  <2>2. \A s \in Threads : Charged(s) \in Nat
    BY <1>0, ChargedIsNat
  <2>3. \A s \in Threads : Charged(s)' = Charged(s) + IF s = t THEN paid ELSE 0
    <3>1. /\ pc[t] = "add" /\ pc'[t] = "count" /\ UNCHANGED <<stats, earlier, price>>
          /\ \A s \in Threads : s # t => pc'[s] = pc[s]
      BY <1>0, <1>1 DEF WriteTotal, Goto, TypeOK, modelVars
    <3>2. Charged(t)' = Charged(t) + paid
      <4>1. Charged(t) = earlier[t] + stats[t]["agent"].cost + stats[t]["judge"].cost + 0
        BY <3>1 DEF Charged
      <4>2. Charged(t)' = earlier[t] + stats[t]["agent"].cost + stats[t]["judge"].cost + paid
        BY <2>0, <3>1 DEF Charged
      <4>3. /\ earlier[t] \in Nat /\ stats[t]["agent"].cost \in Nat
            /\ stats[t]["judge"].cost \in Nat
        BY <1>0 DEF TypeOK, Roles
      <4> QED BY <2>0, <4>1, <4>2, <4>3
    <3>3. \A s \in Threads : s # t => Charged(s)' = Charged(s)
      BY <3>1 DEF Charged
    <3> QED BY <2>2, <3>2, <3>3
  <2>4. SumOfAll' = SumOfAll + paid
    BY <1>0, <2>3, SumStep
  <2> QED BY <1>1, <2>0, <2>1, <2>4 DEF WriteTotal
<1>2. ASSUME total' = total, \A s \in Threads : Charged(s)' = Charged(s) PROVE total' = SumOfAll'
  <2>1. \A s \in Threads : Charged(s)' = Charged(s) + IF s = 0 THEN 0 ELSE 0
    BY <1>0, <1>2, ChargedIsNat
  <2>2. SumOfAll \in Nat /\ SumOfAll' = SumOfAll + IF 0 \in Threads THEN 0 ELSE 0
    BY <1>0, <2>1, SumStep
  <2> QED BY <1>2, <2>2
<1>3. ASSUME NEW t \in Threads, Query(t) \/ ReadTimestamp(t) \/ Stamp(t) \/ Call(t) \/ Judged(t)
      PROVE  total' = total /\ \A s \in Threads : Charged(s)' = Charged(s)
  <2>1. UNCHANGED <<stats, earlier, total>> /\ pc[t] # "count" /\ pc'[t] # "count"
    BY <1>0, <1>3 DEF Query, AgentQueries, JudgeQueries, Begins, Judged, ReadTimestamp, Stamp, Call,
       CallRaises, CallFails, CallAnswers, Retry, Goto, Ended, TypeOK, globalVars, modelVars
  <2>2. \A s \in Threads : s # t => pc'[s] = pc[s] /\ price'[s] = price[s]
    BY <1>0, <1>3 DEF Query, AgentQueries, JudgeQueries, Begins, Judged, ReadTimestamp, Stamp, Call,
       CallRaises, CallFails, CallAnswers, Retry, Goto, TypeOK
  <2> QED BY <2>1, <2>2 DEF Charged
<1>7. \A s \in Threads : /\ price[s] \in Nat /\ earlier[s] \in Nat /\ role[s] \in {"agent", "judge"}
                        /\ stats[s] \in [{"agent", "judge"} -> [cost : Nat, calls : Nat]]
  BY <1>0, PriceIsNat DEF TypeOK, Roles
<1>4. ASSUME NEW t \in Threads, ReadTotal(t) \/ CountCall(t)
      PROVE  total' = total /\ \A s \in Threads : Charged(s)' = Charged(s)
  <2>1. CASE ReadTotal(t)
    BY <1>0, <1>7, <2>1 DEF ReadTotal, MayReadTotal, Goto, Charged, TypeOK, modelVars
  <2>2. CASE CountCall(t)
    <3>1. /\ pc[t] = "count" /\ pc'[t] = "check" /\ UNCHANGED <<earlier, total>>
          /\ stats'[t] = [stats[t] EXCEPT ![role[t]] = CountStats(t)]
          /\ CountStats(t).cost = stats[t][role[t]].cost + price[t]
      BY <1>0, <2>2 DEF CountCall, CountStats, Mine, Goto, TypeOK, globalVars, modelVars
    <3>2. \A s \in Threads : s # t => pc'[s] = pc[s] /\ price'[s] = price[s] /\ stats'[s] = stats[s]
      BY <1>0, <2>2 DEF CountCall, Goto, TypeOK
    <3>3. stats'[t]["agent"].cost + stats'[t]["judge"].cost
            = stats[t]["agent"].cost + stats[t]["judge"].cost + price[t]
      <4>1. CASE role[t] = "agent"
        BY <1>7, <3>1, <4>1
      <4>2. CASE role[t] = "judge"
        BY <1>7, <3>1, <4>2
      <4> QED BY <1>7, <4>1, <4>2
    <3>4. Charged(t)' = Charged(t)
      <4>1. stats'[t]["agent"].cost \in Nat /\ stats'[t]["judge"].cost \in Nat
        BY <1>0 DEF TypeOK, Roles
      <4> QED BY <1>7, <3>1, <3>3, <4>1 DEF Charged
    <3> QED BY <3>1, <3>2, <3>4 DEF Charged
  <2> QED BY <1>4, <2>1, <2>2
<1>5. ASSUME NEW t \in Threads, Check(t) \/ NextModel(t)
      PROVE  total' = total /\ \A s \in Threads : Charged(s)' = Charged(s)
  <2>1. CASE Check(t)
    BY <1>0, <1>7, <2>1 DEF Check, TotalExceeded, InstanceExceeded, NextSample, Goto, Charged, TypeOK,
       globalVars, modelVars
  <2>2. CASE NextModel(t)
    <3>1. PICK again \in BOOLEAN : /\ stats' = [stats EXCEPT ![t] = Kept(t, again)]
                                  /\ earlier' = [earlier EXCEPT ![t] = @ + Closed(t, again)]
      BY <2>2 DEF NextModel
    <3>2. /\ pc[t] # "count" /\ pc'[t] # "count" /\ UNCHANGED <<price, total>>
          /\ \A s \in Threads : s # t => pc'[s] = pc[s]
      BY <1>0, <2>2 DEF NextModel, Ended, Goto, TypeOK, globalVars
    <3>3. /\ stats'[t] = Kept(t, again) /\ earlier'[t] = earlier[t] + Closed(t, again)
          /\ \A s \in Threads : s # t => stats'[s] = stats[s] /\ earlier'[s] = earlier[s]
      BY <1>0, <3>1 DEF TypeOK
    <3>4. /\ Kept(t, again)["agent"].cost = 0
          /\ Kept(t, again)["judge"].cost = IF again THEN stats[t]["judge"].cost ELSE 0
      BY DEF Kept, Unused, Fresh, Roles
    <3>5. Charged(t)' = Charged(t)
      BY <1>7, <3>2, <3>3, <3>4 DEF Charged, Closed
    <3> QED BY <3>2, <3>3, <3>5 DEF Charged
  <2> QED BY <1>5, <2>1, <2>2
<1>6. Tick \/ UNCHANGED vars => total' = total /\ \A s \in Threads : Charged(s)' = Charged(s)
  BY DEF Tick, vars, Charged, globalVars, modelVars
<1> QED BY <1>1, <1>2, <1>3, <1>4, <1>5, <1>6 DEF Next, Step, Charge

\* The shared total is what the models of all threads have charged: for any
\* number of threads no += is lost (GLOBAL_STATS_LOCK in LiteLLMModel._update_stats).
THEOREM TotalsAreSums == Spec => []TotalIsSum
<1>1. Init => ChargeInv /\ total = SumOfAll
  BY InitTyped, InitCharge, InitSum DEF ChargeInv
<1>2. ChargeInv /\ total = SumOfAll /\ [Next]_vars => (ChargeInv /\ total = SumOfAll)'
  BY NextTyped, LockStep, LateStep, SumIsKept DEF ChargeInv
<1>3. ChargeInv /\ total = SumOfAll => TotalIsSum
  BY DEF TotalIsSum, SumOfAll
<1> QED BY <1>1, <1>2, <1>3, PTL DEF Spec

-----------------------------------------------------------------------------
(* Workers: the inductive invariant *)

\* What a worker has behind it: nothing, its handler, its run, its report.
Before == {"queued", "add", "adding", "enter", "start", "check"}
Runs == {"running", "logger", "attaching"}
Ends == {"append", "advance", "save", "saving"}
After == {"remove", "removing", "detaching", "done", "stopped"}
Phases == Before \cup Runs \cup Ends \cup After \cup {"failed"}

Dumps == [Reports -> Seq(Instances)]
Loops == [todo : SUBSET (Loggers \cup Instances), size : Nat, logger : Seq(Loggers)]

Typed ==
  /\ at \in [Instances -> Phases] /\ ends \in [Instances -> Reports \cup {"none"}]
  /\ loop \in [Instances -> Loops]
  /\ setUp \in SUBSET Loggers /\ IsFiniteSet(setUp)
  /\ handlers \in SUBSET Instances /\ IsFiniteSet(handlers)
  /\ attached \in [Loggers -> SUBSET Instances]
  /\ byStatus \in Dumps /\ report \in Dumps /\ snapshot \in [Instances -> Dumps]

\* A loop is made under its lock, and by one worker at a time.
LoopLocked == \A i \in Instances : at[i] \in {"adding", "attaching", "detaching"} => logLock = i
SaveLocked == \A i \in Instances : at[i] = "saving" => tableLock = i

\* The loggers and the handler that an instance has.
Registered ==
  \A i \in Instances :
    /\ at[i] \in Before => \A k \in Kinds : <<k, i>> \notin setUp
    /\ at[i] \in {"start", "check", "remove"} \cup Runs \cup Ends => i \in handlers
    /\ at[i] \in After \ {"remove"} => i \notin handlers

\* The logger that a worker makes is set up; beside the ones that were cut short it is
\* the only one its handler may miss.
NewLogger(i) ==
  \E k \in Kinds : loop[i].logger = <<<<k, i>>>> /\ <<k, i>> \in setUp
Made(i, l) == at[i] \in {"logger", "attaching"} /\ loop[i].logger = <<l>>

AttachedOf(i) ==
  /\ at[i] \in {"logger", "attaching"} => NewLogger(i)
  /\ at[i] \in Runs \cup Ends \cup {"remove", "removing"} =>
       \A k \in Kinds :
         <<k, i>> \in setUp \ cut => i \in attached[<<k, i>>] \/ Made(i, <<k, i>>)
  /\ at[i] = "attaching" => i \in loop[i].todo \/ i \in attached[Head(loop[i].logger)]
Attached == \A i \in Instances : AttachedOf(i)

\* A loop that attaches handlers meets none that is on its way out.
Meets ==
  \A i \in Instances :
    /\ at[i] = "attaching" =>
         /\ loop[i].todo \subseteq Instances
         /\ \A j \in loop[i].todo \cap Instances : at[j] \notin {"detaching", "done", "stopped"}
    /\ at[i] \in {"adding", "detaching"} => loop[i].todo \subseteq setUp

\* A loop that detaches has met all loggers of its handler, or notices that there
\* are more now.
Detached ==
  /\ \A l \in Loggers : attached[l] # {} => l \in setUp
  /\ \A i \in Instances :
       /\ at[i] = "detaching" =>
            /\ loop[i].size <= Cardinality(setUp)
            /\ loop[i].size = Cardinality(setUp) =>
                 \A l \in Loggers : i \in attached[l] => l \in loop[i].todo
       /\ at[i] \in {"done", "stopped"} => \A l \in Loggers : i \notin attached[l]

LogInv == LoopLocked /\ Registered /\ Attached /\ Meets /\ Detached

\* A table says of each worker what it reported, once.
Has(dump, i) == \E m \in DOMAIN dump[ends[i]] : dump[ends[i]][m] = i
Once(dump) ==
  \A s, t \in Reports : \A m \in DOMAIN dump[s], p \in DOMAIN dump[t] :
    dump[s][m] = dump[t][p] => s = t /\ m = p

Entered ==
  /\ \A s \in Reports : \A m \in DOMAIN byStatus[s] :
       at[byStatus[s][m]] \notin Before \cup Runs \cup {"append"}
  /\ \A i \in Instances :
       /\ at[i] \in Before \cup Runs => ends[i] = "none"
       /\ at[i] \in Ends => ends[i] \in Reports
       /\ at[i] \in (Ends \ {"append"}) \cup After /\ ends[i] # "none" => Has(byStatus, i)

Written ==
  /\ \A i \in Instances : at[i] \in After /\ ends[i] # "none" => Has(report, i)
  /\ \A j \in Instances : at[j] = "saving" =>
       \A i \in Instances :
         (at[i] \in After \/ i = j) /\ ends[i] # "none" => Has(snapshot[j], i)

TablesOnce == Once(byStatus) /\ Once(report) /\ \A i \in Instances : Once(snapshot[i])

ReportInv == SaveLocked /\ Entered /\ Written /\ TablesOnce

WorkersInv == Typed /\ LogInv /\ ReportInv

-----------------------------------------------------------------------------
(* Parts of a step *)

LEMMA LoopFields ==
  ASSUME Typed, NEW i \in Instances
  PROVE  /\ loop[i] \in Loops /\ loop[i].todo \in SUBSET (Loggers \cup Instances)
         /\ loop[i].size \in Nat /\ loop[i].logger \in Seq(Loggers)
BY DEF Typed, Loops

LEMMA OneMoves ==
  ASSUME Typed, NEW i \in Instances, NEW to \in Phases, at' = [at EXCEPT ![i] = to]
  PROVE  /\ at' \in [Instances -> Phases] /\ at'[i] = to
         /\ \A j \in Instances : j # i => at'[j] = at[j]
BY DEF Typed

\* A loop begins when nobody else is in one.
LEMMA BeginFacts ==
  ASSUME WorkersInv, NEW i \in Instances, NEW from, NEW to \in Phases,
         NEW C \in {setUp, handlers}, BeginLoop(i, from, to, C)
  PROVE  /\ at[i] = from /\ at' \in [Instances -> Phases] /\ at'[i] = to
         /\ \A j \in Instances : j # i => at'[j] = at[j] /\ loop'[j] = loop[j]
         /\ loop' \in [Instances -> Loops] /\ loop'[i].todo = C
         /\ loop'[i].size = Cardinality(C) /\ loop'[i].logger = loop[i].logger
         /\ \A j \in Instances : at[j] \notin {"adding", "attaching", "detaching"}
         /\ LoopLocked'
<1>1. /\ at[i] = from /\ at' = [at EXCEPT ![i] = to] /\ logLock = "free" /\ logLock' = i
      /\ loop' = [loop EXCEPT ![i] = [todo |-> C, size |-> Cardinality(C), logger |-> @.logger]]
  BY DEF BeginLoop, Goes, Free
<1>2. /\ at' \in [Instances -> Phases] /\ at'[i] = to
      /\ \A j \in Instances : j # i => at'[j] = at[j]
  BY <1>1, OneMoves DEF WorkersInv
<1>3. [todo |-> C, size |-> Cardinality(C), logger |-> loop[i].logger] \in Loops
  <2>1. C \in SUBSET (Loggers \cup Instances) /\ IsFiniteSet(C)
    BY DEF WorkersInv, Typed
  <2> QED BY <2>1, LoopFields, FS_CardinalityType DEF WorkersInv, Loops
<1>4. /\ loop' \in [Instances -> Loops] /\ loop'[i].todo = C
      /\ loop'[i].size = Cardinality(C) /\ loop'[i].logger = loop[i].logger
      /\ \A j \in Instances : j # i => loop'[j] = loop[j]
  BY <1>1, <1>3 DEF WorkersInv, Typed
<1>5. \A j \in Instances : at[j] \notin {"adding", "attaching", "detaching"}
  BY <1>1, WorkersAssumption DEF WorkersInv, LogInv, LoopLocked
<1>6. LoopLocked'
  BY <1>1, <1>2, <1>5 DEF LoopLocked
<1> QED BY <1>1, <1>2, <1>4, <1>5, <1>6

LEMMA EndFacts ==
  ASSUME WorkersInv, NEW i \in Instances, NEW from \in {"adding", "attaching", "detaching"},
         NEW to \in Phases \ {"adding", "attaching", "detaching"}, NEW C, EndLoop(i, from, to, C)
  PROVE  /\ at[i] = from /\ at' \in [Instances -> Phases] /\ at'[i] = to
         /\ \A j \in Instances : j # i => at'[j] = at[j] /\ loop'[j] = loop[j]
         /\ loop' \in [Instances -> Loops] /\ loop[i].todo = {}
         /\ Cardinality(C) = loop[i].size
         /\ \A j \in Instances : j # i => at[j] \notin {"adding", "attaching", "detaching"}
         /\ LoopLocked'
<1>1. /\ at[i] = from /\ at' = [at EXCEPT ![i] = to]
      /\ loop' = [loop EXCEPT ![i] = NoLoop]
      /\ loop[i].todo = {} /\ Cardinality(C) = loop[i].size
  BY DEF EndLoop, Goes
<1>2. /\ at' \in [Instances -> Phases] /\ at'[i] = to
      /\ \A j \in Instances : j # i => at'[j] = at[j]
  BY <1>1, OneMoves DEF WorkersInv
<1>3. NoLoop \in Loops
  BY DEF NoLoop, Loops
<1>4. loop' \in [Instances -> Loops] /\ \A j \in Instances : j # i => loop'[j] = loop[j]
  BY <1>1, <1>3 DEF WorkersInv, Typed
<1>5. \A j \in Instances : j # i => at[j] \notin {"adding", "attaching", "detaching"}
  BY <1>1 DEF WorkersInv, LogInv, LoopLocked
<1>6. LoopLocked'
  BY <1>2, <1>5 DEF LoopLocked
<1> QED BY <1>1, <1>2, <1>4, <1>5, <1>6

\* A turn of the loop of i.
Visits(i, x) == x \in loop[i].todo /\ loop' = [loop EXCEPT ![i].todo = @ \ {x}]

LEMMA VisitFacts ==
  ASSUME WorkersInv, NEW i \in Instances, at[i] \in {"adding", "attaching", "detaching"},
         NEW x, Visits(i, x), UNCHANGED <<at, logLock>>
  PROVE  /\ loop' \in [Instances -> Loops] /\ loop'[i].todo = loop[i].todo \ {x}
         /\ loop'[i].size = loop[i].size /\ loop'[i].logger = loop[i].logger
         /\ \A j \in Instances : j # i => loop'[j] = loop[j]
         /\ \A j \in Instances : j # i => at[j] \notin {"adding", "attaching", "detaching"}
         /\ LoopLocked'
<1>1. /\ loop'[i].todo = loop[i].todo \ {x}
      /\ loop'[i].size = loop[i].size /\ loop'[i].logger = loop[i].logger
      /\ \A j \in Instances : j # i => loop'[j] = loop[j]
      /\ loop' \in [Instances -> Loops]
  <2>1. loop[i] \in Loops /\ loop \in [Instances -> Loops]
    BY LoopFields DEF WorkersInv, Typed
  <2> DEFINE turned == [loop[i] EXCEPT !.todo = @ \ {x}]
  <2>2. turned \in Loops /\ turned.todo = loop[i].todo \ {x}
        /\ turned.size = loop[i].size /\ turned.logger = loop[i].logger
    BY <2>1 DEF Loops
  <2>3. loop' = [loop EXCEPT ![i] = turned]
    BY DEF Visits
  <2> HIDE DEF turned
  <2> QED BY <2>1, <2>2, <2>3
<1>2. \A j \in Instances : j # i => at[j] \notin {"adding", "attaching", "detaching"}
  BY DEF WorkersInv, LogInv, LoopLocked
<1>3. LoopLocked'
  BY DEF WorkersInv, LogInv, LoopLocked
<1> QED BY <1>1, <1>2, <1>3

LEMMA AttachedStays ==
  ASSUME NEW j \in Instances, AttachedOf(j), at'[j] = at[j], loop'[j] = loop[j],
         setUp \in SUBSET Loggers, setUp \subseteq setUp', cut \subseteq cut',
         \A k \in Kinds : <<k, j>> \in setUp' => <<k, j>> \in setUp,
         \A l \in Loggers : j \in attached[l] => j \in attached'[l]
  PROVE  AttachedOf(j)'
<1>1. at[j] \in {"logger", "attaching"} => NewLogger(j) /\ NewLogger(j)'
  BY DEF AttachedOf, NewLogger
<1>2. ASSUME at[j] \in Runs \cup Ends \cup {"remove", "removing"}, NEW k \in Kinds,
             <<k, j>> \in setUp' \ cut'
      PROVE  j \in attached'[<<k, j>>] \/ Made(j, <<k, j>>)'
  BY <1>2 DEF AttachedOf, Made, Loggers
<1>3. ASSUME at[j] = "attaching", j \notin loop[j].todo
      PROVE  j \in attached'[Head(loop[j].logger)]
  <2>1. PICK k \in Kinds : loop[j].logger = <<<<k, j>>>>
    BY <1>1, <1>3 DEF NewLogger
  <2>2. Head(loop[j].logger) \in Loggers
    BY <2>1 DEF Loggers
  <2> QED BY <1>3, <2>2 DEF AttachedOf
<1> QED BY <1>1, <1>2, <1>3 DEF AttachedOf

\* A worker that is gone has no duty any more.
LEMMA FailStep ==
  ASSUME WorkersInv, NEW i \in Instances, Fails(i),
         UNCHANGED <<loop, ends, setUp, handlers, attached, cut, progressVars>>
  PROVE  WorkersInv'
<1> USE DEF WorkersInv, Phases
<1>1. /\ at' \in [Instances -> Phases] /\ at'[i] = "failed"
      /\ \A j \in Instances : j # i => at'[j] = at[j]
  BY OneMoves DEF Fails
<1>2. UNCHANGED <<byStatus, report, snapshot, tableLock>>
  BY DEF progressVars
<1>3. Typed'
  BY <1>1, <1>2 DEF Typed
<1>4. LoopLocked'
  BY <1>1 DEF LogInv, LoopLocked, Fails
<1>5. Registered'
  BY <1>1 DEF LogInv, Registered, Before, Runs, Ends, After
<1>6. Attached'
  <2>1. \A j \in Instances : j # i => AttachedOf(j)'
    BY <1>1, AttachedStays DEF Typed, LogInv, Attached
  <2>2. AttachedOf(i)'
    BY <1>1 DEF AttachedOf, Runs, Ends
  <2> QED BY <2>1, <2>2 DEF Attached
<1>7. Meets' /\ Detached'
  BY <1>1 DEF LogInv, Meets, Detached
<1>8. SaveLocked' /\ TablesOnce'
  BY <1>1, <1>2 DEF ReportInv, SaveLocked, TablesOnce, Once
<1>9. Entered' /\ Written'
  <2>1. \A s \in Reports : \A m \in DOMAIN byStatus[s] : byStatus[s][m] \in Instances
    BY DEF Typed, Dumps
  <2>2. Entered'
    BY <1>1, <1>2, <2>1 DEF ReportInv, Entered, Has, Before, Runs, Ends, After
  <2>3. Written'
    BY <1>1, <1>2 DEF ReportInv, Written, Has, After
  <2> QED BY <2>2, <2>3
<1> QED BY <1>3, <1>4, <1>5, <1>6, <1>7, <1>8, <1>9 DEF LogInv, ReportInv

-----------------------------------------------------------------------------
(* The report, while a worker adds, makes and removes handlers *)

\* The part of its life that a worker is in, as the report sees it.
SamePart(from, to) ==
  /\ to \in Before \cup Runs => from \in Before \cup Runs
  /\ to \notin Ends
  /\ to \in After => from \in After

LEMMA ReportStays ==
  ASSUME WorkersInv, NEW i \in Instances, at' \in [Instances -> Phases],
         \A j \in Instances : j # i => at'[j] = at[j],
         SamePart(at[i], at'[i]), UNCHANGED <<ends, progressVars>>
  PROVE  ReportInv'
<1> USE DEF WorkersInv, SamePart
<1>1. UNCHANGED <<byStatus, report, snapshot, tableLock, ends>>
  BY DEF progressVars
<1>2. \A s \in Reports : \A m \in DOMAIN byStatus[s] : byStatus[s][m] \in Instances
  BY DEF Typed, Dumps
<1>3. SaveLocked' /\ TablesOnce'
  BY <1>1 DEF ReportInv, SaveLocked, TablesOnce, Once, Ends
<1>4. Entered'
  BY <1>1, <1>2 DEF ReportInv, Entered, Has, Before, Runs, Ends, After
<1>5. Written'
  BY <1>1 DEF ReportInv, Written, Has, Ends, After
<1> QED BY <1>3, <1>4, <1>5 DEF ReportInv

\* Typed, when only the lists of loggers and handlers change.
LEMMA TypesStay ==
  ASSUME WorkersInv, at' \in [Instances -> Phases], loop' \in [Instances -> Loops],
         setUp' \in SUBSET Loggers, IsFiniteSet(setUp'),
         handlers' \in SUBSET Instances, IsFiniteSet(handlers'),
         attached' \in [Loggers -> SUBSET Instances], UNCHANGED <<ends, progressVars>>
  PROVE  Typed'
BY DEF WorkersInv, Typed, progressVars

-----------------------------------------------------------------------------
(* add_file_handler *)

LEMMA AddsStep ==
  ASSUME WorkersInv, NEW i \in Instances, Adds(i)
  PROVE  WorkersInv'
<1>1. /\ setUp \in SUBSET Loggers /\ IsFiniteSet(setUp) /\ handlers \in SUBSET Instances
      /\ IsFiniteSet(handlers) /\ attached \in [Loggers -> SUBSET Instances]
      /\ at \in [Instances -> Phases]
      /\ UNCHANGED <<ends, setUp, handlers, cut, progressVars>>
  BY DEF WorkersInv, Typed, Adds, Turn
<1>2. LogInv
  BY DEF WorkersInv
<1>3. CASE BeginLoop(i, "add", "adding", setUp) /\ UNCHANGED attached
  <2>1. "adding" \in Phases
    BY DEF Phases, Before
  <2>2. /\ at[i] = "add" /\ at' \in [Instances -> Phases] /\ at'[i] = "adding"
        /\ \A j \in Instances : j # i => at'[j] = at[j] /\ loop'[j] = loop[j]
        /\ loop' \in [Instances -> Loops] /\ loop'[i].todo = setUp /\ LoopLocked'
    BY <1>1, <1>3, <2>1, BeginFacts
  <2>3. Registered' /\ Attached'
    <3>1. \A j \in Instances : j # i => AttachedOf(j)'
      BY <1>1, <1>2, <1>3, <2>2, AttachedStays DEF LogInv, Attached
    <3>2. AttachedOf(i)'
      BY <2>2 DEF AttachedOf, Runs, Ends
    <3>3. Registered'
      BY <1>1, <1>2, <1>3, <2>2 DEF LogInv, Registered, Before, Runs, Ends, After
    <3> QED BY <3>1, <3>2, <3>3 DEF Attached
  <2>4. Meets' /\ Detached'
    BY <1>1, <1>2, <1>3, <2>2 DEF LogInv, Meets, Detached
  <2>5. SamePart(at[i], at'[i])
    BY <2>2 DEF SamePart, Before, Ends, After
  <2> QED BY <1>1, <1>3, <2>2, <2>3, <2>4, <2>5, TypesStay, ReportStays DEF WorkersInv, LogInv
<1>4. CASE /\ at[i] = "adding" /\ UNCHANGED <<at, logLock>>
           /\ \E l : /\ Visits(i, l)
                    /\ attached' = IF Matching(i, l) THEN [attached EXCEPT ![l] = @ \cup {i}]
                                   ELSE attached
  <2>1. PICK l : /\ Visits(i, l)
                 /\ attached' = IF Matching(i, l) THEN [attached EXCEPT ![l] = @ \cup {i}]
                                ELSE attached
    BY <1>4
  <2>2. /\ loop' \in [Instances -> Loops] /\ loop'[i].todo = loop[i].todo \ {l}
        /\ \A j \in Instances : j # i => loop'[j] = loop[j]
        /\ \A j \in Instances : j # i => at[j] \notin {"adding", "attaching", "detaching"}
        /\ LoopLocked'
    BY <1>4, <2>1, VisitFacts
  <2>3. l \in setUp /\ l \in Loggers
    BY <1>1, <1>2, <1>4, <2>1 DEF LogInv, Meets, Visits
  <2>4. /\ attached' \in [Loggers -> SUBSET Instances]
        /\ \A m \in Loggers : attached[m] \subseteq attached'[m]
        /\ \A m \in Loggers : attached'[m] \subseteq attached[m] \cup {i}
        /\ \A m \in Loggers : m # l => attached'[m] = attached[m]
    BY <1>1, <2>1, <2>3
  <2>5. Registered'
    BY <1>1, <1>2, <1>4 DEF LogInv, Registered
  <2>6. Attached'
    <3>1. \A j \in Instances : j # i => AttachedOf(j)'
      BY <1>1, <1>2, <1>4, <2>2, <2>4, AttachedStays DEF LogInv, Attached
    <3>2. AttachedOf(i)'
      BY <1>4 DEF AttachedOf, Runs, Ends
    <3> QED BY <3>1, <3>2 DEF Attached
  <2>7. Meets'
    BY <1>1, <1>2, <1>4, <2>2 DEF LogInv, Meets
  <2>8. Detached'
    BY <1>1, <1>2, <1>4, <2>2, <2>3, <2>4 DEF LogInv, Detached
  <2>9. SamePart(at[i], at'[i])
    BY <1>4 DEF SamePart, Before, Runs, Ends, After
  <2> QED BY <1>1, <1>4, <2>2, <2>4, <2>5, <2>6, <2>7, <2>8, <2>9, TypesStay, ReportStays
          DEF WorkersInv, LogInv
<1>5. CASE Fails(i) /\ UNCHANGED <<loop, attached>>
  BY <1>1, <1>5, FailStep
<1>6. CASE EndLoop(i, "adding", "enter", setUp) /\ UNCHANGED attached
  <2>1. "enter" \in Phases
    BY DEF Phases, Before
  <2>2. /\ at[i] = "adding" /\ at' \in [Instances -> Phases] /\ at'[i] = "enter"
        /\ \A j \in Instances : j # i => at'[j] = at[j] /\ loop'[j] = loop[j]
        /\ loop' \in [Instances -> Loops] /\ LoopLocked'
    BY <1>6, <2>1, EndFacts
  <2>3. Registered' /\ Attached'
    <3>1. \A j \in Instances : j # i => AttachedOf(j)'
      BY <1>1, <1>2, <1>6, <2>2, AttachedStays DEF LogInv, Attached
    <3>2. AttachedOf(i)'
      BY <2>2 DEF AttachedOf, Runs, Ends
    <3>3. Registered'
      BY <1>1, <1>2, <1>6, <2>2 DEF LogInv, Registered, Before, Runs, Ends, After
    <3> QED BY <3>1, <3>2, <3>3 DEF Attached
  <2>4. Meets' /\ Detached'
    BY <1>1, <1>2, <1>6, <2>2 DEF LogInv, Meets, Detached
  <2>5. SamePart(at[i], at'[i])
    BY <2>2 DEF SamePart, Before, Runs, Ends, After
  <2> QED BY <1>1, <1>6, <2>2, <2>3, <2>4, <2>5, TypesStay, ReportStays DEF WorkersInv, LogInv
<1> QED BY <1>3, <1>4, <1>5, <1>6 DEF Adds, Turn, Visits

LEMMA EntersStep ==
  ASSUME WorkersInv, NEW i \in Instances, Enters(i)
  PROVE  WorkersInv'
<1>1. /\ at[i] = "enter" /\ at' = [at EXCEPT ![i] = "start"] /\ handlers' = handlers \cup {i}
      /\ UNCHANGED <<loop, ends, setUp, attached, cut, logLock, progressVars>>
  BY DEF Enters, Goes
<1>2. "start" \in Phases /\ Typed
  BY DEF Phases, Before, WorkersInv
<1>3. /\ at' \in [Instances -> Phases] /\ at'[i] = "start"
      /\ \A j \in Instances : j # i => at'[j] = at[j]
  BY <1>1, <1>2, OneMoves
<1>4. IsFiniteSet(handlers') /\ handlers' \in SUBSET Instances
  BY <1>1, <1>2, FS_AddElement DEF Typed
<1>5. Typed'
  BY <1>1, <1>2, <1>3, <1>4, TypesStay DEF Typed
<1>6. LoopLocked' /\ Registered'
  BY <1>1, <1>3 DEF WorkersInv, LogInv, LoopLocked, Registered, Before, Runs, Ends, After
<1>7. Attached'
  <2>1. \A j \in Instances : j # i => AttachedOf(j)'
    BY <1>1, <1>2, <1>3, AttachedStays DEF Typed, WorkersInv, LogInv, Attached
  <2>2. AttachedOf(i)'
    BY <1>3 DEF AttachedOf, Runs, Ends
  <2> QED BY <2>1, <2>2 DEF Attached
<1>8. Meets' /\ Detached'
  BY <1>1, <1>3 DEF WorkersInv, LogInv, Meets, Detached
<1>9. SamePart(at[i], at'[i])
  BY <1>1, <1>3 DEF SamePart, Before, Runs, Ends, After
<1> QED BY <1>1, <1>3, <1>5, <1>6, <1>7, <1>8, <1>9, ReportStays DEF WorkersInv, LogInv

-----------------------------------------------------------------------------
(* get_logger *)

\* A new logger enters the set that other workers may be in a loop over: they
\* fail, or have not begun.
LEMMA NewLoggerStep ==
  ASSUME WorkersInv, NEW i \in Instances, NEW k \in Kinds, Goes(i, "running", "logger"),
         <<k, i>> \notin setUp, setUp' = setUp \cup {<<k, i>>},
         loop' = [loop EXCEPT ![i].logger = <<<<k, i>>>>],
         UNCHANGED <<ends, handlers, attached, cut, logLock, progressVars>>
  PROVE  WorkersInv'
<1>1. "logger" \in Phases /\ Typed /\ LogInv /\ at[i] = "running"
  BY DEF Phases, Runs, WorkersInv, Goes
<1>2. /\ at' \in [Instances -> Phases] /\ at'[i] = "logger"
      /\ \A j \in Instances : j # i => at'[j] = at[j]
  BY <1>1, OneMoves DEF Goes
<1>3. <<k, i>> \in Loggers /\ <<<<k, i>>>> \in Seq(Loggers)
  BY DEF Loggers
<1>4. /\ loop' \in [Instances -> Loops] /\ loop'[i].logger = <<<<k, i>>>>
      /\ \A j \in Instances : j # i => loop'[j] = loop[j]
  <2>1. loop[i] \in Loops /\ loop \in [Instances -> Loops]
    BY <1>1, LoopFields DEF Typed
  <2> DEFINE given == [loop[i] EXCEPT !.logger = <<<<k, i>>>>]
  <2>2. given \in Loops /\ given.logger = <<<<k, i>>>>
    BY <1>3, <2>1 DEF Loops
  <2>3. loop' = [loop EXCEPT ![i] = given]
    OBVIOUS
  <2> HIDE DEF given
  <2> QED BY <2>1, <2>2, <2>3
<1>5. /\ setUp' \in SUBSET Loggers /\ IsFiniteSet(setUp')
      /\ Cardinality(setUp') = Cardinality(setUp) + 1 /\ Cardinality(setUp) \in Nat
  BY <1>1, <1>3, FS_AddElement, FS_CardinalityType DEF Typed
<1>6. Typed'
  BY <1>1, <1>2, <1>4, <1>5, TypesStay DEF Typed
<1>7. LoopLocked' /\ Registered'
  BY <1>1, <1>2 DEF LogInv, LoopLocked, Registered, Before, Runs, Ends, After
<1>8. Attached'
  <2>1. ASSUME NEW j \in Instances, j # i PROVE AttachedOf(j)'
    <3>1. \A m \in Kinds : <<m, j>> \in setUp' => <<m, j>> \in setUp
      BY <2>1
    <3> QED BY <1>1, <1>2, <1>4, <2>1, <3>1, AttachedStays DEF Typed, LogInv, Attached
  <2>2. NewLogger(i)'
    BY <1>4 DEF NewLogger
  <2>3. ASSUME NEW m \in Kinds, <<m, i>> \in setUp' \ cut'
        PROVE  i \in attached'[<<m, i>>] \/ Made(i, <<m, i>>)'
    <3>1. CASE m = k
      BY <1>2, <1>4, <3>1 DEF Made
    <3>2. CASE m # k
      <4>1. <<m, i>> \in setUp \ cut
        BY <2>3, <3>2
      <4>2. i \in attached[<<m, i>>]
        BY <1>1, <4>1 DEF LogInv, Attached, AttachedOf, Made, Runs
      <4> QED BY <4>2
    <3> QED BY <3>1, <3>2
  <2>4. AttachedOf(i)'
    BY <1>2, <2>2, <2>3 DEF AttachedOf
  <2> QED BY <2>1, <2>4 DEF Attached
<1>9. Meets'
  BY <1>1, <1>2, <1>4 DEF LogInv, Meets
<1>10. Detached'
  <2>1. \A m, p \in Nat : m <= p => m <= p + 1 /\ m # p + 1
    OBVIOUS
  <2>2. ASSUME NEW j \in Instances, at'[j] = "detaching"
        PROVE  loop'[j].size <= Cardinality(setUp') /\ loop'[j].size # Cardinality(setUp')
    <3>1. j # i /\ loop'[j] = loop[j] /\ loop[j].size <= Cardinality(setUp)
          /\ loop[j].size \in Nat
      BY <1>1, <1>2, <1>4, <2>2, LoopFields DEF LogInv, Detached
    <3>2. loop[j].size <= Cardinality(setUp) + 1 /\ loop[j].size # Cardinality(setUp) + 1
      BY <1>5, <2>1, <3>1
    <3> QED BY <1>5, <3>1, <3>2
  <2> QED BY <1>1, <1>2, <2>2 DEF LogInv, Detached
<1>11. SamePart(at[i], at'[i])
  BY <1>1, <1>2 DEF SamePart, Before, Runs, Ends, After
<1>12. ReportInv'
  BY <1>2, <1>11, ReportStays
<1> QED BY <1>6, <1>7, <1>8, <1>9, <1>10, <1>12 DEF WorkersInv, LogInv

LEMMA GetsLoggerStep ==
  ASSUME WorkersInv, NEW i \in Instances, GetsLogger(i)
  PROVE  WorkersInv'
<1>1. /\ setUp \in SUBSET Loggers /\ IsFiniteSet(setUp) /\ handlers \in SUBSET Instances
      /\ IsFiniteSet(handlers) /\ attached \in [Loggers -> SUBSET Instances]
      /\ at \in [Instances -> Phases]
      /\ UNCHANGED <<ends, handlers, progressVars>>
  BY DEF WorkersInv, Typed, GetsLogger
<1>2. LogInv
  BY DEF WorkersInv
<1>3. CASE /\ Goes(i, "running", "logger")
           /\ \E k \in Kinds : /\ <<k, i>> \notin setUp /\ setUp' = setUp \cup {<<k, i>>}
                               /\ loop' = [loop EXCEPT ![i].logger = <<<<k, i>>>>]
           /\ UNCHANGED <<attached, cut, logLock>>
  BY <1>1, <1>3, NewLoggerStep
<1>4. CASE BeginLoop(i, "logger", "attaching", handlers) /\ UNCHANGED <<setUp, attached, cut>>
  <2>1. "attaching" \in Phases
    BY DEF Phases, Runs
  <2>2. /\ at[i] = "logger" /\ at' \in [Instances -> Phases] /\ at'[i] = "attaching"
        /\ \A j \in Instances : j # i => at'[j] = at[j] /\ loop'[j] = loop[j]
        /\ loop' \in [Instances -> Loops] /\ loop'[i].todo = handlers
        /\ loop'[i].logger = loop[i].logger /\ LoopLocked'
    BY <1>4, <2>1, BeginFacts
  <2>3. Registered'
    BY <1>1, <1>2, <1>4, <2>2 DEF LogInv, Registered, Before, Runs, Ends, After
  <2>4. Attached'
    <3>1. \A j \in Instances : j # i => AttachedOf(j)'
      BY <1>1, <1>2, <1>4, <2>2, AttachedStays DEF LogInv, Attached
    <3>2. AttachedOf(i) /\ i \in handlers
      BY <1>2, <2>2 DEF LogInv, Attached, Registered, Runs
    <3>3. AttachedOf(i)'
      BY <1>4, <2>2, <3>2 DEF AttachedOf, NewLogger, Made, Runs
    <3> QED BY <3>1, <3>3 DEF Attached
  <2>5. Meets'
    BY <1>1, <1>2, <1>4, <2>2 DEF LogInv, Meets, Registered, After
  <2>6. Detached'
    BY <1>1, <1>2, <1>4, <2>2 DEF LogInv, Detached
  <2>7. SamePart(at[i], at'[i])
    BY <2>2 DEF SamePart, Before, Runs, Ends, After
  <2> QED BY <1>1, <1>4, <2>2, <2>3, <2>4, <2>5, <2>6, <2>7, TypesStay, ReportStays
          DEF WorkersInv, LogInv
<1>5. CASE /\ at[i] = "attaching" /\ UNCHANGED <<at, logLock, setUp, cut>>
           /\ \E h : /\ Visits(i, h)
                    /\ attached' = IF Matching(h, Head(loop[i].logger))
                                   THEN [attached EXCEPT ![Head(loop[i].logger)] = @ \cup {h}]
                                   ELSE attached
  <2>1. PICK k \in Kinds : loop[i].logger = <<<<k, i>>>> /\ <<k, i>> \in setUp
    BY <1>2, <1>5 DEF LogInv, Attached, AttachedOf, NewLogger
  <2> DEFINE l == <<k, i>>
  <2>2. Head(loop[i].logger) = l /\ l \in Loggers /\ l \in setUp /\ l[2] = i
    BY <2>1 DEF Loggers
  <2>3. PICK h : /\ Visits(i, h)
                 /\ attached' = IF Matching(h, l) THEN [attached EXCEPT ![l] = @ \cup {h}]
                                ELSE attached
    BY <1>5, <2>2
  <2>4. /\ loop' \in [Instances -> Loops] /\ loop'[i].todo = loop[i].todo \ {h}
        /\ loop'[i].logger = loop[i].logger
        /\ \A j \in Instances : j # i => loop'[j] = loop[j]
        /\ \A j \in Instances : j # i => at[j] \notin {"adding", "attaching", "detaching"}
        /\ LoopLocked'
    BY <1>5, <2>3, VisitFacts
  <2>5. h \in Instances /\ at[h] \notin {"detaching", "done", "stopped"}
    BY <1>2, <1>5, <2>3 DEF LogInv, Meets, Visits
  <2>6. Matching(i, l)
    BY <2>2, WorkersAssumption DEF Matching
  <2> HIDE DEF l
  <2>7. /\ attached' \in [Loggers -> SUBSET Instances]
        /\ \A m \in Loggers : attached[m] \subseteq attached'[m]
        /\ \A m \in Loggers : attached'[m] \subseteq attached[m] \cup {h}
        /\ \A m \in Loggers : m # l => attached'[m] = attached[m]
        /\ h = i => i \in attached'[l]
    BY <1>1, <2>2, <2>3, <2>5, <2>6
  <2>8. Registered'
    BY <1>1, <1>2, <1>5 DEF LogInv, Registered
  <2>9. Attached'
    <3>1. \A j \in Instances : j # i => AttachedOf(j)'
      BY <1>1, <1>2, <1>5, <2>4, <2>7, AttachedStays DEF LogInv, Attached
    <3>2. AttachedOf(i) /\ NewLogger(i)'
      BY <1>2, <1>5, <2>4 DEF LogInv, Attached, AttachedOf, NewLogger
    <3>3. ASSUME NEW m \in Kinds, <<m, i>> \in setUp \ cut
          PROVE  i \in attached'[<<m, i>>] \/ Made(i, <<m, i>>)'
      <4>1. <<m, i>> \in Loggers
        BY DEF Loggers
      <4>2. i \in attached[<<m, i>>] \/ Made(i, <<m, i>>)
        BY <1>5, <3>2, <3>3 DEF AttachedOf, Runs
      <4> QED BY <1>5, <2>4, <2>7, <4>1, <4>2 DEF Made
    <3>4. i \in loop'[i].todo \/ i \in attached'[Head(loop'[i].logger)]
      BY <1>5, <2>2, <2>4, <2>7, <3>2 DEF AttachedOf
    <3>5. AttachedOf(i)'
      BY <1>5, <3>2, <3>3, <3>4 DEF AttachedOf
    <3> QED BY <3>1, <3>5 DEF Attached
  <2>10. Meets'
    BY <1>1, <1>2, <1>5, <2>4 DEF LogInv, Meets
  <2>11. Detached'
    BY <1>1, <1>2, <1>5, <2>2, <2>4, <2>5, <2>7 DEF LogInv, Detached
  <2>12. SamePart(at[i], at'[i])
    BY <1>5 DEF SamePart, Before, Runs, Ends, After
  <2> QED BY <1>1, <1>5, <2>4, <2>7, <2>8, <2>9, <2>10, <2>11, <2>12, TypesStay, ReportStays
          DEF WorkersInv, LogInv
<1>6. CASE /\ at[i] = "attaching" /\ at' = [at EXCEPT ![i] = "running"]
           /\ loop' = [loop EXCEPT ![i] = NoLoop] /\ UNCHANGED <<setUp, attached>>
           /\ \/ cut' = cut \cup {Head(loop[i].logger)}
              \/ loop[i].todo = {} /\ cut' = cut
  <2>1. "running" \in Phases /\ NoLoop \in Loops
    BY DEF Phases, Runs, NoLoop, Loops
  <2>2. /\ at' \in [Instances -> Phases] /\ at'[i] = "running"
        /\ \A j \in Instances : j # i => at'[j] = at[j]
    BY <1>6, <2>1, OneMoves DEF WorkersInv
  <2>3. loop' \in [Instances -> Loops] /\ \A j \in Instances : j # i => loop'[j] = loop[j]
    BY <1>6, <2>1 DEF WorkersInv, Typed
  <2>4. LoopLocked' /\ Registered'
    BY <1>1, <1>2, <1>6, <2>2 DEF LogInv, LoopLocked, Registered, Before, Runs, Ends, After
  <2>5. Attached'
    <3>1. \A j \in Instances : j # i => AttachedOf(j)'
      BY <1>1, <1>2, <1>6, <2>2, <2>3, AttachedStays DEF LogInv, Attached
    <3>2. ASSUME NEW m \in Kinds, <<m, i>> \in setUp \ cut' PROVE i \in attached[<<m, i>>]
      <4>1. i \in attached[<<m, i>>] \/ loop[i].logger = <<<<m, i>>>>
        BY <1>2, <1>6, <3>2 DEF LogInv, Attached, AttachedOf, Made, Runs
      <4>2. Head(<<<<m, i>>>>) = <<m, i>>
        OBVIOUS
      <4>3. CASE cut' = cut \cup {Head(loop[i].logger)}
        BY <3>2, <4>1, <4>2, <4>3
      <4>4. CASE loop[i].todo = {}
        <5>1. i \in attached[Head(loop[i].logger)]
          BY <1>2, <1>6, <4>4 DEF LogInv, Attached, AttachedOf
        <5> QED BY <4>1, <4>2, <5>1
      <4> QED BY <1>6, <4>3, <4>4
    <3>3. AttachedOf(i)'
      BY <1>6, <2>2, <3>2 DEF AttachedOf
    <3> QED BY <3>1, <3>3 DEF Attached
  <2>6. Meets' /\ Detached'
    BY <1>1, <1>2, <1>6, <2>2, <2>3 DEF LogInv, Meets, Detached
  <2>7. SamePart(at[i], at'[i])
    BY <1>6, <2>2 DEF SamePart, Before, Runs, Ends, After
  <2> QED BY <1>1, <1>6, <2>2, <2>3, <2>4, <2>5, <2>6, <2>7, TypesStay, ReportStays
          DEF WorkersInv, LogInv
<1> QED BY <1>3, <1>4, <1>5, <1>6 DEF GetsLogger, Turn, Visits, EndLoop, Goes

-----------------------------------------------------------------------------
(* remove_file_handler *)

LEMMA PopsStep ==
  ASSUME WorkersInv, NEW i \in Instances, Goes(i, "remove", "removing"),
         handlers' = handlers \ {i},
         UNCHANGED <<loop, ends, setUp, attached, cut, logLock, progressVars>>
  PROVE  WorkersInv'
<1>1. "removing" \in Phases /\ Typed /\ LogInv /\ at[i] = "remove"
  BY DEF Phases, After, WorkersInv, Goes
<1>2. /\ at' \in [Instances -> Phases] /\ at'[i] = "removing"
      /\ \A j \in Instances : j # i => at'[j] = at[j]
  BY <1>1, OneMoves DEF Goes
<1>3. IsFiniteSet(handlers') /\ handlers' \in SUBSET Instances
  BY <1>1, FS_Subset DEF Typed
<1>4. Typed'
  BY <1>1, <1>2, <1>3, TypesStay DEF Typed
<1>5. LoopLocked' /\ Registered'
  BY <1>1, <1>2 DEF LogInv, LoopLocked, Registered, Before, Runs, Ends, After
<1>6. Attached'
  <2>1. \A j \in Instances : j # i => AttachedOf(j)'
    BY <1>1, <1>2, AttachedStays DEF Typed, LogInv, Attached
  <2>2. AttachedOf(i)'
    BY <1>1, <1>2 DEF LogInv, Attached, AttachedOf, Made, Runs, Ends
  <2> QED BY <2>1, <2>2 DEF Attached
<1>7. Meets' /\ Detached'
  BY <1>1, <1>2 DEF LogInv, Meets, Detached
<1>8. SamePart(at[i], at'[i])
  BY <1>1, <1>2 DEF SamePart, Before, Runs, Ends, After
<1> QED BY <1>2, <1>4, <1>5, <1>6, <1>7, <1>8, ReportStays DEF WorkersInv, LogInv

LEMMA RemovesStep ==
  ASSUME WorkersInv, NEW i \in Instances, Removes(i)
  PROVE  WorkersInv'
<1>1. /\ setUp \in SUBSET Loggers /\ IsFiniteSet(setUp) /\ handlers \in SUBSET Instances
      /\ IsFiniteSet(handlers) /\ attached \in [Loggers -> SUBSET Instances]
      /\ at \in [Instances -> Phases]
      /\ UNCHANGED <<ends, setUp, cut, progressVars>>
  BY DEF WorkersInv, Typed, Removes
<1>2. LogInv
  BY DEF WorkersInv
<1>3. CASE /\ Goes(i, "remove", "removing") /\ handlers' = handlers \ {i}
           /\ UNCHANGED <<loop, attached, logLock>>
  BY <1>1, <1>3, PopsStep
<1>4. CASE BeginLoop(i, "removing", "detaching", setUp) /\ UNCHANGED <<handlers, attached>>
  <2>1. "detaching" \in Phases
    BY DEF Phases, After
  <2>2. /\ at[i] = "removing" /\ at' \in [Instances -> Phases] /\ at'[i] = "detaching"
        /\ \A j \in Instances : j # i => at'[j] = at[j] /\ loop'[j] = loop[j]
        /\ loop' \in [Instances -> Loops] /\ loop'[i].todo = setUp
        /\ loop'[i].size = Cardinality(setUp)
        /\ \A j \in Instances : at[j] \notin {"adding", "attaching", "detaching"}
        /\ LoopLocked'
    BY <1>4, <2>1, BeginFacts
  <2>3. Registered'
    BY <1>1, <1>2, <1>4, <2>2 DEF LogInv, Registered, Before, Runs, Ends, After
  <2>4. Attached'
    <3>1. \A j \in Instances : j # i => AttachedOf(j)'
      BY <1>1, <1>2, <1>4, <2>2, AttachedStays DEF LogInv, Attached
    <3>2. AttachedOf(i)'
      BY <2>2 DEF AttachedOf, Runs, Ends
    <3> QED BY <3>1, <3>2 DEF Attached
  <2>5. Meets'
    BY <1>1, <1>2, <1>4, <2>2 DEF LogInv, Meets
  <2>6. Cardinality(setUp) \in Nat
    BY <1>1, FS_CardinalityType
  <2>7. Detached'
    BY <1>1, <1>2, <1>4, <2>2, <2>6 DEF LogInv, Detached
  <2>8. SamePart(at[i], at'[i])
    BY <2>2 DEF SamePart, Before, Runs, Ends, After
  <2> QED BY <1>1, <1>4, <2>2, <2>3, <2>4, <2>5, <2>7, <2>8, TypesStay, ReportStays
          DEF WorkersInv, LogInv
<1>5. CASE /\ at[i] = "detaching" /\ UNCHANGED <<at, logLock, handlers>>
           /\ \E l : /\ Visits(i, l)
                    /\ attached' = [attached EXCEPT ![l] = @ \ {i}]
  <2>1. PICK l : Visits(i, l) /\ attached' = [attached EXCEPT ![l] = @ \ {i}]
    BY <1>5
  <2>2. /\ loop' \in [Instances -> Loops] /\ loop'[i].todo = loop[i].todo \ {l}
        /\ loop'[i].size = loop[i].size
        /\ \A j \in Instances : j # i => loop'[j] = loop[j]
        /\ \A j \in Instances : j # i => at[j] \notin {"adding", "attaching", "detaching"}
        /\ LoopLocked'
    BY <1>5, <2>1, VisitFacts
  <2>3. l \in Loggers
    BY <1>1, <1>2, <1>5, <2>1 DEF LogInv, Meets, Visits
  <2>4. /\ attached' \in [Loggers -> SUBSET Instances]
        /\ \A m \in Loggers : attached'[m] \subseteq attached[m]
        /\ \A m \in Loggers : attached[m] \subseteq attached'[m] \cup {i}
        /\ i \notin attached'[l]
    BY <1>1, <2>1, <2>3
  <2>5. Registered'
    BY <1>1, <1>2, <1>5 DEF LogInv, Registered
  <2>6. Attached'
    <3>1. \A j \in Instances : j # i => AttachedOf(j)'
      BY <1>1, <1>2, <1>5, <2>2, <2>4, AttachedStays DEF LogInv, Attached
    <3>2. AttachedOf(i)'
      BY <1>5 DEF AttachedOf, Runs, Ends
    <3> QED BY <3>1, <3>2 DEF Attached
  <2>7. Meets'
    BY <1>1, <1>2, <1>5, <2>2 DEF LogInv, Meets
  <2>8. Detached'
    BY <1>1, <1>2, <1>5, <2>2, <2>3, <2>4 DEF LogInv, Detached
  <2>9. SamePart(at[i], at'[i])
    BY <1>5 DEF SamePart, Before, Runs, Ends, After
  <2> QED BY <1>1, <1>5, <2>2, <2>4, <2>5, <2>6, <2>7, <2>8, <2>9, TypesStay, ReportStays
          DEF WorkersInv, LogInv
<1>6. CASE Fails(i) /\ UNCHANGED <<loop, attached, handlers>>
  BY <1>1, <1>6, FailStep
<1>7. CASE /\ EndLoop(i, "detaching", IF ends[i] = "none" THEN "stopped" ELSE "done", setUp)
           /\ UNCHANGED <<handlers, attached>>
  <2>1. PICK to \in {"stopped", "done"} : EndLoop(i, "detaching", to, setUp)
    BY <1>7
  <2>2. to \in Phases \ {"adding", "attaching", "detaching"}
    BY DEF Phases, After
  <2>3. /\ at[i] = "detaching" /\ at' \in [Instances -> Phases] /\ at'[i] = to
        /\ \A j \in Instances : j # i => at'[j] = at[j] /\ loop'[j] = loop[j]
        /\ loop' \in [Instances -> Loops] /\ loop[i].todo = {}
        /\ Cardinality(setUp) = loop[i].size
        /\ \A j \in Instances : j # i => at[j] \notin {"adding", "attaching", "detaching"}
        /\ LoopLocked'
    BY <2>1, <2>2, EndFacts
  <2>4. Registered'
    BY <1>1, <1>2, <1>7, <2>3 DEF LogInv, Registered, Before, Runs, Ends, After
  <2>5. Attached'
    <3>1. \A j \in Instances : j # i => AttachedOf(j)'
      BY <1>1, <1>2, <1>7, <2>3, AttachedStays DEF LogInv, Attached
    <3>2. AttachedOf(i)'
      BY <2>3 DEF AttachedOf, Runs, Ends
    <3> QED BY <3>1, <3>2 DEF Attached
  <2>6. Meets'
    BY <1>1, <1>2, <1>7, <2>3 DEF LogInv, Meets
  <2>7. \A l \in Loggers : i \notin attached[l]
    BY <1>2, <2>3 DEF LogInv, Detached
  <2>8. Detached'
    BY <1>1, <1>2, <1>7, <2>3, <2>7 DEF LogInv, Detached
  <2>9. SamePart(at[i], at'[i])
    BY <2>3 DEF SamePart, Before, Runs, Ends, After
  <2> QED BY <1>1, <1>7, <2>3, <2>4, <2>5, <2>6, <2>8, <2>9, TypesStay, ReportStays
          DEF WorkersInv, LogInv
<1> QED BY <1>3, <1>4, <1>5, <1>6, <1>7 DEF Removes, Turn, Visits

-----------------------------------------------------------------------------
(* run_instance and the progress manager *)

\* A worker that goes on without a look at the loggers.
Quietly(from, to) ==
  /\ to \in Phases \ {"adding", "logger", "attaching", "removing", "detaching", "done", "stopped"}
  /\ to \in Before => from \in Before
  /\ to \in {"start", "check"} => from \in {"start", "check"}
  /\ to \in {"remove"} \cup Runs \cup Ends => from \in {"check", "running"} \cup Ends

LEMMA LogsStay ==
  ASSUME WorkersInv, NEW i \in Instances, at' \in [Instances -> Phases],
         \A j \in Instances : j # i => at'[j] = at[j],
         Quietly(at[i], at'[i]), UNCHANGED <<loop, loggerVars>>
  PROVE  LogInv'
<1>1. LogInv /\ Typed /\ UNCHANGED <<loop, setUp, handlers, attached, cut, logLock>>
  BY DEF WorkersInv, loggerVars
<1>2. LoopLocked'
  BY <1>1 DEF LogInv, LoopLocked, Quietly
<1>3. Registered'
  BY <1>1 DEF LogInv, Registered, Quietly, Before, Runs, Ends, After
<1>4. Attached'
  <2>1. \A j \in Instances : j # i => AttachedOf(j)'
    BY <1>1, AttachedStays DEF Typed, LogInv, Attached
  <2>2. AttachedOf(i)'
    BY <1>1 DEF LogInv, Registered, Attached, AttachedOf, Made, Quietly, Before, Runs, Ends
  <2> QED BY <2>1, <2>2 DEF Attached
<1>5. Meets' /\ Detached'
  BY <1>1 DEF LogInv, Meets, Detached, Quietly
<1> QED BY <1>2, <1>3, <1>4, <1>5 DEF LogInv

LEMMA TakesStep ==
  ASSUME WorkersInv, NEW i \in Instances, TakesInstance(i)
  PROVE  WorkersInv'
<1>1. /\ at[i] = "queued" /\ at' = [at EXCEPT ![i] = "add"]
      /\ UNCHANGED <<loop, ends, loggerVars, progressVars>>
  BY DEF TakesInstance, Goes
<1>2. "add" \in Phases /\ Typed
  BY DEF Phases, Before, WorkersInv
<1>3. /\ at' \in [Instances -> Phases] /\ at'[i] = "add"
      /\ \A j \in Instances : j # i => at'[j] = at[j]
  BY <1>1, <1>2, OneMoves
<1>4. Typed'
  BY <1>1, <1>2, <1>3, TypesStay DEF Typed, loggerVars
<1>5. Quietly(at[i], at'[i]) /\ SamePart(at[i], at'[i])
  BY <1>1, <1>2, <1>3 DEF Quietly, SamePart, Before, Runs, Ends, After
<1> QED BY <1>1, <1>3, <1>4, <1>5, LogsStay, ReportStays DEF WorkersInv

\* A worker starts, finds an earlier result, or its run ends: the tables stay.
LEMMA RunsStep ==
  ASSUME WorkersInv, NEW i \in Instances,
         StartsInstance(i) \/ ChecksSkip(i) \/ RunsInstance(i)
  PROVE  WorkersInv'
<1>1. /\ UNCHANGED <<loop, loggerVars, byStatus, report, snapshot>> /\ Typed
      /\ tableLock' = tableLock
  BY DEF StartsInstance, ProgressIs, ChecksSkip, RunsInstance, progressVars, Free, WorkersInv
<1>2. PICK to \in {"check", "append", "running", "remove"} :
        /\ at' = [at EXCEPT ![i] = to]
        /\ \/ at[i] = "start" /\ to = "check" /\ ends' = ends
           \/ at[i] = "check" /\ to = "running" /\ ends' = ends
           \/ at[i] = "running" /\ to = "remove" /\ ends' = ends
           \/ /\ at[i] \in {"check", "running"} /\ to = "append"
              /\ \E s \in Reports : ends' = [ends EXCEPT ![i] = s]
  BY DEF StartsInstance, ChecksSkip, RunsInstance, Goes, Reports
<1>3. to \in Phases
  BY DEF Phases, Before, Runs, Ends, After
<1>4. /\ at' \in [Instances -> Phases] /\ at'[i] = to
      /\ \A j \in Instances : j # i => at'[j] = at[j]
  BY <1>1, <1>2, <1>3, OneMoves
<1>5. /\ ends' \in [Instances -> Reports \cup {"none"}]
      /\ \A j \in Instances : j # i => ends'[j] = ends[j]
      /\ IF to = "append" THEN ends'[i] \in Reports ELSE ends'[i] = ends[i]
  BY <1>1, <1>2 DEF Typed
<1>6. Typed'
  BY <1>1, <1>4, <1>5 DEF Typed, loggerVars
<1>7. Quietly(at[i], at'[i])
  BY <1>2, <1>3, <1>4 DEF Quietly, Before, Runs, Ends
<1>8. LogInv'
  BY <1>1, <1>4, <1>7, LogsStay
<1>9. \A s \in Reports : \A m \in DOMAIN byStatus[s] : byStatus[s][m] \in Instances
  BY <1>1 DEF Typed, Dumps
<1>10. ReportInv /\ at[i] \in Before \cup Runs /\ ends[i] = "none"
  BY <1>2 DEF WorkersInv, ReportInv, Entered, Before, Runs
<1>11. SaveLocked' /\ TablesOnce'
  BY <1>1, <1>2, <1>4, <1>10 DEF ReportInv, SaveLocked, TablesOnce, Once
<1>12. Entered'
  <2>1. \A s \in Reports : \A m \in DOMAIN byStatus[s] : byStatus[s][m] # i
    BY <1>9, <1>10 DEF ReportInv, Entered
  <2> QED BY <1>1, <1>2, <1>4, <1>5, <1>9, <1>10, <2>1
          DEF ReportInv, Entered, Has, Before, Runs, Ends, After
<1>13. Written'
  <2>1. at'[i] # "saving" /\ (at'[i] \in After => ends'[i] = "none")
    BY <1>2, <1>4, <1>5, <1>10 DEF After
  <2> QED BY <1>1, <1>4, <1>5, <1>10, <2>1 DEF ReportInv, Written, Has
<1> QED BY <1>6, <1>8, <1>11, <1>12, <1>13 DEF WorkersInv, ReportInv

\* The entry: an instance that is in no list yet enters the one of its status.
LEMMA EndsStep ==
  ASSUME WorkersInv, NEW i \in Instances, EndsInstance(i)
  PROVE  WorkersInv'
<1>1. /\ at[i] = "append" /\ at' = [at EXCEPT ![i] = "advance"]
      /\ byStatus' = [byStatus EXCEPT ![ends[i]] = Append(@, i)]
      /\ UNCHANGED <<ends, report, snapshot, loop, loggerVars, tableLock>>
  BY DEF EndsInstance, Goes, ProgressIs
<1>2. "advance" \in Phases /\ Typed /\ ReportInv /\ ends[i] \in Reports
  BY <1>1 DEF Phases, Ends, WorkersInv, ReportInv, Entered
<1>3. /\ at' \in [Instances -> Phases] /\ at'[i] = "advance"
      /\ \A j \in Instances : j # i => at'[j] = at[j]
  BY <1>1, <1>2, OneMoves
<1> DEFINE old == byStatus[ends[i]]
           new == byStatus'[ends[i]]
<1>4. old \in Seq(Instances) /\ Len(old) \in Nat /\ DOMAIN old = 1 .. Len(old)
  BY <1>2, LenProperties DEF Typed, Dumps
<1>5. new = Append(old, i) /\ \A s \in Reports : s # ends[i] => byStatus'[s] = byStatus[s]
  BY <1>1, <1>2 DEF Typed, Dumps
<1>6. /\ new \in Seq(Instances) /\ DOMAIN new = 1 .. (Len(old) + 1)
      /\ \A m \in 1 .. Len(old) : new[m] = old[m]
      /\ new[Len(old) + 1] = i
  <2>1. /\ new \in Seq(Instances) /\ Len(new) = Len(old) + 1
        /\ \A m \in 1 .. Len(old) : new[m] = old[m]
        /\ new[Len(old) + 1] = i
    BY <1>4, <1>5, AppendProperties
  <2>2. \A s \in Seq(Instances) : DOMAIN s = 1 .. Len(s)
    BY LenProperties
  <2> HIDE DEF old, new
  <2>3. DOMAIN new = 1 .. Len(new)
    BY <2>1, <2>2
  <2>4. DOMAIN new = 1 .. (Len(old) + 1)
    BY <2>1, <2>3
  <2> QED BY <2>1, <2>4
<1>7. byStatus' \in Dumps
  BY <1>1, <1>2, <1>5, <1>6 DEF Typed, Dumps
<1>8. Typed'
  BY <1>1, <1>2, <1>3, <1>7 DEF Typed, loggerVars
<1>9. LogInv'
  <2>1. Quietly(at[i], at'[i])
    BY <1>1, <1>2, <1>3 DEF Quietly, Before, Runs, Ends
  <2> QED BY <1>1, <1>3, <2>1, LogsStay
\* Where an entry of the new table comes from.
<1>10. \A s \in Reports : \A m \in DOMAIN byStatus'[s] :
         \/ m \in DOMAIN byStatus[s] /\ byStatus'[s][m] = byStatus[s][m]
         \/ s = ends[i] /\ m = Len(old) + 1 /\ byStatus'[s][m] = i
  BY <1>4, <1>5, <1>6
<1>11. \A s \in Reports : \A m \in DOMAIN byStatus[s] :
         m \in DOMAIN byStatus'[s] /\ byStatus'[s][m] = byStatus[s][m]
  BY <1>4, <1>5, <1>6
<1>12. \A s \in Reports : \A m \in DOMAIN byStatus[s] :
         byStatus[s][m] \in Instances /\ byStatus[s][m] # i
  <2>1. \A s \in Reports : \A m \in DOMAIN byStatus[s] : byStatus[s][m] \in Instances
    BY <1>2 DEF Typed, Dumps
  <2> QED BY <1>1, <1>2, <2>1 DEF ReportInv, Entered
<1> HIDE DEF old, new
<1>13. SaveLocked' /\ TablesOnce'
  <2>1. Once(byStatus)'
    BY <1>2, <1>10, <1>12 DEF ReportInv, TablesOnce, Once
  <2> QED BY <1>1, <1>2, <1>3, <2>1 DEF ReportInv, SaveLocked, TablesOnce, Once
<1>14. Entered'
  <2>1. ASSUME NEW s \in Reports, NEW m \in DOMAIN byStatus'[s]
        PROVE  at'[byStatus'[s][m]] \notin Before \cup Runs \cup {"append"}
    <3>1. "advance" \notin Before \cup Runs \cup {"append"}
      BY DEF Before, Runs
    <3> QED BY <1>2, <1>3, <1>10, <1>12, <2>1, <3>1 DEF ReportInv, Entered
  <2>2. Has(byStatus, i)'
    <3>1. Len(old) + 1 \in DOMAIN byStatus'[ends[i]] /\ byStatus'[ends[i]][Len(old) + 1] = i
      BY <1>4, <1>6 DEF new
    <3> QED BY <1>1, <3>1 DEF Has
  <2>3. ASSUME NEW j \in Instances, ends[j] \in Reports, Has(byStatus, j) PROVE Has(byStatus, j)'
    BY <1>1, <1>11, <2>3 DEF Has
  <2>4. \A j \in Instances : ends[j] \in Reports \cup {"none"}
    BY <1>2 DEF Typed
  <2> QED BY <1>1, <1>2, <1>3, <2>1, <2>2, <2>3, <2>4
          DEF ReportInv, Entered, Before, Runs, Ends, After
<1>15. Written'
  BY <1>1, <1>2, <1>3 DEF ReportInv, Written, Has, After
<1> QED BY <1>8, <1>9, <1>13, <1>14, <1>15 DEF WorkersInv, ReportInv

LEMMA AdvancesStep ==
  ASSUME WorkersInv, NEW i \in Instances, Advances(i)
  PROVE  WorkersInv'
<1>1. /\ at[i] = "advance" /\ at' = [at EXCEPT ![i] = "save"]
      /\ UNCHANGED <<ends, byStatus, report, snapshot, loop, loggerVars, tableLock>>
  BY DEF Advances, Goes, ProgressIs, Free
<1>2. "save" \in Phases /\ Typed /\ ReportInv
  BY DEF Phases, Ends, WorkersInv
<1>3. /\ at' \in [Instances -> Phases] /\ at'[i] = "save"
      /\ \A j \in Instances : j # i => at'[j] = at[j]
  BY <1>1, <1>2, OneMoves
<1>4. Typed'
  BY <1>1, <1>2, <1>3 DEF Typed, loggerVars
<1>5. Quietly(at[i], at'[i])
  BY <1>1, <1>2, <1>3 DEF Quietly, Before, Runs, Ends
<1>6. LogInv'
  BY <1>1, <1>3, <1>5, LogsStay
<1>7. \A s \in Reports : \A m \in DOMAIN byStatus[s] : byStatus[s][m] \in Instances
  BY <1>2 DEF Typed, Dumps
<1>8. SaveLocked' /\ TablesOnce' /\ Written'
  BY <1>1, <1>2, <1>3 DEF ReportInv, SaveLocked, TablesOnce, Once, Written, Has, After
<1>9. Entered'
  BY <1>1, <1>2, <1>3, <1>7 DEF ReportInv, Entered, Has, Before, Runs, Ends, After
<1> QED BY <1>4, <1>6, <1>8, <1>9 DEF WorkersInv, ReportInv

\* The dump holds what all have entered, and nobody else writes before it is written.
LEMMA DumpsStep ==
  ASSUME WorkersInv, NEW i \in Instances, DumpsReport(i)
  PROVE  WorkersInv'
<1>1. /\ at[i] = "save" /\ at' = [at EXCEPT ![i] = "saving"]
      /\ tableLock = "free" /\ tableLock' = i
      /\ snapshot' = [snapshot EXCEPT ![i] = byStatus]
      /\ UNCHANGED <<ends, byStatus, report, loop, loggerVars>>
  BY DEF DumpsReport, Goes, ProgressIs, TableLockFree, Free
<1>2. "saving" \in Phases /\ Typed /\ ReportInv
  BY DEF Phases, Ends, WorkersInv
<1>3. /\ at' \in [Instances -> Phases] /\ at'[i] = "saving"
      /\ \A j \in Instances : j # i => at'[j] = at[j]
  BY <1>1, <1>2, OneMoves
<1>4. /\ snapshot' \in [Instances -> Dumps] /\ snapshot'[i] = byStatus
      /\ \A j \in Instances : j # i => snapshot'[j] = snapshot[j]
  BY <1>1, <1>2 DEF Typed
<1>5. Typed'
  BY <1>1, <1>2, <1>3, <1>4 DEF Typed, loggerVars
<1>6. Quietly(at[i], at'[i])
  BY <1>1, <1>2, <1>3 DEF Quietly, Before, Runs, Ends
<1>7. LogInv'
  BY <1>1, <1>3, <1>6, LogsStay
<1>8. \A s \in Reports : \A m \in DOMAIN byStatus[s] : byStatus[s][m] \in Instances
  BY <1>2 DEF Typed, Dumps
<1>9. \A j \in Instances : at[j] # "saving"
  BY <1>1, <1>2, WorkersAssumption DEF ReportInv, SaveLocked
<1>10. SaveLocked'
  BY <1>1, <1>3, <1>9 DEF SaveLocked
<1>11. TablesOnce'
  BY <1>1, <1>2, <1>4 DEF ReportInv, TablesOnce, Once
<1>12. Entered'
  BY <1>1, <1>2, <1>3, <1>8 DEF ReportInv, Entered, Has, Before, Runs, Ends, After
<1>13. Written'
  <2>1. ASSUME NEW j \in Instances, at'[j] \in After \/ j = i, ends[j] # "none"
        PROVE  Has(byStatus, j)
    BY <1>1, <1>2, <1>3, <2>1 DEF ReportInv, Entered, Ends, After
  <2>2. \A j \in Instances : at'[j] = "saving" => j = i
    BY <1>3, <1>9
  <2>3. \A j \in Instances : Has(byStatus, j) => Has(snapshot[i], j)'
    BY <1>1, <1>4 DEF Has
  <2>4. \A j \in Instances : at'[j] \in After /\ ends'[j] # "none" => Has(report, j)'
    BY <1>1, <1>2, <1>3 DEF ReportInv, Written, Has, After
  <2> QED BY <1>1, <2>1, <2>2, <2>3, <2>4 DEF Written
<1> QED BY <1>5, <1>7, <1>10, <1>11, <1>12, <1>13 DEF WorkersInv, ReportInv

LEMMA WritesStep ==
  ASSUME WorkersInv, NEW i \in Instances, WritesReport(i)
  PROVE  WorkersInv'
<1>1. /\ at[i] = "saving" /\ at' = [at EXCEPT ![i] = "remove"]
      /\ report' = snapshot[i] /\ snapshot' = [snapshot EXCEPT ![i] = NoDump]
      /\ UNCHANGED <<ends, byStatus, loop, loggerVars>>
  BY DEF WritesReport, Goes, ProgressIs
<1>2. "remove" \in Phases /\ Typed /\ ReportInv
  BY DEF Phases, After, WorkersInv
<1>3. /\ at' \in [Instances -> Phases] /\ at'[i] = "remove"
      /\ \A j \in Instances : j # i => at'[j] = at[j]
  BY <1>1, <1>2, OneMoves
<1>4. NoDump \in Dumps /\ Once(NoDump)
  <2>1. <<>> \in Seq(Instances) /\ DOMAIN <<>> = {}
    OBVIOUS
  <2> QED BY <2>1 DEF NoDump, Dumps, Once
<1>5. /\ snapshot' \in [Instances -> Dumps] /\ snapshot'[i] = NoDump
      /\ \A j \in Instances : j # i => snapshot'[j] = snapshot[j]
  BY <1>1, <1>2, <1>4 DEF Typed
<1>6. Typed'
  BY <1>1, <1>2, <1>3, <1>5 DEF Typed, loggerVars
<1>7. Quietly(at[i], at'[i])
  BY <1>1, <1>2, <1>3 DEF Quietly, Before, Runs, Ends
<1>8. LogInv'
  BY <1>1, <1>3, <1>7, LogsStay
<1>9. \A s \in Reports : \A m \in DOMAIN byStatus[s] : byStatus[s][m] \in Instances
  BY <1>2 DEF Typed, Dumps
<1>10. \A j \in Instances : at[j] = "saving" => j = i
  BY <1>1, <1>2 DEF ReportInv, SaveLocked
<1>11. SaveLocked'
  BY <1>3, <1>10 DEF SaveLocked
<1>12. TablesOnce'
  <2>1. \A j \in Instances : Once(snapshot[j])'
    BY <1>2, <1>4, <1>5 DEF ReportInv, TablesOnce, Once
  <2> QED BY <1>1, <1>2, <2>1 DEF ReportInv, TablesOnce, Once
<1>13. Entered'
  BY <1>1, <1>2, <1>3, <1>9 DEF ReportInv, Entered, Has, Before, Runs, Ends, After
<1>14. Written'
  <2>1. ASSUME NEW j \in Instances, at'[j] \in After, ends[j] # "none"
        PROVE  Has(snapshot[i], j)
    BY <1>1, <1>2, <1>3, <2>1 DEF ReportInv, Written
  <2>2. \A j \in Instances : Has(snapshot[i], j) => Has(report, j)'
    BY <1>1 DEF Has
  <2>3. \A j \in Instances : at'[j] # "saving"
    BY <1>3, <1>10
  <2> QED BY <1>1, <2>1, <2>2, <2>3 DEF Written
<1> QED BY <1>6, <1>8, <1>11, <1>12, <1>13, <1>14 DEF WorkersInv, ReportInv

-----------------------------------------------------------------------------
(* The invariant *)

LEMMA InitInv == WorkersInit => WorkersInv
<1> SUFFICES ASSUME WorkersInit PROVE WorkersInv
  OBVIOUS
<1>1. NoLoop \in Loops /\ NoDump \in Dumps /\ Once(NoDump)
  <2>1. <<>> \in Seq(Instances) /\ DOMAIN <<>> = {}
    OBVIOUS
  <2> QED BY <2>1 DEF NoDump, Dumps, Once, NoLoop, Loops
<1>2. Typed
  BY <1>1, FS_EmptySet DEF WorkersInit, Typed, Phases, Before
<1>3. \A i \in Instances : at[i] = "queued" /\ ends[i] = "none"
  BY DEF WorkersInit
<1>4. LoopLocked /\ Registered /\ Attached
  BY <1>3 DEF WorkersInit, LoopLocked, Registered, Attached, AttachedOf, Runs, Ends, After
<1>5. Meets /\ Detached
  BY <1>3 DEF WorkersInit, Meets, Detached
<1>6. SaveLocked /\ Written /\ TablesOnce
  BY <1>1, <1>3 DEF WorkersInit, SaveLocked, Written, TablesOnce, After
<1>7. Entered
  <2>1. \A s \in Reports : DOMAIN byStatus[s] = {}
    BY DEF WorkersInit, NoDump
  <2> QED BY <1>3, <2>1 DEF Entered, Before, Runs, Ends, After
<1> QED BY <1>2, <1>4, <1>5, <1>6, <1>7 DEF WorkersInv, LogInv, ReportInv

LEMMA NextInv == WorkersInv /\ [WorkersNext]_workerVars => WorkersInv'
<1> SUFFICES ASSUME WorkersInv, [WorkersNext]_workerVars PROVE WorkersInv'
  OBVIOUS
<1>1. CASE WorkersNext
  <2>1. PICK i \in Instances :
          \/ TakesInstance(i) \/ Adds(i) \/ Enters(i) \/ GetsLogger(i) \/ Removes(i)
          \/ CountFails(i) \/ StartsInstance(i) \/ ChecksSkip(i) \/ RunsInstance(i)
          \/ EndsInstance(i) \/ Advances(i) \/ DumpsReport(i) \/ WritesReport(i)
    BY <1>1 DEF WorkersNext
  <2> QED BY <2>1, TakesStep, AddsStep, EntersStep, GetsLoggerStep, RemovesStep, RunsStep,
             EndsStep, AdvancesStep, DumpsStep, WritesStep, FailStep DEF CountFails
<1>2. CASE UNCHANGED workerVars
  <2>1. UNCHANGED <<at, loop, ends, setUp, handlers, attached, cut, logLock,
                    byStatus, report, snapshot, tableLock>>
    BY <1>2 DEF workerVars, loggerVars, progressVars
  <2>2. Typed'
    BY <2>1 DEF WorkersInv, Typed
  <2>3. LogInv'
    BY <2>1 DEF WorkersInv, LogInv, LoopLocked, Registered, Attached, AttachedOf, NewLogger, Made,
       Meets, Detached
  <2>4. ReportInv'
    BY <2>1 DEF WorkersInv, ReportInv, SaveLocked, Entered, Written, Has, TablesOnce, Once
  <2> QED BY <2>2, <2>3, <2>4 DEF WorkersInv
<1> QED BY <1>1, <1>2

-----------------------------------------------------------------------------
(* Theorems *)

\* The types, who holds which lock, the loggers that are set up and the handlers
\* that reach them, and what every copy of the table of ends says.
THEOREM WorkersIsInvariant == WorkersSpec => []WorkersInv
<1> QED BY InitInv, NextInv, PTL DEF WorkersSpec

\* add_file_handler, get_logger and remove_file_handler under any interleaving of
\* any number of workers: a log file receives every logger of its own instance as
\* long as that runs, but for those whose set-up was cut short, and none, those
\* included, once it was removed.
THEOREM LogsFollow == WorkersSpec => []LogsFollowInstances
<1>1. ASSUME WorkersInv PROVE LogsFollowInstances
  <2> SUFFICES ASSUME NEW i \in Instances
               PROVE  /\ at[i] \in {"running", "append"} =>
                           \A k \in Kinds :
                             <<k, i>> \in setUp \ cut => i \in attached[<<k, i>>]
                      /\ at[i] \in {"done", "stopped"} =>
                           i \notin handlers /\ \A l \in Loggers : i \notin attached[l]
    BY DEF LogsFollowInstances
  <2>1. AttachedOf(i)
    BY <1>1 DEF WorkersInv, LogInv, Attached
  <2> QED BY <1>1, <2>1
          DEF WorkersInv, LogInv, Registered, AttachedOf, Made, Detached, Runs, Ends, After
<1> QED BY <1>1, WorkersIsInvariant, PTL

\* _save_overview_data_yaml: the report that every worker overwrites has, once it
\* was written for an instance, that instance in it under its own exit status, and
\* no instance twice.
THEOREM ReportKeeps == WorkersSpec => []ReportKeepsEveryEnd
<1>1. ASSUME WorkersInv PROVE ReportKeepsEveryEnd
  <2> SUFFICES ASSUME NEW i \in Instances
               PROVE  /\ at[i] \in {"remove", "removing", "detaching", "done"} /\ ends[i] # "none" =>
                           Contains(report[ends[i]], i)
                      /\ \A s, t \in Reports : \A m \in DOMAIN report[s], p \in DOMAIN report[t] :
                           report[s][m] = i /\ report[t][p] = i => s = t /\ m = p
    BY DEF ReportKeepsEveryEnd
  <2>1. ASSUME at[i] \in {"remove", "removing", "detaching", "done"}, ends[i] # "none"
        PROVE  Contains(report[ends[i]], i)
    <3>1. Has(report, i) /\ ends[i] \in Reports
      BY <1>1, <2>1 DEF WorkersInv, ReportInv, Typed, Written, After
    <3>2. report[ends[i]] \in Seq(Instances)
      BY <1>1, <3>1 DEF WorkersInv, Typed, Dumps
    <3>3. DOMAIN report[ends[i]] = 1 .. Len(report[ends[i]])
      BY <3>2, LenProperties
    <3> QED BY <3>1, <3>3 DEF Has, Contains
  <2>2. Once(report)
    BY <1>1 DEF WorkersInv, ReportInv, TablesOnce
  <2> QED BY <2>1, <2>2 DEF Once
<1> QED BY <1>1, WorkersIsInvariant, PTL

=============================================================================
