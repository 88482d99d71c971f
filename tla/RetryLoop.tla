------------------------------ MODULE RetryLoop -----------------------------
(***************************************************************************)
(* RetryAgent (sweagent/agent/agents.py) with its retry loops              *)
(* (sweagent/agent/reviewer.py): several DefaultAgent attempts on one      *)
(* instance within a common budget, each reviewed or kept for a chooser,   *)
(* and one of them picked as the result.                                   *)
(*                                                                         *)
(* AgentLoop models an attempt in detail; here it is what RetryAgent sees: *)
(* queries that cost money and the way it ends.  Money is a natural        *)
(* number; a limit that is not positive is no limit.                       *)
(***************************************************************************)
EXTENDS Integers, Sequences, FiniteSets

CONSTANTS
  LoopTypes,      \* which of "score" and "chooser" are considered
  AttemptLimits,  \* per_instance_cost_limit of each of agent_configs
  CostLimit,      \* retry_loop.cost_limit
  MinBudget,      \* min_budget_for_new_attempt
  MaxAttempts,    \* max_attempts
  MaxAccepts,     \* max_accepts, 0 for no limit
  Scores,         \* mean scores the reviewer can give
  AcceptScore,    \* accept_score
  Penalty,        \* failure_score_penalty
  HasPreselector, \* chooser.preselector is configured
  MaxPrice,       \* the most one query, or one review, can cost
  MaxCalls        \* bound: queries of one attempt

ASSUME RetryAssumption ==
  /\ LoopTypes \subseteq {"score", "chooser"}
  /\ AttemptLimits \in Seq(Nat) /\ AttemptLimits # <<>>
  /\ CostLimit \in Nat /\ MinBudget \in Nat
  /\ MaxAttempts \in Nat \ {0} /\ MaxAccepts \in Nat
  /\ Scores \subseteq Int /\ AcceptScore \in Int /\ Penalty \in Nat
  /\ HasPreselector \in BOOLEAN
  /\ MaxPrice \in Nat \ {0} /\ MaxCalls \in Nat \ {0}

VARIABLES
  loopType,   \* retry_loop.type
  pc,         \* "attempt", "submitted", "reset", "choose", "return", "done" or "raised"
  limit,      \* per_instance_cost_limit of the running attempt
  spent,      \* its instance_cost
  calls,      \* its api_calls
  status,     \* the exit status in its info
  attempts,   \* _submissions with their reviews
  total,      \* _total_instance_attempt_stats.instance_cost: the ended attempts
  reviewCost, \* review_model_stats.instance_cost
  choice,     \* _chooser_output.chosen_idx, 0 before there is one
  best,       \* best_attempt_idx in the trajectory file, 0 without an info
  result,     \* best_attempt_idx of the AgentRunResult
  overTotal   \* ghost: some query has hit the total cost limit

attemptVars == <<limit, spent, calls, status>>
loopVars == <<attempts, total, reviewCost>>
bestVars == <<choice, best, result>>
vars == <<loopType, pc, attemptVars, loopVars, bestVars, overTotal>>

-----------------------------------------------------------------------------
(* Values *)

\* "partial" is "submitted (...)", "failed" an exit status without a patch,
\* "none" no exit status at all.
ExitStatuses == {"none", "submitted", "partial", "failed"}
NoScore == -100
PassedReview(a) == a.score >= AcceptScore

Indices == 1 .. Len(attempts)
TotalCost == total + reviewCost

TypeOK ==
  /\ loopType \in LoopTypes
  /\ pc \in {"attempt", "submitted", "reset", "choose", "return", "done", "raised"}
  /\ limit \in Int /\ spent \in Nat /\ calls \in Nat
  /\ status \in ExitStatuses
  /\ attempts \in Seq([status : ExitStatuses, calls : Nat, score : Int])
  /\ total \in Nat /\ reviewCost \in Nat
  /\ choice \in 0 .. Len(attempts)
  /\ best \in 0 .. Len(attempts)
  /\ result \in 0 .. Len(attempts)
  /\ overTotal \in BOOLEAN

-----------------------------------------------------------------------------
(* _setup_agent, _next_attempt *)

\* The n-th attempt gets its configured limit, or what is left of the budget.
EffectiveLimitMutant(n) ==
  LET configured == AttemptLimits[((n - 1) % Len(AttemptLimits)) + 1]
      remaining == CostLimit - total
  IN IF remaining < configured THEN remaining ELSE configured
EffectiveLimit(n) ==
  LET configured == AttemptLimits[((n - 1) % Len(AttemptLimits)) + 1]
      remaining == CostLimit - TotalCost
  IN IF remaining < configured THEN remaining ELSE configured

Init ==
  /\ loopType \in LoopTypes
  /\ total = 0 /\ reviewCost = 0 /\ attempts = <<>>
  /\ pc = "attempt" /\ limit = EffectiveLimit(1)
  /\ spent = 0 /\ calls = 0 /\ status = "none"
  /\ choice = 0 /\ best = 0 /\ result = 0 /\ overTotal = FALSE

NextAttempt ==
  /\ pc = "reset"
  /\ pc' = "attempt"
  /\ limit' = EffectiveLimit(Len(attempts) + 1)
  /\ spent' = 0 /\ calls' = 0 /\ status' = "none"
  /\ UNCHANGED <<loopVars, bestVars, overTotal>>

\* hard_reset or the setup of the new agent fails: the attempts so far are lost.
ResetRaises ==
  /\ pc = "reset"
  /\ pc' = "raised"
  /\ UNCHANGED <<attemptVars, loopVars, bestVars, overTotal>>

-----------------------------------------------------------------------------
(* step: one step of the attempt's agent *)

\* The failsafe check, 1.1 times the cost limit.
Overspent == 0 < CostLimit /\ 11 * CostLimit < 10 * TotalCost
Failsafe ==
  /\ pc = "attempt" /\ Overspent
  /\ pc' = "submitted"
  /\ UNCHANGED <<attemptVars, loopVars, bestVars, overTotal>>

Stepping == pc = "attempt" /\ ~Overspent

AgentQuery ==
  /\ Stepping /\ ~overTotal /\ calls < MaxCalls
  /\ calls' = calls + 1
  /\ \E price \in 1 .. MaxPrice : spent' = spent + price
  /\ IF 0 < limit /\ limit < spent'
     THEN pc' = "submitted" /\ status' \in {"partial", "failed"}     \* exit_cost
     ELSE UNCHANGED <<pc, status>>
  /\ UNCHANGED <<limit, loopVars, bestVars, overTotal>>

AgentEnds ==
  /\ Stepping
  /\ pc' = "submitted"
  /\ status' \in {"submitted", "partial", "failed"}
  /\ UNCHANGED <<limit, spent, calls, loopVars, bestVars, overTotal>>

\* An exception of agent.step() is answered with an autosubmission whose step
\* only serves to leave the loop: info keeps what it held.
AgentStepRaises ==
  /\ Stepping
  /\ pc' = "submitted"
  /\ status' \in {"none", "submitted", "partial"}
  /\ UNCHANGED <<limit, spent, calls, loopVars, bestVars, overTotal>>

\* The total cost limit, or an autosubmission that raises as well.
RunRaises ==
  /\ Stepping
  /\ pc' = "raised"
  /\ overTotal' \in {overTotal, TRUE}
  /\ UNCHANGED <<attemptVars, loopVars, bestVars>>

-----------------------------------------------------------------------------
(* on_submit, _finalize_agent_run and retry *)

\* retry() after n attempts that cost so much, reviews included.
RetriesMutantA(n, cost, accepted) ==
  /\ n < MaxAttempts
  /\ loopType = "score" /\ 0 < MaxAccepts => accepted < MaxAccepts
  /\ 0 < MinBudget => MinBudget <= CostLimit - cost
RetriesMutantB(n, cost, accepted) ==
  /\ 0 < CostLimit => cost <= CostLimit
  /\ n < MaxAttempts
  /\ loopType = "score" /\ 0 < MaxAccepts => accepted <= MaxAccepts
  /\ 0 < MinBudget => MinBudget <= CostLimit - cost
RetriesMutantC(n, cost, accepted) ==
  /\ 0 < CostLimit => cost <= CostLimit
  /\ n <= MaxAttempts
  /\ loopType = "score" /\ 0 < MaxAccepts => accepted < MaxAccepts
  /\ 0 < MinBudget => MinBudget <= CostLimit - cost
Retries(n, cost, accepted) ==
  /\ 0 < CostLimit => cost <= CostLimit
  /\ n < MaxAttempts
  /\ loopType = "score" /\ 0 < MaxAccepts => accepted < MaxAccepts
  /\ 0 < MinBudget => MinBudget <= CostLimit - cost

\* Reviewer.review: without one valid answer the score is NoScore, and anything
\* but a plain submission pays the penalty.
RawScores == Scores \cup {NoScore}
PaidScores == RawScores \cup {s - Penalty : s \in RawScores}

\* A total cost limit hit by a review query is swallowed with every other exception.
Review(score, fee) ==
  IF loopType = "chooser"
  THEN score = NoScore /\ fee = 0 /\ UNCHANGED overTotal
  ELSE \E raw \in RawScores :
         /\ score = raw - (IF status = "submitted" THEN 0 ELSE Penalty)
         /\ overTotal' \in {overTotal, TRUE}

OnSubmit ==
  /\ pc = "submitted"
  /\ \E score \in PaidScores, fee \in 0 .. MaxPrice :
       /\ Review(score, fee)
       /\ attempts' = Append(attempts, [status |-> status, calls |-> calls, score |-> score])
       /\ reviewCost' = reviewCost + fee
  /\ total' = total + spent
  /\ LET accepted == Cardinality({k \in DOMAIN attempts' : PassedReview(attempts'[k])})
     IN pc' = IF Retries(Len(attempts'), total' + reviewCost', accepted)
              THEN "reset" ELSE "choose"
  /\ UNCHANGED <<attemptVars, bestVars>>

-----------------------------------------------------------------------------
(* get_best *)

\* ScoreRetryLoop: the highest score, then the fewest calls (none counts as
\* infinitely many), then the first.
Ahead(i, j) ==
  LET effort(k) == IF attempts[k].calls = 0 THEN MaxCalls + 1 ELSE attempts[k].calls
  IN \/ attempts[i].score > attempts[j].score
     \/ /\ attempts[i].score = attempts[j].score
        /\ effort(i) < effort(j) \/ (effort(i) = effort(j) /\ i < j)
BestScored == CHOOSE i \in Indices : \A j \in Indices \ {i} : Ahead(i, j)

\* Chooser.choose: two plain submissions hide all others.
Candidates ==
  LET plain == {i \in Indices : attempts[i].status = "submitted"}
  IN IF Cardinality(plain) >= 2 THEN plain ELSE Indices

\* The answer is a position in the list shown, which the preselector may have
\* cut; an unusable answer means the first of that list.
ChooserAnswersMutant(i) == i \in 1 .. Cardinality(Candidates)
ChooserAnswers(i) ==
  \E shown \in SUBSET Candidates :
    /\ shown = Candidates \/ (HasPreselector /\ Cardinality(Candidates) > 2)
    /\ i \in shown

\* get_best caches an answer.  A failing chooser query leaves `response` unbound;
\* get_trajectory_data turns the UnboundLocalError into the first attempt.
GetBest(i) ==
  \/ loopType = "score" /\ i = BestScored /\ UNCHANGED <<choice, overTotal>>
  \/ loopType = "chooser" /\ choice # 0 /\ i = choice /\ UNCHANGED <<choice, overTotal>>
  \/ loopType = "chooser" /\ choice = 0 /\ ChooserAnswers(i) /\ choice' = i /\ UNCHANGED overTotal
  \/ loopType = "chooser" /\ choice = 0 /\ i = 1 /\ UNCHANGED choice
     /\ overTotal' \in {overTotal, TRUE}

\* The trajectory file is written, then its data is computed once more for the
\* result.
SaveChosenMutant ==
  /\ pc = "choose"
  /\ \E i \in Indices : GetBest(i) /\ best' = i + 1
  /\ pc' = "return"
  /\ UNCHANGED <<attemptVars, loopVars, result>>
SaveChosen ==
  /\ pc = "choose"
  /\ \E i \in Indices : GetBest(i) /\ best' = i
  /\ pc' = "return"
  /\ UNCHANGED <<attemptVars, loopVars, result>>

Return ==
  /\ pc = "return"
  /\ \E i \in Indices : GetBest(i) /\ result' = i
  /\ pc' = "done"
  /\ UNCHANGED <<attemptVars, loopVars, best>>

-----------------------------------------------------------------------------

Attempt == Failsafe \/ AgentQuery \/ AgentEnds \/ AgentStepRaises \/ RunRaises
Step == /\ Attempt \/ OnSubmit \/ NextAttempt \/ ResetRaises \/ SaveChosen \/ Return
        /\ UNCHANGED loopType

Ended == pc \in {"done", "raised"}
Rest == Ended /\ UNCHANGED vars

Next == Step \/ Rest

Spec == Init /\ [][Next]_vars

\* The thread runs, and an attempt with a positive limit ends (AgentLoop!Terminates:
\* each query costs something).  Nothing is assumed of an attempt without a limit,
\* nor of hard_reset, which starts a container that may hold it for ever.
Open == pc = "attempt" /\ limit <= 0
FairSpec == Spec /\ WF_vars(Step /\ pc # "reset" /\ ~Open)

-----------------------------------------------------------------------------
(* Properties *)

\* The failsafe of step() "should not actually happen": an attempt never starts
\* or continues once ended attempts and reviews cost 1.1 times the limit.
FailsafeUnreachable == pc = "attempt" => ~Overspent

\* All attempts and reviews but the last stay within the cost limit, up to the
\* one query that runs over it, while the running attempt has a limit.
BudgetHolds ==
  0 < CostLimit /\ 0 < limit /\ pc \in {"attempt", "submitted"}
    => TotalCost + spent <= CostLimit + MaxPrice

\* The loop stops at max_accepts accepted attempts, whatever order accepted
\* and rejected ones come in, and the best of them is accepted if any is.
AcceptsBounded ==
  LET accepted == {i \in Indices : PassedReview(attempts[i])}
  IN /\ loopType = "score" /\ 0 < MaxAccepts => Cardinality(accepted) <= MaxAccepts
     /\ loopType = "score" /\ pc = "done" /\ accepted # {} => result \in accepted

\* The chooser's answer is one of the attempts it was shown: with two plain
\* submissions, never an attempt that ended in an error.
ChoiceIsCandidate == choice # 0 => choice \in Candidates

\* The run ends within max_attempts attempts, unless the environment does not come
\* back from a reset or an attempt that is left without a limit goes on for ever.
RunEnds ==
  \/ <>(Ended /\ Len(attempts) <= MaxAttempts)
  \/ <>[](pc = "reset" /\ Len(attempts) < MaxAttempts)
  \/ <>[](Open /\ Len(attempts) < MaxAttempts)

\* What the source says of itself and the code does not do.

\* cost_limit is "the maximum cost to spend on all attempts"; a budget that is
\* spent exactly becomes the limit 0 of the next attempt, which is no limit.
BudgetAlways ==
  0 < CostLimit /\ pc \in {"attempt", "submitted"} => TotalCost + spent <= CostLimit + MaxPrice

\* "Got n submitted submissions, only using them."
OnlySubmitted == pc = "done" => result \in Candidates

\* The total cost limit "causes everything to stop".
TotalLimitStops == overTotal => pc # "done"
=============================================================================
