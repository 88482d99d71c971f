--------------------------- MODULE RetryLoopProofs --------------------------
(***************************************************************************)
(* Proofs about RetryLoop for any limits, prices, scores and numbers of    *)
(* attempts: the types, the budget, the accepted attempts, and which       *)
(* attempt is picked as the result.                                        *)
(***************************************************************************)
EXTENDS RetryLoop, FiniteSetTheorems, WellFoundedInduction, SequenceTheorems, TLAPS

-----------------------------------------------------------------------------
(* The inductive invariant *)

Attempts == [status : ExitStatuses, calls : Nat, score : Int]
Accepted == {i \in Indices : PassedReview(attempts[i])}

Running == {"attempt", "submitted"}
Looping == Running \cup {"reset"}

\* What retry() has checked still holds while the next attempt runs: only the
\* end of an attempt adds to the cost of the loop.
WithinBudget ==
  0 < CostLimit =>
    /\ pc \in {"attempt", "reset"} => TotalCost <= CostLimit
    /\ pc \in Running => limit <= CostLimit - TotalCost

\* An attempt with a limit ends with the query that exceeds it.
WithinLimit ==
  0 < limit =>
    /\ pc = "attempt" => spent <= limit
    /\ pc = "submitted" => spent <= limit + MaxPrice

\* The loop goes on below its bounds, and ends within them.
WithinBounds ==
  /\ Len(attempts) <= MaxAttempts
  /\ pc \in Looping => Len(attempts) < MaxAttempts
  /\ loopType = "score" /\ 0 < MaxAccepts =>
       /\ Cardinality(Accepted) <= MaxAccepts
       /\ pc \in Looping => Cardinality(Accepted) < MaxAccepts

\* Nothing is chosen before the last attempt has ended, then there is something
\* to choose from, and the score loop chooses once for all.
WellChosen ==
  /\ pc \in Looping => choice = 0
  /\ pc \in {"choose", "return", "done"} => attempts # <<>>
  /\ choice # 0 => choice \in Candidates
  /\ pc = "done" /\ loopType = "score" => result = BestScored

RetryInv == TypeOK /\ WithinBudget /\ WithinLimit /\ WithinBounds /\ WellChosen

-----------------------------------------------------------------------------
(* The order of the attempts *)

Lower(i) == {j \in Indices : Ahead(j, i)}

LEMMA AttemptFields ==
  ASSUME TypeOK, NEW i \in Indices
  PROVE  /\ attempts[i].score \in Int /\ attempts[i].calls \in Nat
         /\ attempts[i].status \in ExitStatuses /\ i \in Nat
<1>1. attempts[i] \in Attempts /\ Len(attempts) \in Nat
  BY ElementOfSeq, LenProperties DEF TypeOK, Attempts, Indices
<1> QED BY <1>1 DEF Attempts, Indices

LEMMA NoneIsAheadOfItself ==
  ASSUME TypeOK, NEW i \in Indices
  PROVE  ~Ahead(i, i)
BY AttemptFields, RetryAssumption DEF Ahead

LEMMA AheadIsTransitive ==
  ASSUME TypeOK, NEW i \in Indices, NEW j \in Indices, NEW k \in Indices,
         Ahead(i, j), Ahead(j, k)
  PROVE  Ahead(i, k)
BY AttemptFields, RetryAssumption DEF Ahead

LEMMA AheadIsTotal ==
  ASSUME TypeOK, NEW i \in Indices, NEW j \in Indices, i # j
  PROVE  Ahead(i, j) \/ Ahead(j, i)
BY AttemptFields, RetryAssumption DEF Ahead

\* Some attempt has none ahead of it: the sets of attempts ahead are finite, so
\* one of them is minimal, and with a member it would not be.
LEMMA SomeoneLeads ==
  ASSUME TypeOK, attempts # <<>>
  PROVE  \E i \in Indices : Lower(i) = {}
<1> DEFINE R == StrictSubsetOrdering(Indices)
           T == {Lower(i) : i \in Indices}
<1>1. Len(attempts) \in Nat \ {0}
  BY EmptySeq DEF TypeOK
<1>2. IsFiniteSet(Indices) /\ 1 \in Indices
  BY <1>1, FS_Interval DEF Indices
<1>3. IsWellFoundedOn(R, SUBSET Indices)
  BY <1>2, FS_StrictSubsetOrderingWellFounded, FS_FiniteSubsetsOfFinite
<1>4. T \subseteq SUBSET Indices /\ T # {}
  BY <1>2 DEF Lower
<1> HIDE DEF R, T
<1>5. PICK L \in T : \A M \in T : <<M, L>> \notin R
  BY <1>3, <1>4, WFMin
<1>6. PICK i \in Indices : L = Lower(i)
  BY <1>5 DEF T
<1>7. ASSUME NEW j \in Lower(i) PROVE FALSE
  <2>1. j \in Indices /\ Ahead(j, i)
    BY DEF Lower
  <2>2. Lower(j) \subseteq Lower(i)
    BY <2>1, AheadIsTransitive DEF Lower
  <2>3. j \notin Lower(j)
    BY <2>1, NoneIsAheadOfItself DEF Lower
  <2>4. <<Lower(j), Lower(i)>> \in R
    BY <2>2, <2>3 DEF R, StrictSubsetOrdering, Lower
  <2> QED BY <1>5, <1>6, <2>1, <2>4 DEF T
<1> QED BY <1>7

\* max() of get_best is defined, and is ahead of every other attempt.
LEMMA BestIsAhead ==
  ASSUME TypeOK, attempts # <<>>
  PROVE  /\ BestScored \in Indices
         /\ \A j \in Indices \ {BestScored} : Ahead(BestScored, j)
<1>1. PICK i \in Indices : Lower(i) = {}
  BY SomeoneLeads
<1>2. \A j \in Indices \ {i} : Ahead(i, j)
  BY <1>1, AheadIsTotal DEF Lower
<1> QED BY <1>2 DEF BestScored

\* The best attempt passed its review if any did.
LEMMA BestIsAccepted ==
  ASSUME TypeOK, Accepted # {}
  PROVE  BestScored \in Accepted
<1>1. PICK i \in Indices : PassedReview(attempts[i])
  BY DEF Accepted
<1>2. attempts # <<>>
  BY EmptySeq DEF Indices
<1>3. BestScored \in Indices /\ (i # BestScored => Ahead(BestScored, i))
  BY <1>2, BestIsAhead
<1>4. i # BestScored => attempts[BestScored].score >= attempts[i].score
  BY <1>3, AttemptFields DEF Ahead
<1>5. PassedReview(attempts[BestScored])
  BY <1>1, <1>3, <1>4, AttemptFields, RetryAssumption DEF PassedReview
<1> QED BY <1>3, <1>5 DEF Accepted

LEMMA AcceptedIsFinite ==
  ASSUME TypeOK
  PROVE  /\ IsFiniteSet(Indices) /\ IsFiniteSet(Accepted)
         /\ Cardinality(Accepted) \in Nat
<1>1. Len(attempts) \in Nat
  BY LenProperties DEF TypeOK
<1>2. IsFiniteSet(Indices)
  BY <1>1, FS_Interval DEF Indices
<1> QED BY <1>2, FS_Subset, FS_CardinalityType DEF Accepted

-----------------------------------------------------------------------------
(* The end of an attempt *)

LEMMA SubmitAppends ==
  ASSUME TypeOK, OnSubmit
  PROVE  /\ attempts' \in Seq(Attempts)
         /\ Len(attempts') = Len(attempts) + 1
         /\ total' \in Nat /\ reviewCost' \in Nat /\ overTotal' \in BOOLEAN
<1>1. PICK score \in PaidScores, fee \in 0 .. MaxPrice :
        /\ Review(score, fee)
        /\ attempts' = Append(attempts, [status |-> status, calls |-> calls, score |-> score])
        /\ reviewCost' = reviewCost + fee
  BY DEF OnSubmit
<1>2. score \in Int /\ fee \in Nat
  BY <1>1, RetryAssumption DEF NoScore, RawScores, PaidScores
<1>3. [status |-> status, calls |-> calls, score |-> score] \in Attempts
  BY <1>2 DEF TypeOK, Attempts
<1>4. attempts \in Seq(Attempts)
  BY DEF TypeOK, Attempts
<1>5. attempts' \in Seq(Attempts) /\ Len(attempts') = Len(attempts) + 1
  BY <1>1, <1>3, <1>4, AppendProperties
<1>6. overTotal' \in BOOLEAN
  <2>1. overTotal' \in {overTotal, TRUE}
    BY <1>1 DEF Review
  <2>2. overTotal \in BOOLEAN
    BY DEF TypeOK
  <2> QED BY <2>1, <2>2, Zenon
<1>7. total' \in Nat /\ reviewCost' \in Nat
  BY <1>1, <1>2 DEF OnSubmit, TypeOK
<1> QED BY <1>5, <1>6, <1>7

LEMMA SubmitKeepsEarlier ==
  ASSUME TypeOK, OnSubmit
  PROVE  \A i \in Indices : i \in Indices' /\ attempts'[i] = attempts[i]
<1>1. PICK r : attempts' = Append(attempts, r)
  BY DEF OnSubmit
<1>2. r = attempts'[Len(attempts')] /\ Len(attempts) \in Nat
  <2>1. attempts \in Seq(Attempts \cup {r}) /\ r \in Attempts \cup {r}
    BY SeqMonotonic DEF TypeOK, Attempts
  <2> QED BY <1>1, <2>1, AppendProperties, LenProperties
<1>3. r \in Attempts
  BY <1>2, SubmitAppends, ElementOfSeq
<1>4. attempts \in Seq(Attempts)
  BY DEF TypeOK, Attempts
<1> QED BY <1>1, <1>2, <1>3, <1>4, AppendProperties DEF Indices

\* One more attempt, at most one more accepted attempt.
LEMMA SubmitAccepts ==
  ASSUME TypeOK, OnSubmit
  PROVE  /\ Cardinality(Accepted') \in Nat
         /\ Cardinality(Accepted') <= Cardinality(Accepted) + 1
         /\ DOMAIN attempts' = Indices'
<1>1. Len(attempts) \in Nat /\ DOMAIN attempts' = Indices'
  BY SubmitAppends, LenProperties DEF TypeOK, Indices
<1>2. Accepted' \subseteq Accepted \cup {Len(attempts')}
  BY <1>1, SubmitAppends, SubmitKeepsEarlier DEF Accepted, Indices, PassedReview
<1>3. /\ IsFiniteSet(Accepted \cup {Len(attempts')})
      /\ Cardinality(Accepted \cup {Len(attempts')}) \in Nat
      /\ Cardinality(Accepted \cup {Len(attempts')}) <= Cardinality(Accepted) + 1
  <2>1. IsFiniteSet(Accepted) /\ Cardinality(Accepted) \in Nat
    BY AcceptedIsFinite
  <2>2. /\ IsFiniteSet(Accepted \cup {Len(attempts')})
        /\ Cardinality(Accepted \cup {Len(attempts')}) =
             IF Len(attempts') \in Accepted THEN Cardinality(Accepted) ELSE Cardinality(Accepted) + 1
    BY <2>1, FS_AddElement
  <2> QED BY <2>1, <2>2
<1>4. IsFiniteSet(Accepted') /\ Cardinality(Accepted') <= Cardinality(Accepted \cup {Len(attempts')})
  BY <1>2, <1>3, FS_Subset
<1> QED BY <1>1, <1>3, <1>4, FS_CardinalityType, AcceptedIsFinite

-----------------------------------------------------------------------------
(* Types *)

LEMMA LimitIsInt ==
  ASSUME TotalCost \in Nat, NEW k \in Nat \ {0}
  PROVE  /\ EffectiveLimit(k) \in Int
         /\ EffectiveLimit(k) <= CostLimit - TotalCost
<1>1. Len(AttemptLimits) \in Nat \ {0}
  BY RetryAssumption, EmptySeq
<1>2. (k - 1) % Len(AttemptLimits) \in 0 .. Len(AttemptLimits) - 1
  BY <1>1
<1>3. AttemptLimits[((k - 1) % Len(AttemptLimits)) + 1] \in Nat
  BY <1>1, <1>2, RetryAssumption, ElementOfSeq
<1> QED BY <1>3, RetryAssumption DEF EffectiveLimit

LEMMA InitTyped == Init => TypeOK
<1> SUFFICES ASSUME Init PROVE TypeOK
  OBVIOUS
<1>1. TotalCost = 0
  BY DEF Init, TotalCost
<1>2. limit \in Int
  BY <1>1, LimitIsInt DEF Init
<1>3. overTotal \in BOOLEAN
  BY Zenon DEF Init
<1>4. attempts \in Seq([status : ExitStatuses, calls : Nat, score : Int]) /\ Len(attempts) = 0
  BY EmptySeq DEF Init
<1> QED BY <1>2, <1>3, <1>4 DEF Init, TypeOK, ExitStatuses

LEMMA AttemptTyped == TypeOK /\ Attempt /\ UNCHANGED loopType => TypeOK'
<1> SUFFICES ASSUME TypeOK, Attempt, UNCHANGED loopType PROVE TypeOK'
  OBVIOUS
<1> USE DEF TypeOK, Stepping, loopVars, bestVars, attemptVars, ExitStatuses
<1>1. CASE Failsafe
  BY <1>1 DEF Failsafe
<1>2. CASE AgentQuery
  BY <1>2 DEF AgentQuery
<1>3. CASE AgentEnds
  BY <1>3 DEF AgentEnds
<1>4. CASE AgentStepRaises
  BY <1>4 DEF AgentStepRaises
<1>5. CASE RunRaises
  BY <1>5 DEF RunRaises
<1> QED BY <1>1, <1>2, <1>3, <1>4, <1>5 DEF Attempt

LEMMA SubmitTyped ==
  ASSUME TypeOK, OnSubmit, UNCHANGED loopType
  PROVE  TypeOK'
<1>1. /\ attempts' \in Seq([status : ExitStatuses, calls : Nat, score : Int])
      /\ Len(attempts) \in Nat /\ Len(attempts') = Len(attempts) + 1
  BY SubmitAppends, LenProperties DEF TypeOK, Attempts
<1>2. pc' \in {"reset", "choose"} /\ UNCHANGED <<limit, spent, calls, status, choice, best, result>>
  BY DEF OnSubmit, attemptVars, bestVars
<1> QED BY <1>1, <1>2, SubmitAppends DEF TypeOK

LEMMA ResetTyped ==
  ASSUME TypeOK, NextAttempt \/ ResetRaises, UNCHANGED loopType
  PROVE  TypeOK'
<1>1. CASE NextAttempt
  <2>1. TotalCost \in Nat /\ Len(attempts) + 1 \in Nat \ {0}
    BY LenProperties DEF TypeOK, TotalCost
  <2>2. limit' \in Int
    BY <1>1, <2>1, LimitIsInt DEF NextAttempt
  <2> QED BY <1>1, <2>2 DEF NextAttempt, TypeOK, ExitStatuses, loopVars, bestVars
<1>2. CASE ResetRaises
  BY <1>2 DEF ResetRaises, TypeOK, attemptVars, loopVars, bestVars
<1> QED BY <1>1, <1>2

LEMMA ChooseTyped ==
  ASSUME TypeOK, SaveChosen \/ Return, UNCHANGED loopType
  PROVE  TypeOK'
<1>1. PICK i \in Indices : GetBest(i) /\ (SaveChosen => best' = i) /\ (Return => result' = i)
  BY DEF SaveChosen, Return
<1>2. choice' = choice \/ choice' = i
  BY <1>1, Zenon DEF GetBest
<1>3. overTotal' \in BOOLEAN
  <2>1. overTotal' \in {overTotal, TRUE}
    BY <1>1, Zenon DEF GetBest
  <2>2. overTotal \in BOOLEAN
    BY DEF TypeOK
  <2> QED BY <2>1, <2>2, Zenon
<1>4. i \in 0 .. Len(attempts)
  BY DEF Indices
<1> QED BY <1>1, <1>2, <1>3, <1>4 DEF SaveChosen, Return, TypeOK, attemptVars, loopVars

-----------------------------------------------------------------------------
(* The invariant is inductive *)

LEMMA InitInv == Init => RetryInv
<1> SUFFICES ASSUME Init PROVE RetryInv
  OBVIOUS
<1>1. TypeOK
  BY InitTyped
<1>2. TotalCost = 0 /\ limit = EffectiveLimit(1) /\ Len(attempts) = 0 /\ Indices = {}
  BY EmptySeq DEF Init, TotalCost, Indices
<1>3. WithinBudget
  BY <1>1, <1>2, LimitIsInt, RetryAssumption DEF WithinBudget, Running
<1>4. WithinLimit
  BY <1>1 DEF Init, WithinLimit, TypeOK
<1>5. Cardinality(Accepted) = 0
  BY <1>2, FS_EmptySet DEF Accepted
<1>6. WithinBounds
  BY <1>2, <1>5, RetryAssumption DEF WithinBounds
<1>7. WellChosen
  BY DEF Init, WellChosen
<1> QED BY <1>1, <1>3, <1>4, <1>6, <1>7 DEF RetryInv

\* A step of the attempt: a query is only made within the limits.
LEMMA AttemptStep ==
  ASSUME RetryInv, Attempt, UNCHANGED loopType
  PROVE  RetryInv'
<1> USE DEF Attempt, Stepping, attemptVars, loopVars, bestVars
<1>1. TypeOK /\ TypeOK'
  BY AttemptTyped DEF RetryInv
<1>2. /\ pc = "attempt" /\ pc' \in {"attempt", "submitted", "raised"}
      /\ UNCHANGED <<loopVars, bestVars, limit, loopType>>
  BY DEF Failsafe, AgentQuery, AgentEnds, AgentStepRaises, RunRaises
<1>3. WithinBudget'
  BY <1>2 DEF RetryInv, WithinBudget, TotalCost, Running
<1>4. WithinLimit'
  <2>1. CASE AgentQuery
    <3>1. PICK price \in 1 .. MaxPrice : spent' = spent + price
      BY <2>1 DEF AgentQuery
    <3> QED BY <1>1, <1>2, <2>1, <3>1, RetryAssumption
            DEF AgentQuery, RetryInv, TypeOK, WithinLimit
  <2>2. CASE ~AgentQuery
    <3>1. UNCHANGED spent /\ pc' # "attempt"
      BY <2>2 DEF Failsafe, AgentEnds, AgentStepRaises, RunRaises
    <3> QED BY <1>1, <1>2, <3>1, RetryAssumption DEF RetryInv, TypeOK, WithinLimit
  <2> QED BY <2>1, <2>2
<1>5. WithinBounds'
  BY <1>2 DEF RetryInv, WithinBounds, Accepted, Indices, PassedReview, Looping, Running
<1>6. WellChosen'
  BY <1>2 DEF RetryInv, WellChosen, Candidates, Indices, Looping, Running
<1> QED BY <1>1, <1>3, <1>4, <1>5, <1>6 DEF RetryInv

\* The end of an attempt, where retry() looks at the cost, the number of
\* attempts and how many of them were accepted.
LEMMA SubmitStep ==
  ASSUME RetryInv, OnSubmit, UNCHANGED loopType
  PROVE  RetryInv'
<1>1. TypeOK /\ TypeOK'
  BY SubmitTyped DEF RetryInv
<1>2. /\ pc = "submitted" /\ pc' \in {"reset", "choose"}
      /\ UNCHANGED <<choice, best, result, limit, spent, loopType>>
  BY DEF OnSubmit, attemptVars, bestVars
<1>3. pc' = "reset" => Retries(Len(attempts'), TotalCost', Cardinality(Accepted'))
  <2>1. Accepted' = {k \in DOMAIN attempts' : PassedReview(attempts'[k])}
    BY <1>1, SubmitAccepts DEF Accepted, PassedReview
  <2> QED BY <2>1 DEF OnSubmit, TotalCost
<1>4. WithinBudget'
  BY <1>2, <1>3 DEF WithinBudget, Retries, Running
<1>5. WithinLimit'
  BY <1>2 DEF WithinLimit
<1>6. WithinBounds'
  <2>1. Len(attempts) \in Nat /\ Len(attempts') = Len(attempts) + 1
    BY <1>1, SubmitAppends, LenProperties DEF TypeOK
  <2>2. Len(attempts) < MaxAttempts
    BY <1>2 DEF RetryInv, WithinBounds, Looping, Running
  <2>3. Len(attempts') <= MaxAttempts
    BY <2>1, <2>2, RetryAssumption
  <2>4. pc' \in Looping => Len(attempts') < MaxAttempts
    BY <1>2, <1>3 DEF Retries, Looping, Running
  <2>5. ASSUME loopType = "score", 0 < MaxAccepts
        PROVE  /\ Cardinality(Accepted') <= MaxAccepts
               /\ pc' \in Looping => Cardinality(Accepted') < MaxAccepts
    <3>1. Cardinality(Accepted) < MaxAccepts /\ Cardinality(Accepted) \in Nat
      BY <1>1, <1>2, <2>5, AcceptedIsFinite DEF RetryInv, WithinBounds, Looping, Running
    <3>2. /\ Cardinality(Accepted') \in Nat
          /\ Cardinality(Accepted') <= Cardinality(Accepted) + 1
      BY <1>1, SubmitAccepts
    <3> QED BY <1>2, <1>3, <2>5, <3>1, <3>2, RetryAssumption DEF Retries, Looping, Running
  <2> QED BY <1>2, <2>3, <2>4, <2>5 DEF WithinBounds
<1>7. WellChosen'
  <2>1. choice' = 0
    BY <1>2 DEF RetryInv, WellChosen, Looping, Running
  <2>2. attempts' # <<>>
    <3>1. Len(attempts') # 0
      BY <1>1, SubmitAppends, LenProperties DEF TypeOK
    <3> QED BY <3>1, EmptySeq
  <2> QED BY <1>2, <2>1, <2>2 DEF WellChosen
<1> QED BY <1>1, <1>4, <1>5, <1>6, <1>7 DEF RetryInv

\* The next attempt gets no more than what is left of the budget.
LEMMA ResetStep ==
  ASSUME RetryInv, NextAttempt \/ ResetRaises, UNCHANGED loopType
  PROVE  RetryInv'
<1>1. TypeOK /\ TypeOK'
  BY ResetTyped DEF RetryInv
<1>2. /\ pc = "reset" /\ pc' \in {"attempt", "raised"}
      /\ UNCHANGED <<attempts, total, reviewCost, choice, best, result, loopType>>
  BY DEF NextAttempt, ResetRaises, loopVars, bestVars, attemptVars
<1>3. pc' = "attempt" => limit' = EffectiveLimit(Len(attempts) + 1) /\ spent' = 0
  BY DEF NextAttempt, ResetRaises
<1>4. TotalCost \in Nat /\ Len(attempts) + 1 \in Nat \ {0} /\ TotalCost' = TotalCost
  BY <1>1, <1>2, LenProperties DEF TypeOK, TotalCost
<1>5. WithinBudget'
  BY <1>2, <1>3, <1>4, LimitIsInt DEF RetryInv, WithinBudget, Running
<1>6. WithinLimit'
  BY <1>1, <1>2, <1>3 DEF WithinLimit, TypeOK
<1>7. WithinBounds'
  BY <1>2 DEF RetryInv, WithinBounds, Accepted, Indices, PassedReview, Looping, Running
<1>8. WellChosen'
  BY <1>2 DEF RetryInv, WellChosen, Candidates, Indices, Looping, Running
<1> QED BY <1>1, <1>5, <1>6, <1>7, <1>8 DEF RetryInv

\* get_best, which caches what a chooser answered.
LEMMA ChooseStep ==
  ASSUME RetryInv, SaveChosen \/ Return, UNCHANGED loopType
  PROVE  RetryInv'
<1>1. TypeOK /\ TypeOK'
  BY ChooseTyped DEF RetryInv
<1>2. /\ pc \in {"choose", "return"} /\ pc' \in {"return", "done"}
      /\ UNCHANGED <<attempts, total, reviewCost, limit, spent, loopType>>
  BY DEF SaveChosen, Return, attemptVars, loopVars
<1>3. PICK i \in Indices : GetBest(i) /\ (Return => result' = i)
  BY DEF SaveChosen, Return
<1>4. WithinBudget' /\ WithinLimit'
  BY <1>2 DEF WithinBudget, WithinLimit, Running
<1>5. WithinBounds'
  BY <1>2 DEF RetryInv, WithinBounds, Accepted, Indices, PassedReview, Looping, Running
<1>6. choice' # 0 => choice' \in Candidates
  <2>1. CASE ~ChooserAnswers(i)
    BY <1>3, <2>1 DEF GetBest, RetryInv, WellChosen
  <2>2. CASE ChooserAnswers(i)
    <3>1. i \in Candidates
      BY <2>2 DEF ChooserAnswers
    <3>2. choice' = choice \/ choice' = i
      BY <1>3, Zenon DEF GetBest
    <3> QED BY <3>1, <3>2 DEF RetryInv, WellChosen
  <2> QED BY <2>1, <2>2
<1>7. pc' = "done" /\ loopType = "score" => result' = BestScored
  BY <1>1, <1>3 DEF GetBest, SaveChosen, Return, TypeOK
<1>8. attempts # <<>>
  BY <1>2 DEF RetryInv, WellChosen
<1>9. BestScored' = BestScored /\ Candidates' = Candidates
  BY <1>2 DEF BestScored, Candidates, Ahead, Indices
<1>10. WellChosen'
  BY <1>2, <1>6, <1>7, <1>8, <1>9 DEF WellChosen, Looping, Running
<1> QED BY <1>1, <1>4, <1>5, <1>10 DEF RetryInv

LEMMA NextInv == RetryInv /\ [Next]_vars => RetryInv'
<1> SUFFICES ASSUME RetryInv, [Next]_vars PROVE RetryInv'
  OBVIOUS
<1>1. CASE Step
  BY <1>1, AttemptStep, SubmitStep, ResetStep, ChooseStep DEF Step
<1>2. CASE UNCHANGED vars
  BY <1>2 DEF vars, attemptVars, loopVars, bestVars, RetryInv, TypeOK, WithinBudget, WithinLimit,
     WithinBounds, WellChosen, TotalCost, Accepted, Indices, PassedReview, Candidates, BestScored, Ahead
<1> QED BY <1>1, <1>2 DEF Next, Rest

-----------------------------------------------------------------------------
(* Theorems *)

\* At each place of RetryAgent.run: the types, what was spent and may be spent,
\* the verdicts of the reviewed attempts, and what the choice ranges over.
THEOREM RetryIsInvariant == Spec => []RetryInv
<1> QED BY InitInv, NextInv, PTL DEF Spec

\* Types: every stored index, of the choice, of the saved and of the returned
\* attempt, is that of an attempt there is.
THEOREM TypeCorrect == Spec => []TypeOK
<1>1. RetryInv => TypeOK
  BY DEF RetryInv
<1> QED BY <1>1, RetryIsInvariant, PTL

\* The failsafe of RetryAgent.step "should not actually happen", and does not:
\* whatever queries and reviews cost, retry() starts no attempt over the limit.
THEOREM FailsafeNeverTaken == Spec => []FailsafeUnreachable
<1>1. ASSUME RetryInv, pc = "attempt" PROVE ~Overspent
  <2>1. TotalCost \in Nat /\ CostLimit \in Nat
    BY <1>1, RetryAssumption DEF RetryInv, TypeOK, TotalCost
  <2>2. 0 < CostLimit => TotalCost <= CostLimit
    BY <1>1 DEF RetryInv, WithinBudget
  <2> QED BY <2>1, <2>2 DEF Overspent
<1>2. RetryInv => FailsafeUnreachable
  BY <1>1 DEF FailsafeUnreachable
<1> QED BY <1>2, RetryIsInvariant, PTL

\* The common budget holds up to one query, for any number of attempts, limits
\* and prices, as long as the limit of the running attempt is one.
THEOREM BudgetKept == Spec => []BudgetHolds
<1>1. ASSUME RetryInv PROVE BudgetHolds
  <2>1. /\ TotalCost \in Nat /\ CostLimit \in Nat /\ MaxPrice \in Nat
        /\ spent \in Nat /\ limit \in Int
    BY <1>1, RetryAssumption DEF RetryInv, TypeOK, TotalCost
  <2> QED BY <1>1, <2>1 DEF RetryInv, WithinBudget, WithinLimit, BudgetHolds, Running
<1> QED BY <1>1, RetryIsInvariant, PTL

\* No more than max_accepts attempts pass their review, and the score loop
\* returns one that did if there is any.
THEOREM AcceptsKept == Spec => []AcceptsBounded
<1>1. ASSUME RetryInv PROVE AcceptsBounded
  <2>1. pc = "done" /\ loopType = "score" /\ Accepted # {} => result \in Accepted
    BY <1>1, BestIsAccepted DEF RetryInv, WellChosen
  <2>2. loopType = "score" /\ 0 < MaxAccepts => Cardinality(Accepted) <= MaxAccepts
    BY <1>1 DEF RetryInv, WithinBounds
  <2> QED BY <2>1, <2>2 DEF AcceptsBounded, Accepted
<1> QED BY <1>1, RetryIsInvariant, PTL

\* What the chooser picked is one of the attempts it was shown.
THEOREM ChoicesAreCandidates == Spec => []ChoiceIsCandidate
<1>1. RetryInv => ChoiceIsCandidate
  BY DEF RetryInv, WellChosen, ChoiceIsCandidate
<1> QED BY <1>1, RetryIsInvariant, PTL

\* The loop never makes more than max_attempts attempts.
THEOREM AttemptsBounded == Spec => [](Len(attempts) <= MaxAttempts)
<1>1. RetryInv => Len(attempts) <= MaxAttempts
  BY DEF RetryInv, WithinBounds
<1> QED BY <1>1, RetryIsInvariant, PTL

=============================================================================
