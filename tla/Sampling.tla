------------------------------ MODULE Sampling ------------------------------
(***************************************************************************)
(* Choosing one action from several samples (agent/action_sampler.py):     *)
(* BinaryTrajectoryComparison and AskColleagues, as DefaultAgent.forward   *)
(* calls them.                                                             *)
(*                                                                         *)
(* Data: a completion is its action; 0 cannot be parsed.  The last line of *)
(* a comparison's response names the first action, the second, both or     *)
(* none.                                                                   *)
(***************************************************************************)
EXTENDS Integers, Sequences, SequencesExt, FiniteSets, FiniteSetsExt, Lists

CONSTANTS
  Actions,     \* actions of completions that can be parsed
  EditActions, \* those that start with the keyword of an edit
  SampleSizes  \* configurations: min_n_samples, and max_n_samples less it

ASSUME SamplingAssumption ==
  /\ 0 \notin Actions /\ EditActions \subseteq Actions
  /\ SampleSizes \subseteq [min : Nat \ {0}, more : Nat]

VARIABLES
  sampler,   \* which of the two
  size,      \* its numbers of samples
  asks,      \* what is asked for next, or how get_action ended
  drawn,     \* every completion the model has been paid for
  sampled,   \* completions
  best,      \* best_idx
  other,     \* i
  compared,  \* comparison_log: <<best_idx, i, response>>
  chosen     \* the completion that is returned

samplingVars == <<sampler, size, asks, drawn, sampled, best, other, compared, chosen>>

Unparsed == 0
Completions == Actions \cup {Unparsed}
Responses == {"first", "second", "both", "none"}

SamplingInit ==
  /\ sampler \in {"comparison", "colleagues"} /\ size \in SampleSizes
  /\ asks = "samples" /\ drawn = <<>> /\ sampled = <<>> /\ best = 1 /\ other = 2
  /\ compared = <<>> /\ chosen = Unparsed

-----------------------------------------------------------------------------
(* Helpers *)

Parseable(s) == Filtered(s, Actions)

\* The elements at some places, in their order.
At(s, places) ==
  LET order == Filtered([i \in DOMAIN s |-> i], places)
  IN [k \in DOMAIN order |-> s[order[k]]]

\* filter_duplicates: the first of each action stays.
FilterDuplicatesMutant(s) == At(s, {i \in DOMAIN s : \A j \in i + 1 .. Len(s) : s[j] # s[i]})
FilterDuplicates(s) == At(s, {i \in DOMAIN s : \A j \in 1 .. i - 1 : s[j] # s[i]})

ContainsEdits(s) == \E i \in DOMAIN s : s[i] \in EditActions

\* interpret looks for "first" first, and without either it is the first, too.
InterpretMutant(response) == IF response \in {"second", "both"} THEN 1 ELSE 0
Interpret(response) == IF response = "second" THEN 1 ELSE 0

Keeps == UNCHANGED <<sampler, size>>

\* query(n=1) returns its one completion without a list around it.
IsNoList(n) == n = 1

\* What get_action has once it knows its completions: one needs no comparison.
WithCompletions(s) ==
  /\ sampled' = s /\ best' = 1 /\ other' = 2
  /\ IF Len(s) = 1
     THEN asks' = "returned" /\ chosen' = s[1]
     ELSE asks' = "comparison" /\ chosen' = chosen

-----------------------------------------------------------------------------
(* BinaryTrajectoryComparison *)

\* No parseable sample is a FormatError; edits among them ask for more.
TakesSamples ==
  /\ sampler = "comparison" /\ asks = "samples" /\ ~IsNoList(size.min)
  /\ \E s \in [1 .. size.min -> Completions] :
       /\ drawn' = s
       /\ LET some == FilterDuplicates(Parseable(s)) IN
            IF some = <<>>
            THEN asks' = "format error" /\ UNCHANGED <<sampled, best, other, chosen>>
            ELSE IF ContainsEdits(some) /\ size.more > 0
                 THEN asks' = "more" /\ sampled' = some /\ UNCHANGED <<best, other, chosen>>
                 ELSE WithCompletions(some)
  /\ UNCHANGED compared /\ Keeps

TakesMoreSamples ==
  /\ asks = "more" /\ ~IsNoList(size.more)
  /\ \E s \in [1 .. size.more -> Completions] :
       /\ drawn' = drawn \o s
       /\ WithCompletions(FilterDuplicates(Parseable(sampled \o s)))
  /\ UNCHANGED compared /\ Keeps

\* A single sample is paid for and then fails to be one of a list.
TakesNoList ==
  /\ \/ asks = "samples" /\ IsNoList(size.min)
     \/ asks = "more" /\ IsNoList(size.more)
  /\ asks' = "raised" /\ \E c \in Completions : drawn' = Append(drawn, c)
  /\ UNCHANGED <<sampled, best, other, compared, chosen>> /\ Keeps

Compares ==
  /\ asks = "comparison"
  /\ \E response \in Responses :
       LET winner == IF Interpret(response) = 1 THEN other ELSE best IN
         /\ compared' = Append(compared, <<best, other, response>>)
         /\ best' = winner /\ other' = other + 1
         /\ IF other = Len(sampled)
            THEN asks' = "returned" /\ chosen' = sampled[winner]
            ELSE UNCHANGED <<asks, chosen>>
  /\ UNCHANGED <<drawn, sampled>> /\ Keeps

-----------------------------------------------------------------------------
(* AskColleagues *)

TakesColleagues ==
  /\ sampler = "colleagues" /\ asks = "samples" /\ ~IsNoList(size.min)
  /\ \E s \in [1 .. size.min -> Completions] :
       /\ drawn' = s /\ sampled' = Parseable(s)
       /\ asks' = IF Parseable(s) = <<>> THEN "format error" ELSE "discussion"
  /\ UNCHANGED <<best, other, compared, chosen>> /\ Keeps

\* The completion after the discussion is returned as it is; forward parses it.
Concludes ==
  /\ asks = "discussion"
  /\ \E c \in Completions : chosen' = c /\ drawn' = Append(drawn, c)
  /\ asks' = "returned" /\ UNCHANGED <<sampled, best, other, compared>> /\ Keeps

\* Any query may raise: a limit, or the provider after its retries.
QueryRaisesInSampler ==
  /\ asks \notin {"returned", "format error", "raised"} /\ asks' = "raised"
  /\ UNCHANGED <<drawn, sampled, best, other, compared, chosen>> /\ Keeps

SamplingNext ==
  \/ TakesSamples \/ TakesMoreSamples \/ TakesNoList \/ Compares \/ TakesColleagues
  \/ Concludes \/ QueryRaisesInSampler

SamplingSpec == SamplingInit /\ [][SamplingNext]_samplingVars

-----------------------------------------------------------------------------
(* Properties *)

\* Comparisons decide nothing else than which action is best: what they return was
\* drawn and can be parsed; an action is compared with another one only; every
\* different action that was drawn takes part, in the order it was first proposed; and
\* the chosen one is beaten by none: each later one lost to it, and it beat the one
\* that was best before it, with an unclear response for the earlier one.
ChoiceIsBest ==
  sampler = "comparison" /\ asks = "returned" =>
    LET rank(a) == CHOOSE i \in DOMAIN sampled : sampled[i] = a
        firstDraw(a) == Min({i \in DOMAIN drawn : drawn[i] = a})
    IN /\ ToSet(sampled) = ToSet(drawn) \ {Unparsed} /\ IsInjective(sampled)
       /\ \A i, j \in DOMAIN sampled : i < j => firstDraw(sampled[i]) < firstDraw(sampled[j])
       /\ Len(compared) = Len(sampled) - 1
       /\ \A k \in DOMAIN compared :
            LET entry == compared[k] IN
              /\ entry[2] = k + 1
              /\ entry[2] = rank(chosen) => entry[3] = "second"
              /\ entry[2] > rank(chosen) => entry[1] = rank(chosen) /\ entry[3] # "second"

\* Edits are decided among all the samples the configuration allows, other actions
\* among the smaller number.
EditsAreSampledMore ==
  asks = "returned" /\ sampler = "comparison" =>
    Len(drawn) = size.min + (IF ContainsEdits(SubSeq(drawn, 1, size.min)) THEN size.more ELSE 0)

\* Both.
SamplesAreUsed == ChoiceIsBest /\ EditsAreSampledMore
=============================================================================
