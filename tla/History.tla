------------------------------ MODULE History ------------------------------
(***************************************************************************)
(* The conversation of an agent: what setup and the steps add to           *)
(* DefaultAgent.history (sweagent/agent/agents.py), what the chain of      *)
(* history processors (sweagent/agent/history_processors.py) makes of it   *)
(* for a query, and the messages that go to the model.                     *)
(*                                                                         *)
(* Data: an entry keeps what a processor looks at.  Some processors change *)
(* the entries of the history themselves, others work on copies: an item   *)
(* of a chain is an entry and its place in the history, 0 for a copy.      *)
(***************************************************************************)
EXTENDS Integers, Sequences, FiniteSets, SequencesExt, Lists

CONSTANTS
  Chains,       \* configured sequences of processors
  Observations, \* what a step may show: length, window and image of its output
  MaxSteps      \* bound: steps

\* What a processor may be configured to do.  validate_n refuses an n that is not positive;
\* an interval of no steps would divide by zero, and a negative one means nothing.
Processors ==
  [type : {"last_n_observations"}, n : Nat \ {0}, polling : Nat \ {0}]
    \cup [type : {"tag_tool_call_observations"}, tags : SUBSET STRING, functions : SUBSET STRING]
    \cup [type : {"cache_control"}, n : Int, offset : Int]
    \cup [type : {"remove_regex"}, keep : Int]
    \cup [type : {"closed_window", "image_parsing", "default"}]

ASSUME HistoryAssumption ==
  /\ \A c \in Chains : c \in Seq(Processors)
  /\ Observations \subseteq [length : {"empty", "long", "ok"}, window : STRING, image : BOOLEAN]

VARIABLES
  chain,     \* history_processors
  tooled,    \* the parser calls functions: observations are tool messages
  history,   \* DefaultAgent.history
  turn,      \* what the agent does next with it
  prompt,    \* messages of the last query,
  mistake,   \* with the temporary ones of a requery,
  previous   \* and those of the step before

historyVars == <<chain, tooled, history, turn, prompt, mistake, previous>>

-----------------------------------------------------------------------------
(* Entries *)

Entry(role, type) ==
  [role |-> role, type |-> type, demo |-> FALSE, own |-> TRUE, tags |-> {}, calls |-> {},
   text |-> "full", window |-> "none", image |-> FALSE, shape |-> "text", mark |-> FALSE]

SystemMessage == Entry("system", "system_prompt")

\* Demonstrations go into the history entry by entry, for the agent that is named
\* in them, or as one message.
Demonstrations ==
  LET demo(e, own) == [e EXCEPT !.demo = TRUE, !.own = own]
      entries(own) == <<demo(Entry("assistant", "action"), own),
                        demo(Entry("user", "observation"), own)>>
  IN {<<>>, <<demo(Entry("user", "demonstration"), TRUE)>>, entries(TRUE), entries(FALSE)}

\* The instance template is an observation too.
InstanceTemplate == Entry("user", "observation")

Action(f) == [Entry("assistant", "action") EXCEPT !.calls = f]

\* An empty output, one that is too long, and the others have a template each.
NextStepTemplate(length) ==
  CASE length = "empty" -> "no_output" [] length = "long" -> "truncated" [] OTHER -> "full"

Observation(o) ==
  [Entry(IF tooled THEN "tool" ELSE "user", "observation") EXCEPT
     !.text = NextStepTemplate(o.length), !.window = o.window, !.image = o.image]

-----------------------------------------------------------------------------
(* Chains: the items, the history they came from, and whether nothing was raised *)

Item(e, i) == [e |-> e, at |-> i]

\* self.messages begins with this agent's own entries.
OwnEntries(h) ==
  LET items == [i \in DOMAIN h |-> Item(h[i], i)]
  IN [items |-> Filtered(items, {it \in ToSet(items) : it.e.own}), stored |-> h, ok |-> TRUE]

\* The entries are changed where they are.
InPlace(s, new) ==
  [s EXCEPT
     !.items = [i \in DOMAIN @ |-> Item(new[i], @[i].at)],
     !.stored = [k \in DOMAIN @ |->
        IF \E i \in DOMAIN s.items : s.items[i].at = k
        THEN new[CHOOSE i \in DOMAIN s.items : s.items[i].at = k] ELSE @[k]]]

\* Copies are made of some of them.
Copied(s, new) ==
  [s EXCEPT !.items = [i \in DOMAIN @ |-> IF i \in DOMAIN new THEN Item(new[i], 0) ELSE @[i]]]

Raised(s) == [s EXCEPT !.ok = FALSE]

-----------------------------------------------------------------------------
(* LastNObservations *)

ObservationIndices(items) ==
  {i \in DOMAIN items : items[i].e.type = "observation" /\ ~items[i].e.demo}

\* The observations are counted by whole polling intervals; the first one, the
\* instance template, always stays.
OmitIndicesMutant(items, n, polling) ==
  LET obs == ObservationIndices(items)
  IN {i \in obs : Cardinality({j \in obs : j <= i}) \in 2 .. Cardinality(obs) - n}
OmitIndices(items, n, polling) ==
  LET obs == ObservationIndices(items)
      lastRemoved == (Cardinality(obs) \div polling) * polling - n
  IN {i \in obs : Cardinality({j \in obs : j <= i}) \in 2 .. lastRemoved}

Omitted(e) ==
  [e EXCEPT !.text = "omitted", !.window = "none", !.image = FALSE, !.shape = "text",
            !.mark = @ /\ e.role = "tool"]

LastNObservations(s, p) ==
  LET tags(i) == s.items[i].e.tags
      omit == {i \in DOMAIN s.items :
                 \/ i \in OmitIndices(s.items, p.n, p.polling) /\ "keep_output" \notin tags(i)
                 \/ "remove_output" \in tags(i)}
  IN IF \E i \in omit : s.items[i].e.type # "observation"
     THEN Raised(s)
     ELSE Copied(s, [i \in omit |-> Omitted(s.items[i].e)])

-----------------------------------------------------------------------------
(* TagToolCallObservations: it is the actions that are tagged *)

AddTags(e, p) ==
  IF e.type = "action" /\ e.calls \cap p.functions # {} THEN [e EXCEPT !.tags = @ \cup p.tags] ELSE e

TagToolCallObservations(s, p) ==
  InPlace(s, [i \in DOMAIN s.items |-> AddTags(s.items[i].e, p)])

-----------------------------------------------------------------------------
(* ClosedWindowHistoryProcessor *)

\* Numbered lines under a file's header are a window; numbered lines without one,
\* "lines", drop the entry.
ClosedWindow(s, p) ==
  LET e(i) == s.items[i].e
      looked == {i \in DOMAIN s.items : e(i).role = "user" /\ ~e(i).demo}
      later(i) == {e(j).window : j \in {k \in looked : k > i}}
      closed(i) == e(i).window \notin {"none", "lines"} /\ e(i).window \in later(i)
      copied == Copied(s, [i \in looked |->
                  IF closed(i) THEN [e(i) EXCEPT !.text = "outdated"] ELSE e(i)])
  IN IF \E i \in looked : e(i).shape # "text"
     THEN Raised(s)
     ELSE [copied EXCEPT !.items =
             Filtered(@, {it \in ToSet(@) : it.e.role # "user" \/ it.e.demo \/ it.e.window # "lines"})]

-----------------------------------------------------------------------------
(* CacheControlHistoryProcessor *)

\* Every mark is cleared before the last n messages get theirs.
ClearCacheControlMutant(e) == e
ClearCacheControl(e) == [e EXCEPT !.mark = FALSE]
\* The content becomes a list; a tool message is marked itself.
SetCacheControl(e) ==
  [e EXCEPT !.mark = TRUE, !.shape = IF @ = "text" THEN "list" ELSE @]

CacheControl(s, p) ==
  LET last == Len(s.items)
      able == {i \in DOMAIN s.items : /\ s.items[i].e.role \in {"user", "tool"}
                                      /\ last - i >= p.offset}
  IN InPlace(s, [i \in DOMAIN s.items |->
       LET e == ClearCacheControl(s.items[i].e)
       IN IF i \in able /\ Cardinality({j \in able : j > i}) < p.n THEN SetCacheControl(e) ELSE e])

-----------------------------------------------------------------------------
(* RemoveRegex and ImageParsingHistoryProcessor *)

RemoveRegex(s, p) ==
  Copied(s, [i \in DOMAIN s.items |->
    IF Len(s.items) - i < p.keep THEN s.items[i].e ELSE [s.items[i].e EXCEPT !.text = "removed"]])

\* An embedded image splits the content in segments, and a mark in the content is
\* gone; a text in segments is not parsed again.
ParseImages(e) ==
  IF e.image THEN [e EXCEPT !.shape = "segments", !.mark = @ /\ e.role = "tool"] ELSE e

ImageParsing(s, p) ==
  LET parsed == {i \in DOMAIN s.items : s.items[i].e.role \in {"user", "tool"}}
  IN IF \E i \in parsed : s.items[i].e.shape = "segments"
     THEN Raised(s)
     ELSE Copied(s, [i \in parsed |-> ParseImages(s.items[i].e)])

-----------------------------------------------------------------------------
(* The messages of a query *)

Process(s, p) ==
  IF ~s.ok THEN s
  ELSE CASE p.type = "last_n_observations" -> LastNObservations(s, p)
         [] p.type = "tag_tool_call_observations" -> TagToolCallObservations(s, p)
         [] p.type = "closed_window" -> ClosedWindow(s, p)
         [] p.type = "cache_control" -> CacheControl(s, p)
         [] p.type = "remove_regex" -> RemoveRegex(s, p)
         [] p.type = "image_parsing" -> ImageParsing(s, p)
         [] OTHER -> s

\* What the first processors of a chain make of a history.
Processed(h, c) ==
  LET f[k \in 0 .. Len(c)] == IF k = 0 THEN OwnEntries(h) ELSE Process(f[k - 1], c[k])
  IN f

Messages == Processed(history, chain)[Len(chain)]

\* LiteLLMModel._history_to_messages: what the model is sent of an entry.
HistoryToMessages(items) ==
  [i \in DOMAIN items |->
     [role |-> items[i].e.role, content |-> items[i].e.text, shape |-> items[i].e.shape,
      tool_calls |-> items[i].e.calls, cache_control |-> items[i].e.mark]]

-----------------------------------------------------------------------------
(* The agent *)

HistoryInit ==
  /\ chain \in Chains /\ tooled \in BOOLEAN
  /\ \E demos \in Demonstrations : history = <<SystemMessage>> \o demos \o <<InstanceTemplate>>
  /\ turn = "query" /\ prompt = <<>> /\ mistake = <<>> /\ previous = <<>>

\* A query takes the messages and leaves the history as the processors left it.
QueryWith(temporary) ==
  /\ IF Messages.ok
     THEN /\ history' = Messages.stored /\ prompt' = HistoryToMessages(Messages.items)
          /\ mistake' = temporary /\ turn' = "act"
     ELSE turn' = "raised" /\ UNCHANGED <<history, prompt, mistake>>
  /\ UNCHANGED <<chain, tooled, previous>>

\* step() asks with self.messages,
QueryStep == turn = "query" /\ QueryWith(<<>>)

\* and after a mistake with self.messages and the mistake, which replaces an
\* earlier one.
QueryAgain ==
  /\ turn = "act" /\ mistake = <<>>
  /\ QueryWith(HistoryToMessages(<<Item(Entry("assistant", "assistant"), 0),
                                   Item(Entry("user", "user"), 0)>>))

StepCount(h) == Cardinality({i \in DOMAIN h : h[i].type = "action" /\ ~h[i].demo})

AddStepToHistory(f, o) ==
  /\ turn = "act" /\ StepCount(history) < MaxSteps
  /\ history' = history \o <<Action(f), Observation(o)>>
  /\ turn' = "query" /\ previous' = prompt
  /\ UNCHANGED <<chain, tooled, prompt, mistake>>

HistoryNext ==
  \/ QueryStep \/ QueryAgain
  \/ \E f \in {{}, {"edit"}}, o \in Observations : AddStepToHistory(f, o)

HistorySpec == HistoryInit /\ [][HistoryNext]_historyVars

-----------------------------------------------------------------------------
(* Properties *)

Uses(type) == \E k \in DOMAIN chain : chain[k].type = type
Config(type) == chain[CHOOSE k \in DOMAIN chain : chain[k].type = type]

\* At each query the marks are on the last n user and tool messages and nowhere
\* else, although earlier queries have left theirs in the history and other
\* processors have copied marked entries (CacheControlHistoryProcessor).
MarksAreLast ==
  turn = "act" /\ Uses("cache_control") =>
    LET p == Config("cache_control")
        able == {i \in DOMAIN prompt : prompt[i].role # "assistant" /\ prompt[i].role # "system"
                                       /\ Len(prompt) - i >= p.offset}
    IN {i \in DOMAIN prompt : prompt[i].cache_control} =
         {i \in able : Cardinality({j \in able : j > i}) < p.n}

\* Between two polls the conversation only grows: what the model was sent at one step
\* it is sent again at the next one, so that it can be cached; and at least n
\* observations are whole (the polling of LastNObservations).
PollingKeepsPrefix ==
  turn = "act" /\ Uses("last_n_observations") =>
    LET p == Config("last_n_observations")
        observed == Cardinality({i \in DOMAIN history :
                                   history[i].type = "observation" /\ ~history[i].demo})
        contents(m) == [i \in DOMAIN m |-> <<m[i].role, m[i].content>>]
        whole == Cardinality({i \in DOMAIN prompt : prompt[i].role # "assistant"
                                /\ prompt[i].role # "system" /\ prompt[i].content # "omitted"})
    IN /\ observed % p.polling # 0 => IsPrefix(contents(previous), contents(prompt))
       /\ whole >= IF observed <= p.n THEN observed ELSE p.n + 1

\* At every query the cache marks are those of the last messages and the polling has kept
\* its promises, whatever the earlier queries and the other processors have left in the
\* stored history. What the other processors do (tags, images, regular expressions) is
\* seen here only as far as it disturbs these two, and a chain that raises sends nothing.
ConversationHolds == MarksAreLast /\ PollingKeepsPrefix
=============================================================================
