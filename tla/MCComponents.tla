--------------------------- MODULE MCComponents ---------------------------
(***************************************************************************)
(* The parts that work side by side, checked in one run: each behaviour    *)
(* explores one of them, the others rest in one of their initial states.   *)
(***************************************************************************)
EXTENDS BashSession, RuntimeServer, History, Parsing, Editor, Selection, Sandboxes,
        SingleRun, Environment, Steering, Sampling, Deployment, Workers

VARIABLE part  \* the part a behaviour explores
partsVars ==
  <<sessionVars, rpcVars, historyVars, parsingVars, editorVars, selectionVars,
    sandboxVars, singleRunVars, environmentVars, steeringVars, samplingVars, vars,
    workerVars, part>>

Rests(p, value, values) == part # p => value = CHOOSE v \in values : TRUE

PartsInit ==
  /\ part \in {"session", "rpc", "history", "parsing", "editor", "selection",
               "sandboxes", "run", "environment", "steering", "sampling",
               "deployment", "workers"}
  /\ RpcInit /\ ParsingInit
  /\ SessionInit /\ Rests("session", unread, {<<>>})
  /\ HistoryInit /\ Rests("history", <<chain, tooled>>, Chains \X BOOLEAN)
  /\ (part # "history" => Len(history) = 2)
  /\ EditorInit /\ Rests("editor", files, {[f \in Files |-> t] : t \in Texts})
  /\ SelectionInit
  /\ (part # "selection" =>
        /\ source = [kind |-> "file", type |-> "docker", slices |-> CHOOSE s \in SharedSlices : TRUE,
                     filter |-> CHOOSE f \in Filters : TRUE, shuffle |-> FALSE]
        /\ rows[1] = [i \in 1 .. Cardinality(Ids) |-> Row(i, CHOOSE r \in Repos : TRUE, <<>>, TRUE)])
  /\ SandboxesInit /\ Rests("sandboxes", host, Clouds)
  /\ SingleRunInit
  /\ Rests("run", settings, {[parser |-> "calls", demos |-> FALSE, repo |-> "local",
                              apply |-> FALSE, openPr |-> FALSE]})
  /\ EnvironmentInit /\ Rests("environment", keeps, {FALSE})
  /\ SteeringInit /\ Rests("steering", <<configured, catchEof>>, {<<"robot", TRUE>>})
  /\ Init /\ Rests("deployment", removeContainer, {TRUE})
  /\ WorkersInit
  /\ SamplingInit /\ Rests("sampling", <<sampler, size>>, {"comparison"} \X SampleSizes)

\* The other parts rest.
Unless(p, partVars) == IF part = p THEN TRUE ELSE UNCHANGED partVars

PartsNext ==
  /\ \/ part = "session" /\ SessionNext
     \/ part = "rpc" /\ RpcNext
     \/ part = "history" /\ HistoryNext
     \/ part = "parsing" /\ ParsingNext
     \/ part = "editor" /\ EditorNext
     \/ part = "selection" /\ SelectionNext
     \/ part = "sandboxes" /\ SandboxesNext
     \/ part = "run" /\ SingleRunNext
     \/ part = "environment" /\ EnvironmentNext
     \/ part = "steering" /\ SteeringNext
     \/ part = "sampling" /\ SamplingNext
     \/ part = "deployment" /\ Next
     \/ part = "workers" /\ WorkersNext
  /\ Unless("session", sessionVars) /\ Unless("rpc", rpcVars)
  /\ Unless("history", historyVars)
  /\ Unless("parsing", parsingVars) /\ Unless("editor", editorVars)
  /\ Unless("selection", selectionVars) /\ Unless("sandboxes", sandboxVars)
  /\ Unless("run", singleRunVars) /\ Unless("environment", environmentVars)
  /\ Unless("steering", steeringVars) /\ Unless("sampling", samplingVars)
  /\ Unless("deployment", vars) /\ Unless("workers", workerVars)
  /\ UNCHANGED part

PartsSpec == PartsInit /\ [][PartsNext]_partsVars

-----------------------------------------------------------------------------
(* Instances *)

LastN(n, p) == [type |-> "last_n_observations", n |-> n, polling |-> p]
TagFor(t) == [type |-> "tag_tool_call_observations", tags |-> {t}, functions |-> {"edit"}]
CacheFor(n, o) == [type |-> "cache_control", n |-> n, offset |-> o]
RegexFor(k) == [type |-> "remove_regex", keep |-> k]
Just(type) == [type |-> type]
MCChains ==
  {<<LastN(1, 2), CacheFor(2, 0)>>, <<TagFor("keep_output"), LastN(2, 1)>>,
   <<TagFor("remove_output"), LastN(1, 1)>>, <<Just("closed_window"), CacheFor(2, 1)>>,
   <<Just("image_parsing"), CacheFor(2, 0)>>, <<RegexFor(1)>>,
   <<CacheFor(1, 0), Just("closed_window")>>, <<RegexFor(0), Just("default"), LastN(1, 2)>>,
   <<Just("image_parsing"), CacheFor(2, 0), Just("image_parsing")>>}
MCObservations ==
  {[length |-> "empty", window |-> "none", image |-> FALSE],
   [length |-> "ok", window |-> "f", image |-> FALSE],
   [length |-> "ok", window |-> "lines", image |-> TRUE]}

Arg(n, r) == [name |-> n, required |-> r]
Tool(n, args, sig, e) == [name |-> n, arguments |-> args, signature |-> sig, end_name |-> e]
Word(k, a) == [kind |-> k, arg |-> a]
MCSignatures ==
  {<<>>, <<Word("lit", "open"), Word("angle", "path")>>,
   <<Word("lit", "open"), Word("angle", "path"), Word("optional", "line")>>,
   <<Word("lit", "open"), Word("angle", "path"), Word("flag", "line")>>,
   <<Word("lit", "open"), Word("angle", "path"), Word("flag", "line"), Word("brace", "line")>>}
OpenTools == {Tool("open", <<Arg("path", p), Arg(n, l)>>, sig, "") :
                p, l \in BOOLEAN, n \in {"line", "path"}, sig \in MCSignatures}
EditTools == {Tool("edit", <<Arg("text", TRUE)>>, sig, "end") :
                sig \in {<<>>, <<Word("lit", "edit"), Word("angle", "text"), Word("lit", "end")>>}}
SubmitTool == Tool("submit", <<>>, <<>>, "")
Bundle(t, h) == [tools |-> t, hidden |-> h]
MCBundleLists ==
  {<<>>} \cup {<<Bundle({o, SubmitTool}, h)>> : o \in OpenTools, h \in {{}, {"open"}, {"edit"}}}
    \cup {<<Bundle({e}, {})>> : e \in EditTools}
    \cup {<<Bundle({Tool("open", <<>>, sig, "")}, {})>> : sig \in MCSignatures}
    \cup {<<Bundle({SubmitTool}, {}), Bundle({SubmitTool}, h)>> : h \in {{}, {"submit"}}}
MCCalls ==
  {c \in [name : {"open", "edit", "finish", "bash", "none"},
          args : SUBSET {"path", "line", "text", "end"}, nulls : {{}, {"line"}},
          json : {"object", "no json", "no object", "dict"}] :
     c.args \cap c.nulls = {} /\ (c.json # "object" => c.args \subseteq {"path"})}
MCCallReplies ==
  {<<>>} \cup {<<c>> : c \in MCCalls}
    \cup {<<c, c>> : c \in {d \in MCCalls : d.args = {} /\ d.nulls = {} /\ d.json = "object"}}
MCScriptLines == {ScriptLine("text"), ScriptLine("edit"), ScriptLine("end"),
                  [kind |-> "edit", here |-> TRUE]}
MCScripts == UNION {[1 .. n -> MCScriptLines] : n \in 1 .. 4}

MCTexts == {<<"">>, <<"", "a", "syntax", "bad", "a">>, <<"bad", "a", "bad", "">>}
MCPieces == {<<>>, <<"a">>, <<"bad">>, <<"b", "">>, <<"syntax">>}
MCFilters == {{1, 2, 3}, {2, 3}}
MCCuts == -1 .. 2
MCShuffled == <<<<1>>, <<2, 1>>, <<2, 1, 3>>>>
MCBundles == <<"registry", "windowed", "diff_state">>
MCStateBundles == <<"windowed", "diff_state">>
MCSampleSizes == {[min |-> 2, more |-> 2], [min |-> 2, more |-> 1], [min |-> 1, more |-> 3],
                  [min |-> 3, more |-> 0]}
\* "a1" is a part of "a10": a1's log handler also matches the loggers of a10.
MCInside == [i \in {"a1", "a10", "b"} |-> IF i = "a10" THEN {"a1", "a10"} ELSE {i}]
=============================================================================
