----------------------------- MODULE Selection -----------------------------
(***************************************************************************)
(* Which instances a batch runs, in which environment and with which text: *)
(* the sources of sweagent/run/batch_instances.py and the problem          *)
(* statements of sweagent/agent/problem_statement.py.  Two machines share  *)
(* the instances of a file by shuffling and slicing it.                    *)
(*                                                                         *)
(* Data: ids are numbers, their order is that of the strings.  A           *)
(* deployment config is an object: instances refer to it by its place in   *)
(* `configs`, and who changes it changes it for all that refer to it.      *)
(***************************************************************************)
EXTENDS Integers, Sequences, FiniteSets, SequencesExt, Lists

CONSTANTS
  Ids,          \* ids of instances
  Filters,      \* what the regular expressions match of them
  Cuts,         \* where a list of instances is cut for two machines, as Python counts
  Shuffled      \* Shuffled[n]: what random.shuffle makes of 1 .. n after seed(42)

ASSUME SelectionAssumption ==
  /\ IsFiniteSet(Ids) /\ Ids \subseteq Nat \ {0}
  /\ Filters \subseteq SUBSET Ids /\ Cuts \subseteq Int
  /\ \A n \in 1 .. Cardinality(Ids) :
       Shuffled[n] \in [1 .. n -> 1 .. n] /\ IsInjective(Shuffled[n])

VARIABLES
  source,     \* kind of source, how its deployment is configured, filter and slices
  rows,       \* the file as each machine reads it
  configs,    \* deployment configs of each machine, the first one is the source's
  batch,      \* the instances each machine runs
  cache,      \* _cached_problem_statement
  disabling,  \* the attempts whose agent's templates disable images
  answers     \* the statement as the agent's attempts and the environment get it

selectionVars == <<source, rows, configs, batch, cache, disabling, answers>>

Machines == {1, 2}
Sources == {"file", "huggingface", "swe_bench", "swesmith", "expert_file"}
Deployments == {"docker", "modal", "local", "dummy"}
Askers == {"first attempt", "environment", "second attempt"}
NotAsked == <<"not asked">>

-----------------------------------------------------------------------------
(* slice(start, stop, step) of a list, step > 0: no start is <<>>, the other <<k>> *)

Clip(v, n) == IF v < 0 THEN (IF v + n < 0 THEN 0 ELSE v + n) ELSE IF v > n THEN n ELSE v

Sliced(s, slice) ==
  LET n == Len(s)
      start == IF slice.start = <<>> THEN 0 ELSE Clip(slice.start[1], n)
      stop == IF slice.stop = <<>> THEN n ELSE Clip(slice.stop[1], n)
      kept == {i \in start + 1 .. stop : (i - 1 - start) % slice.step = 0}
  IN [k \in 1 .. Cardinality(kept) |-> s[start + 1 + (k - 1) * slice.step]]

\* _filter_batch_items: shuffling sorts first.  The sort is stable: an item comes
\* after those with a smaller id and those with its own that came before it.
Rank(items, i) ==
  Cardinality({j \in DOMAIN items : \/ items[j].id < items[i].id
                                    \/ items[j].id = items[i].id /\ j <= i})
OrderMutant(items) == items
Order(items) == [k \in DOMAIN items |-> items[CHOOSE i \in DOMAIN items : Rank(items, i) = k]]

Shuffle(items) == [k \in DOMAIN items |-> Order(items)[Shuffled[Len(items)][k]]]

FilterBatchItems(items, filter, slice, shuffle) ==
  LET listed == IF shuffle THEN Shuffle(items) ELSE items
  IN Sliced(Filtered(listed, {x \in ToSet(listed) : x.id \in filter}), slice)

-----------------------------------------------------------------------------
(* to_full_batch_instance *)

\* What the repo field stands for: nothing, a folder, a github or a local repository.
RepoConfig(kind, row) ==
  CASE kind = "swe_bench" -> "preexisting"
    [] kind = "swesmith" -> IF row.repo = "github" THEN "mirror" ELSE "preexisting"
    [] OTHER -> CASE row.repo = "" -> "none" [] row.repo = "github" -> "github"
                  [] row.repo = "folder" -> "preexisting" [] OTHER -> "local"

\* Expert instances have any statement; the others have images or are text.
StatementConfig(kind, row) ==
  CASE kind = "expert_file" ->
         CASE row.id = 1 -> "github" [] row.id = 2 -> "text_file" [] OTHER -> "empty"
    [] OTHER -> IF row.images = <<>> THEN "text" ELSE "multimodal"

\* The source's deployment is copied for every instance, and the copy gets the
\* instance's image; expert instances bring their own.
CopyConfigMutant(list, new) == [list EXCEPT ![1] = new]
CopyConfig(list, new) == Append(list, new)
ConfigOf(list) == Len(list)

WithImage(config, row, kind) ==
  CASE kind = "expert_file" -> [type |-> "docker", image |-> row.image, standalone |-> "none"]
    [] OTHER -> IF config.type \in {"local", "dummy"} THEN config
                ELSE [config EXCEPT !.image = row.image,
                                    !.standalone = IF config.type = "docker" /\ @ = "none"
                                                   THEN "/root" ELSE @]

\* A local deployment takes a row without an image name only; SWE-smith sets an image,
\* which a local or a dummy one has not, and a private repository needs a token.
RefusesRow(kind, config, row) ==
  \/ kind # "expert_file" /\ kind # "swesmith" /\ config.type = "local" /\ row.image # 0
  \/ kind = "swesmith" /\ (row.repo = "private" \/ config.type \in {"local", "dummy"})

ToFullBatchInstance(kind, state, row) ==
  LET list == CopyConfig(state.configs, WithImage(state.configs[1], row, kind))
  IN [configs |-> list,
      items |-> Append(state.items,
                  [id |-> row.id, config |-> ConfigOf(list), repo |-> RepoConfig(kind, row),
                   statement |-> StatementConfig(kind, row), images |-> row.images])]

LoadedFirst(kind, config, file) ==
  LET f[i \in 0 .. Len(file)] ==
        IF i = 0 THEN [configs |-> <<config>>, items |-> <<>>]
        ELSE ToFullBatchInstance(kind, f[i - 1], file[i])
  IN f

Loaded(kind, config, file) == LoadedFirst(kind, config, file)[Len(file)]

-----------------------------------------------------------------------------
(* The machines *)

Slice(a, b, c) == [start |-> a, stop |-> b, step |-> c]

\* Two slices that share a list: at an index, from the end, or by turns.
SharedSlices ==
  {<<Slice(<<>>, <<k>>, 1), Slice(<<k>>, <<>>, 1)>> : k \in Cuts}
    \cup {<<Slice(<<>>, <<>>, 2), Slice(<<1>>, <<>>, 2)>>}

\* The image of a row has the row's id for a name, or 0 when the name is empty.
Row(id, repo, images, named) ==
  [id |-> id, repo |-> repo, images |-> images, image |-> IF named THEN id ELSE 0]
Repos == {"", "folder", "github", "private"}

\* Machine 2 may read the rows in the opposite order.
SelectionInit ==
  /\ \E kind \in Sources, type \in Deployments, slices \in SharedSlices,
        filter \in Filters, shuffle \in BOOLEAN :
       source = [kind |-> kind, type |-> type, slices |-> slices, filter |-> filter,
                 shuffle |-> shuffle]
  /\ \E ids \in SetToSeqs(Ids),
        repo \in IF source.kind \in {"file", "swesmith"} THEN Repos ELSE {"folder"},
        images \in IF source.kind \in {"file", "swe_bench"} THEN {<<>>, <<"a", "b">>} ELSE {<<>>},
        named \in IF source.kind = "file" THEN BOOLEAN ELSE {TRUE} :
       LET file == [i \in DOMAIN ids |-> Row(ids[i], repo, images, named)]
       IN rows = <<file, IF source.shuffle THEN Reverse(file) ELSE file>>
  /\ configs = [m \in Machines |-> <<>>] /\ batch = [m \in Machines |-> <<>>]
  /\ cache = NotAsked /\ disabling = {} /\ answers = [who \in Askers |-> NotAsked]

\* get_instance_configs
GetInstanceConfigs(m) ==
  /\ configs[m] = <<>>
  /\ LET config == [type |-> source.type, image |-> 0, standalone |-> "none"]
         loaded == Loaded(source.kind, config, rows[m])
     IN IF \E i \in DOMAIN rows[m] : RefusesRow(source.kind, config, rows[m][i])
        THEN configs' = [configs EXCEPT ![m] = <<config>>] /\ UNCHANGED batch
        ELSE /\ configs' = [configs EXCEPT ![m] = loaded.configs]
             /\ batch' = [batch EXCEPT ![m] =
                  FilterBatchItems(loaded.items, source.filter, source.slices[m], source.shuffle)]
  /\ UNCHANGED <<source, rows, cache, disabling, answers>>

-----------------------------------------------------------------------------
(* The statement of machine 1's first instance *)

\* An image that is too large, of another type, empty or out of reach is left out.
DownloadAndConvertImage(link, result) == IF result = "ok" THEN <<link>> ELSE <<>>

\* The images are downloaded for the first who asks, and the text is kept.
CachedMutant == FALSE
Cached == cache # NotAsked

WithImages(links) ==
  {<<"text">> \o FlattenSeq([i \in DOMAIN links |-> DownloadAndConvertImage(links[i], r[i])]) :
     r \in [DOMAIN links -> {"ok", "failed"}]}

\* Who reads a statement with its images: an attempt, unless the statement's
\* disable_image_processing is set.
ReadsImages(item, who, disabled) ==
  item.statement = "multimodal" /\ who # "environment" /\ ~disabled

\* What get_problem_statement and get_problem_statement_for_env may answer.  A file
\* and an issue are read each time.
StatementTexts(item, who, disabled) ==
  CASE item.statement = "empty" -> {<<>>}
    [] item.statement \in {"text_file", "github"} -> {<<"text">>, <<"changed">>}
    [] ReadsImages(item, who, disabled) -> IF Cached THEN {cache} ELSE WithImages(item.images)
    [] OTHER -> {<<"text">>}

\* The attempts of a retry agent share the statement: the flag that the setup of one
\* sets on it stays set for those after it.
DisabledMutant == "second attempt" \in disabling'
Disabled == disabling' # {}

GetProblemStatement(who) ==
  /\ batch[1] # <<>> /\ answers[who] = NotAsked
  /\ who = "second attempt" => answers["first attempt"] # NotAsked
  /\ disabling' \in {disabling} \cup {disabling \cup {a} : a \in {who} \ {"environment"}}
  /\ \E text \in StatementTexts(Head(batch[1]), who, Disabled) :
       /\ answers' = [answers EXCEPT ![who] = text]
       /\ cache' = IF ReadsImages(Head(batch[1]), who, Disabled) THEN text ELSE cache
  /\ UNCHANGED <<source, rows, configs, batch>>

SelectionNext ==
  \/ \E m \in Machines : GetInstanceConfigs(m)
  \/ \E who \in Askers : GetProblemStatement(who)

SelectionSpec == SelectionInit /\ [][SelectionNext]_selectionVars

-----------------------------------------------------------------------------
(* Properties *)

RunBy(m) == {batch[m][i].id : i \in DOMAIN batch[m]}

\* Two machines that share a shuffled list by slices run every instance once, even
\* when their files come in different orders (_filter_batch_items).
MachinesShare ==
  (\A m \in Machines : Len(configs[m]) > 1) =>
    /\ RunBy(1) \cup RunBy(2) = source.filter
    /\ Len(batch[1]) + Len(batch[2]) = Cardinality(source.filter)

\* "Very important: Make a copy of the deployment config because it will be shared
\* among instances": every instance of a batch runs in the image of its own row.
ImagesAreOwn ==
  \A m \in Machines : \A i \in DOMAIN batch[m] : \A n \in DOMAIN rows[m] :
    /\ configs[m][1].type \notin {"local", "dummy"} \/ source.kind = "expert_file"
    /\ rows[m][n].id = batch[m][i].id
    => configs[m][batch[m][i].config].image = rows[m][n].image

\* The attempts of an agent read one statement with images that come or fail to come
\* at any time ("cache to avoid re-processing images"): an attempt reads the text
\* alone when its agent or the one before it disables the images, and else what the
\* first one read.
AttemptsReadAlike ==
  LET a == answers["first attempt"]
      b == answers["second attempt"]
  IN b # NotAsked /\ Head(batch[1]).statement = "multimodal" =>
       b = IF disabling = {} THEN a ELSE <<"text">>

\* A batch is what was asked for: its share of the instances, each in its own image
\* and with one statement.
SelectionIsSound == MachinesShare /\ ImagesAreOwn /\ AttemptsReadAlike
=============================================================================
