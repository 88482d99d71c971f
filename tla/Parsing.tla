------------------------------ MODULE Parsing ------------------------------
(***************************************************************************)
(* From the tool bundles to the action that is run: the commands that      *)
(* ToolConfig loads (sweagent/tools/tools.py, bundle.py, commands.py), the *)
(* parsers of a model's reply (parsing.py) and the guard of multi-line     *)
(* commands (utils.py).                                                    *)
(*                                                                         *)
(* Data: a message is a sequence of lines, each "text", an opening fence   *)
(* with a name ("bash", "python"), a "bare" fence or a tag; an action is   *)
(* the lines of the message or the words a call renders to.  Argument      *)
(* names are well-formed and lines equally long.                           *)
(***************************************************************************)
EXTENDS Integers, Sequences, FiniteSets, SequencesExt, Lists

CONSTANTS
  BundleLists,  \* configured sequences of bundles
  CallReplies,  \* replies with function calls
  Lines,        \* kinds of lines of a message
  MaxLines,     \* bound: lines of a message
  Scripts       \* actions that are guarded

\* Names and signatures as the configurations have them.
IsCommand(command) ==
  /\ command.name \in STRING
  /\ command.arguments \in Seq([name : STRING, required : BOOLEAN])
  /\ command.signature \in
       Seq([kind : {"lit", "angle", "optional", "brace", "flag"}, arg : STRING])

ASSUME ParsingAssumption ==
  /\ \A bundles \in BundleLists :
       \A i \in DOMAIN bundles : \A command \in bundles[i].tools : IsCommand(command)
  /\ \A calls \in CallReplies :
       calls \in Seq([name : STRING, args : SUBSET STRING, nulls : SUBSET STRING,
                      json : {"object", "no json", "no object", "dict"}])
  /\ \A script \in Scripts : script \in Seq([kind : STRING, here : BOOLEAN])
  /\ MaxLines \in Nat

VARIABLES
  toolConfig,   \* loaded commands and parser
  reply,        \* what the model has answered
  parsed,       \* what parse_actions made of it
  guarded       \* what guard_multiline_input made of the action

parsingVars == <<toolConfig, reply, parsed, guarded>>

-----------------------------------------------------------------------------
(* Command *)

Names(command) == {command.arguments[i].name : i \in DOMAIN command.arguments}

\* A signature is a sequence of words, "<a>", "[<a>]", "{a}" and "--a" name an
\* argument, all but the last stand for its value.
Fields(format) == {format[i].arg : i \in {j \in DOMAIN format : format[j].kind # "lit"}}
Literal(word) == [kind |-> "lit", arg |-> word]
Field(a) == [kind |-> "field", arg |-> a]

InvokeFormat(command) ==
  IF command.signature # <<>>
  THEN [i \in DOMAIN command.signature |->
          IF command.signature[i].kind \in {"lit", "flag"}
          THEN Literal(command.signature[i].arg) ELSE Field(command.signature[i].arg)]
  ELSE <<Literal(command.name)>> \o
       [i \in DOMAIN command.arguments |-> Field(command.arguments[i].name)]

\* Every argument is in the signature, in any of the four notations.
SignatureNamesAll(command) ==
  command.signature = <<>> \/ Names(command) \subseteq Fields(command.signature)

\* A command without arguments is not looked at.
ValidateArgumentsMutant(command) ==
  LET args == command.arguments
  IN args = <<>> \/
     /\ \A i, j \in DOMAIN args : i < j /\ args[j].required => args[i].required
     /\ SignatureNamesAll(command)
ValidateArguments(command) ==
  LET args == command.arguments
  IN args = <<>> \/
     /\ \A i, j \in DOMAIN args : i < j /\ args[j].required => args[i].required
     /\ Cardinality(Names(command)) = Len(args)
     /\ SignatureNamesAll(command)
     /\ Fields(InvokeFormat(command)) = Names(command)

\* get_signature breaks on a multi-line command that has none.
Documented(command) == command.end_name # "" => command.signature # <<>>

-----------------------------------------------------------------------------
(* Bundle, ToolConfig *)

BASH_COMMAND ==
  [name |-> "bash", arguments |-> <<[name |-> "command", required |-> TRUE]>>,
   signature |-> <<[kind |-> "angle", arg |-> "command"]>>, end_name |-> ""]

ValidTools(bundle) == bundle.hidden \subseteq {c.name : c \in bundle.tools}
BundleCommands(bundle) == {c \in bundle.tools : c.name \notin bundle.hidden}

\* A name that two bundles define, or bash, is refused.
ConfiguredCommands(bundles, bash) ==
  (IF bash THEN {BASH_COMMAND} ELSE {})
    \cup UNION {BundleCommands(bundles[i]) : i \in DOMAIN bundles}
NoDuplicateTools(bundles, bash) ==
  LET all == [i \in 0 .. Len(bundles) |-> IF i > 0 THEN BundleCommands(bundles[i])
                                          ELSE IF bash THEN {BASH_COMMAND} ELSE {}]
  IN \A i, j \in DOMAIN all, c \in UNION {all[k] : k \in DOMAIN all},
        d \in UNION {all[k] : k \in DOMAIN all} :
       i # j /\ c \in all[i] /\ d \in all[j] => c.name # d.name

BashMayBeOff(parser) == parser \in {"function_calling", "json"}

Parsers == {"thought_action", "xml_thought_action", "xml_function_calling",
            "function_calling", "json", "all_bash_code_blocks",
            "single_bash_code_block", "action", "identity", "action_only"}

-----------------------------------------------------------------------------
(* Outcomes *)

Parsed(thought, action) ==
  [kind |-> "action", code |-> "", thought |-> thought, action |-> action]
FormatError(code) ==
  [kind |-> "format error", code |-> code, thought |-> <<>>, action |-> <<>>]
\* Another exception: it leaves the parser and ends the run of the agent.
Crash == [kind |-> "crash", code |-> "", thought |-> <<>>, action |-> <<>>]
NotParsed == [kind |-> "none", code |-> "", thought |-> <<>>, action |-> <<>>]

-----------------------------------------------------------------------------
(* Parsers of a message *)

Where(m, kinds) == {i \in DOMAIN m : m[i] \in kinds}
Fences == {"bare", "bash", "python"}

\* A bare fence closes the block opened last, every other fence opens one; the
\* action is the last block that was closed outside of all others.
FenceMutant(m, s, i) ==
  IF m[i] = "bare" /\ s.stack # <<>>
  THEN [stack |-> Front(s.stack), last |-> <<Last(s.stack), i>>]
  ELSE IF m[i] \in Fences THEN [s EXCEPT !.stack = Append(@, i)] ELSE s
Fence(m, s, i) ==
  IF m[i] = "bare" /\ s.stack # <<>>
  THEN [stack |-> Front(s.stack),
        last |-> IF Len(s.stack) = 1 THEN <<Head(s.stack), i>> ELSE s.last]
  ELSE IF m[i] \in Fences THEN [s EXCEPT !.stack = Append(@, i)] ELSE s

FencesRead(m) ==
  LET f[i \in 0 .. Len(m)] ==
        IF i = 0 THEN [stack |-> <<>>, last |-> <<>>] ELSE Fence(m, f[i - 1], i)
  IN f

LastValidBlock(m) == FencesRead(m)[Len(m)].last

Outside(m, a, b) == SubSeq(m, 1, a - 1) \o SubSeq(m, b + 1, Len(m))

ThoughtAction(m) ==
  LET block == LastValidBlock(m)
  IN IF block = <<>> THEN FormatError("")
     ELSE Parsed(Outside(m, block[1], block[2]), SubSeq(m, block[1] + 1, block[2] - 1))

\* Everything between the last <command> and the last </command>; nothing when
\* they come in the other order, and what lies between them is thought twice.
XMLThoughtAction(m) ==
  LET open == Where(m, {"<command>"})
      close == Where(m, {"</command>"})
  IN IF open = {} \/ close = {} THEN FormatError("")
     ELSE Parsed(Outside(m, Max(open), Max(close)),
                 SubSeq(m, Max(open) + 1, Max(close) - 1))

\* Blocks of ```bash: from such a fence to the next line that starts with a fence,
\* with a line between them.
BashBlock(m, s, i) ==
  IF s.open = 0
  THEN IF m[i] = "bash" THEN [s EXCEPT !.open = i] ELSE s
  ELSE IF m[i] \in Fences /\ i > s.open + 1
       THEN [open |-> 0, blocks |-> Append(s.blocks, <<s.open, i>>)] ELSE s

BashBlocks(m) ==
  FoldLeft(LAMBDA s, i : BashBlock(m, s, i), [open |-> 0, blocks |-> <<>>],
           [i \in DOMAIN m |-> i]).blocks

BashCodeBlocks(m, single) ==
  LET blocks == BashBlocks(m)
      inside(b) == SubSeq(m, b[1] + 1, b[2] - 1)
      placeholders == [i \in DOMAIN m |->
        IF \E k \in DOMAIN blocks : i = blocks[k][1] THEN "extracted"
        ELSE IF \E k \in DOMAIN blocks : i \in blocks[k][1] .. blocks[k][2] THEN "" ELSE m[i]]
  IN IF blocks = <<>> \/ (single /\ Len(blocks) > 1) THEN FormatError("")
     ELSE Parsed(SelectSeq(placeholders, LAMBDA line : line # ""),
                 FlattenSeq([k \in DOMAIN blocks |-> inside(blocks[k])]))

\* The message is the command: its first word must be one, or it is not looked at.
WholeMessage(m, parser) ==
  CASE parser = "action" /\ (m = <<>> \/ Head(m) # "bash") -> FormatError("")
    [] parser = "action_only" -> Parsed(<<>>, m)
    [] OTHER -> Parsed(m, m)

-----------------------------------------------------------------------------
(* Parsers of a call: its name, arguments, the arguments that are null *)

Given(call) == call.args \cup call.nulls
ShouldQuote(a, call, command) ==
  command.name # "bash" /\ command.end_name = "" /\ a \in call.args

Value(a, call, command) ==
  [kind |-> IF ShouldQuote(a, call, command) THEN "quoted" ELSE "value", arg |-> a]

\* str.format: a field that nothing is given for raises; what is not shown is empty.
Rendered(command, call, formatted, shown) ==
  IF ~(Fields(InvokeFormat(command)) \subseteq formatted) THEN Crash
  ELSE Parsed(<<>>,
         LET words == [i \in DOMAIN InvokeFormat(command) |->
                         LET w == InvokeFormat(command)[i]
                         IN IF w.kind = "lit" THEN w ELSE Value(w.arg, call, command)]
         IN Filtered(words, {w \in ToSet(words) : w.kind = "lit" \/ w.arg \in shown}))

\* Every argument has an entry, an empty one when it was not given.
FormattedMutant(command, call) == Names(command) \cap Given(call)
Formatted(command, call) == Names(command)

CommandNamed(name) == {c \in toolConfig.commands : c.name = name}
TheCommand(name) == CHOOSE c \in toolConfig.commands : c.name = name
Required(command) ==
  {command.arguments[i].name : i \in {j \in DOMAIN command.arguments :
                                       command.arguments[j].required}}

\* What both function parsers check of a call; the end of a multi-line command
\* among the arguments is ignored.
CheckedCall(command, call) ==
  IF ~(Required(command) \subseteq Given(call)) THEN FormatError("missing_arg")
  ELSE IF ~(Given(call) \ {command.end_name} \subseteq Names(command))
       THEN FormatError("unexpected_arg")
       ELSE Rendered(command, call, Formatted(command, call), call.args)

ParseToolCall(call) ==
  IF CommandNamed(call.name) = {} THEN FormatError("invalid_command")
  ELSE CASE call.json = "no json" -> FormatError("invalid_json")
         [] call.json \in {"no object", "dict"} -> Crash
         [] OTHER -> CheckedCall(TheCommand(call.name), call)

FunctionCalling(calls) ==
  CASE Len(calls) = 0 -> FormatError("missing")
    [] Len(calls) > 1 -> FormatError("multiple")
    [] OTHER -> ParseToolCall(Head(calls))

\* SWE-gym's names are translated; a view_range has to be two numbers.
XMLName(name) ==
  CASE name = "execute_bash" -> "bash" [] name = "finish" -> "submit" [] OTHER -> name

XMLFunctionCalling(calls) ==
  IF calls = <<>> THEN FormatError("")
  ELSE LET call == [Head(calls) EXCEPT !.args = @ \cup Head(calls).nulls, !.nulls = {}]
           name == XMLName(call.name)
       IN IF \/ CommandNamed(name) = {}
             \/ "view_range" \in call.args /\ call.json = "no object"
          THEN FormatError("") ELSE CheckedCall(TheCommand(name), call)

\* Without strict an unknown command is joined with its arguments, and what is
\* missing is not noticed before the command is rendered, which writes a null as None.
JsonCall(calls) ==
  IF calls = <<>> \/ Head(calls).json # "object" THEN FormatError("")
  ELSE LET call == Head(calls)
       IN IF CommandNamed(call.name) # {}
          THEN Rendered(TheCommand(call.name), call,
                        Names(TheCommand(call.name)) \cap Given(call), Given(call))
          ELSE IF call.nulls # {} THEN Crash
               ELSE Parsed(<<>>, <<Literal(call.name)>> \o SetToSeq({Literal(a) : a \in call.args}))

ParseActions(parser, r) ==
  CASE parser = "thought_action" -> ThoughtAction(r.message)
    [] parser = "xml_thought_action" -> XMLThoughtAction(r.message)
    [] parser = "all_bash_code_blocks" -> BashCodeBlocks(r.message, FALSE)
    [] parser = "single_bash_code_block" -> BashCodeBlocks(r.message, TRUE)
    [] parser = "function_calling" -> FunctionCalling(r.calls)
    [] parser = "xml_function_calling" -> XMLFunctionCalling(r.calls)
    [] parser = "json" -> JsonCall(r.calls)
    [] OTHER -> WholeMessage(r.message, parser)

-----------------------------------------------------------------------------
(* guard_multiline_input: lines of the action, "edit" begins a multi-line  *)
(* command, "end" ends it                                                  *)

ScriptLine(kind) == [kind |-> kind, here |-> FALSE]

\* The first line that begins a command which some later line ends.
MultilineStart(lines) ==
  {i \in Where([k \in DOMAIN lines |-> lines[k].kind], {"edit"}) :
     \E j \in DOMAIN lines : i < j /\ lines[j].kind = "end"}
MultilineEnd(lines, i) == Min({j \in DOMAIN lines : i < j /\ lines[j].kind = "end"})

HereDocMutant(lines) == [lines EXCEPT ![Len(lines)].here = TRUE]
HereDoc(lines) ==
  IF lines = <<>> THEN <<[kind |-> "", here |-> TRUE]>> ELSE [lines EXCEPT ![1].here = TRUE]

\* The matched text is sliced once more by the offset of the match in what was
\* left of the action: that many lines are lost at its beginning, and a character
\* of the next one after an earlier match.
GuardedCommand(command, offset, newline) ==
  IF newline /\ offset = 0 THEN HereDoc(<<ScriptLine("")>> \o command)
  ELSE LET rest == SubSeq(command, offset + 1, Len(command))
       IN HereDoc(IF newline /\ rest # <<>> THEN [rest EXCEPT ![1].kind = "cut"] ELSE rest)

GuardTurn(s) ==
  LET starts == MultilineStart(s.rest)
      i == Min(starts)
      j == MultilineEnd(s.rest, i)
      command == SubSeq(s.rest, i, j)
  IN IF starts = {}
     THEN [done |-> s.done \o s.rest, rest |-> <<>>, newline |-> FALSE]
     ELSE [done |-> s.done \o SubSeq(s.rest, 1, i - 1) \o
                      IF command[1].here /\ ~(s.newline /\ i = 1) THEN command
                      ELSE GuardedCommand(command, i - 1, s.newline),
           rest |-> SubSeq(s.rest, j + 1, Len(s.rest)), newline |-> TRUE]

GuardTurns(lines) ==
  LET f[k \in 0 .. Len(lines)] ==
        IF k = 0 THEN [done |-> <<>>, rest |-> lines, newline |-> FALSE] ELSE GuardTurn(f[k - 1])
  IN f

GuardMultilineInput(lines) == GuardTurns(lines)[Len(lines)].done

-----------------------------------------------------------------------------
(* The steps *)

NoReply == [message |-> <<>>, calls |-> <<>>]
NoTools == [commands |-> {}, parser |-> "none", ok |-> FALSE]

ParsingInit ==
  toolConfig = NoTools /\ reply = NoReply /\ parsed = NotParsed /\ guarded = <<>>

\* ToolConfig.model_post_init: the configuration is loaded or refused.
LoadTools(bundles, bash, parser) ==
  LET commands == ConfiguredCommands(bundles, bash)
      ok == /\ \A i \in DOMAIN bundles : ValidTools(bundles[i])
            /\ \A c \in commands : ValidateArguments(c) /\ Documented(c)
            /\ NoDuplicateTools(bundles, bash)
            /\ bash \/ BashMayBeOff(parser)
  IN /\ toolConfig = NoTools /\ guarded = <<>>
     /\ toolConfig' = IF ok THEN [commands |-> commands, parser |-> parser, ok |-> TRUE]
                      ELSE [NoTools EXCEPT !.parser = "refused"]
     /\ UNCHANGED <<reply, parsed, guarded>>

ParseReply(r) ==
  /\ toolConfig.ok /\ parsed.kind = "none"
  /\ reply' = r /\ parsed' = ParseActions(toolConfig.parser, r)
  /\ UNCHANGED <<toolConfig, guarded>>

Guard(script) ==
  /\ toolConfig = NoTools /\ guarded = <<>>
  /\ reply' = [NoReply EXCEPT !.message = script] /\ guarded' = GuardMultilineInput(script)
  /\ UNCHANGED <<toolConfig, parsed>>

Discussions == UNION {[1 .. n -> Lines] : n \in 0 .. MaxLines}
\* The parsers of a message do not look at the commands.
UsesCalls(parser) == parser \in {"function_calling", "xml_function_calling", "json"}

ParsingNext ==
  \/ \E bundles \in BundleLists, bash \in BOOLEAN, parser \in Parsers :
       LoadTools(bundles, bash, parser)
  \/ \E calls \in CallReplies :
       UsesCalls(toolConfig.parser) /\ ParseReply([message |-> <<>>, calls |-> calls])
  \/ \E m \in Discussions :
       ~UsesCalls(toolConfig.parser) /\ toolConfig.commands = {BASH_COMMAND}
         /\ ParseReply([message |-> m, calls |-> <<>>])
  \/ \E script \in Scripts : Guard(script)

ParsingSpec == ParsingInit /\ [][ParsingNext]_parsingVars

-----------------------------------------------------------------------------
(* Properties *)

\* The outcome is a whole code block of m: the blocks within it are closed, no block
\* before it is left open, and no whole block follows it.
IsLastBlock(m, outcome) ==
  LET bare(a, b) == Cardinality({i \in a .. b : m[i] = "bare"})
      named(a, b) == Cardinality({i \in a .. b : m[i] \in Fences \ {"bare"}})
      \* the fence at a opens a block that ends at b
      block(a, b) == /\ m[a] \in Fences /\ m[b] = "bare"
                     /\ bare(a + 1, b - 1) = named(a + 1, b - 1)
                     /\ \A c \in a + 1 .. b - 1 : bare(a + 1, c) <= named(a + 1, c)
      closes(a, z) == \E b \in a + 1 .. z : block(a, b)
      first(a, z) == {i \in Where(m, Fences) : i >= a /\ i <= z
                                              /\ \A k \in a .. i - 1 : m[k] \notin Fences}
  IN \E a, b \in DOMAIN m :
       /\ a < b /\ block(a, b)
       /\ outcome.action = SubSeq(m, a + 1, b - 1) /\ outcome.thought = Outside(m, a, b)
       /\ \A i \in first(1, a - 1) : closes(i, a - 1)
       /\ \A i \in first(b + 1, Len(m)) : ~closes(i, Len(m))

\* The action of a discussion is the last whole code block (the docstring of
\* ThoughtActionParser).
ActionIsLastBlock ==
  toolConfig.parser = "thought_action" /\ parsed.kind = "action" =>
    IsLastBlock(reply.message, parsed)

\* A command without arguments is accepted whatever its signature says
\* (validate_arguments returns early); with a field in it, it can not be rendered.
Unrenderable(command) == command.arguments = <<>> /\ Fields(InvokeFormat(command)) # {}

\* A function call that passes the parser's checks can be rendered, whatever the
\* signature of its command was written like, and every argument it gives is in the
\* action: what the configuration accepts and what the parser accepts fit.
CallsRender ==
  toolConfig.parser \in {"function_calling", "xml_function_calling"}
    /\ reply.calls # <<>> /\ Head(reply.calls).json = "object" =>
       LET call == Head(reply.calls)
           name == IF toolConfig.parser = "function_calling" THEN call.name
                   ELSE XMLName(call.name)
           command == TheCommand(name)
       IN CommandNamed(name) = {} \/ ~Unrenderable(command) =>
            /\ parsed.kind # "crash"
            /\ parsed.kind = "action" =>
                 \A a \in call.args \ {command.end_name} :
                   Value(a, call, command) \in Range(parsed.action)

\* An action that begins with its only multi-line command is sent whole and in
\* order, with the heredoc on its first line once.
GuardKeepsCommand ==
  guarded # <<>> /\ Head(reply.message).kind = "edit"
    /\ Cardinality({i \in DOMAIN reply.message : reply.message[i].kind = "edit"}) = 1
    /\ MultilineStart(reply.message) # {} =>
      guarded = [reply.message EXCEPT ![1].here = TRUE]

\* What is executed is what the model has written: the whole block, every argument of
\* the call, or the whole multi-line command.
ActionsAreWhole == ActionIsLastBlock /\ CallsRender /\ GuardKeepsCommand
=============================================================================
