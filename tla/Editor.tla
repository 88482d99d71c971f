------------------------------- MODULE Editor -------------------------------
(***************************************************************************)
(* The windowed editor that runs in the container: WindowedFile            *)
(* (tools/windowed/lib/windowed_file.py), its filter of lint errors        *)
(* (flake8_utils.py) and the registry file between two tool calls          *)
(* (tools/registry/lib/registry.py), as the tools open, create, goto,      *)
(* scroll, insert and the three edits use them.  One call is one process.  *)
(*                                                                         *)
(* Data: a text is the sequence of its pieces between newlines, so that a  *)
(* last piece "" is a final newline; a piece is a word.  "bad" is a line   *)
(* with a lint error, "syntax" one that hides all errors but its own.      *)
(* Searched text is a whole line.                                          *)
(***************************************************************************)
EXTENDS Integers, Sequences, FiniteSets, SequencesExt

CONSTANTS
  Texts,     \* initial texts of the file
  Pieces,    \* what an edit writes: sequences of lines
  Window,    \* WINDOW
  Overlap,   \* OVERLAP
  MaxEdits,  \* bound: calls of tools that edit
  MaxText    \* bound: pieces of a text

ASSUME EditorAssumption ==
  /\ Window \in Nat \ {0} /\ Overlap \in 0 .. Window
  /\ Texts \subseteq Seq(STRING) \ {<<>>} /\ Pieces \subseteq Seq(STRING)

Files == {"py", "txt"}  \* a file that is linted and one that is not
NoFile == "n/a"

VARIABLES
  files,       \* the text of each file
  currentFile, \* CURRENT_FILE in the registry
  firstLine,   \* FIRST_LINE in the registry
  verdict,     \* how the last call ended
  edits,       \* edits so far
  seen         \* ghost: text and window before the last call, lines it has changed

editorVars == <<files, currentFile, firstLine, verdict, edits, seen>>

-----------------------------------------------------------------------------
(* WindowedFile: text and first line, and those that undo_edit restores *)

NLines(text) == IF Last(text) = "" THEN Len(text) - 1 ELSE Len(text)
Least(a, b) == IF a <= b THEN a ELSE b
Most(a, b) == IF a >= b THEN a ELSE b

SetText(w, text) == [w EXCEPT !.text = text, !.originalText = w.text]
SetFirstLine(w, line) ==
  [w EXCEPT !.first = Most(0, Least(line, NLines(w.text) - Window)), !.originalFirst = w.first]

\* The constructor clamps the line that the registry holds.
Opened(f, line) ==
  LET w == SetFirstLine([text |-> files[f], first |-> 0, originalText |-> files[f],
                         originalFirst |-> 0], line)
  IN [w EXCEPT !.originalFirst = w.first]

UndoTextMutant(w) == SetText(w, w.originalText)
UndoEdit(w) == SetFirstLine(SetText(w, w.originalText), w.originalFirst)

\* A sixth of the window stays above the line.
Goto(w, line) == SetFirstLine(w, (6 * line - Window) \div 6)
Scroll(w, n) ==
  SetFirstLine(w, IF n > 0 THEN w.first + n - Overlap ELSE w.first + n + Overlap)

\* The lines on display, first and last.
LineRange(w) == <<w.first, Least(w.first + Window - 1, NLines(w.text) - 1)>>
WindowText(w) ==
  SubSeq(w.text, LineRange(w)[1] + 1, Least(LineRange(w)[2] + 1, Len(w.text)))

\* text[start : stop + 1] = lines
SetWindowText(w, start, stop, lines) ==
  SetText(w, LET new == SubSeq(w.text, 1, Least(start, Len(w.text))) \o lines \o
                        SubSeq(w.text, Most(start, stop + 1) + 1, Len(w.text))
             IN IF new = <<>> THEN <<"">> ELSE new)

Occurrences(text, word) == {i \in DOMAIN text : text[i] = word}
Replaced(text, word, lines) ==
  FlattenSeq([i \in DOMAIN text |-> IF text[i] = word THEN lines ELSE <<text[i]>>])

-----------------------------------------------------------------------------
(* flake8 and its filter *)

\* Lines count from 1 here, and from 0 in the windows.
Flake8(f, text) ==
  LET at(word) == Occurrences(text, word)
      error(i, problem) == [line |-> i, problem |-> problem]
  IN CASE f # "py" -> {}
       [] f = "py" /\ at("syntax") # {} -> {error(Min(at("syntax")), "E999")}
       [] OTHER -> {error(i, "F821") : i \in at("bad")}

\* Errors within the window are forgotten, those below it move.
UpdatePreviousErrors(errors, start, stop, n) ==
  {e \in errors : e.line < start} \cup
  {[e EXCEPT !.line = @ + n - (stop - start + 1)] : e \in {d \in errors : d.line > stop}}

\* What is new; errors above the window were only hidden.
NewErrorsMutant(before, after, start, stop, n) ==
  {e \in after \ UpdatePreviousErrors(before, start, stop, n) : e.line > stop + 1}
NewErrors(before, after, start, stop, n) ==
  IF before = {} THEN after
  ELSE {e \in after \ UpdatePreviousErrors(before, start, stop, n) : e.line >= start}

-----------------------------------------------------------------------------
(* The edits of a window: what it becomes, and the range that is linted *)

\* One final newline is not a line of its own.
Trimmed(lines) == IF Len(lines) > 1 /\ Last(lines) = "" THEN Front(lines) ELSE lines

\* edit of windowed_edit_rewrite: the window becomes these lines.
RewriteEdit(w, lines) ==
  [w |-> SetWindowText(w, LineRange(w)[1], LineRange(w)[2], lines), ok |-> TRUE,
   range |-> LineRange(w), n |-> Most(1, Len(lines)), all |-> FALSE]

\* edit of windowed_edit_linting: lines start to stop become these.  Lint is told of
\* as many lines as splitlines finds, one less than are written after a last newline.
LineEdit(w, start, stop, given) ==
  LET lines == IF given = <<"">> THEN <<>> ELSE given
  IN [w |-> SetWindowText(w, start, stop, lines), ok |-> TRUE, range |-> <<start, stop>>,
      n |-> IF lines = <<>> THEN 0 ELSE NLines(lines), all |-> FALSE]

\* edit of windowed_edit_replace: the only occurrence in the window, or all of them
\* in the file.
ReplaceInWindow(w, word, lines) ==
  LET found == Occurrences(WindowText(w), word)
      line == w.first + Min(found) - 1
  IN IF Cardinality(found) # 1 \/ lines = <<word>>
     THEN [w |-> w, ok |-> FALSE]
     ELSE [w |-> Goto(SetWindowText(w, LineRange(w)[1], LineRange(w)[2],
                                    Replaced(WindowText(w), word, lines)), line),
           ok |-> TRUE, range |-> <<line, line>>, n |-> Len(lines), all |-> FALSE]

ReplaceInFile(w, word, lines) ==
  LET found == Occurrences(w.text, word)
  IN IF found = {} \/ lines = <<word>>
     THEN [w |-> w, ok |-> FALSE]
     ELSE [w |-> Goto(SetText(w, Replaced(w.text, word, lines)), Min(found)),
           ok |-> TRUE, range |-> <<Min(found), Min(found)>>, n |-> Len(lines), all |-> TRUE]

\* insert: at the end, before the first line, or at an index.
AtTheEnd == -2
InsertedText(text, lines, line) ==
  CASE line = AtTheEnd ->
         IF text = <<"">> THEN lines
         ELSE (IF Last(text) = "" THEN Front(text) ELSE text) \o lines
    [] line = -1 ->
         IF text = <<"">> THEN lines
         ELSE lines \o (IF Head(text) = "" THEN Tail(text) ELSE text)
    [] OTHER -> SubSeq(text, 1, Least(line, Len(text))) \o lines \o
                SubSeq(text, line + 1, Len(text))

Insert(w, lines, line) ==
  LET at == CASE line = AtTheEnd -> NLines(w.text) [] line = -1 -> 0 [] OTHER -> line
  IN [w |-> Goto(SetText(w, InsertedText(w.text, Trimmed(lines), line)), at), ok |-> TRUE,
      range |-> <<at, at>>, n |-> Len(Trimmed(lines)), all |-> FALSE]

-----------------------------------------------------------------------------
(* The tools *)

EditorInit ==
  /\ files \in {[f \in Files |-> t] : t \in Texts}
  /\ currentFile = NoFile /\ firstLine = 0 /\ verdict = "none" /\ edits = 0
  /\ seen = [text |-> <<"">>, first |-> 0, changed |-> -1]

Ends(f, w, how, changed) ==
  /\ currentFile' = f /\ firstLine' = w.first
  /\ files' = [files EXCEPT ![f] = w.text]
  /\ verdict' = how
  /\ seen' = [text |-> files[f], first |-> Opened(f, firstLine).first, changed |-> changed]

\* Without a line the window is moved to a line above its first one.
Open(f) ==
  \E line \in {-1} \cup 1 .. NLines(files[f]) :
    LET w == Opened(f, firstLine)
    IN Ends(f, Goto(w, (IF line = -1 THEN w.first ELSE line) - 1), "moved", -1)
       /\ UNCHANGED edits

MovesWindow ==
  /\ currentFile # NoFile
  /\ LET w == Opened(currentFile, firstLine)
     IN \/ \E line \in 1 .. NLines(w.text) : Ends(currentFile, Goto(w, line - 1), "moved", -1)
        \/ \E n \in {Window, -Window} : Ends(currentFile, Scroll(w, n), "moved", -1)
  /\ UNCHANGED edits

\* An edit is linted, and undone when it brings a new error.  After an edit by line
\* numbers the window follows.
Lints(f, w, edit) ==
  NewErrors(IF edit.all THEN {} ELSE Flake8(f, w.text), Flake8(f, edit.w.text),
            edit.range[1], edit.range[2], edit.n)

Edits(edit, follows) ==
  LET f == currentFile
      w == Opened(f, firstLine)
  IN /\ edits < MaxEdits /\ edits' = edits + 1
     /\ Len(edit.w.text) <= MaxText
     /\ CASE ~edit.ok -> Ends(f, w, "not found", -1)
          [] edit.ok /\ Lints(f, w, edit) # {} -> Ends(f, UndoEdit(edit.w), "refused", -1)
          [] OTHER -> Ends(f, IF follows THEN Goto(edit.w, edit.range[1]) ELSE edit.w,
                           "accepted", edit.range[1])

Edit ==
  /\ currentFile # NoFile
  /\ LET w == Opened(currentFile, firstLine)
     IN \E lines \in Pieces :
          \/ Edits(RewriteEdit(w, lines), FALSE)
          \/ \E start \in 0 .. NLines(w.text) - 1 : \E stop \in start .. NLines(w.text) - 1 :
               \* as an argument, or as the heredoc that ends with end_of_edit
               \E given \in {Trimmed(lines), lines} : Edits(LineEdit(w, start, stop, given), TRUE)
          \/ \E word \in {"a", "bad", "syntax"} :
               \/ lines # <<>> /\ Edits(ReplaceInWindow(w, word, lines), FALSE)
               \/ lines # <<>> /\ Edits(ReplaceInFile(w, word, lines), FALSE)
          \/ \E line \in {AtTheEnd} \cup -1 .. NLines(w.text) :
               lines # <<>> /\ Edits(Insert(w, lines, line), FALSE)

\* ToolHandler.reset writes the registry anew; the files stay.
ResetRegistry ==
  /\ currentFile # NoFile
  /\ currentFile' = NoFile /\ firstLine' = 0 /\ verdict' = "none"
  /\ seen' = [text |-> <<"">>, first |-> 0, changed |-> -1]
  /\ UNCHANGED <<files, edits>>

EditorNext == (\E f \in Files : Open(f)) \/ MovesWindow \/ Edit \/ ResetRegistry

EditorSpec == EditorInit /\ [][EditorNext]_editorVars

-----------------------------------------------------------------------------
(* Properties *)

\* "Your changes have NOT been applied": a refused edit leaves the text and the
\* window as they were before the call, whatever the edit had done to both.
RefusedIsUndone ==
  verdict = "refused" => files[currentFile] = seen.text /\ firstLine = seen.first

\* An accepted edit brings no lint error: from the edited line on, the file has not
\* more of them than before.
AcceptedAddsNoError ==
  verdict = "accepted" =>
    LET below(text) == {e \in Flake8(currentFile, text) : e.line > seen.changed}
    IN Cardinality(below(files[currentFile])) <= Cardinality(below(seen.text))

EditsAreSound == RefusedIsUndone /\ AcceptedAddsNoError
=============================================================================
