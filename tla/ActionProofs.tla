---------------------------- MODULE ActionProofs ----------------------------
(***************************************************************************)
(* Theorems about actions: what an edit does to a text (Editor), which of  *)
(* several proposed ones is chosen (Sampling), that a replay executes      *)
(* those that were recorded (SingleRun), and that what is parsed of a      *)
(* reply is what the model has written (Parsing); for windows, texts,      *)
(* discussions, numbers of samples and of actions of any size.             *)
(***************************************************************************)
EXTENDS Editor, Sampling, SingleRun, Parsing, FiniteSetTheorems, WellFoundedInduction,
        SequenceTheorems, TLAPS

-----------------------------------------------------------------------------
(* Induction over the natural numbers, for a set *)

LEMMA LeastOne ==
  ASSUME NEW T \in SUBSET Nat, T # {}
  PROVE  \E i \in T : \A j \in T : i <= j
<1> DEFINE R == OpToRel(<, Nat)
<1>1. PICK i \in T : \A j \in T : ~(<<j, i>> \in R)
  <2> HIDE DEF R
  <2>1. IsWellFoundedOn(R, Nat)
    BY NatLessThanWellFounded DEF R
  <2> QED BY <2>1, WFMin
<1>2. ASSUME NEW j \in T PROVE i <= j
  <2>1. ~(j < i)
    BY <1>1 DEF OpToRel
  <2> QED BY <2>1
<1> QED BY <1>2

LEMMA EveryNumber ==
  ASSUME NEW T, 0 \in T, \A k \in Nat : k \in T => k + 1 \in T
  PROVE  Nat \subseteq T
<1> SUFFICES ASSUME Nat \ T # {} PROVE FALSE
  OBVIOUS
<1>1. PICK i \in Nat \ T : \A j \in Nat \ T : i <= j
  BY LeastOne
<1>2. i - 1 \in Nat /\ i - 1 \in T
  BY <1>1
<1> QED BY <1>1, <1>2

-----------------------------------------------------------------------------
(* Recursive functions over the numbers up to n *)

\* A function that starts with a and takes the step G[i] to i.
IsRun(f, n, S, a, G) ==
  f \in [0 .. n -> S] /\ f[0] = a /\ \A i \in 1 .. n : f[i] = G[i][f[i - 1]]
HasRun(n, S, a, G) == \E f : IsRun(f, n, S, a, G)

LEMMA FunctionExists ==
  ASSUME NEW n \in Nat, NEW S, NEW a \in S, NEW G \in [1 .. n -> [S -> S]]
  PROVE  HasRun(n, S, a, G)
<1> DEFINE Follows(f, i) == f[i] = IF i = 0 THEN a ELSE G[i][f[i - 1]]
           Partial(k) == \E f \in [0 .. k -> S] : \A i \in 0 .. k : Follows(f, i)
           U == {k \in Nat : k <= n => Partial(k)}
<1>1. 0 \in U
  <2>1. [j \in 0 .. 0 |-> a] \in [0 .. 0 -> S]
    OBVIOUS
  <2>2. \A i \in 0 .. 0 : Follows([j \in 0 .. 0 |-> a], i)
    OBVIOUS
  <2>3. Partial(0)
    BY <2>1, <2>2, Zenon
  <2> QED BY <2>3
<1>2. ASSUME NEW k \in Nat, k \in U PROVE k + 1 \in U
  <2>0. k + 1 \in Nat
    OBVIOUS
  <2> SUFFICES ASSUME k + 1 <= n PROVE Partial(k + 1)
    BY <2>0, Zenon
  <2>1. Partial(k)
    <3>1. k <= n /\ k \in U
      BY <1>2
    <3> QED BY <3>1, Zenon
  <2>2. PICK f \in [0 .. k -> S] : \A i \in 0 .. k : Follows(f, i)
    BY <2>1, Zenon
  <2>3. PICK last \in S : last = G[k + 1][f[k]]
    <3>1. f[k] \in S /\ k + 1 \in 1 .. n
      BY <2>2
    <3> QED BY <3>1
  <2> DEFINE g == [i \in 0 .. k + 1 |-> IF i = k + 1 THEN last ELSE f[i]]
  <2>4. g \in [0 .. k + 1 -> S]
    BY <2>2, <2>3
  <2>5. ASSUME NEW i \in 0 .. k + 1 PROVE Follows(g, i)
    <3>1. CASE i = k + 1
      <4>1. g[i] = last /\ g[i - 1] = f[k] /\ i # 0
        BY <3>1
      <4> QED BY <2>3, <3>1, <4>1
    <3>2. CASE i # k + 1
      <4>1. i \in 0 .. k /\ g[i] = f[i] /\ (i # 0 => g[i - 1] = f[i - 1])
        BY <3>2
      <4> QED BY <2>2, <4>1
    <3> QED BY <3>1, <3>2
  <2> QED BY <2>4, <2>5
<1> HIDE DEF U
<1>3. Nat \subseteq U
  BY <1>1, <1>2, EveryNumber, Zenon
<1>4. Partial(n)
  <2>1. n \in U /\ n <= n
    BY <1>3
  <2> QED BY <2>1, Zenon DEF U
<1>5. PICK f \in [0 .. n -> S] : \A i \in 0 .. n : Follows(f, i)
  BY <1>4, Zenon
<1>6. IsRun(f, n, S, a, G)
  BY <1>5 DEF IsRun
<1> QED BY <1>6 DEF HasRun

-----------------------------------------------------------------------------
(* Sequences *)

\* A text is never empty, not even without a character.
Full(S) == Seq(S) \ {<<>>}

LEMMA ConcatFull ==
  ASSUME NEW S, NEW s \in Seq(S), NEW t \in Seq(S)
  PROVE  s \o t \in Seq(S) /\ (s # <<>> \/ t # <<>> => s \o t # <<>>)
BY ConcatProperties, EmptySeq

\* What FlattenSeq computes of pieces that are not empty.
LEMMA FlattenFull ==
  ASSUME NEW S, NEW seqs \in Seq(Full(S)), seqs # <<>>
  PROVE  FlattenSeq(seqs) \in Full(S)
<1> DEFINE N == Len(seqs)
           Follows(f, i) == f[i] = IF i = 1 THEN seqs[i] ELSE f[i - 1] \o seqs[i]
           it == CHOOSE f : f = [i \in 1 .. N |-> IF i = 1 THEN seqs[i] ELSE f[i - 1] \o seqs[i]]
           Partial(k) == \E f \in [1 .. k -> Full(S)] : \A i \in 1 .. k : Follows(f, i)
<1>1. N \in Nat \ {0} /\ \A i \in 1 .. N : seqs[i] \in Full(S)
  BY EmptySeq, ElementOfSeq
<1>2. FlattenSeq(seqs) = it[N]
  BY <1>1 DEF FlattenSeq
<1> HIDE DEF N, it
<1>3. \A k \in Nat : k <= N => Partial(k)
  <2> DEFINE T == {k \in Nat : k <= N => Partial(k)}
  <2>1. 0 \in T
    <3>1. [j \in 1 .. 0 |-> <<>>] \in [1 .. 0 -> Full(S)]
      OBVIOUS
    <3>2. \A i \in 1 .. 0 : Follows([j \in 1 .. 0 |-> <<>>], i)
      OBVIOUS
    <3>3. Partial(0)
      BY <3>1, <3>2, Zenon
    <3> QED BY <3>3
  <2>2. ASSUME NEW k \in Nat, k \in T PROVE k + 1 \in T
    <3> SUFFICES ASSUME k + 1 <= N PROVE Partial(k + 1)
      OBVIOUS
    <3>1. PICK f \in [1 .. k -> Full(S)] : \A i \in 1 .. k : Follows(f, i)
      BY <1>1, <2>2
    <3>2. PICK last \in Full(S) : last = IF k + 1 = 1 THEN seqs[k + 1] ELSE f[k] \o seqs[k + 1]
      <4>1. seqs[k + 1] \in Full(S)
        BY <1>1
      <4>2. CASE k = 0
        BY <4>1, <4>2
      <4>3. CASE k # 0
        <5>1. f[k] \in Full(S)
          BY <3>1, <4>3
        <5>2. f[k] \o seqs[k + 1] \in Full(S)
          BY <4>1, <5>1, ConcatFull DEF Full
        <5>3. k + 1 # 1
          BY <4>3
        <5> QED BY <5>2, <5>3, Zenon
      <4> QED BY <4>2, <4>3
    <3> DEFINE g == [i \in 1 .. k + 1 |-> IF i = k + 1 THEN last ELSE f[i]]
    <3>3. g \in [1 .. k + 1 -> Full(S)]
      BY <3>1, <3>2
    <3>4. ASSUME NEW i \in 1 .. k + 1 PROVE Follows(g, i)
      <4>1. CASE i = k + 1
        BY <3>2, <4>1
      <4>2. CASE i # k + 1
        <5>1. i \in 1 .. k /\ g[i] = f[i] /\ (i # 1 => g[i - 1] = f[i - 1])
          BY <4>2
        <5> QED BY <3>1, <5>1
      <4> QED BY <4>1, <4>2
    <3> QED BY <3>3, <3>4
  <2> HIDE DEF T
  <2>3. Nat \subseteq T
    BY <2>1, <2>2, EveryNumber, Zenon
  <2> QED BY <2>3 DEF T
<1>4. PICK f \in [1 .. N -> Full(S)] : \A i \in 1 .. N : Follows(f, i)
  <2>1. N \in Nat /\ N <= N
    BY <1>1
  <2>2. Partial(N)
    BY <1>3, <2>1, Zenon
  <2> QED BY <2>2, Zenon
<1>5. f = [i \in 1 .. N |-> IF i = 1 THEN seqs[i] ELSE f[i - 1] \o seqs[i]]
  BY <1>4
<1>6. it = [i \in 1 .. N |-> IF i = 1 THEN seqs[i] ELSE it[i - 1] \o seqs[i]]
  BY <1>5 DEF it
<1>7. \A i \in Nat : i + 1 <= N => it[i + 1] \in Full(S)
  <2> DEFINE T == {i \in Nat : i + 1 <= N => it[i + 1] \in Full(S)}
  <2>1. 0 \in T
    BY <1>1, <1>6
  <2>2. ASSUME NEW i \in Nat, i \in T PROVE i + 1 \in T
    <3> SUFFICES ASSUME i + 2 <= N PROVE it[i + 2] \in Full(S)
      OBVIOUS
    <3>0. PICK k \in 1 .. N : k = i + 2 /\ k # 1 /\ k - 1 = i + 1
      BY <1>1
    <3>1. it[k] = it[k - 1] \o seqs[k]
      BY <1>6, <3>0
    <3>2. it[k - 1] \in Full(S) /\ seqs[k] \in Full(S)
      BY <1>1, <2>2, <3>0
    <3> QED BY <3>0, <3>1, <3>2, ConcatFull DEF Full
  <2> HIDE DEF T
  <2>3. Nat \subseteq T
    BY <2>1, <2>2, EveryNumber, Zenon
  <2> QED BY <2>3 DEF T
<1>8. it[N] \in Full(S)
  <2>1. N - 1 \in Nat /\ (N - 1) + 1 = N
    BY <1>1
  <2> QED BY <1>7, <2>1
<1> QED BY <1>2, <1>8

-----------------------------------------------------------------------------
(* Editor: texts and windows *)

\* All strings; that the empty one is among them is not known to the provers.
Words == STRING \cup {""}
Text == Full(Words)
Windows == [text : Text, first : Nat, originalText : Text, originalFirst : Nat]

LEMMA TextFields ==
  ASSUME NEW text \in Text
  PROVE  /\ text \in Seq(Words) /\ Len(text) \in Nat \ {0} /\ NLines(text) \in Nat
         /\ DOMAIN text = 1 .. Len(text) /\ \A i \in 1 .. Len(text) : text[i] \in Words
<1>1. text \in Seq(Words) /\ text # <<>>
  BY DEF Text, Full
<1>2. Len(text) \in Nat \ {0}
  BY <1>1, EmptySeq, LenProperties
<1>3. DOMAIN text = 1 .. Len(text) /\ \A i \in 1 .. Len(text) : text[i] \in Words
  BY <1>1, LenProperties, ElementOfSeq
<1>4. NLines(text) \in Nat
  <2>1. NLines(text) = Len(text) - 1 \/ NLines(text) = Len(text)
    BY Zenon DEF NLines
  <2> QED BY <1>2, <2>1
<1> QED BY <1>1, <1>2, <1>3, <1>4

LEMMA InWords == ASSUME NEW s \in Seq(STRING) PROVE s \in Seq(Words)
<1>1. \A i \in 1 .. Len(s) : s[i] \in Words
  BY ElementOfSeq DEF Words
<1> QED BY <1>1, LenProperties

LEMMA OneLine == ASSUME NEW x \in Words PROVE <<x>> \in Text
<1>1. <<x>> = Append(<<>>, x)
  OBVIOUS
<1>2. <<>> \in Seq(Words)
  BY EmptySeq
<1>3. Append(<<>>, x) \in Seq(Words)
  BY <1>2, AppendProperties, Zenon
<1>4. Append(<<>>, x) # <<>>
  BY <1>2, AppendProperties, Zenon
<1> QED BY <1>1, <1>3, <1>4 DEF Text, Full

LEMMA Parts ==
  ASSUME NEW s \in Seq(Words), NEW m \in Int, NEW k \in Int, 1 <= m, k <= Len(s)
  PROVE  SubSeq(s, m, k) \in Seq(Words)
<1>1. \A i \in m .. k : s[i] \in Words
  BY ElementOfSeq, LenProperties
<1> QED BY <1>1, SubSeqProperties

Clamped(text, line) == Most(0, Least(line, NLines(text) - Window))

LEMMA ClampedTwice ==
  ASSUME NEW text \in Text, NEW line \in Int
  PROVE  /\ Clamped(text, line) \in Nat /\ Clamped(text, Clamped(text, line)) = Clamped(text, line)
         /\ Clamped(text, line) = 0 \/ Clamped(text, line) + Window <= NLines(text)
BY TextFields, EditorAssumption DEF Clamped, Most, Least

LEMMA SetFirstLineFields ==
  ASSUME NEW w \in Windows, NEW line \in Int
  PROVE  /\ SetFirstLine(w, line) \in Windows
         /\ SetFirstLine(w, line).text = w.text /\ SetFirstLine(w, line).originalText = w.originalText
         /\ SetFirstLine(w, line).first = Clamped(w.text, line)
         /\ SetFirstLine(w, line).originalFirst = w.first
<1>1. w.text \in Text /\ w.first \in Nat
  BY DEF Windows
<1>2. Clamped(w.text, line) \in Nat
  BY <1>1, ClampedTwice
<1>3. SetFirstLine(w, line) = [w EXCEPT !.first = Clamped(w.text, line), !.originalFirst = w.first]
  BY DEF SetFirstLine, Clamped
<1> QED BY <1>1, <1>2, <1>3 DEF Windows

LEMMA GotoFields ==
  ASSUME NEW w \in Windows, NEW line \in Int
  PROVE  /\ Goto(w, line) \in Windows
         /\ Goto(w, line).text = w.text /\ Goto(w, line).originalText = w.originalText
         /\ Goto(w, line).originalFirst = w.first
<1>1. (6 * line - Window) \div 6 \in Int
  BY EditorAssumption
<1> QED BY <1>1, SetFirstLineFields DEF Goto

LEMMA SetTextFields ==
  ASSUME NEW w \in Windows, NEW text \in Text
  PROVE  /\ SetText(w, text) \in Windows
         /\ SetText(w, text).text = text /\ SetText(w, text).originalText = w.text
         /\ SetText(w, text).first = w.first /\ SetText(w, text).originalFirst = w.originalFirst
BY DEF SetText, Windows

\* A window as a call finds it: where it is, and how it came to be.
IsOpened(w, f) ==
  /\ w \in Windows /\ w.text = files[f] /\ w.originalFirst = w.first
  /\ w.first = Clamped(w.text, w.first)
  /\ w.first = 0 \/ w.first + Window <= NLines(w.text)

LEMMA OpenedFields ==
  ASSUME NEW f \in Files, files[f] \in Text, firstLine \in Nat
  PROVE  IsOpened(Opened(f, firstLine), f)
<1> DEFINE u == [text |-> files[f], first |-> 0, originalText |-> files[f], originalFirst |-> 0]
           w == SetFirstLine(u, firstLine)
<1>1. u \in Windows /\ u.text = files[f]
  BY DEF Windows
<1> HIDE DEF u
<1>2. w \in Windows /\ w.text = files[f] /\ w.first = Clamped(files[f], firstLine)
  BY <1>1, SetFirstLineFields
<1>3. Opened(f, firstLine) = [w EXCEPT !.originalFirst = w.first]
  BY DEF Opened, u
<1> HIDE DEF w
<1>4. /\ Opened(f, firstLine) \in Windows /\ Opened(f, firstLine).text = files[f]
      /\ Opened(f, firstLine).first = w.first /\ Opened(f, firstLine).originalFirst = w.first
  BY <1>2, <1>3 DEF Windows
<1> QED BY <1>2, <1>4, ClampedTwice DEF IsOpened

\* undo_edit leads back, whatever an edit has done.
LEMMA UndoLeadsBack ==
  ASSUME NEW f \in Files, NEW w, IsOpened(w, f), NEW new \in Windows,
         new.originalText = w.text, new.originalFirst = w.first
  PROVE  /\ UndoEdit(new) \in Windows
         /\ UndoEdit(new).text = w.text /\ UndoEdit(new).first = w.first
<1>1. w.text \in Text /\ w.first \in Nat
  BY DEF IsOpened, Windows
<1>2. SetText(new, w.text) \in Windows /\ SetText(new, w.text).text = w.text
  BY <1>1, SetTextFields
<1>3. UndoEdit(new) = SetFirstLine(SetText(new, w.text), w.first)
  BY DEF UndoEdit
<1> QED BY <1>1, <1>2, <1>3, SetFirstLineFields DEF IsOpened

LEMMA SetWindowTextFields ==
  ASSUME NEW w \in Windows, NEW start \in Nat, NEW stop \in Int, NEW lines \in Seq(Words)
  PROVE  /\ SetWindowText(w, start, stop, lines) \in Windows
         /\ SetWindowText(w, start, stop, lines).originalText = w.text
         /\ SetWindowText(w, start, stop, lines).first = w.first
         /\ SetWindowText(w, start, stop, lines).originalFirst = w.originalFirst
<1> DEFINE above == SubSeq(w.text, 1, Least(start, Len(w.text)))
           below == SubSeq(w.text, Most(start, stop + 1) + 1, Len(w.text))
           new == above \o lines \o below
           text == IF new = <<>> THEN <<"">> ELSE new
<1>1. w.text \in Text
  BY DEF Windows
<1>2. w.text \in Seq(Words) /\ Len(w.text) \in Nat
  BY <1>1, TextFields
<1>3. above \in Seq(Words) /\ below \in Seq(Words)
  <2>1. /\ Least(start, Len(w.text)) \in Int /\ Least(start, Len(w.text)) <= Len(w.text)
        /\ Most(start, stop + 1) + 1 \in Int /\ 1 <= Most(start, stop + 1) + 1
    BY <1>2 DEF Least, Most
  <2> QED BY <1>2, <2>1, Parts
<1>4. new \in Seq(Words)
  <2> HIDE DEF above, below
  <2> QED BY <1>3, ConcatFull
<1>5. text \in Text
  <2>1. <<"">> \in Text
    BY OneLine DEF Words
  <2> HIDE DEF new
  <2> QED BY <1>4, <2>1 DEF Text, Full
<1>6. SetWindowText(w, start, stop, lines) = SetText(w, text)
  BY DEF SetWindowText
<1> HIDE DEF text
<1> QED BY <1>5, <1>6, SetTextFields

-----------------------------------------------------------------------------
(* Editor: the linter and its filter *)

Flaws == [line : Nat \ {0}, problem : {"E999", "F821"}]

LEMMA Flake8Errors ==
  ASSUME NEW f, NEW text \in Text
  PROVE  Flake8(f, text) \subseteq Flaws /\ IsFiniteSet(Flake8(f, text))
<1> DEFINE at(word) == Occurrences(text, word)
           error(i, problem) == [line |-> i, problem |-> problem]
           lines == at("bad")
           errors == {error(i, "F821") : i \in lines}
<1>1. Len(text) \in Nat /\ DOMAIN text = 1 .. Len(text)
  BY TextFields
<1>2. \A word : at(word) \subseteq 1 .. Len(text)
  BY <1>1 DEF Occurrences
<1>3. IsFiniteSet(lines)
  <2>1. IsFiniteSet(1 .. Len(text))
    BY <1>1, FS_Interval
  <2>2. lines \subseteq 1 .. Len(text)
    BY <1>2
  <2> HIDE DEF lines
  <2> QED BY <2>1, <2>2, FS_Subset
<1>4. IsFiniteSet(errors)
  <2> HIDE DEF lines
  <2>1. [i \in lines |-> error(i, "F821")] \in Surjection(lines, errors)
    BY DEF Surjection
  <2> HIDE DEF errors
  <2> QED BY <1>3, <2>1, FS_Surjection
<1>5. errors \subseteq Flaws
  <2>1. \A i \in lines : i \in Nat \ {0}
    BY <1>1, <1>2
  <2> HIDE DEF lines
  <2> QED BY <2>1 DEF Flaws
<1>6. CASE f # "py"
  <2>1. Flake8(f, text) = {}
    BY <1>6 DEF Flake8
  <2> QED BY <2>1, FS_EmptySet
<1>7. CASE f = "py" /\ at("syntax") # {}
  <2>1. at("syntax") \in SUBSET Nat
    BY <1>1, <1>2
  <2>2. PICK i \in at("syntax") : \A j \in at("syntax") : i <= j
    BY <1>7, <2>1, LeastOne
  <2>3. Min(at("syntax")) \in at("syntax")
    BY <2>2 DEF Min
  <2>4. Min(at("syntax")) \in Nat \ {0}
    BY <1>1, <1>2, <2>3
  <2>5. Flake8(f, text) = {error(Min(at("syntax")), "E999")}
    BY <1>7 DEF Flake8
  <2>6. error(Min(at("syntax")), "E999") \in Flaws
    BY <2>4 DEF Flaws
  <2> HIDE DEF at
  <2> QED BY <2>5, <2>6, FS_Singleton
<1>8. CASE f = "py" /\ at("syntax") = {}
  <2>1. Flake8(f, text) = errors
    BY <1>8 DEF Flake8
  <2> HIDE DEF errors
  <2> QED BY <1>4, <1>5, <2>1
<1> QED BY <1>6, <1>7, <1>8

Below(errors, line) == {e \in errors : e.line > line}

\* What the filter accepts are errors that were there before, moved.
LEMMA FilterCounts ==
  ASSUME NEW before \in SUBSET Flaws, NEW after \in SUBSET Flaws, IsFiniteSet(before),
         NEW start \in Int, NEW stop \in Int, NEW n \in Int, start <= stop \/ start = 0,
         NewErrors(before, after, start, stop, n) = {}
  PROVE  Cardinality(Below(after, start)) <= Cardinality(Below(before, start))
<1> DEFINE gap == n - (stop - start + 1)
           Moved(e) == [e EXCEPT !.line = e.line - gap]
           old == Below(before, start)
           new == Below(after, start)
<1>1. IsFiniteSet(old)
  BY FS_Subset DEF Below
<1>2. CASE before = {}
  <2>1. new = {}
    BY <1>2 DEF NewErrors, Below
  <2>2. Cardinality(new) = 0
    BY <2>1, FS_EmptySet
  <2>3. Cardinality(old) \in Nat
    BY <1>1, FS_CardinalityType
  <2> QED BY <2>2, <2>3
<1>3. CASE before # {}
  <2>1. ASSUME NEW e \in new PROVE Moved(e) \in old
    <3>1. e \in after /\ e \in Flaws /\ e.line > start
      BY DEF Below
    <3>2. e \in UpdatePreviousErrors(before, start, stop, n)
      BY <1>3, <3>1 DEF NewErrors, Flaws
    <3>3. PICK d \in before : d.line > stop /\ e = [d EXCEPT !.line = d.line + n - (stop - start + 1)]
      BY <3>1, <3>2 DEF UpdatePreviousErrors, Flaws
    <3>4. d \in Flaws /\ e.line = d.line + gap /\ e.problem = d.problem
      BY <3>3 DEF Flaws
    <3>5. Moved(e) = d
      BY <3>1, <3>4 DEF Flaws
    <3>6. d.line > start
      BY <3>3, <3>4 DEF Flaws
    <3> QED BY <3>3, <3>5, <3>6 DEF Below
  <2>2. [e \in new |-> Moved(e)] \in Injection(new, old)
    <3>1. \A e, d \in new : Moved(e) = Moved(d) => e = d
      <4> SUFFICES ASSUME NEW e \in new, NEW d \in new, Moved(e) = Moved(d) PROVE e = d
        OBVIOUS
      <4>1. e \in Flaws /\ d \in Flaws
        BY DEF Below
      <4>2. Moved(e).line = e.line - gap /\ Moved(d).line = d.line - gap
        BY <4>1 DEF Flaws
      <4>3. Moved(e).problem = e.problem /\ Moved(d).problem = d.problem
        BY <4>1 DEF Flaws
      <4>4. e.line = d.line /\ e.problem = d.problem
        BY <4>1, <4>2, <4>3 DEF Flaws
      <4> QED BY <4>1, <4>4 DEF Flaws
    <3> HIDE DEF new, old, Moved
    <3> DEFINE shift == [e \in new |-> Moved(e)]
    <3>2. shift \in [new -> old] /\ IsInjective(shift)
      BY <2>1, <3>1 DEF IsInjective
    <3> QED BY <3>2 DEF Injection
  <2>3. Cardinality(new) <= Cardinality(old)
    <3> HIDE DEF new, old, Moved
    <3> QED BY <1>1, <2>2, FS_Injection
  <2> QED BY <2>3
<1> QED BY <1>2, <1>3

-----------------------------------------------------------------------------
(* Editor: what an edit makes of a window *)

LEMMA TrimmedFull ==
  ASSUME NEW lines \in Seq(Words)
  PROVE  Trimmed(lines) \in Seq(Words) /\ (lines # <<>> => Trimmed(lines) # <<>>)
<1>1. Len(lines) \in Nat
  BY LenProperties
<1>2. CASE Len(lines) > 1
  <2>1. Front(lines) = SubSeq(lines, 1, Len(lines) - 1)
    BY DEF Front
  <2>2. Front(lines) \in Seq(Words)
    BY <1>1, <2>1, Parts
  <2>3. Front(lines) # <<>>
    <3>1. Len(Front(lines)) = Len(lines) - 1
      <4>1. \A i \in 1 .. Len(lines) - 1 : lines[i] \in Words
        BY <1>1, ElementOfSeq
      <4> QED BY <1>1, <1>2, <2>1, <4>1, SubSeqProperties
    <3>2. Len(lines) - 1 # 0
      <4>1. \A n \in Nat : n > 1 => n - 1 # 0
        OBVIOUS
      <4> QED BY <1>1, <1>2, <4>1, Zenon
    <3>3. Len(Front(lines)) # 0
      BY <3>1, <3>2, Zenon
    <3> QED BY <3>3, EmptySeq
  <2>4. Trimmed(lines) = Front(lines) \/ Trimmed(lines) = lines
    BY Zenon DEF Trimmed
  <2> QED BY <2>2, <2>3, <2>4
<1>3. CASE ~(Len(lines) > 1)
  BY <1>3 DEF Trimmed
<1> QED BY <1>2, <1>3

LEMMA ReplacedFull ==
  ASSUME NEW text \in Text, NEW word, NEW lines \in Text
  PROVE  Replaced(text, word, lines) \in Text
<1> DEFINE parts == [i \in DOMAIN text |-> IF text[i] = word THEN lines ELSE <<text[i]>>]
<1>1. Len(text) \in Nat \ {0} /\ DOMAIN text = 1 .. Len(text)
  BY TextFields
<1>2. \A i \in 1 .. Len(text) : <<text[i]>> \in Text
  BY TextFields, OneLine
<1>3. \A i \in 1 .. Len(text) : parts[i] \in Text
  BY <1>1, <1>2
<1>4. parts \in [1 .. Len(text) -> Text]
  BY <1>1, <1>3
<1> HIDE DEF parts
<1>5. parts \in Seq(Text) /\ Len(parts) = Len(text)
  BY <1>1, <1>4, LenProperties, SeqDef
<1>6. parts # <<>>
  BY <1>1, <1>5, EmptySeq
<1>7. Replaced(text, word, lines) = FlattenSeq(parts)
  BY DEF Replaced, parts
<1> QED BY <1>5, <1>6, <1>7, FlattenFull DEF Text

\* An edit of a window: undo_edit knows what was there, and its range is one.
IsEdit(w, edit) ==
  /\ edit.w \in Windows /\ edit.ok \in BOOLEAN
  /\ edit.ok =>
       /\ edit.w.originalText = w.text /\ edit.w.originalFirst = w.first
       /\ edit.range[1] \in Int /\ edit.range[2] \in Int /\ edit.n \in Int
       /\ edit.range[1] <= edit.range[2] \/ edit.range[1] = 0

LEMMA RangeFields ==
  ASSUME NEW f \in Files, NEW w, IsOpened(w, f)
  PROVE  /\ LineRange(w)[1] \in Nat /\ LineRange(w)[1] = w.first
         /\ LineRange(w)[2] \in Int
         /\ LineRange(w)[1] <= LineRange(w)[2] \/ LineRange(w)[1] = 0
<1>1. w.text \in Text /\ w.first \in Nat /\ (w.first = 0 \/ w.first + Window <= NLines(w.text))
  BY DEF IsOpened, Windows
<1>2. NLines(w.text) \in Nat
  BY <1>1, TextFields
<1> QED BY <1>1, <1>2, EditorAssumption DEF LineRange, Least

LEMMA WindowTextWords ==
  ASSUME NEW f \in Files, NEW w, IsOpened(w, f)
  PROVE  WindowText(w) \in Seq(Words)
<1>1. w.text \in Text
  BY DEF IsOpened, Windows
<1>2. w.text \in Seq(Words) /\ Len(w.text) \in Nat
  BY <1>1, TextFields
<1>3. LineRange(w)[1] \in Nat /\ LineRange(w)[2] \in Int
  BY RangeFields
<1>4. /\ LineRange(w)[1] + 1 \in Int /\ 1 <= LineRange(w)[1] + 1
      /\ Least(LineRange(w)[2] + 1, Len(w.text)) \in Int
      /\ Least(LineRange(w)[2] + 1, Len(w.text)) <= Len(w.text)
  BY <1>2, <1>3 DEF Least
<1> QED BY <1>2, <1>4, Parts DEF WindowText

LEMMA FoundFirst ==
  ASSUME NEW text \in Seq(Words), NEW word, Occurrences(text, word) # {}
  PROVE  Min(Occurrences(text, word)) \in Nat /\ text # <<>>
<1>1. Len(text) \in Nat /\ DOMAIN text = 1 .. Len(text)
  BY LenProperties
<1>2. Occurrences(text, word) \in SUBSET Nat
  BY <1>1 DEF Occurrences
<1>3. PICK i \in Occurrences(text, word) : \A j \in Occurrences(text, word) : i <= j
  BY <1>2, LeastOne
<1>4. Min(Occurrences(text, word)) \in Occurrences(text, word)
  BY <1>3 DEF Min
<1>5. text # <<>>
  BY <1>1, <1>3, EmptySeq DEF Occurrences
<1> QED BY <1>2, <1>4, <1>5

LEMMA RewriteIsEdit ==
  ASSUME NEW f \in Files, NEW w, IsOpened(w, f), NEW lines \in Seq(Words)
  PROVE  IsEdit(w, RewriteEdit(w, lines))
<1> DEFINE new == SetWindowText(w, LineRange(w)[1], LineRange(w)[2], lines)
<1>1. w \in Windows /\ w.originalFirst = w.first
  BY DEF IsOpened
<1>2. new \in Windows /\ new.originalText = w.text /\ new.originalFirst = w.first
  BY <1>1, RangeFields, SetWindowTextFields
<1>3. Most(1, Len(lines)) \in Int
  BY LenProperties DEF Most
<1> HIDE DEF new
<1>4. RewriteEdit(w, lines) = [w |-> new, ok |-> TRUE, range |-> LineRange(w),
                               n |-> Most(1, Len(lines)), all |-> FALSE]
  BY DEF RewriteEdit, new
<1> QED BY <1>2, <1>3, <1>4, RangeFields DEF IsEdit

LEMMA LineEditIsEdit ==
  ASSUME NEW f \in Files, NEW w, IsOpened(w, f), NEW given \in Seq(Words),
         NEW start \in Nat, NEW stop \in Nat, start <= stop
  PROVE  IsEdit(w, LineEdit(w, start, stop, given))
<1> DEFINE lines == IF given = <<"">> THEN <<>> ELSE given
           new == SetWindowText(w, start, stop, lines)
           n == IF lines = <<>> THEN 0 ELSE NLines(lines)
<1>1. w \in Windows /\ w.originalFirst = w.first
  BY DEF IsOpened
<1>2. lines \in Seq(Words)
  <2>1. <<>> \in Seq(Words)
    BY EmptySeq
  <2> QED BY <2>1, Zenon
<1> HIDE DEF lines
<1>3. new \in Windows /\ new.originalText = w.text /\ new.originalFirst = w.first
  BY <1>1, <1>2, SetWindowTextFields
<1>4. n \in Int
  BY <1>2, LenProperties DEF NLines
<1>5. LineEdit(w, start, stop, given) = [w |-> new, ok |-> TRUE, range |-> <<start, stop>>,
                                         n |-> n, all |-> FALSE]
  BY DEF LineEdit, lines
<1> HIDE DEF new, n
<1> QED BY <1>3, <1>4, <1>5 DEF IsEdit

\* An edit of one place, after which the window follows.
LEMMA PlaceIsEdit ==
  ASSUME NEW w, NEW new \in Windows, new.originalText = w.text, new.first = w.first,
         NEW line \in Int, NEW at \in Int, NEW n \in Int, NEW all, NEW edit,
         edit = [w |-> Goto(new, line), ok |-> TRUE, range |-> <<at, at>>, n |-> n, all |-> all]
  PROVE  IsEdit(w, edit)
<1>1. /\ Goto(new, line) \in Windows /\ Goto(new, line).originalText = w.text
      /\ Goto(new, line).originalFirst = w.first
  BY GotoFields
<1> QED BY <1>1 DEF IsEdit

LEMMA ReplaceInWindowIsEdit ==
  ASSUME NEW f \in Files, NEW w, IsOpened(w, f), NEW lines \in Text, NEW word
  PROVE  IsEdit(w, ReplaceInWindow(w, word, lines))
<1> DEFINE found == Occurrences(WindowText(w), word)
           line == w.first + Min(found) - 1
           new == SetWindowText(w, LineRange(w)[1], LineRange(w)[2],
                                Replaced(WindowText(w), word, lines))
<1>1. w \in Windows /\ w.first \in Nat
  BY DEF IsOpened, Windows
<1>2. CASE Cardinality(found) # 1 \/ lines = <<word>>
  <2>1. ReplaceInWindow(w, word, lines) = [w |-> w, ok |-> FALSE]
    BY <1>2 DEF ReplaceInWindow
  <2> QED BY <1>1, <2>1 DEF IsEdit
<1>3. CASE ~(Cardinality(found) # 1 \/ lines = <<word>>)
  <2>1. found # {}
    BY <1>3, FS_EmptySet
  <2>2. WindowText(w) \in Text /\ Min(found) \in Nat
    BY <2>1, WindowTextWords, FoundFirst DEF Text, Full
  <2>3. Replaced(WindowText(w), word, lines) \in Seq(Words)
    BY <2>2, ReplacedFull DEF Text, Full
  <2>4. new \in Windows /\ new.originalText = w.text /\ new.first = w.first
    BY <1>1, <2>3, RangeFields, SetWindowTextFields
  <2>5. line \in Int /\ Len(lines) \in Int
    BY <1>1, <2>2, TextFields
  <2>6. ReplaceInWindow(w, word, lines) =
          [w |-> Goto(new, line), ok |-> TRUE, range |-> <<line, line>>, n |-> Len(lines),
           all |-> FALSE]
    BY <1>3 DEF ReplaceInWindow
  <2> HIDE DEF new, line
  <2> QED BY <2>4, <2>5, <2>6, PlaceIsEdit
<1> QED BY <1>2, <1>3

LEMMA ReplaceInFileIsEdit ==
  ASSUME NEW f \in Files, NEW w, IsOpened(w, f), NEW lines \in Text, NEW word
  PROVE  IsEdit(w, ReplaceInFile(w, word, lines))
<1> DEFINE found == Occurrences(w.text, word)
           new == SetText(w, Replaced(w.text, word, lines))
<1>1. w \in Windows /\ w.text \in Text
  BY DEF IsOpened, Windows
<1>2. CASE found = {} \/ lines = <<word>>
  <2>1. ReplaceInFile(w, word, lines) = [w |-> w, ok |-> FALSE]
    BY <1>2 DEF ReplaceInFile
  <2> QED BY <1>1, <2>1 DEF IsEdit
<1>3. CASE ~(found = {} \/ lines = <<word>>)
  <2>1. Min(found) \in Int
    BY <1>1, <1>3, FoundFirst DEF Text, Full
  <2>2. new \in Windows /\ new.originalText = w.text /\ new.first = w.first
    BY <1>1, ReplacedFull, SetTextFields
  <2>3. Len(lines) \in Int
    BY TextFields
  <2>4. ReplaceInFile(w, word, lines) =
          [w |-> Goto(new, Min(found)), ok |-> TRUE, range |-> <<Min(found), Min(found)>>,
           n |-> Len(lines), all |-> TRUE]
    BY <1>3 DEF ReplaceInFile
  <2> HIDE DEF new, found
  <2> QED BY <2>1, <2>2, <2>3, <2>4, PlaceIsEdit
<1> QED BY <1>2, <1>3

LEMMA InsertedFull ==
  ASSUME NEW text \in Text, NEW lines \in Text, NEW line \in Int, line >= -2
  PROVE  InsertedText(text, lines, line) \in Text
<1>1. text \in Seq(Words) /\ Len(text) \in Nat \ {0} /\ text # <<>>
  BY TextFields DEF Text, Full
<1>2. lines \in Seq(Words) /\ lines # <<>>
  BY DEF Text, Full
<1>3. CASE line = -2
  <2>1. Front(text) \in Seq(Words)
    BY <1>1, Parts DEF Front
  <2>2. PICK s \in Seq(Words) : InsertedText(text, lines, line) = lines
                               \/ InsertedText(text, lines, line) = s \o lines
    <3>1. InsertedText(text, lines, line) \in {lines, Front(text) \o lines, text \o lines}
      <4> DEFINE kept == IF Last(text) = "" THEN Front(text) ELSE text
      <4>1. kept \in {Front(text), text}
        BY Zenon
      <4> HIDE DEF kept
      <4>2. (IF text = <<"">> THEN lines ELSE kept \o lines) \in {lines, kept \o lines}
        BY Zenon
      <4>3. line = AtTheEnd /\ line # -1
        BY <1>3 DEF AtTheEnd
      <4>4. InsertedText(text, lines, line) = IF text = <<"">> THEN lines ELSE kept \o lines
        BY <4>3, Zenon DEF InsertedText, AtTheEnd, kept
      <4> QED BY <4>1, <4>2, <4>4, Zenon
    <3> QED BY <1>1, <2>1, <3>1
  <2> QED BY <1>2, <2>2, ConcatFull DEF Text, Full
<1>4. CASE line = -1
  <2>1. Tail(text) \in Seq(Words)
    BY <1>1, HeadTailProperties
  <2>2. PICK s \in Seq(Words) : InsertedText(text, lines, line) = lines
                               \/ InsertedText(text, lines, line) = lines \o s
    <3>1. InsertedText(text, lines, line) \in {lines, lines \o Tail(text), lines \o text}
      <4>1. line # AtTheEnd
        BY <1>4 DEF AtTheEnd
      <4> QED BY <1>4, <4>1 DEF InsertedText
    <3> QED BY <1>1, <2>1, <3>1
  <2> QED BY <1>2, <2>2, ConcatFull DEF Text, Full
<1>5. CASE line \in Nat
  <2> DEFINE above == SubSeq(text, 1, Least(line, Len(text)))
             below == SubSeq(text, line + 1, Len(text))
  <2>1. Least(line, Len(text)) \in Int /\ Least(line, Len(text)) <= Len(text)
    BY <1>1, <1>5 DEF Least
  <2>2. above \in Seq(Words) /\ below \in Seq(Words)
    BY <1>1, <1>5, <2>1, Parts
  <2>3. InsertedText(text, lines, line) = above \o lines \o below
    <3>1. line # AtTheEnd /\ line # -1
      BY <1>5 DEF AtTheEnd
    <3> QED BY <3>1, Zenon DEF InsertedText
  <2> HIDE DEF above, below
  <2>4. above \o lines \in Seq(Words) /\ above \o lines # <<>>
    BY <1>2, <2>2, ConcatFull
  <2>5. (above \o lines) \o below \in Seq(Words) /\ (above \o lines) \o below # <<>>
    BY <2>2, <2>4, ConcatFull
  <2> QED BY <2>3, <2>5 DEF Text, Full
<1> QED BY <1>3, <1>4, <1>5

LEMMA InsertIsEdit ==
  ASSUME NEW f \in Files, NEW w, IsOpened(w, f), NEW lines \in Text, NEW line \in Int,
         line >= -2
  PROVE  IsEdit(w, Insert(w, lines, line))
<1> DEFINE at == CASE line = AtTheEnd -> NLines(w.text) [] line = -1 -> 0 [] OTHER -> line
           new == SetText(w, InsertedText(w.text, Trimmed(lines), line))
<1>1. w \in Windows /\ w.text \in Text
  BY DEF IsOpened, Windows
<1>2. Trimmed(lines) \in Text
  BY TrimmedFull DEF Text, Full
<1>3. new \in Windows /\ new.originalText = w.text /\ new.first = w.first
  BY <1>1, <1>2, InsertedFull, SetTextFields
<1>4. at \in Int /\ Len(Trimmed(lines)) \in Int
  <2>1. Len(Trimmed(lines)) \in Int /\ NLines(w.text) \in Int
    BY <1>1, <1>2, TextFields
  <2>2. CASE line = -2
    BY <2>1, <2>2 DEF AtTheEnd
  <2>3. CASE line = -1
    BY <2>1, <2>3 DEF AtTheEnd
  <2>4. CASE line \in Nat
    BY <2>1, <2>4 DEF AtTheEnd
  <2> QED BY <2>2, <2>3, <2>4
<1>5. Insert(w, lines, line) = [w |-> Goto(new, at), ok |-> TRUE, range |-> <<at, at>>,
                                n |-> Len(Trimmed(lines)), all |-> FALSE]
  BY DEF Insert
<1> HIDE DEF new, at
<1> QED BY <1>3, <1>4, <1>5, PlaceIsEdit

-----------------------------------------------------------------------------
(* Editor: the calls *)

Verdicts == {"none", "moved", "not found", "refused", "accepted"}

\* What a call finds, and what the verdict of the last one says of it.
EditorTyped ==
  /\ files \in [Files -> Text] /\ firstLine \in Nat
  /\ currentFile \in Files \cup {NoFile} /\ verdict \in Verdicts
EditorInv == EditorTyped /\ EditsAreSound

LEMMA EndsTyped ==
  ASSUME EditorTyped, NEW f \in Files, NEW w \in Windows, NEW how \in Verdicts, NEW changed,
         Ends(f, w, how, changed)
  PROVE  /\ EditorTyped' /\ currentFile' = f /\ files'[f] = w.text /\ firstLine' = w.first
         /\ seen'.text = files[f] /\ seen'.first = Opened(f, firstLine).first
         /\ seen'.changed = changed /\ verdict' = how
<1>1. w.text \in Text /\ w.first \in Nat
  BY DEF Windows
<1> QED BY <1>1 DEF Ends, EditorTyped

\* A call that edits nothing.
LEMMA EndsSilent ==
  ASSUME EditorTyped, NEW f \in Files, NEW w \in Windows, NEW how \in {"moved", "not found"},
         NEW changed, Ends(f, w, how, changed)
  PROVE  EditorInv'
<1>1. how \in Verdicts
  BY DEF Verdicts
<1>2. EditorTyped' /\ verdict' \notin {"refused", "accepted"}
  BY <1>1, EndsTyped
<1> QED BY <1>2 DEF EditorInv, EditsAreSound, RefusedIsUndone, AcceptedAddsNoError

LEMMA EditsLemma ==
  ASSUME EditorTyped, currentFile \in Files, NEW edit, NEW follows \in BOOLEAN,
         IsEdit(Opened(currentFile, firstLine), edit), Edits(edit, follows)
  PROVE  EditorInv'
<1> DEFINE f == currentFile
           w == Opened(f, firstLine)
<1>1. files[f] \in Text /\ firstLine \in Nat
  BY DEF EditorTyped
<1>2. IsOpened(w, f)
  BY <1>1, OpenedFields
<1>3. w \in Windows /\ w.text = files[f] /\ edit.w \in Windows /\ edit.ok \in BOOLEAN
  BY <1>2 DEF IsOpened, IsEdit
<1>4. CASE ~edit.ok
  <2>1. Ends(f, w, "not found", -1)
    BY <1>4 DEF Edits
  <2> HIDE DEF f, w
  <2> QED BY <1>3, <2>1, EndsSilent DEF f
<1>5. CASE edit.ok /\ Lints(f, w, edit) # {}
  <2>1. Ends(f, UndoEdit(edit.w), "refused", -1)
    BY <1>5 DEF Edits
  <2>2. /\ UndoEdit(edit.w) \in Windows
        /\ UndoEdit(edit.w).text = w.text /\ UndoEdit(edit.w).first = w.first
    BY <1>2, <1>5, UndoLeadsBack DEF IsEdit
  <2>3. "refused" \in Verdicts
    BY DEF Verdicts
  <2> HIDE DEF w
  <2>4. /\ EditorTyped' /\ verdict' = "refused" /\ currentFile' = f
        /\ files'[f] = w.text /\ firstLine' = w.first
        /\ seen'.text = files[f] /\ seen'.first = w.first
    BY <2>1, <2>2, <2>3, EndsTyped DEF w
  <2> QED BY <1>3, <2>4 DEF EditorInv, EditsAreSound, RefusedIsUndone, AcceptedAddsNoError
<1>6. CASE edit.ok /\ Lints(f, w, edit) = {}
  <2> DEFINE start == edit.range[1]
             kept == IF follows THEN Goto(edit.w, start) ELSE edit.w
             before == IF edit.all THEN {} ELSE Flake8(f, w.text)
             after == Flake8(f, edit.w.text)
  <2>1. Ends(f, kept, "accepted", start)
    BY <1>6 DEF Edits
  <2>2. /\ start \in Int /\ edit.range[2] \in Int /\ edit.n \in Int
        /\ start <= edit.range[2] \/ start = 0
    BY <1>6 DEF IsEdit
  <2>3. kept \in Windows /\ kept.text = edit.w.text
    <3> HIDE DEF start
    <3> QED BY <1>3, <2>2, GotoFields
  <2>4. "accepted" \in Verdicts
    BY DEF Verdicts
  <2>5. /\ EditorTyped' /\ verdict' = "accepted" /\ currentFile' = f
        /\ files'[f] = edit.w.text /\ seen'.text = w.text /\ seen'.changed = start
    <3> HIDE DEF kept, start, w
    <3> QED BY <1>3, <2>1, <2>3, <2>4, EndsTyped
  <2>6. /\ edit.w.text \in Text /\ w.text \in Text
    BY <1>3 DEF Windows
  <2>7. /\ after \in SUBSET Flaws /\ Flake8(f, w.text) \in SUBSET Flaws
        /\ IsFiniteSet(Flake8(f, w.text))
    BY <2>6, Flake8Errors
  <2>8. before \in SUBSET Flaws /\ IsFiniteSet(before) /\ before \subseteq Flake8(f, w.text)
    BY <2>7, FS_EmptySet
  <2>9. NewErrors(before, after, start, edit.range[2], edit.n) = {}
    BY <1>6 DEF Lints
  <2>10. Cardinality(Below(after, start)) <= Cardinality(Below(before, start))
    <3> HIDE DEF before, after, start
    <3> QED BY <2>2, <2>7, <2>8, <2>9, FilterCounts
  <2>11. Cardinality(Below(after, start)) <= Cardinality(Below(Flake8(f, w.text), start))
    <3> HIDE DEF before, after, start, w
    <3>1. Below(before, start) \subseteq Below(Flake8(f, w.text), start)
      BY <2>8 DEF Below
    <3>2. IsFiniteSet(Below(Flake8(f, w.text), start))
      BY <2>7, FS_Subset DEF Below
    <3>3. Below(after, start) \in SUBSET after
      BY DEF Below
    <3>4. IsFiniteSet(after)
      BY <2>6, Flake8Errors DEF after
    <3>5. IsFiniteSet(Below(after, start)) /\ IsFiniteSet(Below(before, start))
      BY <2>8, <3>3, <3>4, FS_Subset DEF Below
    <3>6. /\ Cardinality(Below(after, start)) \in Nat /\ Cardinality(Below(before, start)) \in Nat
          /\ Cardinality(Below(Flake8(f, w.text), start)) \in Nat
      BY <3>2, <3>5, FS_CardinalityType
    <3>7. Cardinality(Below(before, start)) <= Cardinality(Below(Flake8(f, w.text), start))
      BY <3>1, <3>2, FS_Subset
    <3> QED BY <2>10, <3>6, <3>7
  <2>12. AcceptedAddsNoError'
    <3> HIDE DEF start, w
    <3> QED BY <2>5, <2>11 DEF AcceptedAddsNoError, Below, after
  <2> QED BY <2>5, <2>12 DEF EditorInv, EditsAreSound, RefusedIsUndone
<1> QED BY <1>3, <1>4, <1>5, <1>6

LEMMA EditorStarts == ASSUME EditorInit PROVE EditorInv
<1>1. PICK t \in Texts : files = [f \in Files |-> t]
  BY DEF EditorInit
<1>2. t \in Text
  BY <1>1, EditorAssumption, InWords DEF Text, Full
<1>3. EditorTyped
  BY <1>1, <1>2 DEF EditorInit, EditorTyped, Verdicts
<1> QED BY <1>3 DEF EditorInit, EditorInv, EditsAreSound, RefusedIsUndone, AcceptedAddsNoError

LEMMA OpenedWindow ==
  ASSUME EditorTyped, NEW f \in Files
  PROVE  /\ IsOpened(Opened(f, firstLine), f) /\ Opened(f, firstLine) \in Windows
         /\ Opened(f, firstLine).first \in Nat /\ NLines(Opened(f, firstLine).text) \in Nat
<1>1. files[f] \in Text /\ firstLine \in Nat
  BY DEF EditorTyped
<1>2. IsOpened(Opened(f, firstLine), f)
  BY <1>1, OpenedFields
<1>3. Opened(f, firstLine) \in Windows
  BY <1>2 DEF IsOpened
<1>4. Opened(f, firstLine).text \in Text /\ Opened(f, firstLine).first \in Nat
  BY <1>3 DEF Windows
<1> QED BY <1>2, <1>3, <1>4, TextFields

LEMMA OpenSound == ASSUME EditorInv, NEW f \in Files, Open(f) PROVE EditorInv'
<1> DEFINE w == Opened(f, firstLine)
<1>1. EditorTyped
  BY DEF EditorInv
<1>2. w \in Windows /\ w.first \in Nat
  BY <1>1, OpenedWindow
<1>3. PICK line \in {-1} \cup 1 .. NLines(files[f]) :
        Ends(f, Goto(w, (IF line = -1 THEN w.first ELSE line) - 1), "moved", -1)
  BY DEF Open
<1> HIDE DEF w
<1>4. (IF line = -1 THEN w.first ELSE line) - 1 \in Int
  BY <1>2, <1>3
<1> QED BY <1>1, <1>2, <1>3, <1>4, GotoFields, EndsSilent

LEMMA MovesSound == ASSUME EditorInv, MovesWindow PROVE EditorInv'
<1> DEFINE f == currentFile
           w == Opened(f, firstLine)
<1>1. EditorTyped /\ f \in Files
  BY DEF EditorInv, MovesWindow, EditorTyped
<1>2. w \in Windows /\ w.first \in Nat
  BY <1>1, OpenedWindow
<1>3. CASE \E line \in 1 .. NLines(w.text) : Ends(f, Goto(w, line - 1), "moved", -1)
  <2>1. PICK line \in 1 .. NLines(w.text) : Ends(f, Goto(w, line - 1), "moved", -1)
    BY <1>3
  <2> HIDE DEF f, w
  <2>2. line - 1 \in Int
    BY <2>1
  <2>3. Goto(w, line - 1) \in Windows
    BY <1>2, <2>2, GotoFields
  <2> QED BY <1>1, <2>1, <2>3, EndsSilent
<1>4. CASE \E n \in {Window, -Window} : Ends(f, Scroll(w, n), "moved", -1)
  <2>1. PICK n \in {Window, -Window} : Ends(f, Scroll(w, n), "moved", -1)
    BY <1>4
  <2> HIDE DEF f, w
  <2>2. (IF n > 0 THEN w.first + n - Overlap ELSE w.first + n + Overlap) \in Int
    BY <1>2, <2>1, EditorAssumption
  <2>3. Scroll(w, n) \in Windows
    BY <1>2, <2>2, SetFirstLineFields DEF Scroll
  <2> QED BY <1>1, <2>1, <2>3, EndsSilent
<1> QED BY <1>3, <1>4 DEF MovesWindow

LEMMA EditSound == ASSUME EditorInv, Edit PROVE EditorInv'
<1> DEFINE f == currentFile
           w == Opened(f, firstLine)
<1>1. EditorTyped /\ f \in Files
  BY DEF EditorInv, Edit, EditorTyped
<1>2. IsOpened(w, f) /\ NLines(w.text) \in Nat
  BY <1>1, OpenedWindow
<1>3. ASSUME NEW edit, IsEdit(w, edit), NEW follows \in BOOLEAN, Edits(edit, follows)
      PROVE  EditorInv'
  BY <1>1, <1>3, EditsLemma
<1>4. PICK lines \in Pieces :
        \/ Edits(RewriteEdit(w, lines), FALSE)
        \/ \E start \in 0 .. NLines(w.text) - 1 : \E stop \in start .. NLines(w.text) - 1 :
             \E given \in {Trimmed(lines), lines} : Edits(LineEdit(w, start, stop, given), TRUE)
        \/ \E word \in {"a", "bad", "syntax"} :
             \/ lines # <<>> /\ Edits(ReplaceInWindow(w, word, lines), FALSE)
             \/ lines # <<>> /\ Edits(ReplaceInFile(w, word, lines), FALSE)
        \/ \E line \in {AtTheEnd} \cup -1 .. NLines(w.text) :
             lines # <<>> /\ Edits(Insert(w, lines, line), FALSE)
  BY DEF Edit
<1>5. lines \in Seq(Words) /\ (lines # <<>> => lines \in Text)
  BY <1>4, EditorAssumption, InWords DEF Text, Full
<1> HIDE DEF f, w
<1>6. CASE Edits(RewriteEdit(w, lines), FALSE)
  BY <1>1, <1>2, <1>3, <1>5, <1>6, RewriteIsEdit
<1>7. CASE \E start \in 0 .. NLines(w.text) - 1 : \E stop \in start .. NLines(w.text) - 1 :
             \E given \in {Trimmed(lines), lines} : Edits(LineEdit(w, start, stop, given), TRUE)
  <2>0. PICK start \in 0 .. NLines(w.text) - 1 : \E stop \in start .. NLines(w.text) - 1 :
          \E given \in {Trimmed(lines), lines} : Edits(LineEdit(w, start, stop, given), TRUE)
    BY <1>7
  <2>1. PICK stop \in start .. NLines(w.text) - 1, given \in {Trimmed(lines), lines} :
          Edits(LineEdit(w, start, stop, given), TRUE)
    BY <2>0
  <2>2. start \in Nat /\ stop \in Nat /\ start <= stop
    BY <1>2, <2>0, <2>1
  <2>3. IsEdit(w, LineEdit(w, start, stop, given))
    <3>1. given \in Seq(Words)
      BY <1>5, <2>1, TrimmedFull
    <3> QED BY <1>1, <1>2, <2>1, <2>2, <3>1, LineEditIsEdit
  <2> QED BY <1>3, <2>1, <2>3
<1>8. CASE \E word \in {"a", "bad", "syntax"} :
             \/ lines # <<>> /\ Edits(ReplaceInWindow(w, word, lines), FALSE)
             \/ lines # <<>> /\ Edits(ReplaceInFile(w, word, lines), FALSE)
  <2>1. PICK word : /\ lines # <<>>
                    /\ \/ Edits(ReplaceInWindow(w, word, lines), FALSE)
                       \/ Edits(ReplaceInFile(w, word, lines), FALSE)
    BY <1>8
  <2>2. /\ IsEdit(w, ReplaceInWindow(w, word, lines))
        /\ IsEdit(w, ReplaceInFile(w, word, lines))
    BY <1>1, <1>2, <1>5, <2>1, ReplaceInWindowIsEdit, ReplaceInFileIsEdit
  <2> QED BY <1>3, <2>1, <2>2
<1>9. CASE \E line \in {AtTheEnd} \cup -1 .. NLines(w.text) :
             lines # <<>> /\ Edits(Insert(w, lines, line), FALSE)
  <2>1. PICK line \in {AtTheEnd} \cup -1 .. NLines(w.text) :
          lines # <<>> /\ Edits(Insert(w, lines, line), FALSE)
    BY <1>9
  <2>2. line \in Int /\ line >= -2
    BY <1>2, <2>1 DEF AtTheEnd
  <2>3. IsEdit(w, Insert(w, lines, line))
    BY <1>1, <1>2, <1>5, <2>1, <2>2, InsertIsEdit
  <2> QED BY <1>3, <2>1, <2>3
<1> QED BY <1>4, <1>6, <1>7, <1>8, <1>9

LEMMA ResetSound == ASSUME EditorInv, ResetRegistry PROVE EditorInv'
BY DEF EditorInv, EditorTyped, ResetRegistry, Verdicts, EditsAreSound, RefusedIsUndone,
       AcceptedAddsNoError

LEMMA EditorKeeps == ASSUME EditorInv, [EditorNext]_editorVars PROVE EditorInv'
<1>1. CASE UNCHANGED editorVars
  BY <1>1 DEF editorVars, EditorInv, EditorTyped, EditsAreSound, RefusedIsUndone,
              AcceptedAddsNoError
<1>2. CASE EditorNext
  BY <1>2, OpenSound, MovesSound, EditSound, ResetSound DEF EditorNext
<1> QED BY <1>1, <1>2

\* A refused edit leaves text and window as they were, and an accepted one adds no lint
\* error below the edited line: for windows of any size and any texts.
THEOREM EditsHold == EditorSpec => []EditsAreSound
<1>1. EditorInit => EditorInv
  BY EditorStarts
<1>2. EditorInv /\ [EditorNext]_editorVars => EditorInv'
  BY EditorKeeps
<1>3. EditorInv => EditsAreSound
  BY DEF EditorInv
<1> QED BY <1>1, <1>2, <1>3, PTL DEF EditorSpec

-----------------------------------------------------------------------------
(* Lists *)

LEMMA KeptSteps ==
  ASSUME NEW S, NEW s \in Seq(S), NEW T
  PROVE  /\ Len(s) \in Nat
         /\ Kept(s, T)[0] = <<>>
         /\ \A i \in 1 .. Len(s) :
              Kept(s, T)[i] = IF s[i] \in T THEN Append(Kept(s, T)[i - 1], s[i])
                              ELSE Kept(s, T)[i - 1]
<1> DEFINE N == Len(s)
           Step(x, i) == IF s[i] \in T THEN Append(x, s[i]) ELSE x
           Body(f) == [i \in 0 .. N |-> IF i = 0 THEN <<>>
                                       ELSE IF s[i] \in T THEN Append(f[i - 1], s[i]) ELSE f[i - 1]]
           it == CHOOSE f : f = Body(f)
<1>1. N \in Nat /\ \A i \in 1 .. N : s[i] \in S
  BY LenProperties, ElementOfSeq
<1>2. Kept(s, T) = it
  BY DEF Kept
<1> HIDE DEF N, it
<1>3. PICK G \in [1 .. N -> [Seq(S) -> Seq(S)]] :
        \A i \in 1 .. N, x \in Seq(S) : G[i][x] = Step(x, i)
  <2> DEFINE H == [i \in 1 .. N |-> [x \in Seq(S) |-> Step(x, i)]]
  <2>1. \A i \in 1 .. N, x \in Seq(S) : Step(x, i) \in Seq(S)
    BY <1>1, AppendProperties
  <2> HIDE DEF Step
  <2>2. H \in [1 .. N -> [Seq(S) -> Seq(S)]]
    BY <2>1
  <2>3. \A i \in 1 .. N, x \in Seq(S) : H[i][x] = Step(x, i)
    OBVIOUS
  <2> QED BY <2>2, <2>3, Zenon
<1>4. PICK f \in [0 .. N -> Seq(S)] : f[0] = <<>> /\ \A i \in 1 .. N : f[i] = G[i][f[i - 1]]
  <2>1. HasRun(N, Seq(S), <<>>, G)
    BY <1>1, <1>3, EmptySeq, FunctionExists
  <2> QED BY <2>1 DEF HasRun, IsRun
<1>5. f = Body(f)
  <2>1. \A i \in 0 .. N : i # 0 => i \in 1 .. N /\ i - 1 \in 0 .. N
    BY <1>1
  <2>2. \A i \in 0 .. N : f[i] = IF i = 0 THEN <<>>
                                 ELSE IF s[i] \in T THEN Append(f[i - 1], s[i]) ELSE f[i - 1]
    BY <1>3, <1>4, <2>1
  <2> QED BY <1>4, <2>2
<1>6. it = Body(it)
  BY <1>5 DEF it
<1>7. it[0] = <<>>
  BY <1>1, <1>6
<1>8. ASSUME NEW i \in 1 .. N
      PROVE  it[i] = IF s[i] \in T THEN Append(it[i - 1], s[i]) ELSE it[i - 1]
  <2>1. i \in 0 .. N /\ i # 0
    BY <1>1
  <2> QED BY <1>6, <2>1, Zenon
<1> QED BY <1>1, <1>2, <1>7, <1>8 DEF N

\* Lists that begin alike are filtered alike so far.
Alike(s, T, t, U, n) == \A i \in 1 .. n : s[i] = t[i] /\ (s[i] \in T <=> t[i] \in U)

LEMMA KeptAlike ==
  ASSUME NEW S, NEW s \in Seq(S), NEW t \in Seq(S), NEW T, NEW U, NEW n \in Nat,
         n <= Len(s), n <= Len(t), Alike(s, T, t, U, n)
  PROVE  Kept(s, T)[n] = Kept(t, U)[n]
<1> DEFINE V == {k \in Nat : k <= n => Kept(s, T)[k] = Kept(t, U)[k]}
<1>1. 0 \in V
  BY KeptSteps
<1>2. ASSUME NEW k \in Nat, k \in V PROVE k + 1 \in V
  <2> SUFFICES ASSUME k + 1 <= n PROVE Kept(s, T)[k + 1] = Kept(t, U)[k + 1]
    OBVIOUS
  <2>1. Len(s) \in Nat /\ Len(t) \in Nat
    BY KeptSteps
  <2>0. PICK i \in 1 .. n : i = k + 1 /\ i - 1 = k /\ i \in 1 .. Len(s) /\ i \in 1 .. Len(t)
    BY <2>1
  <2>2. Kept(s, T)[i] = IF s[i] \in T THEN Append(Kept(s, T)[i - 1], s[i]) ELSE Kept(s, T)[i - 1]
    BY <2>0, KeptSteps
  <2>3. Kept(t, U)[i] = IF t[i] \in U THEN Append(Kept(t, U)[i - 1], t[i]) ELSE Kept(t, U)[i - 1]
    BY <2>0, KeptSteps
  <2>4. Kept(s, T)[i - 1] = Kept(t, U)[i - 1]
    BY <1>2, <2>0
  <2> QED BY <2>0, <2>2, <2>3, <2>4 DEF Alike
<1> HIDE DEF V
<1>3. Nat \subseteq V
  BY <1>1, <1>2, EveryNumber, Zenon
<1> QED BY <1>3 DEF V

LEMMA FilteredEmpty == ASSUME NEW T PROVE Filtered(<<>>, T) = <<>>
<1>1. <<>> \in Seq({}) /\ Len(<<>>) = 0
  BY EmptySeq
<1> QED BY <1>1, KeptSteps DEF Filtered

LEMMA FilteredAppend ==
  ASSUME NEW S, NEW s \in Seq(S), NEW x \in S, NEW T, NEW U,
         \A i \in 1 .. Len(s) : s[i] \in T <=> s[i] \in U
  PROVE  Filtered(Append(s, x), T) = IF x \in T THEN Append(Filtered(s, U), x) ELSE Filtered(s, U)
<1> DEFINE t == Append(s, x)
           n == Len(s)
<1>1. /\ n \in Nat /\ t \in Seq(S) /\ Len(t) = n + 1 /\ t[n + 1] = x
      /\ \A i \in 1 .. n : t[i] = s[i]
  BY LenProperties, AppendProperties
<1> HIDE DEF t, n
<1>2. Kept(t, T)[n] = Kept(s, U)[n]
  <2>1. Alike(t, T, s, U, n)
    BY <1>1 DEF n, Alike
  <2>2. n <= Len(t) /\ n <= Len(s)
    BY <1>1 DEF n
  <2> QED BY <1>1, <2>1, <2>2, KeptAlike
<1>3. PICK k \in 1 .. Len(t) : k = n + 1 /\ k - 1 = n
  BY <1>1
<1>4. Kept(t, T)[k] = IF t[k] \in T THEN Append(Kept(t, T)[k - 1], t[k]) ELSE Kept(t, T)[k - 1]
  BY <1>1, <1>3, KeptSteps
<1>5. Kept(t, T)[n + 1] = IF x \in T THEN Append(Kept(s, U)[n], x) ELSE Kept(s, U)[n]
  BY <1>1, <1>2, <1>3, <1>4
<1> QED BY <1>1, <1>5 DEF Filtered, t, n

\* Where the elements that stay come from.
IsPlaces(p, r, s, n, T) ==
  /\ r \in Seq(T) /\ p \in [1 .. Len(r) -> 1 .. n]
  /\ \A k \in 1 .. Len(r) : r[k] = s[p[k]]
  /\ \A k, l \in 1 .. Len(r) : k < l => p[k] < p[l]
  /\ \A i \in 1 .. n : s[i] \in T => \E k \in 1 .. Len(r) : p[k] = i

LEMMA KeptPlaces ==
  ASSUME NEW S, NEW s \in Seq(S), NEW T
  PROVE  \E p : IsPlaces(p, Filtered(s, T), s, Len(s), T)
<1> DEFINE Found(k) == \E p : IsPlaces(p, Kept(s, T)[k], s, k, T)
           V == {k \in Nat : k <= Len(s) => Found(k)}
<1>0. Len(s) \in Nat
  BY KeptSteps
<1>1. 0 \in V
  <2>1. Kept(s, T)[0] = <<>> /\ <<>> \in Seq(T) /\ Len(<<>>) = 0
    BY KeptSteps, EmptySeq
  <2>2. IsPlaces([k \in 1 .. 0 |-> 0], Kept(s, T)[0], s, 0, T)
    BY <2>1 DEF IsPlaces
  <2> QED BY <2>2
<1>2. ASSUME NEW k \in Nat, k \in V PROVE k + 1 \in V
  <2> SUFFICES ASSUME k + 1 <= Len(s) PROVE Found(k + 1)
    OBVIOUS
  <2> DEFINE old == Kept(s, T)[k]
             new == Kept(s, T)[k + 1]
  <2>1. PICK p : IsPlaces(p, old, s, k, T)
    BY <1>0, <1>2
  <2>2. new = IF s[k + 1] \in T THEN Append(old, s[k + 1]) ELSE old
    <3>1. PICK i \in 1 .. Len(s) : i = k + 1 /\ i - 1 = k
      BY <1>0
    <3> QED BY <3>1, KeptSteps
  <2> HIDE DEF old, new
  <2>3. CASE s[k + 1] \notin T
    <3>1. IsPlaces(p, new, s, k + 1, T)
      <4>1. new = old
        BY <2>2, <2>3
      <4>2. Len(old) \in Nat
        BY <2>1, LenProperties DEF IsPlaces
      <4>3. p \in [1 .. Len(old) -> 1 .. k + 1]
        BY <2>1, <4>2 DEF IsPlaces
      <4>4. \A i \in 1 .. k + 1 : s[i] \in T => i \in 1 .. k
        BY <2>3
      <4> QED BY <2>1, <4>1, <4>3, <4>4 DEF IsPlaces
    <3> QED BY <3>1 DEF new
  <2>4. CASE s[k + 1] \in T
    <3> DEFINE n == Len(old)
               q == [j \in 1 .. n + 1 |-> IF j = n + 1 THEN k + 1 ELSE p[j]]
    <3>1. old \in Seq(T) /\ n \in Nat
      BY <2>1, LenProperties DEF IsPlaces
    <3>2. new = Append(old, s[k + 1])
      BY <2>2, <2>4
    <3>3. /\ new \in Seq(T) /\ Len(new) = n + 1 /\ new[n + 1] = s[k + 1]
          /\ \A j \in 1 .. n : new[j] = old[j]
      BY <2>4, <3>1, <3>2, AppendProperties
    <3>4. /\ p \in [1 .. n -> 1 .. k]
          /\ \A j \in 1 .. n : old[j] = s[p[j]]
          /\ \A j, l \in 1 .. n : j < l => p[j] < p[l]
          /\ \A i \in 1 .. k : s[i] \in T => \E j \in 1 .. n : p[j] = i
      BY <2>1 DEF IsPlaces
    <3> HIDE DEF n
    <3>5. q \in [1 .. n + 1 -> 1 .. k + 1]
      BY <3>1, <3>4
    <3>6. \A j \in 1 .. n + 1 : new[j] = s[q[j]]
      BY <3>1, <3>3, <3>4
    <3>7. \A j, l \in 1 .. n + 1 : j < l => q[j] < q[l]
      BY <3>1, <3>4
    <3>8. ASSUME NEW i \in 1 .. k + 1, s[i] \in T PROVE \E j \in 1 .. n + 1 : q[j] = i
      <4>1. CASE i = k + 1
        <5>1. n + 1 \in 1 .. n + 1 /\ q[n + 1] = i
          BY <3>1, <4>1
        <5> QED BY <5>1
      <4>2. CASE i # k + 1
        <5>1. i \in 1 .. k
          BY <4>2
        <5>2. PICK j \in 1 .. n : p[j] = i
          BY <3>4, <3>8, <5>1
        <5>3. j \in 1 .. n + 1 /\ q[j] = i
          BY <3>1, <5>2
        <5> QED BY <5>3
      <4> QED BY <4>1, <4>2
    <3> HIDE DEF q
    <3>9. IsPlaces(q, new, s, k + 1, T)
      BY <3>3, <3>5, <3>6, <3>7, <3>8 DEF IsPlaces
    <3> QED BY <3>9 DEF new
  <2> QED BY <2>3, <2>4
<1> HIDE DEF V
<1>3. Nat \subseteq V
  BY <1>1, <1>2, EveryNumber, Zenon
<1> QED BY <1>0, <1>3 DEF V, Filtered

-----------------------------------------------------------------------------
(* Sampling: what the filters leave *)

LEMMA FunctionIsSeq ==
  ASSUME NEW S, NEW n \in Nat, NEW s \in [1 .. n -> S]
  PROVE  s \in Seq(S) /\ Len(s) = n /\ DOMAIN s = 1 .. n
OBVIOUS

\* The action a is drawn before the first b.
Earlier(a, b, d) == \E i \in 1 .. Len(d) : d[i] = a /\ \A j \in 1 .. i : d[j] # b
Listed(a, d) == \E i \in 1 .. Len(d) : d[i] = a

\* r are the actions of d, each once, in the order they are drawn first.
Ranked(r, d) ==
  /\ r \in Seq(Actions) /\ \A a \in Actions : Listed(a, r) <=> Listed(a, d)
  /\ \A k, l \in 1 .. Len(r) : k < l => Earlier(r[k], r[l], d)

\* r are the elements of s at their first places.
IsFirst(s, i) == \A j \in 1 .. i - 1 : s[j] # s[i]
AreFirsts(o, r, s) ==
  /\ o \in [1 .. Len(r) -> 1 .. Len(s)]
  /\ \A k \in 1 .. Len(r) : r[k] = s[o[k]] /\ IsFirst(s, o[k])
  /\ \A k, l \in 1 .. Len(r) : k < l => o[k] < o[l]
  /\ \A i \in 1 .. Len(s) : IsFirst(s, i) => \E k \in 1 .. Len(r) : o[k] = i

LEMMA DuplicatesPlaces ==
  ASSUME NEW S, NEW s \in Seq(S)
  PROVE  /\ FilterDuplicates(s) \in Seq(S)
         /\ \E o : AreFirsts(o, FilterDuplicates(s), s)
<1> DEFINE n == Len(s)
           First(i) == IsFirst(s, i)
           firsts == {i \in DOMAIN s : First(i)}
           ids == [i \in DOMAIN s |-> i]
           order == Filtered(ids, firsts)
           r == FilterDuplicates(s)
<1>1. n \in Nat /\ DOMAIN s = 1 .. n /\ \A i \in 1 .. n : s[i] \in S
  BY LenProperties, ElementOfSeq
<1>2. ids \in Seq(Nat) /\ Len(ids) = n /\ \A i \in 1 .. n : ids[i] = i
  <2>1. ids \in [1 .. n -> Nat]
    BY <1>1
  <2>2. \A i \in 1 .. n : ids[i] = i
    BY <1>1
  <2> HIDE DEF ids, n
  <2> QED BY <1>1, <2>1, <2>2, FunctionIsSeq
<1> HIDE DEF n, ids, firsts
<1>3. PICK p : IsPlaces(p, order, ids, n, firsts)
  BY <1>2, KeptPlaces
<1>4. /\ order \in Seq(firsts) /\ p \in [1 .. Len(order) -> 1 .. n]
      /\ \A k \in 1 .. Len(order) : order[k] = ids[p[k]]
      /\ \A k, l \in 1 .. Len(order) : k < l => p[k] < p[l]
      /\ \A i \in 1 .. n : ids[i] \in firsts => \E k \in 1 .. Len(order) : p[k] = i
  BY <1>3 DEF IsPlaces
<1> HIDE DEF order
<1>5. /\ Len(order) \in Nat /\ DOMAIN order = 1 .. Len(order)
      /\ \A k \in 1 .. Len(order) : order[k] \in firsts /\ order[k] = p[k] /\ p[k] \in 1 .. n
  BY <1>2, <1>4, LenProperties, ElementOfSeq
<1>6. r = [k \in DOMAIN order |-> s[order[k]]]
  BY DEF FilterDuplicates, At, order, ids, firsts, IsFirst
<1> HIDE DEF r
<1>7. r \in [1 .. Len(order) -> S]
  BY <1>1, <1>5, <1>6
<1>8. r \in Seq(S) /\ Len(r) = Len(order) /\ \A k \in 1 .. Len(r) : r[k] = s[p[k]]
  BY <1>5, <1>6, <1>7, FunctionIsSeq
<1>9. \A k \in 1 .. Len(r) : First(p[k])
  BY <1>5, <1>8 DEF firsts
<1>10. ASSUME NEW i \in 1 .. n, First(i) PROVE \E k \in 1 .. Len(r) : p[k] = i
  <2>1. ids[i] \in firsts
    BY <1>1, <1>2, <1>10 DEF firsts
  <2> QED BY <1>4, <1>8, <2>1
<1> HIDE DEF First
<1>11. p \in [1 .. Len(r) -> 1 .. n] /\ \A k, l \in 1 .. Len(r) : k < l => p[k] < p[l]
  BY <1>4, <1>8
<1>12. AreFirsts(p, r, s)
  BY <1>8, <1>9, <1>10, <1>11 DEF n, First, AreFirsts
<1> QED BY <1>8, <1>12 DEF r

LEMMA DistinctRanked ==
  ASSUME NEW d \in Seq(Completions)
  PROVE  Ranked(FilterDuplicates(Parseable(d)), d)
<1> DEFINE q == Parseable(d)
           r == FilterDuplicates(q)
           First(i) == \A j \in 1 .. i - 1 : q[j] # q[i]
<1>1. Len(d) \in Nat /\ \A i \in 1 .. Len(d) : d[i] \in Completions
  BY LenProperties, ElementOfSeq
<1>2. PICK p : IsPlaces(p, q, d, Len(d), Actions)
  BY KeptPlaces DEF Parseable
<1>3. /\ q \in Seq(Actions) /\ p \in [1 .. Len(q) -> 1 .. Len(d)]
      /\ \A k \in 1 .. Len(q) : q[k] = d[p[k]]
      /\ \A k, l \in 1 .. Len(q) : k < l => p[k] < p[l]
      /\ \A i \in 1 .. Len(d) : d[i] \in Actions => \E k \in 1 .. Len(q) : p[k] = i
  BY <1>2 DEF IsPlaces
<1> HIDE DEF q
<1>4. r \in Seq(Actions) /\ \E o : AreFirsts(o, r, q)
  BY <1>3, DuplicatesPlaces
<1> HIDE DEF r
<1>5. PICK o \in [1 .. Len(r) -> 1 .. Len(q)] :
        /\ \A k \in 1 .. Len(r) : r[k] = q[o[k]] /\ First(o[k])
        /\ \A k, l \in 1 .. Len(r) : k < l => o[k] < o[l]
        /\ \A i \in 1 .. Len(q) : First(i) => \E k \in 1 .. Len(r) : o[k] = i
  BY <1>4 DEF AreFirsts, IsFirst
<1>6. /\ Len(r) \in Nat /\ Len(q) \in Nat
      /\ \A k \in 1 .. Len(r) : o[k] \in 1 .. Len(q) /\ p[o[k]] \in 1 .. Len(d) /\ r[k] = d[p[o[k]]]
  BY <1>3, <1>4, <1>5, LenProperties
<1>7. ASSUME NEW a \in Actions PROVE Listed(a, r) <=> Listed(a, d)
  <2>1. Listed(a, r) => Listed(a, d)
    BY <1>6 DEF Listed
  <2>2. ASSUME Listed(a, d) PROVE Listed(a, r)
    <3>1. PICK i \in 1 .. Len(d) : d[i] = a
      BY <2>2 DEF Listed
    <3>2. PICK k \in 1 .. Len(q) : p[k] = i
      BY <1>3, <3>1
    <3> DEFINE K == {m \in 1 .. Len(q) : q[m] = a}
    <3>3. K \in SUBSET Nat /\ k \in K
      <4>1. q[k] = a
        BY <1>3, <3>1, <3>2
      <4> QED BY <1>6, <4>1
    <3>4. PICK m \in K : \A j \in K : m <= j
      BY <3>3, LeastOne
    <3>5. First(m)
      BY <1>6, <3>4
    <3>6. PICK l \in 1 .. Len(r) : o[l] = m
      BY <1>5, <3>4, <3>5
    <3>7. r[l] = a
      BY <1>5, <3>4, <3>6
    <3> QED BY <3>7 DEF Listed
  <2> QED BY <2>1, <2>2
<1>8. ASSUME NEW k \in 1 .. Len(r), NEW l \in 1 .. Len(r), k < l
      PROVE  Earlier(r[k], r[l], d)
  <2>1. o[k] < o[l]
    BY <1>5, <1>8
  <2>2. ASSUME NEW j \in 1 .. p[o[k]], d[j] = r[l] PROVE FALSE
    <3>1. j \in 1 .. Len(d) /\ d[j] \in Actions
      BY <1>1, <1>4, <1>6, <2>2, ElementOfSeq
    <3>2. PICK m \in 1 .. Len(q) : p[m] = j
      BY <1>3, <3>1
    <3>3. m <= o[k]
      <4>1. ~(o[k] < m)
        BY <1>3, <1>6, <2>2, <3>2
      <4> QED BY <1>6, <4>1
    <3>4. q[m] = q[o[l]] /\ m \in 1 .. o[l] - 1
      BY <1>3, <1>5, <1>6, <2>1, <2>2, <3>2, <3>3
    <3> QED BY <1>5, <3>4
  <2> QED BY <1>6, <2>2 DEF Earlier
<1> QED BY <1>4, <1>7, <1>8 DEF Ranked, r, q

LEMMA RankedMore ==
  ASSUME NEW a, NEW d \in Seq(Completions), NEW s \in Seq(Completions), Ranked(a, d)
  PROVE  Ranked(FilterDuplicates(Parseable(a \o s)), d \o s)
<1> DEFINE q == a \o s
           e == d \o s
           r == FilterDuplicates(Parseable(q))
<1>1. /\ a \in Seq(Actions) /\ \A x \in Actions : Listed(x, a) <=> Listed(x, d)
      /\ \A k, l \in 1 .. Len(a) : k < l => Earlier(a[k], a[l], d)
  BY DEF Ranked
<1>2. a \in Seq(Completions)
  <2>1. \A i \in 1 .. Len(a) : a[i] \in Completions
    BY <1>1, ElementOfSeq DEF Completions
  <2>2. Len(a) \in Nat /\ a \in [1 .. Len(a) -> Completions]
    BY <1>1, <2>1, LenProperties
  <2> QED BY <2>2, FunctionIsSeq
<1>3. /\ Len(a) \in Nat /\ Len(d) \in Nat /\ Len(s) \in Nat
      /\ Len(q) = Len(a) + Len(s) /\ Len(e) = Len(d) + Len(s)
      /\ \A i \in 1 .. Len(q) : q[i] = IF i <= Len(a) THEN a[i] ELSE s[i - Len(a)]
      /\ \A i \in 1 .. Len(e) : e[i] = IF i <= Len(d) THEN d[i] ELSE s[i - Len(d)]
  BY <1>2, LenProperties, ConcatProperties
<1>4. q \in Seq(Completions) /\ \A i \in 1 .. Len(a) : a[i] \in Actions
  BY <1>1, <1>2, ConcatProperties, ElementOfSeq
<1> HIDE DEF q, e
<1>5. Ranked(r, q)
  BY <1>4, DistinctRanked
<1>6. /\ r \in Seq(Actions) /\ \A x \in Actions : Listed(x, r) <=> Listed(x, q)
      /\ \A k, l \in 1 .. Len(r) : k < l => Earlier(r[k], r[l], q)
  BY <1>5 DEF Ranked
<1> HIDE DEF r
<1>7. \A i \in 1 .. Len(s) : /\ Len(a) + i \in 1 .. Len(q) /\ q[Len(a) + i] = s[i]
                             /\ Len(d) + i \in 1 .. Len(e) /\ e[Len(d) + i] = s[i]
  <2> SUFFICES ASSUME NEW i \in 1 .. Len(s)
               PROVE  /\ Len(a) + i \in 1 .. Len(q) /\ q[Len(a) + i] = s[i]
                      /\ Len(d) + i \in 1 .. Len(e) /\ e[Len(d) + i] = s[i]
    OBVIOUS
  <2>1. /\ Len(a) + i \in 1 .. Len(q) /\ ~(Len(a) + i <= Len(a)) /\ Len(a) + i - Len(a) = i
        /\ Len(d) + i \in 1 .. Len(e) /\ ~(Len(d) + i <= Len(d)) /\ Len(d) + i - Len(d) = i
    BY <1>3
  <2> QED BY <1>3, <2>1
<1>8. /\ \A i \in 1 .. Len(a) : i \in 1 .. Len(q) /\ q[i] = a[i]
      /\ \A i \in 1 .. Len(d) : i \in 1 .. Len(e) /\ e[i] = d[i]
  BY <1>3
<1>9. ASSUME NEW x \in Actions PROVE Listed(x, q) <=> Listed(x, e)
  <2>1. Listed(x, q) <=> Listed(x, a) \/ Listed(x, s)
    <3>1. ASSUME Listed(x, q) PROVE Listed(x, a) \/ Listed(x, s)
      <4>1. PICK i \in 1 .. Len(q) : q[i] = x
        BY <3>1 DEF Listed
      <4>2. CASE i <= Len(a)
        BY <1>3, <4>1, <4>2 DEF Listed
      <4>3. CASE ~(i <= Len(a))
        <5>1. i - Len(a) \in 1 .. Len(s) /\ s[i - Len(a)] = x
          BY <1>3, <4>1, <4>3
        <5> QED BY <5>1 DEF Listed
      <4> QED BY <4>2, <4>3
    <3> QED BY <1>7, <1>8, <3>1 DEF Listed
  <2>2. Listed(x, e) <=> Listed(x, d) \/ Listed(x, s)
    <3>1. ASSUME Listed(x, e) PROVE Listed(x, d) \/ Listed(x, s)
      <4>1. PICK i \in 1 .. Len(e) : e[i] = x
        BY <3>1 DEF Listed
      <4>2. CASE i <= Len(d)
        BY <1>3, <4>1, <4>2 DEF Listed
      <4>3. CASE ~(i <= Len(d))
        <5>1. i - Len(d) \in 1 .. Len(s) /\ s[i - Len(d)] = x
          BY <1>3, <4>1, <4>3
        <5> QED BY <5>1 DEF Listed
      <4> QED BY <4>2, <4>3
    <3> QED BY <1>7, <1>8, <3>1 DEF Listed
  <2> QED BY <1>1, <2>1, <2>2
<1>10. ASSUME NEW x \in Actions, NEW y \in Actions, Earlier(x, y, q) PROVE Earlier(x, y, e)
  <2>1. PICK i \in 1 .. Len(q) : q[i] = x /\ \A j \in 1 .. i : q[j] # y
    BY <1>10 DEF Earlier
  <2>2. CASE i <= Len(a)
    <3>1. i \in 1 .. Len(a) /\ a[i] = x
      BY <1>3, <2>1, <2>2
    <3>2. Earlier(x, y, d)
      <4>1. CASE Listed(y, a)
        <5>1. PICK j \in 1 .. Len(a) : a[j] = y
          BY <4>1 DEF Listed
        <5>2. i < j
          BY <1>8, <2>1, <3>1, <5>1
        <5> QED BY <1>1, <3>1, <5>1, <5>2
      <4>2. CASE ~Listed(y, a)
        <5>1. ~Listed(y, d) /\ Listed(x, d)
          BY <1>1, <3>1, <4>2 DEF Listed
        <5>2. PICK m \in 1 .. Len(d) : d[m] = x
          BY <5>1 DEF Listed
        <5>3. \A j \in 1 .. m : d[j] # y
          BY <1>3, <5>1, <5>2 DEF Listed
        <5> QED BY <5>2, <5>3 DEF Earlier
      <4> QED BY <4>1, <4>2
    <3>3. PICK m \in 1 .. Len(d) : d[m] = x /\ \A j \in 1 .. m : d[j] # y
      BY <3>2 DEF Earlier
    <3>4. m \in 1 .. Len(e) /\ e[m] = x /\ \A j \in 1 .. m : e[j] # y
      BY <1>3, <1>8, <3>3
    <3> QED BY <3>4 DEF Earlier
  <2>3. CASE ~(i <= Len(a))
    <3>1. i - Len(a) \in 1 .. Len(s) /\ s[i - Len(a)] = x
      BY <1>3, <2>1, <2>3
    <3>2. PICK m \in 1 .. Len(s) : m = i - Len(a) /\ s[m] = x
      BY <3>1
    <3>3. \A j \in 1 .. m : s[j] # y
      <4> SUFFICES ASSUME NEW j \in 1 .. m PROVE s[j] # y
        OBVIOUS
      <4>1. j \in 1 .. Len(s) /\ Len(a) + j \in 1 .. i
        BY <1>3, <3>2
      <4> QED BY <1>7, <2>1, <4>1
    <3>4. ~Listed(y, a)
      BY <1>3, <1>8, <2>1, <2>3 DEF Listed
    <3>5. ~Listed(y, d)
      BY <1>1, <3>4
    <3>6. \A j \in 1 .. Len(d) + m : e[j] # y
      <4> SUFFICES ASSUME NEW j \in 1 .. Len(d) + m PROVE e[j] # y
        OBVIOUS
      <4>1. CASE j <= Len(d)
        <5>1. j \in 1 .. Len(d)
          BY <1>3, <4>1
        <5> QED BY <1>8, <3>5, <5>1 DEF Listed
      <4>2. CASE ~(j <= Len(d))
        <5>1. j - Len(d) \in 1 .. m /\ j - Len(d) \in 1 .. Len(s)
          BY <1>3, <4>2
        <5>2. e[j] = s[j - Len(d)]
          BY <1>3, <4>2, <5>1
        <5> QED BY <3>3, <5>1, <5>2
      <4> QED BY <4>1, <4>2
    <3>7. Len(d) + m \in 1 .. Len(e) /\ e[Len(d) + m] = x
      BY <1>7, <3>2
    <3> QED BY <3>6, <3>7 DEF Earlier
  <2> QED BY <2>2, <2>3
<1>11. ASSUME NEW k \in 1 .. Len(r), NEW l \in 1 .. Len(r), k < l
       PROVE  Earlier(r[k], r[l], e)
  <2>1. r[k] \in Actions /\ r[l] \in Actions
    BY <1>6, ElementOfSeq
  <2>2. Earlier(r[k], r[l], q)
    BY <1>6, <1>11
  <2> QED BY <1>10, <2>1, <2>2
<1> QED BY <1>6, <1>9, <1>11 DEF Ranked, e, r, q

-----------------------------------------------------------------------------
(* Sampling: the inductive invariant *)

SamplingTyped ==
  /\ sampler \in {"comparison", "colleagues"} /\ size \in SampleSizes
  /\ drawn \in Seq(Completions) /\ sampled \in Seq(Completions)
  /\ best \in Nat /\ other \in Nat /\ compared \in Seq(Nat \X Nat \X Responses)

\* As many completions are paid for as the actions among them call for.
HasAll ==
  Len(drawn) = size.min + (IF ContainsEdits(SubSeq(drawn, 1, size.min)) THEN size.more ELSE 0)

\* The sample b has beaten the one before it and every one since.
Won(b) ==
  \A k \in DOMAIN compared :
    /\ compared[k][2] = k + 1
    /\ compared[k][2] = b => compared[k][3] = "second"
    /\ compared[k][2] > b => compared[k][1] = b /\ compared[k][3] # "second"

BeforeMore ==
  /\ asks \in {"samples", "more"} => compared = <<>>
  /\ asks = "more" =>
       /\ sampler = "comparison" /\ sampled # <<>> /\ Ranked(sampled, drawn)
       /\ Len(drawn) = size.min /\ ContainsEdits(drawn)

Between ==
  /\ Ranked(sampled, drawn) /\ HasAll
  /\ best \in 1 .. other - 1 /\ other - 1 <= Len(sampled)
  /\ Len(compared) = other - 2 /\ Won(best)

Comparing ==
  /\ asks = "discussion" => sampler = "colleagues"
  /\ asks = "comparison" => sampler = "comparison" /\ Between /\ other <= Len(sampled)
  /\ asks = "returned" /\ sampler = "comparison" =>
       Between /\ other = Len(sampled) + 1 /\ chosen = sampled[best]

SamplingInv == SamplingTyped /\ BeforeMore /\ Comparing

LEMMA ActionsAreCompletions == ASSUME NEW r \in Seq(Actions) PROVE r \in Seq(Completions)
<1>1. \A i \in 1 .. Len(r) : r[i] \in Completions
  BY ElementOfSeq DEF Completions
<1>2. Len(r) \in Nat /\ r \in [1 .. Len(r) -> Completions]
  BY <1>1, LenProperties
<1> QED BY <1>2, FunctionIsSeq

LEMMA EditsAmong ==
  ASSUME NEW r, NEW d \in Seq(Completions), Ranked(r, d)
  PROVE  ContainsEdits(r) <=> ContainsEdits(d)
<1>1. /\ DOMAIN r = 1 .. Len(r) /\ DOMAIN d = 1 .. Len(d)
      /\ \A a \in Actions : Listed(a, r) <=> Listed(a, d)
  BY LenProperties DEF Ranked
<1>2. \A s : DOMAIN s = 1 .. Len(s) => (ContainsEdits(s) <=> \E a \in EditActions : Listed(a, s))
  BY DEF ContainsEdits, Listed
<1> QED BY <1>1, <1>2, SamplingAssumption

LEMMA ComparisonStarts ==
  ASSUME NEW r \in Seq(Actions), r # <<>>, WithCompletions(r), compared' = <<>>,
         sampler' = "comparison", Ranked(r, drawn'), HasAll'
  PROVE  BeforeMore' /\ Comparing' /\ sampled' \in Seq(Completions) /\ best' \in Nat /\ other' \in Nat
<1>1. Len(r) \in Nat /\ Len(r) >= 1
  BY LenProperties, EmptySeq
<1>2. DOMAIN compared' = {} /\ Len(compared') = other' - 2
  <2>1. other' = 2
    BY DEF WithCompletions
  <2>2. compared' \in Seq({}) /\ Len(compared') = 0
    BY EmptySeq
  <2> QED BY <2>1, <2>2, LenProperties
<1>3. sampled' = r /\ best' = 1 /\ other' = 2 /\ r \in Seq(Completions)
  BY ActionsAreCompletions DEF WithCompletions
<1>4. Between'
  BY <1>1, <1>2, <1>3 DEF Between, Won
<1> DEFINE n == Len(r)
<1>5. asks' = "returned" => n = 1 /\ chosen' = r[1]
  BY Zenon DEF WithCompletions
<1>6. asks' = "comparison" => n # 1
  BY Zenon DEF WithCompletions
<1>0. n \in Nat /\ n >= 1 /\ Len(sampled') = n
  BY <1>1, <1>3
<1> HIDE DEF n
<1>7. asks' \in {"returned", "comparison"}
  BY DEF WithCompletions
<1>8. BeforeMore'
  BY <1>7 DEF BeforeMore
<1>9. asks' = "comparison" => other' <= Len(sampled')
  BY <1>0, <1>3, <1>6
<1>10. asks' = "returned" => other' = Len(sampled') + 1 /\ chosen' = sampled'[best']
  BY <1>0, <1>3, <1>5
<1>11. asks' # "discussion"
  BY <1>7
<1>12. Comparing'
  BY <1>4, <1>9, <1>10, <1>11 DEF Comparing
<1> QED BY <1>3, <1>8, <1>12

LEMMA SamplesTaken ==
  ASSUME SamplingInv, TakesSamples
  PROVE  SamplingInv'
<1> USE DEF SamplingInv, Keeps
<1>1. size.min \in Nat /\ size.more \in Nat
  BY SamplingAssumption DEF SamplingTyped
<1>2. PICK s \in [1 .. size.min -> Completions] :
        /\ drawn' = s
        /\ LET some == FilterDuplicates(Parseable(s)) IN
             IF some = <<>>
             THEN asks' = "format error" /\ UNCHANGED <<sampled, best, other, chosen>>
             ELSE IF ContainsEdits(some) /\ size.more > 0
                  THEN asks' = "more" /\ sampled' = some /\ UNCHANGED <<best, other, chosen>>
                  ELSE WithCompletions(some)
  BY DEF TakesSamples
<1> DEFINE some == FilterDuplicates(Parseable(s))
<1>3. s \in Seq(Completions) /\ Len(s) = size.min
  BY <1>1, FunctionIsSeq
<1>4. Ranked(some, s)
  BY <1>3, DistinctRanked
<1>5. /\ (some = <<>> => asks' = "format error" /\ UNCHANGED <<sampled, best, other, chosen>>)
      /\ (some # <<>> /\ ContainsEdits(some) /\ size.more > 0 =>
            asks' = "more" /\ sampled' = some /\ UNCHANGED <<best, other, chosen>>)
      /\ (some # <<>> /\ ~(ContainsEdits(some) /\ size.more > 0) => WithCompletions(some))
  BY <1>2
<1> HIDE DEF some
<1>6. some \in Seq(Actions) /\ some \in Seq(Completions) /\ (ContainsEdits(some) <=> ContainsEdits(s))
  BY <1>3, <1>4, ActionsAreCompletions, EditsAmong DEF Ranked
<1>7. drawn' = s /\ sampler' = "comparison" /\ size' = size /\ compared' = <<>>
  BY <1>2 DEF TakesSamples, BeforeMore
<1>8. /\ sampler' \in {"comparison", "colleagues"} /\ size' \in SampleSizes
      /\ drawn' \in Seq(Completions) /\ compared' \in Seq(Nat \X Nat \X Responses)
  BY <1>3, <1>7, EmptySeq DEF SamplingTyped
<1>9. CASE some = <<>>
  BY <1>5, <1>7, <1>8, <1>9 DEF SamplingTyped, BeforeMore, Comparing
<1>10. CASE some # <<>> /\ ContainsEdits(some) /\ size.more > 0
  BY <1>3, <1>4, <1>5, <1>6, <1>7, <1>8, <1>10 DEF SamplingTyped, BeforeMore, Comparing
<1>11. CASE some # <<>> /\ ~(ContainsEdits(some) /\ size.more > 0)
  <2>1. SubSeq(s, 1, size.min) = s
    <3>1. SubSeq(s, 1, size.min) = [i \in 1 .. size.min |-> s[i]]
      BY <1>1, <1>3, SubSeqProperties
    <3> QED BY <3>1
  <2>2. HasAll'
    <3>1. drawn' = s /\ size' = size /\ SubSeq(drawn', 1, size'.min) = s
      BY <1>7, <2>1
    <3>2. Len(s) = size.min + (IF ContainsEdits(s) THEN size.more ELSE 0)
      BY <1>1, <1>3, <1>6, <1>11
    <3> QED BY <3>1, <3>2 DEF HasAll
  <2>3. Ranked(some, drawn')
    BY <1>4, <1>7
  <2>4. /\ BeforeMore' /\ Comparing' /\ sampled' \in Seq(Completions)
        /\ best' \in Nat /\ other' \in Nat
    BY <1>5, <1>6, <1>7, <1>11, <2>2, <2>3, ComparisonStarts
  <2> QED BY <1>8, <2>4 DEF SamplingTyped
<1> QED BY <1>9, <1>10, <1>11

LEMMA MoreSamplesTaken ==
  ASSUME SamplingInv, TakesMoreSamples
  PROVE  SamplingInv'
<1> USE DEF SamplingInv, Keeps
<1>1. size.min \in Nat /\ size.more \in Nat
  BY SamplingAssumption DEF SamplingTyped
<1>2. PICK s \in [1 .. size.more -> Completions] :
        drawn' = drawn \o s /\ WithCompletions(FilterDuplicates(Parseable(sampled \o s)))
  BY DEF TakesMoreSamples
<1> DEFINE all == FilterDuplicates(Parseable(sampled \o s))
<1>3. s \in Seq(Completions) /\ Len(s) = size.more
  BY <1>1, FunctionIsSeq
<1>4. /\ sampler = "comparison" /\ sampled # <<>> /\ Ranked(sampled, drawn) /\ compared = <<>>
      /\ Len(drawn) = size.min /\ ContainsEdits(drawn) /\ drawn \in Seq(Completions)
  BY DEF TakesMoreSamples, BeforeMore, SamplingTyped
<1>5. Ranked(all, drawn \o s)
  BY <1>3, <1>4, RankedMore
<1>6. WithCompletions(all)
  BY <1>2
<1> HIDE DEF all
<1>7. all \in Seq(Actions) /\ Ranked(all, drawn')
  BY <1>2, <1>5 DEF Ranked
<1>8. /\ drawn' \in Seq(Completions) /\ Len(drawn') = size.min + size.more
      /\ \A i \in 1 .. size.min : drawn'[i] = drawn[i]
  <2>1. drawn \o s \in Seq(Completions) /\ Len(drawn \o s) = Len(drawn) + Len(s)
    BY <1>3, <1>4, ConcatProperties
  <2>2. \A i \in 1 .. Len(drawn) + Len(s) :
          (drawn \o s)[i] = IF i <= Len(drawn) THEN drawn[i] ELSE s[i - Len(drawn)]
    BY <1>3, <1>4, ConcatProperties
  <2>3. \A i \in 1 .. size.min : i \in 1 .. Len(drawn) + Len(s) /\ i <= Len(drawn)
    BY <1>1, <1>3, <1>4
  <2> QED BY <1>2, <1>3, <1>4, <2>1, <2>2, <2>3
<1>9. all # <<>>
  <2>1. PICK a \in Actions : Listed(a, sampled)
    <3>1. sampled \in Seq(Actions)
      BY <1>4 DEF Ranked
    <3>2. Len(sampled) \in Nat /\ Len(sampled) >= 1
      BY <1>4, <3>1, LenProperties, EmptySeq
    <3>3. 1 \in 1 .. Len(sampled) /\ sampled[1] \in Actions
      BY <3>1, <3>2, ElementOfSeq
    <3> QED BY <3>3 DEF Listed
  <2>2. PICK i \in 1 .. Len(drawn) : drawn[i] = a
    BY <1>4, <2>1 DEF Ranked, Listed
  <2>3. i \in 1 .. Len(drawn') /\ drawn'[i] = a
    BY <1>1, <1>4, <1>8, <2>2
  <2>4. Listed(a, drawn')
    BY <2>3 DEF Listed
  <2>5. Listed(a, all)
    BY <1>7, <2>4 DEF Ranked
  <2>6. Len(<<>>) = 0
    BY EmptySeq
  <2> QED BY <2>5, <2>6 DEF Listed
<1>10. sampler' = "comparison" /\ size' = size /\ compared' = <<>>
  BY <1>4 DEF TakesMoreSamples
<1>11. HasAll'
  <2>1. SubSeq(drawn', 1, size.min) = [i \in 1 .. size.min |-> drawn'[i]]
    BY <1>1, <1>8, SubSeqProperties
  <2>2. [i \in 1 .. size.min |-> drawn'[i]] = [i \in 1 .. size.min |-> drawn[i]]
    BY <1>8
  <2>3. [i \in 1 .. size.min |-> drawn[i]] = drawn
    BY <1>4, LenProperties
  <2>4. SubSeq(drawn', 1, size.min) = drawn
    BY <2>1, <2>2, <2>3
  <2> QED BY <1>1, <1>4, <1>8, <1>10, <2>4 DEF HasAll
<1>12. BeforeMore' /\ Comparing' /\ sampled' \in Seq(Completions) /\ best' \in Nat /\ other' \in Nat
  BY <1>6, <1>7, <1>9, <1>10, <1>11, ComparisonStarts
<1> QED BY <1>8, <1>10, <1>12 DEF SamplingTyped

LEMMA Compared ==
  ASSUME SamplingInv, Compares
  PROVE  SamplingInv'
<1> USE DEF SamplingInv, Keeps
<1>1. PICK response \in Responses :
        LET winner == IF Interpret(response) = 1 THEN other ELSE best IN
          /\ compared' = Append(compared, <<best, other, response>>)
          /\ best' = winner /\ other' = other + 1
          /\ IF other = Len(sampled)
             THEN asks' = "returned" /\ chosen' = sampled[winner]
             ELSE UNCHANGED <<asks, chosen>>
  BY DEF Compares
<1>2. /\ compared' = Append(compared, <<best, other, response>>) /\ other' = other + 1
      /\ best' = IF response = "second" THEN other ELSE best
      /\ (other = Len(sampled) => asks' = "returned" /\ chosen' = sampled[best'])
      /\ (other # Len(sampled) => asks' = asks)
  BY <1>1 DEF Interpret
<1>3. /\ sampler = "comparison" /\ Between /\ other <= Len(sampled) /\ asks = "comparison"
      /\ UNCHANGED <<sampler, size, drawn, sampled>>
  BY DEF Compares, Comparing
<1>4. /\ best \in Nat /\ other \in Nat /\ sampled \in Seq(Completions) /\ Len(sampled) \in Nat
      /\ compared \in Seq(Nat \X Nat \X Responses) /\ Len(compared) \in Nat
      /\ <<best, other, response>> \in Nat \X Nat \X Responses
  BY LenProperties DEF SamplingTyped
<1> DEFINE n == Len(compared)
           entry == <<best, other, response>>
<1>5. /\ n \in Nat /\ compared' \in Seq(Nat \X Nat \X Responses) /\ Len(compared') = n + 1
      /\ DOMAIN compared' = 1 .. n + 1 /\ DOMAIN compared = 1 .. n
      /\ compared'[n + 1] = entry /\ \A k \in 1 .. n : compared'[k] = compared[k]
  BY <1>2, <1>4, AppendProperties, LenProperties
<1>6. n = other - 2 /\ best \in 1 .. other - 1 /\ Won(best)
  BY <1>3 DEF Between
<1>7. entry[1] = best /\ entry[2] = other /\ entry[3] = response
  OBVIOUS
<1> HIDE DEF n, entry
<1>8. SamplingTyped'
  BY <1>2, <1>3, <1>4, <1>5 DEF SamplingTyped
<1>9. Won(best)'
  <2> SUFFICES ASSUME NEW k \in 1 .. n + 1
               PROVE  /\ compared'[k][2] = k + 1
                      /\ compared'[k][2] = best' => compared'[k][3] = "second"
                      /\ compared'[k][2] > best' =>
                           compared'[k][1] = best' /\ compared'[k][3] # "second"
    BY <1>5 DEF Won
  <2>1. CASE k = n + 1
    BY <1>2, <1>4, <1>5, <1>6, <1>7, <2>1
  <2>2. CASE k # n + 1
    <3>1. k \in 1 .. n /\ compared'[k] = compared[k]
      <4>1. k \in 1 .. n
        BY <1>5, <2>2
      <4> QED BY <1>5, <4>1
    <3>2. /\ compared[k][2] = k + 1 /\ (compared[k][2] = best => compared[k][3] = "second")
          /\ (compared[k][2] > best => compared[k][1] = best /\ compared[k][3] # "second")
      BY <1>5, <1>6, <3>1 DEF Won
    <3>3. k + 1 < other
      BY <1>4, <1>6, <3>1
    <3>4. best' = other \/ best' = best
      BY <1>2
    <3> QED BY <1>4, <3>1, <3>2, <3>3, <3>4
  <2> QED BY <2>1, <2>2
<1>10. Between'
  <2>1. Ranked(sampled, drawn)' /\ HasAll'
    BY <1>3 DEF Between, HasAll
  <2>2. /\ best' \in 1 .. other' - 1 /\ other' - 1 <= Len(sampled')
        /\ Len(compared') = other' - 2
    BY <1>2, <1>3, <1>4, <1>5, <1>6
  <2> QED BY <1>9, <2>1, <2>2 DEF Between
<1>11. BeforeMore'
  BY <1>2, <1>3 DEF BeforeMore
<1>12. Comparing'
  BY <1>2, <1>3, <1>4, <1>10 DEF Comparing
<1> QED BY <1>8, <1>11, <1>12

LEMMA OthersSample ==
  ASSUME SamplingInv,
         TakesNoList \/ TakesColleagues \/ Concludes \/ QueryRaisesInSampler
  PROVE  SamplingInv'
<1> USE DEF SamplingInv, Keeps
<1>1. size.min \in Nat
  BY SamplingAssumption DEF SamplingTyped
<1>2. CASE TakesNoList
  <2>1. PICK c \in Completions : drawn' = Append(drawn, c)
    BY <1>2 DEF TakesNoList
  <2>2. drawn' \in Seq(Completions)
    BY <2>1, AppendProperties DEF SamplingTyped
  <2> QED BY <1>2, <2>2 DEF TakesNoList, SamplingTyped, BeforeMore, Comparing
<1>3. CASE TakesColleagues
  <2>1. PICK s \in [1 .. size.min -> Completions] :
          /\ drawn' = s /\ sampled' = Parseable(s) /\ asks' \in {"format error", "discussion"}
    BY <1>3 DEF TakesColleagues
  <2>2. drawn' \in Seq(Completions)
    BY <1>1, <2>1, FunctionIsSeq
  <2>3. PICK p : IsPlaces(p, Filtered(drawn', Actions), drawn', Len(drawn'), Actions)
    BY <2>2, KeptPlaces
  <2>4. sampled' \in Seq(Completions)
    BY <2>1, <2>3, ActionsAreCompletions DEF Parseable, IsPlaces
  <2> QED BY <1>3, <2>1, <2>2, <2>4 DEF TakesColleagues, SamplingTyped, BeforeMore, Comparing
<1>4. CASE Concludes
  <2>1. PICK c \in Completions : drawn' = Append(drawn, c)
    BY <1>4 DEF Concludes
  <2>2. drawn' \in Seq(Completions)
    BY <2>1, AppendProperties DEF SamplingTyped
  <2> QED BY <1>4, <2>2 DEF Concludes, SamplingTyped, BeforeMore, Comparing
<1>5. CASE QueryRaisesInSampler
  BY <1>5 DEF QueryRaisesInSampler, SamplingTyped, BeforeMore, Comparing
<1> QED BY <1>2, <1>3, <1>4, <1>5

LEMMA SamplingInductive == SamplingSpec => []SamplingInv
<1>1. SamplingInit => SamplingInv
  BY EmptySeq DEF SamplingInit, SamplingInv, SamplingTyped, BeforeMore, Comparing, Completions
<1>2. SamplingInv /\ UNCHANGED samplingVars => SamplingInv'
  BY DEF samplingVars, SamplingInv, SamplingTyped, BeforeMore, Comparing, Between, HasAll, Won
<1>3. SamplingInv /\ SamplingNext => SamplingInv'
  BY SamplesTaken, MoreSamplesTaken, Compared, OthersSample DEF SamplingNext
<1> QED BY <1>1, <1>2, <1>3, PTL DEF SamplingSpec

\* Every different action that was drawn is compared, in the order they were first
\* drawn, and the one that is returned is beaten by none; edits are decided among all
\* the samples a configuration allows (BinaryTrajectoryComparison.get_action).
THEOREM SamplesUsed == SamplingSpec => []SamplesAreUsed
<1>1. SamplingInv => EditsAreSampledMore
  BY DEF SamplingInv, Comparing, Between, HasAll, EditsAreSampledMore
<1>2. SamplingInv => ChoiceIsBest
  <2> SUFFICES ASSUME SamplingInv, sampler = "comparison", asks = "returned"
               PROVE  ChoiceIsBest
    BY DEF ChoiceIsBest
  <2> DEFINE rank(a) == CHOOSE i \in DOMAIN sampled : sampled[i] = a
             Draws(a) == {i \in DOMAIN drawn : drawn[i] = a}
             firstDraw(a) == Min(Draws(a))
  <2>1. /\ Ranked(sampled, drawn) /\ best \in 1 .. Len(sampled) /\ chosen = sampled[best]
        /\ Len(compared) = Len(sampled) - 1 /\ Won(best)
        /\ sampled \in Seq(Actions) /\ drawn \in Seq(Completions)
    <3>1. /\ Between /\ other = Len(sampled) + 1 /\ chosen = sampled[best] /\ other \in Nat
          /\ drawn \in Seq(Completions) /\ sampled \in Seq(Completions)
      BY DEF SamplingInv, SamplingTyped, Comparing
    <3>2. Len(sampled) \in Nat
      BY <3>1, LenProperties
    <3> QED BY <3>1, <3>2 DEF Between, Ranked
  <2>2. /\ DOMAIN sampled = 1 .. Len(sampled) /\ Len(sampled) \in Nat
        /\ DOMAIN drawn = 1 .. Len(drawn) /\ Len(drawn) \in Nat
        /\ \A i \in DOMAIN sampled : sampled[i] \in Actions
        /\ \A i \in DOMAIN drawn : drawn[i] \in Completions
    BY <2>1, LenProperties, ElementOfSeq
  <2>3. /\ \A a \in Actions : Listed(a, sampled) <=> Listed(a, drawn)
        /\ \A i, j \in DOMAIN sampled : i < j => Earlier(sampled[i], sampled[j], drawn)
    BY <2>1, <2>2 DEF Ranked
  <2>4. ToSet(sampled) = ToSet(drawn) \ {Unparsed}
    <3>1. \A a \in ToSet(sampled) : a \in Actions /\ Listed(a, sampled)
      BY <2>2 DEF ToSet, Listed
    <3>2. \A a \in ToSet(drawn) \ {Unparsed} : a \in Actions /\ Listed(a, drawn)
      BY <2>2 DEF ToSet, Listed, Completions
    <3>3. \A a \in Actions : Listed(a, sampled) => a \in ToSet(sampled)
      BY <2>2 DEF ToSet, Listed
    <3>4. \A a \in Actions : Listed(a, drawn) => a \in ToSet(drawn) \ {Unparsed}
      BY <2>2, SamplingAssumption DEF ToSet, Listed, Unparsed
    <3> QED BY <2>3, <3>1, <3>2, <3>3, <3>4
  <2>5. ASSUME NEW i \in DOMAIN sampled, NEW j \in DOMAIN sampled, i < j
        PROVE  sampled[i] # sampled[j]
    BY <2>2, <2>3, <2>5 DEF Earlier
  <2>6. IsInjective(sampled)
    <3> SUFFICES ASSUME NEW i \in DOMAIN sampled, NEW j \in DOMAIN sampled, sampled[i] = sampled[j]
                 PROVE  i = j
      BY DEF IsInjective
    <3>1. ~(i < j) /\ ~(j < i)
      BY <2>5
    <3> QED BY <2>2, <3>1
  <2>7. ASSUME NEW a \in Actions, Listed(a, drawn)
        PROVE  firstDraw(a) \in Draws(a) /\ \A i \in Draws(a) : firstDraw(a) <= i
    <3>1. Draws(a) \in SUBSET Nat /\ Draws(a) # {}
      BY <2>2, <2>7 DEF Listed
    <3> HIDE DEF Draws
    <3>2. \E i \in Draws(a) : \A j \in Draws(a) : i <= j
      BY <3>1, LeastOne
    <3> QED BY <3>2 DEF Min
  <2>8. ASSUME NEW i \in DOMAIN sampled, NEW j \in DOMAIN sampled, i < j
        PROVE  firstDraw(sampled[i]) < firstDraw(sampled[j])
    <3>1. PICK m \in 1 .. Len(drawn) :
            drawn[m] = sampled[i] /\ \A k \in 1 .. m : drawn[k] # sampled[j]
      BY <2>3, <2>8 DEF Earlier
    <3>2. \A k \in DOMAIN sampled : sampled[k] \in Actions /\ Listed(sampled[k], drawn)
      BY <2>2, <2>3 DEF Listed
    <3>3. m \in Draws(sampled[i])
      BY <2>2, <3>1
    <3>4. firstDraw(sampled[i]) \in Draws(sampled[i]) /\ firstDraw(sampled[i]) <= m
      BY <2>7, <3>2, <3>3
    <3>5. firstDraw(sampled[j]) \in Draws(sampled[j])
      BY <2>7, <3>2
    <3>6. \A k \in Draws(sampled[j]) : k \in Nat /\ m < k
      BY <2>2, <3>1
    <3>7. \A k \in Draws(sampled[i]) : k \in Nat
      BY <2>2
    <3> HIDE DEF firstDraw, Draws
    <3>8. m \in Nat /\ firstDraw(sampled[i]) \in Nat /\ firstDraw(sampled[j]) \in Nat
      BY <3>1, <3>4, <3>5, <3>6, <3>7
    <3>9. m < firstDraw(sampled[j])
      BY <3>5, <3>6
    <3> QED BY <3>4, <3>8, <3>9
  <2>9. rank(chosen) = best
    <3>1. best \in DOMAIN sampled /\ sampled[best] = chosen
      BY <2>1, <2>2
    <3>2. \A i \in DOMAIN sampled : sampled[i] = chosen => i = best
      BY <2>6, <3>1 DEF IsInjective
    <3> QED BY <3>1, <3>2
  <2>10. \A k \in DOMAIN compared :
           /\ compared[k][2] = k + 1
           /\ compared[k][2] = rank(chosen) => compared[k][3] = "second"
           /\ compared[k][2] > rank(chosen) =>
                compared[k][1] = rank(chosen) /\ compared[k][3] # "second"
    BY <2>1, <2>9 DEF Won
  <2> QED BY <2>1, <2>4, <2>6, <2>8, <2>10 DEF ChoiceIsBest
<1> QED BY <1>1, <1>2, SamplingInductive, PTL DEF SamplesAreUsed

-----------------------------------------------------------------------------
(* Replay: the inductive invariant *)

EntrySet == [kind : {"action", "demo", "error"}, n : Int]
Running == {"start", "agent", "step"}
Ended == {"closed", "raised", "killed"}
Stages == Running \cup Ended \cup {"last step", "completed", "applied", "saved", "predicted"}

ReplayTyped ==
  /\ settings \in [parser : {"calls", "blocks", "whole"}, demos : BOOLEAN,
                   repo : {"local", "github"}, apply : BOOLEAN, openPr : BOOLEAN]
  /\ stage \in Stages /\ ran \in Seq(Nat) /\ story \in Seq(EntrySet)
  /\ traj \in [entries : Seq(EntrySet), whole : BOOLEAN]
  /\ replay \in [at : {"off", "refused", "agent", "exit", "done"}, demo : BOOLEAN, fails : Nat]
  /\ script \in Seq(EntrySet) /\ next \in Nat \ {0} /\ reran \in Seq(Int)

\* Actions are numbered as they run, and nothing runs after the submission.
RanInOrder ==
  /\ \A i \in 1 .. Len(ran) : i < Len(ran) => ran[i] = i
  /\ \A i \in 1 .. Len(ran) : ran[i] \in {i, Submit}
  /\ stage \in Running => \A i \in 1 .. Len(ran) : ran[i] = i

\* A history is the demonstrations, the actions r and at most one error.
Offset == IF settings.demos THEN 1 ELSE 0
Tells(s, r) ==
  /\ Offset + Len(r) <= Len(s) /\ Len(s) <= Offset + Len(r) + 1
  /\ settings.demos => s[1] = DemoEntry
  /\ \A i \in 1 .. Len(r) : s[Offset + i] = Entries("action", r[i])
  /\ Offset + Len(r) < Len(s) => s[Len(s)] = ErrorEntry

StoryTold ==
  /\ Tells(story, Recorded)
  /\ stage \in Running => Len(story) = Offset + Len(Recorded)
  /\ stage \in {"step", "last step"} => Len(story) > Offset

\* What is saved is the history, or all of it but its last entry.
StorySaved ==
  traj.whole =>
    /\ Offset < Len(traj.entries)
    /\ Len(traj.entries) <= Len(story) /\ Len(story) <= Len(traj.entries) + 1
    /\ \A i \in 1 .. Len(traj.entries) : traj.entries[i] = story[i]
    /\ stage \notin {"step", "last step", "killed"} => Len(traj.entries) = Len(story)

IsScript ==
  replay.at \notin {"off", "refused"} =>
    /\ stage \in Ended /\ traj.whole
    /\ script = ActionsFile(replay.demo) /\ ~Refused(script)

KnownActions ==
  IF Len(traj.entries) - Offset <= Len(Recorded) THEN Len(traj.entries) - Offset ELSE Len(Recorded)
Comparable == (replay.demo \/ ~settings.demos) /\ settings.parser # "whole"

Repeats ==
  /\ next \in 1 .. Len(script) + 1
  /\ Len(reran) = IF next - 1 <= KnownActions THEN next - 1 ELSE KnownActions
  /\ \A i \in 1 .. Len(reran) : reran[i] = Recorded[i] /\ reran[i] # Submit

Repeated ==
  LET all == SubSeq(Recorded, 1, KnownActions)
  IN reran = IF Contains(all, Submit) THEN all ELSE Append(all, Submit)

Repeating ==
  Comparable =>
    /\ replay.at = "agent" => Repeats
    /\ replay.at = "done" => Repeated

ReplayInv == ReplayTyped /\ RanInOrder /\ StoryTold /\ StorySaved /\ IsScript /\ Repeating

LEMMA RecordedPlaces ==
  ASSUME ReplayTyped, RanInOrder
  PROVE  /\ Recorded \in Seq(Nat) /\ Len(Recorded) \in Nat
         /\ \A i \in 1 .. Len(Recorded) : \E j \in 1 .. Len(ran) : Recorded[i] = ran[j]
         /\ \A i \in 1 .. Len(Recorded) : Recorded[i] = Submit => i = Len(Recorded)
<1> DEFINE T == {n \in ToSet(ran) : Contains(story, Entries("action", n))}
           r == Recorded
<1>1. ran \in Seq(Nat) /\ Len(ran) \in Nat /\ DOMAIN ran = 1 .. Len(ran)
  BY LenProperties DEF ReplayTyped
<1>2. PICK p : IsPlaces(p, r, ran, Len(ran), T)
  BY <1>1, KeptPlaces DEF Recorded
<1>3. T \subseteq Nat
  BY <1>1, ElementOfSeq DEF ToSet
<1> HIDE DEF T, r
<1>4. /\ r \in Seq(T) /\ p \in [1 .. Len(r) -> 1 .. Len(ran)]
      /\ \A i \in 1 .. Len(r) : r[i] = ran[p[i]]
      /\ \A i, j \in 1 .. Len(r) : i < j => p[i] < p[j]
  BY <1>2 DEF IsPlaces
<1>5. Len(r) \in Nat /\ \A i \in 1 .. Len(r) : r[i] \in Nat
  BY <1>3, <1>4, LenProperties, ElementOfSeq
<1>6. r \in Seq(Nat)
  <2>1. r \in [1 .. Len(r) -> Nat]
    BY <1>4, <1>5, LenProperties
  <2> QED BY <1>5, <2>1, FunctionIsSeq
<1>7. ASSUME NEW i \in 1 .. Len(r), r[i] = Submit PROVE i = Len(r)
  <2> SUFFICES ASSUME i # Len(r) PROVE FALSE
    OBVIOUS
  <2>1. i + 1 \in 1 .. Len(r) /\ i < i + 1
    BY <1>5
  <2>2. p[i] < p[i + 1] /\ p[i] \in 1 .. Len(ran) /\ p[i + 1] \in 1 .. Len(ran)
    BY <1>4, <2>1
  <2>3. ran[p[i]] = p[i] /\ p[i] # 0
    BY <1>1, <2>2 DEF RanInOrder
  <2> QED BY <1>4, <1>7, <2>3 DEF Submit
<1> QED BY <1>4, <1>5, <1>6, <1>7 DEF r

LEMMA SameRecorded ==
  ASSUME ran' = ran, story' = story
  PROVE  Recorded' = Recorded
BY DEF Recorded

LEMMA ShownMore ==
  ASSUME NEW s \in Seq(EntrySet), NEW e \in EntrySet, NEW n \in Nat
  PROVE  Contains(Append(s, e), Entries("action", n)) <=>
           Contains(s, Entries("action", n)) \/ e = Entries("action", n)
<1> DEFINE t == Append(s, e)
<1>1. /\ Len(s) \in Nat /\ Len(t) = Len(s) + 1 /\ t[Len(s) + 1] = e
      /\ \A i \in 1 .. Len(s) : t[i] = s[i]
  BY LenProperties, AppendProperties
<1> HIDE DEF t
<1>2. /\ \A i \in 1 .. Len(t) : i \in 1 .. Len(s) \/ i = Len(s) + 1
      /\ \A i \in 1 .. Len(s) : i \in 1 .. Len(t)
      /\ Len(s) + 1 \in 1 .. Len(t)
  BY <1>1
<1>3. Contains(t, Entries("action", n)) <=> Contains(s, Entries("action", n)) \/ e = Entries("action", n)
  BY <1>1, <1>2 DEF Contains
<1> QED BY <1>3 DEF t

LEMMA RecordedMore ==
  ASSUME ReplayTyped, RanInOrder, StoryTold, stage = "agent", NEW n \in Nat,
         n \in {Len(ran) + 1, Submit}, ran' = Append(ran, n)
  PROVE  /\ story' = Append(story, Entries("action", n)) => Recorded' = Append(Recorded, n)
         /\ story' = story /\ n # Submit => Recorded' = Recorded
<1> DEFINE T == {m \in ToSet(ran) : Contains(story, Entries("action", m))}
           U == {m \in ToSet(ran') : Contains(story', Entries("action", m))}
<1>1. /\ ran \in Seq(Nat) /\ Len(ran) \in Nat /\ DOMAIN ran = 1 .. Len(ran)
      /\ \A i \in 1 .. Len(ran) : ran[i] = i
  BY LenProperties DEF ReplayTyped, RanInOrder, Running
<1>2. /\ ran' \in Seq(Nat) /\ Len(ran') = Len(ran) + 1 /\ ran'[Len(ran) + 1] = n
      /\ \A i \in 1 .. Len(ran) : ran'[i] = ran[i]
  BY <1>1, AppendProperties
<1>3. DOMAIN ran' = 1 .. Len(ran) + 1
  BY <1>2, LenProperties
<1>4. \A i \in 1 .. Len(ran) : ran[i] \in ToSet(ran) /\ ran[i] \in ToSet(ran') /\ ran[i] \in Nat /\ ran[i] # n
  <2> SUFFICES ASSUME NEW i \in 1 .. Len(ran)
               PROVE  ran[i] \in ToSet(ran) /\ ran[i] \in ToSet(ran') /\ ran[i] \in Nat /\ ran[i] # n
    OBVIOUS
  <2>1. i \in DOMAIN ran /\ i \in DOMAIN ran' /\ ran'[i] = ran[i] /\ ran[i] = i /\ i \in Nat
    BY <1>1, <1>2, <1>3
  <2>2. i # n
    BY <1>1 DEF Submit
  <2> QED BY <2>1, <2>2 DEF ToSet
<1>5. n \in ToSet(ran')
  <2>1. Len(ran) + 1 \in DOMAIN ran'
    BY <1>1, <1>3
  <2> QED BY <1>2, <2>1 DEF ToSet
<1>6. Recorded = Filtered(ran, T) /\ Recorded' = Filtered(Append(ran, n), U)
  BY DEF Recorded
<1>7. ASSUME story' = Append(story, Entries("action", n)) PROVE Recorded' = Append(Recorded, n)
  <2>1. Entries("action", n) \in EntrySet /\ story \in Seq(EntrySet)
    BY DEF EntrySet, Entries, ReplayTyped
  <2>2. \A m \in Nat : Contains(story', Entries("action", m)) <=>
                         Contains(story, Entries("action", m)) \/ m = n
    <3>1. \A m \in Nat : Entries("action", m) = Entries("action", n) <=> m = n
      BY DEF Entries
    <3> QED BY <1>7, <2>1, <3>1, ShownMore
  <2>3. \A i \in 1 .. Len(ran) : ran[i] \in U <=> ran[i] \in T
    BY <1>4, <2>2
  <2>4. n \in U
    BY <1>5, <2>2
  <2> HIDE DEF T, U
  <2> QED BY <1>1, <1>6, <2>3, <2>4, FilteredAppend
<1>8. ASSUME story' = story, n # Submit PROVE Recorded' = Recorded
  <2>1. \A i \in 1 .. Len(ran) : ran[i] \in U <=> ran[i] \in T
    BY <1>4, <1>8
  <2>2. n \notin U
    <3> SUFFICES ASSUME Contains(story, Entries("action", n)) PROVE FALSE
      BY <1>8
    <3>1. PICK j \in 1 .. Len(story) : story[j] = Entries("action", n)
      BY DEF Contains
    <3>2. /\ Len(Recorded) \in Nat
          /\ \A i \in 1 .. Len(Recorded) : \E k \in 1 .. Len(ran) : Recorded[i] = ran[k]
      BY RecordedPlaces
    <3>3. /\ Len(story) = Offset + Len(Recorded) /\ Offset \in {0, 1}
          /\ Offset = 1 => story[1] = DemoEntry
          /\ \A i \in 1 .. Len(Recorded) : story[Offset + i] = Entries("action", Recorded[i])
      BY DEF StoryTold, Tells, Offset, Running
    <3>4. CASE j <= Offset
      <4>1. story[j] = DemoEntry
        BY <3>3, <3>4
      <4> QED BY <3>1, <4>1 DEF DemoEntry, Entries
    <3>5. CASE ~(j <= Offset)
      <4>1. j - Offset \in 1 .. Len(Recorded) /\ Offset + (j - Offset) = j
        BY <3>2, <3>3, <3>5
      <4>2. story[j] = Entries("action", Recorded[j - Offset])
        BY <3>3, <4>1
      <4>3. Recorded[j - Offset] = n
        BY <3>1, <4>2 DEF Entries
      <4>4. PICK k \in 1 .. Len(ran) : ran[k] = n
        BY <3>2, <4>1, <4>3
      <4> QED BY <1>4, <4>4
    <3> QED BY <3>4, <3>5
  <2> HIDE DEF T, U
  <2> QED BY <1>1, <1>6, <2>1, <2>2, FilteredAppend
<1> QED BY <1>7, <1>8

\* What the steps of the recorded run keep.
RecordInv == ReplayTyped /\ RanInOrder /\ StoryTold /\ StorySaved

LEMMA SameTold ==
  ASSUME UNCHANGED <<settings, story, ran>>
  PROVE  Recorded' = Recorded /\ Offset' = Offset /\ (Tells(story, Recorded)' <=> Tells(story, Recorded))
<1>1. Recorded' = Recorded /\ Offset' = Offset
  BY SameRecorded DEF Offset
<1> QED BY <1>1 DEF Tells

LEMMA ActionKeepsRecord ==
  ASSUME RecordInv, NEW n \in Nat, n \in {Len(ran) + 1, Submit}, RunsAction(n)
  PROVE  RecordInv'
<1> USE DEF RecordInv, recordVars, replayVars
<1> DEFINE e == Entries("action", n)
<1>1. /\ stage = "agent" /\ ran' = Append(ran, n)
      /\ UNCHANGED <<settings, traj, replay, script, next, reran>>
      /\ \/ /\ story' = Append(story, e)
            /\ stage' = IF n = Submit THEN "last step" ELSE "step"
         \/ n # Submit /\ story' = story /\ stage' = stage
  BY DEF RunsAction
<1>2. e \in EntrySet
  BY DEF EntrySet, Entries
<1> HIDE DEF e
<1>3. /\ ran \in Seq(Nat) /\ Len(ran) \in Nat /\ story \in Seq(EntrySet) /\ Len(story) \in Nat
      /\ \A i \in 1 .. Len(ran) : ran[i] = i
  BY <1>1, LenProperties DEF ReplayTyped, RanInOrder, Running
<1>4. /\ ran' \in Seq(Nat) /\ Len(ran') = Len(ran) + 1 /\ ran'[Len(ran) + 1] = n
      /\ \A i \in 1 .. Len(ran) : ran'[i] = ran[i]
  <2>1. ran' = Append(ran, n) /\ ran \in Seq(Nat)
    BY <1>1, <1>3
  <2> QED BY <2>1, AppendProperties
<1>5. RanInOrder'
  <2>1. \A i \in 1 .. Len(ran') : i < Len(ran') => ran'[i] = i
    BY <1>3, <1>4
  <2>2. \A i \in 1 .. Len(ran') : i = Len(ran') => ran'[i] = n
    BY <1>3, <1>4
  <2>3. \A i \in 1 .. Len(ran') : ran'[i] \in {i, Submit}
    BY <1>3, <1>4, <2>1, <2>2
  <2>4. stage' \in Running => n # Submit
    BY <1>1 DEF Running
  <2>5. stage' \in Running => \A i \in 1 .. Len(ran') : ran'[i] = i
    BY <1>3, <1>4, <2>1, <2>2, <2>4
  <2> QED BY <2>1, <2>3, <2>5 DEF RanInOrder
<1>6. /\ Len(Recorded) \in Nat /\ Recorded \in Seq(Nat) /\ Offset \in {0, 1} /\ Offset' = Offset
      /\ Tells(story, Recorded) /\ Len(story) = Offset + Len(Recorded)
  BY <1>1, RecordedPlaces DEF StoryTold, Offset, Running
<1>7. traj.whole => Len(traj.entries) = Len(story)
  BY <1>1 DEF StorySaved
<1>8. CASE story' = Append(story, e)
  <2>1. /\ story' \in Seq(EntrySet) /\ Len(story') = Len(story) + 1 /\ story'[Len(story) + 1] = e
        /\ \A i \in 1 .. Len(story) : story'[i] = story[i]
    BY <1>2, <1>3, <1>8, AppendProperties
  <2>2. stage' \in {"step", "last step"}
    <3>1. Append(story, e) # story
      BY <1>3, <1>8, <2>1
    <3> QED BY <1>1, <1>8, <3>1
  <2>3. Recorded' = Append(Recorded, n)
    BY <1>1, <1>8, RecordedMore DEF e
  <2>4. /\ Len(Recorded') = Len(Recorded) + 1 /\ Recorded'[Len(Recorded) + 1] = n
        /\ \A i \in 1 .. Len(Recorded) : Recorded'[i] = Recorded[i]
    BY <1>6, <2>3, AppendProperties
  <2>5. Tells(story, Recorded)'
    <3>1. Offset' + Len(Recorded') = Len(story')
      BY <1>3, <1>6, <2>1, <2>4
    <3>2. settings'.demos => story'[1] = DemoEntry
      <4>1. settings.demos => 1 \in 1 .. Len(story) /\ story[1] = DemoEntry
        BY <1>3, <1>6 DEF Tells, Offset
      <4> QED BY <1>1, <2>1, <4>1
    <3>3. ASSUME NEW i \in 1 .. Len(Recorded')
          PROVE  story'[Offset' + i] = Entries("action", Recorded'[i])
      <4>1. CASE i = Len(Recorded) + 1
        <5>1. Offset' + i = Len(story) + 1
          BY <1>6, <4>1
        <5> QED BY <2>1, <2>4, <4>1, <5>1 DEF e
      <4>2. CASE i # Len(Recorded) + 1
        <5>1. i \in 1 .. Len(Recorded) /\ Offset + i \in 1 .. Len(story)
          BY <1>6, <2>4, <4>2
        <5>2. story[Offset + i] = Entries("action", Recorded[i])
          BY <1>6, <5>1 DEF Tells
        <5>3. story'[Offset + i] = story[Offset + i] /\ Recorded'[i] = Recorded[i]
          BY <2>1, <2>4, <5>1
        <5> QED BY <1>6, <5>2, <5>3
      <4> QED BY <4>1, <4>2
    <3>4. Len(story') \in Nat
      BY <1>3, <2>1
    <3> QED BY <3>1, <3>2, <3>3, <3>4 DEF Tells
  <2>0. /\ Len(story') = Offset' + Len(Recorded') /\ Len(story') > Offset'
        /\ Len(story') \in Nat
    BY <1>3, <1>6, <2>1, <2>4
  <2>6. StoryTold'
    BY <2>0, <2>5 DEF StoryTold
  <2>7. StorySaved'
    <3> SUFFICES ASSUME traj.whole PROVE StorySaved'
      BY <1>1 DEF StorySaved
    <3>1. /\ Offset < Len(traj.entries) /\ Len(traj.entries) = Len(story)
          /\ \A i \in 1 .. Len(traj.entries) : traj.entries[i] = story[i]
      BY <1>7 DEF StorySaved
    <3>2. \A i \in 1 .. Len(traj.entries) : traj.entries[i] = story'[i]
      BY <2>1, <3>1
    <3>3. Len(traj.entries) <= Len(story') /\ Len(story') <= Len(traj.entries) + 1
      BY <1>3, <2>1, <3>1
    <3>4. traj' = traj /\ Offset' = Offset
      BY <1>1, <1>6
    <3> QED BY <2>2, <3>1, <3>2, <3>3, <3>4 DEF StorySaved
  <2>8. stage' \in Stages
    BY <2>2 DEF Stages, Running
  <2> QED BY <1>1, <1>4, <1>5, <2>1, <2>6, <2>7, <2>8 DEF ReplayTyped
<1>9. CASE n # Submit /\ story' = story /\ stage' = stage
  <2>1. Recorded' = Recorded
    BY <1>1, <1>9, RecordedMore
  <2>2. StoryTold'
    BY <1>1, <1>6, <1>9, <2>1 DEF StoryTold, Tells
  <2>3. StorySaved'
    BY <1>1, <1>6, <1>9 DEF StorySaved
  <2> QED BY <1>1, <1>4, <1>5, <1>9, <2>2, <2>3 DEF ReplayTyped
<1> QED BY <1>1, <1>8, <1>9

LEMMA FailureKeepsRecord ==
  ASSUME RecordInv, AgentFails
  PROVE  RecordInv'
<1> USE DEF RecordInv, recordVars, replayVars, RunGoes
<1>1. /\ stage = "agent" /\ stage' = "last step" /\ story' = Append(story, ErrorEntry)
      /\ UNCHANGED <<settings, ran, traj, replay, script, next, reran>>
  BY DEF AgentFails
<1>2. ErrorEntry \in EntrySet
  BY DEF EntrySet, Entries, ErrorEntry
<1>3. story \in Seq(EntrySet) /\ Len(story) \in Nat
  BY LenProperties DEF ReplayTyped
<1>4. /\ story' \in Seq(EntrySet) /\ Len(story') = Len(story) + 1
      /\ story'[Len(story) + 1] = ErrorEntry
      /\ \A i \in 1 .. Len(story) : story'[i] = story[i]
  BY <1>1, <1>2, <1>3, AppendProperties
<1>5. /\ Len(Recorded) \in Nat /\ Offset \in {0, 1} /\ Offset' = Offset
      /\ Tells(story, Recorded) /\ Len(story) = Offset + Len(Recorded)
  BY <1>1, RecordedPlaces DEF StoryTold, Offset, Running
<1>6. Recorded' = Recorded
  <2> DEFINE T == {m \in ToSet(ran) : Contains(story, Entries("action", m))}
             U == {m \in ToSet(ran') : Contains(story', Entries("action", m))}
  <2>1. \A m \in Nat : ErrorEntry # Entries("action", m)
    BY DEF ErrorEntry, Entries
  <2>2. \A m \in Nat : Contains(story', Entries("action", m)) <=> Contains(story, Entries("action", m))
    <3> SUFFICES ASSUME NEW m \in Nat
                 PROVE  Contains(story', Entries("action", m)) <=> Contains(story, Entries("action", m))
      OBVIOUS
    <3>1. Contains(Append(story, ErrorEntry), Entries("action", m)) <=>
            Contains(story, Entries("action", m)) \/ ErrorEntry = Entries("action", m)
      BY <1>2, <1>3, ShownMore
    <3> QED BY <1>1, <2>1, <3>1
  <2>3. ToSet(ran) \subseteq Nat /\ ran' = ran
    <3>1. ran \in Seq(Nat) /\ DOMAIN ran = 1 .. Len(ran)
      BY LenProperties DEF ReplayTyped
    <3>2. \A i \in DOMAIN ran : ran[i] \in Nat
      BY <3>1, ElementOfSeq
    <3> QED BY <1>1, <3>2 DEF ToSet
  <2>4. T = U
    BY <2>2, <2>3
  <2> HIDE DEF T, U
  <2>5. Recorded = Filtered(ran, T) /\ Recorded' = Filtered(ran', U)
    BY DEF Recorded, T, U
  <2> QED BY <2>3, <2>4, <2>5
<1>7. Tells(story, Recorded)'
  <2>1. settings.demos => 1 \in 1 .. Len(story) /\ story[1] = DemoEntry
    BY <1>3, <1>5 DEF Tells, Offset
  <2>2. ASSUME NEW i \in 1 .. Len(Recorded)
        PROVE  story'[Offset + i] = Entries("action", Recorded[i])
    <3>1. Offset + i \in 1 .. Len(story)
      BY <1>5
    <3> QED BY <1>4, <1>5, <3>1 DEF Tells
  <2>3. settings' = settings /\ Offset' + Len(Recorded') = Len(story)
    BY <1>1, <1>5, <1>6
  <2>4. story'[Len(story')] = ErrorEntry /\ Len(story') = Offset' + Len(Recorded') + 1
    BY <1>4, <2>3
  <2>5. settings'.demos => story'[1] = DemoEntry
    BY <1>4, <2>1, <2>3
  <2>6. \A i \in 1 .. Len(Recorded') : story'[Offset' + i] = Entries("action", Recorded'[i])
    BY <1>5, <1>6, <2>2
  <2>7. /\ Offset' + Len(Recorded') <= Len(story')
        /\ Len(story') <= Offset' + Len(Recorded') + 1
    BY <1>3, <1>4, <2>3
  <2> QED BY <2>4, <2>5, <2>6, <2>7 DEF Tells
<1>8. StoryTold'
  <2>1. Len(story') > Offset'
    BY <1>3, <1>4, <1>5
  <2>2. stage' \notin Running
    BY <1>1 DEF Running
  <2> QED BY <1>7, <2>1, <2>2 DEF StoryTold
<1>9. StorySaved'
  <2> SUFFICES ASSUME traj.whole PROVE StorySaved'
    BY <1>1 DEF StorySaved
  <2>1. /\ Offset < Len(traj.entries) /\ Len(traj.entries) = Len(story)
        /\ \A i \in 1 .. Len(traj.entries) : traj.entries[i] = story[i]
    BY <1>1 DEF StorySaved
  <2>2. \A i \in 1 .. Len(traj.entries) : traj.entries[i] = story'[i]
    BY <1>4, <2>1
  <2>3. Len(traj.entries) <= Len(story') /\ Len(story') <= Len(traj.entries) + 1
    BY <1>3, <1>4, <2>1
  <2>4. traj' = traj /\ Offset' = Offset /\ stage' = "last step"
    BY <1>1, <1>5
  <2> QED BY <2>1, <2>2, <2>3, <2>4 DEF StorySaved
<1>10. RanInOrder'
  BY <1>1 DEF RanInOrder, Running
<1> QED BY <1>1, <1>4, <1>8, <1>9, <1>10 DEF ReplayTyped, Stages

LEMMA SavingKeepsRecord ==
  ASSUME RecordInv, SavesTrajectory
  PROVE  RecordInv'
<1> USE DEF RecordInv, recordVars, replayVars, RunGoes
<1>1. /\ \/ stage = "step" /\ stage' = "agent"
         \/ stage = "last step" /\ stage' = "completed"
      /\ traj' = [entries |-> story, whole |-> TRUE]
      /\ UNCHANGED <<settings, story, ran, replay, script, next, reran>>
  BY DEF SavesTrajectory
<1>2. Recorded' = Recorded /\ Offset' = Offset /\ Len(story) \in Nat
  BY <1>1, SameRecorded, LenProperties DEF Offset, ReplayTyped
<1>3. StoryTold'
  <2>1. stage \in {"step", "last step"} /\ (stage' \in Running => stage \in Running)
    BY <1>1 DEF Running
  <2>2. Len(story') = Len(story) /\ stage' \notin {"step", "last step"}
    BY <1>1
  <2>3. Tells(story, Recorded)' <=> Tells(story, Recorded)
    BY <1>1, SameTold
  <2> QED BY <1>2, <2>1, <2>2, <2>3 DEF StoryTold
<1>4. StorySaved'
  <2>1. Offset < Len(story)
    BY <1>1 DEF StoryTold
  <2>2. traj'.entries = story' /\ Offset' = Offset /\ Len(story') \in Nat /\ Len(story') > Offset'
    BY <1>1, <1>2, <2>1
  <2>3. /\ Offset' < Len(traj'.entries) /\ Len(traj'.entries) = Len(story')
        /\ Len(traj'.entries) <= Len(story') /\ Len(story') <= Len(traj'.entries) + 1
    <3> DEFINE n == Len(story')
    <3>1. n \in Nat /\ Offset' < n /\ Len(traj'.entries) = n
      BY <1>2, <2>1, <2>2
    <3> HIDE DEF n
    <3>2. n <= n /\ n <= n + 1
      BY <3>1
    <3> QED BY <3>1, <3>2 DEF n
  <2>4. \A i \in 1 .. Len(traj'.entries) : traj'.entries[i] = story'[i]
    BY <2>2
  <2> QED BY <2>3, <2>4 DEF StorySaved
<1>5. RanInOrder'
  BY <1>1 DEF RanInOrder, Running
<1> QED BY <1>1, <1>3, <1>4, <1>5 DEF ReplayTyped, Stages, Running

LEMMA KillKeepsRecord ==
  ASSUME RecordInv, RunKilled
  PROVE  RecordInv'
<1> USE DEF RecordInv, recordVars, replayVars, RunGoes
<1>1. /\ stage' = "killed" /\ traj' \in {traj, [traj EXCEPT !.whole = FALSE]}
      /\ UNCHANGED <<settings, story, ran, replay, script, next, reran>>
  BY DEF RunKilled
<1>2. Recorded' = Recorded /\ Offset' = Offset
  BY <1>1, SameRecorded DEF Offset
<1>3. StoryTold'
  BY <1>1, <1>2 DEF StoryTold, Tells, Running
<1>4. StorySaved'
  <2>1. CASE traj' = traj
    BY <1>1, <1>2, <2>1 DEF StorySaved
  <2>2. CASE traj' = [traj EXCEPT !.whole = FALSE]
    BY <2>2 DEF StorySaved, ReplayTyped
  <2> QED BY <1>1, <2>1, <2>2
<1>5. RanInOrder'
  BY <1>1 DEF RanInOrder, Running
<1> QED BY <1>1, <1>3, <1>4, <1>5 DEF ReplayTyped, Stages, Ended

LEMMA OthersKeepRecord ==
  ASSUME RecordInv,
         \/ EnvironmentStarts \/ SavesPatch \/ OpensPullRequest \/ SavesPredictions
         \/ ClosesEnvironment \/ RunRaises
  PROVE  RecordInv'
<1> USE DEF RecordInv, recordVars, replayVars, RunGoes
<1>1. /\ UNCHANGED <<settings, story, ran, traj, replay, script, next, reran>>
      /\ stage' \in Stages \ {"step", "last step", "killed"}
      /\ stage \notin {"step", "last step", "killed"}
      /\ stage' \in Running => stage \in Running
  BY DEF EnvironmentStarts, SavesPatch, OpensPullRequest, SavesPredictions, ClosesEnvironment,
         RunRaises, Stages, Running, Ended
<1>2. Recorded' = Recorded /\ Offset' = Offset
  BY <1>1, SameRecorded DEF Offset
<1>3. StoryTold'
  BY <1>1, <1>2 DEF StoryTold, Tells
<1>4. StorySaved'
  BY <1>1, <1>2 DEF StorySaved
<1>5. RanInOrder'
  BY <1>1 DEF RanInOrder
<1> QED BY <1>1, <1>3, <1>4, <1>5 DEF ReplayTyped

LEMMA FilteredTail ==
  ASSUME NEW S, NEW s \in Seq(S), NEW T, NEW o \in 0 .. Len(s),
         \A i \in 1 .. o : s[i] \notin T, \A i \in o + 1 .. Len(s) : s[i] \in T
  PROVE  /\ Filtered(s, T) \in Seq(S) /\ Len(Filtered(s, T)) = Len(s) - o
         /\ \A i \in 1 .. Len(s) - o : Filtered(s, T)[i] = s[o + i]
<1> DEFINE Left(k) == IF k <= o THEN 0 ELSE k - o
           IsTail(r, k) == /\ r \in Seq(S) /\ Len(r) = Left(k)
                           /\ \A i \in 1 .. Left(k) : r[i] = s[o + i]
           V == {k \in Nat : k <= Len(s) => IsTail(Kept(s, T)[k], k)}
<1>0. Len(s) \in Nat /\ o \in Nat
  BY KeptSteps
<1>1. 0 \in V
  <2>1. Kept(s, T)[0] = <<>> /\ <<>> \in Seq(S) /\ Len(<<>>) = Left(0)
    BY <1>0, KeptSteps, EmptySeq
  <2>2. \A i \in 1 .. Left(0) : FALSE
    BY <1>0
  <2> HIDE DEF Left
  <2>3. IsTail(<<>>, 0)
    BY <2>1, <2>2, Zenon
  <2>4. IsTail(Kept(s, T)[0], 0)
    BY <2>1, <2>3, Zenon
  <2> QED BY <2>4
<1>2. ASSUME NEW k \in Nat, k \in V PROVE k + 1 \in V
  <2> SUFFICES ASSUME k + 1 <= Len(s) PROVE IsTail(Kept(s, T)[k + 1], k + 1)
    OBVIOUS
  <2> DEFINE old == Kept(s, T)[k]
             new == Kept(s, T)[k + 1]
  <2>1. IsTail(old, k)
    BY <1>0, <1>2
  <2>2. new = IF s[k + 1] \in T THEN Append(old, s[k + 1]) ELSE old
    <3>1. PICK i \in 1 .. Len(s) : i = k + 1 /\ i - 1 = k
      BY <1>0
    <3> QED BY <3>1, KeptSteps
  <2>3. k + 1 \in 1 .. Len(s) /\ s[k + 1] \in S
    BY <1>0, ElementOfSeq
  <2> HIDE DEF old, new
  <2>4. CASE k < o
    <3>1. s[k + 1] \notin T /\ Left(k + 1) = Left(k)
      BY <1>0, <2>4
    <3> QED BY <2>1, <2>2, <3>1 DEF new
  <2>5. CASE ~(k < o)
    <3>1. s[k + 1] \in T /\ Left(k) \in Nat /\ Left(k + 1) = Left(k) + 1 /\ o + (Left(k) + 1) = k + 1
      BY <1>0, <2>3, <2>5
    <3>2. new = Append(old, s[k + 1])
      BY <2>2, <3>1
    <3> HIDE DEF Left
    <3>3. /\ new \in Seq(S) /\ Len(new) = Left(k) + 1 /\ new[Left(k) + 1] = s[k + 1]
          /\ \A i \in 1 .. Left(k) : new[i] = old[i]
      BY <2>1, <2>3, <3>2, AppendProperties
    <3>4. \A i \in 1 .. Left(k) + 1 : new[i] = s[o + i]
      BY <2>1, <3>1, <3>3
    <3> QED BY <3>1, <3>3, <3>4 DEF new
  <2> QED BY <2>4, <2>5
<1> HIDE DEF V
<1>3. Nat \subseteq V
  BY <1>1, <1>2, EveryNumber, Zenon
<1>4. IsTail(Filtered(s, T), Len(s))
  BY <1>0, <1>3 DEF V, Filtered
<1>5. Left(Len(s)) = Len(s) - o
  BY <1>0
<1> QED BY <1>4, <1>5

\* What the replay model issues: the recorded actions, and at most one error.
LEMMA ScriptTold ==
  ASSUME RecordInv, IsScript, Comparable, replay.at \notin {"off", "refused"}
  PROVE  /\ KnownActions \in Nat /\ KnownActions <= Len(Recorded)
         /\ KnownActions <= Len(script) /\ Len(script) <= KnownActions + 1
         /\ \A i \in 1 .. KnownActions : script[i] = Entries("action", Recorded[i])
         /\ KnownActions < Len(script) =>
              script[KnownActions + 1] = ErrorEntry /\ settings.parser = "blocks"
<1> DEFINE e == traj.entries
           m == Len(Recorded)
<1>1. ReplayTyped /\ RanInOrder /\ StoryTold /\ StorySaved /\ traj.whole
  BY DEF RecordInv, IsScript
<1>2. e \in Seq(EntrySet) /\ Len(e) \in Nat /\ m \in Nat /\ Len(story) \in Nat /\ Offset \in {0, 1}
  BY <1>1, RecordedPlaces, LenProperties DEF ReplayTyped, Offset
<1>3. /\ Offset < Len(e) /\ Len(e) <= Len(story) /\ Len(story) <= Len(e) + 1
      /\ \A i \in 1 .. Len(e) : e[i] = story[i]
  BY <1>1 DEF StorySaved
<1>4. /\ Offset + m <= Len(story) /\ Len(story) <= Offset + m + 1
      /\ Offset = 1 => story[1] = DemoEntry
      /\ \A i \in 1 .. m : story[Offset + i] = Entries("action", Recorded[i])
      /\ Offset + m < Len(story) => story[Offset + m + 1] = ErrorEntry
  <2>1. Offset + m < Len(story) /\ Len(story) <= Offset + m + 1 => Len(story) = Offset + m + 1
    BY <1>2
  <2>2. Tells(story, Recorded)
    BY <1>1 DEF StoryTold
  <2>3. Offset + m <= Len(story) /\ Len(story) <= Offset + m + 1
    BY <2>2 DEF Tells
  <2>4. Offset = 1 => story[1] = DemoEntry
    BY <2>2 DEF Tells, Offset
  <2>5. \A i \in 1 .. m : story[Offset + i] = Entries("action", Recorded[i])
    BY <2>2 DEF Tells
  <2>6. Offset + m < Len(story) => story[Len(story)] = ErrorEntry
    BY <2>2 DEF Tells
  <2> QED BY <2>1, <2>3, <2>4, <2>5, <2>6
<1> HIDE DEF e, m
<1>5. /\ KnownActions = IF Len(e) - Offset <= m THEN Len(e) - Offset ELSE m
      /\ KnownActions \in Nat /\ KnownActions <= m
      /\ Len(e) - Offset \in {KnownActions, KnownActions + 1}
  <2>1. KnownActions = IF Len(e) - Offset <= m THEN Len(e) - Offset ELSE m
    BY DEF KnownActions, e, m
  <2> QED BY <1>2, <1>3, <1>4, <2>1
<1>6. /\ \A i \in 1 .. Offset : e[i] = DemoEntry
      /\ \A i \in 1 .. KnownActions : Offset + i \in 1 .. Len(e) /\ e[Offset + i] = Entries("action", Recorded[i])
      /\ KnownActions < Len(e) - Offset => e[Offset + (KnownActions + 1)] = ErrorEntry
  <2>1. \A i \in 1 .. Offset : e[i] = DemoEntry
    BY <1>2, <1>3, <1>4
  <2>2. \A i \in 1 .. KnownActions : Offset + i \in 1 .. Len(e) /\ e[Offset + i] = Entries("action", Recorded[i])
    <3> SUFFICES ASSUME NEW i \in 1 .. KnownActions
                 PROVE  Offset + i \in 1 .. Len(e) /\ e[Offset + i] = Entries("action", Recorded[i])
      OBVIOUS
    <3>1. Offset + i \in 1 .. Len(e) /\ i \in 1 .. m
      BY <1>2, <1>5
    <3> QED BY <1>3, <1>4, <3>1
  <2>3. ASSUME KnownActions < Len(e) - Offset PROVE e[Offset + (KnownActions + 1)] = ErrorEntry
    <3>1. KnownActions = m /\ Offset + m + 1 \in 1 .. Len(e) /\ Offset + m < Len(story)
      BY <1>2, <1>3, <1>5, <2>3
    <3>2. Offset + (KnownActions + 1) = Offset + m + 1
      BY <1>2, <3>1
    <3> QED BY <1>3, <1>4, <3>1, <3>2
  <2> QED BY <2>1, <2>2, <2>3
<1>7. Len(script) = Len(e) - Offset /\ \A i \in 1 .. Len(script) : script[i] = e[Offset + i]
  <2>1. script = IF replay.demo THEN CopiedEntries(e) ELSE e
    BY DEF IsScript, ActionsFile, e
  <2>2. CASE replay.demo
    <3> DEFINE T == {x \in ToSet(e) : x.kind # "demo"}
    <3>1. DOMAIN e = 1 .. Len(e)
      BY <1>2, LenProperties
    <3>2. \A i \in 1 .. Offset : e[i] \notin T
      <4>1. DemoEntry.kind = "demo"
        BY DEF DemoEntry, Entries
      <4> QED BY <1>6, <4>1
    <3>3. ASSUME NEW i \in Offset + 1 .. Len(e) PROVE e[i] \in T
      <4>1. i \in DOMAIN e /\ i - Offset \in 1 .. KnownActions + 1 /\ Offset + (i - Offset) = i
        <5>1. i \in Nat /\ i \in 1 .. Len(e) /\ Offset < i
          BY <1>2
        <5>2. i - Offset \in Nat \ {0} /\ i - Offset <= Len(e) - Offset /\ Offset + (i - Offset) = i
          BY <1>2, <5>1
        <5>3. i - Offset <= KnownActions + 1
          BY <1>2, <1>5, <5>2
        <5> QED BY <1>5, <3>1, <5>1, <5>2, <5>3
      <4>2. e[i].kind # "demo"
        <5>1. CASE i - Offset <= KnownActions
          <6>1. i - Offset \in 1 .. KnownActions
            BY <1>5, <4>1, <5>1
          <6>2. e[i] = Entries("action", Recorded[i - Offset])
            BY <1>6, <4>1, <6>1
          <6> QED BY <6>2 DEF Entries
        <5>2. CASE ~(i - Offset <= KnownActions)
          <6>1. i - Offset = KnownActions + 1 /\ KnownActions < Len(e) - Offset
            BY <1>2, <1>5, <4>1, <5>2
          <6>2. e[i] = ErrorEntry
            BY <1>6, <4>1, <6>1
          <6> QED BY <6>2 DEF ErrorEntry, Entries
        <5> QED BY <5>1, <5>2
      <4> QED BY <4>1, <4>2 DEF ToSet
    <3>4. Offset \in 0 .. Len(e) /\ script = Filtered(e, T)
      BY <1>2, <1>3, <2>1, <2>2 DEF CopiedEntries
    <3> HIDE DEF T
    <3>5. \A i \in Offset + 1 .. Len(e) : e[i] \in T
      BY <3>3
    <3>6. /\ Len(Filtered(e, T)) = Len(e) - Offset
          /\ \A i \in 1 .. Len(e) - Offset : Filtered(e, T)[i] = e[Offset + i]
      BY <1>2, <3>2, <3>4, <3>5, FilteredTail
    <3> QED BY <3>4, <3>6
  <2>3. CASE ~replay.demo
    <3>1. Offset = 0 /\ script = e
      BY <2>1, <2>3 DEF Comparable, Offset
    <3> QED BY <1>2, <3>1
  <2> QED BY <2>2, <2>3
<1>8. /\ KnownActions <= Len(script) /\ Len(script) <= KnownActions + 1 /\ Len(script) \in Nat
      /\ \A i \in 1 .. KnownActions : i \in 1 .. Len(script)
  BY <1>2, <1>5, <1>7
<1>9. ASSUME KnownActions < Len(script)
      PROVE  script[KnownActions + 1] = ErrorEntry /\ settings.parser = "blocks"
  <2>1. KnownActions + 1 \in 1 .. Len(script)
    BY <1>5, <1>8, <1>9
  <2>2. script[KnownActions + 1] = ErrorEntry
    BY <1>6, <1>7, <1>9, <2>1
  <2>3. DOMAIN script = 1 .. Len(script)
    BY <1>1, LenProperties DEF ReplayTyped
  <2>4. settings.parser # "calls"
    BY <2>1, <2>2, <2>3 DEF IsScript, Refused, ErrorEntry, Entries
  <2> QED BY <1>1, <2>2, <2>4 DEF Comparable, ReplayTyped
<1> QED BY <1>5, <1>6, <1>7, <1>8, <1>9 DEF m

LEMMA ReplayBegins ==
  ASSUME ReplayInv, BeginReplay
  PROVE  ReplayInv'
<1> USE DEF ReplayGoes, recordVars
<1>1. PICK demo \in BOOLEAN :
        /\ stage \in {"closed", "raised", "killed"}
        /\ replay' = [at |-> IF Refused(ActionsFile(demo)) THEN "refused" ELSE "agent",
                      demo |-> demo, fails |-> 0]
        /\ script' = ActionsFile(demo) /\ next' = 1 /\ reran' = <<>>
        /\ UNCHANGED <<settings, stage, story, ran, traj>>
  BY DEF BeginReplay
<1>2. RecordInv
  BY DEF RecordInv, ReplayInv
<1>3. script' \in Seq(EntrySet)
  <2>1. traj.entries \in Seq(EntrySet)
    BY <1>2 DEF RecordInv, ReplayTyped
  <2> DEFINE e == traj.entries
             T == {x \in ToSet(e) : x.kind # "demo"}
  <2>2. \A i \in 1 .. Len(e) : e[i] \in EntrySet
    BY <2>1, ElementOfSeq
  <2>3. T \subseteq EntrySet
    BY <2>1, <2>2, LenProperties DEF ToSet
  <2> HIDE DEF T
  <2>4. PICK p : IsPlaces(p, Filtered(e, T), e, Len(e), T)
    BY <2>1, KeptPlaces
  <2>5. Filtered(e, T) \in Seq(EntrySet)
    <3>1. Filtered(e, T) \in Seq(T)
      BY <2>4 DEF IsPlaces
    <3>2. /\ Len(Filtered(e, T)) \in Nat
          /\ Filtered(e, T) \in [1 .. Len(Filtered(e, T)) -> EntrySet]
      BY <2>3, <3>1, LenProperties
    <3> QED BY <3>2, FunctionIsSeq
  <2>6. CopiedEntries(e) \in Seq(EntrySet)
    BY <2>5 DEF CopiedEntries, T
  <2> QED BY <1>1, <2>1, <2>6 DEF ActionsFile
<1>4. RecordInv'
  <2>1. Recorded' = Recorded /\ Offset' = Offset /\ (Tells(story, Recorded)' <=> Tells(story, Recorded))
    BY <1>1, SameTold
  <2>2. StoryTold' /\ StorySaved' /\ RanInOrder'
    BY <1>1, <1>2, <2>1 DEF RecordInv, StoryTold, StorySaved, RanInOrder
  <2>3. reran' \in Seq(Int)
    BY <1>1, EmptySeq
  <2> QED BY <1>1, <1>2, <1>3, <2>2, <2>3 DEF RecordInv, ReplayTyped
<1>5. replay'.at \in {"refused", "agent"} /\ replay'.demo = demo
  BY <1>1
<1>6. IsScript'
  <2> SUFFICES ASSUME replay'.at # "refused" PROVE IsScript'
    BY <1>5 DEF IsScript
  <2>1. ~Refused(script')
    BY <1>1
  <2>2. traj.whole
    BY <2>1 DEF Refused
  <2>3. ~Refused(script)'
    BY <1>1, <2>1 DEF Refused
  <2>4. script' = ActionsFile(replay.demo)'
    BY <1>1, <1>5 DEF ActionsFile
  <2> QED BY <1>1, <2>2, <2>3, <2>4 DEF IsScript, Ended
<1>7. Repeating'
  <2> SUFFICES ASSUME Comparable', replay'.at = "agent" PROVE Repeats'
    BY <1>5 DEF Repeating
  <2>1. /\ KnownActions' \in Nat /\ Len(script') \in Nat
    <3>1. traj.whole
      BY <1>1, <1>5, <1>6 DEF IsScript
    <3>2. Offset < Len(traj.entries) /\ Offset \in Nat /\ Len(traj.entries) \in Nat /\ Len(Recorded) \in Nat
      BY <1>2, <3>1, LenProperties, RecordedPlaces DEF RecordInv, StorySaved, Offset, ReplayTyped
    <3>3. KnownActions' = KnownActions
      BY <1>1, SameTold DEF KnownActions
    <3> QED BY <1>3, <3>2, <3>3, LenProperties DEF KnownActions
  <2>2. 1 \in 1 .. Len(script') + 1
    BY <2>1
  <2>3. Len(reran') = 0
    BY <1>1, EmptySeq
  <2>4. (IF 1 - 1 <= KnownActions' THEN 1 - 1 ELSE KnownActions') = 0 /\ \A i \in 1 .. 0 : FALSE
    BY <2>1
  <2> QED BY <1>1, <2>2, <2>3, <2>4 DEF Repeats
<1> QED BY <1>4, <1>6, <1>7 DEF ReplayInv, RecordInv

\* What a step of the replay's agent keeps of the rest.
LEMMA ReplayGoesOn ==
  ASSUME ReplayInv, replay.at = "agent", UNCHANGED <<recordVars, script>>,
         replay' \in [at : {"agent", "exit", "done"}, demo : {replay.demo}, fails : Nat],
         next' \in Nat \ {0}, reran' \in Seq(Int)
  PROVE  /\ RecordInv' /\ IsScript'
         /\ Recorded' = Recorded /\ KnownActions' = KnownActions /\ (Comparable' <=> Comparable)
<1> USE DEF recordVars
<1>1. /\ Recorded' = Recorded /\ Offset' = Offset
      /\ (Tells(story, Recorded)' <=> Tells(story, Recorded))
  BY SameTold
<1>2. StoryTold' /\ StorySaved' /\ RanInOrder'
  BY <1>1 DEF ReplayInv, StoryTold, StorySaved, RanInOrder
<1>3. replay'.demo = replay.demo
  OBVIOUS
<1>4. IsScript'
  <2>1. ActionsFile(replay.demo)' = ActionsFile(replay.demo)
    BY <1>3 DEF ActionsFile
  <2>2. Refused(script)' <=> Refused(script)
    BY DEF Refused
  <2> QED BY <2>1, <2>2 DEF ReplayInv, IsScript
<1>5. replay' \in [at : {"off", "refused", "agent", "exit", "done"}, demo : BOOLEAN, fails : Nat]
  BY DEF ReplayInv, ReplayTyped
<1>6. ReplayTyped'
  BY <1>5 DEF ReplayInv, ReplayTyped
<1>7. KnownActions' = KnownActions /\ (Comparable' <=> Comparable)
  BY <1>1, <1>3 DEF KnownActions, Comparable
<1> QED BY <1>1, <1>2, <1>4, <1>6, <1>7 DEF RecordInv

\* Where the replay model is.
LEMMA ReplayedNext ==
  ASSUME ReplayInv, replay.at = "agent", Comparable
  PROVE  /\ next <= KnownActions => Replayed = Entries("action", Recorded[next])
         /\ next > KnownActions /\ next <= Len(script) =>
              next = KnownActions + 1 /\ Replayed = ErrorEntry /\ settings.parser = "blocks"
         /\ next > Len(script) => Replayed = Entries("action", Submit)
         /\ KnownActions \in Nat /\ Len(script) \in Nat /\ next \in Nat \ {0} /\ Repeats
         /\ KnownActions <= Len(script) /\ KnownActions <= Len(Recorded)
<1>1. RecordInv /\ IsScript /\ Repeats
  BY DEF ReplayInv, RecordInv, Repeating
<1>2. Len(script) \in Nat /\ next \in Nat \ {0}
  BY <1>1, LenProperties DEF RecordInv, ReplayTyped
<1>3. /\ KnownActions \in Nat /\ KnownActions <= Len(Recorded)
      /\ KnownActions <= Len(script) /\ Len(script) <= KnownActions + 1
      /\ \A i \in 1 .. KnownActions : script[i] = Entries("action", Recorded[i])
      /\ KnownActions < Len(script) =>
           script[KnownActions + 1] = ErrorEntry /\ settings.parser = "blocks"
  BY <1>1, ScriptTold
<1>4. Replayed = IF next <= Len(script) THEN script[next] ELSE Entries("action", Submit)
  BY DEF Replayed, ActionIndex
<1>5. next <= KnownActions => next \in 1 .. KnownActions /\ next <= Len(script)
  BY <1>2, <1>3
<1>6. next > KnownActions /\ next <= Len(script) =>
        next = KnownActions + 1 /\ KnownActions < Len(script)
  BY <1>2, <1>3
<1>7. next > Len(script) => ~(next <= Len(script))
  BY <1>2
<1> QED BY <1>1, <1>2, <1>3, <1>4, <1>5, <1>6, <1>7

LEMMA ReplayAsks ==
  ASSUME ReplayInv, ReplayAgain
  PROVE  ReplayInv'
<1> USE DEF ReplayGoes, recordVars
<1>1. /\ replay.at = "agent" /\ Replayed.kind = "error"
      /\ script' = script /\ next' = next + 1 /\ reran' = reran /\ UNCHANGED recordVars
      /\ replay' \in [at : {"agent", "exit"}, demo : {replay.demo}, fails : Nat]
  <2>1. /\ replay.at = "agent" /\ Replayed.kind = "error"
        /\ script' = script /\ next' = next + 1 /\ reran' = reran /\ UNCHANGED recordVars
        /\ replay' = [replay EXCEPT !.fails = @ + 1,
                                    !.at = IF @ = "agent" /\ replay.fails + 1 = MaxRequeries
                                           THEN "exit" ELSE @]
    BY DEF ReplayAgain
  <2>2. replay \in [at : {"off", "refused", "agent", "exit", "done"}, demo : BOOLEAN, fails : Nat]
    BY DEF ReplayInv, ReplayTyped
  <2>3. PICK a \in {"agent", "exit"}, f \in Nat : replay' = [[replay EXCEPT !.fails = f] EXCEPT !.at = a]
    <3>1. replay.fails + 1 \in Nat
      BY <2>2
    <3>2. CASE replay.fails + 1 = MaxRequeries
      BY <2>1, <3>1, <3>2
    <3>3. CASE replay.fails + 1 # MaxRequeries
      BY <2>1, <3>1, <3>3
    <3> QED BY <3>2, <3>3
  <2>4. replay' \in [at : {"agent", "exit"}, demo : {replay.demo}, fails : Nat]
    BY <2>2, <2>3
  <2> QED BY <2>1, <2>4
<1>2. next' \in Nat \ {0} /\ reran' \in Seq(Int)
  BY <1>1 DEF ReplayInv, ReplayTyped
<1>3. replay' \in [at : {"agent", "exit", "done"}, demo : {replay.demo}, fails : Nat]
  BY <1>1
<1>4. /\ RecordInv' /\ IsScript'
      /\ Recorded' = Recorded /\ KnownActions' = KnownActions /\ (Comparable' <=> Comparable)
  BY <1>1, <1>2, <1>3, ReplayGoesOn
<1>5. Repeating'
  <2> SUFFICES ASSUME Comparable PROVE Repeats'
    BY <1>1, <1>4 DEF Repeating
  <2>1. Entries("action", Recorded[next]).kind = "action" /\ Entries("action", Submit).kind = "action"
    BY DEF Entries
  <2>2. /\ next > KnownActions /\ next <= Len(script) /\ next = KnownActions + 1
        /\ KnownActions \in Nat /\ Len(script) \in Nat /\ next \in Nat \ {0} /\ Repeats
    BY <1>1, <2>1, ReplayedNext
  <2>3. next + 1 \in 1 .. Len(script) + 1 /\ ~((next + 1) - 1 <= KnownActions)
        /\ next - 1 <= KnownActions /\ next - 1 = KnownActions
    BY <2>2
  <2>4. /\ Len(reran) = KnownActions
        /\ \A i \in 1 .. Len(reran) : reran[i] = Recorded[i] /\ reran[i] # Submit
    BY <2>2, <2>3 DEF Repeats
  <2> QED BY <1>1, <1>4, <2>3, <2>4 DEF Repeats
<1> QED BY <1>4, <1>5 DEF ReplayInv, RecordInv

LEMMA ReplayStops ==
  ASSUME ReplayInv, ReplayFails
  PROVE  ReplayInv'
<1> USE DEF ReplayGoes, recordVars
<1>1. /\ replay.at = "agent" /\ replay' = [replay EXCEPT !.at = "exit"]
      /\ script' = script /\ next' = next /\ reran' = reran /\ UNCHANGED recordVars
  BY DEF ReplayFails
<1>2. next' \in Nat \ {0} /\ reran' \in Seq(Int)
  BY <1>1 DEF ReplayInv, ReplayTyped
<1>3. replay' \in [at : {"agent", "exit", "done"}, demo : {replay.demo}, fails : Nat] /\ replay'.at = "exit"
  BY <1>1 DEF ReplayInv, ReplayTyped
<1>4. RecordInv' /\ IsScript'
  BY <1>1, <1>2, <1>3, ReplayGoesOn
<1>5. Repeating'
  BY <1>3 DEF Repeating
<1> QED BY <1>4, <1>5 DEF ReplayInv, RecordInv

LEMMA ReplayActs ==
  ASSUME ReplayInv, ReplayRuns
  PROVE  ReplayInv'
<1> USE DEF ReplayGoes, recordVars
<1> DEFINE action == IF Replayed.kind = "error" THEN Demo ELSE Replayed.n
<1>1. /\ replay.at = "agent" /\ ~(Replayed.kind = "error" /\ settings.parser = "blocks")
      /\ script' = script /\ next' = next + 1 /\ reran' = Append(reran, action)
      /\ UNCHANGED recordVars
      /\ \/ replay' = [replay EXCEPT !.fails = 0, !.at = IF action = Submit THEN "done" ELSE @]
         \/ action # Submit /\ replay' = replay
  BY DEF ReplayRuns
<1>2. action \in Int
  <2>1. script \in Seq(EntrySet) /\ next \in Nat \ {0} /\ Len(script) \in Nat
    BY LenProperties DEF ReplayInv, ReplayTyped
  <2>2. next <= Len(script) => script[next] \in EntrySet
    BY <2>1, ElementOfSeq
  <2>3. Entries("action", Submit) \in EntrySet
    BY DEF Entries, EntrySet, Submit
  <2>4. Replayed \in EntrySet
    BY <2>2, <2>3 DEF Replayed, ActionIndex
  <2> QED BY <2>4 DEF EntrySet, Demo
<1> HIDE DEF action
<1>3. /\ replay' \in [at : {"agent", "exit", "done"}, demo : {replay.demo}, fails : Nat]
      /\ replay'.at = IF action = Submit THEN "done" ELSE "agent"
  <2>1. replay \in [at : {"off", "refused", "agent", "exit", "done"}, demo : BOOLEAN, fails : Nat]
    BY DEF ReplayInv, ReplayTyped
  <2>2. CASE action = Submit
    <3>1. replay' = [[replay EXCEPT !.fails = 0] EXCEPT !.at = "done"]
      BY <1>1, <2>2
    <3> QED BY <2>1, <2>2, <3>1
  <2>3. CASE action # Submit
    <3>1. replay' = [[replay EXCEPT !.fails = 0] EXCEPT !.at = "agent"] \/ replay' = replay
      BY <1>1, <2>3
    <3>2. CASE replay' = [[replay EXCEPT !.fails = 0] EXCEPT !.at = "agent"]
      BY <2>1, <2>3, <3>2
    <3>3. CASE replay' = replay
      <4>1. replay \in [at : {"agent", "exit", "done"}, demo : {replay.demo}, fails : Nat]
        BY <1>1, <2>1
      <4> QED BY <1>1, <2>3, <3>3, <4>1
    <3> QED BY <3>1, <3>2, <3>3
  <2> QED BY <2>2, <2>3
<1>4. reran \in Seq(Int) /\ reran' \in Seq(Int) /\ next' \in Nat \ {0}
  BY <1>1, <1>2, AppendProperties DEF ReplayInv, ReplayTyped
<1>5. /\ RecordInv' /\ IsScript'
      /\ Recorded' = Recorded /\ KnownActions' = KnownActions /\ (Comparable' <=> Comparable)
  BY <1>1, <1>3, <1>4, ReplayGoesOn
<1>6. ASSUME Comparable
      PROVE  /\ action # Submit => Repeats'
             /\ action = Submit => Repeated'
  <2>1. /\ next <= KnownActions => Replayed = Entries("action", Recorded[next])
        /\ next > KnownActions /\ next <= Len(script) =>
             Replayed = ErrorEntry /\ settings.parser = "blocks"
        /\ next > Len(script) => Replayed = Entries("action", Submit)
        /\ KnownActions \in Nat /\ Len(script) \in Nat /\ next \in Nat \ {0} /\ Repeats
        /\ KnownActions <= Len(script) /\ KnownActions <= Len(Recorded)
    BY <1>1, <1>6, ReplayedNext
  <2>2. /\ Recorded \in Seq(Nat) /\ Len(Recorded) \in Nat
        /\ \A i \in 1 .. Len(Recorded) : Recorded[i] = Submit => i = Len(Recorded)
    BY RecordedPlaces DEF ReplayInv
  <2>3. /\ next \in 1 .. Len(script) + 1
        /\ Len(reran) = IF next - 1 <= KnownActions THEN next - 1 ELSE KnownActions
        /\ \A i \in 1 .. Len(reran) : reran[i] = Recorded[i] /\ reran[i] # Submit
    BY <2>1 DEF Repeats
  <2>4. /\ Len(reran') = Len(reran) + 1 /\ reran'[Len(reran) + 1] = action
        /\ \A i \in 1 .. Len(reran) : reran'[i] = reran[i]
    BY <1>1, <1>2, <1>4, AppendProperties
  <2>5. ErrorEntry.kind = "error" /\ \A n : Entries("action", n).kind = "action" /\ Entries("action", n).n = n
    BY DEF ErrorEntry, Entries
  <2>6. /\ next <= KnownActions => action = Recorded[next]
        /\ ~(next <= KnownActions) => next > Len(script) /\ action = Submit
    BY <1>1, <2>1, <2>5 DEF action
  <2> DEFINE all == SubSeq(Recorded, 1, KnownActions)
  <2>7. /\ all \in Seq(Int) /\ Len(all) = KnownActions
        /\ \A i \in 1 .. KnownActions : all[i] = Recorded[i]
    <3>1. \A i \in 1 .. KnownActions : Recorded[i] \in Int
      BY <2>1, <2>2, ElementOfSeq
    <3>2. /\ all \in Seq(Int)
          /\ Len(all) = IF 1 <= KnownActions THEN KnownActions - 1 + 1 ELSE 0
          /\ \A i \in 1 .. KnownActions - 1 + 1 : all[i] = Recorded[1 + i - 1]
      BY <2>1, <3>1, SubSeqProperties
    <3>3. (IF 1 <= KnownActions THEN KnownActions - 1 + 1 ELSE 0) = KnownActions
      BY <2>1
    <3>4. \A i \in 1 .. KnownActions : i \in 1 .. KnownActions - 1 + 1 /\ 1 + i - 1 = i
      BY <2>1
    <3> HIDE DEF all
    <3> QED BY <3>2, <3>3, <3>4
  <2>8. Repeated' <=> reran' = IF Contains(all, Submit) THEN all ELSE Append(all, Submit)
    BY <1>5 DEF Repeated
  <2> HIDE DEF all
  <2>9. CASE next <= KnownActions
    <3>1. /\ next - 1 <= KnownActions /\ Len(reran) = next - 1 /\ Len(reran) + 1 = next
          /\ next \in 1 .. Len(Recorded) /\ next + 1 \in 1 .. Len(script) + 1
      BY <2>1, <2>2, <2>3, <2>9
    <3>2. Len(reran') = next /\ \A i \in 1 .. next : reran'[i] = Recorded[i]
      <4>1. \A i \in 1 .. next : i \in 1 .. Len(reran) \/ i = next
        BY <2>1, <3>1
      <4> QED BY <2>3, <2>4, <2>6, <2>9, <3>1, <4>1
    <3>3. ASSUME action # Submit PROVE Repeats'
      <4>1. (next + 1) - 1 = next
        BY <2>1
      <4>2. \A i \in 1 .. next : reran'[i] # Submit
        <5>1. \A i \in 1 .. next : i \in 1 .. Len(reran) \/ i = next
          BY <2>1, <3>1
        <5> QED BY <2>3, <2>4, <3>1, <3>3, <5>1
      <4>3. next' = next + 1 /\ script' = script
        BY <1>1
      <4> QED BY <1>5, <2>9, <3>1, <3>2, <4>1, <4>2, <4>3 DEF Repeats
    <3>4. ASSUME action = Submit PROVE Repeated'
      <4>1. next = Len(Recorded) /\ next = KnownActions
        BY <2>1, <2>2, <2>6, <2>9, <3>1, <3>4
      <4>2. Contains(all, Submit)
        <5>1. next \in 1 .. Len(all) /\ all[next] = Submit
          BY <2>1, <2>6, <2>7, <2>9, <3>4, <4>1
        <5> QED BY <5>1 DEF Contains
      <4>3. reran' = all
        <5>1. Len(reran') = Len(all) /\ \A i \in 1 .. Len(reran') : reran'[i] = all[i]
          BY <2>7, <3>2, <4>1
        <5> QED BY <1>4, <2>7, <5>1, SeqEqual
      <4> QED BY <2>8, <4>2, <4>3
    <3> QED BY <3>3, <3>4
  <2>10. CASE ~(next <= KnownActions)
    <3>1. action = Submit /\ next > Len(script) /\ Len(reran) = KnownActions
      BY <2>1, <2>3, <2>6, <2>10
    <3>2. reran = all
      <4>1. Len(reran) = Len(all) /\ \A i \in 1 .. Len(reran) : reran[i] = all[i]
        BY <2>3, <2>7, <3>1
      <4> QED BY <1>4, <2>7, <4>1, SeqEqual
    <3>3. ~Contains(all, Submit)
      BY <2>3, <3>2 DEF Contains
    <3> QED BY <1>1, <2>8, <3>1, <3>2, <3>3
  <2> QED BY <2>9, <2>10
<1>7. Repeating'
  <2>1. replay'.at = "agent" => action # Submit
    BY <1>3
  <2>2. replay'.at = "done" => action = Submit
    BY <1>3
  <2> QED BY <1>5, <1>6, <2>1, <2>2 DEF Repeating
<1> QED BY <1>5, <1>7 DEF ReplayInv, RecordInv

LEMMA ReplayInductive == SingleRunSpec => []ReplayInv
<1>1. SingleRunInit => ReplayInv
  <2> SUFFICES ASSUME SingleRunInit PROVE ReplayInv
    OBVIOUS
  <2> USE DEF SingleRunInit
  <2>1. /\ <<>> \in Seq(Nat) /\ <<>> \in Seq(Int) /\ <<>> \in Seq(EntrySet) /\ Len(<<>>) = 0
        /\ \A i \in 1 .. 0 : FALSE
    BY EmptySeq
  <2>2. DemoEntry \in EntrySet
    BY DEF DemoEntry, Entries, EntrySet, Demo
  <2>3. story \in Seq(EntrySet) /\ Len(story) = Offset /\ (settings.demos => story[1] = DemoEntry)
    <3>1. CASE settings.demos
      <4>1. <<DemoEntry>> \in [1 .. 1 -> EntrySet] /\ <<DemoEntry>>[1] = DemoEntry
        BY <2>2
      <4>2. <<DemoEntry>> \in Seq(EntrySet) /\ Len(<<DemoEntry>>) = 1
        BY <4>1, FunctionIsSeq
      <4> QED BY <3>1, <4>1, <4>2 DEF Offset
    <3>2. CASE ~settings.demos
      BY <2>1, <3>2 DEF Offset
    <3> QED BY <3>1, <3>2
  <2>4. ReplayTyped
    BY <2>1, <2>3 DEF ReplayTyped, Stages, Running
  <2>5. RanInOrder
    BY <2>1 DEF RanInOrder
  <2>6. Recorded = <<>>
    BY FilteredEmpty DEF Recorded
  <2>7. StoryTold
    <3>1. Offset \in {0, 1}
      BY DEF Offset
    <3>2. Len(Recorded) = 0
      BY <2>1, <2>6
    <3>3. Tells(story, Recorded)
      BY <2>1, <2>3, <3>1, <3>2 DEF Tells
    <3> QED BY <2>3, <3>1, <3>2, <3>3 DEF StoryTold
  <2>8. StorySaved /\ IsScript /\ Repeating
    BY DEF StorySaved, IsScript, Repeating
  <2> QED BY <2>4, <2>5, <2>7, <2>8 DEF ReplayInv
<1>2. ASSUME ReplayInv, [SingleRunNext]_singleRunVars PROVE ReplayInv'
  <2> DEFINE Records == \/ EnvironmentStarts \/ ActionRuns \/ AgentFails \/ SavesTrajectory
                        \/ SavesPatch \/ OpensPullRequest \/ SavesPredictions
                        \/ ClosesEnvironment \/ RunRaises \/ RunKilled
  <2>1. CASE Records
    <3>1. RecordInv
      BY <1>2 DEF ReplayInv, RecordInv
    <3>2. RecordInv'
      <4>1. CASE ActionRuns
        <5>1. Len(ran) + 1 \in Nat /\ Submit \in Nat
          BY <3>1, LenProperties DEF RecordInv, ReplayTyped, Submit
        <5> QED BY <3>1, <4>1, <5>1, ActionKeepsRecord DEF ActionRuns
      <4> QED BY <2>1, <3>1, <4>1, FailureKeepsRecord, SavingKeepsRecord, KillKeepsRecord,
                 OthersKeepRecord
    <3>3. replayVars' = replayVars /\ stage \notin Ended
      BY <2>1 DEF EnvironmentStarts, ActionRuns, RunsAction, AgentFails, SavesTrajectory, SavesPatch,
                  OpensPullRequest, SavesPredictions, ClosesEnvironment, RunRaises, RunKilled,
                  RunGoes, Ended
    <3>4. replay'.at \in {"off", "refused"}
      BY <1>2, <3>3 DEF ReplayInv, IsScript, replayVars
    <3>5. IsScript' /\ Repeating'
      BY <3>4 DEF IsScript, Repeating
    <3> QED BY <3>2, <3>5 DEF ReplayInv, RecordInv
  <2>2. CASE UNCHANGED singleRunVars
    <3> USE <2>2 DEF singleRunVars, recordVars, replayVars
    <3>1. /\ Recorded' = Recorded /\ Offset' = Offset
          /\ (Tells(story, Recorded)' <=> Tells(story, Recorded))
      BY SameTold
    <3>2. StoryTold' /\ StorySaved' /\ RanInOrder' /\ ReplayTyped'
      <4>1. StoryTold'
        BY <1>2, <3>1 DEF ReplayInv, StoryTold
      <4>2. StorySaved'
        BY <1>2, <3>1 DEF ReplayInv, StorySaved
      <4>3. RanInOrder' /\ ReplayTyped'
        BY <1>2 DEF ReplayInv, RanInOrder, ReplayTyped
      <4> QED BY <4>1, <4>2, <4>3
    <3>3. IsScript'
      <4>1. ActionsFile(replay.demo)' = ActionsFile(replay.demo)
        BY DEF ActionsFile
      <4>2. Refused(script)' <=> Refused(script)
        BY DEF Refused
      <4> QED BY <1>2, <4>1, <4>2 DEF ReplayInv, IsScript
    <3>4. Repeating'
      <4>1. KnownActions' = KnownActions /\ (Comparable' <=> Comparable)
        BY <3>1 DEF KnownActions, Comparable
      <4> QED BY <1>2, <3>1, <4>1 DEF ReplayInv, Repeating, Repeats, Repeated
    <3> QED BY <3>2, <3>3, <3>4 DEF ReplayInv
  <2>3. CASE BeginReplay
    BY <1>2, <2>3, ReplayBegins
  <2>4. CASE ReplayAgain
    BY <1>2, <2>4, ReplayAsks
  <2>5. CASE ReplayRuns
    BY <1>2, <2>5, ReplayActs
  <2>6. CASE ReplayFails
    BY <1>2, <2>6, ReplayStops
  <2> QED BY <1>2, <2>1, <2>2, <2>3, <2>4, <2>5, <2>6 DEF SingleRunNext
<1> QED BY <1>1, <1>2, PTL DEF SingleRunSpec

\* A replay that comes to its end has executed what the run had executed and recorded
\* up to its last saved step, in that order and nothing else, and then submits; this
\* holds for any number of actions and of requeries (RunReplay, ReplayModel.query).
THEOREM ReplaysRepeat == SingleRunSpec => []ReplayRepeats
<1>1. ASSUME ReplayInv PROVE ReplayRepeats
  <2> SUFFICES ASSUME replay.at = "done", Comparable PROVE ReplayRepeats
    BY DEF ReplayRepeats, Comparable
  <2> DEFINE e == traj.entries
             known == Cardinality({i \in DOMAIN e : e[i].kind = "action"})
  <2>1. RecordInv /\ IsScript /\ Repeated
    BY <1>1 DEF ReplayInv, RecordInv, Repeating
  <2>2. /\ e \in Seq(EntrySet) /\ Len(e) \in Nat /\ DOMAIN e = 1 .. Len(e) /\ Len(story) \in Nat
        /\ Len(Recorded) \in Nat /\ Offset \in {0, 1}
    BY <2>1, RecordedPlaces, LenProperties DEF RecordInv, ReplayTyped, Offset
  <2>3. /\ Offset < Len(e) /\ Len(e) <= Len(story) /\ Len(story) <= Len(e) + 1
        /\ \A i \in 1 .. Len(e) : e[i] = story[i]
    BY <2>1 DEF IsScript, RecordInv, StorySaved
  <2>4. /\ Offset + Len(Recorded) <= Len(story) /\ Len(story) <= Offset + Len(Recorded) + 1
        /\ \A i \in 1 .. Offset : story[i] = DemoEntry
        /\ \A i \in 1 .. Len(Recorded) : story[Offset + i] = Entries("action", Recorded[i])
        /\ Offset + Len(Recorded) < Len(story) => story[Len(story)] = ErrorEntry
    <3>1. Tells(story, Recorded)
      BY <2>1 DEF RecordInv, StoryTold
    <3>2. Offset + Len(Recorded) <= Len(story) /\ Len(story) <= Offset + Len(Recorded) + 1
      BY <3>1 DEF Tells
    <3>3. Offset = 1 => story[1] = DemoEntry
      BY <3>1 DEF Tells, Offset
    <3>4. \A i \in 1 .. Offset : story[i] = DemoEntry
      BY <2>2, <3>3
    <3>5. \A i \in 1 .. Len(Recorded) : story[Offset + i] = Entries("action", Recorded[i])
      BY <3>1 DEF Tells
    <3>6. Offset + Len(Recorded) < Len(story) => story[Len(story)] = ErrorEntry
      BY <3>1 DEF Tells
    <3> QED BY <3>2, <3>4, <3>5, <3>6
  <2> DEFINE n == Len(e)
             m == Len(Recorded)
             o == Offset
             k == KnownActions
  <2> HIDE DEF e, n, m, o, k
  <2>5. /\ n \in Nat /\ m \in Nat /\ o \in Nat /\ k \in Nat
        /\ o < n /\ k \in {m, n - o} /\ k <= m /\ k <= n - o /\ n <= o + m + 1 /\ o + m <= n + 1
    <3>1. k = IF n - o <= m THEN n - o ELSE m
      BY DEF KnownActions, e, n, m, o, k
    <3>2. /\ n \in Nat /\ m \in Nat /\ o \in Nat /\ Len(story) \in Nat
          /\ o < n /\ n <= Len(story) /\ Len(story) <= n + 1
          /\ o + m <= Len(story) /\ Len(story) <= o + m + 1
      BY <2>2, <2>3, <2>4 DEF n, m, o
    <3> QED BY <3>1, <3>2
  <2>6. ErrorEntry.kind = "error" /\ DemoEntry.kind = "demo" /\ \A x : Entries("action", x).kind = "action"
    BY DEF ErrorEntry, DemoEntry, Entries
  <2>7. {i \in DOMAIN e : e[i].kind = "action"} = o + 1 .. o + k
    <3>1. ASSUME NEW i \in DOMAIN e, e[i].kind = "action" PROVE i \in o + 1 .. o + k
      <4>1. i \in 1 .. n /\ e[i] = story[i]
        BY <2>2, <2>3 DEF n
      <4>2. o < i
        <5> SUFFICES ASSUME i <= o PROVE FALSE
          BY <2>5, <4>1
        <5>1. i \in 1 .. Offset
          BY <2>5, <4>1 DEF o
        <5>2. e[i] = DemoEntry
          BY <2>4, <4>1, <5>1
        <5> QED BY <2>6, <3>1, <5>2
      <4>3. i <= o + k
        <5> SUFFICES ASSUME ~(i <= o + k) PROVE FALSE
          OBVIOUS
        <5>1. i = n /\ k = m /\ n = o + m + 1
          BY <2>5, <4>1
        <5>2. Len(story) = Offset + Len(Recorded) + 1
          BY <2>2, <2>3, <2>4, <5>1 DEF n, m, o
        <5>3. story[Len(story)] = ErrorEntry
          BY <2>2, <2>4, <5>2
        <5>4. i = Len(story)
          BY <5>1, <5>2 DEF m, o
        <5> QED BY <2>6, <3>1, <4>1, <5>3, <5>4
      <4> QED BY <2>5, <4>1, <4>2, <4>3
    <3>2. ASSUME NEW i \in o + 1 .. o + k PROVE i \in DOMAIN e /\ e[i].kind = "action"
      <4>1. i \in 1 .. n /\ i - o \in 1 .. m /\ o + (i - o) = i
        BY <2>5
      <4>2. e[i] = Entries("action", Recorded[i - o])
        BY <2>3, <2>4, <4>1 DEF n, m, o
      <4> QED BY <2>2, <2>6, <4>1, <4>2 DEF n
    <3> QED BY <3>1, <3>2
  <2>8. known = k /\ known >= m - 1
    <3>1. Cardinality(o + 1 .. o + k) = IF o + 1 > o + k THEN 0 ELSE o + k - (o + 1) + 1
      BY <2>5, FS_Interval
    <3>2. (IF o + 1 > o + k THEN 0 ELSE o + k - (o + 1) + 1) = k
      BY <2>5
    <3>3. known = k
      BY <2>7, <3>1, <3>2
    <3> QED BY <2>5, <3>3
  <2> QED BY <2>1, <2>8 DEF ReplayRepeats, Repeated, e, m, k
<1> QED BY <1>1, ReplayInductive, PTL
-----------------------------------------------------------------------------
(* Parsing: the last block of a discussion *)

Counted(m, K, a, b) == Cardinality({i \in a .. b : m[i] \in K})
Named == Fences \ {"bare"}
\* How many more blocks are opened than closed from line a to line b.
Depth(m, a, b) == Counted(m, Named, a, b) - Counted(m, {"bare"}, a, b)

LEMMA CountedStep ==
  ASSUME NEW m, NEW K, NEW a \in Nat, NEW b \in Nat, a <= b + 1
  PROVE  /\ Counted(m, K, a, b) \in Nat
         /\ Counted(m, K, a, b + 1) = Counted(m, K, a, b) + IF m[b + 1] \in K THEN 1 ELSE 0
         /\ a = b + 1 => Counted(m, K, a, b) = 0
<1> DEFINE old == {i \in a .. b : m[i] \in K}
           new == {i \in a .. b + 1 : m[i] \in K}
<1>1. IsFiniteSet(old)
  <2>1. IsFiniteSet(a .. b) /\ old \in SUBSET (a .. b)
    BY FS_Interval
  <2> QED BY <2>1, FS_Subset
<1>2. Cardinality(old) \in Nat
  BY <1>1, FS_CardinalityType
<1>3. new = IF m[b + 1] \in K THEN old \cup {b + 1} ELSE old
  <2>1. a .. b + 1 = (a .. b) \cup {b + 1}
    OBVIOUS
  <2> QED BY <2>1
<1>4. b + 1 \notin old
  OBVIOUS
<1>5. a = b + 1 => old = {}
  OBVIOUS
<1> HIDE DEF old, new
<1>6. Cardinality(new) = Cardinality(old) + IF m[b + 1] \in K THEN 1 ELSE 0
  BY <1>1, <1>2, <1>3, <1>4, FS_AddElement
<1> QED BY <1>2, <1>5, <1>6, FS_EmptySet DEF Counted, old, new

LEMMA DepthStep ==
  ASSUME NEW m, NEW a \in Nat, NEW b \in Nat, a <= b + 1
  PROVE  /\ Depth(m, a, b) \in Int
         /\ m[b + 1] = "bare" => Depth(m, a, b + 1) = Depth(m, a, b) - 1
         /\ m[b + 1] \in Named => Depth(m, a, b + 1) = Depth(m, a, b) + 1
         /\ m[b + 1] \notin Fences => Depth(m, a, b + 1) = Depth(m, a, b)
         /\ a = b + 1 => Depth(m, a, b) = 0
<1>1. /\ Counted(m, Named, a, b) \in Nat
      /\ Counted(m, Named, a, b + 1) = Counted(m, Named, a, b) + IF m[b + 1] \in Named THEN 1 ELSE 0
      /\ a = b + 1 => Counted(m, Named, a, b) = 0
  BY CountedStep
<1>2. /\ Counted(m, {"bare"}, a, b) \in Nat
      /\ Counted(m, {"bare"}, a, b + 1) =
           Counted(m, {"bare"}, a, b) + IF m[b + 1] \in {"bare"} THEN 1 ELSE 0
      /\ a = b + 1 => Counted(m, {"bare"}, a, b) = 0
  BY CountedStep
<1>3. /\ m[b + 1] = "bare" => m[b + 1] \notin Named
      /\ m[b + 1] \in Named => m[b + 1] \notin {"bare"}
      /\ m[b + 1] \notin Fences => m[b + 1] \notin Named /\ m[b + 1] \notin {"bare"}
  BY DEF Named, Fences
<1> QED BY <1>1, <1>2, <1>3 DEF Depth

\* The fence at a opens a block that ends at b, by line z, or is open at line k with
\* d blocks in it.
Block(m, a, b) ==
  /\ m[a] \in Fences /\ m[b] = "bare" /\ Depth(m, a + 1, b - 1) = 0
  /\ \A c \in a + 1 .. b - 1 : Depth(m, a + 1, c) >= 0
Closes(m, a, z) == \E b \in a + 1 .. z : Block(m, a, b)
OpenAt(m, a, k, d) ==
  /\ m[a] \in Fences /\ Depth(m, a + 1, k) = d
  /\ \A c \in a + 1 .. k : Depth(m, a + 1, c) >= 0
FirstFence(m, a, i) == m[i] \in Fences /\ \A j \in a .. i - 1 : m[j] \notin Fences

\* Line k + 1 of an open block.
LEMMA OpenStep ==
  ASSUME NEW m, NEW k \in Nat, NEW a \in 1 .. k, NEW d \in Nat, OpenAt(m, a, k, d)
  PROVE  /\ m[k + 1] \notin Fences => OpenAt(m, a, k + 1, d)
         /\ m[k + 1] \in Named => OpenAt(m, a, k + 1, d + 1)
         /\ m[k + 1] = "bare" /\ d > 0 => OpenAt(m, a, k + 1, d - 1)
         /\ m[k + 1] = "bare" /\ d = 0 => Block(m, a, k + 1)
<1>1. /\ Depth(m, a + 1, k) = d
      /\ m[k + 1] = "bare" => Depth(m, a + 1, k + 1) = d - 1
      /\ m[k + 1] \in Named => Depth(m, a + 1, k + 1) = d + 1
      /\ m[k + 1] \notin Fences => Depth(m, a + 1, k + 1) = d
  <2>1. a + 1 \in Nat /\ a + 1 <= k + 1
    OBVIOUS
  <2> QED BY <2>1, DepthStep DEF OpenAt
<1>2. \A c \in a + 1 .. k + 1 : c \in a + 1 .. k \/ c = k + 1
  OBVIOUS
<1>3. (k + 1) - 1 = k
  OBVIOUS
<1> QED BY <1>1, <1>2, <1>3 DEF OpenAt, Block

LEMMA OpensStep ==
  ASSUME NEW m, NEW k \in Nat, m[k] \in Fences
  PROVE  OpenAt(m, k, k, 0)
BY DepthStep DEF OpenAt

\* A block that is open at the end is never closed.
LEMMA OpenStays ==
  ASSUME NEW m, NEW k \in Nat, NEW a \in 1 .. k, NEW d, OpenAt(m, a, k, d)
  PROVE  ~Closes(m, a, k)
<1> SUFFICES ASSUME NEW b \in a + 1 .. k, Block(m, a, b) PROVE FALSE
  BY DEF Closes
<1>1. PICK c \in Nat : c = b - 1 /\ c + 1 = b /\ a + 1 <= c + 1
  OBVIOUS
<1>2. Depth(m, a + 1, c) = 0 /\ m[c + 1] = "bare"
  BY <1>1 DEF Block
<1>3. Depth(m, a + 1, b) = -1
  BY <1>1, <1>2, DepthStep
<1> QED BY <1>3 DEF OpenAt

\* What is known of a discussion after its first k lines.
FencesSound(m, s, k) ==
  LET open == Len(s.stack)
  IN /\ \A d \in 1 .. open : s.stack[d] <= k /\ OpenAt(m, s.stack[d], k, open - d)
     /\ open = 0 => \A i \in 1 .. k : FirstFence(m, 1, i) => Closes(m, i, k)
     /\ open > 0 => \A i \in 1 .. s.stack[1] - 1 :
                      FirstFence(m, 1, i) => Closes(m, i, s.stack[1] - 1)
     /\ s.last # <<>> =>
          LET a == s.last[1]
              b == s.last[2]
          IN /\ a < b /\ b <= k /\ Block(m, a, b)
             /\ \A i \in 1 .. a - 1 : FirstFence(m, 1, i) => Closes(m, i, a - 1)
             /\ open > 0 => b < s.stack[1]
             /\ \A i \in b + 1 .. k : FirstFence(m, b + 1, i) => open > 0 /\ s.stack[1] = i

FenceStates(n) == [stack : Seq(1 .. n), last : {<<>>} \cup (1 .. n) \X (1 .. n)]

\* Each line keeps it.
LEMMA FenceKeeps ==
  ASSUME NEW m, NEW n \in Nat, NEW s \in FenceStates(n), NEW k \in Nat, k < n,
         FencesSound(m, s, k)
  PROVE  FencesSound(m, Fence(m, s, k + 1), k + 1) /\ Fence(m, s, k + 1) \in FenceStates(n)
<1> DEFINE open == Len(s.stack)
           t == Fence(m, s, k + 1)
           p == s.stack[1]
<1>1. /\ s.stack \in Seq(1 .. n) /\ s.last \in {<<>>} \cup (1 .. n) \X (1 .. n) /\ open \in Nat
      /\ (s.stack = <<>> <=> open = 0)
      /\ \A d \in 1 .. open : s.stack[d] \in 1 .. n
  BY LenProperties, EmptySeq, ElementOfSeq DEF FenceStates
<1>2. k + 1 \in 1 .. n /\ (k + 1) - 1 = k
  OBVIOUS
<1>3. /\ \A d \in 1 .. open : s.stack[d] \in 1 .. k /\ OpenAt(m, s.stack[d], k, open - d)
      /\ open = 0 => \A i \in 1 .. k : FirstFence(m, 1, i) => Closes(m, i, k)
      /\ open > 0 => \A i \in 1 .. p - 1 : FirstFence(m, 1, i) => Closes(m, i, p - 1)
  BY <1>1 DEF FencesSound
<1>4. ASSUME s.last # <<>>
      PROVE  LET a == s.last[1]
                 b == s.last[2]
             IN /\ a \in 1 .. n /\ b \in 1 .. n /\ a < b /\ b <= k /\ Block(m, a, b)
                /\ \A i \in 1 .. a - 1 : FirstFence(m, 1, i) => Closes(m, i, a - 1)
                /\ open > 0 => b < p
                /\ \A i \in b + 1 .. k : FirstFence(m, b + 1, i) => open > 0 /\ p = i
  BY <1>1, <1>4 DEF FencesSound
<1>5. open > 0 => p \in 1 .. k /\ m[p] \in Fences
  BY <1>1, <1>3 DEF OpenAt
\* While a block stays open, the first fence after an earlier block is its first line.
<1>6. ASSUME s.last # <<>>, open > 0,
             NEW i \in s.last[2] + 1 .. k + 1, FirstFence(m, s.last[2] + 1, i)
      PROVE  p = i
  <2>1. i <= p
    <3> SUFFICES ASSUME ~(i <= p) PROVE FALSE
      OBVIOUS
    <3>1. p \in s.last[2] + 1 .. i - 1
      BY <1>4, <1>5, <1>6
    <3> QED BY <1>5, <1>6, <3>1 DEF FirstFence
  <2>2. i \in s.last[2] + 1 .. k
    BY <1>4, <1>5, <1>6, <2>1
  <2> QED BY <1>4, <1>6, <2>2
<1>7. CASE m[k + 1] \notin Fences
  <2>1. t = s
    BY <1>7 DEF Fence, Fences
  <2>2. \A d \in 1 .. open : s.stack[d] <= k + 1 /\ OpenAt(m, s.stack[d], k + 1, open - d)
    <3> TAKE d \in 1 .. open
    <3>1. s.stack[d] \in 1 .. k /\ OpenAt(m, s.stack[d], k, open - d) /\ open - d \in Nat
      BY <1>1, <1>3
    <3>2. OpenAt(m, s.stack[d], k + 1, open - d)
      BY <1>7, <3>1, OpenStep
    <3> QED BY <3>1, <3>2
  <2>3. ASSUME open = 0, NEW i \in 1 .. k + 1, FirstFence(m, 1, i) PROVE Closes(m, i, k + 1)
    <3>1. i \in 1 .. k
      BY <1>7, <2>3 DEF FirstFence
    <3>2. PICK b \in i + 1 .. k : Block(m, i, b)
      BY <1>3, <2>3, <3>1 DEF Closes
    <3> QED BY <3>2 DEF Closes
  <2>4. ASSUME s.last # <<>>, NEW i \in s.last[2] + 1 .. k + 1, FirstFence(m, s.last[2] + 1, i)
        PROVE  open > 0 /\ p = i
    <3>1. i \in s.last[2] + 1 .. k
      BY <1>4, <1>7, <2>4 DEF FirstFence
    <3> QED BY <1>4, <2>4, <3>1
  <2>5. s.last # <<>> => s.last[2] <= k + 1
    BY <1>4
  <2>6. FencesSound(m, s, k + 1)
    BY <1>3, <1>4, <2>2, <2>3, <2>4, <2>5 DEF FencesSound
  <2> QED BY <2>1, <2>6
<1>8. CASE m[k + 1] \in Fences /\ ~(m[k + 1] = "bare" /\ s.stack # <<>>)
  <2>1. t = [s EXCEPT !.stack = Append(s.stack, k + 1)]
    BY <1>8 DEF Fence
  <2>2. t.stack = Append(s.stack, k + 1) /\ t.last = s.last /\ t \in FenceStates(n)
    <3>1. Append(s.stack, k + 1) \in Seq(1 .. n)
      BY <1>1, <1>2, AppendProperties
    <3> QED BY <1>1, <2>1, <3>1 DEF FenceStates
  <2>3. /\ Len(t.stack) = open + 1 /\ t.stack[open + 1] = k + 1
        /\ \A d \in 1 .. open : t.stack[d] = s.stack[d]
    <3> DEFINE u == Append(s.stack, k + 1)
    <3>1. Len(u) = open + 1 /\ u[open + 1] = k + 1 /\ \A d \in 1 .. open : u[d] = s.stack[d]
      BY <1>1, <1>2, AppendProperties
    <3>2. t.stack = u
      BY <2>2
    <3> HIDE DEF u, t
    <3> QED BY <3>1, <3>2
  <2>4. t.stack[1] = IF open = 0 THEN k + 1 ELSE p
    <3>1. open = 0 => open + 1 = 1
      OBVIOUS
    <3>2. open # 0 => 1 \in 1 .. open
      BY <1>1
    <3> QED BY <2>3, <3>1, <3>2
  <2>5. ASSUME NEW d \in 1 .. open + 1
        PROVE  t.stack[d] <= k + 1 /\ OpenAt(m, t.stack[d], k + 1, open + 1 - d)
    <3>1. CASE d = open + 1
      <4>1. OpenAt(m, k + 1, k + 1, 0)
        BY <1>8, OpensStep
      <4>2. open + 1 - d = 0
        BY <1>1, <3>1
      <4> QED BY <2>3, <3>1, <4>1, <4>2
    <3>2. CASE d # open + 1
      <4>1. d \in 1 .. open /\ open - d \in Nat /\ (open - d) + 1 = open + 1 - d
        BY <1>1, <2>5, <3>2
      <4>2. s.stack[d] \in 1 .. k /\ OpenAt(m, s.stack[d], k, open - d) /\ t.stack[d] = s.stack[d]
        BY <1>3, <2>3, <4>1
      <4>3. m[k + 1] \in Named
        BY <1>1, <1>8, <4>1 DEF Named
      <4>4. OpenAt(m, s.stack[d], k + 1, (open - d) + 1)
        BY <4>1, <4>2, <4>3, OpenStep
      <4> QED BY <4>1, <4>2, <4>4
    <3> QED BY <3>1, <3>2
  <2>6. \A i \in 1 .. t.stack[1] - 1 : FirstFence(m, 1, i) => Closes(m, i, t.stack[1] - 1)
    BY <1>1, <1>2, <1>3, <2>4
  <2>7. ASSUME s.last # <<>>
        PROVE  /\ s.last[2] < t.stack[1] /\ s.last[2] <= k + 1
               /\ \A i \in s.last[2] + 1 .. k + 1 :
                    FirstFence(m, s.last[2] + 1, i) => t.stack[1] = i
    <3>1. s.last[2] <= k /\ s.last[2] \in Nat
      BY <1>4, <2>7
    <3>2. s.last[2] < t.stack[1]
      BY <1>1, <1>4, <2>4, <2>7, <3>1
    <3>3. ASSUME NEW i \in s.last[2] + 1 .. k + 1, FirstFence(m, s.last[2] + 1, i)
          PROVE  t.stack[1] = i
      <4>1. CASE open = 0
        <5>1. i \notin s.last[2] + 1 .. k
          BY <1>4, <2>7, <3>3, <4>1
        <5> QED BY <2>4, <3>1, <4>1, <5>1
      <4>2. CASE open # 0
        BY <1>1, <1>6, <2>4, <2>7, <3>3, <4>2
      <4> QED BY <4>1, <4>2
    <3> QED BY <3>1, <3>2, <3>3
  <2>8. open + 1 > 0 /\ open + 1 # 0
    BY <1>1
  <2> HIDE DEF t
  <2>9. FencesSound(m, t, k + 1)
    BY <1>4, <2>2, <2>3, <2>5, <2>6, <2>7, <2>8 DEF FencesSound
  <2> QED BY <2>2, <2>9 DEF t
<1>9. CASE m[k + 1] = "bare" /\ s.stack # <<>>
  <2>0. open \in Nat /\ open > 0 /\ open - 1 \in Nat /\ open \in 1 .. open /\ 1 \in 1 .. open
    BY <1>1, <1>9
  <2>1. t = [stack |-> Front(s.stack),
             last |-> IF open = 1 THEN <<Head(s.stack), k + 1>> ELSE s.last]
    BY <1>9 DEF Fence
  <2>2. /\ t.stack \in Seq(1 .. n) /\ Len(t.stack) = open - 1
        /\ \A d \in 1 .. open - 1 : t.stack[d] = s.stack[d]
    <3> DEFINE u == SubSeq(s.stack, 1, open - 1)
    <3>1. \A i \in 1 .. open - 1 : s.stack[i] \in 1 .. n
      BY <1>1
    <3>2. /\ u \in Seq(1 .. n)
          /\ Len(u) = IF 1 <= open - 1 THEN open - 1 - 1 + 1 ELSE 0
          /\ \A i \in 1 .. open - 1 - 1 + 1 : u[i] = s.stack[1 + i - 1]
      BY <2>0, <3>1, SubSeqProperties
    <3>3. t.stack = u
      BY <2>1 DEF Front
    <3> HIDE DEF u, t
    <3> QED BY <2>0, <3>2, <3>3
  <2>3. p = Head(s.stack) /\ p \in 1 .. k /\ p \in 1 .. n
    BY <1>1, <1>3, <2>0
  <2>4. t.last = IF open = 1 THEN <<p, k + 1>> ELSE s.last
    BY <2>1, <2>3
  <2>5. t \in FenceStates(n)
    <3>1. t.last \in {<<>>} \cup (1 .. n) \X (1 .. n)
      BY <1>1, <1>2, <2>3, <2>4
    <3> QED BY <2>1, <2>2, <3>1 DEF FenceStates
  <2> HIDE DEF t
  <2>6. ASSUME NEW d \in 1 .. open - 1
        PROVE  t.stack[d] <= k + 1 /\ OpenAt(m, t.stack[d], k + 1, (open - 1) - d)
    <3>1. d \in 1 .. open /\ open - d \in Nat /\ open - d > 0 /\ (open - d) - 1 = (open - 1) - d
      BY <2>0, <2>6
    <3>2. s.stack[d] \in 1 .. k /\ OpenAt(m, s.stack[d], k, open - d) /\ t.stack[d] = s.stack[d]
      BY <1>3, <2>2, <2>6, <3>1
    <3>3. OpenAt(m, s.stack[d], k + 1, (open - d) - 1)
      BY <1>9, <3>1, <3>2, OpenStep
    <3> QED BY <3>1, <3>2, <3>3
  <2>7. CASE open = 1
    <3>1. Block(m, p, k + 1)
      <4>1. OpenAt(m, p, k, 0)
        BY <1>3, <2>0, <2>7
      <4> QED BY <1>9, <2>3, <4>1, OpenStep
    <3>2. Closes(m, p, k + 1)
      <4>1. k + 1 \in p + 1 .. k + 1
        BY <2>3
      <4> QED BY <3>1, <4>1 DEF Closes
    <3>3. ASSUME NEW i \in 1 .. k + 1, FirstFence(m, 1, i) PROVE Closes(m, i, k + 1)
      <4>1. i <= p
        <5> SUFFICES ASSUME ~(i <= p) PROVE FALSE
          OBVIOUS
        <5>1. p \in 1 .. i - 1
          BY <2>3
        <5> QED BY <1>5, <2>0, <3>3, <5>1 DEF FirstFence
      <4>2. CASE i = p
        BY <3>2, <4>2
      <4>3. CASE i # p
        <5>1. i \in 1 .. p - 1
          BY <2>3, <4>1, <4>3
        <5>2. PICK b \in i + 1 .. p - 1 : Block(m, i, b)
          BY <1>3, <2>0, <3>3, <5>1 DEF Closes
        <5>3. b \in i + 1 .. k + 1
          BY <2>3, <5>2
        <5> QED BY <5>2, <5>3 DEF Closes
      <4> QED BY <4>2, <4>3
    <3>4. t.last[1] = p /\ t.last[2] = k + 1 /\ Len(t.stack) = 0
      BY <2>2, <2>4, <2>7
    <3>5. p < k + 1 /\ k + 1 <= k + 1
      BY <2>3
    <3>6. \A i \in 1 .. p - 1 : FirstFence(m, 1, i) => Closes(m, i, p - 1)
      BY <1>3, <2>0
    <3>7. \A i \in (k + 1) + 1 .. k + 1 : FALSE
      OBVIOUS
    <3>8. FencesSound(m, t, k + 1)
      BY <3>1, <3>3, <3>4, <3>5, <3>6, <3>7 DEF FencesSound
    <3> QED BY <2>5, <3>8 DEF t
  <2>8. CASE open # 1
    <3>0. \A x \in Nat : x > 0 /\ x # 1 => x - 1 > 0 /\ 1 \in 1 .. x - 1
      OBVIOUS
    <3>1. open - 1 > 0 /\ 1 \in 1 .. open - 1
      BY <2>0, <2>8, <3>0, Zenon
    <3>2. t.stack[1] = p /\ t.last = s.last
      BY <2>2, <2>4, <2>8, <3>1
    <3>3. \A i \in 1 .. p - 1 : FirstFence(m, 1, i) => Closes(m, i, p - 1)
      BY <1>3, <2>0
    <3>4. ASSUME s.last # <<>>
          PROVE  /\ s.last[2] <= k + 1 /\ s.last[2] < p
                 /\ \A i \in s.last[2] + 1 .. k + 1 : FirstFence(m, s.last[2] + 1, i) => p = i
      BY <1>4, <1>6, <2>0, <3>4
    <3>5. FencesSound(m, t, k + 1)
      BY <1>4, <2>2, <2>6, <3>1, <3>2, <3>3, <3>4 DEF FencesSound
    <3> QED BY <2>5, <3>5 DEF t
  <2> QED BY <2>7, <2>8
<1> QED BY <1>7, <1>8, <1>9

LEMMA FencesSteps ==
  ASSUME NEW S, NEW m \in Seq(S)
  PROVE  /\ Len(m) \in Nat
         /\ FencesRead(m)[0] = [stack |-> <<>>, last |-> <<>>]
         /\ \A i \in 1 .. Len(m) : FencesRead(m)[i] = Fence(m, FencesRead(m)[i - 1], i)
<1> DEFINE n == Len(m)
           start == [stack |-> <<>>, last |-> <<>>]
           Body(f) == [i \in 0 .. n |-> IF i = 0 THEN start ELSE Fence(m, f[i - 1], i)]
           it == CHOOSE f : f = Body(f)
<1>1. n \in Nat
  BY LenProperties
<1>2. FencesRead(m) = it
  BY DEF FencesRead
<1> HIDE DEF n
<1>3. start \in FenceStates(n)
  BY EmptySeq DEF FenceStates
<1>4. ASSUME NEW x \in FenceStates(n), NEW i \in 1 .. n PROVE Fence(m, x, i) \in FenceStates(n)
  <2> DEFINE stack == x.stack
  <2>1. stack \in Seq(1 .. n) /\ x.last \in {<<>>} \cup (1 .. n) \X (1 .. n)
    BY DEF FenceStates
  <2>2. Append(stack, i) \in Seq(1 .. n)
    BY <2>1, AppendProperties
  <2>3. stack # <<>> => Head(stack) \in 1 .. n /\ Front(stack) \in Seq(1 .. n)
    <3> SUFFICES ASSUME stack # <<>> PROVE Head(stack) \in 1 .. n /\ Front(stack) \in Seq(1 .. n)
      OBVIOUS
    <3>0. Len(stack) \in Nat /\ \A j \in 1 .. Len(stack) : stack[j] \in 1 .. n
      BY <2>1, LenProperties, ElementOfSeq
    <3>1. Len(stack) \in Nat /\ \A j \in 1 .. Len(stack) - 1 : stack[j] \in 1 .. n
      BY <3>0
    <3>2. SubSeq(stack, 1, Len(stack) - 1) \in Seq(1 .. n)
      BY <3>1, SubSeqProperties
    <3> QED BY <2>1, <3>2, HeadTailProperties DEF Front
  <2>4. CASE m[i] = "bare" /\ stack # <<>>
    <3>1. Fence(m, x, i) = [stack |-> Front(stack),
                            last |-> IF Len(stack) = 1 THEN <<Head(stack), i>> ELSE x.last]
      BY <2>4 DEF Fence
    <3> QED BY <2>1, <2>3, <2>4, <3>1 DEF FenceStates
  <2>5. CASE ~(m[i] = "bare" /\ stack # <<>>)
    <3>1. Fence(m, x, i) = IF m[i] \in Fences THEN [x EXCEPT !.stack = Append(stack, i)] ELSE x
      BY <2>5 DEF Fence
    <3> QED BY <2>1, <2>2, <3>1 DEF FenceStates
  <2> QED BY <2>4, <2>5
<1> HIDE DEF start
<1>5. PICK G \in [1 .. n -> [FenceStates(n) -> FenceStates(n)]] :
        \A x \in FenceStates(n), i \in 1 .. n : G[i][x] = Fence(m, x, i)
  <2> DEFINE H == [i \in 1 .. n |-> [x \in FenceStates(n) |-> Fence(m, x, i)]]
  <2>1. H \in [1 .. n -> [FenceStates(n) -> FenceStates(n)]]
    BY <1>4
  <2>2. \A x \in FenceStates(n), i \in 1 .. n : H[i][x] = Fence(m, x, i)
    OBVIOUS
  <2> QED BY <2>1, <2>2, Zenon
<1>6. PICK f \in [0 .. n -> FenceStates(n)] :
        f[0] = start /\ \A i \in 1 .. n : f[i] = G[i][f[i - 1]]
  <2>1. HasRun(n, FenceStates(n), start, G)
    BY <1>1, <1>3, <1>5, FunctionExists
  <2> QED BY <2>1 DEF HasRun, IsRun
<1>7. f = Body(f)
  <2>1. \A i \in 0 .. n : i # 0 => i \in 1 .. n /\ i - 1 \in 0 .. n
    BY <1>1
  <2>2. \A i \in 0 .. n : f[i] = IF i = 0 THEN start ELSE Fence(m, f[i - 1], i)
    BY <1>5, <1>6, <2>1
  <2> QED BY <1>6, <2>2
<1>8. it = Body(it)
  BY <1>7
<1> HIDE DEF it
<1>9. it[0] = start
  BY <1>1, <1>8
<1>10. ASSUME NEW i \in 1 .. n PROVE it[i] = Fence(m, it[i - 1], i)
  <2>1. i \in 0 .. n /\ i # 0
    BY <1>1
  <2> QED BY <1>8, <2>1, Zenon
<1> QED BY <1>1, <1>2, <1>9, <1>10 DEF n, start

LEMMA FencesAreSound ==
  ASSUME NEW S, NEW m \in Seq(S)
  PROVE  /\ FencesSound(m, FencesRead(m)[Len(m)], Len(m))
         /\ FencesRead(m)[Len(m)] \in FenceStates(Len(m))
<1> DEFINE n == Len(m)
           r == FencesRead(m)
           U == {k \in Nat : k <= n => FencesSound(m, r[k], k) /\ r[k] \in FenceStates(n)}
<1>1. /\ n \in Nat /\ r[0] = [stack |-> <<>>, last |-> <<>>]
      /\ \A i \in 1 .. n : r[i] = Fence(m, r[i - 1], i)
  BY FencesSteps
<1> HIDE DEF n, r
<1>2. 0 \in U
  <2>1. r[0].stack = <<>> /\ r[0].last = <<>> /\ Len(r[0].stack) = 0 /\ \A i \in 1 .. 0 : FALSE
    BY <1>1, EmptySeq
  <2>2. r[0] \in FenceStates(n)
    BY <1>1, EmptySeq DEF FenceStates
  <2>3. FencesSound(m, r[0], 0)
    BY <2>1 DEF FencesSound
  <2> QED BY <2>2, <2>3
<1>3. ASSUME NEW k \in Nat, k \in U PROVE k + 1 \in U
  <2> SUFFICES ASSUME k + 1 <= n
               PROVE  FencesSound(m, r[k + 1], k + 1) /\ r[k + 1] \in FenceStates(n)
    OBVIOUS
  <2>1. FencesSound(m, r[k], k) /\ r[k] \in FenceStates(n) /\ k < n
    BY <1>1, <1>3
  <2>2. r[k + 1] = Fence(m, r[k], k + 1)
    <3>1. PICK i \in 1 .. n : i = k + 1 /\ i - 1 = k
      BY <1>1
    <3> QED BY <1>1, <3>1
  <2> QED BY <1>1, <2>1, <2>2, FenceKeeps
<1> HIDE DEF U
<1>4. Nat \subseteq U
  BY <1>2, <1>3, EveryNumber, Zenon
<1> QED BY <1>1, <1>4 DEF U, n, r

LEMMA LastBlockIsWhole ==
  ASSUME NEW S, NEW m \in Seq(S), ThoughtAction(m).kind = "action"
  PROVE  \E a, b \in DOMAIN m :
           /\ a < b /\ Block(m, a, b)
           /\ ThoughtAction(m).action = SubSeq(m, a + 1, b - 1)
           /\ ThoughtAction(m).thought = Outside(m, a, b)
           /\ \A i \in 1 .. a - 1 : FirstFence(m, 1, i) => Closes(m, i, a - 1)
           /\ \A i \in b + 1 .. Len(m) : FirstFence(m, b + 1, i) => ~Closes(m, i, Len(m))
<1> DEFINE n == Len(m)
           s == FencesRead(m)[n]
           a == s.last[1]
           b == s.last[2]
<1>1. /\ FencesSound(m, s, n) /\ s \in FenceStates(n) /\ n \in Nat /\ DOMAIN m = 1 .. n
  BY FencesAreSound, LenProperties
<1>2. LastValidBlock(m) = s.last
  BY DEF LastValidBlock
<1> HIDE DEF n, s
<1>3. s.last # <<>> /\ ThoughtAction(m) = Parsed(Outside(m, a, b), SubSeq(m, a + 1, b - 1))
  BY <1>2 DEF ThoughtAction, FormatError
<1>4. a \in 1 .. n /\ b \in 1 .. n
  BY <1>1, <1>3 DEF FenceStates
<1>5. /\ a < b /\ Block(m, a, b)
      /\ \A i \in 1 .. a - 1 : FirstFence(m, 1, i) => Closes(m, i, a - 1)
      /\ \A i \in b + 1 .. n : FirstFence(m, b + 1, i) => Len(s.stack) > 0 /\ s.stack[1] = i
  BY <1>1, <1>3 DEF FencesSound
<1>6. ASSUME NEW i \in b + 1 .. n, FirstFence(m, b + 1, i) PROVE ~Closes(m, i, n)
  <2>1. Len(s.stack) > 0 /\ s.stack[1] = i /\ Len(s.stack) \in Nat
    BY <1>1, <1>5, <1>6, LenProperties DEF FenceStates
  <2>2. 1 \in 1 .. Len(s.stack)
    BY <2>1
  <2>3. OpenAt(m, i, n, Len(s.stack) - 1)
    BY <1>1, <2>1, <2>2 DEF FencesSound
  <2>4. i \in 1 .. n
    BY <1>1, <1>4
  <2> QED BY <1>1, <2>3, <2>4, OpenStays
<1>7. ThoughtAction(m).action = SubSeq(m, a + 1, b - 1) /\ ThoughtAction(m).thought = Outside(m, a, b)
  <2>1. \A x, y : Parsed(x, y).thought = x /\ Parsed(x, y).action = y
    BY DEF Parsed
  <2> DEFINE thought == Outside(m, a, b)
             action == SubSeq(m, a + 1, b - 1)
  <2>2. ThoughtAction(m) = Parsed(thought, action)
    BY <1>3
  <2> HIDE DEF thought, action
  <2>3. ThoughtAction(m).action = action /\ ThoughtAction(m).thought = thought
    BY <2>1, <2>2
  <2> QED BY <2>3 DEF thought, action
<1> HIDE DEF a, b
<1> QED BY <1>1, <1>4, <1>5, <1>6, <1>7 DEF n

-----------------------------------------------------------------------------
(* Parsing: calls that are rendered *)

\* Bash is not in a bundle.
IsLoaded(c) == IsCommand(c) \/ c = BASH_COMMAND

LEMMA FormatIsList ==
  ASSUME NEW c, IsLoaded(c)
  PROVE  Len(InvokeFormat(c)) \in Nat /\ DOMAIN InvokeFormat(c) = 1 .. Len(InvokeFormat(c))
<1> DEFINE format == InvokeFormat(c)
<1>1. ASSUME c.signature # <<>>, NEW X, c.signature \in Seq(X) PROVE \E S : format \in Seq(S)
  <2> DEFINE n == Len(c.signature)
             S == {format[i] : i \in DOMAIN c.signature}
  <2>1. n \in Nat /\ DOMAIN c.signature = 1 .. n
    BY <1>1, LenProperties
  <2>2. format \in [DOMAIN c.signature -> S]
    BY <1>1 DEF InvokeFormat
  <2> HIDE DEF n, S, format
  <2>3. format \in [1 .. n -> S]
    BY <2>1, <2>2
  <2>4. format \in Seq(S)
    BY <2>1, <2>3, FunctionIsSeq
  <2> QED BY <2>4
<1>2. ASSUME c.signature = <<>>, NEW X, c.arguments \in Seq(X) PROVE \E S : format \in Seq(S)
  <2> DEFINE n == Len(c.arguments)
             fields == [i \in DOMAIN c.arguments |-> Field(c.arguments[i].name)]
             S == {Literal(c.name)} \cup {fields[i] : i \in DOMAIN c.arguments}
  <2>1. n \in Nat /\ DOMAIN c.arguments = 1 .. n
    BY <1>2, LenProperties
  <2>2. fields \in [DOMAIN c.arguments -> S]
    OBVIOUS
  <2>3. format = <<Literal(c.name)>> \o fields
    BY <1>2 DEF InvokeFormat
  <2>4. Literal(c.name) \in S
    OBVIOUS
  <2> HIDE DEF n, S, fields, format
  <2>5. fields \in Seq(S)
    <3>1. fields \in [1 .. n -> S]
      BY <2>1, <2>2
    <3> QED BY <2>1, <3>1, FunctionIsSeq
  <2>6. <<Literal(c.name)>> \in Seq(S)
    BY <2>4
  <2>7. format \in Seq(S)
    BY <2>3, <2>5, <2>6, ConcatProperties
  <2> QED BY <2>7
<1>3. \E X, Y : c.signature \in Seq(X) /\ c.arguments \in Seq(Y)
  <2>1. CASE IsCommand(c)
    BY <2>1 DEF IsCommand
  <2>2. CASE c = BASH_COMMAND
    <3> DEFINE x == [kind |-> "angle", arg |-> "command"]
               y == [name |-> "command", required |-> TRUE]
    <3>1. c.signature = <<x>> /\ c.arguments = <<y>>
      BY <2>2 DEF BASH_COMMAND
    <3> HIDE DEF x, y
    <3>2. <<x>> \in Seq({x}) /\ <<y>> \in Seq({y})
      OBVIOUS
    <3> QED BY <3>1, <3>2
  <2> QED BY <2>1, <2>2 DEF IsLoaded
<1>4. PICK S : format \in Seq(S)
  BY <1>1, <1>2, <1>3
<1> HIDE DEF format
<1>5. Len(format) \in Nat /\ DOMAIN format = 1 .. Len(format)
  BY <1>4, LenProperties
<1> QED BY <1>5 DEF format

\* What the configuration accepts has its arguments for fields.
LEMMA FieldsAreNames ==
  ASSUME NEW c, ValidateArguments(c), ~Unrenderable(c)
  PROVE  Fields(InvokeFormat(c)) = Names(c)
<1>1. CASE c.arguments = <<>>
  <2>1. Names(c) = {}
    BY <1>1 DEF Names
  <2> QED BY <1>1, <2>1 DEF Unrenderable
<1>2. CASE c.arguments # <<>>
  BY <1>2 DEF ValidateArguments
<1> QED BY <1>1, <1>2

LEMMA RenderedWhole ==
  ASSUME NEW c, IsLoaded(c), NEW call, NEW formatted, Fields(InvokeFormat(c)) \subseteq formatted
  PROVE  LET p == Rendered(c, call, formatted, call.args)
         IN /\ p.kind = "action"
            /\ \A a \in call.args : a \in Fields(InvokeFormat(c)) =>
                 Value(a, call, c) \in Range(p.action)
<1> DEFINE format == InvokeFormat(c)
           n == Len(format)
           words == [i \in DOMAIN format |->
                       IF format[i].kind = "lit" THEN format[i] ELSE Value(format[i].arg, call, c)]
           W == {words[i] : i \in DOMAIN format}
           T == {w \in ToSet(words) : w.kind = "lit" \/ w.arg \in call.args}
           p == Rendered(c, call, formatted, call.args)
<1>1. n \in Nat /\ DOMAIN format = 1 .. n
  BY FormatIsList
<1>2. p = Parsed(<<>>, Filtered(words, T))
  BY DEF Rendered
<1> HIDE DEF format, n
<1>3. words \in [1 .. n -> W]
  BY <1>1
<1> HIDE DEF W
<1>4. words \in Seq(W) /\ Len(words) = n /\ DOMAIN words = 1 .. n
  BY <1>1, <1>3, FunctionIsSeq
<1> HIDE DEF T, p
<1>5. PICK q : IsPlaces(q, Filtered(words, T), words, Len(words), T)
  BY <1>4, KeptPlaces
<1>6. ASSUME NEW a \in call.args, a \in Fields(format)
      PROVE  Value(a, call, c) \in Range(p.action)
  <2>1. PICK i \in 1 .. n : format[i].kind # "lit" /\ format[i].arg = a
    BY <1>1, <1>6 DEF Fields
  <2>2. words[i] = Value(a, call, c)
    BY <1>1, <2>1
  <2>3. words[i] \in T
    <3>1. words[i] \in ToSet(words)
      BY <1>4, <2>1 DEF ToSet
    <3>2. words[i].arg = a
      BY <2>2 DEF Value
    <3> QED BY <1>6, <3>1, <3>2 DEF T
  <2> HIDE DEF words
  <2>4. PICK k \in 1 .. Len(Filtered(words, T)) : q[k] = i
    BY <1>4, <1>5, <2>1, <2>3 DEF IsPlaces
  <2>5. Filtered(words, T)[k] = words[i] /\ DOMAIN Filtered(words, T) = 1 .. Len(Filtered(words, T))
    BY <1>5, <2>4, LenProperties DEF IsPlaces
  <2>6. p.action = Filtered(words, T)
    BY <1>2 DEF Parsed
  <2> QED BY <2>2, <2>4, <2>5, <2>6 DEF Range
<1>7. p.kind = "action"
  BY <1>2 DEF Parsed
<1> QED BY <1>6, <1>7 DEF p, format

CallSet == [name : STRING, args : SUBSET STRING, nulls : SUBSET STRING,
            json : {"object", "no json", "no object", "dict"}]

LEMMA CheckedWhole ==
  ASSUME NEW c, IsLoaded(c), ValidateArguments(c), ~Unrenderable(c), NEW call
  PROVE  LET p == CheckedCall(c, call)
         IN /\ p.kind # "crash"
            /\ p.kind = "action" =>
                 \A a \in call.args \ {c.end_name} : Value(a, call, c) \in Range(p.action)
<1> DEFINE p == CheckedCall(c, call)
           r == Rendered(c, call, Names(c), call.args)
<1>1. Fields(InvokeFormat(c)) = Names(c)
  BY FieldsAreNames
<1>2. /\ r.kind = "action"
      /\ \A a \in call.args : a \in Fields(InvokeFormat(c)) => Value(a, call, c) \in Range(r.action)
  BY <1>1, RenderedWhole, Zenon
<1> HIDE DEF r
<1>3. CASE p.kind = "format error"
  BY <1>3
<1>4. CASE p.kind # "format error"
  <2>1. Given(call) \ {c.end_name} \subseteq Names(c) /\ p = r
    BY <1>4 DEF CheckedCall, FormatError, Formatted, r
  <2>2. \A a \in call.args \ {c.end_name} : a \in Names(c)
    BY <2>1 DEF Given
  <2> HIDE DEF p
  <2> QED BY <1>1, <1>2, <2>1, <2>2 DEF p
<1> QED BY <1>3, <1>4

CalledName(parser, call) == IF parser = "function_calling" THEN call.name ELSE XMLName(call.name)

LEMMA CallsAreWhole ==
  ASSUME NEW parser \in {"function_calling", "xml_function_calling"},
         NEW calls \in Seq(CallSet), calls # <<>>, Head(calls).json = "object",
         \A c \in toolConfig.commands : IsLoaded(c) /\ ValidateArguments(c),
         NEW name, name = CalledName(parser, Head(calls)),
         CommandNamed(name) = {} \/ ~Unrenderable(TheCommand(name))
  PROVE  LET p == ParseActions(parser, [message |-> <<>>, calls |-> calls])
         IN /\ p.kind # "crash"
            /\ p.kind = "action" =>
                 \A a \in Head(calls).args \ {TheCommand(name).end_name} :
                   Value(a, Head(calls), TheCommand(name)) \in Range(p.action)
<1> DEFINE call == Head(calls)
           p == ParseActions(parser, [message |-> <<>>, calls |-> calls])
           command == TheCommand(name)
<1>1. call \in CallSet
  BY HeadTailProperties
<1>2. CommandNamed(name) # {} => IsLoaded(command) /\ ValidateArguments(command)
  BY DEF CommandNamed, TheCommand
<1>0. \A code : FormatError(code).kind = "format error"
  BY DEF FormatError
<1>3. CASE p.kind = "format error"
  BY <1>3
<1>4. CASE p.kind # "format error" /\ parser = "function_calling"
  <2>1. p = FunctionCalling(calls)
    BY <1>4 DEF ParseActions
  <2>2. p = ParseToolCall(call)
    <3>1. Len(calls) # 0 /\ Len(calls) \in Nat
      BY EmptySeq
    <3>2. ~(Len(calls) > 1)
      <4> SUFFICES ASSUME Len(calls) > 1 PROVE FALSE
        OBVIOUS
      <4>1. p = FormatError("multiple")
        BY <2>1, <3>1 DEF FunctionCalling
      <4> HIDE DEF p
      <4> QED BY <1>0, <1>4, <4>1, Zenon
    <3> QED BY <2>1, <3>1, <3>2 DEF FunctionCalling
  <2>3. name = call.name
    BY <1>4 DEF CalledName
  <2>4. CommandNamed(name) # {}
    <3> SUFFICES ASSUME CommandNamed(name) = {} PROVE FALSE
      OBVIOUS
    <3> HIDE DEF p, call
    <3>1. p = FormatError("invalid_command")
      BY <2>2, <2>3 DEF ParseToolCall
    <3> QED BY <1>0, <1>4, <3>1, Zenon
  <2>5. p = CheckedCall(command, call)
    BY <2>2, <2>3, <2>4 DEF ParseToolCall
  <2> HIDE DEF p, call, command
  <2>6. p.kind # "crash" /\ (p.kind = "action" =>
          \A a \in call.args \ {command.end_name} : Value(a, call, command) \in Range(p.action))
    <3>1. ~Unrenderable(command)
      BY <2>4 DEF command
    <3> QED BY <1>2, <2>4, <2>5, <3>1, CheckedWhole
  <2> QED BY <2>6 DEF p, call, command
<1>5. CASE p.kind # "format error" /\ parser = "xml_function_calling"
  <2> DEFINE given == [call EXCEPT !.args = @ \cup call.nulls, !.nulls = {}]
  <2>1. p = XMLFunctionCalling(calls)
    BY <1>5 DEF ParseActions
  <2>2. name = XMLName(call.name)
    BY <1>5 DEF CalledName
  <2>3. given.name = call.name /\ given.json = "object" /\ given.args = call.args \cup call.nulls
    BY <1>1 DEF CallSet
  <2>4. p = IF CommandNamed(name) = {} THEN FormatError("") ELSE CheckedCall(command, given)
    <3>1. given.json # "no object"
      BY <2>3
    <3> HIDE DEF given
    <3> QED BY <2>1, <2>2, <2>3, <3>1 DEF XMLFunctionCalling, given
  <2>5. CommandNamed(name) # {} /\ p = CheckedCall(command, given)
    <3> HIDE DEF p, command, given
    <3> QED BY <1>0, <1>5, <2>4, Zenon
  <2> HIDE DEF p, command, given
  <2>6. p.kind # "crash" /\ (p.kind = "action" =>
          \A a \in given.args \ {command.end_name} : Value(a, given, command) \in Range(p.action))
    <3>1. ~Unrenderable(command)
      BY <2>5 DEF command
    <3> QED BY <1>2, <2>5, <3>1, CheckedWhole
  <2>7. \A a \in call.args : a \in given.args /\ Value(a, given, command) = Value(a, call, command)
    BY <2>3 DEF Value, ShouldQuote
  <2> QED BY <2>6, <2>7 DEF p, call, command
<1> QED BY <1>3, <1>4, <1>5

-----------------------------------------------------------------------------
(* Parsing: the multi-line command of an action *)

ScriptLines == [kind : STRING, here : BOOLEAN]

LEMMA GuardSteps ==
  ASSUME NEW lines, NEW n \in Nat, n = Len(lines), n >= 2, NEW s, NEW t,
         GuardTurn([done |-> <<>>, rest |-> lines, newline |-> FALSE]) = s,
         GuardTurn(s) = t, GuardTurn(t) = t
  PROVE  GuardMultilineInput(lines) = t.done
<1> DEFINE start == [done |-> <<>>, rest |-> lines, newline |-> FALSE]
           Body(f) == [k \in 0 .. n |-> IF k = 0 THEN start ELSE GuardTurn(f[k - 1])]
           it == CHOOSE f : f = Body(f)
           f == [k \in 0 .. n |-> IF k = 0 THEN start ELSE IF k = 1 THEN s ELSE t]
<1>1. GuardTurns(lines) = it
  BY DEF GuardTurns
<1> HIDE DEF start
<1>2. GuardTurn(start) = s
  BY DEF start
<1>3. f = Body(f)
  <2>1. ASSUME NEW k \in 0 .. n, k # 0 PROVE f[k] = GuardTurn(f[k - 1])
    <3>1. k - 1 \in 0 .. n
      BY <2>1
    <3>2. f[k - 1] = IF k - 1 = 0 THEN start ELSE IF k - 1 = 1 THEN s ELSE t
      BY <3>1
    <3>3. CASE k = 1
      <4>1. f[k] = s /\ f[k - 1] = start
        BY <2>1, <3>2, <3>3
      <4> QED BY <1>2, <4>1
    <3>4. CASE k = 2
      <4>1. f[k] = t /\ f[k - 1] = s
        BY <2>1, <3>2, <3>4
      <4> QED BY <4>1
    <3>5. CASE k # 1 /\ k # 2
      <4>1. f[k] = t /\ f[k - 1] = t
        BY <2>1, <3>2, <3>5
      <4> QED BY <4>1
    <3> QED BY <3>3, <3>4, <3>5
  <2>2. \A k \in 0 .. n : f[k] = IF k = 0 THEN start ELSE GuardTurn(f[k - 1])
    BY <2>1
  <2> QED BY <2>2
<1> HIDE DEF f
<1>4. it = Body(it)
  BY <1>3
<1> HIDE DEF it
<1>5. it[0] = start /\ \A k \in 1 .. n : it[k] = GuardTurn(it[k - 1])
  <2>1. it[0] = start
    BY <1>4
  <2>2. ASSUME NEW k \in 1 .. n PROVE it[k] = GuardTurn(it[k - 1])
    <3>1. k \in 0 .. n /\ k # 0
      OBVIOUS
    <3> QED BY <1>4, <3>1, Zenon
  <2> QED BY <2>1, <2>2
<1>6. it[1] = s
  <2>1. 1 \in 1 .. n /\ 1 - 1 = 0
    OBVIOUS
  <2> QED BY <1>2, <1>5, <2>1
<1> DEFINE U == {k \in Nat : k + 2 <= n => it[k + 2] = t}
<1>7. 0 \in U
  <2>1. 2 \in 1 .. n /\ 2 - 1 = 1 /\ 0 + 2 = 2
    OBVIOUS
  <2>2. it[2] = t
    BY <1>5, <1>6, <2>1
  <2> QED BY <2>1, <2>2
<1>8. ASSUME NEW k \in Nat, k \in U PROVE k + 1 \in U
  <2> SUFFICES ASSUME (k + 1) + 2 <= n PROVE it[(k + 1) + 2] = t
    OBVIOUS
  <2>1. PICK i \in 1 .. n : i = (k + 1) + 2 /\ i - 1 = k + 2
    OBVIOUS
  <2>2. it[i - 1] = t
    BY <1>8, <2>1
  <2> QED BY <1>5, <2>1, <2>2
<1> HIDE DEF U
<1>9. Nat \subseteq U
  BY <1>7, <1>8, EveryNumber, Zenon
<1>10. it[n] = t
  <2>1. n - 2 \in Nat /\ (n - 2) + 2 = n /\ n <= n
    OBVIOUS
  <2> QED BY <1>9, <2>1 DEF U
<1> QED BY <1>1, <1>10 DEF GuardMultilineInput

\* Without a line that begins a command the rest is taken as it is.
LEMMA TurnWithout ==
  ASSUME NEW done, NEW rest, NEW newline, MultilineStart(rest) = {}
  PROVE  GuardTurn([done |-> done, rest |-> rest, newline |-> newline]) =
           [done |-> done \o rest, rest |-> <<>>, newline |-> FALSE]
BY DEF GuardTurn

LEMMA NoStart ==
  ASSUME NEW rest \in Seq(ScriptLines), \A i \in 1 .. Len(rest) : rest[i].kind # "edit"
  PROVE  MultilineStart(rest) = {}
<1>1. DOMAIN rest = 1 .. Len(rest)
  BY LenProperties
<1> QED BY <1>1 DEF MultilineStart, Where

LEMMA CommandIsWhole ==
  ASSUME NEW lines \in Seq(ScriptLines), lines # <<>>, Head(lines).kind = "edit",
         Cardinality({i \in DOMAIN lines : lines[i].kind = "edit"}) = 1,
         MultilineStart(lines) # {}
  PROVE  GuardMultilineInput(lines) = [lines EXCEPT ![1].here = TRUE]
<1> DEFINE n == Len(lines)
           whole == [lines EXCEPT ![1].here = TRUE]
<1>1. /\ n \in Nat \ {0} /\ DOMAIN lines = 1 .. n /\ Head(lines) = lines[1]
      /\ \A i \in 1 .. n : lines[i] \in ScriptLines
  BY LenProperties, EmptySeq, ElementOfSeq
<1>2. \A i \in 1 .. n : lines[i].kind = "edit" => i = 1
  <2> DEFINE E == {i \in DOMAIN lines : lines[i].kind = "edit"}
  <2>1. 1 \in E /\ IsFiniteSet(1 .. n) /\ E \in SUBSET (1 .. n)
    BY <1>1, FS_Interval
  <2>2. IsFiniteSet(E)
    BY <2>1, FS_Subset
  <2>3. \E x : E = {x}
    BY <2>2, FS_Singleton
  <2> QED BY <1>1, <2>1, <2>3
<1>3. MultilineStart(lines) = {1} /\ \E j \in 1 .. n : 1 < j /\ lines[j].kind = "end"
  <2>1. MultilineStart(lines) = {i \in {k \in 1 .. n : lines[k].kind = "edit"} :
                                   \E j \in 1 .. n : i < j /\ lines[j].kind = "end"}
    BY <1>1 DEF MultilineStart, Where
  <2> QED BY <1>2, <2>1
<1>4. PICK j \in 2 .. n : j = MultilineEnd(lines, 1)
  <2> DEFINE E == {j \in DOMAIN lines : 1 < j /\ lines[j].kind = "end"}
  <2>1. E \in SUBSET Nat /\ E # {} /\ E \subseteq 2 .. n
    BY <1>1, <1>3
  <2>2. \E i \in E : \A k \in E : i <= k
    BY <2>1, LeastOne, Zenon
  <2>3. Min(E) \in E
    BY <2>2 DEF Min
  <2> QED BY <2>1, <2>3 DEF MultilineEnd
<1> HIDE DEF n
<1> DEFINE command == SubSeq(lines, 1, j)
           told == [command EXCEPT ![1].here = TRUE]
           rest == SubSeq(lines, j + 1, n)
<1>5. /\ command \in Seq(ScriptLines) /\ Len(command) = j
      /\ \A i \in 1 .. j : command[i] = lines[i]
  <2>1. \A i \in 1 .. j : lines[i] \in ScriptLines
    BY <1>1, <1>4
  <2>2. /\ command \in Seq(ScriptLines)
        /\ Len(command) = IF 1 <= j THEN j - 1 + 1 ELSE 0
        /\ \A i \in 1 .. j - 1 + 1 : command[i] = lines[1 + i - 1]
    BY <1>1, <1>4, <2>1, SubSeqProperties
  <2> HIDE DEF command
  <2> QED BY <1>1, <1>4, <2>2
<1>6. /\ rest \in Seq(ScriptLines) /\ Len(rest) = n - j
      /\ \A i \in 1 .. n - j : rest[i] = lines[j + i]
  <2>0. \A i \in j + 1 .. n : lines[i] \in ScriptLines
    BY <1>1, <1>4
  <2>1. /\ rest \in Seq(ScriptLines)
        /\ Len(rest) = IF j + 1 <= n THEN n - (j + 1) + 1 ELSE 0
        /\ \A i \in 1 .. n - (j + 1) + 1 : rest[i] = lines[j + 1 + i - 1]
    BY <1>1, <1>4, <2>0, SubSeqProperties
  <2> HIDE DEF rest
  <2>2. /\ n - (j + 1) + 1 = n - j /\ \A i : i \in 1 .. n - j => j + 1 + i - 1 = j + i
        /\ (IF j + 1 <= n THEN n - (j + 1) + 1 ELSE 0) = n - j
    BY <1>1, <1>4
  <2> QED BY <2>1, <2>2
<1>7. command[1] = lines[1] /\ lines[1] \in ScriptLines /\ command # <<>>
  <2>1. 1 \in 1 .. j /\ 1 \in 1 .. n /\ j # 0
    BY <1>1, <1>4
  <2>2. Len(<<>>) = 0
    BY EmptySeq
  <2> QED BY <1>1, <1>5, <2>1, <2>2
<1> HIDE DEF command, rest
<1> DEFINE first == [lines[1] EXCEPT !.here = TRUE]
<1>8. /\ told \in Seq(ScriptLines) /\ Len(told) = j
      /\ \A i \in 1 .. j : told[i] = IF i = 1 THEN first ELSE lines[i]
  <2>0. 1 \in 1 .. Len(command)
    BY <1>4, <1>5
  <2>1. first \in ScriptLines
    BY <1>7 DEF ScriptLines
  <2>2. told = [command EXCEPT ![1] = first]
    BY <1>7
  <2> HIDE DEF told, first
  <2>3. /\ told \in Seq(ScriptLines) /\ Len(told) = Len(command)
        /\ \A i \in 1 .. Len(command) : told[i] = IF i = 1 THEN first ELSE command[i]
    BY <1>5, <2>0, <2>1, <2>2, ExceptSeq
  <2> QED BY <1>5, <2>3
<1>9. command[1].here => told = command
  <2> SUFFICES ASSUME command[1].here PROVE told = command
    OBVIOUS
  <2>0. lines[1].here = TRUE
    BY <1>7 DEF ScriptLines
  <2>1. first = lines[1]
    BY <1>7, <2>0 DEF ScriptLines
  <2>2. Len(told) = Len(command) /\ \A i \in 1 .. Len(told) : told[i] = command[i]
    BY <1>5, <1>8, <2>1
  <2> HIDE DEF told
  <2> QED BY <1>5, <1>8, <2>2, SeqEqual
<1> DEFINE s == [done |-> told, rest |-> rest, newline |-> TRUE]
<1>10. GuardTurn([done |-> <<>>, rest |-> lines, newline |-> FALSE]) = s
  <2>1. Min({1}) = 1
    BY DEF Min
  <2>2. GuardedCommand(command, 0, FALSE) = told
    <3>1. SubSeq(command, 0 + 1, Len(command)) = command
      BY <1>5, SubSeqFull
    <3>2. GuardedCommand(command, 0, FALSE) = HereDoc(command)
      BY <3>1 DEF GuardedCommand
    <3> QED BY <1>7, <3>2 DEF HereDoc
  <2>3. (<<>> \o SubSeq(lines, 1, 1 - 1)) \o told = told
    <3>1. SubSeq(lines, 1, 1 - 1) = <<>>
      BY SubSeqEmpty
    <3>2. <<>> \o <<>> = <<>> /\ <<>> \o told = told
      BY <1>8, ConcatEmptySeq, EmptySeq
    <3> QED BY <3>1, <3>2
  <2>4. GuardTurn([done |-> <<>>, rest |-> lines, newline |-> FALSE]) =
          [done |-> (<<>> \o SubSeq(lines, 1, 1 - 1)) \o
                      IF command[1].here /\ ~(FALSE /\ 1 = 1) THEN command
                      ELSE GuardedCommand(command, 1 - 1, FALSE),
           rest |-> rest, newline |-> TRUE]
    BY <1>3, <1>4, <2>1 DEF GuardTurn, command, rest, n
  <2>5. 1 - 1 = 0
    OBVIOUS
  <2>6. (IF command[1].here /\ ~(FALSE /\ 1 = 1) THEN command
         ELSE GuardedCommand(command, 1 - 1, FALSE)) = told
    BY <1>9, <2>2, <2>5
  <2> HIDE DEF told
  <2> QED BY <2>3, <2>4, <2>6
<1> DEFINE t == [done |-> whole, rest |-> <<>>, newline |-> FALSE]
<1>11. whole \in Seq(ScriptLines) /\ Len(whole) = n
       /\ \A i \in 1 .. n : whole[i] = IF i = 1 THEN first ELSE lines[i]
  <2>1. first \in ScriptLines /\ 1 \in 1 .. n
    <3>1. first \in ScriptLines
      BY <1>7 DEF ScriptLines
    <3> QED BY <1>1, <3>1
  <2>2. whole = [lines EXCEPT ![1] = first]
    OBVIOUS
  <2> HIDE DEF whole, first
  <2> QED BY <2>1, <2>2, ExceptSeq DEF n
<1>12. told \o rest = whole
  <2>1. /\ told \o rest \in Seq(ScriptLines) /\ Len(told \o rest) = Len(told) + Len(rest)
        /\ \A i \in 1 .. Len(told) + Len(rest) :
             (told \o rest)[i] = IF i <= Len(told) THEN told[i] ELSE rest[i - Len(told)]
    <3>1. told \in Seq(ScriptLines) /\ rest \in Seq(ScriptLines)
      BY <1>6, <1>8
    <3> HIDE DEF told
    <3> QED BY <3>1, ConcatProperties
  <2> HIDE DEF told, whole, first
  <2>2. Len(told) + Len(rest) = n
    BY <1>1, <1>4, <1>6, <1>8
  <2>3. ASSUME NEW i \in 1 .. n PROVE (told \o rest)[i] = whole[i]
    <3>1. CASE i <= j
      <4>1. i \in 1 .. j
        BY <3>1
      <4> QED BY <1>8, <1>11, <2>1, <2>2, <3>1, <4>1
    <3>2. CASE ~(i <= j)
      <4>1. i - j \in 1 .. n - j /\ j + (i - j) = i /\ i # 1
        BY <1>1, <1>4, <3>2
      <4> QED BY <1>6, <1>8, <1>11, <2>1, <2>2, <3>2, <4>1
    <3> QED BY <3>1, <3>2
  <2> QED BY <1>11, <2>1, <2>2, <2>3, SeqEqual
<1>13. GuardTurn(s) = t
  <2>1. \A i \in 1 .. Len(rest) : rest[i].kind # "edit"
    <3> TAKE i \in 1 .. Len(rest)
    <3>1. j + i \in 1 .. n /\ j + i # 1 /\ rest[i] = lines[j + i]
      BY <1>1, <1>4, <1>6
    <3> QED BY <1>2, <3>1 DEF n
  <2>2. MultilineStart(rest) = {}
    BY <1>6, <2>1, NoStart
  <2> HIDE DEF told, whole
  <2> QED BY <1>12, <2>2, TurnWithout
<1>14. GuardTurn(t) = t
  <2>1. MultilineStart(<<>>) = {}
    BY DEF MultilineStart, Where
  <2>2. whole \o <<>> = whole
    BY <1>11, ConcatEmptySeq
  <2> HIDE DEF whole
  <2> QED BY <2>1, <2>2, TurnWithout
<1>15. n >= 2 /\ n \in Nat /\ t.done = whole
  BY <1>1, <1>4
<1> HIDE DEF s, t, whole
<1>16. GuardMultilineInput(lines) = t.done
  BY <1>10, <1>13, <1>14, <1>15, GuardSteps DEF n
<1> QED BY <1>15, <1>16 DEF whole

-----------------------------------------------------------------------------
(* Parsing: the theorem *)

\* The configuration that is loaded has been validated, what was parsed was parsed with
\* it, and a process that guards actions has not loaded one.
ParsingInv ==
  /\ toolConfig.ok => \A c \in toolConfig.commands : IsLoaded(c) /\ ValidateArguments(c)
  /\ parsed.kind # "none" => toolConfig.ok
  /\ guarded # <<>> => toolConfig = NoTools
  /\ ActionIsLastBlock /\ CallsRender /\ GuardKeepsCommand

LEMMA LoadSound ==
  ASSUME ParsingInv,
         NEW bundles \in BundleLists, NEW bash \in BOOLEAN, NEW parser \in Parsers,
         LoadTools(bundles, bash, parser)
  PROVE  ParsingInv'
<1> DEFINE commands == ConfiguredCommands(bundles, bash)
<1>1. /\ toolConfig = NoTools /\ guarded = <<>> /\ UNCHANGED <<reply, parsed, guarded>>
      /\ \/ /\ toolConfig' = [commands |-> commands, parser |-> parser, ok |-> TRUE]
            /\ \A c \in commands : ValidateArguments(c)
         \/ toolConfig' = [NoTools EXCEPT !.parser = "refused"]
  BY DEF LoadTools
<1>2. ~NoTools.ok /\ ~[NoTools EXCEPT !.parser = "refused"].ok
  BY DEF NoTools
<1>3. parsed.kind = "none"
  BY <1>1, <1>2 DEF ParsingInv
<1>4. ASSUME NEW c \in commands PROVE IsLoaded(c)
  <2> SUFFICES ASSUME c # BASH_COMMAND PROVE IsCommand(c)
    BY DEF IsLoaded
  <2>1. PICK i \in DOMAIN bundles : c \in bundles[i].tools
    BY DEF ConfiguredCommands, BundleCommands
  <2> QED BY <2>1, ParsingAssumption, Zenon
<1> HIDE DEF commands
<1>5. toolConfig'.ok => \A c \in toolConfig'.commands : IsLoaded(c) /\ ValidateArguments(c)
  <2>1. CASE toolConfig' = [NoTools EXCEPT !.parser = "refused"]
    BY <1>2, <2>1
  <2>2. CASE /\ toolConfig' = [commands |-> commands, parser |-> parser, ok |-> TRUE]
             /\ \A c \in commands : ValidateArguments(c)
    <3>1. toolConfig'.commands = commands
      BY <2>2
    <3> QED BY <1>4, <2>2, <3>1
  <2> QED BY <1>1, <2>1, <2>2
<1>6. parsed'.kind = "none" /\ guarded' = <<>>
  BY <1>1, <1>3
<1>7. ActionIsLastBlock'
  BY <1>6 DEF ActionIsLastBlock
<1>8. CallsRender'
  BY <1>6 DEF CallsRender
<1>9. GuardKeepsCommand'
  BY <1>6 DEF GuardKeepsCommand
<1> QED BY <1>5, <1>6, <1>7, <1>8, <1>9 DEF ParsingInv

LEMMA CallSound ==
  ASSUME ParsingInv, NEW calls \in CallReplies, UsesCalls(toolConfig.parser),
         ParseReply([message |-> <<>>, calls |-> calls])
  PROVE  ParsingInv'
<1> DEFINE r == [message |-> <<>>, calls |-> calls]
<1>1. /\ toolConfig.ok /\ toolConfig' = toolConfig /\ guarded' = guarded
      /\ reply' = r /\ parsed' = ParseActions(toolConfig.parser, r)
  BY DEF ParseReply
<1>2. guarded = <<>>
  BY <1>1 DEF ParsingInv, NoTools
<1>3. ActionIsLastBlock'
  BY <1>1 DEF ActionIsLastBlock, UsesCalls
<1>4. CallsRender'
  <2> DEFINE parser == toolConfig.parser
             call == Head(calls)
             name == CalledName(parser, call)
             command == TheCommand(name)
  <2> SUFFICES ASSUME parser \in {"function_calling", "xml_function_calling"},
                      calls # <<>>, call.json = "object",
                      CommandNamed(name) = {} \/ ~Unrenderable(command)
               PROVE  /\ parsed'.kind # "crash"
                      /\ parsed'.kind = "action" =>
                           \A a \in call.args \ {command.end_name} :
                             Value(a, call, command) \in Range(parsed'.action)
    BY <1>1 DEF CallsRender, CalledName, CommandNamed, TheCommand
  <2>1. calls \in Seq(CallSet)
    BY ParsingAssumption DEF CallSet
  <2>2. \A c \in toolConfig.commands : IsLoaded(c) /\ ValidateArguments(c)
    BY <1>1 DEF ParsingInv
  <2> DEFINE p == ParseActions(parser, [message |-> <<>>, calls |-> calls])
  <2>3. /\ p.kind # "crash"
        /\ p.kind = "action" =>
             \A a \in call.args \ {command.end_name} : Value(a, call, command) \in Range(p.action)
    BY <2>1, <2>2, CallsAreWhole
  <2>4. parsed' = p
    BY <1>1
  <2> HIDE DEF p
  <2> QED BY <2>3, <2>4
<1>5. GuardKeepsCommand'
  BY <1>1, <1>2 DEF GuardKeepsCommand
<1> QED BY <1>1, <1>2, <1>3, <1>4, <1>5 DEF ParsingInv

LEMMA DiscussionSound ==
  ASSUME ParsingInv, NEW m \in Discussions, ~UsesCalls(toolConfig.parser),
         ParseReply([message |-> m, calls |-> <<>>])
  PROVE  ParsingInv'
<1> DEFINE r == [message |-> m, calls |-> <<>>]
<1>1. /\ toolConfig.ok /\ toolConfig' = toolConfig /\ guarded' = guarded
      /\ reply' = r /\ parsed' = ParseActions(toolConfig.parser, r)
  BY DEF ParseReply
<1>2. guarded = <<>>
  BY <1>1 DEF ParsingInv, NoTools
<1>3. ActionIsLastBlock'
  <2> SUFFICES ASSUME toolConfig.parser = "thought_action", parsed'.kind = "action"
               PROVE  ActionIsLastBlock'
    BY <1>1 DEF ActionIsLastBlock
  <2>1. m \in Seq(Lines) /\ DOMAIN m = 1 .. Len(m) /\ Len(m) \in Nat
    <3>1. PICK n \in 0 .. MaxLines : m \in [1 .. n -> Lines]
      BY DEF Discussions
    <3>2. n \in Nat
      <4>1. MaxLines \in Nat
        BY ParsingAssumption, Zenon
      <4> QED BY <4>1
    <3> QED BY <3>1, <3>2, FunctionIsSeq
  <2>2. parsed' = ThoughtAction(m)
    BY <1>1, <2>1 DEF ParseActions
  <2>3. PICK a \in DOMAIN m, b \in DOMAIN m :
          /\ a < b /\ Block(m, a, b)
          /\ ThoughtAction(m).action = SubSeq(m, a + 1, b - 1)
          /\ ThoughtAction(m).thought = Outside(m, a, b)
          /\ \A i \in 1 .. a - 1 : FirstFence(m, 1, i) => Closes(m, i, a - 1)
          /\ \A i \in b + 1 .. Len(m) : FirstFence(m, b + 1, i) => ~Closes(m, i, Len(m))
    BY <2>1, <2>2, LastBlockIsWhole
  <2> DEFINE bare(x, y) == Cardinality({i \in x .. y : m[i] = "bare"})
             named(x, y) == Cardinality({i \in x .. y : m[i] \in Fences \ {"bare"}})
             block(x, y) == /\ m[x] \in Fences /\ m[y] = "bare"
                            /\ bare(x + 1, y - 1) = named(x + 1, y - 1)
                            /\ \A c \in x + 1 .. y - 1 : bare(x + 1, c) <= named(x + 1, c)
             closes(x, z) == \E y \in x + 1 .. z : block(x, y)
             first(x, z) == {i \in Where(m, Fences) : i >= x /\ i <= z
                                                     /\ \A k \in x .. i - 1 : m[k] \notin Fences}
  <2>4. ASSUME NEW x \in Nat, NEW y \in Int
        PROVE  /\ bare(x, y) = Counted(m, {"bare"}, x, y) /\ named(x, y) = Counted(m, Named, x, y)
               /\ bare(x, y) \in Nat /\ named(x, y) \in Nat
    <3>1. {i \in x .. y : m[i] = "bare"} = {i \in x .. y : m[i] \in {"bare"}}
      OBVIOUS
    <3>2. \A K : Cardinality({i \in x .. y : m[i] \in K}) \in Nat
      <4> TAKE K
      <4>1. IsFiniteSet(x .. y) /\ {i \in x .. y : m[i] \in K} \in SUBSET (x .. y)
        BY FS_Interval
      <4> QED BY <4>1, FS_Subset, FS_CardinalityType
    <3> QED BY <3>1, <3>2 DEF Counted, Named
  <2>5. ASSUME NEW x \in Nat, NEW y \in Int
        PROVE  /\ bare(x, y) = named(x, y) <=> Depth(m, x, y) = 0
               /\ bare(x, y) <= named(x, y) <=> Depth(m, x, y) >= 0
    <3> HIDE DEF bare, named
    <3>1. /\ bare(x, y) \in Nat /\ named(x, y) \in Nat
          /\ Depth(m, x, y) = named(x, y) - bare(x, y)
      BY <2>4 DEF Depth
    <3>2. \A p, q \in Nat : (p = q <=> q - p = 0) /\ (p <= q <=> q - p >= 0)
      OBVIOUS
    <3> QED BY <3>1, <3>2
  <2> HIDE DEF bare, named
  <2>6. ASSUME NEW x \in Nat, NEW y \in Nat PROVE block(x, y) <=> Block(m, x, y)
    <3>1. x + 1 \in Nat /\ y - 1 \in Int /\ \A c \in x + 1 .. y - 1 : c \in Int
      OBVIOUS
    <3>2. bare(x + 1, y - 1) = named(x + 1, y - 1) <=> Depth(m, x + 1, y - 1) = 0
      BY <2>5, <3>1
    <3>3. \A c \in x + 1 .. y - 1 : bare(x + 1, c) <= named(x + 1, c) <=> Depth(m, x + 1, c) >= 0
      BY <2>5, <3>1
    <3> QED BY <3>2, <3>3 DEF Block
  <2> HIDE DEF block
  <2>7. ASSUME NEW x \in Nat, NEW z \in Int PROVE closes(x, z) <=> Closes(m, x, z)
    <3>1. \A y \in x + 1 .. z : y \in Nat
      OBVIOUS
    <3> QED BY <2>6, <3>1 DEF Closes
  <2> HIDE DEF closes
  <2>8. ASSUME NEW x \in Nat, NEW z \in Int, NEW i \in first(x, z)
        PROVE  i \in x .. z /\ i \in 1 .. Len(m) /\ FirstFence(m, x, i)
    BY <2>1 DEF Where, FirstFence
  <2> HIDE DEF first
  <2>9. a \in 1 .. Len(m) /\ b \in 1 .. Len(m)
    BY <2>1
  <2>10. block(a, b)
    BY <2>3, <2>6, <2>9
  <2>11. \A i \in first(1, a - 1) : closes(i, a - 1)
    <3> TAKE i \in first(1, a - 1)
    <3>1. i \in 1 .. a - 1 /\ FirstFence(m, 1, i) /\ i \in Nat /\ a - 1 \in Int
      BY <2>8, <2>9
    <3> QED BY <2>3, <2>7, <3>1
  <2>12. \A i \in first(b + 1, Len(m)) : ~closes(i, Len(m))
    <3> TAKE i \in first(b + 1, Len(m))
    <3>1. i \in b + 1 .. Len(m) /\ FirstFence(m, b + 1, i) /\ i \in Nat /\ Len(m) \in Int
      BY <2>1, <2>8, <2>9
    <3> QED BY <2>3, <2>7, <3>1
  <2>13. /\ a < b /\ parsed'.action = SubSeq(m, a + 1, b - 1) /\ parsed'.thought = Outside(m, a, b)
    BY <2>2, <2>3
  <2>14. \E x, y \in DOMAIN m :
           /\ x < y /\ block(x, y)
           /\ parsed'.action = SubSeq(m, x + 1, y - 1) /\ parsed'.thought = Outside(m, x, y)
           /\ \A i \in first(1, x - 1) : closes(i, x - 1)
           /\ \A i \in first(y + 1, Len(m)) : ~closes(i, Len(m))
    BY <2>3, <2>10, <2>11, <2>12, <2>13
  <2>15. IsLastBlock(m, parsed')
    BY <2>14, Zenon DEF IsLastBlock, bare, named, block, closes, first
  <2>16. reply'.message = m
    BY <1>1
  <2> QED BY <2>15, <2>16 DEF ActionIsLastBlock
<1>4. CallsRender'
  <2>1. reply'.calls = <<>>
    BY <1>1
  <2> QED BY <2>1 DEF CallsRender
<1>5. GuardKeepsCommand'
  BY <1>1, <1>2 DEF GuardKeepsCommand
<1> QED BY <1>1, <1>2, <1>3, <1>4, <1>5 DEF ParsingInv

LEMMA GuardSound ==
  ASSUME ParsingInv, NEW lines \in Scripts, Guard(lines)
  PROVE  ParsingInv'
<1>1. /\ toolConfig = NoTools /\ UNCHANGED <<toolConfig, parsed>>
      /\ reply' = [NoReply EXCEPT !.message = lines] /\ guarded' = GuardMultilineInput(lines)
  BY DEF Guard
<1>2. ~toolConfig.ok /\ toolConfig.parser = "none" /\ parsed.kind = "none"
  BY <1>1 DEF ParsingInv, NoTools
<1>3. GuardKeepsCommand'
  <2> SUFFICES ASSUME guarded' # <<>>, Head(lines).kind = "edit",
                      Cardinality({i \in DOMAIN lines : lines[i].kind = "edit"}) = 1,
                      MultilineStart(lines) # {}
               PROVE  guarded' = [lines EXCEPT ![1].here = TRUE]
    <3>1. reply'.message = lines
      BY <1>1 DEF NoReply
    <3> QED BY <3>1 DEF GuardKeepsCommand
  <2>1. lines \in Seq(ScriptLines)
    BY ParsingAssumption DEF ScriptLines
  <2>2. lines # <<>>
    <3>1. MultilineStart(<<>>) = {}
      BY DEF MultilineStart, Where
    <3> QED BY <3>1
  <2> QED BY <1>1, <2>1, <2>2, CommandIsWhole
<1>4. ActionIsLastBlock' /\ CallsRender'
  BY <1>1, <1>2 DEF ActionIsLastBlock, CallsRender
<1> QED BY <1>1, <1>2, <1>3, <1>4 DEF ParsingInv

LEMMA ParsingInductive == ParsingSpec => []ParsingInv
<1>1. ParsingInit => ParsingInv
  <2> SUFFICES ASSUME ParsingInit PROVE ParsingInv
    OBVIOUS
  <2>1. ~toolConfig.ok /\ toolConfig.parser = "none" /\ parsed.kind = "none" /\ guarded = <<>>
    BY DEF ParsingInit, NoTools, NotParsed
  <2>2. ActionIsLastBlock
    BY <2>1 DEF ActionIsLastBlock
  <2>3. CallsRender
    BY <2>1 DEF CallsRender
  <2>4. GuardKeepsCommand
    BY <2>1 DEF GuardKeepsCommand
  <2> QED BY <2>1, <2>2, <2>3, <2>4 DEF ParsingInv
<1>2. ASSUME ParsingInv, [ParsingNext]_parsingVars PROVE ParsingInv'
  <2>1. CASE ParsingNext
    BY <1>2, <2>1, LoadSound, CallSound, DiscussionSound, GuardSound DEF ParsingNext
  <2>2. CASE UNCHANGED parsingVars
    <3> USE <2>2 DEF parsingVars
    <3>1. ActionIsLastBlock'
      BY <1>2 DEF ParsingInv, ActionIsLastBlock
    <3>2. \A name : CommandNamed(name)' = CommandNamed(name) /\ TheCommand(name)' = TheCommand(name)
      BY DEF CommandNamed, TheCommand
    <3>3. CallsRender'
      BY <1>2, <3>2 DEF ParsingInv, CallsRender
    <3>4. GuardKeepsCommand'
      BY <1>2 DEF ParsingInv, GuardKeepsCommand
    <3> QED BY <1>2, <3>1, <3>3, <3>4 DEF ParsingInv
  <2> QED BY <1>2, <2>1, <2>2
<1> QED BY <1>1, <1>2, PTL DEF ParsingSpec

\* What is executed is what the model has written, for any bundles, replies and
\* scripts: the last whole code block of a discussion (ThoughtActionParser), every
\* argument of a call to a command that the configuration has accepted
\* (FunctionCallingParser, Command.validate_arguments), and the whole multi-line
\* command (guard_multiline_input).
THEOREM ActionsStayWhole == ParsingSpec => []ActionsAreWhole
<1>1. ParsingInv => ActionsAreWhole
  BY DEF ParsingInv, ActionsAreWhole
<1> QED BY <1>1, ParsingInductive, PTL
=============================================================================
