------------------------------ MODULE WrapWriter ------------------------------
(***************************************************************************)
(* The line wrapper of textutil/wrap_writer.go, through which every help   *)
(* text goes.  A rune is a letter "x", a space "_", or an end of line: "n" *)
(* and "r", the line separator "L" and the paragraph separator "P".  In    *)
(* the buffer a letter is its number in the text, a space 0 and a rune of  *)
(* the indent -1; the paragraph separator, which has no width, is the      *)
(* field sep.  Positions are counted in runes after the separator.         *)
(***************************************************************************)
EXTENDS Integers, SequencesExt

CONSTANTS Widths,    \* target widths, -1 for none
          Indents,   \* the sequences of indents, each as its width
          MaxRunes   \* bound on the text

VARIABLES text,    \* the runes written so far, a Flush as the "L" it adds
          width,   \* w.width
          indents, \* w.indents
          w,       \* the other fields of WrapWriter
          out,     \* the lines written to the underlying writer
          flushed  \* nothing has been written since the last Flush

vars == <<text, width, indents, w, out, flushed>>

None == -1
EOLs == {"n", "r", "L", "P"}
runeKind(r) == IF r \in EOLs THEN "EOL" ELSE IF r = "_" THEN "space" ELSE "letter"

\* The indent of the line of the paragraph with this index; the last one serves for the rest.
IndentOf(i) ==
  IF indents = <<>> THEN <<>>
  ELSE [k \in 1..(IF i < Len(indents) THEN indents[i + 1] ELSE Last(indents)) |-> -1]

resetLine(s) ==
  LET ends == s.wroteFirst /\ s.terminate
      index == IF ends THEN 0 ELSE s.index
  IN  [s EXCEPT !.sep = ends, !.index = index, !.buf = IndentOf(index),
                !.lineStart = Len(IndentOf(index)), !.newWordStart = None, !.lastWordEnd = None]

\* A space or an end of line ends the word before it.
EndWord(s) ==
  IF s.newWordStart = None THEN s
  ELSE [s EXCEPT !.newWordStart = None, !.lastWordEnd = Len(s.buf)]

\* "\n" after "\r" belongs to it; a blank line ends the paragraph.
EndsParagraph(s, r) ==
  /\ r # "L"
  /\ ~(s.prevRune = "r" /\ r = "n")
  /\ r = "P" \/ ~s.hasLetter
forcesBreak(s, r) == r \in EOLs /\ (r = "L" \/ EndsParagraph(s, r))

updateRune(s, r) ==
  CASE runeKind(r) = "EOL" ->
         [EndWord(s) EXCEPT !.terminate = @ \/ EndsParagraph(s, r), !.hasLetter = FALSE]
    [] runeKind(r) = "space" -> EndWord(s)
    [] OTHER -> [s EXCEPT !.newWordStart = IF @ = None THEN Len(s.buf) ELSE @,
                          !.hasLetter = TRUE, !.terminate = FALSE]

\* Mutant: only when the line is too wide already.
TooWideLate(s) == width >= 0 /\ width < Len(s.buf)

\* Does one more letter make the line too wide?
TooWide(s) == width >= 0 /\ width < Len(s.buf) + 1

\* The next state and whether the line is broken before the rune is buffered.
nextState(s, r, force) ==
  LET kind == runeKind(r)
      wide == width >= 0 /\ width <= Len(s.buf) + 1
      step(state, break) == [state |-> state, break |-> break]
  IN  CASE s.forceVerbatim -> step("verbatim", force \/ kind = "EOL")
        [] ~s.forceVerbatim /\ force -> step("wordWrap", TRUE)
        [] OTHER ->
             CASE s.state = "verbatim" ->
                    IF kind = "EOL" THEN step("wordWrap", TRUE) ELSE step("verbatim", FALSE)
               [] s.state = "skipSpace" -> step(IF kind = "space" THEN "skipSpace" ELSE "wordWrap", FALSE)
               [] OTHER ->
                    CASE runeKind(s.prevRune) = "EOL" /\ kind = "space" -> step("verbatim", TRUE)
                      [] wide /\ kind = "EOL" -> step("wordWrap", TRUE)
                      [] wide /\ kind = "space" /\ runeKind(s.prevRune) # "EOL" -> step("skipSpace", TRUE)
                      [] OTHER ->
                           step("wordWrap", TooWide(s) /\ s.newWordStart # s.lineStart)

\* The line up to its last complete word goes out; an incomplete word moves to the next line.
Line(s) == [sep |-> s.sep, indent |-> s.lineStart,
            cells |-> SubSeq(s.buf, s.lineStart + 1, s.lastWordEnd)]
writeLine(s) ==
  IF s.lastWordEnd = None THEN resetLine(s)
  ELSE LET t == resetLine([s EXCEPT !.wroteFirst = TRUE, !.index = @ + 1])
       IN  IF s.newWordStart = None THEN t
           ELSE [t EXCEPT !.newWordStart = Len(t.buf),
                          !.buf = @ \o SubSeq(s.buf, s.newWordStart + 1, Len(s.buf))]

Letters == Len(SelectSeq(text, LAMBDA r : r = "x"))
bufferRune(s, r, state, break) ==
  LET noLeading == state = "wordWrap" /\ ~break
      cell == CASE runeKind(r) = "letter" -> <<Letters + 1>>
                [] r = "_" /\ (noLeading \/ state = "verbatim") -> <<0>>
                [] r \in EOLs /\ noLeading /\ runeKind(s.prevRune) = "letter" -> <<0>>
                [] OTHER -> <<>>
  IN  [s EXCEPT !.buf = @ \o cell, !.state = state, !.prevRune = r]

addRune(r) ==
  LET u == updateRune(w, r)
      n == nextState(u, r, forcesBreak(w, r))
  IN  /\ w' = bufferRune(IF n.break THEN writeLine(u) ELSE u, r, n.state, n.break)
      /\ out' = IF n.break /\ u.lastWordEnd # None THEN Append(out, Line(u)) ELSE out
      /\ text' = Append(text, r)

Write(r) ==
  /\ Len(text) < MaxRunes
  /\ addRune(r)
  /\ flushed' = FALSE
  /\ UNCHANGED <<width, indents>>

\* Flush adds a line separator, and numbers the lines of the paragraph from 0 again.
Flushed(s) == resetLine([s EXCEPT !.index = 0])
Flush ==
  LET u == updateRune(w, "L")
      n == nextState(u, "L", TRUE)
  IN  /\ ~flushed
      /\ w' = Flushed(bufferRune(writeLine(u), "L", n.state, TRUE))
      /\ out' = IF u.lastWordEnd # None THEN Append(out, Line(u)) ELSE out
      /\ text' = Append(text, "L")
      /\ flushed' = TRUE
      /\ UNCHANGED <<width, indents>>

NewWrapWriter ==
  /\ text = <<>> /\ out = <<>> /\ flushed = TRUE
  /\ width \in Widths
  /\ indents \in Indents
  /\ w \in [sep : {FALSE}, buf : {IndentOf(0)}, state : {"wordWrap"}, prevRune : {"L"}, hasLetter : {FALSE},
            lineStart : {Len(IndentOf(0))}, newWordStart : {None}, lastWordEnd : {None}, terminate : {FALSE},
            index : {0}, wroteFirst : {FALSE}, forceVerbatim : {FALSE, TRUE}]

Next == Flush \/ \E r \in {"x", "_"} \cup EOLs : Write(r)
Spec == NewWrapWriter /\ [][Next]_vars
-------------------------------------------------------------------------------
\* The word of the text or of a line that begins at k, and the words in order.
WordFrom(s, k, Letter(_)) ==
  SubSeq(s, k, CHOOSE e \in k..Len(s) : /\ \A i \in k..e : Letter(s[i])
                                        /\ e = Len(s) \/ ~Letter(s[e + 1]))
Starts(s, Letter(_)) == {k \in DOMAIN s : Letter(s[k]) /\ (k = 1 \/ ~Letter(s[k - 1]))}
InOrder(S) == SetToSortSeq(S, LAMBDA a, b : a < b)
WordLengths(s, Letter(_)) == [i \in 1..Len(InOrder(Starts(s, Letter))) |-> Len(WordFrom(s, InOrder(Starts(s, Letter))[i], Letter))]
IsX(r) == r = "x"
IsNumber(c) == c > 0

\* Words are neither lost, repeated, reordered, cut nor joined.
WordsKept ==
  FlattenSeq([i \in DOMAIN out |-> WordLengths(out[i].cells, IsNumber)]) = WordLengths(text, IsX)
  /\ SelectSeq(FlattenSeq([i \in DOMAIN out |-> out[i].cells]), IsNumber) = [n \in 1..Letters |-> n]

\* Where the nth letter of the text stands, and what stands between it and the next.
At(n) == CHOOSE k \in DOMAIN text : text[k] = "x" /\ Len(SelectSeq(SubSeq(text, 1, k), IsX)) = n
Gap(n) == SubSeq(text, At(n) + 1, At(n + 1) - 1)
Blank(g) == \E i \in DOMAIN g : \/ g[i] = "P"
                                \/ /\ g[i] \in {"n", "r"}
                                   /\ \E j \in 1..(i - 1) : g[j] \in EOLs
                                   /\ ~(g[i] = "n" /\ g[i - 1] = "r")
Broken(g) == Blank(g) \/ "L" \in ToSet(g) \/ \E i \in DOMAIN g : i > 1 /\ g[i] = "_" /\ g[i - 1] \in EOLs
\* The line of the text the nth letter is in begins with a space.
Verbatim(n) ==
  \/ w.forceVerbatim
  \/ \E i \in 1..At(n) : /\ text[i] = "_"
                         /\ i = 1 \/ text[i - 1] \in EOLs
                         /\ \A j \in i..At(n) : text[j] \notin EOLs
\* How many spaces stand for the gap on a line: its own, and one for an end of line right after a letter.
Space(g) == Len(SelectSeq(g, LAMBDA r : r = "_")) + (IF g # <<>> /\ Head(g) \in EOLs THEN 1 ELSE 0)

\* An end of line that becomes no space, after a space or "\r", still takes the
\* place of one when the wrapper asks whether the next word fits.
Reserved(g) == Space(g) + (IF \E i \in DOMAIN g : i > 1 /\ g[i] \in EOLs THEN 1 ELSE 0)

Spaced(line) ==
  \A i \in 1..(Len(line.cells) - 1) :
    line.cells[i] > 0 =>
      LET gap == Gap(line.cells[i])
          next == CHOOSE j \in (i + 1)..Len(line.cells) :
                    line.cells[j] > 0 /\ \A k \in (i + 1)..(j - 1) : line.cells[k] = 0
      IN  /\ next - i - 1 = Space(gap)
          /\ ~Broken(gap) /\ (Verbatim(line.cells[i]) => \A k \in DOMAIN gap : gap[k] \notin EOLs)

\* No line ends in a space, only verbatim ones begin with one, and a line that is
\* not verbatim and is wider than the width is a single word.
Shaped(line) ==
  LET cells == line.cells IN
    /\ cells # <<>> /\ Last(cells) > 0
    /\ ~Verbatim(Last(cells)) =>
         /\ Head(cells) > 0
         /\ width >= 0 /\ line.indent + Len(cells) > width => 0 \notin ToSet(cells)

\* A line is broken only where the text demands it or where the next word does not fit.
BrokenRightly(a, b) ==
  LET n == Last(a.cells)
      word == WordFrom(text, At(n + 1), IsX)
      mustBreak == \/ Broken(Gap(n))
                   \/ Verbatim(n) /\ \E k \in DOMAIN Gap(n) : Gap(n)[k] \in EOLs
  IN  /\ ~mustBreak => width >= 0 /\ a.indent + Len(a.cells) + Reserved(Gap(n)) + Len(word) > width
      /\ b.sep <=> Blank(Gap(n))

\* What the wrapper promises of a text that has been flushed: its words come out as
\* they are, with the spaces that were between them, lines respect the width, lines that
\* begin with a space are left as they are, and exactly the paragraphs are separated.
\* Lines are filled greedily but for one place: an end of line of the text after a space or
\* "\r" counts as one when the wrapper asks whether the next word fits (Reserved), so that
\* a word that would just fit may start a new line.
WrapRight ==
  flushed =>
    /\ WordsKept
    /\ \A i \in DOMAIN out : Shaped(out[i]) /\ Spaced(out[i])
    /\ \A i \in 2..Len(out) : BrokenRightly(out[i - 1], out[i])
    /\ out # <<>> => ~out[1].sep
===============================================================================
