------------------------------ MODULE TextLines ------------------------------
(***************************************************************************)
(* Lines of a TextFile (src/core/textfile.cpp) that are written, appended, *)
(* read one by one, or read all or the last of them at once.  The file is  *)
(* a sequence of characters, of which the ends of lines are two and all    *)
(* others are one.                                                         *)
(***************************************************************************)
EXTENDS Integers, Sequences, FiniteSetsExt, SequencesExt

CONSTANTS
  LineChars,   \* the characters of lines, but for their ends
  LineTexts,   \* the lines that are written
  LineBuffer,  \* the size of ReadLine's buffer, 4096 in the code
  LastBlock,   \* what ReadLastLinesIntoVector reads for each line, 1024 in the code
  MaxLines     \* bound: how many lines are written

VARIABLES
  chars,    \* the contents of the file
  mode,     \* how it is open, or "closed"
  cursor,   \* the position to read from
  lineRead, \* what the last call returned, or NoCall
  written,  \* history: the lines that were written, with their ends
  taken     \* history: how many lines ReadLine and ReadFileIntoVector took

lineVars == <<chars, mode, cursor, lineRead, written, taken>>

CR == "\r"
LF == "\n"
NoCall == <<>>

\* A line is in the file as it was given, so what ends lines is not in it.
ASSUME LinesAssumption ==
  /\ \A line \in LineTexts : line \in Seq(LineChars)
  /\ CR \notin LineChars /\ LF \notin LineChars
  /\ LineBuffer \in Nat /\ LastBlock \in Nat

Dos(m) == m \in {"wd", "ad"}
Writing == mode \in {"w", "a", "wd", "ad"}
EndOf(m) == IF Dos(m) THEN <<CR, LF>> ELSE <<LF>>

OpenText(m) ==
  /\ mode = "closed"
  /\ mode' = m
  /\ chars' = IF m \in {"w", "wd"} THEN <<>> ELSE chars
  /\ written' = IF m \in {"w", "wd"} THEN <<>> ELSE written
  /\ cursor' = 0
  /\ taken' = 0
  /\ UNCHANGED lineRead

CloseText ==
  /\ mode # "closed"
  /\ mode' = "closed" /\ lineRead' = NoCall
  /\ UNCHANGED <<chars, cursor, written, taken>>

WriteLine(line) ==
  /\ Writing /\ Len(written) < MaxLines
  /\ chars' = chars \o line \o EndOf(mode)
  /\ written' = Append(written, [text |-> line, end |-> EndOf(mode)])
  /\ UNCHANGED <<mode, cursor, lineRead, taken>>

\* fgets: up to the end of the line or of the file, and never more than the buffer
\* holds with its zero
Piece(from) ==
  LET ends == {i \in from + 1 .. Len(chars) : chars[i] = LF} \cup {Len(chars), from + LineBuffer - 1}
  IN SubSeq(chars, from + 1, Min(ends))

\* Mutation: only one character is stripped.
StripOne(piece) ==
  IF piece # <<>> /\ Last(piece) \in {CR, LF} THEN Front(piece) ELSE piece

StripLineEnd(piece) ==
  LET kept == {i \in DOMAIN piece : piece[i] \notin {CR, LF}}
  IN SubSeq(piece, 1, Max(kept \cup {0}))

\* The lines from a position on, the last of which begins at or after `upto` lines
LinesFrom(from, upto) ==
  LET read[n \in 0..upto] ==
        IF n = 0 THEN [at |-> from, lines |-> <<>>]
        ELSE LET so == read[n - 1] piece == Piece(so.at) IN
             IF piece = <<>> THEN so
             ELSE [at |-> so.at + Len(piece), lines |-> Append(so.lines, StripLineEnd(piece))]
  IN read[upto]

\* At the end of the file it returns false.
ReadLine ==
  /\ mode = "r"
  /\ LET next == LinesFrom(cursor, 1) IN
     /\ cursor' = next.at
     /\ lineRead' = [call |-> "ReadLine", lines |-> next.lines]
     /\ taken' = taken + Len(next.lines)
  /\ UNCHANGED <<chars, mode, written>>

\* One line more than max_lines is read, and dropped; none is no limit.
ReadFileIntoVector(max) ==
  /\ mode = "r"
  /\ LET all == LinesFrom(cursor, IF max <= 0 THEN Len(chars) ELSE max + 1) IN
     /\ cursor' = all.at
     /\ lineRead' = [call |-> "vector", max |-> max, from |-> taken,
                     lines |-> IF max <= 0 THEN all.lines ELSE SubSeq(all.lines, 1, Min({max, Len(all.lines)}))]
     /\ taken' = taken + Len(all.lines)
  /\ UNCHANGED <<chars, mode, written>>

\* SplitString at the ends of lines, without empty parts
WithPart(so) == IF so.part = <<>> THEN so.parts ELSE Append(so.parts, so.part)

Split(contents) ==
  LET after[i \in 0..Len(contents)] ==
        IF i = 0 THEN [parts |-> <<>>, part |-> <<>>]
        ELSE LET so == after[i - 1] IN
             IF contents[i] = LF THEN [parts |-> WithPart(so), part |-> <<>>]
             ELSE [parts |-> so.parts, part |-> Append(so.part, contents[i])]
  IN WithPart(after[Len(contents)])

\* Of an empty file there is no last character to look at: that is undefined.
ReadLastLines(n) ==
  /\ mode = "r" /\ chars # <<>>
  /\ LET from == Max({0, Len(chars) - n * LastBlock})
         block == SubSeq(chars, from + 1, Len(chars))
         contents == IF Last(block) = LF THEN Front(block) ELSE block
         \* the n-th end of a line from the back; the first character if there are fewer
         stops == {i \in DOMAIN contents :
                     contents[i] = LF /\ Cardinality({k \in i .. Len(contents) : contents[k] = LF}) = n}
         at == Max(stops \cup {1}) - 1
     IN lineRead' = [call |-> "last", n |-> n,
                     lines |-> Split(SubSeq(contents, (IF at > 0 THEN at + 1 ELSE 0) + 1, Len(contents)))]
  /\ cursor' = Len(chars)
  /\ taken' = Len(written)
  /\ UNCHANGED <<chars, mode, written>>

LineInit ==
  /\ chars = <<>> /\ mode = "closed" /\ cursor = 0
  /\ lineRead = NoCall /\ written = <<>> /\ taken = 0

LineNext ==
  \/ \E m \in {"w", "a", "wd", "ad", "r"} : OpenText(m)
  \/ CloseText
  \/ \E line \in LineTexts : WriteLine(line)
  \/ ReadLine
  \/ \E max \in 0..2 : ReadFileIntoVector(max)
  \/ \E n \in 1..2 : ReadLastLines(n)

-----------------------------------------------------------------------------
\* That a line and its end are in the buffer at once
Fits(line) == Len(line.text) + Len(line.end) < LineBuffer

TextsOf(lines) == [i \in DOMAIN lines |-> lines[i].text]
LastOf(lines, n) == SubSeq(lines, Max({0, Len(lines) - n}) + 1, Len(lines))
LengthOf(lines) ==
  LET sum[i \in 0..Len(lines)] ==
        IF i = 0 THEN 0 ELSE sum[i - 1] + Len(lines[i].text) + Len(lines[i].end)
  IN sum[Len(lines)]

\* The lines with anything before the last character of their ends
Said(lines) ==
  LET said[i \in 0..Len(lines)] ==
        IF i = 0 THEN <<>>
        ELSE LET before == said[i - 1] word == lines[i].text \o Front(lines[i].end)
             IN IF word = <<>> THEN before ELSE Append(before, word)
  IN said[Len(lines)]

\* The lines that were written are read, each once and with neither of its ends, as
\* long as they fit into the buffer: one that exactly fills it is followed by an
\* empty one.  ReadFileIntoVector stops at its limit, and ReadLine at the end.
\* ReadLastLinesIntoVector returns those with a text among the last lines of the file,
\* in DOS mode with the first character of their ends, if LastBlock for each is enough.
LinesReadBack ==
  lineRead # NoCall =>
    /\ lineRead.call = "ReadLine" /\ (\A i \in DOMAIN written : Fits(written[i])) =>
         /\ taken <= Len(written)
         /\ lineRead.lines # <<>> => lineRead.lines = <<written[taken].text>>
         /\ lineRead.lines = <<>> => taken = Len(written)
    /\ lineRead.call = "vector" /\ (\A i \in DOMAIN written : Fits(written[i])) =>
         LET rest == SubSeq(written, lineRead.from + 1, Len(written)) IN
         lineRead.lines =
           TextsOf(IF lineRead.max <= 0 THEN rest
                   ELSE SubSeq(rest, 1, Min({lineRead.max, Len(rest)})))
    /\ lineRead.call = "last" =>
         LET last == LastOf(written, lineRead.n) IN
         LengthOf(last) <= lineRead.n * LastBlock => lineRead.lines = Said(last)

=============================================================================
