------------------------------- MODULE IniText -------------------------------
(***************************************************************************)
(* What an INI file says, for who writes it: a sequence of entries, each   *)
(* some lines.  An entry is a header, a setting with a value as it is, in  *)
(* quotes or over several lines, or a remark.  The reference for IniFile,  *)
(* which reads line by line.                                               *)
(***************************************************************************)
EXTENDS IniFile

CONSTANT Symbols  \* what lines consist of

Settings == {"plain", "quoted", "long"}

BlankBut(line, from, to) == \A i \in DOMAIN line : i \in from .. to \/ line[i] = " "
QuotesAt(line, i) == i + 2 <= Len(line) /\ \A j \in i .. i + 2 : line[j] = Quote
NoQuotes(line, from, to) == \A i \in from .. to - 2 : ~QuotesAt(line, i)

\* A header is in brackets, and nothing is behind it.
HeaderLineOf(line, name) ==
  \E from, to \in DOMAIN line :
    /\ from < to /\ BlankBut(line, from, to)
    /\ line[from] = "[" /\ line[to] = "]" /\ name = SubSeq(line, from + 1, to - 1)

\* The value of a setting is behind its key and "=", between blanks and before a comment.
SettingLineOf(line, key, from, to) ==
  \E k, e \in DOMAIN line, end \in 1 .. Len(line) + 1 :
    /\ k < e /\ e < from /\ from <= to + 1 /\ to < end
    /\ line[k] = key /\ line[e] = "=" /\ (end <= Len(line) => line[end] = ";")
    /\ \A i \in 1 .. end - 1 : i \in {k, e} \cup (from .. to) \/ line[i] = " "
    /\ \A i \in from .. to : line[i] # ";"
    /\ from <= to => line[from] # " " /\ line[to] # " "

PlainLineOf(line, key, text) ==
  \E from, to \in 0 .. Len(line) + 1 :
    /\ SettingLineOf(line, key, from, to) /\ NoQuotes(line, from, to)
    /\ ~(from < to /\ line[from] = Quote /\ line[to] = Quote)
    /\ text = SubSeq(line, from, to)

QuotedLineOf(line, key, text) ==
  \E from, to \in DOMAIN line :
    /\ SettingLineOf(line, key, from, to) /\ NoQuotes(line, from, to)
    /\ from < to /\ line[from] = Quote /\ line[to] = Quote
    /\ text = SubSeq(line, from + 1, to - 1)

\* A long value begins behind three quotes, ...
OpeningLineOf(line, key, text) ==
  \E from, to \in DOMAIN line :
    /\ SettingLineOf(line, key, from, to) /\ QuotesAt(line, from) /\ NoQuotes(line, from + 3, to)
    /\ from + 2 <= to /\ text = SubSeq(line, from + 3, to)

\* ... goes on over lines that may look like anything, ...
InnerLineOf(line, text) ==
  \/ BlankBut(line, 1, 0) /\ text = <<>>
  \/ \E from, to \in DOMAIN line :
       /\ from <= to /\ BlankBut(line, from, to) /\ NoQuotes(line, from, to)
       /\ line[from] # " " /\ line[to] # " " /\ text = SubSeq(line, from, to)

\* ... and ends before three quotes; what is behind them is lost.
ClosingLineOf(line, text) ==
  \E from, close \in DOMAIN line :
    /\ from <= close /\ QuotesAt(line, close) /\ (\A i \in 1 .. close - 1 : ~QuotesAt(line, i))
    /\ line[from] # " " /\ (\A i \in 1 .. from - 1 : line[i] = " ")
    /\ text = SubSeq(line, from, close - 1)

\* A remark is blank, or says nothing before its comment, and does not look like a header.
RemarkLineOf(line) ==
  \/ BlankBut(line, 1, 0)
  \/ \E first \in DOMAIN line, end \in 1 .. Len(line) + 1 :
       /\ line[first] \notin {" ", "["} /\ (\A i \in 1 .. first - 1 : line[i] = " ")
       /\ (end <= Len(line) => line[end] = ";") /\ \A i \in 1 .. end - 1 : line[i] \notin {"=", ";"}

\* That the lines of an entry say what is in it
EntryOK(entry) ==
  LET ls == entry.lines n == Len(entry.lines) IN
  /\ ls \in Seq(Seq(Symbols)) /\ n > 0
  /\ entry.kind = "header" => n = 1 /\ HeaderLineOf(ls[1], entry.name)
  /\ entry.kind \in Settings =>
       /\ entry.key \notin {" ", "=", ";", "["} /\ entry.texts \in Seq(Seq(Symbols)) /\ Len(entry.texts) = n
  /\ entry.kind = "plain" => n = 1 /\ PlainLineOf(ls[1], entry.key, entry.texts[1])
  /\ entry.kind = "quoted" => n = 1 /\ QuotedLineOf(ls[1], entry.key, entry.texts[1])
  /\ entry.kind = "long" =>
       /\ n > 1 /\ OpeningLineOf(ls[1], entry.key, entry.texts[1])
       /\ \A k \in 2 .. n - 1 : InnerLineOf(ls[k], entry.texts[k])
       /\ ClosingLineOf(ls[n], entry.texts[n])
  /\ entry.kind \notin Settings \cup {"header"} => \A k \in 1 .. n : RemarkLineOf(ls[k])

\* That a file is one entry behind the other, the i-th up to ends[i]
WrittenAs(file, entries, ends) ==
  /\ Len(entries) \in Nat /\ DOMAIN entries = 1 .. Len(entries)
  /\ \A i \in DOMAIN entries : EntryOK(entries[i])
  /\ DOMAIN ends = 0 .. Len(entries) /\ ends[0] = 0 /\ ends[Len(entries)] = Len(file)
  /\ \A i \in DOMAIN entries :
       /\ ends[i] = ends[i - 1] + Len(entries[i].lines)
       /\ \A k \in DOMAIN entries[i].lines : file[ends[i - 1] + k] = entries[i].lines[k]

\* The first k texts of an entry, each in a line of its own but for blank ones
WithLine(text, line) == IF text = <<>> THEN line ELSE Append(text, NewLine) \o line
TextOf(entry, k) ==
  LET n == Len(entry.texts)
      text[j \in 0 .. n] ==
        IF j = 0 THEN <<>>
        ELSE IF j < n /\ entry.texts[j] = <<>> THEN text[j - 1]
        ELSE WithLine(text[j - 1], entry.texts[j])
  IN text[k]

\* The header that an entry is under
HeaderOf(entries, i) ==
  LET headers == {h \in 1 .. i : entries[h].kind = "header"}
  IN IF headers = {} THEN <<>> ELSE entries[Max(headers)].name

SettingsIn(entries, n) == {i \in 1 .. n : entries[i].kind \in Settings}
KeyOf(entries, i) == <<HeaderOf(entries, i), <<entries[i].key>>>>

\* The settings of a key, of which the last counts
SettingsOf(entries, name, key) == {i \in SettingsIn(entries, Len(entries)) : KeyOf(entries, i) = <<name, <<key>>>>}
SaidIn(entries, name, key) ==
  LET entry == entries[Max(SettingsOf(entries, name, key))] IN TextOf(entry, Len(entry.texts))

=============================================================================
