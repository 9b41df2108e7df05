------------------------------- MODULE IniFile -------------------------------
(***************************************************************************)
(* Reading an INI file (src/core/inifile.cpp): ParseIniFile, one step per  *)
(* line, and the values the class finds afterwards in the sections it was  *)
(* given.                                                                  *)
(*                                                                         *)
(* A line is a sequence of symbols: a word is one symbol, and so is each   *)
(* blank and each of the characters the parser looks for.                  *)
(***************************************************************************)
EXTENDS Integers, Sequences, FiniteSets, FiniteSetsExt

CONSTANT Sections  \* IniFile::sections_, where values are looked for, in this order

ASSUME SectionsAssumption == DOMAIN Sections \subseteq Nat

VARIABLES
  lines,      \* of the file
  row,        \* of the line to be read next
  multiline,  \* in_multiline_string
  fullKey,    \* the key of the last setting, with its section
  section,    \* of the last header
  data,       \* the values by full key
  ini         \* "reading" or "read"; "missing" if there is no file

iniVars == <<lines, row, multiline, fullKey, section, data, ini>>

Quote == "\""
ThreeQuotes == <<Quote, Quote, Quote>>
NewLine == "\r\n"

\* StringTrim
Trim(s) ==
  LET kept == {i \in DOMAIN s : s[i] # " "}
  IN IF kept = {} THEN <<>> ELSE SubSeq(s, Min(kept), Max(kept))

\* std::string::find, with 0 for npos
Find(s, p) ==
  LET found == {i \in 1 .. Len(s) - Len(p) + 1 : SubSeq(s, i, i + Len(p) - 1) = p}
  IN IF found = {} THEN 0 ELSE Min(found)

Before(s, i) == IF i = 0 THEN s ELSE SubSeq(s, 1, i - 1)
After(s, i) == SubSeq(s, i + 1, Len(s))

Line == Trim(lines[row])
Reading == ini = "reading" /\ row <= Len(lines)
Proceed == row' = row + 1 /\ UNCHANGED <<lines, ini>>

-----------------------------------------------------------------------------
BlankLine ==
  /\ Reading /\ Line = <<>>
  /\ Proceed
  /\ UNCHANGED <<multiline, fullKey, section, data>>

\* Mutation: a comment is cut off inside long values as well.
ValueLineCutting ==
  /\ Reading /\ Line # <<>> /\ multiline
  /\ LET cut == Trim(Before(Line, Find(Line, <<";">>)))
         close == Find(cut, ThreeQuotes)
         old == data[fullKey]
     IN /\ multiline' = (close = 0)
        /\ data' = [data EXCEPT ![fullKey] =
                      (IF old = <<>> THEN old ELSE Append(old, NewLine)) \o Before(cut, close)]
  /\ Proceed
  /\ UNCHANGED <<fullKey, section>>

\* Nothing but the closing quotes is looked for inside a long value.
ValueLine ==
  /\ Reading /\ Line # <<>> /\ multiline
  /\ LET close == Find(Line, ThreeQuotes)
         old == data[fullKey]
     IN /\ multiline' = (close = 0)
        /\ data' = [data EXCEPT ![fullKey] =
                      (IF old = <<>> THEN old ELSE Append(old, NewLine)) \o Before(Line, close)]
  /\ Proceed
  /\ UNCHANGED <<fullKey, section>>

\* A header with a comment behind it is not a header.
IsHeader(line) == line[1] = "[" /\ line[Len(line)] = "]"

HeaderLine ==
  /\ Reading /\ Line # <<>> /\ ~multiline /\ IsHeader(Line)
  /\ section' = SubSeq(Line, 2, Len(Line) - 1)
  /\ Proceed
  /\ UNCHANGED <<multiline, fullKey, data>>

Unquoted(value) ==
  IF Len(value) >= 2 /\ value[1] = Quote /\ value[Len(value)] = Quote
  THEN SubSeq(value, 2, Len(value) - 1) ELSE value

\* A setting, or a line that means nothing.  What follows three quotes begins a
\* long value, also when three quotes close it on the same line.
SettingLine ==
  /\ Reading /\ Line # <<>> /\ ~multiline /\ ~IsHeader(Line)
  /\ LET said == Before(Line, Find(Line, <<";">>))
         equals == Find(said, <<"=">>)
         value == Trim(After(said, equals))
         open == Find(value, ThreeQuotes)
         key == <<section, Trim(Before(said, equals))>>
     IN IF equals = 0 THEN UNCHANGED <<multiline, fullKey, data>>
        ELSE /\ multiline' = (open # 0)
             /\ fullKey' = key
             /\ data' = [k \in DOMAIN data \cup {key} |->
                           IF k # key THEN data[k]
                           ELSE IF open # 0 THEN After(value, open + 2) ELSE Unquoted(value)]
  /\ Proceed
  /\ UNCHANGED section

IniEnd ==
  /\ ini = "reading" /\ row > Len(lines)
  /\ ini' = "read"
  /\ UNCHANGED <<lines, row, multiline, fullKey, section, data>>

ReadIni == BlankLine \/ ValueLine \/ HeaderLine \/ SettingLine \/ IniEnd

IniInit(file) ==
  /\ lines = file.lines
  /\ row = 1
  /\ multiline = FALSE
  /\ fullKey = <<>> /\ section = <<>>
  /\ data = <<>>
  /\ ini = IF file.exists THEN "reading" ELSE "missing"

\* IniFile::GetValue: the places of the sections that have a value
Holding(key) == {i \in DOMAIN Sections : <<Sections[i], <<key>>>> \in DOMAIN data}
Value(key) == data[<<Sections[Min(Holding(key))], <<key>>>>]

\* StringToBoolean
IsTrue(value) == value # <<>> /\ value[1] \in {"Y", "T", "1"}

GetStringValue(key, default) == IF Holding(key) = {} THEN default ELSE Value(key)
GetBooleanValue(key, default) == IF Holding(key) = {} THEN default ELSE IsTrue(Value(key))

=============================================================================
