---------------------------- MODULE Configuration ----------------------------
(***************************************************************************)
(* A program's settings: its command line, with defaults from an INI file  *)
(* (src/core/command_line.cpp, inifile.cpp).  The file is read before or   *)
(* after the command line is parsed, and each default may be replaced once *)
(* from then on.  The calls are made one after the other.                  *)
(***************************************************************************)
EXTENDS IniText, CommandLine

CONSTANTS
  Cases  \* what a program may start with: words, an INI file, and what was meant by it

\* What was meant by a file are the entries that its lines are, up to which line each.
ASSUME CasesAssumption ==
  \A case \in Cases :
    /\ Len(case.words) \in Nat
    /\ case.meant # Nothing => WrittenAs(case.file.lines, case.meant.entries, case.meant.ends)

VARIABLES
  meant,    \* the entries the file was written as, or Nothing
  replaced  \* history: the keys whose default was replaced

vars == <<iniVars, clVars, meant, replaced>>

Init ==
  \E case \in Cases :
    /\ IniInit(case.file)
    /\ meant = case.meant
    /\ CommandLineInit(case.words)
    /\ replaced = {}

ReadFile ==
  /\ state # "parsing" /\ ReadIni
  /\ UNCHANGED <<clVars, meant, replaced>>

CommandLineStep ==
  /\ ini = "reading" => row = 1
  /\ (BuildTree \/ ParseArgs \/ Execute)
  /\ UNCHANGED <<iniVars, meant, replaced>>

\* What SetNewStringDefault and SetNewBooleanDefault find in the file
FromFile(key) ==
  IF key \notin Booleans THEN GetStringValue(key, Text(Root, key))
  ELSE IF GetBooleanValue(key, Bool(Root, key)) THEN <<"Y">> ELSE <<"N">>

TakeDefault(key) ==
  /\ ini # "reading" /\ key \notin replaced
  /\ SetNewDefault(key, FromFile(key))
  /\ replaced' = replaced \cup {key}
  /\ UNCHANGED <<iniVars, meant>>

Next == ReadFile \/ CommandLineStep \/ \E key \in Keys : TakeDefault(key)
Spec == Init /\ [][Next]_vars

-----------------------------------------------------------------------------
(* Properties *)

\* What is written into an INI file is found in it: values in quotes and without,
\* comments, and long values with lines that look like settings, headers or
\* comments, in whatever order, and of two values of a key the later one.
SettingsReadBack ==
  ini = "read" /\ meant # Nothing =>
    \A key \in Keys :
      LET in == {i \in DOMAIN Sections : SettingsOf(meant.entries, Sections[i], key) # {}} IN
      /\ Holding(key) = in
      /\ in # {} => Value(key) = SaidIn(meant.entries, Sections[Min(in)], key)

\* Every command got all words: none was added to its parent before the parent was.
TopDown == \A c \in Commands : \A d \in children[c] : raw[d] = raw[c]

\* In a tree built from the top, each word of the command line is consumed exactly
\* once, though calls of Parse for several commands go over the same words and each
\* returns a place for its caller to go on from.  (A command that was given its own
\* commands before it was added has none of the words, returns 0, and its parent
\* starts again.)
EveryWordOnce ==
  state = "parsed" /\ TopDown =>
    \A i \in 2 .. Len(raw[Root]) :
      raw[Root][i].form = "empty" \/ Cardinality({u \in DOMAIN uses : uses[u] = i}) = 1

\* The values that the command line gives to an argument of the root: those before
\* the first word that is a command or positional
Given(key) ==
  LET w == raw[Root]
      own == {i \in 2 .. Len(w) : \A j \in 2 .. i : w[j].form \notin {"word", "dashes"}}
  IN {i \in own : \/ w[i].form = "long" /\ w[i].key = key
                  \/ w[i].form = "short" /\ w[i].key = key /\ key \in Lettered
                  \/ w[i].form = "dot" /\ DotKey = key}

\* The command line comes before the INI file, and the file before the environment
\* and the built-in default, whether the file is read before or after the command
\* line is parsed.
GivenBeatsDefaults ==
  state = "parsed" =>
    \A key \in allowed[Root] :
      LET value == args[Root][key].value
          found == IF ini = "read" THEN Holding(key) ELSE {}
          given == Given(key)
      IN IF given # {} THEN value = Stored(key, raw[Root][Max(given)].value)
         ELSE IF key \in replaced /\ found # {}
         THEN value = (IF key \in Booleans
                       THEN (IF IsTrue(Value(key)) THEN <<"true">> ELSE <<"false">>)
                       ELSE Value(key))
         ELSE value \in {Initially[key], Stored(key, Initially[key])}

=============================================================================
