----------------------------- MODULE CommandLine -----------------------------
(***************************************************************************)
(* The command line (src/core/command_line.cpp): a tree of commands, each  *)
(* with the arguments it allows, is built, the words of the command line   *)
(* are parsed by the root and by the commands chosen among them, and       *)
(* defaults may be replaced before and afterwards.                         *)
(*                                                                         *)
(* A word is a record with its form and what the form carries: a long or   *)
(* short argument has a key and a value, a dot argument a value, a plain   *)
(* word a name.  Of a long argument's value that has an '=' in it the      *)
(* value is the part before.  Values are sequences, as IniFile has them.   *)
(***************************************************************************)
EXTENDS Integers, Sequences, FiniteSets, FiniteSetsExt, TLC

CONSTANTS
  Root,       \* the CommandLine
  Commands,   \* all commands; a command's name is the command
  Parent,     \* the place of each other command in the tree
  Arguments,  \* the arguments each command is given
  Booleans,   \* those that are boolean, of any command
  Lettered,   \* those that have a letter; the letters differ
  Lenient,    \* the commands with unknown_args_allowed
  DotKey,     \* dot_argument, or Nothing
  Initially,  \* the default of each argument, after a look into the environment
  Nothing     \* no command, no key, no value

Keys == UNION {Arguments[c] : c \in Commands}

\* A boolean argument has no environment variable.
ASSUME CommandLineAssumption ==
  /\ Root \in Commands /\ Parent \in [Commands \ {Root} -> Commands] /\ Nothing \notin Keys
  /\ \A key \in Booleans : Initially[key] \in {<<"true">>, <<"false">>}

VARIABLES
  raw,        \* raw_args_ of each command
  allowed,    \* args_allowed_
  children,   \* commands_allowed_
  args,       \* args_: a value and whether it is a default, or Nothing
  remaining,  \* remaining_
  command,    \* command_
  frames,     \* the calls of Parse, each with the loop's i
  state,      \* of the root: "building", "parsing", "parsed" or "failed"
  bbsdir,     \* the copy of an argument that CommandLine keeps
  executed,   \* what Execute did, once it was called
  uses        \* history: the places in the command line that were consumed, in turn

clVars ==
  <<raw, allowed, children, args, remaining, command, frames, state, bbsdir, executed, uses>>

Frame == frames[Len(frames)]
C == Frame.command
Word == raw[C][Frame.i]
Parsing == frames # <<>> /\ Frame.i <= Len(raw[C])

\* The default of a boolean is stored as it is; a value is made "true" or "false".
Stored(key, value) ==
  IF key \notin Booleans THEN value
  ELSE IF value \in {<<"N">>, <<"n">>, <<"0">>, <<"false">>} THEN <<"false">> ELSE <<"true">>

\* Mutation: the argument is erased, and an empty value not put in its place.
SetErasing(c, key, value, default) ==
  args' = [args EXCEPT ![c][key] =
             IF key \in allowed[c] /\ value # <<>>
             THEN [value |-> Stored(key, value), default |-> default] ELSE Nothing]

\* SetCommandLineArgument erases what it cannot replace.
Set(c, key, value, default) ==
  args' = [args EXCEPT ![c][key] =
             IF key \in allowed[c] THEN [value |-> Stored(key, value), default |-> default] ELSE Nothing]

Bool(c, key) == args[c][key] # Nothing /\ args[c][key].value = <<"true">>
Text(c, key) == IF args[c][key] = Nothing THEN <<>> ELSE args[c][key].value

-----------------------------------------------------------------------------
(* Building the tree *)

AddArgument(c, key) ==
  /\ state = "building" /\ key \in Arguments[c] \ allowed[c]
  /\ allowed' = [allowed EXCEPT ![c] = @ \cup {key}]
  /\ args' = [args EXCEPT ![c][key] =
                IF @ = Nothing THEN [value |-> Initially[key], default |-> TRUE] ELSE @]
  /\ UNCHANGED <<raw, children, remaining, command, frames, state, bbsdir, executed, uses>>

\* A command gets a copy of the words its parent has at that time.
Add(c) ==
  /\ state = "building" /\ c # Root /\ c \notin children[Parent[c]]
  /\ raw' = [raw EXCEPT ![c] = raw[Parent[c]]]
  /\ children' = [children EXCEPT ![Parent[c]] = @ \cup {c}]
  /\ UNCHANGED <<allowed, args, remaining, command, frames, state, bbsdir, executed, uses>>

-----------------------------------------------------------------------------
(* CommandLineCommand::Parse *)

StartParse ==
  /\ state = "building" /\ allowed = Arguments
  /\ state' = "parsing"
  /\ frames' = <<[command |-> Root, i |-> 2]>>
  /\ UNCHANGED <<raw, allowed, children, args, remaining, command, bbsdir, executed, uses>>

Taking(n) == uses' = uses \o [k \in 1..n |-> Frame.i + k - 1]
GoOn(i) == frames' = [frames EXCEPT ![Len(frames)].i = i]

\* unknown_argument_error ends all calls; what was set stays set.
Unknown ==
  IF C \in Lenient
  THEN GoOn(Frame.i + 1) /\ UNCHANGED state /\ UNCHANGED args
  ELSE frames' = <<>> /\ state' = "failed" /\ UNCHANGED args

ParseEmpty ==
  /\ Parsing /\ Word.form = "empty"
  /\ GoOn(Frame.i + 1)
  /\ UNCHANGED <<raw, allowed, children, args, remaining, command, state, bbsdir, executed, uses>>

\* "-" on its own is an error for lenient commands as well.
ParseBare ==
  /\ Parsing /\ Word.form = "bare"
  /\ frames' = <<>> /\ state' = "failed"
  /\ UNCHANGED <<raw, allowed, children, args, remaining, command, bbsdir, executed, uses>>

ParseArgument ==
  /\ Parsing /\ Word.form \in {"long", "short"}
  /\ IF Word.key \in allowed[C] /\ (Word.form = "long" \/ Word.key \in Lettered)
     THEN Set(C, Word.key, Word.value, FALSE) /\ GoOn(Frame.i + 1) /\ UNCHANGED state
     ELSE Unknown
  /\ Taking(1)
  /\ UNCHANGED <<raw, allowed, children, remaining, command, bbsdir, executed>>

ParseDot ==
  /\ Parsing /\ Word.form = "dot"
  /\ IF DotKey # Nothing THEN Set(C, DotKey, Word.value, FALSE) ELSE UNCHANGED args
  /\ GoOn(Frame.i + 1)
  /\ Taking(1)
  /\ UNCHANGED <<raw, allowed, children, remaining, command, state, bbsdir, executed>>

\* After "--", or from the first word on that is no command, all is positional.
ParsePositional ==
  /\ Parsing
  /\ Word.form = "dashes" \/ (Word.form = "word" /\ Word.name \notin children[C])
  /\ LET from == IF Word.form = "dashes" THEN Frame.i + 1 ELSE Frame.i IN
     remaining' = [remaining EXCEPT ![C] = @ \o SubSeq(raw[C], from, Len(raw[C]))]
  /\ GoOn(Len(raw[C]) + 1)
  /\ Taking(Len(raw[C]) - Frame.i + 1)
  /\ UNCHANGED <<raw, allowed, children, args, command, state, bbsdir, executed>>

ParseCommand ==
  /\ Parsing /\ Word.form = "word" /\ Word.name \in children[C]
  /\ command' = [command EXCEPT ![C] = Word.name]
  /\ frames' = Append(frames, [command |-> Word.name, i |-> Frame.i + 1])
  /\ Taking(1)
  /\ UNCHANGED <<raw, allowed, children, args, remaining, state, bbsdir, executed>>

\* Mutation: the result of the command's Parse is not assigned to i.
ParseReturnIgnored ==
  /\ Len(frames) > 1 /\ ~Parsing
  /\ LET outer == SubSeq(frames, 1, Len(frames) - 1) IN
     frames' = [outer EXCEPT ![Len(outer)].i = @ + 1]
  /\ UNCHANGED <<raw, allowed, children, args, remaining, command, state, bbsdir, executed, uses>>

\* A command returns the number of its own words, and its parent goes on behind it.
ParseReturn ==
  /\ Len(frames) > 1 /\ ~Parsing
  /\ LET outer == SubSeq(frames, 1, Len(frames) - 1) IN
     frames' = [outer EXCEPT ![Len(outer)].i = Len(raw[C]) + 2]
  /\ UNCHANGED <<raw, allowed, children, args, remaining, command, state, bbsdir, executed, uses>>

\* no_args_allowed is left at false.
ParseEnd ==
  /\ Len(frames) = 1 /\ ~Parsing
  /\ frames' = <<>>
  /\ IF Len(raw[Root]) <= 1
     THEN state' = "failed" /\ UNCHANGED bbsdir
     ELSE state' = "parsed" /\ bbsdir' = Text(Root, "bbsdir")
  /\ UNCHANGED <<raw, allowed, children, args, remaining, command, executed, uses>>

-----------------------------------------------------------------------------
\* Mutation: a default may replace what was given.
SetNewDefaultAlways(key, value) ==
  /\ state # "parsing" /\ args[Root][key] # Nothing
  /\ Set(Root, key, value, TRUE)
  /\ UNCHANGED <<raw, allowed, children, remaining, command, frames, state, bbsdir, executed, uses>>

\* SetNewStringDefault and its like; bbsdir is not read again.
SetNewDefault(key, value) ==
  /\ state # "parsing" /\ args[Root][key] # Nothing /\ args[Root][key].default
  /\ Set(Root, key, value, TRUE)
  /\ UNCHANGED <<raw, allowed, children, remaining, command, frames, state, bbsdir, executed, uses>>

\* The base class's Execute, down to the command that was chosen last
Chosen[c \in Commands] ==
  IF command[c] = Nothing \/ Bool(c, "help") THEN c ELSE Chosen[command[c]]

Execute ==
  /\ state = "parsed" /\ executed = Nothing
  /\ executed' = LET c == Chosen[Root] IN
                 [command |-> c,
                  did |-> IF Bool(c, "help") THEN "help"
                          ELSE IF c = Root \/ remaining[c] # <<>> THEN "invalid" ELSE "nothing"]
  /\ UNCHANGED <<raw, allowed, children, args, remaining, command, frames, state, bbsdir, uses>>

BuildTree ==
  \E c \in Commands : Add(c) \/ \E key \in Arguments[c] : AddArgument(c, key)
ParseArgs ==
  \/ StartParse \/ ParseEmpty \/ ParseBare \/ ParseArgument \/ ParseDot \/ ParsePositional
  \/ ParseCommand \/ ParseReturn \/ ParseEnd

CommandLineInit(words) ==
  /\ raw = [c \in Commands |-> IF c = Root THEN words ELSE <<>>]
  /\ allowed = [c \in Commands |-> {}]
  /\ children = [c \in Commands |-> {}]
  /\ args = [c \in Commands |-> [k \in Keys |-> Nothing]]
  /\ remaining = [c \in Commands |-> <<>>]
  /\ command = [c \in Commands |-> Nothing]
  /\ frames = <<>>
  /\ state = "building"
  /\ bbsdir = <<>>
  /\ executed = Nothing
  /\ uses = <<>>

=============================================================================
