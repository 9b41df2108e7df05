------------------------------- MODULE Logger -------------------------------
(***************************************************************************)
(* Log messages (src/core/log.cpp) of programs that share a log file, as   *)
(* two that run the same binary do.  A message is logged when its Logger   *)
(* is destroyed: to each appender of its level, of which the log file's    *)
(* opens, locks, writes and closes the file through TextFile.              *)
(*                                                                         *)
(* A file that does not open is logged in turn, by TextFile, as a verbose  *)
(* message: that is why a program has a stack of messages.  A message's    *)
(* text is written in Blocks blocks, the last of which ends the line.      *)
(***************************************************************************)
EXTENDS Integers, Sequences, Functions

CONSTANTS
  Loggers,     \* the programs
  MaxMessages, \* bound: how many messages there are before no other is begun
  StartupLines, \* how many messages StartupLog logs, 2 or 3 in the code
  MaxDepth,    \* how many messages its stack has room for
  Blocks

ASSUME BlocksAssumption == Blocks \in Nat \ {0}

VARIABLES
  logText,     \* the log file: blocks, each of a message of a program
  logLock,     \* the flock of each program
  openable,    \* whether the log file can be opened
  config,      \* the appenders Init registered, or None before it
  verbosity,   \* config_.cmdline_verbosity
  startup,     \* messages of StartupLog that are still to come
  logging,     \* the messages under way, the innermost first
  console,     \* what was written to stderr: numbers of messages
  said,        \* history: the appenders that each message was for
  missed,      \* history: those for which the file did not open
  program      \* "running", "aborted" by a fatal message, "overflown" or "killed"

logVars ==
  <<logText, logLock, openable, config, verbosity, startup, logging, console, said, missed, program>>

None == {"none"}
Levels == {"start", "info", "verbose", "fatal"}  \* warnings and errors are as info

Up(p) == program[p] = "running"
Top(p) == Head(logging[p])
InLog(p, at) == Up(p) /\ logging[p] # <<>> /\ Top(p).at = at

\* Startup messages go to the log file only.
AppendersOf(p, level) ==
  IF config[p] = None THEN {}
  ELSE IF level = "start" THEN config[p] \cap {"file"} ELSE config[p]

\* A level without appenders is for the console, if there is one.
DueTo(p, level) ==
  IF config[p] # None /\ AppendersOf(p, level) = {} THEN {"console"} ELSE AppendersOf(p, level)

\* The destructor of a Logger begins.  Verbose messages have the verbosity 1 here.
BeginMessage(p, level, rest) ==
  IF level = "verbose" /\ verbosity[p] < 1
  THEN logging' = [logging EXCEPT ![p] = rest] /\ UNCHANGED <<said, program>>
  ELSE IF Len(rest) = MaxDepth
  THEN program' = [program EXCEPT ![p] = "overflown"] /\ UNCHANGED <<said, logging>>
  ELSE /\ said' = [said EXCEPT ![p] = Append(@, DueTo(p, level))]
       /\ logging' = [logging EXCEPT ![p] =
            <<[level |-> level, nr |-> Len(said[p]) + 1, todo |-> DueTo(p, level), at |-> "loop", pos |-> 0]>>
              \o rest]
       /\ UNCHANGED program

\* Logger::Init, with the appenders of its LoggerConfig, which is the same for all
\* who run the binary, and the verbosity and startup log of its command line
InitLogger(p) ==
  /\ Up(p) /\ config[p] = None /\ logging[p] = <<>>
  /\ \E to \in SUBSET {"console", "file"} :
       /\ \A q \in Loggers : config[q] \in {None, to}
       /\ config' = [config EXCEPT ![p] = to]
  /\ \E v \in 0..1 : verbosity' = [verbosity EXCEPT ![p] = v]
  /\ \E log_startup \in BOOLEAN : startup' = [startup EXCEPT ![p] = IF log_startup THEN StartupLines ELSE 0]
  /\ UNCHANGED <<logText, logLock, openable, logging, console, said, missed, program>>

StartupLog(p) ==
  /\ Up(p) /\ logging[p] = <<>> /\ startup[p] > 0
  /\ BeginMessage(p, "start", <<>>)
  /\ startup' = [startup EXCEPT ![p] = @ - 1]
  /\ UNCHANGED <<logText, logLock, openable, config, verbosity, console, missed>>

Messages == FoldFunction(LAMBDA numbers, n : Len(numbers) + n, 0, said)

\* LOG or VLOG in the program, also before Init
LogMessage(p, level) ==
  /\ Up(p) /\ logging[p] = <<>> /\ startup[p] = 0 /\ Messages < MaxMessages
  /\ BeginMessage(p, level, <<>>)
  /\ UNCHANGED <<logText, logLock, openable, config, verbosity, startup, console, missed>>

-----------------------------------------------------------------------------
(* The appenders, in the order in which the unordered_set has them *)

AppendToConsole(p) ==
  /\ InLog(p, "loop") /\ "console" \in Top(p).todo
  /\ console' = [console EXCEPT ![p] = Append(@, Top(p).nr)]
  /\ logging' = [logging EXCEPT ![p][1].todo = @ \ {"console"}]
  /\ UNCHANGED <<logText, logLock, openable, config, verbosity, startup, said, missed, program>>

\* TextFile's constructor: fopen for appending
OpenLog(p) ==
  /\ InLog(p, "loop") /\ "file" \in Top(p).todo /\ openable
  /\ logging' = [logging EXCEPT ![p][1].todo = @ \ {"file"}, ![p][1].at = "lock"]
  /\ UNCHANGED <<logText, logLock, openable, config, verbosity, startup, console, said, missed, program>>

\* OpenImpl logs that fopen failed; append returns false, which nobody looks at.
OpenLogFails(p) ==
  /\ InLog(p, "loop") /\ "file" \in Top(p).todo /\ ~openable
  /\ missed' = [missed EXCEPT ![p] = @ \cup {Top(p).nr}]
  /\ BeginMessage(p, "verbose", <<[Top(p) EXCEPT !.todo = @ \ {"file"}]>> \o Tail(logging[p]))
  /\ UNCHANGED <<logText, logLock, openable, config, verbosity, startup, console>>

\* Mutation: appending asks for the lock of readers.
AppendShared == "shared"

\* OpenImpl's flock for the mode "a"
AppendLock == "exclusive"

LockLog(p) ==
  /\ InLog(p, "lock")
  /\ \A q \in Loggers \ {p} :
       IF AppendLock = "exclusive" THEN logLock[q] = "none" ELSE logLock[q] # "exclusive"
  /\ logLock' = [logLock EXCEPT ![p] = AppendLock]
  /\ logging' = [logging EXCEPT ![p][1].at = "write"]
  /\ UNCHANGED <<logText, openable, config, verbosity, startup, console, said, missed, program>>

\* WriteLine: write() at the end of the file, wherever that is by now
WriteLog(p) ==
  /\ InLog(p, "write") /\ Top(p).pos < Blocks
  /\ logText' = Append(logText, [by |-> p, nr |-> Top(p).nr, part |-> Top(p).pos + 1])
  /\ logging' = [logging EXCEPT ![p][1].pos = @ + 1]
  /\ UNCHANGED <<logLock, openable, config, verbosity, startup, console, said, missed, program>>

CloseLog(p) ==
  /\ InLog(p, "write") /\ Top(p).pos = Blocks
  /\ logLock' = [logLock EXCEPT ![p] = "none"]
  /\ logging' = [logging EXCEPT ![p][1].at = "loop"]
  /\ UNCHANGED <<logText, openable, config, verbosity, startup, console, said, missed, program>>

\* The destructor ends; after a fatal message the program does.
EndMessage(p) ==
  /\ InLog(p, "loop") /\ Top(p).todo = {}
  /\ logging' = [logging EXCEPT ![p] = Tail(@)]
  /\ program' = [program EXCEPT ![p] = IF Top(p).level = "fatal" THEN "aborted" ELSE @]
  /\ UNCHANGED <<logText, logLock, openable, config, verbosity, startup, console, said, missed>>

-----------------------------------------------------------------------------
KillLogger(p) ==
  /\ Up(p)
  /\ program' = [program EXCEPT ![p] = "killed"]
  /\ logLock' = [logLock EXCEPT ![p] = "none"]
  /\ logging' = [logging EXCEPT ![p] = <<>>]
  /\ startup' = [startup EXCEPT ![p] = 0]
  /\ UNCHANGED <<logText, openable, config, verbosity, console, said, missed>>

\* The directory of the log file goes, or comes back.
LogDirectoryChanges ==
  /\ openable' = ~openable
  /\ UNCHANGED <<logText, logLock, config, verbosity, startup, logging, console, said, missed, program>>

LogInit ==
  /\ logText = <<>> /\ openable = TRUE
  /\ logLock = [p \in Loggers |-> "none"]
  /\ config = [p \in Loggers |-> None]
  /\ verbosity = [p \in Loggers |-> 0]
  /\ startup = [p \in Loggers |-> 0]
  /\ logging = [p \in Loggers |-> <<>>]
  /\ console = [p \in Loggers |-> <<>>]
  /\ said = [p \in Loggers |-> <<>>]
  /\ missed = [p \in Loggers |-> {}]
  /\ program = [p \in Loggers |-> "running"]

LogNext ==
  \/ \E p \in Loggers :
       \/ InitLogger(p) \/ StartupLog(p) \/ \E level \in Levels : LogMessage(p, level)
       \/ AppendToConsole(p) \/ OpenLog(p) \/ OpenLogFails(p) \/ LockLog(p)
       \/ WriteLog(p) \/ CloseLog(p) \/ EndMessage(p) \/ KillLogger(p)
  \/ LogDirectoryChanges

-----------------------------------------------------------------------------
LineStarts == {i \in DOMAIN logText : logText[i].part = 1}
UnderWay(p) == {logging[p][i].nr : i \in DOMAIN logging[p]}
InFile(p, n) == \E i \in LineStarts : logText[i].by = p /\ logText[i].nr = n
OnConsole(p, n) == \E i \in DOMAIN console[p] : console[p][i] = n

\* Programs that log to one file at once do not mix their lines, and a program's
\* lines are in its order, each once: only one that is killed may leave a piece of
\* a line.  And of a program that runs every message so far is at all it was for,
\* unless the file did not open just then.
LogLinesWhole ==
  /\ \A i \in LineStarts :
       LET p == logText[i].by
           whole == /\ i + Blocks - 1 <= Len(logText)
                    /\ \A k \in 1 .. Blocks - 1 : logText[i + k] = [logText[i] EXCEPT !.part = k + 1]
       IN whole \/ program[p] = "killed" \/ logLock[p] = "exclusive"
  /\ \A i, j \in LineStarts :
       i < j /\ logText[i].by = logText[j].by => logText[i].nr < logText[j].nr
  /\ \A p \in Loggers : program[p] \in {"running", "aborted"} =>
       \A n \in DOMAIN said[p] \ UnderWay(p) :
         /\ "file" \in said[p][n] => InFile(p, n) \/ n \in missed[p]
         /\ "console" \in said[p][n] => OnConsole(p, n)

\* log.cpp:67: "We don't want to crash if we can't log, but what should we do instead?"
LoggerSurvives == \A p \in Loggers : program[p] # "overflown"

=============================================================================
