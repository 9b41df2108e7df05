# Verification of wwivbasic

TLA+ models of the wwivbasic interpreter and of the parts of the WWIV core
library it is built on, TLC runs that check them on small instances, and
theorems that TLAPS proves for every value of the constants. All line numbers
are those of the sources beside this directory.

## 1. Inventory

The program reads one BASIC file, parses it with an ANTLR-generated parser,
walks the tree twice and exits (`src/src/basicrun.cpp`). It is a single thread.
The core library (`src/core`) is general infrastructure of the WWIV BBS: files
shared between processes, sockets, an expression parser, a command line, a log.

| Part | State | Operations | What is hard | What makes it correct |
|---|---|---|---|---|
| Values (`value.cpp`) | none; a Value is a variant and a type tag | conversions, operators | a Value made from an empty `std::any` has an uninitialised tag; `int` overflow, division by zero | operators are total on well-made Values, conversions agree with the text they print |
| Context (`context.cpp`) | modules, current module, per module: functions, imports, a deque of scopes | look up, assign, call | dynamic scoping, scopes on several modules' stacks, `back()` of an empty deque | a name means its innermost binding; scopes are pushed and popped in pairs |
| Loading (`function_def_visitor.cpp`) | the Context | define, open a module | a module opened twice, a definition without parameters, natives registered afterwards | definitions land in their module |
| Interpreter (`executor.cpp`) | the C++ stack, `return_` | one visitor method per construct | one flag for all RETURNs, references into the scopes' deque, loops that miss their end | programs mean what their text says |
| Semaphore file (`semaphore_file.cpp`) | a file at a path; a descriptor per object | try_acquire, acquire, destructor, move | processes racing, time-outs, death while holding, two objects with one descriptor | mutual exclusion, no file left behind, calls that end |
| TextFile, JsonFile (`textfile.cpp`, `jsonfile.h`) | contents, flock, buffers | load, save, lines | truncation before locking, crashes while saving, lines as long as the buffer | what is loaded was saved; lines come back as they were written |
| File, DataFile (`file.cpp`, `datafile.h`) | a handle per object, flock, position, contents | open with retries, read, write, append, replace, close, move | lengths asked for by path, `set_length` after Close, leaked handles | operations are atomic; handles are owned once |
| Lexer, Ast (`parser/`) | iterator, tokens; two stacks of nodes | tokenise, shift, reduce | the iterator at the end of the source, the order of reductions, groups | the tree means what the expression says |
| CommandLine, IniFile | arguments allowed and found, sub-commands; settings | Parse, Execute, replace defaults; read a file | sub-commands that parse copies of one vector, defaults that come late | every word is consumed once, what was given beats what is read, and that beats a default |
| SocketConnection, HttpServer, SocketSet | descriptors, open flag, ports, exit signal | receive with a deadline, send, close, serve, accept | deadlines amid a value, partial sends, sockets closed twice, no descriptor left | no byte is lost, duplicated or given to another; the server ends |
| EventBus, Transaction, ScopeExit | handlers; functions to call | add, invoke; commit, roll back; move, swap | changes while iterating, guards moved from, exceptions | each handler, and each guard, runs exactly once |
| Logger (`log.cpp`) | appenders, verbosity, the log file | Init, messages, fatal messages | programs sharing a file, a log that fails to open while logging that | lines are whole, in order, and none is missing |
| Graph, backups | costs; a directory | Compute; back up, trim | ties, parallel edges; programs that trim at once, clocks set back | shortest paths; the oldest go |
| Strings | none | strip, measure, cut and pad colored text | codes that touch, nest or are cut off | only codes are taken out |
| Pipes, checksums, dates, platform variants | none that other parts depend on | | | tested by vectors |

Interactions. `main` gives the parse tree to FunctionDefVisitor, which fills the
Context; then it registers the natives, and ExecutionVisitor walks the tree
again. ExecutionVisitor calls `Context::call`, which picks a module, whose
`Module::call` pushes a scope and calls back into the visitor to visit the
body: visitor and Context are mutually recursive and share the scopes and
`return_`. SemaphoreFile uses `File::Remove`; TextFile locks as File does,
JsonFile, IniFile and the Logger's file appender sit on TextFile, DataFile on
File; Ast calls Lexer; a program's settings come from CommandLine and IniFile;
SocketSet accepts the SocketConnections that HttpServer reads from.

`PROJECT.json` lists every component with its status, and the hazards, each at
its line with the properties that would catch it.

## 2. Modules

An arrow means EXTENDS.

| Group | Modules |
|---|---|
| Interpreter | Values → Context → Executor → Reference → MCExecutor |
| Semaphore | Mutex (abstract), SemaphoreFile (instantiates it) → MovedSemaphore; MCSemaphoreFile, MCMovedSemaphore |
| Files | SharedFile → MCSharedFile; DataFile → MCDataFile |
| Expressions | Lexer → Ast → Expressions → MCExpressions |
| Settings | IniFile → IniText; IniText and CommandLine → Configuration → MCConfiguration |
| Network | SocketConnection → HttpServer and SocketSet → Server → MCServer |
| Library | Graph, EventBus, Guards, FileHandles, Backups, Logger, TextLines and Colors → Library → MCLibrary |
| Proofs | ExecutorProofs, SemaphoreProofs, DataFileProofs, ConfigurationProofs, ServerProofs, each of the module in its name; SharedFileProofs of SharedFile and TextLines; LexerProofs of Lexer and Ast; LibraryProofs of FileHandles, Guards, EventBus, Backups, Logger, Graph and Colors |

**Values** – class Value and the `std::any` a visitor returns. A value is a pair
of its type and its contents. The constructor from an empty `any` leaves the tag
as it finds it; `FromAny` gives the set of what may come out: `FALSE` (the tag
happens to say BOOLEAN), `Mistyped` (it says INTEGER or STRING, and `std::get`
throws) or `Untyped` (no case of any switch applies). `Throws` and `Undefined`
stand for an exception and for undefined behaviour (overflow, division by zero).

**Context** – `modules`, `module`, `functions`, `imported`, `scopes` are the
fields of the C++ classes of those names. A name is a record `[pkg, id]`, as
`split_package_from_id` makes it; names differ beyond case. `Var`, `Upsert`,
`Resolve`, `Bindings`, `PushScope`, `PopScope` are the member functions;
`NativeResult` gives what the reachable natives return or throw.

**Executor** – one run of the program, from the first walk to the end. `frames`
is the C++ stack: one frame per visitor method that waits for another, with the
locals it will still use (a FOR frame keeps where the scope is that its C++
reference points into). `result` is the `std::any` last returned. Every visitor
method is one or more actions: one for each stretch of code between two calls
of `visit`. An expression is a list of nodes in the order in which their visits
complete, which is the order in which the visitor's recursion does anything;
that is why an expression needs one frame and not one per node. `phase`
becomes `terminated` on an exception (nothing catches one), `undefined` on
undefined behaviour, after which nothing is said.

**Reference** – what programs of one module mean, by recursion over the text,
with neither stack nor flag: the definition the interpreter is compared with.
It gives no meaning to a program that uses an unset variable or a function that
ends without RETURN. It is written with RECURSIVE operators and is for TLC only.

**Mutex** – the abstract specification of a semaphore: `Acquire` when nobody
holds it, `Release` by the holder.

**SemaphoreFile** – processes that call `try_acquire` (`timed`) or `acquire` on
one path, hold, destroy, and die anywhere. An action is one system call or one
reading of the clock. `file` is which process made the file at the path; `late`
is `now() > end`. The destructor is close, `Exists`, `remove`, in three steps.
`OpenFails` is any error of open(), all of which the code takes for a semaphore that
is held: the file that is there, or what `denied` stands for, a missing directory,
permissions, descriptors or room, which come and go (`Hinder`). The same may make
the removal fail (`KeepFile`); `kept` records whose file that was.

**MovedSemaphore** – adds the objects left behind by the defaulted move
constructor: path and descriptor are copied, so they are destroyed like the rest.

**SharedFile** – processes that Load and Save one JSON file. A value's text is
`Size[v]` blocks, what stdio hands to one write(); the contents are such blocks
and holes. `OpenW` truncates before `Lock`, as fopen does before flock; `Write`,
`WriteFails`, `CloseW` are Save's fputs and fclose; `Measure`, `Read`, `CloseR`
are ReadFileIntoString. `Parses` accepts any text whose pieces fit together,
whoever wrote them, which is the weakest thing a JSON parser could do.

**DataFile** – processes that share a file of records. `OpenSucceeds`,
`OpenFails` and `OpenDenied` are File::Open with the count of its tries (the
first retry is not counted), `Lock` its flock with the kind that the share mode
gives; then `Seek` (to where `number_of_records()`, by path, says, for an
append), `Write`, `ReadVector`, `WriteVector`, `Close`, and the `SetLength` that
WriteVectorAndTruncate does with the file closed. Reads and replacements may have a
`limit`, which is max_records; `SetLength` still sets the length of the whole vector,
and old records or zeros stay behind the limit. `WriteShort` and `ReadShort` are
system calls that fail or fall short: the operation returns false, the process is
`failed`, with the lock, until `Close`, and a replacement is not cut. `SetLengthFails`
is resize_file's error, which is dropped. `due` has the records that the operations
amount to, a failed one counting with what it had written; `torn` records that a
process looked at the file before a truncation, or that this never came. Two system
calls are taken to succeed: flock, whose result the code does not look at, so that on
a file system without locks nobody is alone with the file; and the stat of
`File::length`, for whose error the code puts 0.

**Lexer** – one turn of the constructor's loop per step, with every place that
moves the iterator. A token has the span of characters it took.
**Ast** – one turn of the loops of parse, parseGroup and parseExpression per step,
over the stack of each. **Expressions** joins them and defines, without a parser,
the sentences that the grammar is meant to have and their trees.

**IniFile** – ParseIniFile, a line per step. **IniText** – what a file says to who writes
it, without a parser: entries with their lines (`EntryOK` says of each kind of entry
which lines may stand for it, `WrittenAs` that a file consists of them), and what the
last setting of a key holds. It translates no code: it is what the parser is compared
with, as far as files are in such entries. **CommandLine** – a tree of commands
that is built, then parsed: `frames` are the calls of Parse, each with its loop's
`i` into the command's own copy of the words. A command's words are copied when
it is added. **Configuration** composes the two: a default may be replaced from
the file before or after the command line is parsed.

**SocketConnection** – the descriptors and who owns each, what the peer has sent,
and a connection's call with what it has received so far. A `Recv` may find some
of the bytes; `Deadline` is a clock that has passed `end`. `SendTakes` sends what the
system's buffer has room for, `SendThrows` when that is nothing. `Close` and `Destroy`
both close the number. **HttpServer** – Run's states from the request line to the
last of the response's sends; **SocketSet** – ports, select, accept, the exit signal. **Server** is
their composition: each accepted connection gets a thread, which net.h recommends.

**Graph** – add_edge and Compute, one element of the queue per step. **EventBus** –
the nodes of the unordered_multimap in their order; an insertion may be anywhere
among its type's, and `walks` are the calls of invoke under way. **Guards** – the
objects of one scope, youngest first; every destructor, with an exception under way
or not. Its `Actions` are function objects: a `Copy` of a Transaction has copies of
its functions, so what the caller handed over runs once for each copy, and that no
function object runs twice says nothing against it. **FileHandles** – File objects, their handles and the system's table.
**Backups** – programs that back up and trim, with the directory scan's statics.
**Logger** – `logging` is the stack of messages, since TextFile logs what it cannot
open; the file's lock is that of TextFile. **TextLines** – characters, ends of lines
in both modes, the buffer of ReadLine. **Colors** – stripcolors and the functions
that measure by it. **Library** puts the eight side by side, since they share
nothing: a behaviour exercises one of them.

## 3. Runs

| Run | Checks | Shows |
|---|---|---|
| `interpreter` | type invariant, `ScopeDiscipline`, `ReturnBelongsToCall`, `ReturnUnwinds`, `HiddenVariablesKept`, `DefinitionsLand`, `MeansTheSame`, `Terminates` | 1640 programs are loaded and executed |
| `program_loading` | `ProgramsLoad`, violated | `DEF f()` does not load (finding 1) |
| `semaphore` | type invariant, `MutualExclusion`, `NoFileLeftBehind`, `OwnFileStays`, `TimedCallsEnd`, `WaitsOnlyWhileBarred`, `IsMutex` | three processes, all interleavings, and what keeps them from creating or removing the file |
| `moved_semaphore` | `AcquiredByOne`, violated | a moved semaphore is acquired twice (finding 2) |
| `text_files` | `LoadedWasSaved`, `LastSaveLeads`, `LockedAgainstWriting`, `LocksAreReleased` | three processes load and save, die, and run out of disk |
| `data_file` | `OperationsAtomic`, `WritersAlone`, `OpensGiveUp` | two processes append, change, replace and read, and fail at it |
| `expression` | `NothingLostOrTwice`, `MeansAsWritten`, `NothingDropped`, `ParserEnds` | sources of up to four characters, sequences of up to five words, sentences of up to five operands |
| `two_groups` | `OneTreeAtRoot`, violated | two groups are not one expression (finding 3) |
| `configuration` | `SettingsReadBack`, `EveryWordOnce`, `GivenBeatsDefaults` | INI files of up to four entries, command lines of up to three words, three commands |
| `server` | `StreamInOrder`, `PathIsWhole`, `ServersEnd` | a browser and a reader, two descriptors, one of them the port's |
| `library` | `ShortestPaths`, `HandlersCalledOnce`, `FunctionsRunOnce`, `HandlesHeldOnce`, `NewestBackupsStay`, `LogLinesWhole`, `LinesReadBack`, `ColorsStripped` | the eight parts of Library |
| `failing_log` | `LoggerSurvives`, violated | the log logs that it cannot log (finding 4) |

**interpreter.** Programs: (a) every function `F(A)` whose body is one or two of
six statements (assignment, copy, RETURN, IF, FOR, a call of `G`) with a nested
list of one or two of four (an assignment, RETURN, PRINT, a recursive call),
840 programs; (b) every order of up to three of seven lines that open modules,
import, define and redefine functions, then qualified and plain calls, 400
programs; (c) every pair of twenty top-level lines over values of all types, 400
programs. Each statement kind meets each other inside calls and loops within
two statements, and a third level is reached by recursion. `IntMax = 6`: an int
holds -7 .. 6, so that loops and sums reach both ends. `MaxFrames = 60` frames of
native stack: nine or more nested calls with their expressions; a call beyond it
ends the process. `Fuel = 8` nested calls and iterations of the reference: more
than any program of (a) needs that does not overflow. `MeansTheSame` says nothing
where the reference runs out. Where the properties have a condition, it is one
the source states: `Structured` programs RETURN neither at the top level nor in a
FOR, for which `executor.cpp:261` has a TODO; `OpensOnce`: a module opened again
does not become the current one; `Steps`: a FOR with STEP 0, or one whose variable
is assigned to, need not end.

**semaphore, moved_semaphore.** Three processes are enough for a holder, a waiter
and one that is destroying or dead at once; each may do so any number of times,
nothing else is bounded. What `denied` stands for may come and go for each process
at any time. The moved run stops when both processes are dead, hence
no deadlock check there.

**text_files.** Three processes, for a reader, a writer that has the lock and one
that truncates the file under it; values of one block and two of two, so that a
shorter and an equally long text may be written over a longer one. Nothing else is
bounded.

**data_file.** Two processes: locks exclude pairs, and a late truncation needs one
that cuts and one that looks. `MaxRecords = 2` records: an append at a position of
zero and of one, a change of the first and the last. A replacement by one record cuts
off another; one by two of which max_records lets one be written leaves an old record,
or zeros, behind it. One reader has a longer vector than it needs, the other a shared
lock and a limit of one. Any write or read may fall short after none or one of its
records, and any truncation fail. `Tries = 2` (100 in the code):
a retry that is not counted, one that is, and one too many. The proofs hold for
any of these.

**expression.** Short sources have one character of each kind, so every pair of
kinds meets inside a source and at its end. Words are operands, parentheses and an
operator of each binding. The sentences cover every tree of up to five operands that
chains, clauses and groups can make; those the code does not parse as written are
finding 3 and the list in section 4.

**configuration.** All files of up to three entries, and of four with a header
first, meet a short command line; all command lines of up to three words meet a file
and none. The tree of commands has one below the root and one below that, added in
either order. Nothing is executed after an error, hence no deadlock check; neither
is there one in `server` and `library`, where connections are over and objects gone
at some point, and the bounds stop the rest.

**server.** A request of seven bytes reaches the server byte by byte or stops at
any; lines are cut by `MaxLine = 5` (1024), at the end of a byte stream and by
deadlines. Requests are finite: a client that sends header lines for ever keeps
`read_lines` (`http_server.cpp:95`) going, without a bound on their number, and
`ServersEnd` does not speak of it. `Limits = {2}` descriptors: while one connection is open, accept fails.
The reader's reads are of integers and of up to so many bytes. The response is sent in
three pieces of one, two and one byte into a buffer of two: a piece fits, is cut or
meets a full buffer, and another may follow it.

**library.** Graphs with three nodes and up to four edges of cost 0, 1 or 3, parallel
ones and loops among them: a route of two hops that is cheaper than the direct one,
found after this was queued. Three handlers for two types and three nested calls of
invoke; below 14 handlers the multimap is not rehashed. Three functions and three
objects alive. Three File objects, two paths, three handles: a handle can leak
and another be opened for its path. Two programs, two files, two backups kept and
a clock of five seconds. Two programs that log two messages between them, over the
StartupLog of each, in two blocks a line. Lines of up to three characters with a
buffer of five, of which line, end and zero take less, all or more; three lines.
Texts of up to six characters over the six that matter to codes, which make any two
codes touch, and any one lie inside an escape sequence.

Fairness. The interpreter is one thread, which the operating system keeps
running: weak fairness of the whole of Load and Run; so are lexer and parser, of
`Lex` and `Build`. Each process of the semaphore has weak fairness for its own next
step while it is in a call or in File::Remove, and for the clock; none for calling,
destroying or dying. That is enough for `TimedCallsEnd`, which holds even when
others win every race. It is not enough for a waiter of `acquire` to be served
eventually, and the code does not promise it: polling may miss the semaphore each
time it is free. `WaitsOnlyWhileBarred` says what is true instead: it waits for ever
only when there is a file, or another error of open(), again and again; such an error
is all it takes, and nobody need have the semaphore. Nothing is assumed of when
these errors come or go. SharedFile and DataFile have weak fairness of `Proceed`, the
next step of a process that is in a call; none to call, die, fail or change
permissions. `LocksAreReleased` is again what
holds without a fair flock: who waits for ever is overtaken for ever. Server has weak
fairness of `LoopStep` (select, its timeout, accept) and of each connection's
`WorkerStep`, in which deadlines pass; clients, signals and interrupts need never do
anything. `ServersEnd` needs `timeout_seconds > 0` for the loop: without a timeout
select never looks at the exit signal again, unless a client comes.

What the properties leave out, so that nobody takes it for checked. `MeansTheSame` is
about programs whose meaning C++ defines: none that overflow, divide by zero or use a
value without a type. `LoadedWasSaved` leaves out what is loaded from a file that a
crash or a full disk damaged. `StreamInOrder` and `PathIsWhole` end where a connection
was closed and then destroyed (`closedTwice`), which closes a number that may be
another's by then. `OperationsAtomic` ends where a truncation came late or never
(`torn`). `ServersEnd` is about finite requests. The hazards in
`PROJECT.json` that this concerns name no such property, or say so in their note.

Every property has a mutant in `PROJECT.json`: a plausible bug in a modelled
definition that makes TLC find the property violated.

## 4. Findings

1. `BasicParser.g4:34` lets a definition leave out its parameters;
   `function_def_visitor.cpp:14` hands the missing list's null pointer to
   `visitParameterDefinitionList`, which dereferences it at line 26.
2. `semaphore_file.h:76` defaults the move constructor, but `fd_` is an int and
   `path_` is const: the object moved from keeps both. Its destructor closes and
   unlinks once more instead of taking the branch for closed objects at
   `semaphore_file.cpp:96`. Nothing in the repository moves one today; the type
   allows it.
3. `ast.cpp:267` says of the logical conditions that one single tree node is left at
   the root. Ast::parse reduces after an expression and never after a group, so
   `(a>b)&&(c>d)` leaves three nodes and is an error (`ast.cpp:404`).
4. `log.cpp:67` asks what to do without crashing when the log cannot be opened.
   With a verbosity of 1 or more TextFile logs that it cannot open the file
   (`textfile.cpp:109`), for which the file is opened again, until the stack is full.

Also seen while modelling, and modelled as they are, unless said otherwise:

- Interpreter: `visitParens` visits the parenthesis and not the expression in it
  (`executor.cpp:85`); a module-qualified call pushes its scope on the stack of the
  function's module while the body looks names up in the current one
  (`context.cpp:93`), so it does not see its parameters.
- JsonFile::Save returns what fputs says of its buffer: a full disk is reported as
  success. A save that truncates while another writes leaves the other's tail.
- WriteVectorAndTruncate closes the file, and its lock, before it sets the length
  (`datafile.h:105`): what another process appends in between is cut.
- ReadFileIntoVector reads one line more than it returns (`textfile.cpp:245`); a line
  that exactly fills ReadLine's buffer is followed by an empty one (186); in DOS mode
  ReadLastLinesIntoVector keeps a `\r`, and of an empty file it takes `back()` (262;
  undefined, so the model does not call it).
- Lexer and Ast: a negation `!`, an error token and a parenthesis inside an
  expression are passed over; `Lexer::ok` is not asked; `a == ""` is an error; a
  run of `||` makes null operands; `a-1` is one identifier; `(1+2)+3` fails and
  `1-(2-3)` becomes `(1-2)-3`; a character literal that is too long throws (`lexer.cpp:193`),
  since the message's format has no argument.
- CommandLine: a command that gets its own commands before it is added to its parent
  has no words, and the parent starts over (250); copies such as `bbsdir_` are stale
  after a default is replaced (115); `--foo=a=b` loses `=b`.
- IniFile: `"""abc"""` on one line swallows the lines that follow (105); a header
  with a comment behind it is none (86); a `;` inside quotes cuts the value (91).
- Sockets: RESET_TO_BLOCKING resets nothing (77); a deadline in the middle of a value
  loses it (228); half an integer is accepted at the end of a stream (337); `close` and
  the destructor close one number twice (357, 205); accept's result is unchecked
  (`net.cpp:322`) and CreateListenSocket leaks its socket (134); headers end at a pause
  and not at the blank line, so a pipelined request is swallowed (`http_server.cpp:93`).
  the socket does not block, so that a send may be partial, which is logged and taken
  for complete (318): what follows is sent after the gap. Not modelled: is_rfc1918 takes
  172.32 to 172.255 for private (`net.cpp:170`).
- Graph: node 0 is "no node" (`graphs.cpp:17`), which the model excludes.
- EventBus: a handler added during invoke may be called by it; the 14th handler rehashes
  the map under the walk (not reached by the bounds); an exception drops the handlers
  that are left.
- Transaction commits on unwinding unless Rollback was called (`transaction.h:31`).
  A ScopeExit that was moved from calls an empty function in its destructor
  (`scope_exit.h:50`); its move assignment does not compile for a std::function (57).
- File: move assignment and a second Open forget a handle and its lock
  (`file.cpp:171`, 186). WFindFile keeps its mask in statics (`wfndfile_unix.cpp:34`): one
  set to a program, and threads would share it. A backup in the same second as another
  fails, and one made with the clock set back may be the one that is trimmed.
- stripcolors leaves the second of two adjacent escape sequences (`strings.cpp:434`).
  strrev reads a buffer that was not written (549; not modelled).

## 5. Proofs

`ExecutorProofs`: `TypeCorrect`, `ScopesMatchStack`, `HiddenStay`, `ReturnsToItsCall`,
`ReturnsUnwind` and `WhereTheyStand`, for all programs, identifiers, modules, widths
of int and depths of stack. Assumptions: `IntMaxAssumption`, `NamesAssumption` (the
natives' names are identifiers and the root is not `wwiv.io`) and
`ProgramsAssumption` (programs are parse trees). What the operations of Values and
Context return and keep comes first.

- `TypeOK` is not inductive: that a frame may be returned to, with the value the
  one above it produces, depends on what the frames are stacked upon. `IInv` adds
  `StackOK` (the bottom frame is the main one, each other frame stands on one that
  waits for its kind, an expression has as many values as nodes visited) and
  `Discipline`, the scope discipline as a relation between a stack of frames and the
  scopes. There is one lemma for each action, and `Preserved` collects them.
  `Discipline` is proved for three shapes of step: the owners among the frames stay,
  a new one comes with its scope, the top one goes with its own.
- `HiddenStay` rests on the type invariant and on `InnermostBinding`: assignment goes
  to the last of the bindings of a name.
- `ReturnsToItsCall` is about programs that return where the visitor supports it
  (`Structured`): some set of quiet lists has no RETURN, and loops run quiet lists
  only. `Linked` says which frame may have called which for such a set: a list that
  may return stands on a function's frame or on another such list. It is an
  invariant for every set for which the program is structured, so that the steps need
  no choice of one. `Returning` then follows the flag: it is set only while all
  above some function's frame are lists that have begun a statement.
- `WhereTheyStand`: after p items of the main list are loaded (`Loads`), the modules
  are those whose MODULE lines came by, the current one is that of the section, and
  each name has the last definition under that line. `Landed` carries this to the run.

`SemaphoreProofs`, for any set of processes: `TypesHold`, `OneHolder`,
`FilesHaveOwners`, `RemovesItsOwn` and the refinement `ImplementsMutex`. Mutual
exclusion is not inductive by itself: `IInv` adds that a holder's own file is at
the path, also while it is in its destructor, and that a file belongs to one of
those, to a dead process or to one that was kept from removing it. `StepsOfOne` says what any step does to `file` and
`pc`; all the rest follows from it.

`SharedFileProofs`, for any processes, values and sizes (`SizeAssumption`: at least
one block each; `SentinelAssumption`): `NoMixtures`, `LastLeads` and
`NobodyWritesUnderALock`. That two writers exclude each other is not enough, as
files are emptied without a lock. `Continuous` says of any two blocks of the file
that the second is the first's continuation, unless somebody is writing just
that; it survives because what a writer has behind it is its own or a hole
(`OwnBehind`), and the whole of it when nobody else is saving (`AllBehind`).
`Readings` carries it over to what a reader has got. `ParsedIsWhole` then makes of
a text that fits together the whole of one value.

`LinesAreRead` (TextLines, in the same module), for any lines, characters and size of
the buffer. `LinesAssumption`: a line has no end of a line in it, which is up to the
callers of WriteLine. `Laid`: there are positions P at which the lines that were
written lie in the file one behind the other, each with its end. `LinesLaid`: while
all lines fit into the buffer, the reader is at the P of the lines it has taken.
`LineRead` says what fgets and StripLineEnd make of a piece that begins at a line;
`ReadFromHere` repeats that for as many lines as a call reads. Of the last lines,
`StopsAre` says that the n-th end of a line from the back is that of the n-th line,
by counting the ends of lines behind it (`EndsOfLines`: there are no others), and
`WordsFound` that SplitString, begun behind it or on it, returns the lines that follow
but for empty ones; `LastLines` puts them together, whether the block begins amid a
line, on one or at the beginning of the file.

`DataFileProofs`, for any processes, records, operations, tries and lengths:
`Alone` and `Atomic`. `JobsAssumption`: whoever changes the file opens it with
the default share mode or one that denies others writing; that is up to DataFile's
callers. `LockDiscipline` ties a lock to what a process does, which gives
`WritersAlone`. For atomicity, `CutsAlone` says that, unless the file is torn, beside
a replacement that has yet to cut there is no second one, nobody about to write and
no reader that has read; `Amounts` then that the file is what the operations amount
to, or will be once the cut that is due is made. An operation that returned false
counts with what it had written and cuts nothing; that a short write of a replacement
meets no cut of another is part of the proof.

`LexerProofs`: `NothingLost`, for sources of any length and characters. Every turn of
the loop takes what is at the iterator into a token, passes it, runs out at the end
or throws (`Takes`, `Passing` and their like); tokens are then `InTurn`, and all
behind the iterator is told, or all up to what is open at the end (`AllTold`). The
theorem is about `LexSpec`, the lexer alone: Expressions, which runs it before the
parser, has recursive operators.

`ParserDropsNothing`, for the same sources, is about `AstSpec`, the lexer and the
parser behind it. What the tokens say up to each, and the sequence of operands and
operators that a tree yields, are recursive functions; the proofs have them as tables
(`SaidTable`, `YieldTable`), which are shown to exist. `Stands` relates a node to the
tokens between two places: it yields what they say, or has a hole where an operand is
missing. The invariant is that the nodes on every stack stand in turn for the tokens
read so far (`Covers`). A reduction replaces three neighbours by one that stands for
the same tokens. So when one node is left, it stands for all of them.

`ConfigurationProofs`: `WordsConsumed` and `GivenFirst`, for any tree of commands,
arguments, words and INI files. `CommandLineAssumption`: each command but the root has
its place under a command, and a boolean argument begins as "true" or "false", since
its constructors take no environment variable. `Calls` says that the commands the
root was given have all its words, that each call but the first is of a command
below it, and that the root's loop waits for one only at the word that named it,
with nothing positional before. So when it goes on it is past the end, no argument
is set twice, and `Defaults` can say what each argument holds from the words so far.
`UsedOnce` follows the loop that runs: all words up to it, and no other, are consumed.

`SettingsAreRead` (in the same module), for files of any entries, characters and
lengths. `CasesAssumption`: what is said to be meant by a file are entries whose lines
the file consists of (`WrittenAs`); of other files the property says nothing.
`SectionsAssumption`: the sections that are asked for are in a list. `IniInv` says that
there are m entries that were read, the last of them up to its k-th line
(`Standing`): the section is that of the last header among them, the parser is inside
a long value exactly if the m-th entry is one and not at its end, the keys are those
of the settings among them, and the last setting of each key has given its text, of
the m-th entry that of its first k lines (`DataIs`). What the parser makes of a line
is derived per kind (`HeaderIs`, `PlainIs`, `QuotedIs`, `OpeningIs`, `InnerIs`,
`ClosingIs`, `RemarkIs`): a part of a line is told by its places in that line (`Part`),
so that trimming, finding and cutting become bounds. `ReadOn` and `ReadFirst` take the
next line of an entry and the first of another. At the end of the file all entries are
read, and the lookup by section finds what `SaidIn` names.

`ServerProofs`: `InOrder` and `PathAnswered`, for any clients, requests, ports, reads,
limits and room for what is sent (`ConnectionAssumption`, `PortsAssumption`,
`ReadsAssumption`: a read is of at least one byte, and lines are read byte by byte).
They hold until a connection that was closed is destroyed (`closedTwice`), as the
properties say. `Owned`: until then an open connection has its descriptor for itself,
which rests on accept giving out free ones and on each being closed once. `Stream`: a
request is what was received, what the read under way holds, what has come and what
the client has still to send, in this order; every action moves bytes from the front
of one to the end of another. `Responding` lists the stations of a response, those
after a cut included. For `PathAnswered`, `Heard` adds what a reset leaves of this:
what was received and is held is what the request begins with, and the line that is
read first is all that was received. `TwoPartsStay` then says of a line that begins a
request and has three parts that its two first are the request's: each is followed by
a blank (`PartStays`).

`LibraryProofs` has a part for each of seven modules, each about the specification of
that part alone; `library` runs it beside the others.

- `HeldOnce`: `HandlesHeldOnce` is inductive once the types are added.
- `RunOnce`: what has run in the end follows from who owns the functions meanwhile,
  `OwnedOnce`: no two objects hold one function, none holds one that has run, and
  what is due has run or is pending in an object (`NoFnAssumption`).
- `CalledOnce`: a walk holds handlers and not positions, since nodes stay where they
  are while others come between them. `WalkOK`: what was called is behind the walk, and
  what was there before is either called or between the walk and its end.
- `LinesWhole`: `LocksOfLog` says that a program has the lock exactly while it writes;
  then a line that was begun is whole, or at the end of the file and its program's, or
  a killed program's. `StackOfMessages`: a message about the failure of another is
  logged on top of it, and those below have done with the file, which keeps a
  program's lines in its order.
- `NewestStay`: what is about to be removed has `MaxBackups` newer ones among all that
  were ever made, and so has what is gone. A scan's list is in the order of its names;
  that is shown by induction on the clock.

- `PathsAreShortest`: `GraphIInv` says that the nodes that are done form a tree of
  routes (`TreeOfRoutes`: each cost is the previous node's and an edge's, and a rank
  goes up by one along each, so that there is no circle), that none in the queue is
  nearer than those that are done, and that no edge of theirs is a shortcut. A route
  that were cheaper than a cost would have to leave the done nodes by a shortcut.
  `GraphAssumption`: costs are not negative and no route sums up to the largest int;
  node 0 is not a node.
- `CodesTakenOut`: stripcolors goes through a text in turns. Each begins at a place
  that no code reaches over, and ends at another: behind a code, or behind a
  character that is in none. That is so unless one escape sequence follows another
  directly. The cut loses a character for each turn of its loop, and the padding
  gains a column for each blank, since a blank is part of no code.

Induction over numbers. Where an argument needs one (the largest of a set of places,
the order of a scan), the proof takes a minimal counterexample: `WFMin` and
`NatLessThanWellFounded` have no operator as a parameter. That does not reach what a
recursive operator computes. A recursive function is a choice of one that satisfies
its equation; so that there is one is shown first, in the same way, and what it is at
each place after that. Graph, TextLines, Colors and the parser are proved so.

Model-checked only, and why:

- `MeansTheSame`, `MeansAsWritten`: the reference has recursive operators, and the
  statements are inductions over programs or sentences.
- Liveness, which the prover does not reach: `Terminates`, `TimedCallsEnd`,
  `WaitsOnlyWhileBarred`, `LocksAreReleased`, `OpensGiveUp`, `ParserEnds` and
  `ServersEnd`.

## 6. Plan

1. Done: the interpreter, semaphores, text and data files, expressions, settings, the
   server, and the library's independent parts, with the proofs of section 5.
2. To prove: what is left are the invariants that section 5 lists as model-checked
   only, which are out of the provers' reach.
3. To model: connecting to another host; reads and writes
   of several records in the middle of a DataFile; EventBus at its 14th handler.

## 7. Not modelled

Text layout of messages, help and printed trees; the ANTLR parser, of whose trees the
shape is modelled; the natives named `stdlib::...`, which no identifier of the
language can spell; case-insensitivity of names (two names that differ only in case
are one name); pipes, which exist on Windows and OS/2 only, and all variants for those
systems; checksums, identifiers, dates and address functions, and the string, number
and container functions without state, which test vectors cover; directories, renaming
and permissions, which are calls of the C++ library; connecting to another host; what
the vendored templates and the demonstration program do.
