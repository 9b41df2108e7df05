----------------------------- MODULE SharedFile ------------------------------
(***************************************************************************)
(* Processes that load and save one JSON file (src/core/jsonfile.h) through *)
(* TextFile (src/core/textfile.cpp): any number of loads and saves at once, *)
(* a step being one system call, and a process may die at any of them.      *)
(*                                                                         *)
(* A saved value is known by its name; its text is written in Size[v]      *)
(* blocks, the pieces in which stdio hands it to write().  The file's      *)
(* contents are a sequence of such blocks, each with the value it is of and *)
(* its place in it, or Hole where a write left a gap.                      *)
(***************************************************************************)
EXTENDS Naturals, Sequences

CONSTANTS
  Procs,   \* the processes
  Vals,    \* the values they save
  Size,    \* the number of blocks each takes
  None,    \* no file at the path; no value
  Hole     \* a block nobody wrote

ASSUME SizeAssumption == Size \in [Vals -> Nat \ {0}]
ASSUME SentinelAssumption ==
  /\ None \notin Vals \cup Seq([of : Vals, part : Nat] \cup {Hole})
  /\ Hole \notin [of : Vals, part : Nat]

VARIABLES
  content, \* blocks of the file, or None
  lock,    \* the flock each process holds
  pc,      \* what each process is doing
  val,     \* the value it saves
  pos,     \* blocks it has written or read
  len,     \* the length it found the file to have
  got,     \* the blocks it has read
  lead,    \* history: the value of the last save to have been written
  damaged  \* history: a process died while saving, or a write failed

vars == <<content, lock, pc, val, pos, len, got, lead, damaged>>

Locks == {"none", "shared", "exclusive"}

\* "locking"  fopen has returned, flock has not
\* "writing"  Save, between flock and the end of fclose
\* "sizing", "reading"  ReadFileIntoString, before and after fseek and ftell
\* "loaded"   Load has read the text, which is in got, and parses it
\* "dead"     killed; the system has closed its descriptors
States == {"idle", "lockingW", "lockingR", "writing", "sizing", "reading", "loaded", "dead"}

BlockSet == [of : Vals, part : Nat] \cup {Hole}

TypeOK ==
  /\ content = None \/ content \in Seq(BlockSet)
  /\ lock \in [Procs -> Locks]
  /\ pc \in [Procs -> States]
  /\ val \in [Procs -> Vals \cup {None}]
  /\ pos \in [Procs -> Nat]
  /\ len \in [Procs -> Nat]
  /\ got \in [Procs -> Seq(BlockSet)]
  /\ lead \in Vals \cup {None}
  /\ damaged \in BOOLEAN

Init ==
  /\ content = None
  /\ lock = [p \in Procs |-> "none"]
  /\ pc = [p \in Procs |-> "idle"]
  /\ val = [p \in Procs |-> None]
  /\ pos = [p \in Procs |-> 0]
  /\ len = [p \in Procs |-> 0]
  /\ got = [p \in Procs |-> <<>>]
  /\ lead = None
  /\ damaged = FALSE

-----------------------------------------------------------------------------
(* The text of a value, and what the parser makes of a text *)

Whole(v) == [i \in 1..Size[v] |-> [of |-> v, part |-> i]]

\* The JSON parser accepts a text whose pieces fit together, whoever wrote them:
\* it begins at the beginning, has no gap, ends where a value ends and not before.
Parses(text) ==
  /\ text # <<>>
  /\ \A i \in DOMAIN text :
       /\ text[i] # Hole /\ text[i].part = i
       /\ (i = Len(text)) = (i = Size[text[i].of])

\* write() of one block at an offset, with a gap if the file is shorter
WriteAt(text, offset, block) ==
  [i \in 1..(IF Len(text) > offset THEN Len(text) ELSE offset + 1) |->
     IF i = offset + 1 THEN block ELSE IF i <= Len(text) THEN text[i] ELSE Hole]

-----------------------------------------------------------------------------
(* TextFile::TextFile: fopen, then flock *)

Goto(p, from, to) == pc[p] = from /\ pc' = [pc EXCEPT ![p] = to]

\* fopen(name, "w") creates the file or empties it.
OpenW(p, v) ==
  /\ Goto(p, "idle", "lockingW")
  /\ content' = <<>>
  /\ val' = [val EXCEPT ![p] = v]
  /\ UNCHANGED <<lock, pos, len, got, lead, damaged>>

\* fopen(name, "r") of a file that exists; Load gives up on one that does not.
OpenR(p) ==
  /\ content # None
  /\ Goto(p, "idle", "lockingR")
  /\ got' = [got EXCEPT ![p] = <<>>]
  /\ UNCHANGED <<content, lock, val, pos, len, lead, damaged>>

\* Mutation: writers ask for the lock of readers.
SharedLock(state) == "shared"

LockFor(state) == IF state = "lockingW" THEN "exclusive" ELSE "shared"

Compatible(p, kind) ==
  \A q \in Procs \ {p} :
    IF kind = "exclusive" THEN lock[q] = "none" ELSE lock[q] # "exclusive"

\* flock blocks until nobody else has a lock in the way.
Lock(p) ==
  /\ pc[p] \in {"lockingW", "lockingR"}
  /\ Compatible(p, LockFor(pc[p]))
  /\ lock' = [lock EXCEPT ![p] = LockFor(pc[p])]
  /\ pc' = [pc EXCEPT ![p] = IF pc[p] = "lockingW" THEN "writing" ELSE "sizing"]
  /\ UNCHANGED <<content, val, pos, len, got, lead, damaged>>

-----------------------------------------------------------------------------
(* JsonFile::Save *)

\* The next block of the text goes to the file, in fputs or in fclose.
Write(p) ==
  /\ pc[p] = "writing" /\ pos[p] < Size[val[p]]
  /\ content' = WriteAt(content, pos[p], Whole(val[p])[pos[p] + 1])
  /\ pos' = [pos EXCEPT ![p] = @ + 1]
  /\ UNCHANGED <<lock, pc, val, len, got, lead, damaged>>

\* The disk is full: what is left of the text is lost, and fclose's result, which
\* would say so, is dropped.
WriteFails(p) ==
  /\ pc[p] = "writing" /\ pos[p] < Size[val[p]]
  /\ pos' = [pos EXCEPT ![p] = Size[val[p]]]
  /\ damaged' = TRUE
  /\ UNCHANGED <<content, lock, pc, val, len, got, lead>>

\* Mutation: the file is closed while text is still in the buffer.
CloseEarly(p) ==
  /\ Goto(p, "writing", "idle")
  /\ lock' = [lock EXCEPT ![p] = "none"]
  /\ lead' = val[p]
  /\ val' = [val EXCEPT ![p] = None]
  /\ pos' = [pos EXCEPT ![p] = 0]
  /\ UNCHANGED <<content, len, got, damaged>>

\* Mutation: the descriptor, and so its lock, is not closed.
CloseLeaking(p) ==
  /\ Goto(p, "writing", "idle")
  /\ pos[p] = Size[val[p]]
  /\ lead' = val[p]
  /\ val' = [val EXCEPT ![p] = None]
  /\ pos' = [pos EXCEPT ![p] = 0]
  /\ UNCHANGED <<content, lock, len, got, damaged>>

\* fclose has written all and closes the descriptor, which ends the lock.
CloseW(p) ==
  /\ Goto(p, "writing", "idle")
  /\ pos[p] = Size[val[p]]
  /\ lock' = [lock EXCEPT ![p] = "none"]
  /\ lead' = val[p]
  /\ val' = [val EXCEPT ![p] = None]
  /\ pos' = [pos EXCEPT ![p] = 0]
  /\ UNCHANGED <<content, len, got, damaged>>

-----------------------------------------------------------------------------
(* JsonFile::Load: TextFile::ReadFileIntoString *)

Measure(p) ==
  /\ Goto(p, "sizing", "reading")
  /\ len' = [len EXCEPT ![p] = Len(content)]
  /\ UNCHANGED <<content, lock, val, pos, got, lead, damaged>>

Read(p) ==
  /\ pc[p] = "reading" /\ pos[p] < len[p] /\ pos[p] < Len(content)
  /\ got' = [got EXCEPT ![p] = Append(@, content[pos[p] + 1])]
  /\ pos' = [pos EXCEPT ![p] = @ + 1]
  /\ UNCHANGED <<content, lock, pc, val, len, lead, damaged>>

\* All of len is read, or the file has ended before it.
CloseR(p) ==
  /\ Goto(p, "reading", "loaded")
  /\ pos[p] >= len[p] \/ pos[p] >= Len(content)
  /\ lock' = [lock EXCEPT ![p] = "none"]
  /\ pos' = [pos EXCEPT ![p] = 0]
  /\ len' = [len EXCEPT ![p] = 0]
  /\ UNCHANGED <<content, val, got, lead, damaged>>

\* Load returns, with a value if the text parses.
Return(p) ==
  /\ Goto(p, "loaded", "idle")
  /\ got' = [got EXCEPT ![p] = <<>>]
  /\ UNCHANGED <<content, lock, val, pos, len, lead, damaged>>

\* A process is killed; its descriptors are closed, and what it wrote stays.
Die(p) ==
  /\ pc[p] # "dead"
  /\ pc' = [pc EXCEPT ![p] = "dead"]
  /\ lock' = [lock EXCEPT ![p] = "none"]
  /\ val' = [val EXCEPT ![p] = None]
  /\ pos' = [pos EXCEPT ![p] = 0]
  /\ len' = [len EXCEPT ![p] = 0]
  /\ got' = [got EXCEPT ![p] = <<>>]
  /\ damaged' = (damaged \/ pc[p] \in {"lockingW", "writing"})
  /\ UNCHANGED <<content, lead>>

-----------------------------------------------------------------------------
\* What a process in a call does next, by itself.
Proceed(p) ==
  \/ Lock(p) \/ Write(p) \/ CloseW(p) \/ Measure(p) \/ Read(p) \/ CloseR(p) \/ Return(p)

Over == (\A p \in Procs : pc[p] = "dead") /\ UNCHANGED vars

Next ==
  \/ \E p \in Procs :
       \/ \E v \in Vals : OpenW(p, v)
       \/ OpenR(p) \/ Proceed(p) \/ WriteFails(p) \/ Die(p)
  \/ Over

Spec == Init /\ [][Next]_vars

\* The operating system runs every process that can run; nobody has to start a
\* call, and nobody has to die.
FairSpec == Spec /\ \A p \in Procs : WF_vars(Proceed(p))

-----------------------------------------------------------------------------
(* Properties *)

Saving(p) == pc[p] \in {"lockingW", "writing"}
Quiet == \A p \in Procs : ~Saving(p)

\* A Load never returns a mixture: what it parses is the whole of one saved
\* value, though files are emptied and overwritten under other processes' locks
\* of either kind.  Only a saver's death, or a full disk, can leave pieces of two
\* values that fit together.
LoadedWasSaved ==
  \A p \in Procs :
    pc[p] = "loaded" /\ Parses(got[p]) => damaged \/ \E v \in Vals : got[p] = Whole(v)

\* Once nobody is saving, the file begins with the whole of the value saved last.
\* It may go on after it: a save that opened, and emptied, the file before the
\* one it overlaps wrote its longer text is not followed by its own end of file.
LastSaveLeads ==
  Quiet /\ ~damaged /\ lead # None =>
    /\ Len(content) >= Size[lead]
    /\ SubSeq(content, 1, Size[lead]) = Whole(lead)

\* While a process has a lock, the contents change only by its own writes, or by
\* being emptied, which fopen does before it asks for a lock.
LockedAgainstWriting ==
  [][\A p \in Procs :
       lock[p] # "none" /\ content' # content
         => content' = <<>> \/ pos'[p] # pos[p]]_vars

\* A process waits for a lock for ever only if others take locks again and again:
\* no lock is left with a process that has ended its call or its life.
LocksAreReleased ==
  \A p \in Procs :
    <>[](pc[p] \in {"lockingW", "lockingR"}) =>
      []<>(\E q \in Procs \ {p} : pc[q] \in {"writing", "sizing", "reading"})

=============================================================================
