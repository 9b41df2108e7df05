------------------------------ MODULE DataFile -------------------------------
(***************************************************************************)
(* Processes that share a file of records through DataFile                 *)
(* (src/core/datafile.h), which is a File (src/core/file.cpp): each opens  *)
(* it with File::Open's retries and its flock, appends a record, changes   *)
(* one, reads all of them or replaces them, and closes it.  A step is one  *)
(* system call; it may fail, or fall short, and a process may die at any.  *)
(*                                                                         *)
(* Positions and lengths are in records, as a DataFile only uses multiples *)
(* of SIZE; number_of_records rounds down what is left of a write that     *)
(* ended within a record behind the others.  Hole is a record that nobody  *)
(* wrote as it is: zeros, or parts of others.                              *)
(***************************************************************************)
EXTENDS Integers, Sequences

CONSTANTS
  Procs, Records, Hole,
  Jobs,       \* what processes may open the file for
  Tries,      \* TRIES of file.cpp
  MaxRecords  \* bound: no file grows beyond it

ASSUME TriesAssumption == Tries \in Nat \ {0}
ASSUME HoleAssumption == Hole \notin Records
ASSUME MaxRecordsAssumption == MaxRecords \in Nat

VARIABLES
  file,    \* the records in the file
  exists,  \* whether there is a file
  allowed, \* whether its permissions let it be opened and cut
  lock,    \* the flock of each process
  pc,      \* what each process is doing
  job,     \* the operation it opens the file for
  count,   \* File::Open's count of its tries
  pos,     \* the record that its descriptor was positioned at
  vec,     \* the caller's std::vector, once it has been read into
  due,     \* history: the records that the operations so far amount to
  torn     \* history: a set_length came late, failed, or never came

vars == <<file, exists, allowed, lock, pc, job, count, pos, vec, due, torn>>
disk == <<file, exists, allowed, due>>
call == <<job, count, pos, vec>>

\* "opening" the first open;  "again" a later one;  "locking" in flock
\* "open" the lock is held;  "seeked" and the descriptor is positioned
\* "done" the operation is over, Close is not;  "closed" only set_length is left
\* "failed" the operation returned false, Close is yet to come
Opening == {"opening", "again"}
Using   == {"open", "seeked", "done", "failed"}
States  == {"idle", "locking", "closed", "dead"} \cup Opening \cup Using

\* The values of File's share constants (file_unix.cpp), and -1 for shareUnknown
shareDenyReadWrite == 128
shareDenyWrite == 0
shareDenyRead == 256
shareDenyNone == 0

\* `by` is what a replacement writes, and the vector that a reader passes; `limit`
\* is the max_records of either, 0 for all.
Kinds == {"append", "change", "replace", "read"}
Job(kind, share, by, limit) == [kind |-> kind, share |-> share, by |-> by, limit |-> limit]
Writes(p) == job[p].kind # "read"
Replaces(p) == job[p].kind = "replace"

\* Whoever changes the file opens it with the default share mode, or with one that
\* keeps others from writing; that is up to DataFile's callers.
ASSUME JobsAssumption ==
  /\ Jobs \subseteq [kind : Kinds, share : Int, by : Seq(Records), limit : Nat]
  /\ \A j \in Jobs : j.kind # "read" => j.share \in {-1, shareDenyReadWrite, shareDenyWrite}

TypeOK ==
  /\ file \in Seq(Records \cup {Hole})
  /\ exists \in BOOLEAN /\ allowed \in BOOLEAN /\ torn \in BOOLEAN
  /\ lock \in [Procs -> {"none", "shared", "exclusive"}]
  /\ pc \in [Procs -> States]
  /\ job \in [Procs -> [kind : Kinds, share : Int, by : Seq(Records), limit : Nat]]
  /\ count \in [Procs -> 0..Tries]
  /\ pos \in [Procs -> Nat]
  /\ vec \in [Procs -> Seq(Records \cup {Hole})]
  /\ due \in Seq(Records \cup {Hole})

Idle == Job("read", 0, <<>>, 0)

Init ==
  /\ file = <<>>
  /\ exists \in BOOLEAN
  /\ allowed = TRUE
  /\ lock = [p \in Procs |-> "none"]
  /\ pc = [p \in Procs |-> "idle"]
  /\ job = [p \in Procs |-> Idle]
  /\ count = [p \in Procs |-> 0]
  /\ pos = [p \in Procs |-> 0]
  /\ vec = [p \in Procs |-> <<>>]
  /\ due = <<>>
  /\ torn = FALSE

Goto(p, from, to) == pc[p] = from /\ pc' = [pc EXCEPT ![p] = to]

\* The object is gone, and the caller has done with the vector.
Forget(p) ==
  /\ job' = [job EXCEPT ![p] = Idle]
  /\ count' = [count EXCEPT ![p] = 0]
  /\ pos' = [pos EXCEPT ![p] = 0]
  /\ vec' = [vec EXCEPT ![p] = <<>>]

-----------------------------------------------------------------------------
(* File::Open *)

Call(p, j) ==
  /\ Goto(p, "idle", "opening")
  /\ job' = [job EXCEPT ![p] = j]
  /\ count' = [count EXCEPT ![p] = 1]
  /\ UNCHANGED <<disk, lock, pos, vec, torn>>

\* Writers pass modeCreateFile.
OpenSucceeds(p) ==
  /\ pc[p] \in Opening
  /\ IF exists THEN allowed ELSE Writes(p)
  /\ pc' = [pc EXCEPT ![p] = "locking"]
  /\ exists' = TRUE
  /\ UNCHANGED <<file, allowed, due, lock, call, torn>>

\* Open returns false: after the first try when access() does not find the file,
\* which may be missing or impossible to create, and after a later one for any
\* error but EACCES.
OpenFails(p) ==
  /\ pc[p] \in (IF exists THEN {"again"} ELSE Opening)
  /\ pc' = [pc EXCEPT ![p] = "idle"]
  /\ Forget(p)
  /\ UNCHANGED <<disk, lock, torn>>

\* Mutation: the tries are not counted.
OpenDeniedUncounted(p) ==
  /\ pc[p] \in Opening /\ exists /\ ~allowed
  /\ pc' = [pc EXCEPT ![p] = "again"]
  /\ UNCHANGED <<disk, lock, call, torn>>

\* Any error, though access() finds the file: sleep and try again, without counting.
\* EACCES after that: the same, until `count` says it is enough.
OpenDenied(p) ==
  /\ exists
  /\ \/ /\ Goto(p, "opening", "again")
        /\ UNCHANGED call
     \/ /\ ~allowed /\ count[p] < Tries
        /\ Goto(p, "again", "again")
        /\ count' = [count EXCEPT ![p] = @ + 1]
        /\ UNCHANGED <<job, pos, vec>>
     \/ /\ ~allowed /\ count[p] = Tries
        /\ Goto(p, "again", "idle")
        /\ Forget(p)
  /\ UNCHANGED <<disk, lock, torn>>

\* shareUnknown becomes shareDenyWrite for a reader, which is also shareDenyNone.
ShareMode(p) ==
  IF job[p].share # -1 THEN job[p].share
  ELSE IF Writes(p) THEN shareDenyReadWrite ELSE shareDenyWrite

\* Mutation: only shareDenyWrite asks for an exclusive lock.
LockForDenyWrite(p) ==
  IF ShareMode(p) = shareDenyWrite THEN "exclusive" ELSE "shared"

LockFor(p) ==
  IF ShareMode(p) \in {shareDenyReadWrite, shareDenyWrite} THEN "exclusive" ELSE "shared"

\* flock waits for as long as somebody else's lock is in the way.
Lock(p) ==
  /\ Goto(p, "locking", "open")
  /\ \A q \in Procs \ {p} :
       IF LockFor(p) = "exclusive" THEN lock[q] = "none" ELSE lock[q] # "exclusive"
  /\ lock' = [lock EXCEPT ![p] = LockFor(p)]
  /\ UNCHANGED <<disk, call, torn>>

-----------------------------------------------------------------------------
(* The operations on the open file *)

\* write() of records at an offset; a gap before them reads as zeros
WriteAt(f, offset, recs) ==
  LET end == IF recs = <<>> THEN 0 ELSE offset + Len(recs) IN
  [i \in 1..(IF Len(f) > end THEN Len(f) ELSE end) |->
     IF i \in offset + 1 .. end THEN recs[i - offset]
     ELSE IF i <= Len(f) THEN f[i] ELSE Hole]

\* a file cut, or filled up with zeros, to n records
Cut(f, n) == [i \in 1..n |-> IF i <= Len(f) THEN f[i] ELSE Hole]

\* `num` and num_to_read: how many of n records to write or to read
Num(p, n) == IF job[p].limit # 0 /\ job[p].limit < n THEN job[p].limit ELSE n

\* The records that a replacement is to write
ToWrite(p) == SubSeq(job[p].by, 1, Num(p, Len(job[p].by)))

\* p finds the file as a WriteVectorAndTruncate left it that has yet to cut it.
TearsOthers(p) == torn' = (torn \/ \E q \in Procs \ {p} : pc[q] = "closed")

\* File::length, of what the path names, also for a file that is open
Length == Len(file)

\* lseek, from the beginning
SeekTo(p, n) == pos' = [pos EXCEPT ![p] = n]

\* read() of the first n records into a vector, which stays longer if it was
ReadInto(records, n) == WriteAt(records, 0, SubSeq(file, 1, n))

\* DataFile::Seek: to number_of_records() for an append, which asks for the file's
\* length by its path, or to some record that is to be changed.
Seek(p) ==
  /\ Goto(p, "open", "seeked")
  /\ \/ /\ job[p].kind = "append" /\ Length < MaxRecords
        /\ SeekTo(p, Length)
     \/ /\ job[p].kind = "change"
        /\ \E n \in 0 .. Length - 1 : SeekTo(p, n)
  /\ TearsOthers(p)
  /\ UNCHANGED <<disk, lock, job, count, vec>>

\* There is no record to change; or MaxRecords leaves no room for another.
Skip(p) ==
  /\ \/ job[p].kind = "change" /\ file = <<>>
     \/ job[p].kind = "append" /\ Length = MaxRecords
  /\ Goto(p, "open", "done")
  /\ UNCHANGED <<disk, lock, call, torn>>

\* DataFile::Write of one record
Write(p, r) ==
  /\ Goto(p, "seeked", "done")
  /\ file' = WriteAt(file, pos[p], <<r>>)
  /\ due' = WriteAt(due, pos[p], <<r>>)
  /\ UNCHANGED <<exists, allowed, lock, call, torn>>

\* DataFile::ReadVector, into a vector that may hold records already: it is made
\* longer if it is too short, and never shorter.  The length is asked for and the
\* records are read in one step: only a late set_length could come between, and the
\* read falls short then, or finds the records it asked for.
ReadVector(p) ==
  /\ job[p].kind = "read"
  /\ Goto(p, "open", "done")
  /\ vec' = [vec EXCEPT ![p] = ReadInto(job[p].by, Num(p, Length))]
  /\ TearsOthers(p)
  /\ UNCHANGED <<disk, lock, job, count, pos>>

\* WriteVectorAndTruncate, up to its Close.  The length that it is going to set is
\* that of the vector, also when max_records keeps it from writing all of it: the
\* records behind are the old ones, or zeros.
WriteVector(p) ==
  /\ Replaces(p)
  /\ Goto(p, "open", "done")
  /\ file' = WriteAt(file, 0, ToWrite(p))
  /\ due' = Cut(WriteAt(due, 0, ToWrite(p)), Len(job[p].by))
  /\ TearsOthers(p)
  /\ UNCHANGED <<exists, allowed, lock, call>>

\* write() of recs at an offset fails or falls short: some of them get into the file,
\* and perhaps a part of the next.  Write returns false, and so do its callers:
\* WriteVectorAndTruncate neither closes nor cuts the file then.
WrittenInPart(offset, recs) ==
  \E n \in 0 .. Len(recs) - 1 : \E rest \in {<<>>, <<Hole>>} :
    LET got == SubSeq(recs, 1, n) \o rest IN
    /\ rest # <<>> => offset + n < Len(file)
    /\ file' = WriteAt(file, offset, got)
    /\ due' = WriteAt(due, offset, got)

\* The caller lets the object go.
WriteShort(p) ==
  /\ \/ /\ Goto(p, "seeked", "failed")
        /\ \E r \in Records : WrittenInPart(pos[p], <<r>>)
        /\ UNCHANGED torn
     \/ /\ Replaces(p)
        /\ Goto(p, "open", "failed")
        /\ WrittenInPart(0, ToWrite(p))
        /\ TearsOthers(p)
  /\ UNCHANGED <<exists, allowed, lock, call>>

\* read() fails or falls short: the vector has grown, and some of it is read.
ReadShort(p) ==
  /\ job[p].kind = "read"
  /\ Goto(p, "open", "failed")
  /\ \E n \in 0 .. Num(p, Length) - 1 :
       LET grown == WriteAt(job[p].by, 0, Cut(job[p].by, Num(p, Length))) IN
       vec' = [vec EXCEPT ![p] = WriteAt(grown, 0, SubSeq(file, 1, n))]
  /\ UNCHANGED <<disk, lock, job, count, pos, torn>>

-----------------------------------------------------------------------------
(* File::Close, and what WriteVectorAndTruncate does after it *)

Close(p) ==
  /\ lock' = [lock EXCEPT ![p] = "none"]
  /\ \/ Goto(p, "failed", "idle") /\ Forget(p)
     \/ ~Replaces(p) /\ Goto(p, "done", "idle") /\ Forget(p)
     \/ Replaces(p) /\ Goto(p, "done", "closed") /\ UNCHANGED call
  /\ UNCHANGED <<disk, torn>>

\* Mutation: the length set is that of the file.
KeepLength(p) ==
  /\ allowed
  /\ Goto(p, "closed", "idle")
  /\ Forget(p)
  /\ UNCHANGED <<disk, lock, torn>>

\* set_length goes by the path: the file is closed, and not locked any more.
SetLength(p) ==
  /\ allowed
  /\ Goto(p, "closed", "idle")
  /\ file' = Cut(file, Len(job[p].by))
  /\ Forget(p)
  /\ UNCHANGED <<exists, allowed, due, lock, torn>>

\* resize_file fails, for want of permission or else.  It is logged, and
\* WriteVectorAndTruncate returns true.
SetLengthFails(p) ==
  /\ Goto(p, "closed", "idle")
  /\ Forget(p)
  /\ torn' = TRUE
  /\ UNCHANGED <<disk, lock>>

-----------------------------------------------------------------------------
\* Another program changes the file's permissions.
Chmod ==
  /\ exists
  /\ allowed' = ~allowed
  /\ UNCHANGED <<file, exists, due, lock, pc, call, torn>>

\* A process is killed; its lock goes, what it wrote stays.
Die(p) ==
  /\ pc[p] # "dead"
  /\ pc' = [pc EXCEPT ![p] = "dead"]
  /\ lock' = [lock EXCEPT ![p] = "none"]
  /\ Forget(p)
  /\ torn' = (torn \/ (Replaces(p) /\ pc[p] \in {"done", "closed"}))
  /\ UNCHANGED disk

\* What a process in a call does next, by itself, when the system calls do what they
\* are asked to as far as the file and its permissions let them
Proceed(p) ==
  \/ OpenSucceeds(p) \/ (OpenFails(p) /\ ~exists) \/ OpenDenied(p) \/ Lock(p)
  \/ Seek(p) \/ Skip(p) \/ (\E r \in Records : Write(p, r))
  \/ ReadVector(p) \/ WriteVector(p)
  \/ Close(p) \/ SetLength(p) \/ (SetLengthFails(p) /\ ~allowed)

\* What may go wrong besides
Falter(p) == OpenFails(p) \/ WriteShort(p) \/ ReadShort(p) \/ SetLengthFails(p)

Over == (\A p \in Procs : pc[p] = "dead") /\ UNCHANGED vars

Next ==
  \/ \E p \in Procs : (\E j \in Jobs : Call(p, j)) \/ Proceed(p) \/ Falter(p) \/ Die(p)
  \/ Chmod
  \/ Over

Spec == Init /\ [][Next]_vars

\* Every process that can run does; nobody has to open the file, or to die, and no
\* system call has to fail.
FairSpec == Spec /\ \A p \in Procs : WF_vars(Proceed(p))

-----------------------------------------------------------------------------
(* Properties *)

\* The operations take effect one by one, in the order of the locks: when no
\* replacement is under way the file has the records that all of them amount to, and
\* what a reader was to read is the beginning of these.  One that returned true
\* counts as a whole, one that returned false with what it had written, and nothing
\* is cut then.  The exception is a replacement that cuts the file when another
\* process has already looked at it, or never does, because it dies or resize_file
\* fails: Close comes before set_length.
OperationsAtomic ==
  ~torn =>
    /\ (\A p \in Procs : ~(Replaces(p) /\ pc[p] \in {"done", "closed"})) => file = due
    /\ \A p \in Procs :
         pc[p] = "done" /\ job[p].kind = "read" =>
           LET n == Num(p, Len(due)) IN SubSeq(vec[p], 1, n) = SubSeq(due, 1, n)

\* A process that changes the file, and may have read its length or found its
\* place in it, is alone with it.
WritersAlone ==
  \A p, q \in Procs :
    pc[p] \in Using /\ Writes(p) /\ pc[q] \in Using => p = q

\* File::Open's retries end, whatever happens to the permissions meanwhile.
OpensGiveUp == \A p \in Procs : pc[p] \in Opening ~> pc[p] \notin Opening

=============================================================================
