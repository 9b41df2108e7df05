---------------------------- MODULE SemaphoreFile ----------------------------
(***************************************************************************)
(* Processes that share one semaphore file (src/core/semaphore_file.cpp):  *)
(* each calls try_acquire or acquire on the same path, keeps the object it *)
(* got for a while and destroys it, over and over.  A step is a system     *)
(* call or a reading of the clock, and the processes interleave between    *)
(* any two of them; a process may die at any point.                        *)
(*                                                                         *)
(* The file is known by the process that created it.  Its text, which      *)
(* nothing reads, is left out, and so is the length of the timeout: a      *)
(* deadline passes at some point, or at once.  Opening may also fail for   *)
(* reasons other than the file, which come and go: no directory, no        *)
(* permission, no descriptor or room left.                                 *)
(***************************************************************************)
CONSTANTS Procs, NoFile

ASSUME NoFileAssumption == NoFile \notin Procs

VARIABLES
  file,    \* which process created the file at the path, or NoFile
  pc,      \* what each process is doing
  timed,   \* whether its call has a timeout: try_acquire, not acquire
  late,    \* whether the clock is past `end`
  denied,  \* whether anything but the file keeps a process from creating one
  kept     \* history: who could not remove its file

vars == <<file, pc, timed, late, denied, kept>>

\* "open"    about to open with O_CREAT | O_EXCL
\* "failed"  the open failed, the clock is yet to be read
\* "asleep"  in sleep_for(step)
\* "held"    owns a SemaphoreFile
\* "closed"  its destructor has closed the descriptor
\* "found"   ... and File::Remove has found the file to exist
\* "dead"    the process is gone without running the destructor
Waiting   == {"open", "failed", "asleep"}
Releasing == {"closed", "found"}

TypeOK ==
  /\ file \in Procs \cup {NoFile}
  /\ pc \in [Procs -> {"idle", "held", "dead"} \cup Waiting \cup Releasing]
  /\ timed \in [Procs -> BOOLEAN]
  /\ late \in [Procs -> BOOLEAN]
  /\ denied \in [Procs -> BOOLEAN]
  /\ kept \subseteq Procs
  /\ \A p \in Procs : late[p] => timed[p]   \* acquire's time is never up

Init ==
  /\ file = NoFile
  /\ pc = [p \in Procs |-> "idle"]
  /\ timed = [p \in Procs |-> FALSE]
  /\ late = [p \in Procs |-> FALSE]
  /\ denied \in [Procs -> BOOLEAN]
  /\ kept = {}

\* What makes open() fail
Barred(p) == file # NoFile \/ denied[p]

Goto(p, from, to) == pc[p] = from /\ pc' = [pc EXCEPT ![p] = to]

-----------------------------------------------------------------------------
\* try_acquire reads the clock for `end`; acquire's is infinitely far away.
Call(p, withTimeout) ==
  /\ Goto(p, "idle", "open")
  /\ timed' = [timed EXCEPT ![p] = withTimeout]
  /\ late' = [late EXCEPT ![p] = FALSE]
  /\ UNCHANGED <<file, denied, kept>>

\* Mutation: O_EXCL is left out.
OpenAnyway(p) ==
  /\ Goto(p, "open", "held")
  /\ file' = IF file = NoFile THEN p ELSE file
  /\ UNCHANGED <<timed, late, denied, kept>>

\* open() creates the file, and the constructor takes the descriptor
Open(p) ==
  /\ file = NoFile /\ ~denied[p]
  /\ Goto(p, "open", "held")
  /\ file' = p
  /\ UNCHANGED <<timed, late, denied, kept>>

\* Whatever the error is, it is taken for a semaphore that is held.
OpenFails(p) ==
  /\ Barred(p)
  /\ Goto(p, "open", "failed")
  /\ UNCHANGED <<file, timed, late, denied, kept>>

\* Mutation: start + duration::max() overflows.
ExpireAny(p) ==
  /\ pc[p] \in Waiting /\ ~late[p]
  /\ late' = [late EXCEPT ![p] = TRUE]
  /\ UNCHANGED <<file, pc, timed, denied, kept>>

\* the clock passes `end`
Expire(p) ==
  /\ pc[p] \in Waiting /\ timed[p] /\ ~late[p]
  /\ late' = [late EXCEPT ![p] = TRUE]
  /\ UNCHANGED <<file, pc, timed, denied, kept>>

\* Mutation: a semaphore held for too long is taken for a stale one.
GiveUpRemoving(p) ==
  /\ late[p]
  /\ Goto(p, "failed", "idle")
  /\ file' = NoFile
  /\ UNCHANGED <<timed, late, denied, kept>>

\* semaphore_not_acquired is thrown
GiveUp(p) ==
  /\ late[p]
  /\ Goto(p, "failed", "idle")
  /\ UNCHANGED <<file, timed, late, denied, kept>>

\* Mutation: the time is not looked at.
SleepAnyway(p) ==
  /\ Goto(p, "failed", "asleep")
  /\ UNCHANGED <<file, timed, late, denied, kept>>

Sleep(p) ==
  /\ ~late[p]
  /\ Goto(p, "failed", "asleep")
  /\ UNCHANGED <<file, timed, late, denied, kept>>

\* Mutation: only the time is looked at again.
WakeToClock(p) ==
  /\ Goto(p, "asleep", "failed")
  /\ UNCHANGED <<file, timed, late, denied, kept>>

Wake(p) ==
  /\ Goto(p, "asleep", "open")
  /\ UNCHANGED <<file, timed, late, denied, kept>>

-----------------------------------------------------------------------------
(* ~SemaphoreFile: close, then File::Remove *)

Close(p) ==
  /\ Goto(p, "held", "closed")
  /\ UNCHANGED <<file, timed, late, denied, kept>>

FindFile(p) ==
  /\ Goto(p, "closed", IF file # NoFile THEN "found" ELSE "idle")
  /\ UNCHANGED <<file, timed, late, denied, kept>>

\* Mutation: the file is left to O_TEMPORARY, which is 0 outside of Windows.
LeaveFile(p) ==
  /\ Goto(p, "found", "idle")
  /\ UNCHANGED <<file, timed, late, denied, kept>>

\* remove() unlinks whatever file is at the path now
RemoveFile(p) ==
  /\ Goto(p, "found", "idle")
  /\ file' = NoFile
  /\ UNCHANGED <<timed, late, denied, kept>>

\* What keeps a process from creating the file, such as the permissions of the
\* directory, may hide it from Exists or make remove() fail, which is logged.
KeepFile(p) ==
  /\ denied[p] /\ file # NoFile
  /\ pc[p] \in Releasing
  /\ pc' = [pc EXCEPT ![p] = "idle"]
  /\ kept' = kept \cup {p}
  /\ UNCHANGED <<file, timed, late, denied>>

\* Something comes in the way of a process, or goes.
Hinder(p) ==
  /\ pc[p] # "dead"
  /\ denied' = [denied EXCEPT ![p] = ~@]
  /\ UNCHANGED <<file, pc, timed, late, kept>>

\* The process is killed or exits without unwinding: its file stays.
Die(p) ==
  /\ pc[p] # "dead"
  /\ pc' = [pc EXCEPT ![p] = "dead"]
  /\ UNCHANGED <<file, timed, late, denied, kept>>

-----------------------------------------------------------------------------
\* What a process in a call or a destructor does next, and does by itself.
Proceed(p) ==
  \/ Open(p) \/ OpenFails(p) \/ GiveUp(p) \/ Sleep(p) \/ Wake(p)
  \/ FindFile(p) \/ RemoveFile(p)

Step(p) ==
  \/ \E withTimeout \in BOOLEAN : Call(p, withTimeout)
  \/ Proceed(p) \/ Expire(p) \/ Close(p) \/ KeepFile(p) \/ Hinder(p) \/ Die(p)

\* Nobody is left.
Over == (\A p \in Procs : pc[p] = "dead") /\ UNCHANGED vars

Next == (\E p \in Procs : Step(p)) \/ Over

Spec == Init /\ [][Next]_vars

\* The operating system runs every process that can run and the clock goes on;
\* nobody has to call, to let go of a semaphore, to be hindered, or to die.
FairSpec == Spec /\ \A p \in Procs : WF_vars(Proceed(p)) /\ WF_vars(Expire(p))

-----------------------------------------------------------------------------
(* Properties *)

\* No two processes own a SemaphoreFile of the same path.
MutualExclusion ==
  \A p, q \in Procs : pc[p] = "held" /\ pc[q] = "held" => p = q

\* The file at the path is that of a process that owns the semaphore or is in
\* its destructor, of one that died there, or of one that the system kept from
\* removing it: nobody who timed out, and nobody who is done, leaves a file behind
\* that would keep the others waiting.
NoFileLeftBehind ==
  \A p \in Procs : file = p => pc[p] \in {"held", "dead"} \cup Releasing \/ p \in kept

\* A process that owns the semaphore, or is about to remove its file, has its
\* own file at the path: the file a destructor unlinks is never another's.
OwnFileStays ==
  \A p \in Procs : pc[p] \in {"held"} \cup Releasing => file = p

\* try_acquire returns or throws, even when the file is never removed or the
\* other processes win every race for it.
TimedCallsEnd ==
  \A p \in Procs : pc[p] \in Waiting /\ timed[p] ~> pc[p] \notin Waiting

\* acquire waits forever only when opening fails again and again, or from some time
\* on: because the semaphore is taken, or because the directory is missing, may not
\* be written to, or the like, which acquire does not tell from it.  It does not
\* miss that the file may be created, if that stays so.
WaitsOnlyWhileBarred ==
  \A p \in Procs : <>[](pc[p] \in Waiting) => []<>Barred(p)

\* The semaphore file implements the mutex: the processes that own an object
\* are its holders.
Holders == {p \in Procs : pc[p] = "held"}
AbstractMutex == INSTANCE Mutex WITH holders <- Holders
IsMutex == AbstractMutex!Spec

=============================================================================
