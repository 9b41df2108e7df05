--------------------------- MODULE MovedSemaphore ---------------------------
(***************************************************************************)
(* SemaphoreFile with processes that move their object, as the defaulted   *)
(* move constructor of src/core/semaphore_file.h lets them.  path_ is      *)
(* const and fd_ an int, so both are copied: the object moved from keeps   *)
(* the path and the descriptor, and its destructor does what that of the   *)
(* object moved to does.                                                   *)
(***************************************************************************)
EXTENDS SemaphoreFile

VARIABLE moved  \* for each process, what has become of an object moved from

\* "none"    there is none
\* "whole"   it waits for its destructor
\* "closed", "found"   in its destructor, as in pc
MovedInit == Init /\ moved = [p \in Procs |-> "none"]

MovedTo(p, from, to) ==
  /\ moved[p] = from
  /\ moved' = [moved EXCEPT ![p] = to]

\* SemaphoreFile(SemaphoreFile&&)
MoveObject(p) ==
  /\ pc[p] = "held"
  /\ MovedTo(p, "none", "whole")
  /\ UNCHANGED vars

\* The destructor of the object moved from: close either closes the descriptor
\* of the other one or fails, which is logged, and File::Remove follows.
CloseMoved(p) ==
  /\ pc[p] \in {"idle", "held"}
  /\ MovedTo(p, "whole", "closed")
  /\ UNCHANGED vars

FindMoved(p) ==
  /\ pc[p] # "dead"
  /\ MovedTo(p, "closed", IF file # NoFile THEN "found" ELSE "none")
  /\ UNCHANGED vars

RemoveMoved(p) ==
  /\ pc[p] # "dead"
  /\ MovedTo(p, "found", "none")
  /\ file' = NoFile
  /\ UNCHANGED <<pc, timed, late, denied, kept>>

KeepMoved(p) ==
  /\ pc[p] # "dead" /\ denied[p] /\ file # NoFile
  /\ \/ MovedTo(p, "closed", "none")
     \/ MovedTo(p, "found", "none")
  /\ UNCHANGED vars

\* A process has one thread: while it is in that destructor it does nothing else.
MovedNext ==
  \E p \in Procs :
    \/ /\ moved[p] \in {"none", "whole"}
       /\ Step(p)
       /\ UNCHANGED moved
    \/ MoveObject(p) \/ CloseMoved(p) \/ FindMoved(p) \/ RemoveMoved(p) \/ KeepMoved(p)

MovedSpec == MovedInit /\ [][MovedNext]_<<vars, moved>>

\* While one process holds the semaphore, try_acquire does not give it to
\* another (the test AlreadyAcqired).
AcquiredByOne == MutualExclusion

=============================================================================
