---------------------------- MODULE FileHandles ----------------------------
(***************************************************************************)
(* The life of File objects and the handles they own (src/core/file.cpp):  *)
(* construction, moves, Open, Close and destruction.  Handles are given    *)
(* out by the operating system, the lowest that is free.                   *)
(***************************************************************************)
EXTENDS Integers

CONSTANTS
  Objects,    \* the names of objects
  Paths, NoPath,
  MaxHandles  \* how many handles there are

ASSUME MaxHandlesAssumption == MaxHandles \in Nat

Invalid == 0  \* invalid_handle

VARIABLES
  alive,   \* the objects that are constructed
  handle,  \* handle_
  path,    \* full_path_name_
  table    \* what each handle is opened for, or NoPath

fileVars == <<alive, handle, path, table>>

FreeHandles == {h \in DOMAIN table : table[h] = NoPath}
Opened(h, p) == table' = [table EXCEPT ![h] = p]

ConstructFile ==
  /\ \E o \in Objects \ alive, p \in Paths :
       /\ alive' = alive \cup {o}
       /\ path' = [path EXCEPT ![o] = p]
       /\ handle' = [handle EXCEPT ![o] = Invalid]
  /\ UNCHANGED table

\* Mutation: the other object keeps its handle.
MoveConstructSharing ==
  /\ \E o \in Objects \ alive, from \in alive :
       /\ alive' = alive \cup {o}
       /\ handle' = [handle EXCEPT ![o] = handle[from]]
       /\ path' = [path EXCEPT ![o] = path[from], ![from] = NoPath]
  /\ UNCHANGED table

\* The paths are swapped, so the new object's empty one goes to the other.
MoveConstructFile ==
  /\ \E o \in Objects \ alive, from \in alive :
       /\ alive' = alive \cup {o}
       /\ handle' = [handle EXCEPT ![o] = handle[from], ![from] = Invalid]
       /\ path' = [path EXCEPT ![o] = path[from], ![from] = NoPath]
  /\ UNCHANGED table

\* A handle this object has is not closed.
MoveAssignFile ==
  /\ \E o, from \in alive :
       /\ o # from
       /\ handle' = [handle EXCEPT ![o] = handle[from], ![from] = Invalid]
       /\ path' = [path EXCEPT ![o] = path[from], ![from] = path[o]]
  /\ UNCHANGED <<alive, table>>

\* A debug build stops where the object is open already (DCHECK_EQ); others forget
\* the handle it has.
OpenFile ==
  /\ \E o \in alive :
       \/ \E h \in FreeHandles :
            /\ path[o] # NoPath /\ \A free \in FreeHandles : h <= free
            /\ Opened(h, path[o])
            /\ handle' = [handle EXCEPT ![o] = h]
       \/ handle' = [handle EXCEPT ![o] = Invalid] /\ UNCHANGED table
  /\ UNCHANGED <<alive, path>>

CloseHandle(o) ==
  IF handle[o] = Invalid THEN UNCHANGED <<handle, table>>
  ELSE Opened(handle[o], NoPath) /\ handle' = [handle EXCEPT ![o] = Invalid]

CloseFile ==
  /\ \E o \in alive : CloseHandle(o)
  /\ UNCHANGED <<alive, path>>

DestroyFile ==
  /\ \E o \in alive :
       /\ CloseHandle(o)
       /\ alive' = alive \ {o}
       /\ path' = [path EXCEPT ![o] = NoPath]

FileInit ==
  /\ alive = {}
  /\ handle = [o \in Objects |-> Invalid]
  /\ path = [o \in Objects |-> NoPath]
  /\ table = [h \in 1..MaxHandles |-> NoPath]

FileNext ==
  \/ ConstructFile \/ MoveConstructFile \/ MoveAssignFile
  \/ OpenFile \/ CloseFile \/ DestroyFile

-----------------------------------------------------------------------------
\* An object that is open has a handle that is open for the object's own path and
\* that no other object has, however the objects were moved, opened again and
\* closed: no object closes or reads another's file.  (Handles may be forgotten, by
\* a move assignment to an open object or a second Open; they and their locks stay.)
HandlesHeldOnce ==
  \A o \in Objects : handle[o] # Invalid =>
    /\ o \in alive /\ table[handle[o]] = path[o] /\ path[o] # NoPath
    /\ \A other \in Objects \ {o} : handle[other] # handle[o]

=============================================================================
