--------------------------- MODULE MCSemaphoreFile ---------------------------
(***************************************************************************)
(* Three processes and one path, for model-checking SemaphoreFile.         *)
(***************************************************************************)
EXTENDS SemaphoreFile

CONSTANTS p1, p2, p3
MCProcs == {p1, p2, p3}

=============================================================================
