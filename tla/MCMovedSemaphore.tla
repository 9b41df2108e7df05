-------------------------- MODULE MCMovedSemaphore --------------------------
(***************************************************************************)
(* Two processes and one path, for model-checking MovedSemaphore.          *)
(***************************************************************************)
EXTENDS MovedSemaphore

CONSTANTS p1, p2
MCProcs == {p1, p2}

=============================================================================
