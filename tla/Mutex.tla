-------------------------------- MODULE Mutex --------------------------------
(***************************************************************************)
(* What a semaphore file promises to the processes that share its path: at *)
(* most one of them holds it at any time, and who lets go of it, or dies,  *)
(* holds it no longer.                                                     *)
(***************************************************************************)
CONSTANT Procs
VARIABLE holders

Init == holders = {}

Acquire(p) == holders = {} /\ holders' = {p}
Release(p) == p \in holders /\ holders' = holders \ {p}

Next == \E p \in Procs : Acquire(p) \/ Release(p)

Spec == Init /\ [][Next]_holders

=============================================================================
