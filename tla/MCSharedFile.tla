----------------------------- MODULE MCSharedFile ----------------------------
(***************************************************************************)
(* Processes that save a value of one block or one of two, or another of   *)
(* two, and load it, for model-checking SharedFile.                        *)
(***************************************************************************)
EXTENDS SharedFile

CONSTANTS p1, p2, p3, short, long, other
MCProcs == {p1, p2, p3}
MCVals == {short, long, other}
MCSize == [v \in MCVals |-> IF v = short THEN 1 ELSE 2]

=============================================================================
