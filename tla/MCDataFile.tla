----------------------------- MODULE MCDataFile ------------------------------
(***************************************************************************)
(* Two processes, two records and every kind of operation, for             *)
(* model-checking DataFile.                                                *)
(***************************************************************************)
EXTENDS DataFile

CONSTANTS p1, p2, a, b
MCProcs == {p1, p2}
MCRecords == {a, b}

\* Writers with the default share mode; readers with the default and with the only
\* one that takes a shared lock.  One of each stops at its first record.
MCJobs == {
  Job("append", -1, <<>>, 0), Job("change", -1, <<>>, 0),
  Job("replace", -1, <<a>>, 0), Job("replace", -1, <<b, b>>, 1),
  Job("read", -1, <<a, a>>, 0), Job("read", shareDenyRead, <<>>, 1)}

=============================================================================
