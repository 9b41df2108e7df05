----------------------------- MODULE MCLibrary -----------------------------
(***************************************************************************)
(* Small instances of the parts of Library.                                *)
(***************************************************************************)
EXTENDS Library

CONSTANTS h1, h2, h3, f1, f2, f3, l1, l2

MCHandlers == {h1, h2, h3}
MCActions == {f1, f2, f3}
MCLoggers == {l1, l2}

\* With their ends these are shorter than LineBuffer, as long, or longer.
MCLineTexts == {<<>>, <<"x">>, <<"x", "y">>, <<"x", "y", "z">>}

\* For the run of a log that cannot be opened, in which the other parts rest
Logging == Init /\ unit = "log" /\ [][Next]_vars

=============================================================================
