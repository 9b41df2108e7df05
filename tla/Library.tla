------------------------------ MODULE Library ------------------------------
(***************************************************************************)
(* Eight parts of src/core that do not use each other, side by side: each  *)
(* behaviour exercises the one that Init picks, and the others rest.       *)
(***************************************************************************)
EXTENDS Graph, EventBus, Guards, FileHandles, Backups, Logger, TextLines, Colors

VARIABLE unit  \* the part that is exercised

vars ==
  <<unit, graphVars, busVars, guardVars, fileVars, backupVars, logVars, lineVars, colored>>

Init ==
  /\ unit \in {"graph", "events", "guards", "files", "backups", "log", "lines", "colors"}
  /\ GraphInit /\ BusInit /\ GuardInit /\ FileInit /\ BackupInit /\ LogInit /\ LineInit /\ ColorInit

GraphStep ==
  /\ unit = "graph" /\ GraphNext
  /\ UNCHANGED <<unit, busVars, guardVars, fileVars, backupVars, logVars, lineVars, colored>>

BusStep ==
  /\ unit = "events" /\ BusNext
  /\ UNCHANGED <<unit, graphVars, guardVars, fileVars, backupVars, logVars, lineVars, colored>>

GuardStep ==
  /\ unit = "guards" /\ GuardNext
  /\ UNCHANGED <<unit, graphVars, busVars, fileVars, backupVars, logVars, lineVars, colored>>

FileStep ==
  /\ unit = "files" /\ FileNext
  /\ UNCHANGED <<unit, graphVars, busVars, guardVars, backupVars, logVars, lineVars, colored>>

BackupStep ==
  /\ unit = "backups" /\ BackupNext
  /\ UNCHANGED <<unit, graphVars, busVars, guardVars, fileVars, logVars, lineVars, colored>>

LogStep ==
  /\ unit = "log" /\ LogNext
  /\ UNCHANGED <<unit, graphVars, busVars, guardVars, fileVars, backupVars, lineVars, colored>>

LineStep ==
  /\ unit = "lines" /\ LineNext
  /\ UNCHANGED <<unit, graphVars, busVars, guardVars, fileVars, backupVars, logVars, colored>>

ColorStep ==
  /\ unit = "colors" /\ ColorNext
  /\ UNCHANGED <<unit, graphVars, busVars, guardVars, fileVars, backupVars, logVars, lineVars>>

Next ==
  \/ GraphStep \/ BusStep \/ GuardStep \/ FileStep
  \/ BackupStep \/ LogStep \/ LineStep \/ ColorStep

Spec == Init /\ [][Next]_vars

=============================================================================
