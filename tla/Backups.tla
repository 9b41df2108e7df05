------------------------------ MODULE Backups ------------------------------
(***************************************************************************)
(* Backups of files in a directory that programs make and trim at the same *)
(* time: backup_file and trim_backups (src/core/file.cpp), FindFiles       *)
(* (findfiles.cpp) and WFindFile (wfndfile_unix.cpp).                      *)
(*                                                                         *)
(* A backup's name is that of its file and the second it was made in, in   *)
(* digits that sort as the seconds do.  What a scan looks for is kept in   *)
(* static variables, one set to a program.                                 *)
(***************************************************************************)
EXTENDS Integers, Sequences, FiniteSets

CONSTANTS
  Programs,
  Files,
  MaxBackups,  \* max_backups, of every call
  LastSecond   \* bound: when the clock stops

ASSUME MaxBackupsAssumption == MaxBackups \in Int
ASSUME LastSecondAssumption == LastSecond \in Nat \ {0}

VARIABLES
  directory,  \* the backups: what they are of, when they were made, and their kind
  second,     \* the clock
  step,       \* "idle", "find", "scan" or "remove", for each program
  from,       \* the file it backs up
  spec,       \* filespec_ptr, s_typemask and s_path
  victims,    \* the names it has still to remove, in order
  made        \* history: every backup there has been

backupVars == <<directory, second, step, from, spec, victims, made>>

NoFile == "no file"
Backup(f, s) == [of |-> f, at |-> s, kind |-> "file"]

\* The clock is set back, too.
Tick ==
  /\ second' \in 0..LastSecond \ {second}
  /\ UNCHANGED <<directory, step, from, spec, victims, made>>

\* copy_file fails where the name is taken, in the same second.
MakeBackup(p) ==
  /\ step[p] = "idle"
  /\ \E f \in Files :
       /\ \A e \in directory : ~(e.of = f /\ e.at = second)
       /\ directory' = directory \cup {Backup(f, second)}
       /\ made' = made \cup {Backup(f, second)}
       /\ from' = [from EXCEPT ![p] = f]
       /\ step' = [step EXCEPT ![p] = IF MaxBackups > 0 THEN "find" ELSE "idle"]
  /\ UNCHANGED <<second, spec, victims>>

\* WFindFile::open, up to scandir
SetSpec(p) ==
  /\ step[p] = "find"
  /\ spec' = [spec EXCEPT ![p] = from[p]]
  /\ step' = [step EXCEPT ![p] = "scan"]
  /\ UNCHANGED <<directory, second, from, victims, made>>

\* fname_ok: the mask, and a directory is no file
IsFile(e) == e.kind = "file"
NameOk(p, e) == e.of = spec[p] /\ IsFile(e)

\* What WFindFile::next comes to, one after the other
Entries(p) == {e \in directory : NameOk(p, e)}

\* Mutation: the newest are removed.
FoundBackwards(p) ==
  CHOOSE names \in [1..Cardinality(Entries(p)) -> Entries(p)] :
    \A i, j \in DOMAIN names : i < j => names[i].at > names[j].at

\* FindFiles puts what WFindFile finds into a std::set, ordered by name.
Found(p) ==
  LET found == {e \in Entries(p) : IsFile(e)} IN
  CHOOSE names \in [1..Cardinality(found) -> found] :
    \A i, j \in DOMAIN names : i < j => names[i].at < names[j].at

\* What is beyond max_backups, from the front
Scan(p) ==
  /\ step[p] = "scan"
  /\ LET excess == Len(Found(p)) - MaxBackups IN
     IF excess <= 0 THEN step' = [step EXCEPT ![p] = "idle"] /\ UNCHANGED victims
     ELSE /\ victims' = [victims EXCEPT ![p] = SubSeq(Found(p), 1, excess)]
          /\ step' = [step EXCEPT ![p] = "remove"]
  /\ UNCHANGED <<directory, second, from, spec, made>>

\* Of a file that is gone already Remove says it is removed; it may fail for others.
RemoveOne(p) ==
  /\ step[p] = "remove"
  /\ directory' \in {directory, directory \ {Head(victims[p])}}
  /\ victims' = [victims EXCEPT ![p] = Tail(@)]
  /\ step' = [step EXCEPT ![p] = IF Len(victims[p]) = 1 THEN "idle" ELSE "remove"]
  /\ UNCHANGED <<second, from, spec, made>>

\* The program is killed, and another started.
RestartProgram(p) ==
  /\ step[p] # "idle"
  /\ step' = [step EXCEPT ![p] = "idle"]
  /\ victims' = [victims EXCEPT ![p] = <<>>]
  /\ UNCHANGED <<directory, second, from, spec, made>>

\* A directory may have a name that matches.
BackupInit ==
  /\ directory = {[of |-> f, at |-> 0, kind |-> "directory"] : f \in Files}
  /\ second = 1
  /\ step = [p \in Programs |-> "idle"]
  /\ from = [p \in Programs |-> NoFile]
  /\ spec = [p \in Programs |-> NoFile]
  /\ victims = [p \in Programs |-> <<>>]
  /\ made = {}

BackupNext ==
  \/ Tick
  \/ \E p \in Programs :
       MakeBackup(p) \/ SetSpec(p) \/ Scan(p) \/ RemoveOne(p) \/ RestartProgram(p)

-----------------------------------------------------------------------------
\* No backup is missing of which MaxBackups newer ones were not made, by their
\* names: also when programs that trim the same file interfere, and are killed.  A
\* backup that was made with the clock set back may be the one that goes.
NewestBackupsStay ==
  \A b \in made \ directory :
    Cardinality({n \in made : n.of = b.of /\ n.at > b.at}) >= MaxBackups

=============================================================================
