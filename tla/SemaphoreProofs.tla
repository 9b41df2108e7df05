--------------------------- MODULE SemaphoreProofs ---------------------------
(***************************************************************************)
(* Theorems about SemaphoreFile, for any set of processes.                 *)
(*                                                                         *)
(* Mutual exclusion is not inductive by itself: that nobody else holds the *)
(* semaphore when the path is free rests on the file of a holder being     *)
(* there, and that on no destructor removing the file of another, which in *)
(* turn needs the same of the processes between close and unlink.          *)
(***************************************************************************)
EXTENDS SemaphoreFile, TLAPS

IInv == TypeOK /\ NoFileLeftBehind /\ OwnFileStays

LEMMA Initially == Init => IInv
  BY NoFileAssumption DEF Init, IInv, TypeOK, NoFileLeftBehind, OwnFileStays, Waiting, Releasing

\* What a step of one process does to the file and to the program counters.
LEMMA StepsOfOne ==
  ASSUME IInv, NEW p \in Procs, Step(p)
  PROVE  /\ \E to \in {"idle", "held", "dead"} \cup Waiting \cup Releasing :
              pc' = [pc EXCEPT ![p] = to]
         /\ \/ /\ file' = file
               /\ pc'[p] = "held" => pc[p] = "held"
               /\ pc'[p] \in Releasing => pc[p] \in {"held"} \cup Releasing
               /\ pc[p] \in {"held"} \cup Releasing =>
                    pc'[p] \in {"held", "dead"} \cup Releasing \/ p \in kept'
               /\ pc[p] = "dead" => pc'[p] = "dead"
            \/ file = NoFile /\ file' = p /\ pc[p] = "open" /\ pc'[p] = "held"
            \/ pc[p] = "found" /\ file' = NoFile /\ pc'[p] = "idle"
         /\ kept \subseteq kept' /\ kept' \subseteq kept \cup {p}
<1>1. pc \in [Procs -> {"idle", "held", "dead"} \cup Waiting \cup Releasing]
  BY DEF IInv, TypeOK
<1>2. pc[p] \in Releasing => file # NoFile
  BY NoFileAssumption DEF IInv, OwnFileStays
<1>3. ASSUME NEW from, NEW to \in {"idle", "held", "dead"} \cup Waiting \cup Releasing,
             Goto(p, from, to)
      PROVE  pc[p] = from /\ pc' = [pc EXCEPT ![p] = to] /\ pc'[p] = to
  BY <1>1, <1>3 DEF Goto
<1>4. CASE \E withTimeout \in BOOLEAN : Call(p, withTimeout)
  BY <1>1, <1>4 DEF Call, Goto, Waiting, Releasing
<1>5. CASE Open(p)
  BY <1>1, <1>5 DEF Open, Goto, Waiting, Releasing
<1>6. CASE OpenFails(p) \/ GiveUp(p) \/ Sleep(p) \/ Wake(p) \/ Close(p) \/ Die(p)
  BY <1>1, <1>6 DEF OpenFails, GiveUp, Sleep, Wake, Close, Die, Goto, Waiting, Releasing
<1>7. CASE Expire(p) \/ Hinder(p)
  <2>1. pc' = [pc EXCEPT ![p] = pc[p]] /\ UNCHANGED <<file, pc, kept>>
    BY <1>1, <1>7 DEF Expire, Hinder
  <2>2. QED
    BY <1>1, <2>1
<1>8. CASE FindFile(p)
  <2>1. Goto(p, "closed", "found") /\ UNCHANGED <<file, kept>>
    BY <1>2, <1>8 DEF FindFile, Goto, Releasing
  <2>2. QED
    BY <1>1, <2>1 DEF Goto, Waiting, Releasing
<1>9. CASE RemoveFile(p)
  BY <1>1, <1>9 DEF RemoveFile, Goto, Waiting, Releasing
<1>10. CASE KeepFile(p)
  BY <1>1, <1>10 DEF KeepFile, Waiting, Releasing
<1>11. QED
  BY <1>4, <1>5, <1>6, <1>7, <1>8, <1>9, <1>10 DEF Step, Proceed

LEMMA TypesKept ==
  ASSUME IInv, NEW p \in Procs, Step(p)
  PROVE  TypeOK'
<1>1. pc' \in [Procs -> {"idle", "held", "dead"} \cup Waiting \cup Releasing]
  BY StepsOfOne DEF IInv, TypeOK
<1>2. file' \in Procs \cup {NoFile}
  BY StepsOfOne DEF IInv, TypeOK
<1>3. /\ timed' \in [Procs -> BOOLEAN] /\ late' \in [Procs -> BOOLEAN]
      /\ \A q \in Procs : late'[q] => timed'[q]
  <2>1. timed \in [Procs -> BOOLEAN] /\ late \in [Procs -> BOOLEAN]
        /\ \A q \in Procs : late[q] => timed[q]
    BY DEF IInv, TypeOK
  <2>2. CASE \E withTimeout \in BOOLEAN : Call(p, withTimeout)
    BY <2>1, <2>2 DEF Call
  <2>3. CASE Expire(p)
    BY <2>1, <2>3 DEF Expire
  <2>4. CASE UNCHANGED <<timed, late>>
    BY <2>1, <2>4
  <2>5. QED
    BY <2>2, <2>3, <2>4 DEF Step, Proceed, Open, OpenFails, GiveUp, Sleep, Wake, FindFile,
       RemoveFile, Close, KeepFile, Hinder, Die
<1>4. kept' \subseteq Procs
  BY StepsOfOne DEF IInv, TypeOK
<1>5. denied' \in [Procs -> BOOLEAN]
  <2>1. denied \in [Procs -> BOOLEAN]
    BY DEF IInv, TypeOK
  <2>2. CASE Hinder(p)
    BY <2>1, <2>2 DEF Hinder
  <2>3. CASE UNCHANGED denied
    BY <2>1, <2>3
  <2>4. QED
    BY <2>2, <2>3 DEF Step, Proceed, Call, Open, OpenFails, GiveUp, Sleep, Wake, FindFile,
       RemoveFile, Expire, Close, KeepFile, Die
<1>6. QED
  BY <1>1, <1>2, <1>3, <1>4, <1>5 DEF TypeOK

LEMMA Preserved ==
  ASSUME IInv, [Next]_vars
  PROVE  IInv'
<1>1. CASE UNCHANGED vars
  BY <1>1 DEF IInv, TypeOK, NoFileLeftBehind, OwnFileStays, vars
<1>2. ASSUME NEW p \in Procs, Step(p) PROVE IInv'
  <2> SUFFICES NoFileLeftBehind' /\ OwnFileStays'
    BY <1>2, TypesKept DEF IInv
  <2>1. PICK to \in {"idle", "held", "dead"} \cup Waiting \cup Releasing :
          pc' = [pc EXCEPT ![p] = to]
    BY <1>2, StepsOfOne
  <2>2. /\ pc'[p] = to /\ kept \subseteq kept'
        /\ \A q \in Procs \ {p} : pc'[q] = pc[q]
    BY <1>2, <2>1, StepsOfOne DEF IInv, TypeOK
  <2>3. CASE /\ file' = file
             /\ pc'[p] = "held" => pc[p] = "held"
             /\ pc'[p] \in Releasing => pc[p] \in {"held"} \cup Releasing
             /\ pc[p] \in {"held"} \cup Releasing =>
                  pc'[p] \in {"held", "dead"} \cup Releasing \/ p \in kept'
             /\ pc[p] = "dead" => pc'[p] = "dead"
    BY <2>2, <2>3 DEF IInv, NoFileLeftBehind, OwnFileStays
  <2>4. CASE file = NoFile /\ file' = p /\ pc[p] = "open" /\ pc'[p] = "held"
    BY <2>2, <2>4, NoFileAssumption DEF IInv, NoFileLeftBehind, OwnFileStays
  <2>5. CASE pc[p] = "found" /\ file' = NoFile /\ pc'[p] = "idle"
    <3>1. file = p
      BY <2>5 DEF IInv, OwnFileStays, Releasing
    <3>2. \A q \in Procs \ {p} : pc[q] \notin {"held"} \cup Releasing
      BY <3>1 DEF IInv, OwnFileStays
    <3>3. QED
      BY <2>2, <2>5, <3>2, NoFileAssumption DEF NoFileLeftBehind, OwnFileStays, Releasing
  <2>6. QED
    BY <1>2, <2>3, <2>4, <2>5, StepsOfOne
<1>3. QED
  BY <1>1, <1>2 DEF Next, Over

LEMMA Always == Spec => []IInv
<1>1. QED
  BY Initially, Preserved, PTL DEF Spec

-----------------------------------------------------------------------------
\* The variables keep to their types, and acquire never runs out of time.
THEOREM TypesHold == Spec => []TypeOK
<1>1. IInv => TypeOK
  BY DEF IInv
<1>2. QED
  BY <1>1, Always, PTL

LEMMA Exclusive == IInv => MutualExclusion
  BY DEF IInv, OwnFileStays, MutualExclusion

\* However many processes share the path, and whenever any of them dies or
\* times out, no two own the semaphore.
THEOREM OneHolder == Spec => []MutualExclusion
<1>1. QED
  BY Always, Exclusive, PTL

\* A file at the path is that of a holder, of a process in its destructor, or
\* of one that died there or was kept from removing it.
THEOREM FilesHaveOwners == Spec => []NoFileLeftBehind
<1>1. IInv => NoFileLeftBehind
  BY DEF IInv
<1>2. QED
  BY <1>1, Always, PTL

\* A destructor removes the file its own process created, never another's.
THEOREM RemovesItsOwn == Spec => []OwnFileStays
<1>1. IInv => OwnFileStays
  BY DEF IInv
<1>2. QED
  BY <1>1, Always, PTL

-----------------------------------------------------------------------------
LEMMA StepRefines ==
  ASSUME IInv, [Next]_vars
  PROVE  [AbstractMutex!Next]_Holders
<1>1. CASE UNCHANGED vars
  BY <1>1 DEF vars, Holders
<1>2. ASSUME NEW p \in Procs, Step(p)
      PROVE  AbstractMutex!Next \/ Holders' = Holders
  <2>1. PICK to \in {"idle", "held", "dead"} \cup Waiting \cup Releasing :
          pc' = [pc EXCEPT ![p] = to]
    BY <1>2, StepsOfOne
  <2>2. pc'[p] = to /\ \A q \in Procs \ {p} : pc'[q] = pc[q]
    BY <2>1 DEF IInv, TypeOK
  <2>3. CASE (pc[p] = "held") = (pc'[p] = "held")
    BY <2>2, <2>3 DEF Holders
  <2>4. CASE pc[p] # "held" /\ pc'[p] = "held"
    <3>1. file = NoFile
      BY <1>2, <2>4, StepsOfOne
    <3>2. Holders = {} /\ Holders' = {p}
      BY <2>2, <2>4, <3>1, NoFileAssumption DEF Holders, IInv, OwnFileStays
    <3>3. QED
      BY <3>2 DEF AbstractMutex!Next, AbstractMutex!Acquire
  <2>5. CASE pc[p] = "held" /\ pc'[p] # "held"
    <3>1. p \in Holders /\ Holders' = Holders \ {p}
      BY <2>2, <2>5 DEF Holders
    <3>2. QED
      BY <3>1 DEF AbstractMutex!Next, AbstractMutex!Release
  <2>6. QED
    BY <2>3, <2>4, <2>5
<1>3. QED
  BY <1>1, <1>2 DEF Next, Over

\* Opening with O_CREAT | O_EXCL acquires, and closing releases, the mutex of
\* the abstract specification; every other step leaves its holders alone.
THEOREM ImplementsMutex == Spec => IsMutex
<1>1. Init => AbstractMutex!Init
  BY DEF Init, AbstractMutex!Init, Holders
<1>2. QED
  BY <1>1, Always, StepRefines, PTL DEF Spec, IsMutex, AbstractMutex!Spec

=============================================================================
