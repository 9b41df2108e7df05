--------------------------- MODULE DataFileProofs ----------------------------
(***************************************************************************)
(* Theorems about DataFile, for any set of processes, of records and of    *)
(* operations, and any number of tries and of records in the file.         *)
(*                                                                         *)
(* The lock a process has is the one it asked for for as long as it uses   *)
(* the file, so a writer is alone.  That the file has the records that the *)
(* operations amount to, once it is cut, then rests on what may go on      *)
(* beside a replacement that has yet to cut it: as long as nothing is      *)
(* torn, nobody is about to write or has read, and there is no second      *)
(* replacement.                                                            *)
(***************************************************************************)
EXTENDS DataFile, TLAPS

\* A replacement that has written its records, and has not cut the file yet
Cutting(p) == Replaces(p) /\ pc[p] \in {"done", "closed"}

LockDiscipline ==
  \A p \in Procs :
    /\ lock[p] = (IF pc[p] \in Using THEN LockFor(p) ELSE "none")
    /\ Writes(p) => LockFor(p) = "exclusive"
    /\ lock[p] = "exclusive" => \A q \in Procs \ {p} : lock[q] = "none"

\* What each process is doing goes with its operation.
Stations ==
  \A p \in Procs :
    /\ pc[p] = "seeked" => job[p].kind \in {"append", "change"}
    /\ pc[p] = "closed" => Replaces(p)

StartsWith(s, t) == Len(t) <= Len(s) /\ \A i \in 1..Len(t) : s[i] = t[i]

\* Nothing goes on beside a replacement that may have yet to cut the file.
CutsAlone ==
  \A p \in Procs : Cutting(p) =>
    \A q \in Procs \ {p} :
      ~Cutting(q) /\ pc[q] # "seeked" /\ ~(pc[q] = "done" /\ job[q].kind = "read")

Amounts ==
  /\ (\A p \in Procs : ~Cutting(p)) => file = due
  /\ \A p \in Procs : Cutting(p) => due = Cut(file, Len(job[p].by))

ReadersHaveAll ==
  \A p \in Procs :
    pc[p] = "done" /\ job[p].kind = "read" =>
      StartsWith(vec[p], SubSeq(due, 1, Num(p, Len(due))))

IInv ==
  /\ TypeOK /\ LockDiscipline /\ Stations
  /\ ~torn => CutsAlone /\ Amounts /\ ReadersHaveAll

-----------------------------------------------------------------------------
(* Types *)

RecordSet == Records \cup {Hole}
JobSet == [kind : Kinds, share : Int, by : Seq(Records), limit : Nat]

\* Where a write of records ends
End(offset, recs) == IF recs = <<>> THEN 0 ELSE offset + Len(recs)

LEMMA WrittenAt ==
  ASSUME NEW f \in Seq(RecordSet), NEW offset \in Nat, NEW recs \in Seq(RecordSet)
  PROVE  WriteAt(f, offset, recs) \in Seq(RecordSet)
<1> DEFINE end == End(offset, recs)
           n == IF Len(f) > end THEN Len(f) ELSE end
           value(i) == IF i \in offset + 1 .. end THEN recs[i - offset]
                       ELSE IF i <= Len(f) THEN f[i] ELSE Hole
<1>1. n \in Nat
  BY DEF End
<1>2. Hole \in RecordSet
  BY DEF RecordSet
<1>3. \A i \in 1..n : value(i) \in RecordSet
  BY <1>2 DEF End
<1>4. [i \in 1..n |-> value(i)] \in Seq(RecordSet)
  <2> HIDE DEF n, value
  <2>1. QED
    BY <1>1, <1>3
<1>5. WriteAt(f, offset, recs) = [i \in 1..n |-> value(i)]
  BY DEF WriteAt, End
<1>6. QED
  BY <1>4, <1>5

LEMMA WrittenFirst ==
  ASSUME NEW f \in Seq(RecordSet), NEW recs \in Seq(RecordSet)
  PROVE  StartsWith(WriteAt(f, 0, recs), recs)
<1> DEFINE n == IF Len(f) > Len(recs) THEN Len(f) ELSE Len(recs)
<1>1. Len(recs) \in Nat /\ Len(f) \in Nat /\ n \in Nat
  OBVIOUS
<1>2. (IF recs = <<>> THEN 0 ELSE 0 + Len(recs)) = Len(recs)
  OBVIOUS
<1>3. WriteAt(f, 0, recs) = [i \in 1..n |-> IF i \in 0 + 1 .. Len(recs) THEN recs[i - 0]
                                           ELSE IF i <= Len(f) THEN f[i] ELSE Hole]
  BY <1>2 DEF WriteAt
<1>4. /\ Len(recs) <= Len(WriteAt(f, 0, recs))
      /\ \A i \in 1..Len(recs) : WriteAt(f, 0, recs)[i] = recs[i]
  BY <1>1, <1>3
<1>5. QED
  BY <1>4 DEF StartsWith

LEMMA CutTo ==
  ASSUME NEW f \in Seq(RecordSet), NEW n \in Nat
  PROVE  Cut(f, n) \in Seq(RecordSet)
<1>1. \A i \in 1..n : (IF i <= Len(f) THEN f[i] ELSE Hole) \in RecordSet
  BY DEF RecordSet
<1>2. QED
  BY <1>1 DEF Cut

LEMMA Beginnings ==
  ASSUME NEW s \in Seq(RecordSet), NEW n \in 0..Len(s)
  PROVE  SubSeq(s, 1, n) \in Seq(RecordSet) /\ Len(SubSeq(s, 1, n)) = n
<1>1. n \in Nat /\ Len(s) \in Nat
  OBVIOUS
<1>2. QED
  BY <1>1

LEMMA Widened == ASSUME NEW s \in Seq(Records) PROVE s \in Seq(RecordSet)
<1>1. Len(s) \in Nat /\ s = [i \in 1..Len(s) |-> s[i]]
  OBVIOUS
<1>2. \A i \in 1..Len(s) : s[i] \in RecordSet
  BY DEF RecordSet
<1>3. QED
  BY <1>1, <1>2

\* Never more than there are
LEMMA Limited ==
  ASSUME NEW p \in Procs, job \in [Procs -> JobSet], NEW n \in Nat
  PROVE  Num(p, n) \in 0..n
<1>1. job[p].limit \in Nat
  BY DEF JobSet
<1>2. QED
  BY <1>1 DEF Num

LEMMA ToWriteTyped ==
  ASSUME NEW p \in Procs, job \in [Procs -> JobSet]
  PROVE  job[p].by \in Seq(RecordSet) /\ ToWrite(p) \in Seq(RecordSet)
<1>1. job[p].by \in Seq(RecordSet)
  BY Widened DEF JobSet
<1>2. Num(p, Len(job[p].by)) \in 0..Len(job[p].by)
  BY <1>1, Limited
<1>3. QED
  BY <1>1, <1>2, Beginnings DEF ToWrite

\* What a write that falls short leaves are records.
LEMMA InPart ==
  ASSUME file \in Seq(RecordSet), due \in Seq(RecordSet),
         NEW offset \in Nat, NEW recs \in Seq(RecordSet), WrittenInPart(offset, recs)
  PROVE  file' \in Seq(RecordSet) /\ due' \in Seq(RecordSet)
<1>1. PICK n \in 0 .. Len(recs) - 1, rest \in {<<>>, <<Hole>>} :
        /\ file' = WriteAt(file, offset, SubSeq(recs, 1, n) \o rest)
        /\ due' = WriteAt(due, offset, SubSeq(recs, 1, n) \o rest)
  BY DEF WrittenInPart
<1>2. SubSeq(recs, 1, n) \in Seq(RecordSet)
  BY Beginnings
<1>3. rest \in Seq(RecordSet)
  <2>1. <<>> \in Seq(RecordSet) /\ <<Hole>> \in Seq(RecordSet)
    BY DEF RecordSet
  <2>2. QED
    BY <2>1
<1>4. SubSeq(recs, 1, n) \o rest \in Seq(RecordSet)
  BY <1>2, <1>3
<1>5. WriteAt(file, offset, SubSeq(recs, 1, n) \o rest) \in Seq(RecordSet)
  BY <1>4, WrittenAt
<1>6. WriteAt(due, offset, SubSeq(recs, 1, n) \o rest) \in Seq(RecordSet)
  BY <1>4, WrittenAt
<1>7. QED
  BY <1>1, <1>5, <1>6

LEMMA Initially == Init => IInv
<1> SUFFICES ASSUME Init PROVE IInv
  OBVIOUS
<1>1. TypeOK
  <2>1. Idle \in JobSet
    BY DEF Idle, Job, JobSet, Kinds
  <2>2. job \in [Procs -> JobSet] /\ count \in [Procs -> 0..Tries] /\ pos \in [Procs -> Nat]
    BY <2>1, TriesAssumption DEF Init
  <2>3. /\ exists \in BOOLEAN /\ allowed \in BOOLEAN /\ torn \in BOOLEAN
        /\ lock \in [Procs -> {"none", "shared", "exclusive"}]
        /\ pc \in [Procs -> States]
    BY DEF Init, States
  <2>4. vec \in [Procs -> Seq(RecordSet)] /\ file \in Seq(RecordSet) /\ due \in Seq(RecordSet)
    BY DEF Init
  <2>5. QED
    BY <2>2, <2>3, <2>4 DEF TypeOK, RecordSet, JobSet
<1>2. LockDiscipline /\ Stations
  BY DEF Init, LockDiscipline, Stations, Writes, Using, Idle, Job
<1>3. CutsAlone /\ Amounts /\ ReadersHaveAll
  BY DEF Init, CutsAlone, Amounts, ReadersHaveAll, Cutting
<1>4. QED
  BY <1>1, <1>2, <1>3 DEF IInv

\* The steps of a process
Step(p) == (\E j \in Jobs : Call(p, j)) \/ Proceed(p) \/ Falter(p) \/ Die(p)

\* What is forgotten keeps its type.
LEMMA Forgotten ==
  ASSUME TypeOK, NEW p \in Procs, Forget(p)
  PROVE  /\ job' \in [Procs -> JobSet] /\ count' \in [Procs -> 0..Tries]
         /\ pos' \in [Procs -> Nat] /\ vec' \in [Procs -> Seq(RecordSet)]
<1>1. Idle \in JobSet
  BY DEF Idle, Job, JobSet, Kinds
<1>2. /\ job \in [Procs -> JobSet] /\ count \in [Procs -> 0..Tries]
      /\ pos \in [Procs -> Nat] /\ vec \in [Procs -> Seq(RecordSet)]
  BY DEF TypeOK, JobSet, RecordSet
<1>3. job' \in [Procs -> JobSet]
  BY <1>1, <1>2 DEF Forget
<1>4. count' \in [Procs -> 0..Tries]
  BY <1>2, TriesAssumption DEF Forget
<1>5. pos' \in [Procs -> Nat] /\ vec' \in [Procs -> Seq(RecordSet)]
  BY <1>2 DEF Forget
<1>6. QED
  BY <1>3, <1>4, <1>5

LEMMA TypesKept ==
  ASSUME TypeOK, Stations, NEW p \in Procs, Step(p)
  PROVE  TypeOK'
<1>0. /\ file \in Seq(RecordSet) /\ due \in Seq(RecordSet)
      /\ exists \in BOOLEAN /\ allowed \in BOOLEAN /\ torn \in BOOLEAN
      /\ lock \in [Procs -> {"none", "shared", "exclusive"}]
      /\ pc \in [Procs -> States]
      /\ job \in [Procs -> JobSet] /\ count \in [Procs -> 0..Tries]
      /\ pos \in [Procs -> Nat] /\ vec \in [Procs -> Seq(RecordSet)]
  BY DEF TypeOK, JobSet, RecordSet
<1>00. /\ Len(file) \in Nat /\ Len(job[p].by) \in Nat
       /\ job[p].by \in Seq(RecordSet) /\ ToWrite(p) \in Seq(RecordSet)
  BY <1>0, ToWriteTyped
<1> SUFFICES /\ file' \in Seq(RecordSet) /\ due' \in Seq(RecordSet)
             /\ exists' \in BOOLEAN /\ allowed' \in BOOLEAN /\ torn' \in BOOLEAN
             /\ lock' \in [Procs -> {"none", "shared", "exclusive"}]
             /\ pc' \in [Procs -> States]
             /\ job' \in [Procs -> JobSet] /\ count' \in [Procs -> 0..Tries]
             /\ pos' \in [Procs -> Nat] /\ vec' \in [Procs -> Seq(RecordSet)]
  BY DEF TypeOK, JobSet, RecordSet
<1>1. ASSUME NEW j \in Jobs, Call(p, j)
      PROVE  /\ job' \in [Procs -> JobSet] /\ count' \in [Procs -> 0..Tries]
             /\ pc' \in [Procs -> States]
             /\ UNCHANGED <<file, due, exists, allowed, torn, lock, pos, vec>>
  <2>1. j \in JobSet /\ 1 \in 0..Tries
    BY JobsAssumption, TriesAssumption DEF JobSet
  <2>2. QED
    BY <1>0, <1>1, <2>1 DEF Call, Goto, disk, States, Opening
<1>2. CASE \E j \in Jobs : Call(p, j)
  BY <1>0, <1>1, <1>2
<1>3. CASE OpenSucceeds(p) \/ Lock(p)
  BY <1>0, <1>3 DEF OpenSucceeds, Lock, LockFor, Goto, call, disk, States, Using
<1>4. CASE OpenFails(p)
  <2>1. /\ pc' \in [Procs -> States] /\ UNCHANGED <<file, due, exists, allowed, torn, lock>>
    BY <1>0, <1>4 DEF OpenFails, disk, States
  <2>2. Forget(p)
    BY <1>4 DEF OpenFails
  <2>3. QED
    BY <1>0, <2>1, <2>2, Forgotten
<1>5. CASE OpenDenied(p)
  <2>1. /\ pc' \in [Procs -> States] /\ UNCHANGED <<file, due, exists, allowed, torn, lock>>
    BY <1>0, <1>5 DEF OpenDenied, Goto, disk, States, Opening
  <2>2. CASE UNCHANGED call
    BY <1>0, <2>1, <2>2 DEF call
  <2>3. CASE count[p] < Tries /\ count' = [count EXCEPT ![p] = @ + 1] /\ UNCHANGED <<job, pos, vec>>
    <3>1. count[p] + 1 \in 0..Tries
      BY <1>0, <2>3, TriesAssumption
    <3>2. QED
      BY <1>0, <2>1, <2>3, <3>1
  <2>4. CASE Forget(p)
    BY <1>0, <2>1, <2>4, Forgotten
  <2>5. QED
    BY <1>5, <2>2, <2>3, <2>4 DEF OpenDenied
<1>6. CASE Seek(p)
  <2>1. /\ pc' \in [Procs -> States] /\ torn' \in BOOLEAN
        /\ UNCHANGED <<file, due, exists, allowed, lock, job, count, vec>>
    BY <1>0, <1>6 DEF Seek, TearsOthers, Goto, disk, States, Using
  <2>2. \E n \in Nat : pos' = [pos EXCEPT ![p] = n]
    BY <1>00, <1>6 DEF Seek, SeekTo, Length
  <2>3. QED
    BY <1>0, <2>1, <2>2
<1>7. CASE Skip(p)
  BY <1>0, <1>7 DEF Skip, Goto, call, disk, States, Using
<1>8. CASE \E r \in Records : Write(p, r)
  <2>1. PICK r \in Records : Write(p, r)
    BY <1>8
  <2>2. <<r>> \in Seq(RecordSet) /\ pos[p] \in Nat
    BY <1>0 DEF RecordSet
  <2>3. WriteAt(file, pos[p], <<r>>) \in Seq(RecordSet)
    BY <1>0, <2>2, WrittenAt
  <2>4. WriteAt(due, pos[p], <<r>>) \in Seq(RecordSet)
    BY <1>0, <2>2, WrittenAt
  <2>5. QED
    BY <1>0, <2>1, <2>2, <2>3, <2>4 DEF Write, Goto, call, States, Using
<1>9. CASE ReadVector(p)
  <2>1. SubSeq(file, 1, Num(p, Len(file))) \in Seq(RecordSet)
    BY <1>0, <1>00, Limited, Beginnings
  <2>2. WriteAt(job[p].by, 0, SubSeq(file, 1, Num(p, Len(file)))) \in Seq(RecordSet)
    BY <1>0, <1>00, <2>1, WrittenAt
  <2>3. QED
    BY <1>0, <1>9, <2>2 DEF ReadVector, ReadInto, Length, TearsOthers, Goto, disk, States, Using
<1>10. CASE WriteVector(p)
  <2>1. WriteAt(file, 0, ToWrite(p)) \in Seq(RecordSet)
    BY <1>0, <1>00, WrittenAt
  <2>2. WriteAt(due, 0, ToWrite(p)) \in Seq(RecordSet)
    BY <1>0, <1>00, WrittenAt
  <2>3. Cut(WriteAt(due, 0, ToWrite(p)), Len(job[p].by)) \in Seq(RecordSet)
    BY <1>00, <2>2, CutTo
  <2>4. QED
    BY <1>0, <1>10, <2>1, <2>3 DEF WriteVector, TearsOthers, Goto, call, States, Using
<1>11. CASE Close(p)
  <2>1. /\ pc' \in [Procs -> States] /\ UNCHANGED <<file, due, exists, allowed, torn>>
        /\ lock' \in [Procs -> {"none", "shared", "exclusive"}]
    BY <1>0, <1>11 DEF Close, Goto, disk, States
  <2>2. CASE UNCHANGED call
    BY <1>0, <2>1, <2>2 DEF call
  <2>3. CASE Forget(p)
    BY <1>0, <2>1, <2>3, Forgotten
  <2>4. QED
    BY <1>11, <2>2, <2>3 DEF Close
<1>12. CASE SetLength(p)
  <2>1. /\ pc' \in [Procs -> States] /\ UNCHANGED <<due, exists, allowed, torn, lock>> /\ Forget(p)
        /\ file' = Cut(file, Len(job[p].by))
    BY <1>0, <1>12 DEF SetLength, Goto, States
  <2>2. file' \in Seq(RecordSet)
    BY <1>0, <1>00, <2>1, CutTo
  <2>3. QED
    BY <1>0, <2>1, <2>2, Forgotten
<1>14. CASE SetLengthFails(p)
  <2>1. /\ pc' \in [Procs -> States] /\ UNCHANGED <<file, due, exists, allowed, lock>> /\ Forget(p)
        /\ torn' \in BOOLEAN
    BY <1>0, <1>14 DEF SetLengthFails, Goto, disk, States
  <2>2. QED
    BY <1>0, <2>1, Forgotten
<1>15. CASE WriteShort(p)
  <2>1. /\ pc' \in [Procs -> States] /\ torn' \in BOOLEAN
        /\ UNCHANGED <<exists, allowed, lock, call>>
    BY <1>0, <1>15 DEF WriteShort, TearsOthers, Goto, States, Using
  <2>2. PICK offset \in Nat, recs \in Seq(RecordSet) : WrittenInPart(offset, recs)
    <3>1. CASE \E r \in Records : WrittenInPart(pos[p], <<r>>)
      <4>1. PICK r \in Records : WrittenInPart(pos[p], <<r>>)
        BY <3>1
      <4>2. pos[p] \in Nat /\ <<r>> \in Seq(RecordSet)
        BY <1>0 DEF RecordSet
      <4>3. QED
        BY <4>1, <4>2
    <3>2. CASE WrittenInPart(0, ToWrite(p))
      BY <1>00, <3>2
    <3>3. QED
      BY <1>15, <3>1, <3>2 DEF WriteShort
  <2>3. file' \in Seq(RecordSet) /\ due' \in Seq(RecordSet)
    BY <1>0, <2>2, InPart
  <2>4. QED
    BY <1>0, <2>1, <2>3 DEF call
<1>16. CASE ReadShort(p)
  <2>1. PICK n \in 0 .. Num(p, Len(file)) - 1 :
          vec' = [vec EXCEPT ![p] =
            WriteAt(WriteAt(job[p].by, 0, Cut(job[p].by, Num(p, Len(file)))), 0, SubSeq(file, 1, n))]
    BY <1>16 DEF ReadShort, Length
  <2>2. Num(p, Len(file)) \in 0..Len(file)
    BY <1>0, <1>00, Limited
  <2>3. Cut(job[p].by, Num(p, Len(file))) \in Seq(RecordSet)
    <3>1. Num(p, Len(file)) \in Nat
      BY <1>00, <2>2
    <3>2. QED
      BY <1>00, <3>1, CutTo
  <2>4. SubSeq(file, 1, n) \in Seq(RecordSet)
    BY <1>0, <1>00, <2>2, Beginnings
  <2>5. WriteAt(job[p].by, 0, Cut(job[p].by, Num(p, Len(file)))) \in Seq(RecordSet)
    BY <1>00, <2>3, WrittenAt
  <2>6. WriteAt(WriteAt(job[p].by, 0, Cut(job[p].by, Num(p, Len(file)))), 0, SubSeq(file, 1, n))
          \in Seq(RecordSet)
    BY <2>4, <2>5, WrittenAt
  <2>7. QED
    BY <1>0, <1>16, <2>1, <2>6 DEF ReadShort, Goto, disk, States, Using
<1>13. CASE Die(p)
  <2>1. /\ pc' \in [Procs -> States] /\ UNCHANGED <<file, due, exists, allowed>> /\ Forget(p)
        /\ lock' \in [Procs -> {"none", "shared", "exclusive"}] /\ torn' \in BOOLEAN
    BY <1>0, <1>13 DEF Die, disk, States
  <2>2. QED
    BY <1>0, <2>1, Forgotten
<1>17. QED
  BY <1>2, <1>3, <1>4, <1>5, <1>6, <1>7, <1>8, <1>9, <1>10, <1>11, <1>12, <1>13, <1>14, <1>15,
     <1>16 DEF Step, Proceed, Falter

-----------------------------------------------------------------------------
(* Locks *)

\* A step of a process leaves the others where they are.
LEMMA OthersStay ==
  ASSUME TypeOK, NEW p \in Procs, Step(p), NEW q \in Procs \ {p}
  PROVE  pc'[q] = pc[q] /\ lock'[q] = lock[q] /\ job'[q] = job[q] /\ vec'[q] = vec[q]
<1> USE DEF TypeOK
<1>1. CASE \E j \in Jobs : Call(p, j)
  BY <1>1 DEF Call, Goto
<1>2. CASE OpenSucceeds(p) \/ OpenFails(p) \/ OpenDenied(p) \/ Lock(p)
  BY <1>2 DEF OpenSucceeds, OpenFails, OpenDenied, Lock, Goto, Forget, call
<1>3. CASE Seek(p) \/ Skip(p) \/ (\E r \in Records : Write(p, r)) \/ ReadVector(p) \/ WriteVector(p)
  BY <1>3 DEF Seek, Skip, Write, ReadVector, WriteVector, Goto, call
<1>4. CASE WriteShort(p) \/ ReadShort(p)
  BY <1>4 DEF WriteShort, ReadShort, Goto, call
<1>5. CASE Close(p) \/ SetLength(p) \/ SetLengthFails(p) \/ Die(p)
  BY <1>5 DEF Close, SetLength, SetLengthFails, Die, Goto, Forget, call
<1>6. QED
  BY <1>1, <1>2, <1>3, <1>4, <1>5 DEF Step, Proceed, Falter

\* Where a step takes the process that makes it.
LEMMA OwnMove ==
  ASSUME TypeOK, LockDiscipline, Stations, NEW p \in Procs, Step(p)
  PROVE  /\ lock'[p] = (IF pc'[p] \in Using THEN LockFor(p)' ELSE "none")
         /\ Writes(p)' => LockFor(p)' = "exclusive"
         /\ pc'[p] = "seeked" => job'[p].kind \in {"append", "change"}
         /\ pc'[p] = "closed" => Replaces(p)'
<1>0. /\ lock \in [Procs -> {"none", "shared", "exclusive"}] /\ pc \in [Procs -> States]
      /\ job \in [Procs -> JobSet]
  BY DEF TypeOK, JobSet
<1>00. /\ lock[p] = (IF pc[p] \in Using THEN LockFor(p) ELSE "none")
       /\ Writes(p) => LockFor(p) = "exclusive"
       /\ pc[p] = "closed" => Replaces(p)
       /\ pc[p] = "seeked" => job[p].kind \in {"append", "change"}
  BY DEF LockDiscipline, Stations
<1>1. CASE \E j \in Jobs : Call(p, j)
  <2>1. PICK j \in Jobs : Call(p, j)
    BY <1>1
  <2>2. j.kind # "read" => j.share \in {-1, shareDenyReadWrite, shareDenyWrite}
    BY JobsAssumption
  <2>3. job'[p] = j /\ pc[p] = "idle" /\ pc'[p] = "opening" /\ lock' = lock
    BY <1>0, <2>1 DEF Call, Goto
  <2>4. Writes(p)' => LockFor(p)' = "exclusive"
    BY <2>2, <2>3 DEF Writes, LockFor, ShareMode, shareDenyReadWrite, shareDenyWrite
  <2>5. QED
    BY <1>00, <2>3, <2>4 DEF Using
<1>2. CASE OpenSucceeds(p)
  BY <1>0, <1>00, <1>2 DEF OpenSucceeds, Opening, Using, call, LockFor, ShareMode, Writes, Replaces
<1>3. CASE Lock(p)
  <2>1. pc'[p] = "open" /\ lock'[p] = LockFor(p) /\ job' = job
    BY <1>0, <1>3 DEF Lock, Goto, call
  <2>2. QED
    BY <1>00, <2>1 DEF Using, LockFor, ShareMode, Writes
<1>4. CASE Seek(p)
  <2>1. /\ pc[p] = "open" /\ pc'[p] = "seeked" /\ lock' = lock /\ job' = job
        /\ job[p].kind \in {"append", "change"}
    BY <1>0, <1>4 DEF Seek, Goto
  <2>2. QED
    BY <1>00, <2>1 DEF Using, LockFor, ShareMode, Writes
<1>5. CASE \/ Skip(p) \/ (\E r \in Records : Write(p, r)) \/ ReadVector(p) \/ WriteVector(p)
           \/ WriteShort(p) \/ ReadShort(p)
  <2>1. pc[p] \in {"open", "seeked"} /\ pc'[p] \in {"done", "failed"} /\ UNCHANGED <<lock, job>>
    BY <1>0, <1>5 DEF Skip, Write, ReadVector, WriteVector, WriteShort, ReadShort, Goto, call
  <2>2. QED
    BY <1>00, <2>1 DEF Using, LockFor, ShareMode, Writes
<1>6. CASE OpenDenied(p) /\ UNCHANGED job
  <2>1. pc[p] \in Opening /\ pc'[p] \in {"again", "idle"} /\ lock' = lock /\ job' = job
    BY <1>0, <1>6 DEF OpenDenied, Goto, Opening
  <2>2. QED
    BY <1>00, <2>1 DEF Using, Opening, LockFor, ShareMode, Writes
<1>7. CASE Close(p) /\ UNCHANGED call
  <2>1. pc[p] \in Using /\ pc'[p] \in {"idle", "closed"} /\ lock'[p] = "none" /\ job' = job
        /\ (pc'[p] = "closed" => Replaces(p))
    BY <1>0, <1>7 DEF Close, Goto, call, Using
  <2>2. QED
    BY <1>00, <2>1 DEF Using, LockFor, ShareMode, Writes, Replaces
<1>8. ASSUME Forget(p), lock'[p] = "none", pc'[p] \in {"idle", "dead"}
      PROVE  /\ lock'[p] = (IF pc'[p] \in Using THEN LockFor(p)' ELSE "none")
             /\ Writes(p)' => LockFor(p)' = "exclusive"
             /\ pc'[p] = "seeked" => job'[p].kind \in {"append", "change"}
             /\ pc'[p] = "closed" => Replaces(p)'
  <2>1. job'[p].kind = "read"
    BY <1>0, <1>8 DEF Forget, Idle, Job
  <2>2. QED
    BY <1>8, <2>1 DEF Using, Writes
<1>9. CASE OpenFails(p) \/ (OpenDenied(p) /\ job' # job) \/ SetLength(p) \/ SetLengthFails(p)
  <2>1. Forget(p) /\ lock' = lock /\ pc[p] \notin Using /\ pc'[p] = "idle"
    <3>1. CASE OpenFails(p)
      BY <1>0, <3>1 DEF OpenFails, Opening, Using
    <3>2. CASE OpenDenied(p) /\ job' # job
      BY <1>0, <3>2 DEF OpenDenied, Goto, Opening, Using, call
    <3>3. CASE SetLength(p) \/ SetLengthFails(p)
      BY <1>0, <3>3 DEF SetLength, SetLengthFails, Goto, Using
    <3>4. QED
      BY <1>9, <3>1, <3>2, <3>3
  <2>2. QED
    BY <1>00, <1>8, <2>1
<1>10. CASE Die(p) \/ (Close(p) /\ Forget(p))
  <2>1. lock'[p] = "none" /\ Forget(p) /\ pc'[p] \in {"idle", "closed", "dead"}
    BY <1>0, <1>10 DEF Die, Close, Goto
  <2>2. CASE pc'[p] # "closed"
    BY <1>8, <2>1, <2>2
  <2>3. CASE pc'[p] = "closed"
    BY <1>0, <1>7, <1>10, <2>3 DEF Die, Close, Goto
  <2>4. QED
    BY <2>2, <2>3
<1>11. Close(p) => UNCHANGED call \/ Forget(p)
  BY DEF Close
<1>12. QED
  BY <1>1, <1>2, <1>3, <1>4, <1>5, <1>6, <1>7, <1>9, <1>10, <1>11 DEF Step, Proceed, Falter

LEMMA LocksKept ==
  ASSUME TypeOK, LockDiscipline, Stations, NEW p \in Procs, Step(p)
  PROVE  LockDiscipline' /\ Stations'
<1>0. \A q \in Procs \ {p} : pc'[q] = pc[q] /\ lock'[q] = lock[q] /\ job'[q] = job[q]
  BY OthersStay
<1>1. lock \in [Procs -> {"none", "shared", "exclusive"}] /\ pc \in [Procs -> States]
  BY DEF TypeOK
<1>2. ASSUME NEW q \in Procs
      PROVE  /\ lock'[q] = (IF pc'[q] \in Using THEN LockFor(q)' ELSE "none")
             /\ Writes(q)' => LockFor(q)' = "exclusive"
             /\ pc'[q] = "seeked" => job'[q].kind \in {"append", "change"}
             /\ pc'[q] = "closed" => Replaces(q)'
  <2>1. CASE q = p
    BY <2>1, OwnMove
  <2>2. CASE q # p
    BY <1>0, <2>2 DEF LockDiscipline, Stations, LockFor, ShareMode, Writes, Replaces
  <2>3. QED
    BY <2>1, <2>2
<1>3. \/ lock'[p] \in {lock[p], "none"}
      \/ \A q \in Procs \ {p} :
           IF lock'[p] = "exclusive" THEN lock[q] = "none" ELSE lock[q] # "exclusive"
  <2>1. CASE Lock(p)
    BY <1>1, <2>1 DEF Lock
  <2>2. CASE (\E j \in Jobs : Call(p, j)) \/ OpenSucceeds(p) \/ OpenFails(p) \/ OpenDenied(p)
    BY <2>2 DEF Call, OpenSucceeds, OpenFails, OpenDenied
  <2>3. CASE Seek(p) \/ Skip(p) \/ (\E r \in Records : Write(p, r)) \/ ReadVector(p) \/ WriteVector(p)
    BY <2>3 DEF Seek, Skip, Write, ReadVector, WriteVector, call
  <2>4. CASE WriteShort(p) \/ ReadShort(p)
    BY <2>4 DEF WriteShort, ReadShort
  <2>5. CASE Close(p) \/ SetLength(p) \/ SetLengthFails(p) \/ Die(p)
    BY <1>1, <2>5 DEF Close, SetLength, SetLengthFails, Die
  <2>6. QED
    BY <2>1, <2>2, <2>3, <2>4, <2>5 DEF Step, Proceed, Falter
<1>4. ASSUME NEW q \in Procs, lock'[q] = "exclusive", NEW r \in Procs \ {q}
      PROVE  lock'[r] = "none"
  <2>1. CASE q = p
    BY <1>0, <1>3, <1>4, <2>1 DEF LockDiscipline
  <2>2. CASE q # p /\ r # p
    BY <1>0, <1>4, <2>2 DEF LockDiscipline
  <2>3. CASE q # p /\ r = p
    BY <1>0, <1>3, <1>4, <2>3 DEF LockDiscipline
  <2>4. QED
    BY <2>1, <2>2, <2>3
<1>5. QED
  BY <1>2, <1>4 DEF LockDiscipline, Stations

-----------------------------------------------------------------------------
(* Records *)

LEMMA TornStays == ASSUME NEW p \in Procs, Step(p), ~torn' PROVE ~torn
<1>1. CASE (\E j \in Jobs : Call(p, j)) \/ OpenSucceeds(p) \/ OpenFails(p) \/ OpenDenied(p) \/ Lock(p)
  BY <1>1 DEF Call, OpenSucceeds, OpenFails, OpenDenied, Lock
<1>2. CASE Skip(p) \/ (\E r \in Records : Write(p, r)) \/ ReadShort(p) \/ Close(p) \/ SetLength(p)
  BY <1>2 DEF Skip, Write, ReadShort, Close, SetLength
<1>3. CASE Seek(p) \/ ReadVector(p) \/ WriteVector(p) \/ WriteShort(p) \/ SetLengthFails(p) \/ Die(p)
  BY <1>3 DEF Seek, ReadVector, WriteVector, WriteShort, SetLengthFails, Die, TearsOthers
<1>4. QED
  BY <1>1, <1>2, <1>3 DEF Step, Proceed, Falter

\* Whoever looks at the file or writes finds no replacement that has yet to cut it.
LEMMA NobodyCuts ==
  ASSUME IInv, NEW p \in Procs, ~torn, ~torn',
         \/ Seek(p) \/ ReadVector(p) \/ WriteVector(p)
         \/ (\E r \in Records : Write(p, r)) \/ WriteShort(p),
         NEW q \in Procs
  PROVE  ~Cutting(q)
<1>1. pc[p] \in {"open", "seeked"}
  BY DEF Seek, ReadVector, WriteVector, Write, WriteShort, Goto
<1>2. CASE q = p
  BY <1>1, <1>2 DEF Cutting
<1>3. CASE q # p /\ pc[q] = "closed"
  <2>1. CASE pc[p] = "seeked"
    BY <1>3, <2>1 DEF IInv, CutsAlone, Cutting
  <2>2. CASE pc[p] # "seeked"
    BY <1>3, <2>2 DEF Seek, ReadVector, WriteVector, Write, WriteShort, Goto, TearsOthers
  <2>3. QED
    BY <2>1, <2>2
<1>4. CASE q # p /\ pc[q] = "done"
  <2>1. ASSUME Replaces(q) PROVE FALSE
    <3>1. lock[q] = "exclusive"
      BY <1>4, <2>1 DEF IInv, LockDiscipline, Using, Replaces, Writes
    <3>2. lock[p] = "none"
      BY <1>4, <3>1 DEF IInv, LockDiscipline
    <3>3. lock[p] = LockFor(p)
      BY <1>1 DEF IInv, LockDiscipline, Using
    <3>4. QED
      BY <3>2, <3>3 DEF LockFor
  <2>2. QED
    BY <2>1 DEF Cutting
<1>5. QED
  BY <1>2, <1>3, <1>4 DEF Cutting

\* A process begins to replace the file's records in WriteVector, and is done with it
\* in SetLength.
LEMMA CuttingStays ==
  ASSUME IInv, NEW p \in Procs, Step(p), ~torn', NEW q \in Procs, ~SetLength(q), ~WriteVector(q)
  PROVE  (Cutting(q)' <=> Cutting(q)) /\ (Cutting(q) => job'[q].by = job[q].by)
<1>1. CASE q # p
  BY <1>1, OthersStay DEF IInv, Cutting, Replaces
<1>2. CASE q = p
  <2>0. /\ pc \in [Procs -> States] /\ job \in [Procs -> JobSet]
        /\ (pc[p] = "seeked" => job[p].kind \in {"append", "change"})
    BY DEF IInv, TypeOK, JobSet, Stations
  <2>1. CASE (\E j \in Jobs : Call(p, j)) \/ OpenSucceeds(p) \/ OpenFails(p) \/ OpenDenied(p) \/ Lock(p)
    <3>1. pc[p] \in {"idle", "locking"} \cup Opening
      BY <2>1 DEF Call, OpenSucceeds, OpenFails, OpenDenied, Lock, Goto, Opening
    <3>2. pc'[p] \in {"idle", "locking", "open"} \cup Opening
      BY <2>0, <2>1 DEF Call, OpenSucceeds, OpenFails, OpenDenied, Lock, Goto, Opening
    <3>3. QED
      BY <1>2, <3>1, <3>2 DEF Cutting, Opening
  <2>2. CASE \/ Seek(p) \/ Skip(p) \/ (\E r \in Records : Write(p, r)) \/ ReadVector(p)
             \/ WriteShort(p) \/ ReadShort(p)
    <3>1. pc[p] \in {"open", "seeked"} /\ job' = job
      BY <2>2 DEF Seek, Skip, Write, ReadVector, WriteShort, ReadShort, Goto, call
    <3>2. pc'[p] \in {"seeked", "failed"} \/ ~Replaces(p)
      BY <2>0, <2>2 DEF Seek, Skip, Write, ReadVector, WriteShort, ReadShort, Goto, Replaces
    <3>3. QED
      BY <1>2, <3>1, <3>2 DEF Cutting, Replaces
  <2>3. CASE Close(p)
    <3>1. CASE Replaces(p)
      BY <1>2, <2>0, <2>3, <3>1 DEF Close, Goto, call, Cutting, Replaces
    <3>2. CASE ~Replaces(p)
      BY <1>2, <2>0, <2>3, <3>2 DEF Close, Goto, Cutting
    <3>3. QED
      BY <3>1, <3>2
  <2>4. CASE Die(p) \/ SetLengthFails(p)
    <3>1. ~Cutting(p)
      BY <2>4 DEF Die, SetLengthFails, Cutting
    <3>2. pc'[p] \in {"dead", "idle"}
      BY <2>0, <2>4 DEF Die, SetLengthFails, Goto
    <3>3. QED
      BY <1>2, <3>1, <3>2 DEF Cutting
  <2>5. QED
    BY <1>2, <2>1, <2>2, <2>3, <2>4 DEF Step, Proceed, Falter
<1>3. QED
  BY <1>1, <1>2

LEMMA CutsAloneKept ==
  ASSUME IInv, NEW p \in Procs, Step(p), ~torn'
  PROVE  CutsAlone'
<1>0. /\ pc \in [Procs -> States] /\ job \in [Procs -> JobSet] /\ ~torn
      /\ (pc[p] = "seeked" => job[p].kind \in {"append", "change"})
  BY TornStays DEF IInv, TypeOK, JobSet, Stations
<1> SUFFICES ASSUME NEW a \in Procs, Cutting(a)', NEW b \in Procs \ {a}
             PROVE  /\ ~Cutting(b)' /\ pc'[b] # "seeked"
                    /\ ~(pc'[b] = "done" /\ job'[b].kind = "read")
  BY DEF CutsAlone
<1>1. CASE WriteVector(p)
  <2>1. \A q \in Procs : ~Cutting(q)
    BY <1>0, <1>1, NobodyCuts
  <2>2. a = p
    BY <2>1, OthersStay DEF IInv, Cutting, Replaces
  <2>3. b # p /\ pc'[b] = pc[b] /\ job'[b] = job[b]
    BY <2>2, OthersStay DEF IInv
  <2>4. lock[p] = "exclusive"
    BY <1>1 DEF WriteVector, Goto, IInv, LockDiscipline, Using, Replaces, Writes
  <2>5. lock[b] = "none" /\ LockFor(b) # "none"
    BY <2>2, <2>4 DEF IInv, LockDiscipline, LockFor
  <2>6. pc[b] \notin Using
    BY <2>5 DEF IInv, LockDiscipline
  <2>7. QED
    BY <2>1, <2>3, <2>6 DEF Cutting, Replaces, Using
<1>2. CASE ~WriteVector(p)
  <2>1. ~SetLength(p) \/ a # p
    BY <1>0 DEF SetLength, Goto, Cutting
  <2>2. Cutting(a)
    <3>1. CASE a = p
      BY <1>2, <2>1, <3>1, CuttingStays
    <3>2. CASE a # p
      BY <3>2, OthersStay DEF IInv, Cutting, Replaces
    <3>3. QED
      BY <3>1, <3>2
  <2>3. ~Cutting(b) /\ pc[b] # "seeked" /\ ~(pc[b] = "done" /\ job[b].kind = "read")
    BY <1>0, <2>2 DEF IInv, CutsAlone
  <2>4. CASE b # p
    BY <2>3, <2>4, OthersStay DEF IInv, Cutting, Replaces
  <2>5. CASE b = p
    <3>1. ~Seek(p) /\ ~ReadVector(p) /\ ~WriteShort(p) /\ \A r \in Records : ~Write(p, r)
      BY <1>0, <2>2, NobodyCuts
    <3>2. CASE Skip(p)
      BY <1>0, <2>5, <3>2 DEF Skip, Goto, call, Cutting, Replaces
    <3>3. CASE SetLength(p) \/ SetLengthFails(p) \/ ReadShort(p)
      BY <1>0, <2>5, <3>3 DEF SetLength, SetLengthFails, ReadShort, Goto, Cutting
    <3>4. CASE Die(p)
      BY <1>0, <2>5, <3>4 DEF Die, Cutting
    <3>5. CASE Close(p)
      BY <1>0, <2>3, <2>5, <3>5 DEF Close, Goto, Cutting, Replaces
    <3>6. CASE (\E j \in Jobs : Call(p, j)) \/ OpenSucceeds(p) \/ OpenFails(p) \/ OpenDenied(p) \/ Lock(p)
      BY <1>0, <2>5, <3>6 DEF Call, OpenSucceeds, OpenFails, OpenDenied, Lock, Goto, Opening, Cutting
    <3>7. QED
      BY <1>2, <3>1, <3>2, <3>3, <3>4, <3>5, <3>6 DEF Step, Proceed, Falter
  <2>6. QED
    BY <2>4, <2>5
<1>3. QED
  BY <1>1, <1>2

\* What the steps do to the records
LEMMA RecordSteps ==
  ASSUME NEW p \in Procs, Step(p)
  PROVE  \/ file' = file /\ due' = due
         \/ (\E r \in Records : Write(p, r)) \/ WriteVector(p) \/ WriteShort(p) \/ SetLength(p)
<1>1. CASE (\E j \in Jobs : Call(p, j)) \/ OpenSucceeds(p) \/ OpenFails(p) \/ OpenDenied(p) \/ Lock(p)
  BY <1>1 DEF Call, OpenSucceeds, OpenFails, OpenDenied, Lock, disk
<1>2. CASE Seek(p) \/ Skip(p) \/ ReadVector(p) \/ ReadShort(p) \/ Close(p) \/ SetLengthFails(p) \/ Die(p)
  BY <1>2 DEF Seek, Skip, ReadVector, ReadShort, Close, SetLengthFails, Die, disk
<1>3. QED
  BY <1>1, <1>2 DEF Step, Proceed, Falter

LEMMA AmountsKept ==
  ASSUME IInv, NEW p \in Procs, Step(p), ~torn'
  PROVE  Amounts'
<1>0. /\ file \in Seq(RecordSet) /\ due \in Seq(RecordSet) /\ job \in [Procs -> JobSet]
      /\ pc \in [Procs -> States] /\ pos \in [Procs -> Nat]
      /\ ~torn /\ Amounts /\ CutsAlone
  BY TornStays DEF IInv, TypeOK, JobSet, RecordSet
<1>00. job[p].by \in Seq(RecordSet) /\ Len(job[p].by) \in Nat /\ Len(file) \in Nat
  BY <1>0, Widened DEF JobSet
<1>1. CASE WriteVector(p)
  <2>1. file = due
    BY <1>0, <1>1, NobodyCuts DEF Amounts
  <2>2. due' = Cut(file', Len(job'[p].by))
    BY <1>1, <2>1 DEF WriteVector, call
  <2>3. Cutting(p)'
    BY <1>0, <1>1 DEF WriteVector, Goto, call, Cutting, Replaces
  <2>4. \A q \in Procs \ {p} : ~Cutting(q)'
    BY <1>0, <1>1, NobodyCuts, OthersStay DEF IInv, Cutting, Replaces
  <2>5. QED
    BY <2>2, <2>3, <2>4 DEF Amounts
<1>2. CASE SetLength(p)
  <2>1. Cutting(p)
    BY <1>2 DEF IInv, Stations, SetLength, Goto, Cutting
  <2>2. \A q \in Procs \ {p} : ~Cutting(q)'
    BY <1>0, <2>1, OthersStay DEF IInv, CutsAlone, Cutting, Replaces
  <2>3. ~Cutting(p)'
    BY <1>0, <1>2 DEF SetLength, Goto, Cutting
  <2>4. due = Cut(file, Len(job[p].by))
    BY <1>0, <2>1 DEF Amounts
  <2>5. file' = Cut(file, Len(job[p].by)) /\ due' = due
    BY <1>2 DEF SetLength
  <2>6. QED
    BY <2>2, <2>3, <2>4, <2>5 DEF Amounts
<1>3. CASE \E r \in Records : Write(p, r)
  <2>1. PICK r \in Records : Write(p, r)
    BY <1>3
  <2>2. \A q \in Procs : ~Cutting(q)
    BY <1>0, <1>3, NobodyCuts
  <2>3. file' = due'
    BY <1>0, <2>1, <2>2 DEF Write, Amounts
  <2>4. ~Cutting(p)'
    BY <1>0, <2>1 DEF IInv, Stations, Write, Goto, call, Cutting, Replaces
  <2>5. \A q \in Procs : ~Cutting(q)'
    BY <2>2, <2>4, OthersStay DEF IInv, Cutting, Replaces
  <2>6. QED
    BY <2>3, <2>5 DEF Amounts
<1>4. CASE WriteShort(p)
  <2>1. \A q \in Procs : ~Cutting(q)
    BY <1>0, <1>4, NobodyCuts
  <2>2. file' = due'
    <3>1. file = due
      BY <1>0, <2>1 DEF Amounts
    <3>2. ASSUME NEW offset, NEW recs, WrittenInPart(offset, recs)
          PROVE  file' = due'
      BY <3>1, <3>2 DEF WrittenInPart
    <3>3. QED
      BY <1>4, <3>2 DEF WriteShort
  <2>3. ~Cutting(p)'
    BY <1>0, <1>4 DEF WriteShort, Goto, Cutting
  <2>4. \A q \in Procs : ~Cutting(q)'
    BY <2>1, <2>3, OthersStay DEF IInv, Cutting, Replaces
  <2>5. QED
    BY <2>2, <2>4 DEF Amounts
<1>5. CASE file' = file /\ due' = due /\ ~WriteVector(p) /\ ~SetLength(p)
  <2>1. ASSUME NEW q \in Procs
        PROVE  (Cutting(q)' <=> Cutting(q)) /\ (Cutting(q) => job'[q].by = job[q].by)
    <3>1. CASE q = p
      BY <1>5, <3>1, CuttingStays
    <3>2. CASE q # p
      BY <3>2, OthersStay DEF IInv, Cutting, Replaces
    <3>3. QED
      BY <3>1, <3>2
  <2>2. QED
    BY <1>0, <1>5, <2>1 DEF Amounts
<1>6. QED
  BY <1>1, <1>2, <1>3, <1>4, <1>5, RecordSteps

LEMMA ReadersKept ==
  ASSUME IInv, NEW p \in Procs, Step(p), ~torn'
  PROVE  ReadersHaveAll'
<1>0. /\ file \in Seq(RecordSet) /\ due \in Seq(RecordSet) /\ job \in [Procs -> JobSet]
      /\ pc \in [Procs -> States] /\ vec \in [Procs -> Seq(RecordSet)]
      /\ ~torn /\ Amounts /\ ReadersHaveAll
  BY TornStays DEF IInv, TypeOK, JobSet, RecordSet
<1>00. job[p].by \in Seq(RecordSet) /\ Len(job[p].by) \in Nat /\ Len(file) \in Nat
  BY <1>0, Widened DEF JobSet
<1> SUFFICES ASSUME NEW q \in Procs, pc'[q] = "done", job'[q].kind = "read"
             PROVE  StartsWith(vec[q], SubSeq(due, 1, Num(q, Len(due))))'
  BY DEF ReadersHaveAll
<1>1. CASE q # p
  <2>1. pc[q] = "done" /\ job[q].kind = "read" /\ vec'[q] = vec[q] /\ job'[q] = job[q]
    BY <1>1, OthersStay DEF IInv
  <2>2. lock[q] # "none"
    BY <2>1 DEF IInv, LockDiscipline, Using, LockFor
  <2>3. lock[p] # "exclusive"
    BY <1>1, <2>2 DEF IInv, LockDiscipline
  <2>4. ~WriteVector(p) /\ ~WriteShort(p) /\ \A r \in Records : ~Write(p, r)
    BY <2>3 DEF IInv, LockDiscipline, Stations, Using, WriteVector, WriteShort, Write, Goto,
       Writes, Replaces
  <2>5. due' = due
    BY <2>4, RecordSteps DEF SetLength
  <2>6. QED
    BY <1>0, <2>1, <2>5 DEF ReadersHaveAll, StartsWith, Num
<1>2. CASE q = p /\ ReadVector(p)
  <2>1. file = due
    BY <1>0, <1>2, NobodyCuts DEF Amounts
  <2>2. /\ vec'[p] = WriteAt(job[p].by, 0, SubSeq(file, 1, Num(p, Len(file))))
        /\ due' = due /\ job' = job
    BY <1>0, <1>2 DEF ReadVector, ReadInto, Length, disk
  <2>3. SubSeq(file, 1, Num(p, Len(file))) \in Seq(RecordSet)
    BY <1>0, <1>00, Limited, Beginnings
  <2>4. StartsWith(vec'[p], SubSeq(due, 1, Num(p, Len(due))))
    BY <1>00, <2>1, <2>2, <2>3, WrittenFirst
  <2>5. QED
    BY <1>2, <2>2, <2>4 DEF StartsWith, Num
<1>3. CASE q = p /\ ~ReadVector(p)
  <2>0. pc[p] = "seeked" => job[p].kind \in {"append", "change"}
    BY DEF IInv, Stations
  <2>1. CASE (\E j \in Jobs : Call(p, j)) \/ OpenSucceeds(p) \/ OpenFails(p) \/ OpenDenied(p) \/ Lock(p)
    BY <1>0, <1>3, <2>1 DEF Call, OpenSucceeds, OpenFails, OpenDenied, Lock, Goto, Opening
  <2>2. CASE Seek(p) \/ WriteShort(p) \/ ReadShort(p) \/ Close(p) \/ SetLength(p) \/ SetLengthFails(p) \/ Die(p)
    BY <1>0, <1>3, <2>2 DEF Seek, WriteShort, ReadShort, Close, SetLength, SetLengthFails, Die, Goto
  <2>3. CASE Skip(p) \/ (\E r \in Records : Write(p, r)) \/ WriteVector(p)
    BY <1>0, <1>3, <2>0, <2>3 DEF Skip, Write, WriteVector, Goto, Replaces, call
  <2>4. QED
    BY <1>3, <2>1, <2>2, <2>3 DEF Step, Proceed, Falter
<1>4. QED
  BY <1>1, <1>2, <1>3

-----------------------------------------------------------------------------
(* Theorems *)

LEMMA Inductive == IInv /\ [Next]_vars => IInv'
<1> SUFFICES ASSUME IInv, [Next]_vars PROVE IInv'
  OBVIOUS
<1>1. ASSUME NEW p \in Procs, Step(p) PROVE IInv'
  BY <1>1, TypesKept, LocksKept, CutsAloneKept, AmountsKept, ReadersKept DEF IInv
<1>2. ASSUME UNCHANGED <<file, due, lock, pc, job, count, pos, vec, torn>>,
             exists' \in BOOLEAN, allowed' \in BOOLEAN
      PROVE  IInv'
  <2>1. TypeOK'
    BY <1>2 DEF IInv, TypeOK
  <2>2. LockDiscipline' /\ Stations'
    BY <1>2 DEF IInv, LockDiscipline, Stations, LockFor, ShareMode, Writes, Replaces
  <2>3. ~torn => CutsAlone' /\ Amounts' /\ ReadersHaveAll'
    BY <1>2 DEF IInv, CutsAlone, Amounts, ReadersHaveAll, Cutting, Replaces, StartsWith, Num
  <2>4. QED
    BY <1>2, <2>1, <2>2, <2>3 DEF IInv
<1>3. CASE Chmod
  BY <1>2, <1>3 DEF Chmod, IInv, TypeOK, call
<1>4. CASE UNCHANGED vars
  BY <1>2, <1>4 DEF vars, IInv, TypeOK
<1>5. QED
  BY <1>1, <1>3, <1>4 DEF Next, Step, Over

\* Every process keeps to what its state says; the count of tries never passes Tries.
THEOREM TypesHold == Spec => []TypeOK
<1>1. IInv => TypeOK
  BY DEF IInv
<1>2. QED
  BY <1>1, Initially, Inductive, PTL DEF Spec

\* File::Open's flock keeps everybody away from a process that changes the file,
\* between its Seek by the file's length and its Write too.
THEOREM Alone == Spec => []WritersAlone
<1>1. IInv => WritersAlone
  <2> SUFFICES ASSUME IInv, NEW p \in Procs, NEW q \in Procs,
                      pc[p] \in Using, Writes(p), pc[q] \in Using, p # q
               PROVE  FALSE
    BY DEF WritersAlone
  <2>1. lock[p] = "exclusive"
    BY DEF IInv, LockDiscipline
  <2>2. lock[q] = "none"
    BY <2>1 DEF IInv, LockDiscipline
  <2>3. lock[q] = LockFor(q)
    BY DEF IInv, LockDiscipline
  <2>4. QED
    BY <2>2, <2>3 DEF LockFor
<1>2. QED
  BY <1>1, Initially, Inductive, PTL DEF Spec

LEMMA Beginning ==
  ASSUME NEW s \in Seq(RecordSet), NEW t \in Seq(RecordSet), StartsWith(s, t)
  PROVE  SubSeq(s, 1, Len(t)) = t
<1>1. Len(t) \in Nat /\ Len(s) \in Nat /\ t = [i \in 1..Len(t) |-> t[i]]
  OBVIOUS
<1>2. Len(t) <= Len(s) /\ \A i \in 1..Len(t) : s[i] = t[i]
  BY DEF StartsWith
<1>3. SubSeq(s, 1, Len(t)) = [i \in 1..Len(t) |-> s[i]]
  BY <1>1, <1>2
<1>4. QED
  BY <1>1, <1>2, <1>3

\* Appends, changes and replacements take effect one by one in the order of their
\* locks, as a whole or, if they return false, as far as they got, and readers see all
\* that was done before, unless a replacement is torn.
THEOREM Atomic == Spec => []OperationsAtomic
<1>1. IInv => OperationsAtomic
  <2> SUFFICES ASSUME IInv, ~torn
               PROVE  /\ (\A p \in Procs : ~Cutting(p)) => file = due
                      /\ \A p \in Procs :
                           pc[p] = "done" /\ job[p].kind = "read" =>
                             SubSeq(vec[p], 1, Num(p, Len(due))) = SubSeq(due, 1, Num(p, Len(due)))
    BY DEF OperationsAtomic, Cutting
  <2>1. /\ due \in Seq(RecordSet) /\ job \in [Procs -> JobSet]
        /\ \A p \in Procs : vec[p] \in Seq(RecordSet)
    BY DEF IInv, TypeOK, RecordSet, JobSet
  <2>2. (\A p \in Procs : ~Cutting(p)) => file = due
    BY DEF IInv, Amounts
  <2>3. ASSUME NEW p \in Procs, pc[p] = "done", job[p].kind = "read"
        PROVE  SubSeq(vec[p], 1, Num(p, Len(due))) = SubSeq(due, 1, Num(p, Len(due)))
    <3>1. StartsWith(vec[p], SubSeq(due, 1, Num(p, Len(due))))
      BY <2>3 DEF IInv, ReadersHaveAll
    <3>2. Len(due) \in Nat
      BY <2>1
    <3>3. Num(p, Len(due)) \in 0..Len(due)
      BY <2>1, <3>2, Limited
    <3>4. /\ SubSeq(due, 1, Num(p, Len(due))) \in Seq(RecordSet)
          /\ Len(SubSeq(due, 1, Num(p, Len(due)))) = Num(p, Len(due))
      BY <2>1, <3>3, Beginnings
    <3>5. SubSeq(vec[p], 1, Len(SubSeq(due, 1, Num(p, Len(due))))) = SubSeq(due, 1, Num(p, Len(due)))
      BY <2>1, <3>1, <3>4, Beginning
    <3>6. QED
      BY <3>4, <3>5
  <2>4. QED
    BY <2>2, <2>3
<1>2. QED
  BY <1>1, Initially, Inductive, PTL DEF Spec

=============================================================================
