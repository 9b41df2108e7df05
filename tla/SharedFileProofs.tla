--------------------------- MODULE SharedFileProofs ---------------------------
(***************************************************************************)
(* Theorems about files of text: SharedFile, for any set of processes, of  *)
(* values and of their sizes, and TextLines, for any lines and buffer.     *)
(*                                                                         *)
(* SharedFile: that a load never returns a mixture rests on the file: of   *)
(* any two of its blocks, if the value of the first reaches as far as the  *)
(* second, the second is of that value too, unless a process is writing    *)
(* just that and has not come so far.  This survives files that are        *)
(* emptied under a writer because what a writer has behind it is its own   *)
(* or a gap.                                                               *)
(***************************************************************************)
EXTENDS SharedFile, TextLines, TLAPS, SequenceTheorems, FiniteSetTheorems, FunctionTheorems,
        WellFoundedInduction

LockDiscipline ==
  \A p \in Procs :
    /\ (lock[p] = "exclusive") = (pc[p] = "writing")
    /\ (lock[p] = "shared") = (pc[p] \in {"sizing", "reading"})
    /\ lock[p] = "exclusive" => \A q \in Procs \ {p} : lock[q] = "none"

Stations ==
  \A p \in Procs :
    /\ Saving(p) => val[p] \in Vals /\ content # None
    /\ pc[p] \in {"lockingR", "sizing", "reading"} => content # None
    /\ pc[p] \notin {"writing", "reading"} => pos[p] = 0
    /\ pc[p] = "writing" => pos[p] <= Size[val[p]]
    /\ pc[p] \in {"lockingR", "sizing"} => got[p] = <<>>

\* The block at j is the one the value of the block at i has there.
Follows(text, i, j) ==
  i < j /\ text[i] # Hole /\ j <= Size[text[i].of] => text[j] = [of |-> text[i].of, part |-> j]

Expected(i, j) ==
  \E p \in Procs : pc[p] = "writing" /\ val[p] = content[i].of /\ pos[p] < j

Continuous ==
  content # None => \A i, j \in DOMAIN content : Follows(content, i, j) \/ Expected(i, j)

\* What a writer has behind it
OwnBehind ==
  \A p \in Procs : pc[p] = "writing" =>
    /\ content = <<>> \/ pos[p] <= Len(content)
    /\ \A i \in 1..pos[p] : i <= Len(content) =>
         content[i] \in {Hole, [of |-> val[p], part |-> i]}

\* A writer whose file nobody has emptied: all that did are waiting for their lock.
AllBehind ==
  \A p \in Procs : pc[p] = "writing" /\ (\A q \in Procs \ {p} : ~Saving(q)) =>
    /\ pos[p] <= Len(content)
    /\ \A i \in 1..pos[p] : content[i] = [of |-> val[p], part |-> i]

\* What a reader has got is the beginning of the file, unless this was emptied.
Readings ==
  \A p \in Procs :
    /\ pc[p] = "reading" =>
         /\ Len(got[p]) = pos[p]
         /\ content = <<>> \/ (pos[p] <= Len(content) /\ \A i \in 1..pos[p] : got[p][i] = content[i])
    /\ pc[p] \in {"reading", "loaded"} =>
         \A i, j \in DOMAIN got[p] : Follows(got[p], i, j)

IInv ==
  /\ TypeOK /\ LockDiscipline /\ Stations
  /\ ~damaged => Continuous /\ OwnBehind /\ AllBehind /\ Readings /\ LastSaveLeads

-----------------------------------------------------------------------------
(* Types *)

LEMMA WrittenAt ==
  ASSUME NEW text \in Seq(BlockSet), NEW k \in Nat, NEW b \in BlockSet
  PROVE  /\ WriteAt(text, k, b) \in Seq(BlockSet)
         /\ Len(WriteAt(text, k, b)) = (IF Len(text) > k THEN Len(text) ELSE k + 1)
         /\ \A i \in 1..Len(WriteAt(text, k, b)) :
              WriteAt(text, k, b)[i] =
                (IF i = k + 1 THEN b ELSE IF i <= Len(text) THEN text[i] ELSE Hole)
<1>1. (IF Len(text) > k THEN Len(text) ELSE k + 1) \in Nat
  OBVIOUS
<1>2. Hole \in BlockSet
  BY DEF BlockSet
<1>3. \A i \in 1..(IF Len(text) > k THEN Len(text) ELSE k + 1) :
        (IF i = k + 1 THEN b ELSE IF i <= Len(text) THEN text[i] ELSE Hole) \in BlockSet
  BY <1>2
<1>4. QED
  BY <1>1, <1>3 DEF WriteAt

LEMMA Wholes ==
  ASSUME NEW v \in Vals
  PROVE  /\ Size[v] \in Nat \ {0}
         /\ Len(Whole(v)) = Size[v]
         /\ \A i \in 1..Size[v] : Whole(v)[i] = [of |-> v, part |-> i] /\ Whole(v)[i] \in BlockSet
<1>1. Size[v] \in Nat \ {0}
  BY SizeAssumption
<1>2. \A i \in 1..Size[v] : [of |-> v, part |-> i] \in BlockSet
  BY <1>1 DEF BlockSet
<1>3. QED
  BY <1>1, <1>2 DEF Whole

LEMMA NoneIsNoContent == None \notin Seq(BlockSet) /\ None # <<>>
<1>1. None \notin Seq(BlockSet)
  BY SentinelAssumption DEF BlockSet
<1>2. <<>> \in Seq(BlockSet)
  OBVIOUS
<1>3. QED
  BY <1>1, <1>2

\* What a write leaves
LEMMA Writes ==
  ASSUME TypeOK, Stations, NEW p \in Procs, Write(p)
  PROVE  /\ val[p] \in Vals /\ pos[p] \in Nat /\ pos[p] < Size[val[p]]
         /\ content \in Seq(BlockSet) /\ content' \in Seq(BlockSet)
         /\ Len(content') = (IF Len(content) > pos[p] THEN Len(content) ELSE pos[p] + 1)
         /\ \A i \in 1..Len(content') :
              content'[i] = (IF i = pos[p] + 1 THEN [of |-> val[p], part |-> pos[p] + 1]
                             ELSE IF i <= Len(content) THEN content[i] ELSE Hole)
<1>1. pc[p] = "writing" /\ val[p] \in Vals /\ content # None
  BY DEF Write, Stations, Saving
<1>2. content \in Seq(BlockSet) /\ pos[p] \in Nat
  BY <1>1 DEF TypeOK
<1>3. Size[val[p]] \in Nat /\ pos[p] < Size[val[p]]
  BY <1>1, Wholes DEF Write
<1>4. Whole(val[p])[pos[p] + 1] = [of |-> val[p], part |-> pos[p] + 1]
      /\ Whole(val[p])[pos[p] + 1] \in BlockSet
  BY <1>1, <1>2, <1>3, Wholes
<1>5. content' = WriteAt(content, pos[p], Whole(val[p])[pos[p] + 1])
  BY DEF Write
<1>6. \A b \in BlockSet :
        /\ WriteAt(content, pos[p], b) \in Seq(BlockSet)
        /\ Len(WriteAt(content, pos[p], b)) =
             (IF Len(content) > pos[p] THEN Len(content) ELSE pos[p] + 1)
        /\ \A i \in 1..Len(WriteAt(content, pos[p], b)) :
             WriteAt(content, pos[p], b)[i] =
               (IF i = pos[p] + 1 THEN b ELSE IF i <= Len(content) THEN content[i] ELSE Hole)
  BY <1>2, WrittenAt
<1>7. QED
  BY <1>1, <1>2, <1>3, <1>4, <1>5, <1>6

LEMMA Initially == Init => IInv
<1> SUFFICES ASSUME Init PROVE IInv
  OBVIOUS
<1>1. TypeOK
  <2>1. lock \in [Procs -> Locks] /\ pc \in [Procs -> States] /\ content = None /\ damaged = FALSE
    BY DEF Init, Locks, States
  <2>2. val \in [Procs -> Vals \cup {None}] /\ lead \in Vals \cup {None}
    BY DEF Init
  <2>3. pos \in [Procs -> Nat] /\ len \in [Procs -> Nat]
    BY DEF Init
  <2>4. got \in [Procs -> Seq(BlockSet)]
    BY DEF Init
  <2>5. QED
    BY <2>1, <2>2, <2>3, <2>4 DEF TypeOK
<1>2. LockDiscipline /\ Stations
  BY DEF Init, LockDiscipline, Stations, Saving
<1>3. Continuous /\ OwnBehind /\ AllBehind /\ Readings /\ LastSaveLeads
  BY DEF Init, Continuous, OwnBehind, AllBehind, Readings, LastSaveLeads
<1>4. QED
  BY <1>1, <1>2, <1>3 DEF IInv

\* The steps of a process
Step(p) ==
  \/ \E v \in Vals : OpenW(p, v)
  \/ OpenR(p) \/ Proceed(p) \/ WriteFails(p) \/ Die(p)

LEMMA TypesKept ==
  ASSUME IInv, NEW p \in Procs, Step(p)
  PROVE  TypeOK'
<1> USE DEF IInv
<1>1. CASE \E v \in Vals : OpenW(p, v)
  BY <1>1 DEF OpenW, Goto, TypeOK, States
<1>2. CASE OpenR(p)
  BY <1>2 DEF OpenR, Goto, TypeOK, States
<1>3. CASE Lock(p)
  BY <1>3 DEF Lock, LockFor, TypeOK, States, Locks
<1>4. CASE Write(p)
  <2>1. content' \in Seq(BlockSet) /\ pos[p] \in Nat
    BY <1>4, Writes
  <2>2. QED
    BY <1>4, <2>1 DEF Write, TypeOK
<1>5. CASE CloseW(p)
  <2>1. val[p] \in Vals
    BY <1>5 DEF CloseW, Goto, Stations, Saving
  <2>2. QED
    BY <1>5, <2>1 DEF CloseW, Goto, TypeOK, States, Locks
<1>6. CASE Measure(p)
  <2>1. content \in Seq(BlockSet)
    BY <1>6 DEF Measure, Goto, Stations, TypeOK
  <2>2. QED
    BY <1>6, <2>1 DEF Measure, Goto, TypeOK, States
<1>7. CASE Read(p)
  <2>1. content \in Seq(BlockSet) /\ pos[p] \in Nat /\ got[p] \in Seq(BlockSet)
    BY <1>7 DEF Read, Stations, TypeOK
  <2>2. content[pos[p] + 1] \in BlockSet
    BY <1>7, <2>1 DEF Read
  <2>3. Append(got[p], content[pos[p] + 1]) \in Seq(BlockSet)
    BY <2>1, <2>2
  <2>4. QED
    BY <1>7, <2>1, <2>3 DEF Read, TypeOK
<1>8. CASE CloseR(p)
  BY <1>8 DEF CloseR, Goto, TypeOK, States, Locks
<1>9. CASE Return(p)
  BY <1>9 DEF Return, Goto, TypeOK, States
<1>10. CASE WriteFails(p)
  <2>1. val[p] \in Vals
    BY <1>10 DEF WriteFails, Stations, Saving
  <2>2. Size[val[p]] \in Nat
    BY <2>1, Wholes
  <2>3. QED
    BY <1>10, <2>2 DEF WriteFails, TypeOK
<1>11. CASE Die(p)
  BY <1>11 DEF Die, TypeOK, States, Locks
<1>12. QED
  BY <1>1, <1>2, <1>3, <1>4, <1>5, <1>6, <1>7, <1>8, <1>9, <1>10, <1>11 DEF Step, Proceed

\* A step of a process leaves the others where they are.
LEMMA OthersStay ==
  ASSUME IInv, NEW p \in Procs, Step(p), NEW q \in Procs \ {p}
  PROVE  pc'[q] = pc[q] /\ lock'[q] = lock[q] /\ val'[q] = val[q] /\ pos'[q] = pos[q] /\ got'[q] = got[q]
<1> USE DEF IInv, TypeOK
<1>1. CASE (\E v \in Vals : OpenW(p, v)) \/ OpenR(p)
  BY <1>1 DEF OpenW, OpenR, Goto
<1>2. CASE Lock(p) \/ Write(p) \/ WriteFails(p) \/ Measure(p) \/ Read(p)
  BY <1>2 DEF Lock, Write, WriteFails, Measure, Read, Goto
<1>3. CASE CloseW(p) \/ CloseR(p) \/ Return(p) \/ Die(p)
  BY <1>3 DEF CloseW, CloseR, Return, Die, Goto
<1>4. QED
  BY <1>1, <1>2, <1>3 DEF Step, Proceed

LEMMA LocksKept ==
  ASSUME IInv, NEW p \in Procs, Step(p)
  PROVE  LockDiscipline'
<1>1. /\ lock \in [Procs -> Locks] /\ pc \in [Procs -> States]
      /\ lock' \in [Procs -> Locks] /\ pc' \in [Procs -> States]
  BY TypesKept DEF IInv, TypeOK
<1>2. LockDiscipline
  BY DEF IInv
<1>3. /\ (lock'[p] = "exclusive") = (pc'[p] = "writing")
      /\ (lock'[p] = "shared") = (pc'[p] \in {"sizing", "reading"})
      /\ lock'[p] # "none" =>
           \/ lock'[p] = lock[p]
           \/ \A q \in Procs \ {p} :
                IF lock'[p] = "exclusive" THEN lock[q] = "none" ELSE lock[q] # "exclusive"
  <2>1. CASE (\E v \in Vals : OpenW(p, v)) \/ OpenR(p)
    BY <1>1, <1>2, <2>1 DEF OpenW, OpenR, Goto, LockDiscipline
  <2>2. CASE Lock(p)
    BY <1>1, <1>2, <2>2 DEF Lock, LockFor, Compatible
  <2>3. CASE Write(p) \/ WriteFails(p) \/ Measure(p) \/ Read(p)
    BY <1>1, <1>2, <2>3 DEF Write, WriteFails, Measure, Read, Goto, LockDiscipline
  <2>4. CASE CloseW(p) \/ CloseR(p) \/ Return(p) \/ Die(p)
    BY <1>1, <1>2, <2>4 DEF CloseW, CloseR, Return, Die, Goto, LockDiscipline
  <2>5. QED
    BY <2>1, <2>2, <2>3, <2>4 DEF Step, Proceed
<1>4. \A q \in Procs \ {p} : lock'[q] = lock[q] /\ pc'[q] = pc[q]
  BY OthersStay
<1>5. \A q \in Procs :
        /\ (lock'[q] = "exclusive") = (pc'[q] = "writing")
        /\ (lock'[q] = "shared") = (pc'[q] \in {"sizing", "reading"})
  BY <1>2, <1>3, <1>4 DEF LockDiscipline
<1>6. ASSUME NEW q \in Procs, lock'[q] = "exclusive", NEW r \in Procs \ {q}
      PROVE  lock'[r] = "none"
  <2>1. CASE q = p
    BY <1>2, <1>3, <1>4, <1>6, <2>1 DEF LockDiscipline
  <2>2. CASE q # p /\ r # p
    BY <1>2, <1>4, <1>6, <2>2 DEF LockDiscipline
  <2>3. CASE q # p /\ r = p
    <3>1. lock[q] = "exclusive" /\ lock[p] = "none"
      BY <1>2, <1>4, <1>6, <2>3 DEF LockDiscipline
    <3>2. QED
      BY <1>1, <1>3, <2>3, <3>1 DEF Locks
  <2>4. QED
    BY <2>1, <2>2, <2>3
<1>7. QED
  BY <1>5, <1>6 DEF LockDiscipline

\* What a step may do to the file
LEMMA FileSteps ==
  ASSUME IInv, NEW p \in Procs, Step(p)
  PROVE  \/ content' = content
         \/ content' = <<>> /\ \E v \in Vals : OpenW(p, v)
         \/ content' \in Seq(BlockSet) /\ Write(p)
<1>1. ASSUME Write(p) PROVE content' \in Seq(BlockSet)
  BY <1>1, Writes DEF IInv
<1>2. QED
  BY <1>1 DEF Step, Proceed, OpenW, OpenR, Lock, WriteFails, CloseW, Measure, Read, CloseR, Return, Die

LEMMA StationsKept ==
  ASSUME IInv, NEW p \in Procs, Step(p)
  PROVE  Stations'
<1>1. /\ pc \in [Procs -> States] /\ pos \in [Procs -> Nat] /\ got \in [Procs -> Seq(BlockSet)]
      /\ val \in [Procs -> Vals \cup {None}]
  BY DEF IInv, TypeOK
<1>2. Stations
  BY DEF IInv
<1>3. content # None => content' # None
  BY NoneIsNoContent, FileSteps
<1>4. \A q \in Procs \ {p} :
        pc'[q] = pc[q] /\ val'[q] = val[q] /\ pos'[q] = pos[q] /\ got'[q] = got[q]
  BY OthersStay
<1>5. ASSUME NEW q \in Procs \ {p}
      PROVE  /\ Saving(q)' => val'[q] \in Vals /\ content' # None
             /\ pc'[q] \in {"lockingR", "sizing", "reading"} => content' # None
             /\ pc'[q] \notin {"writing", "reading"} => pos'[q] = 0
             /\ pc'[q] = "writing" => pos'[q] <= Size[val'[q]]
             /\ pc'[q] \in {"lockingR", "sizing"} => got'[q] = <<>>
  BY <1>2, <1>3, <1>4 DEF Stations, Saving
<1>6. /\ Saving(p)' => val'[p] \in Vals /\ content' # None
      /\ pc'[p] \in {"lockingR", "sizing", "reading"} => content' # None
      /\ pc'[p] \notin {"writing", "reading"} => pos'[p] = 0
      /\ pc'[p] = "writing" => pos'[p] <= Size[val'[p]]
      /\ pc'[p] \in {"lockingR", "sizing"} => got'[p] = <<>>
  <2>1. CASE \E v \in Vals : OpenW(p, v)
    BY <1>1, <1>2, <2>1, NoneIsNoContent DEF OpenW, Goto, Stations, Saving
  <2>2. CASE OpenR(p)
    BY <1>1, <1>2, <2>2 DEF OpenR, Goto, Stations, Saving
  <2>3. CASE Lock(p)
    <3>1. pc[p] = "lockingW" => 0 <= Size[val[p]]
      BY <1>2, Wholes DEF Stations, Saving
    <3>2. QED
      BY <1>1, <1>2, <2>3, <3>1 DEF Lock, Stations, Saving
  <2>4. CASE Write(p)
    <3>1. val[p] \in Vals /\ Size[val[p]] \in Nat /\ pos[p] \in Nat /\ pos[p] + 1 <= Size[val[p]]
      BY <1>1, <1>2, <2>4, Wholes DEF Write, Stations, Saving
    <3>2. pc[p] = "writing" /\ pos'[p] = pos[p] + 1 /\ pc' = pc /\ val' = val
      BY <1>1, <2>4 DEF Write
    <3>3. QED
      BY <1>2, <1>3, <3>1, <3>2 DEF Stations, Saving
  <2>5. CASE WriteFails(p)
    <3>1. val[p] \in Vals /\ Size[val[p]] \in Nat
      BY <1>2, <2>5, Wholes DEF WriteFails, Stations, Saving
    <3>2. pc[p] = "writing" /\ pos'[p] = Size[val[p]] /\ pc' = pc /\ val' = val
      BY <1>1, <2>5 DEF WriteFails
    <3>3. QED
      BY <1>2, <1>3, <3>1, <3>2 DEF Stations, Saving
  <2>6. CASE CloseW(p) \/ Measure(p) \/ CloseR(p)
    BY <1>1, <1>2, <2>6 DEF CloseW, Measure, CloseR, Goto, Stations, Saving
  <2>7. CASE Read(p)
    BY <1>1, <1>2, <2>7 DEF Read, Stations, Saving
  <2>8. CASE Return(p) \/ Die(p)
    BY <1>1, <1>2, <2>8 DEF Return, Die, Goto, Stations, Saving
  <2>9. QED
    BY <2>1, <2>2, <2>3, <2>4, <2>5, <2>6, <2>7, <2>8 DEF Step, Proceed
<1>7. QED
  BY <1>5, <1>6 DEF Stations, Saving

-----------------------------------------------------------------------------
(* The blocks of the file *)

Undamaged == ~damaged /\ ~damaged'

\* A writer is alone with its lock.
LEMMA WriterAlone ==
  ASSUME IInv, NEW p \in Procs, pc[p] = "writing", NEW q \in Procs \ {p}
  PROVE  pc[q] \notin {"writing", "sizing", "reading"}
<1>1. lock[p] = "exclusive"
  BY DEF IInv, LockDiscipline
<1>2. lock[q] = "none"
  BY <1>1 DEF IInv, LockDiscipline
<1>3. QED
  BY <1>2 DEF IInv, LockDiscipline

LEMMA ContinuousKept ==
  ASSUME IInv, NEW p \in Procs, Step(p), Undamaged
  PROVE  Continuous'
<1>1. /\ pc \in [Procs -> States] /\ pos \in [Procs -> Nat] /\ val \in [Procs -> Vals \cup {None}]
      /\ content = None \/ content \in Seq(BlockSet)
  BY DEF IInv, TypeOK
<1>2. Continuous /\ OwnBehind
  BY DEF IInv, Undamaged
<1>3. CASE content' = <<>>
  BY <1>3 DEF Continuous
<1>4. CASE Write(p)
  <2>1. pc[p] = "writing" /\ pc' = pc /\ val' = val /\ pos' = [pos EXCEPT ![p] = pos[p] + 1]
    BY <1>4 DEF Write
  <2>2. /\ val[p] \in Vals /\ pos[p] \in Nat /\ pos[p] < Size[val[p]]
        /\ content \in Seq(BlockSet) /\ content' \in Seq(BlockSet)
        /\ Len(content') = (IF Len(content) > pos[p] THEN Len(content) ELSE pos[p] + 1)
        /\ \A i \in 1..Len(content') :
             content'[i] = (IF i = pos[p] + 1 THEN [of |-> val[p], part |-> pos[p] + 1]
                            ELSE IF i <= Len(content) THEN content[i] ELSE Hole)
    BY <1>4, Writes DEF IInv
  <2> SUFFICES ASSUME NEW i \in DOMAIN content', NEW j \in DOMAIN content'
               PROVE  Follows(content', i, j) \/ Expected(i, j)'
    BY DEF Continuous
  <2>3. SUFFICES ASSUME i < j, content'[i] # Hole, j <= Size[content'[i].of],
                        ~Expected(i, j)'
                 PROVE  content'[j] = [of |-> content'[i].of, part |-> j]
    BY DEF Follows
  <2>0. i \in 1..Len(content') /\ j \in 1..Len(content')
    BY <2>2
  <2>4. CASE j = pos[p] + 1
    <3>1. i <= Len(content) /\ content'[i] = content[i] /\ i \in 1..pos[p]
      BY <2>0, <2>2, <2>3, <2>4, SMTT(30)
    <3>2. content[i] \in {Hole, [of |-> val[p], part |-> i]}
      BY <1>2, <2>1, <3>1 DEF OwnBehind
    <3>3. content'[i].of = val[p]
      BY <2>3, <3>1, <3>2
    <3>4. QED
      BY <2>0, <2>2, <2>4, <3>3
  <2>5. CASE i = pos[p] + 1
    <3>1. content'[i].of = val[p]
      BY <2>0, <2>2, <2>5
    <3>2. pos'[p] < j /\ pc'[p] = "writing" /\ val'[p] = val[p]
      BY <1>1, <2>0, <2>1, <2>2, <2>3, <2>5
    <3>3. Expected(i, j)'
      BY <3>1, <3>2 DEF Expected
    <3>4. QED
      BY <2>3, <3>3
  <2>6. CASE i # pos[p] + 1 /\ j # pos[p] + 1
    <3>1. i <= Len(content) /\ content'[i] = content[i]
      BY <2>0, <2>2, <2>3, <2>6
    <3>2. CASE j <= Len(content)
      <4>1. content'[j] = content[j]
        BY <2>0, <2>2, <2>6, <3>2
      <4>2. ASSUME Expected(i, j) PROVE FALSE
        <5>1. PICK q \in Procs : pc[q] = "writing" /\ val[q] = content[i].of /\ pos[q] < j
          BY <4>2 DEF Expected
        <5>2. q = p
          BY <2>1, <5>1, WriterAlone
        <5>3. pos'[p] < j
          BY <1>1, <2>0, <2>1, <2>2, <2>6, <5>1, <5>2
        <5>4. Expected(i, j)'
          BY <2>1, <3>1, <5>1, <5>2, <5>3 DEF Expected
        <5>5. QED
          BY <2>3, <5>4
      <4>3. Follows(content, i, j)
        <5>1. content # None /\ i \in DOMAIN content /\ j \in DOMAIN content
          BY <2>0, <2>2, <3>1, <3>2, NoneIsNoContent
        <5>2. QED
          BY <1>2, <4>2, <5>1 DEF Continuous
      <4>4. QED
        BY <2>3, <3>1, <4>1, <4>3 DEF Follows
    <3>3. CASE j > Len(content)
      <4>1. content # <<>> /\ Len(content) < pos[p]
        BY <2>0, <2>2, <2>6, <3>1, <3>3
      <4>2. QED
        BY <1>2, <2>1, <2>2, <4>1 DEF OwnBehind
    <3>4. QED
      BY <2>0, <2>2, <3>2, <3>3
  <2>7. QED
    BY <2>4, <2>5, <2>6
<1>5. CASE content' = content /\ ~Write(p)
  <2>1. ASSUME content # None, NEW i \in DOMAIN content, NEW j \in DOMAIN content, Expected(i, j),
               ~Expected(i, j)'
        PROVE  Follows(content, i, j)
    <3>1. PICK q \in Procs : pc[q] = "writing" /\ val[q] = content[i].of /\ pos[q] < j
      BY <2>1 DEF Expected
    <3>2. q = p
      <4>1. ASSUME q # p PROVE FALSE
        <5>1. pc'[q] = pc[q] /\ val'[q] = val[q] /\ pos'[q] = pos[q]
          BY <4>1, OthersStay
        <5>2. Expected(i, j)'
          BY <1>5, <3>1, <5>1 DEF Expected
        <5>3. QED
          BY <2>1, <5>2
      <4>2. QED
        BY <4>1
    <3>3. CASE CloseW(p)
      <4>1. pos[p] = Size[content[i].of] /\ pos[p] < j /\ val[p] \in Vals
        BY <3>1, <3>2, <3>3 DEF CloseW, IInv, Stations, Saving
      <4>2. pos[p] \in Nat /\ j \in Nat
        BY <1>1, <2>1
      <4>3. ~(j <= Size[content[i].of])
        BY <4>1, <4>2
      <4>4. QED
        BY <4>3 DEF Follows
    <3>4. CASE WriteFails(p) \/ Die(p)
      BY <3>1, <3>2, <3>4 DEF WriteFails, Die, Undamaged
    <3>5. QED
      BY <1>5, <3>1, <3>2, <3>3, <3>4 DEF Step, Proceed, OpenW, OpenR, Lock, Measure, Read, CloseR, Return, Goto
  <2>2. QED
    BY <1>2, <1>5, <2>1 DEF Continuous, Follows
<1>6. QED
  BY <1>3, <1>4, <1>5, FileSteps

\* A process that is writing after a step was before, or has just got its lock.
LEMMA StillWriting ==
  ASSUME IInv, NEW p \in Procs, Step(p), Undamaged, NEW q \in Procs, pc'[q] = "writing"
  PROVE  /\ val'[q] = val[q] /\ val[q] \in Vals /\ pos[q] \in Nat /\ content # None
         /\ \/ q = p /\ Lock(p) /\ pos'[q] = 0 /\ content' = content
            \/ q = p /\ Write(p) /\ pc[q] = "writing"
            \/ pc[q] = "writing" /\ pos'[q] = pos[q] /\ ~Write(p) /\ (q = p => content' = content)
<1>1. /\ pc \in [Procs -> States] /\ pos \in [Procs -> Nat] /\ val \in [Procs -> Vals \cup {None}]
  BY DEF IInv, TypeOK
<1>2. CASE q = p
  <2>1. CASE Lock(p)
    <3>1. pc[p] = "lockingW"
      BY <1>1, <1>2, <2>1 DEF Lock
    <3>2. QED
      BY <1>1, <1>2, <2>1, <3>1 DEF Lock, IInv, Stations, Saving
  <2>2. CASE Write(p)
    BY <1>1, <1>2, <2>2 DEF Write, IInv, Stations, Saving
  <2>3. QED
    BY <1>1, <1>2, <2>1, <2>2 DEF Step, Proceed, OpenW, OpenR, WriteFails, CloseW, Measure, Read,
       CloseR, Return, Die, Goto, Undamaged
<1>3. CASE q # p
  <2>1. pc[q] = "writing" /\ pos'[q] = pos[q] /\ val'[q] = val[q]
    BY <1>3, OthersStay
  <2>2. ~Write(p)
    BY <1>3, <2>1, WriterAlone DEF Write
  <2>3. QED
    BY <1>1, <1>3, <2>1, <2>2 DEF IInv, Stations, Saving
<1>4. QED
  BY <1>2, <1>3

LEMMA OwnBehindKept ==
  ASSUME IInv, NEW p \in Procs, Step(p), Undamaged
  PROVE  OwnBehind'
<1> SUFFICES ASSUME NEW q \in Procs, pc'[q] = "writing"
             PROVE  /\ content' = <<>> \/ pos'[q] <= Len(content')
                    /\ \A i \in 1..pos'[q] : i <= Len(content') =>
                         content'[i] \in {Hole, [of |-> val'[q], part |-> i]}
  BY DEF OwnBehind
<1>1. content \in Seq(BlockSet) /\ OwnBehind /\ val'[q] = val[q] /\ pos[q] \in Nat
  BY StillWriting DEF IInv, TypeOK, Undamaged
<1>2. CASE Lock(p) /\ pos'[q] = 0 /\ content' = content
  BY <1>1, <1>2
<1>3. CASE q = p /\ Write(p) /\ pc[q] = "writing"
  <2>1. pos'[p] = pos[p] + 1
    BY <1>1, <1>3 DEF Write, IInv, TypeOK
  <2>2. /\ Len(content') = (IF Len(content) > pos[p] THEN Len(content) ELSE pos[p] + 1)
        /\ \A i \in 1..Len(content') :
             content'[i] = (IF i = pos[p] + 1 THEN [of |-> val[p], part |-> pos[p] + 1]
                            ELSE IF i <= Len(content) THEN content[i] ELSE Hole)
    BY <1>3, Writes DEF IInv
  <2>3. \A i \in 1..pos[p] : i <= Len(content) => content[i] \in {Hole, [of |-> val[p], part |-> i]}
    BY <1>1, <1>3 DEF OwnBehind
  <2>4. pos'[p] <= Len(content')
    BY <1>1, <1>3, <2>1, <2>2
  <2>5. ASSUME NEW i \in 1..pos'[p], i <= Len(content')
        PROVE  content'[i] \in {Hole, [of |-> val[p], part |-> i]}
    BY <1>1, <1>3, <2>1, <2>2, <2>3, <2>5
  <2>6. QED
    BY <1>1, <1>3, <2>4, <2>5
<1>4. CASE pc[q] = "writing" /\ pos'[q] = pos[q] /\ ~Write(p)
  <2>1. CASE content' = content
    BY <1>1, <1>4, <2>1 DEF OwnBehind
  <2>2. CASE content' = <<>>
    BY <1>1, <1>4, <2>2
  <2>3. QED
    BY <1>4, <2>1, <2>2, FileSteps
<1>5. QED
  BY <1>2, <1>3, <1>4, StillWriting

LEMMA AllBehindKept ==
  ASSUME IInv, NEW p \in Procs, Step(p), Undamaged
  PROVE  AllBehind'
<1> SUFFICES ASSUME NEW q \in Procs, pc'[q] = "writing", \A r \in Procs \ {q} : ~Saving(r)'
             PROVE  /\ pos'[q] <= Len(content')
                    /\ \A i \in 1..pos'[q] : content'[i] = [of |-> val'[q], part |-> i]
  BY DEF AllBehind
<1>1. content \in Seq(BlockSet) /\ AllBehind /\ val'[q] = val[q] /\ pos[q] \in Nat
  BY StillWriting DEF IInv, TypeOK, Undamaged
<1>2. CASE Lock(p) /\ pos'[q] = 0 /\ content' = content
  BY <1>1, <1>2
<1>3. ASSUME pc[q] = "writing", NEW r \in Procs \ {q} PROVE ~Saving(r)
  <2>1. pc[r] # "writing"
    BY <1>3, WriterAlone
  <2>2. CASE r # p
    BY <1>3, <2>2, OthersStay DEF Saving
  <2>3. CASE r = p
    <3>1. pc[p] = "lockingW" => Lock(p) \/ Die(p)
      BY DEF Step, Proceed, OpenW, OpenR, Write, WriteFails, CloseW, Measure, Read, CloseR, Return, Goto
    <3>2. ASSUME pc[p] = "lockingW", Lock(p) PROVE FALSE
      <4>1. pc'[p] = "writing"
        BY <3>2 DEF Lock, IInv, TypeOK
      <4>2. QED
        BY <2>3, <4>1 DEF Saving
    <3>3. ASSUME pc[p] = "lockingW", Die(p) PROVE FALSE
      BY <3>3 DEF Die, Undamaged
    <3>4. QED
      BY <2>1, <2>3, <3>1, <3>2, <3>3 DEF Saving
  <2>4. QED
    BY <2>2, <2>3
<1>4. pc[q] = "writing" => /\ pos[q] <= Len(content)
                           /\ \A i \in 1..pos[q] : content[i] = [of |-> val[q], part |-> i]
  BY <1>1, <1>3 DEF AllBehind
<1>5. CASE q = p /\ Write(p) /\ pc[q] = "writing"
  <2>1. pos'[p] = pos[p] + 1
    BY <1>1, <1>5 DEF Write, IInv, TypeOK
  <2>2. /\ Len(content') = (IF Len(content) > pos[p] THEN Len(content) ELSE pos[p] + 1)
        /\ \A i \in 1..Len(content') :
             content'[i] = (IF i = pos[p] + 1 THEN [of |-> val[p], part |-> pos[p] + 1]
                            ELSE IF i <= Len(content) THEN content[i] ELSE Hole)
    BY <1>5, Writes DEF IInv
  <2>3. pos'[p] <= Len(content')
    BY <1>1, <1>5, <2>1, <2>2
  <2>4. ASSUME NEW i \in 1..pos'[p]
        PROVE  content'[i] = [of |-> val[p], part |-> i]
    BY <1>1, <1>4, <1>5, <2>1, <2>2, <2>3
  <2>5. QED
    BY <1>1, <1>5, <2>3, <2>4
<1>6. CASE pc[q] = "writing" /\ pos'[q] = pos[q] /\ ~Write(p) /\ (q = p => content' = content)
  <2>1. CASE content' = content
    BY <1>1, <1>4, <1>6, <2>1
  <2>2. CASE q # p /\ \E v \in Vals : OpenW(p, v)
    <3>1. Saving(p)'
      BY <2>2 DEF OpenW, Goto, Saving, IInv, TypeOK
    <3>2. QED
      BY <2>2, <3>1
  <2>3. QED
    BY <1>6, <2>1, <2>2, FileSteps
<1>7. QED
  BY <1>2, <1>5, <1>6, StillWriting

LEMMA LeadKept ==
  ASSUME IInv, NEW p \in Procs, Step(p), Undamaged
  PROVE  LastSaveLeads'
<1> SUFFICES ASSUME Quiet', lead' # None
             PROVE  /\ Len(content') >= Size[lead']
                    /\ SubSeq(content', 1, Size[lead']) = Whole(lead')
  BY DEF LastSaveLeads
<1>1. content' = content
  <2>1. ASSUME \E v \in Vals : OpenW(p, v) PROVE Saving(p)'
    BY <2>1 DEF OpenW, Goto, Saving, IInv, TypeOK
  <2>2. ASSUME Write(p) PROVE Saving(p)'
    BY <2>2 DEF Write, Saving
  <2>3. QED
    BY <2>1, <2>2, FileSteps DEF Quiet
<1>2. CASE CloseW(p)
  <2>1. /\ val[p] \in Vals /\ content \in Seq(BlockSet) /\ pos[p] = Size[val[p]] /\ lead' = val[p]
        /\ pc[p] = "writing"
    BY <1>2 DEF CloseW, Goto, IInv, TypeOK, Stations, Saving
  <2>2. \A q \in Procs \ {p} : ~Saving(q)
    BY OthersStay DEF Quiet, Saving
  <2>3. /\ pos[p] <= Len(content)
        /\ \A i \in 1..pos[p] : content[i] = [of |-> val[p], part |-> i]
    BY <2>1, <2>2 DEF IInv, AllBehind, Undamaged
  <2>4. Size[val[p]] \in Nat
    BY <2>1, Wholes
  <2>5. SubSeq(content, 1, Size[val[p]]) = Whole(val[p])
    BY <2>1, <2>3, <2>4 DEF Whole
  <2>6. QED
    BY <1>1, <2>1, <2>3, <2>4, <2>5
<1>3. CASE ~CloseW(p)
  <2>1. lead' = lead
    BY <1>3 DEF Step, Proceed, OpenW, OpenR, Lock, Write, WriteFails, Measure, Read, CloseR, Return, Die
  <2>2. ~Saving(p)
    <3>1. ASSUME Lock(p) PROVE ~Saving(p)
      <4>1. pc[p] # "writing" /\ (pc[p] = "lockingW" => pc'[p] = "writing")
        BY <3>1 DEF Lock, IInv, TypeOK
      <4>2. QED
        BY <4>1 DEF Quiet, Saving
    <3>2. ASSUME Saving(p), Write(p) \/ WriteFails(p) PROVE FALSE
      BY <3>2 DEF Write, WriteFails, Quiet, Saving
    <3>3. ASSUME Die(p) PROVE ~Saving(p)
      BY <3>3 DEF Die, Undamaged, Saving
    <3>4. QED
      BY <1>3, <3>1, <3>2, <3>3 DEF Step, Proceed, OpenW, OpenR, Measure, Read, CloseR, Return, Goto, Saving
  <2>3. Quiet
    BY <2>2, OthersStay DEF Quiet, Saving
  <2>4. QED
    BY <1>1, <2>1, <2>3 DEF IInv, LastSaveLeads, Undamaged
<1>4. QED
  BY <1>2, <1>3

LEMMA ReadingsKept ==
  ASSUME IInv, NEW p \in Procs, Step(p), Undamaged
  PROVE  Readings'
<1>1. /\ pc \in [Procs -> States] /\ pos \in [Procs -> Nat] /\ got \in [Procs -> Seq(BlockSet)]
      /\ content = None \/ content \in Seq(BlockSet)
  BY DEF IInv, TypeOK
<1>2. Readings /\ Stations /\ Continuous
  BY DEF IInv, Undamaged
<1>3. ASSUME NEW q \in Procs, pc'[q] = pc[q], pos'[q] = pos[q], got'[q] = got[q]
      PROVE  /\ pc'[q] = "reading" =>
                  /\ Len(got'[q]) = pos'[q]
                  /\ \/ content' = <<>>
                     \/ /\ pos'[q] <= Len(content')
                        /\ \A i \in 1..pos'[q] : got'[q][i] = content'[i]
             /\ pc'[q] \in {"reading", "loaded"} =>
                  \A i, j \in DOMAIN got'[q] : Follows(got'[q], i, j)
  <2>1. CASE Write(p)
    <3>1. pc[p] = "writing"
      BY <2>1 DEF Write
    <3>2. pc[q] # "reading"
      BY <3>1, WriterAlone
    <3>3. QED
      BY <1>2, <1>3, <3>2 DEF Readings
  <2>2. CASE content' = content \/ content' = <<>>
    BY <1>2, <1>3, <2>2 DEF Readings
  <2>3. QED
    BY <2>1, <2>2, FileSteps
<1>4. ASSUME NEW q \in Procs \ {p}
      PROVE  pc'[q] = pc[q] /\ pos'[q] = pos[q] /\ got'[q] = got[q]
  BY OthersStay
<1>5. /\ pc'[p] = "reading" =>
           /\ Len(got'[p]) = pos'[p]
           /\ \/ content' = <<>>
              \/ /\ pos'[p] <= Len(content')
                 /\ \A i \in 1..pos'[p] : got'[p][i] = content'[i]
      /\ pc'[p] \in {"reading", "loaded"} =>
           \A i, j \in DOMAIN got'[p] : Follows(got'[p], i, j)
  <2>1. CASE Measure(p)
    <3>1. /\ pos'[p] = 0 /\ got'[p] = <<>> /\ content' = content /\ content \in Seq(BlockSet)
      BY <1>1, <1>2, <2>1 DEF Measure, Goto, Stations
    <3>2. QED
      BY <3>1 DEF Follows
  <2>2. CASE Read(p)
    <3>1. /\ pc[p] = "reading" /\ pc' = pc /\ pos[p] < Len(content) /\ content' = content
          /\ content \in Seq(BlockSet) /\ pos[p] \in Nat /\ pos'[p] = pos[p] + 1
          /\ got[p] \in Seq(BlockSet) /\ got'[p] = Append(got[p], content[pos[p] + 1])
      BY <1>1, <1>2, <2>2 DEF Read, Stations
    <3>2. /\ Len(got[p]) = pos[p]
          /\ \A i \in 1..pos[p] : got[p][i] = content[i]
      BY <1>2, <3>1 DEF Readings
    <3>3. content[pos[p] + 1] \in BlockSet
      BY <3>1
    <3>4. /\ Len(got'[p]) = pos[p] + 1 /\ DOMAIN got'[p] = 1 .. pos[p] + 1
          /\ \A i \in 1 .. pos[p] + 1 : got'[p][i] = content[i]
      BY <3>1, <3>2, <3>3
    <3>5. \A i, j \in DOMAIN content : ~Expected(i, j)
      BY <3>1, WriterAlone DEF Expected
    <3>6. \A i, j \in DOMAIN content : Follows(content, i, j)
      BY <1>2, <3>1, <3>5, NoneIsNoContent DEF Continuous
    <3>7. \A i, j \in DOMAIN got'[p] : Follows(got'[p], i, j)
      <4>1. SUFFICES ASSUME NEW i \in 1 .. pos[p] + 1, NEW j \in 1 .. pos[p] + 1
                     PROVE  Follows(got'[p], i, j)
        BY <3>4
      <4>2. got'[p][i] = content[i] /\ got'[p][j] = content[j]
        BY <3>4
      <4>3. Follows(content, i, j)
        <5>1. i \in DOMAIN content /\ j \in DOMAIN content
          BY <3>1
        <5>2. QED
          BY <3>6, <5>1
      <4>4. QED
        BY <4>2, <4>3 DEF Follows
    <3>8. QED
      BY <3>1, <3>4, <3>7
  <2>3. CASE CloseR(p)
    <3>1. pc[p] = "reading" /\ pc'[p] = "loaded" /\ got' = got
      BY <1>1, <2>3 DEF CloseR, Goto
    <3>2. QED
      BY <1>2, <3>1 DEF Readings
  <2>4. CASE Write(p) \/ WriteFails(p)
    <3>1. pc'[p] = "writing"
      BY <2>4 DEF Write, WriteFails
    <3>2. QED
      BY <3>1
  <2>5. CASE (\E v \in Vals : OpenW(p, v)) \/ OpenR(p) \/ Lock(p) \/ CloseW(p) \/ Return(p) \/ Die(p)
    <3>1. pc'[p] \notin {"reading", "loaded"}
      BY <1>1, <2>5 DEF OpenW, OpenR, Lock, CloseW, Return, Die, Goto
    <3>2. QED
      BY <3>1
  <2>6. QED
    BY <2>1, <2>2, <2>3, <2>4, <2>5 DEF Step, Proceed
<1>6. QED
  BY <1>3, <1>4, <1>5 DEF Readings

-----------------------------------------------------------------------------
(* Theorems *)

LEMMA Preserved ==
  ASSUME IInv, [Next]_vars
  PROVE  IInv'
<1>1. CASE UNCHANGED vars
  <2>1. TypeOK' /\ LockDiscipline'
    BY <1>1 DEF vars, IInv, TypeOK, LockDiscipline
  <2>2. Stations'
    BY <1>1 DEF vars, IInv, Stations, Saving
  <2>3. ~damaged' => Continuous' /\ OwnBehind'
    BY <1>1 DEF vars, IInv, Continuous, Expected, OwnBehind
  <2>4. ~damaged' => AllBehind' /\ LastSaveLeads'
    BY <1>1 DEF vars, IInv, AllBehind, LastSaveLeads, Quiet, Saving
  <2>5. ~damaged' => Readings'
    BY <1>1 DEF vars, IInv, Readings
  <2>6. QED
    BY <2>1, <2>2, <2>3, <2>4, <2>5 DEF IInv
<1>2. ASSUME NEW p \in Procs, Step(p) PROVE IInv'
  <2>1. TypeOK' /\ LockDiscipline' /\ Stations'
    BY <1>2, TypesKept, LocksKept, StationsKept
  <2>2. damaged => damaged'
    BY <1>2 DEF Step, Proceed, OpenW, OpenR, Lock, Write, WriteFails, CloseW, Measure, Read, CloseR,
       Return, Die
  <2>3. ~damaged' => Continuous' /\ OwnBehind' /\ AllBehind' /\ Readings' /\ LastSaveLeads'
    BY <1>2, <2>2, ContinuousKept, OwnBehindKept, AllBehindKept, ReadingsKept, LeadKept DEF Undamaged
  <2>4. QED
    BY <2>1, <2>3 DEF IInv
<1>3. QED
  BY <1>1, <1>2 DEF Next, Over, Step

LEMMA Always == Spec => []IInv
<1>1. QED
  BY Initially, Preserved, PTL DEF Spec

\* Every variable keeps its type.
THEOREM TypesHold == Spec => []TypeOK
<1>1. IInv => TypeOK
  BY DEF IInv
<1>2. QED
  BY <1>1, Always, PTL

\* A text whose blocks follow each other, and which the parser accepts, is the whole
\* of one value: that of its first block.
LEMMA ParsedIsWhole ==
  ASSUME NEW text \in Seq(BlockSet), Parses(text), \A i, j \in DOMAIN text : Follows(text, i, j)
  PROVE  \E v \in Vals : text = Whole(v)
<1>1. Len(text) \in Nat \ {0} /\ DOMAIN text = 1..Len(text)
  BY DEF Parses
<1>2. \A i \in 1..Len(text) :
        /\ text[i] # Hole /\ text[i] \in [of : Vals, part : Nat] /\ text[i].part = i
        /\ (i = Len(text)) <=> (i = Size[text[i].of])
  <2>1. SUFFICES ASSUME NEW i \in 1..Len(text)
                 PROVE  /\ text[i] # Hole /\ text[i] \in [of : Vals, part : Nat] /\ text[i].part = i
                        /\ (i = Len(text)) <=> (i = Size[text[i].of])
    OBVIOUS
  <2>2. /\ text[i] # Hole /\ text[i].part = i
        /\ (i = Len(text)) = (i = Size[text[i].of])
    BY <1>1 DEF Parses
  <2>3. text[i] \in BlockSet
    BY <1>1
  <2>4. QED
    BY <2>2, <2>3 DEF BlockSet
<1>3. 1 \in 1..Len(text)
  BY <1>1
<1>4. PICK v \in Vals : text[1] = [of |-> v, part |-> 1]
  BY <1>2, <1>3
<1>5. PICK n \in Nat \ {0} : n = Size[v]
  BY SizeAssumption
<1>6. ASSUME NEW j \in 1..Len(text), j <= n PROVE text[j] = [of |-> v, part |-> j]
  <2>1. CASE j = 1
    BY <1>4, <2>1
  <2>2. CASE 1 < j
    <3>1. Follows(text, 1, j)
      BY <1>1, <1>3
    <3>2. text[1].of = v
      BY <1>4
    <3>3. QED
      BY <1>2, <1>3, <1>5, <1>6, <2>2, <3>1, <3>2 DEF Follows
  <2>3. QED
    BY <1>6, <2>1, <2>2
<1>7. Len(text) <= n
  <2>1. SUFFICES ASSUME n < Len(text) PROVE FALSE
    BY <1>1, <1>5
  <2>2. n \in 1..Len(text)
    BY <1>1, <1>5, <2>1
  <2>3. text[n] = [of |-> v, part |-> n]
    BY <1>5, <1>6, <2>2
  <2>4. n = Len(text)
    BY <1>2, <1>5, <2>2, <2>3
  <2>5. QED
    BY <1>1, <1>5, <2>1, <2>4
<1>8. n = Len(text)
  <2>1. Len(text) \in 1..Len(text)
    BY <1>1
  <2>2. text[Len(text)] = [of |-> v, part |-> Len(text)]
    BY <1>6, <1>7, <2>1
  <2>3. QED
    BY <1>2, <1>5, <2>1, <2>2
<1>9. text = Whole(v)
  <2>1. text = [i \in 1..n |-> text[i]]
    BY <1>1, <1>8
  <2>2. \A i \in 1..n : text[i] = [of |-> v, part |-> i]
    BY <1>6, <1>8
  <2>3. QED
    BY <1>5, <2>1, <2>2 DEF Whole
<1>10. QED
  BY <1>9

\* A load never returns a mixture of saved values.
THEOREM NoMixtures == Spec => []LoadedWasSaved
<1>1. IInv => LoadedWasSaved
  <2>1. SUFFICES ASSUME IInv, NEW p \in Procs, pc[p] = "loaded", Parses(got[p]), ~damaged
                 PROVE  \E v \in Vals : got[p] = Whole(v)
    BY DEF LoadedWasSaved
  <2>2. got[p] \in Seq(BlockSet) /\ \A i, j \in DOMAIN got[p] : Follows(got[p], i, j)
    BY <2>1 DEF IInv, TypeOK, Readings
  <2>3. QED
    BY <2>1, <2>2, ParsedIsWhole
<1>2. QED
  BY <1>1, Always, PTL

\* When nobody is saving, the file begins with the value that was saved last.
THEOREM LastLeads == Spec => []LastSaveLeads
<1>1. IInv => LastSaveLeads
  BY DEF IInv, LastSaveLeads
<1>2. QED
  BY <1>1, Always, PTL

\* A lock protects from the writes of others, if not from their opening the file.
THEOREM NobodyWritesUnderALock == Spec => LockedAgainstWriting
<1>1. ASSUME IInv, [Next]_vars
      PROVE  [\A p \in Procs :
                lock[p] # "none" /\ content' # content => content' = <<>> \/ pos'[p] # pos[p]]_vars
  <2>1. ASSUME NEW q \in Procs, Step(q), NEW p \in Procs, lock[p] # "none", content' # content,
               content' # <<>>
        PROVE  pos'[p] # pos[p]
    <3>1. Write(q) /\ pc[q] = "writing"
      BY <1>1, <2>1, FileSteps DEF Write
    <3>2. p = q
      <4>1. lock[q] = "exclusive"
        BY <1>1, <3>1 DEF IInv, LockDiscipline
      <4>2. QED
        BY <1>1, <2>1, <4>1 DEF IInv, LockDiscipline
    <3>3. pos'[p] = pos[p] + 1 /\ pos[p] \in Nat
      BY <1>1, <3>1, <3>2 DEF Write, IInv, TypeOK
    <3>4. QED
      BY <3>3
  <2>2. QED
    BY <1>1, <2>1 DEF Next, Over, Step, vars
<1>2. QED
  BY <1>1, Always, PTL DEF Spec, LockedAgainstWriting

-----------------------------------------------------------------------------
(* TextLines: the file is one line behind the other.  As long as all of    *)
(* them fit into the buffer a reader is always where a line begins, and    *)
(* what it has taken are the lines before that.                            *)

LineSpec == LineInit /\ [][LineNext]_lineVars

Line == [text : LineTexts, end : {<<LF>>, <<CR, LF>>}]

\* That the lines are in the characters, the i-th up to P[i]
Laid(cs, lines, P) ==
  /\ P \in [0 .. Len(lines) -> Nat] /\ P[0] = 0 /\ P[Len(lines)] = Len(cs)
  /\ \A i \in 1 .. Len(lines) :
       /\ P[i] = P[i - 1] + Len(lines[i].text) + Len(lines[i].end)
       /\ \A k \in 1 .. Len(lines[i].text) : cs[P[i - 1] + k] = lines[i].text[k]
       /\ \A k \in 1 .. Len(lines[i].end) :
            cs[P[i - 1] + Len(lines[i].text) + k] = lines[i].end[k]

AllFit == \A i \in DOMAIN written : Fits(written[i])

LinesLaid ==
  \E P : Laid(chars, written, P) /\ (AllFit => taken \in 0 .. Len(written) /\ cursor = P[taken])

LinesIInv ==
  /\ chars \in Seq(LineChars \cup {CR, LF}) /\ written \in Seq(Line)
  /\ mode \in {"w", "a", "wd", "ad", "r", "closed"}
  /\ LinesLaid /\ (mode # "r" => lineRead = NoCall) /\ LinesReadBack

\* A set of positions that is not empty has a smallest element.
LEMMA LeastPosition ==
  ASSUME NEW S \in SUBSET Nat, S # {}
  PROVE  \E x \in S : \A y \in S : x <= y
<1>1. PICK x \in S : \A y \in S : ~ (<<y, x>> \in OpToRel(<, Nat))
  BY NatLessThanWellFounded, WFMin
<1>2. \A y \in S : ~ (y < x)
  BY <1>1 DEF OpToRel
<1>3. \A y \in S : x <= y
  BY <1>2
<1>4. QED
  BY <1>3

\* What holds at the beginning, and at a position when it holds before it, holds at all.
LEMMA Upward ==
  ASSUME NEW n \in Nat, NEW Good, 0 \in Good,
         \A i \in 1 .. n : i - 1 \in Good => i \in Good
  PROVE  0 .. n \subseteq Good
<1> DEFINE Bad == (0 .. n) \ Good
<1>1. SUFFICES ASSUME Bad # {} PROVE FALSE
  OBVIOUS
<1>2. PICK x \in Bad : \A y \in Bad : x <= y
  <2>1. Bad \in SUBSET Nat
    OBVIOUS
  <2> HIDE DEF Bad
  <2>2. QED
    BY <1>1, <2>1, LeastPosition
<1>3. x \in 1 .. n /\ x \notin Good
  BY <1>2
<1>4. x - 1 \in Good
  BY <1>2, <1>3
<1>5. QED
  BY <1>3, <1>4

LEMMA LineParts ==
  ASSUME NEW line \in Line
  PROVE  /\ line.text \in LineTexts /\ line.text \in Seq(LineChars) /\ Len(line.text) \in Nat
         /\ \A k \in 1 .. Len(line.text) : line.text[k] \notin {CR, LF}
         /\ \/ line.end = <<LF>> /\ Len(line.end) = 1 /\ line.end[1] = LF
            \/ line.end = <<CR, LF>> /\ Len(line.end) = 2 /\ line.end[1] = CR /\ line.end[2] = LF
<1>1. line.text \in LineTexts /\ line.end \in {<<LF>>, <<CR, LF>>}
  BY DEF Line
<1>2. line.text \in Seq(LineChars)
  BY <1>1, LinesAssumption
<1>3. \A k \in 1 .. Len(line.text) : line.text[k] \in LineChars
  BY <1>2
<1>4. \A k \in 1 .. Len(line.text) : line.text[k] \notin {CR, LF}
  BY <1>3, LinesAssumption
<1>5. \/ line.end = <<LF>> /\ Len(line.end) = 1 /\ line.end[1] = LF
      \/ line.end = <<CR, LF>> /\ Len(line.end) = 2 /\ line.end[1] = CR /\ line.end[2] = LF
  BY <1>1
<1>6. QED
  BY <1>1, <1>2, <1>4, <1>5

\* Each line ends behind the one before it.
LEMMA LaidInOrder ==
  ASSUME NEW lines \in Seq(Line), NEW cs, NEW P, Laid(cs, lines, P)
  PROVE  \A i, j \in 0 .. Len(lines) : (i <= j => P[i] <= P[j]) /\ (i < j => P[i] < P[j])
<1>1. PICK n \in Nat : n = Len(lines)
  OBVIOUS
<1>2. P \in [0 .. n -> Nat]
  BY <1>1 DEF Laid
<1>3. ASSUME NEW i \in 1 .. n PROVE P[i - 1] < P[i]
  <2>1. P[i] = P[i - 1] + Len(lines[i].text) + Len(lines[i].end)
    BY <1>1 DEF Laid
  <2>2. lines[i] \in Line
    BY <1>1
  <2>3. Len(lines[i].text) \in Nat /\ Len(lines[i].end) \in Nat /\ Len(lines[i].end) > 0
    BY <2>2, LineParts
  <2>4. P[i - 1] \in Nat
    BY <1>2
  <2>5. QED
    BY <2>1, <2>3, <2>4
<1>4. SUFFICES ASSUME NEW i \in 0 .. n PROVE \A j \in 0 .. n : (i <= j => P[i] <= P[j]) /\ (i < j => P[i] < P[j])
  BY <1>1
<1> DEFINE Good == {j \in 0 .. n : (i <= j => P[i] <= P[j]) /\ (i < j => P[i] < P[j])}
<1>5. 0 \in Good
  BY <1>2
<1>6. ASSUME NEW j \in 1 .. n, j - 1 \in Good PROVE j \in Good
  <2>1. P[j - 1] < P[j] /\ P[j - 1] \in Nat /\ P[j] \in Nat /\ P[i] \in Nat
    BY <1>2, <1>3
  <2>2. CASE i <= j - 1
    BY <1>6, <2>1, <2>2
  <2>3. CASE i = j
    BY <2>1, <2>3
  <2>4. CASE i > j
    BY <2>4
  <2>5. QED
    BY <2>2, <2>3, <2>4
<1>7. 0 .. n \subseteq Good
  <2> HIDE DEF Good
  <2>1. QED
    BY <1>5, <1>6, Upward
<1>8. QED
  BY <1>7

\* That text, of a characters, and end, of e, are in cs from one position to another,
\* and fit into a buffer of this size
InBuffer(cs, text, end, a, e, from, to, size) ==
  /\ cs \in Seq(LineChars \cup {CR, LF}) /\ text \in Seq(LineChars)
  /\ a \in Nat /\ e \in {1, 2} /\ from \in Nat /\ to \in Nat /\ size \in Nat
  /\ a = Len(text) /\ end[e] = LF /\ (\A k \in 1 .. e - 1 : end[k] = CR)
  /\ to = from + a + e /\ to <= Len(cs) /\ to <= from + size - 1
  /\ \A k \in 1 .. a : cs[from + k] = text[k]
  /\ \A k \in 1 .. e : cs[from + a + k] = end[k]

\* What fgets returns of it, and what of that is kept
Fetched(cs, text, a, e, from, to, size) ==
  /\ Min({i \in from + 1 .. Len(cs) : cs[i] = LF} \cup {Len(cs), from + size - 1}) = to
  /\ StripLineEnd(SubSeq(cs, from + 1, to)) = text
  /\ Len(SubSeq(cs, from + 1, to)) = a + e

LEMMA LineRead ==
  ASSUME NEW cs, NEW text, NEW end, NEW a, NEW e, NEW from, NEW to, NEW size,
         InBuffer(cs, text, end, a, e, from, to, size)
  PROVE  Fetched(cs, text, a, e, from, to, size)
<1> SUFFICES ASSUME cs \in Seq(LineChars \cup {CR, LF}), text \in Seq(LineChars),
                    a \in Nat, e \in {1, 2}, from \in Nat, to \in Nat, size \in Nat,
                    a = Len(text), end[e] = LF, \A k \in 1 .. e - 1 : end[k] = CR,
                    to = from + a + e, to <= Len(cs), to <= from + size - 1,
                    \A k \in 1 .. a : cs[from + k] = text[k],
                    \A k \in 1 .. e : cs[from + a + k] = end[k]
             PROVE  /\ Min({i \in from + 1 .. Len(cs) : cs[i] = LF} \cup {Len(cs), from + size - 1}) = to
                    /\ StripLineEnd(SubSeq(cs, from + 1, to)) = text
                    /\ Len(SubSeq(cs, from + 1, to)) = a + e
  BY Zenon DEF InBuffer, Fetched
<1>1. Len(cs) \in Nat /\ a + e >= 1
  OBVIOUS
<1>2. \A k \in 1 .. a : text[k] \in LineChars
  OBVIOUS
<1>3. \A k \in 1 .. a : cs[from + k] \notin {CR, LF}
  <2>1. \A c \in LineChars : c \notin {CR, LF}
    BY LinesAssumption
  <2>2. QED
    BY <1>2, <2>1, Zenon
<1>4. \A k \in 1 .. e : end[k] \in {CR, LF} /\ (k < e => end[k] = CR)
  <2>1. \A k \in 1 .. e : k = e \/ k \in 1 .. e - 1
    OBVIOUS
  <2>2. \A k \in 1 .. e - 1 : k \in 1 .. e /\ k < e /\ k # e
    OBVIOUS
  <2>3. QED
    BY <2>1, <2>2
<1>5. \A j \in a + 1 .. a + e : cs[from + j] \in {CR, LF} /\ (j < a + e => cs[from + j] = CR)
  <2>1. ASSUME NEW j \in a + 1 .. a + e
        PROVE  cs[from + j] \in {CR, LF} /\ (j < a + e => cs[from + j] = CR)
    <3>1. PICK k \in 1 .. e : k = j - a /\ from + a + k = from + j /\ (j < a + e => k < e)
      <4>1. j - a \in 1 .. e /\ from + a + (j - a) = from + j /\ (j < a + e => j - a < e)
        OBVIOUS
      <4>2. QED
        BY <4>1
    <3>2. cs[from + j] = end[k]
      BY <3>1
    <3>3. QED
      BY <1>4, <3>1, <3>2
  <2>2. QED
    BY <2>1
<1>6. cs[to] = LF
  <2>1. e \in 1 .. e
    OBVIOUS
  <2>2. QED
    BY <2>1
<1>7. CR # LF
  BY Zenon DEF CR, LF
<1> DEFINE E == {i \in from + 1 .. Len(cs) : cs[i] = LF} \cup {Len(cs), from + size - 1}
<1>8. Min(E) = to
  <2>1. to \in E
    <3>1. to \in from + 1 .. Len(cs)
      BY <1>1
    <3>2. QED
      BY <1>6, <3>1
  <2>2. ASSUME NEW i \in from + 1 .. to - 1 PROVE cs[i] # LF
    <3>1. PICK j \in 1 .. a + e : j = i - from /\ from + j = i /\ j < a + e
      <4>1. i - from \in 1 .. a + e /\ from + (i - from) = i /\ i - from < a + e
        OBVIOUS
      <4>2. QED
        BY <4>1
    <3>2. j \in 1 .. a \/ j \in a + 1 .. a + e
      OBVIOUS
    <3>3. QED
      BY <1>3, <1>5, <1>7, <3>1, <3>2
  <2>3. \A y \in E : to <= y
    <3>1. ASSUME NEW y \in from + 1 .. Len(cs), cs[y] = LF PROVE to <= y
      <4>1. y \notin from + 1 .. to - 1
        BY <2>2, <3>1
      <4>2. QED
        BY <4>1
    <3>2. QED
      BY <3>1
  <2>4. E \subseteq Int
    BY <1>1
  <2> HIDE DEF E
  <2>5. \A x \in E : (\A y \in E : x <= y) => x = to
    BY <2>1, <2>3, <2>4
  <2>6. QED
    BY <2>1, <2>3, <2>5, Zenon DEF Min
<1>9. PICK piece : piece = SubSeq(cs, from + 1, to)
  OBVIOUS
<1>10. /\ Len(piece) = a + e /\ piece \in Seq(LineChars \cup {CR, LF})
       /\ \A k \in 1 .. a + e : piece[k] = cs[from + k]
  <2>1. from + 1 \in 1 .. Len(cs) + 1 /\ to \in from + 1 .. Len(cs) /\ to - (from + 1) + 1 = a + e
    BY <1>1
  <2>2. \A k \in 1 .. a + e : from + 1 + k - 1 = from + k
    OBVIOUS
  <2>3. /\ piece \in Seq(LineChars \cup {CR, LF}) /\ Len(piece) = to - (from + 1) + 1
        /\ \A k \in 1 .. to - (from + 1) + 1 : piece[k] = cs[from + 1 + k - 1]
    <3>1. PICK T : T = LineChars \cup {CR, LF}
      OBVIOUS
    <3>2. cs \in Seq(T)
      BY <3>1
    <3>3. /\ piece \in Seq(T) /\ Len(piece) = to - (from + 1) + 1
          /\ \A k \in 1 .. to - (from + 1) + 1 : piece[k] = cs[from + 1 + k - 1]
      <4>1. \A i \in from + 1 .. to : cs[i] \in T
        <5>1. \A i \in from + 1 .. to : i \in 1 .. Len(cs)
          BY <1>1, <2>1
        <5>2. QED
          BY <3>2, <5>1
      <4>2. from + 1 \in Int /\ to \in Int /\ from + 1 <= to
        BY <2>1
      <4>3. QED
        BY <1>9, <4>1, <4>2, SubSeqProperties
    <3>4. QED
      BY <3>1, <3>3
  <2>4. QED
    BY <2>1, <2>2, <2>3
<1>11. StripLineEnd(piece) = text
  <2> DEFINE K == {i \in DOMAIN piece : piece[i] \notin {CR, LF}} \cup {0}
  <2>1. DOMAIN piece = 1 .. a + e
    BY <1>10
  <2>2. ASSUME NEW i \in K PROVE i \in 0 .. a
    <3>1. CASE i = 0
      BY <3>1
    <3>2. CASE i # 0
      <4>1. i \in 1 .. a + e /\ piece[i] \notin {CR, LF} /\ piece[i] = cs[from + i]
        BY <1>10, <2>1, <3>2
      <4>2. i \notin a + 1 .. a + e
        BY <1>5, <4>1
      <4>3. QED
        BY <4>1, <4>2
    <3>3. QED
      BY <3>1, <3>2
  <2>3. a \in K
    <3>1. CASE a = 0
      BY <3>1
    <3>2. CASE a > 0
      <4>1. a \in 1 .. a /\ a \in 1 .. a + e
        BY <3>2
      <4>2. QED
        BY <1>3, <1>10, <2>1, <4>1
    <3>3. QED
      BY <3>1, <3>2
  <2>4. Max(K) = a
    <3> HIDE DEF K
    <3>1. \A y \in K : a >= y
      BY <2>2
    <3>2. ASSUME NEW x \in K, \A y \in K : x >= y PROVE x = a
      <4>1. x >= a
        BY <2>3, <3>2
      <4>2. x \in 0 .. a
        BY <2>2
      <4>3. QED
        BY <4>1, <4>2
    <3>3. QED
      BY <2>3, <3>1, <3>2, Zenon DEF Max
  <2>5. StripLineEnd(piece) = SubSeq(piece, 1, a)
    BY <2>4 DEF StripLineEnd
  <2>6. PICK s : s = SubSeq(piece, 1, a)
    OBVIOUS
  <2>7. Len(s) = a /\ DOMAIN s = 1 .. a /\ (\A k \in 1 .. a : s[k] = piece[k]) /\ s = [k \in 1 .. a |-> s[k]]
    <3>1. PICK T : T = LineChars \cup {CR, LF}
      OBVIOUS
    <3>2. piece \in Seq(T) /\ a \in 0 .. Len(piece)
      BY <1>10, <3>1
    <3>3. s \in Seq(T) /\ Len(s) = a /\ \A k \in 1 .. a : s[k] = piece[k]
      BY <2>6, <3>2
    <3>4. QED
      BY <3>3
  <2>8. text = [k \in 1 .. a |-> text[k]]
    OBVIOUS
  <2>9. \A k \in 1 .. a : s[k] = text[k]
    <3>1. \A k \in 1 .. a : k \in 1 .. a + e
      OBVIOUS
    <3>2. \A k \in 1 .. a : s[k] = cs[from + k]
      BY <1>10, <2>7, <3>1
    <3>3. QED
      BY <3>2
  <2>10. s = text
    BY <2>7, <2>8, <2>9, Zenon
  <2>11. QED
    BY <2>5, <2>6, <2>10
<1>12. QED
  BY <1>8, <1>9, <1>10, <1>11

\* From where a line begins fgets reads that line, if it fits, and nothing at the end.
LEMMA PieceIs ==
  ASSUME LinesIInv, AllFit, NEW P, Laid(chars, written, P), NEW t \in 0 .. Len(written)
  PROVE  /\ t = Len(written) => Piece(P[t]) = <<>>
         /\ t < Len(written) =>
              /\ Piece(P[t]) # <<>> /\ P[t] + Len(Piece(P[t])) = P[t + 1]
              /\ StripLineEnd(Piece(P[t])) = written[t + 1].text
<1>1. PICK cs, lines, n : cs = chars /\ lines = written /\ n = Len(written)
  OBVIOUS
<1>2. /\ cs \in Seq(LineChars \cup {CR, LF}) /\ lines \in Seq(Line) /\ Laid(cs, lines, P)
      /\ Len(cs) \in Nat /\ n = Len(lines) /\ n \in Nat
  BY <1>1 DEF LinesIInv
<1>3. \A i, j \in 0 .. n : (i <= j => P[i] <= P[j]) /\ (i < j => P[i] < P[j])
  BY <1>2, LaidInOrder
<1>4. PICK from \in Nat : from = P[t]
  BY <1>1, <1>2 DEF Laid
<1>5. P[n] = Len(cs) /\ from <= Len(cs) /\ \A i \in 0 .. n : P[i] \in Nat
  <2>1. P[n] = Len(cs) /\ \A i \in 0 .. n : P[i] \in Nat
    BY <1>2 DEF Laid
  <2>2. t \in 0 .. n /\ n \in 0 .. n /\ t <= n
    BY <1>1, <1>2
  <2>3. P[t] <= P[n]
    BY <1>3, <2>2
  <2>4. QED
    BY <1>4, <2>1, <2>3
<1> DEFINE E == {i \in from + 1 .. Len(cs) : cs[i] = LF} \cup {Len(cs), from + LineBuffer - 1}
<1>6. Piece(from) = SubSeq(cs, from + 1, Min(E))
  BY <1>1 DEF Piece
<1>7. LineBuffer \in Nat
  BY LinesAssumption
<1>8. CASE t = n
  <2>1. from = Len(cs)
    BY <1>4, <1>5, <1>8
  <2>2. PICK size \in Nat : size = Len(cs)
    BY <1>2
  <2>3. PICK m \in Int : m = Min(E) /\ m <= size
    <3>1. E \subseteq Int /\ size \in E /\ \A i \in E : i = size \/ i = size + LineBuffer - 1
      BY <1>7, <2>1, <2>2
    <3>2. size + LineBuffer - 1 \in E
      BY <2>1, <2>2
    <3> HIDE DEF E
    <3>3. \E x \in E : \A y \in E : x <= y
      <4>1. CASE size <= size + LineBuffer - 1
        BY <1>7, <3>1, <4>1
      <4>2. CASE ~(size <= size + LineBuffer - 1)
        BY <1>7, <3>1, <3>2, <4>2
      <4>3. QED
        BY <4>1, <4>2
    <3>4. Min(E) \in E /\ \A y \in E : Min(E) <= y
      BY <3>3, Zenon DEF Min
    <3>5. PICK m \in E : m = Min(E) /\ \A y \in E : m <= y
      BY <3>4
    <3>6. QED
      BY <3>1, <3>5
  <2>4. SubSeq(cs, size + 1, m) = <<>>
    <3>1. size + 1 \in Int /\ m < size + 1
      BY <2>3
    <3>2. QED
      BY <3>1, SubSeqEmpty
  <2>5. Piece(from) = <<>>
    BY <1>6, <2>1, <2>2, <2>3, <2>4, Zenon
  <2>6. QED
    BY <1>1, <1>2, <1>4, <1>8, <2>5
<1>9. CASE t < n
  <2>1. t + 1 \in 1 .. n /\ t + 1 - 1 = t /\ t + 1 \in 0 .. n
    BY <1>1, <1>2, <1>9
  <2>2. PICK line \in Line : line = lines[t + 1]
    BY <1>2, <2>1
  <2>3. PICK text, end : text = line.text /\ end = line.end
    OBVIOUS
  <2>4. PICK a \in Nat, e \in Nat : a = Len(text) /\ e = Len(end)
    BY <2>2, <2>3, LineParts
  <2>5. text \in Seq(LineChars) /\ e \in {1, 2} /\ end[e] = LF /\ \A k \in 1 .. e - 1 : end[k] = CR
    <3>1. text \in Seq(LineChars)
      BY <2>3, LineParts
    <3>2. \/ e = 1 /\ end[1] = LF
          \/ e = 2 /\ end[1] = CR /\ end[2] = LF
      BY <2>3, <2>4, LineParts
    <3>3. \A k \in 1 .. e - 1 : k = 1 /\ e = 2
      BY <3>2
    <3>4. QED
      BY <3>1, <3>2, <3>3
  <2>6. PICK to \in Nat : to = P[t + 1] /\ to <= Len(cs)
    BY <1>2, <1>3, <1>5, <2>1
  <2>7. /\ to = from + a + e
        /\ \A k \in 1 .. a : cs[from + k] = text[k]
        /\ \A k \in 1 .. e : cs[from + a + k] = end[k]
    <3>1. PICK i \in 1 .. n : i = t + 1 /\ i - 1 = t
      BY <2>1
    <3>2. /\ P[i] = P[i - 1] + Len(lines[i].text) + Len(lines[i].end)
          /\ \A k \in 1 .. Len(lines[i].text) : cs[P[i - 1] + k] = lines[i].text[k]
          /\ \A k \in 1 .. Len(lines[i].end) :
               cs[P[i - 1] + Len(lines[i].text) + k] = lines[i].end[k]
      BY <1>2, Zenon DEF Laid
    <3>3. lines[i] = line /\ P[i] = to /\ P[i - 1] = from
      BY <1>4, <2>2, <2>6, <3>1
    <3>4. QED
      BY <2>3, <2>4, <3>2, <3>3, Zenon
  <2>8. to <= from + LineBuffer - 1
    <3>1. Fits(line)
      BY <1>1, <1>2, <2>1, <2>2 DEF AllFit
    <3>2. a + e < LineBuffer
      BY <2>3, <2>4, <3>1 DEF Fits
    <3>3. to = from + a + e
      BY <2>7
    <3>4. QED
      BY <1>7, <3>2, <3>3
  <2>9. PICK piece : piece = SubSeq(cs, from + 1, to)
    OBVIOUS
  <2>10. Min(E) = to /\ StripLineEnd(piece) = text /\ Len(piece) = a + e
    <3>1. /\ to = from + a + e /\ a = Len(text)
          /\ \A k \in 1 .. a : cs[from + k] = text[k]
          /\ \A k \in 1 .. e : cs[from + a + k] = end[k]
      BY <2>4, <2>7
    <3>2. QED
      <4>1. PICK size \in Nat : size = LineBuffer
        BY <1>7
      <4>2. to <= from + size - 1 /\ to <= Len(cs)
        BY <2>6, <2>8, <4>1
      <4>3. InBuffer(cs, text, end, a, e, from, to, size)
        BY <1>2, <2>5, <3>1, <4>1, <4>2, <2>7, Zenon DEF InBuffer
      <4>4. Fetched(cs, text, a, e, from, to, size)
        BY <4>3, LineRead, Zenon
      <4>5. QED
        BY <2>9, <4>1, <4>4, Zenon DEF Fetched
  <2>11. Piece(from) = piece
    BY <1>6, <2>9, <2>10
  <2>12. piece # <<>> /\ from + Len(piece) = to
    <3>1. a + e # 0 /\ from + (a + e) = to
      BY <2>5, <2>7
    <3>2. QED
      BY <2>10, <3>1
  <2>13. written[t + 1].text = text
    BY <1>1, <2>2, <2>3
  <2>14. QED
    <3>1. t # Len(written)
      BY <1>1, <1>9
    <3>2. from = P[t] /\ to = P[t + 1]
      BY <1>4, <2>6
    <3>3. Piece(from) # <<>> /\ from + Len(Piece(from)) = to /\ StripLineEnd(Piece(from)) = text
      BY <2>10, <2>11, <2>12, Zenon
    <3>4. QED
      BY <2>13, <3>1, <3>2, <3>3, Zenon
<1>10. QED
  BY <1>1, <1>2, <1>8, <1>9

Least(a, b) == IF a <= b THEN a ELSE b

\* The texts of the next n lines behind the first t of them, or of as many as there are
NextTexts(lines, t, n) == [k \in 1 .. Least(n, Len(lines) - t) |-> lines[t + k].text]

LEMMA NextText ==
  ASSUME NEW lines \in Seq(Line), NEW t \in Nat, NEW n \in Nat, t + n < Len(lines)
  PROVE  NextTexts(lines, t, n + 1) = Append(NextTexts(lines, t, n), lines[t + n + 1].text)
<1>1. PICK N \in Nat : N = Len(lines)
  OBVIOUS
<1>2. Least(n, N - t) = n /\ Least(n + 1, N - t) = n + 1
  BY <1>1 DEF Least
<1>3. PICK x : x = NextTexts(lines, t, n)
  OBVIOUS
<1>4. x = [k \in 1 .. n |-> lines[t + k].text]
  BY <1>1, <1>2, <1>3, Zenon DEF NextTexts
<1>5. NextTexts(lines, t, n + 1) = [k \in 1 .. n + 1 |-> lines[t + k].text]
  BY <1>1, <1>2, Zenon DEF NextTexts
<1>6. PICK last : last = lines[t + n + 1].text
  OBVIOUS
<1>7. \A k \in 1 .. n : lines[t + k] \in Line
  BY <1>1
<1>8. x \in Seq(LineTexts) /\ last \in LineTexts /\ Len(x) = n
  <2>1. \A k \in 1 .. n : lines[t + k].text \in LineTexts
    BY <1>7, LineParts
  <2>2. lines[t + n + 1] \in Line
    BY <1>1
  <2>3. last \in LineTexts
    BY <1>6, <2>2, LineParts
  <2>4. QED
    BY <1>4, <2>1, <2>3
<1>9. Append(x, last) = [k \in 1 .. n + 1 |-> lines[t + k].text]
  <2>1. PICK y : y = Append(x, last)
    OBVIOUS
  <2>2. /\ y \in Seq(LineTexts) /\ Len(y) = n + 1 /\ y[n + 1] = last
        /\ \A k \in 1 .. n : y[k] = x[k]
    BY <1>8, <2>1
  <2>3. ASSUME NEW k \in 1 .. n + 1 PROVE y[k] = lines[t + k].text
    <3>1. CASE k = n + 1
      <4>1. t + k = t + n + 1
        BY <3>1
      <4>2. QED
        BY <1>6, <2>2, <3>1, <4>1
    <3>2. CASE k # n + 1
      <4>1. k \in 1 .. n
        BY <3>2
      <4>2. QED
        BY <1>4, <2>2, <4>1
    <3>3. QED
      BY <3>1, <3>2
  <2>4. y = [k \in 1 .. n + 1 |-> y[k]]
    BY <2>2
  <2>5. QED
    BY <2>1, <2>3, <2>4, Zenon
<1>10. QED
  BY <1>3, <1>5, <1>6, <1>9, Zenon

\* Reading up to n lines from where the line behind the first t begins
LEMMA ReadIs ==
  ASSUME LinesIInv, AllFit, NEW P, Laid(chars, written, P), NEW t \in 0 .. Len(written),
         NEW upto \in Nat
  PROVE  LinesFrom(P[t], upto) =
           [at |-> P[t + Least(upto, Len(written) - t)], lines |-> NextTexts(written, t, upto)]
<1>1. PICK lines, N : lines = written /\ N = Len(written)
  OBVIOUS
<1>2. lines \in Seq(Line) /\ N = Len(lines) /\ N \in Nat /\ t \in 0 .. N
  BY <1>1 DEF LinesIInv
<1> DEFINE Fetch(n) == [at |-> P[t + Least(n, N - t)], lines |-> NextTexts(lines, t, n)]
           After(so) == IF Piece(so.at) = <<>> THEN so
                        ELSE [at |-> so.at + Len(Piece(so.at)),
                              lines |-> Append(so.lines, StripLineEnd(Piece(so.at)))]
           Table(h) == [n \in 0 .. upto |-> IF n = 0 THEN [at |-> P[t], lines |-> <<>>]
                                            ELSE After(h[n - 1])]
<1>3. Fetch(0) = [at |-> P[t], lines |-> <<>>]
  <2>1. Least(0, N - t) = 0 /\ t + 0 = t
    BY <1>2 DEF Least
  <2>2. NextTexts(lines, t, 0) = <<>>
    <3>1. NextTexts(lines, t, 0) = [k \in 1 .. 0 |-> lines[t + k].text]
      BY <1>2, <2>1, Zenon DEF NextTexts
    <3>2. QED
      BY <3>1
  <2>3. QED
    BY <2>1, <2>2
<1>4. ASSUME NEW n \in 1 .. upto PROVE After(Fetch(n - 1)) = Fetch(n)
  <2>1. PICK m \in Nat : m = n - 1 /\ n = m + 1
    OBVIOUS
  <2>2. PICK so : so = Fetch(m)
    OBVIOUS
  <2>3. so.at = P[t + Least(m, N - t)] /\ so.lines = NextTexts(lines, t, m)
    BY <2>2
  <2>4. CASE t + m < N
    <3>1. Least(m, N - t) = m /\ Least(n, N - t) = n /\ t + m \in 0 .. N /\ t + n = t + m + 1
      BY <1>2, <2>1, <2>4 DEF Least
    <3>2. PICK u \in 0 .. N : u = t + m /\ u + 1 = t + n /\ u < N
      BY <2>4, <3>1
    <3>3. /\ Piece(P[u]) # <<>> /\ P[u] + Len(Piece(P[u])) = P[u + 1]
          /\ StripLineEnd(Piece(P[u])) = lines[u + 1].text
      BY <1>1, <3>2, PieceIs
    <3>4. so.at = P[u]
      BY <2>3, <3>1, <3>2
    <3>5. After(so) = [at |-> P[u + 1], lines |-> Append(NextTexts(lines, t, m), lines[u + 1].text)]
      BY <2>3, <3>3, <3>4, Zenon
    <3>6. NextTexts(lines, t, m + 1) = Append(NextTexts(lines, t, m), lines[t + m + 1].text)
      BY <1>2, <2>4, NextText
    <3>7. Fetch(n) = [at |-> P[u + 1], lines |-> Append(NextTexts(lines, t, m), lines[u + 1].text)]
      BY <2>1, <3>1, <3>2, <3>6, Zenon
    <3>8. QED
      BY <2>1, <2>2, <3>5, <3>7, Zenon
  <2>5. CASE ~(t + m < N)
    <3>1. Least(m, N - t) = N - t /\ Least(n, N - t) = N - t /\ t + (N - t) = N
      BY <1>2, <2>1, <2>5 DEF Least
    <3>2. so.at = P[N]
      BY <2>3, <3>1
    <3>3. Piece(P[N]) = <<>>
      <4>1. N \in 0 .. N
        BY <1>2
      <4>2. QED
        BY <1>1, <4>1, PieceIs
    <3>4. After(so) = so
      BY <3>2, <3>3, Zenon
    <3>5. NextTexts(lines, t, m) = NextTexts(lines, t, n)
      BY <1>2, <3>1, Zenon DEF NextTexts
    <3>6. Fetch(m) = Fetch(n)
      BY <3>1, <3>5, Zenon
    <3>7. QED
      BY <2>1, <2>2, <3>4, <3>6, Zenon
  <2>6. QED
    BY <2>4, <2>5
<1> HIDE DEF After
<1>5. PICK R : R = [n \in 0 .. upto |-> Fetch(n)]
  OBVIOUS
<1>6. \A n \in 0 .. upto : R[n] = Fetch(n)
  BY <1>5, Zenon
<1> HIDE DEF Fetch
<1>7. R = Table(R)
  <2>1. ASSUME NEW n \in 0 .. upto
        PROVE  R[n] = IF n = 0 THEN [at |-> P[t], lines |-> <<>>] ELSE After(R[n - 1])
    <3>1. CASE n = 0
      BY <1>3, <1>6, <3>1
    <3>2. CASE n # 0
      <4>1. n \in 1 .. upto /\ n - 1 \in 0 .. upto
        BY <3>2
      <4>2. QED
        BY <1>4, <1>6, <3>2, <4>1, Zenon
    <3>3. QED
      BY <3>1, <3>2
  <2>2. R = [n \in 0 .. upto |-> R[n]]
    BY <1>5, <1>6, Zenon
  <2>3. QED
    BY <2>1, <2>2, Zenon
<1>8. PICK h : h = CHOOSE f : f = Table(f)
  OBVIOUS
<1>9. h = Table(h)
  <2> HIDE DEF Table
  <2>1. QED
    BY <1>7, <1>8, Zenon
<1>10. \A n \in 0 .. upto : h[n] = IF n = 0 THEN [at |-> P[t], lines |-> <<>>] ELSE After(h[n - 1])
  BY <1>9, Zenon
<1> DEFINE Good == {n \in 0 .. upto : h[n] = Fetch(n)}
<1>11. 0 .. upto \subseteq Good
  <2>1. 0 \in Good
    BY <1>3, <1>10
  <2>2. ASSUME NEW n \in 1 .. upto, n - 1 \in Good PROVE n \in Good
    <3>1. n \in 0 .. upto /\ n # 0
      OBVIOUS
    <3>2. h[n - 1] = Fetch(n - 1)
      BY <2>2, Zenon
    <3>3. h[n] = After(Fetch(n - 1))
      BY <1>10, <3>1, <3>2, Zenon
    <3>4. h[n] = Fetch(n)
      BY <1>4, <3>3
    <3>5. QED
      BY <3>1, <3>4
  <2> HIDE DEF Good
  <2>3. QED
    BY <2>1, <2>2, Upward
<1>12. h[upto] = Fetch(upto)
  <2>1. upto \in 0 .. upto
    OBVIOUS
  <2>2. QED
    BY <1>11, <2>1
<1>13. LinesFrom(P[t], upto) = h[upto]
  BY <1>8, Zenon DEF LinesFrom, After
<1>14. QED
  BY <1>1, <1>12, <1>13, Zenon DEF Fetch

-----------------------------------------------------------------------------
LEMMA LinesInitially == LineInit => LinesIInv
<1> SUFFICES ASSUME LineInit PROVE LinesIInv
  OBVIOUS
<1>1. /\ chars = <<>> /\ mode = "closed" /\ cursor = 0 /\ lineRead = NoCall /\ written = <<>> /\ taken = 0
  BY DEF LineInit
<1>2. Laid(<<>>, <<>>, [i \in 0 .. 0 |-> 0])
  BY DEF Laid
<1>3. LinesLaid
  <2>1. 0 \in 0 .. Len(<<>>) /\ [i \in 0 .. 0 |-> 0][0] = 0
    OBVIOUS
  <2>2. QED
    BY <1>1, <1>2, <2>1 DEF LinesLaid
<1>4. QED
  BY <1>1, <1>3 DEF LinesIInv, LinesReadBack

\* What is in the file stays as long as nothing is written.
LEMMA OpenTextKeeps == LinesIInv /\ (\E m \in {"w", "a", "wd", "ad", "r"} : OpenText(m)) => LinesIInv'
<1> SUFFICES ASSUME LinesIInv, NEW m \in {"w", "a", "wd", "ad", "r"}, OpenText(m) PROVE LinesIInv'
  OBVIOUS
<1>1. /\ mode = "closed" /\ mode' = m /\ cursor' = 0 /\ taken' = 0 /\ lineRead' = lineRead
      /\ chars' = IF m \in {"w", "wd"} THEN <<>> ELSE chars
      /\ written' = IF m \in {"w", "wd"} THEN <<>> ELSE written
  BY DEF OpenText
<1>2. lineRead' = NoCall
  BY <1>1 DEF LinesIInv
<1>3. chars' \in Seq(LineChars \cup {CR, LF}) /\ written' \in Seq(Line)
  BY <1>1 DEF LinesIInv
<1>4. LinesLaid'
  <2>1. CASE m \in {"w", "wd"}
    <3>1. Laid(<<>>, <<>>, [i \in 0 .. 0 |-> 0])
      BY DEF Laid
    <3>2. 0 \in 0 .. Len(<<>>) /\ [i \in 0 .. 0 |-> 0][0] = 0
      OBVIOUS
    <3>3. QED
      BY <1>1, <2>1, <3>1, <3>2 DEF LinesLaid
  <2>2. CASE m \notin {"w", "wd"}
    <3>1. PICK P : Laid(chars, written, P)
      BY DEF LinesIInv, LinesLaid
    <3>2. 0 \in 0 .. Len(written) /\ P[0] = 0
      BY <3>1 DEF LinesIInv, Laid
    <3>3. QED
      BY <1>1, <2>2, <3>1, <3>2 DEF LinesLaid
  <2>3. QED
    BY <2>1, <2>2
<1>5. mode' \in {"w", "a", "wd", "ad", "r", "closed"}
  BY <1>1
<1>6. QED
  BY <1>2, <1>3, <1>4, <1>5 DEF LinesIInv, LinesReadBack

LEMMA CloseTextKeeps == LinesIInv /\ CloseText => LinesIInv'
<1> SUFFICES ASSUME LinesIInv, CloseText PROVE LinesIInv'
  OBVIOUS
<1>1. /\ mode' = "closed" /\ lineRead' = NoCall /\ chars' = chars /\ cursor' = cursor
      /\ written' = written /\ taken' = taken
  BY DEF CloseText
<1>2. LinesLaid'
  BY <1>1 DEF LinesIInv, LinesLaid, AllFit
<1>3. QED
  BY <1>1, <1>2 DEF LinesIInv, LinesReadBack

\* A line that is written is laid behind the others.
LEMMA LineAdded ==
  ASSUME NEW C, NEW cs \in Seq(C), NEW lines \in Seq(Line), NEW P, Laid(cs, lines, P),
         NEW text \in Seq(C), NEW end \in Seq(C), NEW line \in Line, line.text = text, line.end = end
  PROVE  \E Q : /\ Laid(cs \o text \o end, Append(lines, line), Q)
                /\ \A i \in 0 .. Len(lines) : Q[i] = P[i]
<1>1. PICK n \in Nat, m \in Nat, a \in Nat, e \in Nat :
        n = Len(lines) /\ m = Len(cs) /\ a = Len(text) /\ e = Len(end)
  OBVIOUS
<1>2. PICK ds, all : ds = cs \o text \o end /\ all = Append(lines, line)
  OBVIOUS
<1>3. /\ Len(ds) = m + a + e /\ (\A k \in 1 .. m : ds[k] = cs[k])
      /\ (\A k \in 1 .. a : ds[m + k] = text[k]) /\ \A k \in 1 .. e : ds[m + a + k] = end[k]
  <2>1. PICK bs : bs = cs \o text
    OBVIOUS
  <2>2. bs \in Seq(C) /\ Len(bs) = m + a
    BY <1>1, <2>1
  <2>3. (\A k \in 1 .. m : bs[k] = cs[k]) /\ \A k \in 1 .. a : bs[m + k] = text[k]
    BY <1>1, <2>1
  <2>4. ds = bs \o end
    BY <1>2, <2>1
  <2>5. Len(ds) = m + a + e /\ (\A k \in 1 .. m + a : ds[k] = bs[k]) /\ \A k \in 1 .. e : ds[m + a + k] = end[k]
    <3>1. /\ Len(ds) = Len(bs) + Len(end)
          /\ \A k \in 1 .. Len(bs) + Len(end) : ds[k] = IF k <= Len(bs) THEN bs[k] ELSE end[k - Len(bs)]
      BY <2>2, <2>4, ConcatProperties
    <3>2. /\ Len(ds) = m + a + e
          /\ \A k \in 1 .. m + a + e : ds[k] = IF k <= m + a THEN bs[k] ELSE end[k - (m + a)]
      BY <1>1, <2>2, <3>1
    <3>3. \A k \in 1 .. m + a : k \in 1 .. m + a + e /\ k <= m + a
      OBVIOUS
    <3>4. \A k \in 1 .. e : /\ m + a + k \in 1 .. m + a + e /\ ~(m + a + k <= m + a)
                            /\ m + a + k - (m + a) = k
      OBVIOUS
    <3>5. \A k \in 1 .. m + a : ds[k] = bs[k]
      BY <3>2, <3>3, Zenon
    <3>6. ASSUME NEW k \in 1 .. e PROVE ds[m + a + k] = end[k]
      <4>1. PICK j \in 1 .. m + a + e : j = m + a + k /\ ~(j <= m + a) /\ j - (m + a) = k
        BY <3>4
      <4>2. ds[j] = IF j <= m + a THEN bs[j] ELSE end[j - (m + a)]
        BY <3>2, Zenon
      <4>3. QED
        BY <4>1, <4>2
    <3>7. QED
      BY <3>2, <3>5, <3>6
  <2>6. \A k \in 1 .. m : k \in 1 .. m + a
    OBVIOUS
  <2>7. \A k \in 1 .. a : m + k \in 1 .. m + a
    OBVIOUS
  <2>8. QED
    BY <2>3, <2>5, <2>6, <2>7
<1>4. Len(all) = n + 1 /\ all[n + 1] = line /\ \A i \in 1 .. n : all[i] = lines[i]
  BY <1>1, <1>2
<1>5. /\ P \in [0 .. n -> Nat] /\ P[0] = 0 /\ P[n] = m
      /\ \A i \in 1 .. n : P[i] = P[i - 1] + Len(lines[i].text) + Len(lines[i].end)
  BY <1>1 DEF Laid
<1>6. \A i \in 1 .. n :
        /\ \A k \in 1 .. Len(lines[i].text) : cs[P[i - 1] + k] = lines[i].text[k]
        /\ \A k \in 1 .. Len(lines[i].end) :
             cs[P[i - 1] + Len(lines[i].text) + k] = lines[i].end[k]
  BY <1>1 DEF Laid
<1>7. PICK Q : Q = [i \in 0 .. n + 1 |-> IF i = n + 1 THEN m + a + e ELSE P[i]]
  OBVIOUS
<1>8. /\ Q \in [0 .. n + 1 -> Nat] /\ Q[n + 1] = m + a + e /\ (\A i \in 0 .. n : Q[i] = P[i])
      /\ Q[0] = 0
  BY <1>5, <1>7
<1>9. ASSUME NEW i \in 1 .. n + 1
      PROVE  /\ Q[i] = Q[i - 1] + Len(all[i].text) + Len(all[i].end)
             /\ \A k \in 1 .. Len(all[i].text) : ds[Q[i - 1] + k] = all[i].text[k]
             /\ \A k \in 1 .. Len(all[i].end) :
                  ds[Q[i - 1] + Len(all[i].text) + k] = all[i].end[k]
  <2>1. CASE i = n + 1
    <3>1. Q[i - 1] = m /\ Q[i] = m + a + e
      <4>1. i - 1 = n /\ n \in 0 .. n
        BY <2>1
      <4>2. QED
        BY <1>5, <1>8, <2>1, <4>1
    <3>2. all[i].text = text /\ all[i].end = end
      BY <1>4, <2>1
    <3>3. Q[i] = Q[i - 1] + Len(all[i].text) + Len(all[i].end)
      BY <1>1, <3>1, <3>2, Zenon
    <3>4. QED
      BY <1>1, <1>3, <3>1, <3>2, <3>3, Zenon
  <2>2. CASE i # n + 1
    <3>1. i \in 1 .. n /\ i - 1 \in 0 .. n /\ i \in 0 .. n
      BY <2>2
    <3>2. Q[i] = P[i] /\ Q[i - 1] = P[i - 1] /\ all[i] = lines[i]
      BY <1>4, <1>8, <3>1
    <3>3. PICK x, y, u, w : x = lines[i].text /\ y = lines[i].end /\ u = Len(x) /\ w = Len(y)
      OBVIOUS
    <3>4. u \in Nat /\ w \in Nat
      <4>1. lines[i] \in Line
        BY <1>1, <3>1
      <4>2. Len(lines[i].text) \in Nat /\ Len(lines[i].end) \in Nat
        BY <4>1, LineParts
      <4>3. QED
        BY <3>3, <4>2
    <3>5. P[i] = P[i - 1] + u + w
      BY <1>5, <3>1, <3>3
    <3>6. P[i] <= m /\ P[i] \in Nat /\ P[i - 1] \in Nat
      <4>1. P[i] <= P[n]
        <5>1. P[n] \in Nat /\ n \in 0 .. n
          BY <1>5
        <5>2. \A j, k \in 0 .. Len(lines) : j <= k => P[j] <= P[k]
          BY LaidInOrder
        <5>3. i \in 0 .. Len(lines) /\ n \in 0 .. Len(lines) /\ i <= n
          BY <1>1, <3>1
        <5>4. QED
          BY <5>2, <5>3
      <4>2. QED
        BY <1>5, <3>1, <4>1
    <3>7. (\A k \in 1 .. u : cs[P[i - 1] + k] = x[k]) /\ \A k \in 1 .. w : cs[P[i - 1] + u + k] = y[k]
      BY <1>6, <3>1, <3>3, Zenon
    <3>8. (\A k \in 1 .. u : P[i - 1] + k \in 1 .. m) /\ \A k \in 1 .. w : P[i - 1] + u + k \in 1 .. m
      <4>1. PICK o \in Nat, q \in Nat, u1 \in Nat, w1 \in Nat :
              o = P[i - 1] /\ q = P[i] /\ u1 = u /\ w1 = w /\ q = o + u1 + w1 /\ q <= m
        BY <3>4, <3>5, <3>6
      <4>2. q = o + u1 + w1 /\ q <= m
        BY <4>1
      <4>3. (\A k \in 1 .. u1 : o + k \in 1 .. m) /\ \A k \in 1 .. w1 : o + u1 + k \in 1 .. m
        BY <4>2
      <4>4. QED
        BY <4>1, <4>3, Zenon
    <3>9. (\A k \in 1 .. u : ds[P[i - 1] + k] = x[k]) /\ \A k \in 1 .. w : ds[P[i - 1] + u + k] = y[k]
      BY <1>3, <3>7, <3>8, Zenon
    <3>10. QED
      BY <3>2, <3>3, <3>5, <3>9, Zenon
  <2>3. QED
    BY <2>1, <2>2
<1>10. Laid(ds, all, Q)
  <2>1. Q[Len(all)] = Len(ds)
    BY <1>3, <1>4, <1>8
  <2>2. QED
    BY <1>4, <1>8, <1>9, <2>1, Zenon DEF Laid
<1>11. QED
  BY <1>1, <1>2, <1>8, <1>10

LEMMA WriteLineKeeps == LinesIInv /\ (\E line \in LineTexts : WriteLine(line)) => LinesIInv'
<1> SUFFICES ASSUME LinesIInv, NEW text \in LineTexts, WriteLine(text) PROVE LinesIInv'
  OBVIOUS
<1>1. PICK end : end = EndOf(mode)
  OBVIOUS
<1>2. PICK line : line = [text |-> text, end |-> end]
  OBVIOUS
<1>3. /\ mode \in {"w", "a", "wd", "ad"} /\ mode' = mode /\ lineRead' = lineRead
      /\ chars' = chars \o text \o end /\ written' = Append(written, line)
      /\ cursor' = cursor /\ taken' = taken
  BY <1>1, <1>2 DEF WriteLine, Writing
<1>4. lineRead' = NoCall
  BY <1>3 DEF LinesIInv
<1>5. PICK C : C = LineChars \cup {CR, LF}
  OBVIOUS
<1>6. end \in Seq(C) /\ end \in {<<LF>>, <<CR, LF>>}
  <2>1. end \in {<<LF>>, <<CR, LF>>}
    BY <1>1 DEF EndOf
  <2>2. <<LF>> \in Seq(C) /\ <<CR, LF>> \in Seq(C)
    <3>1. CR \in C /\ LF \in C
      BY <1>5
    <3>2. QED
      BY <3>1
  <2>3. QED
    BY <2>1, <2>2
<1>7. line \in Line /\ line.text = text /\ line.end = end
  BY <1>2, <1>6 DEF Line
<1>8. text \in Seq(C)
  <2>1. text \in Seq(LineChars)
    BY LinesAssumption
  <2>2. QED
    BY <1>5, <2>1
<1>9. PICK cs, lines : cs = chars /\ lines = written /\ cs \in Seq(C) /\ lines \in Seq(Line)
  BY <1>5 DEF LinesIInv
<1>10. PICK P : Laid(cs, lines, P) /\ (AllFit => taken \in 0 .. Len(lines) /\ cursor = P[taken])
  BY <1>9 DEF LinesIInv, LinesLaid
<1>11. PICK Q : Laid(cs \o text \o end, Append(lines, line), Q) /\ \A i \in 0 .. Len(lines) : Q[i] = P[i]
  BY <1>6, <1>7, <1>8, <1>9, <1>10, LineAdded
<1>12. AllFit' => AllFit
  <2>1. Len(written') = Len(written) + 1 /\ \A i \in 1 .. Len(written) : written'[i] = written[i]
    BY <1>3, <1>7, <1>9
  <2>2. DOMAIN written = 1 .. Len(written) /\ DOMAIN written' = 1 .. Len(written) + 1
    BY <1>3, <1>7, <1>9
  <2>3. Len(written) \in Nat /\ \A i \in 1 .. Len(written) : i \in 1 .. Len(written) + 1
    BY <1>9
  <2>4. QED
    BY <2>1, <2>2, <2>3 DEF AllFit, Fits
<1>13. Laid(chars', written', Q)
  BY <1>3, <1>9, <1>11, Zenon
<1>14. AllFit' => taken' \in 0 .. Len(written') /\ cursor' = Q[taken']
  <2>1. Len(written') = Len(lines) + 1 /\ Len(lines) \in Nat
    BY <1>3, <1>7, <1>9
  <2>2. QED
    BY <1>3, <1>10, <1>11, <1>12, <2>1
<1>15. LinesLaid'
  BY <1>13, <1>14 DEF LinesLaid
<1>16. chars' \in Seq(C) /\ written' \in Seq(Line)
  <2>1. PICK bs : bs = cs \o text
    OBVIOUS
  <2>2. bs \in Seq(C)
    BY <1>8, <1>9, <2>1
  <2>3. chars' = bs \o end
    BY <1>3, <1>9, <2>1
  <2>4. QED
    BY <1>3, <1>6, <1>7, <1>9, <2>2, <2>3
<1>17. QED
  BY <1>3, <1>4, <1>5, <1>15, <1>16 DEF LinesIInv, LinesReadBack

\* From where a reader is, up to n lines are read.
LEMMA ReadFromHere ==
  ASSUME LinesIInv, AllFit, NEW n \in Nat
  PROVE  \E P, t, m, texts :
           /\ Laid(chars, written, P) /\ t \in 0 .. Len(written) /\ t = taken
           /\ m = Least(n, Len(written) - t) /\ texts = NextTexts(written, t, n)
           /\ LinesFrom(cursor, n) = [at |-> P[t + m], lines |-> texts]
           /\ Len(texts) = m /\ t + m \in 0 .. Len(written)
<1>1. PICK P : Laid(chars, written, P) /\ taken \in 0 .. Len(written) /\ cursor = P[taken]
  BY DEF LinesIInv, LinesLaid
<1>2. PICK t \in 0 .. Len(written) : t = taken
  BY <1>1
<1>3. PICK m : m = Least(n, Len(written) - t)
  OBVIOUS
<1>4. PICK texts : texts = NextTexts(written, t, n)
  OBVIOUS
<1>5. LinesFrom(P[t], n) = [at |-> P[t + Least(n, Len(written) - t)], lines |-> NextTexts(written, t, n)]
  BY <1>1, ReadIs
<1>6. Len(written) \in Nat
  BY DEF LinesIInv
<1>7. m \in Nat /\ t + m \in 0 .. Len(written)
  BY <1>3, <1>6 DEF Least
<1>8. texts = [k \in 1 .. m |-> written[t + k].text]
  BY <1>3, <1>4, Zenon DEF NextTexts
<1>9. Len(texts) = m
  BY <1>7, <1>8
<1>10. LinesFrom(cursor, n) = [at |-> P[t + m], lines |-> texts]
  BY <1>1, <1>2, <1>3, <1>4, <1>5, Zenon
<1>11. QED
  BY <1>1, <1>2, <1>3, <1>4, <1>7, <1>9, <1>10

LEMMA ReadLineKeeps == LinesIInv /\ ReadLine => LinesIInv'
<1> SUFFICES ASSUME LinesIInv, ReadLine PROVE LinesIInv'
  OBVIOUS
<1>1. /\ mode = "r" /\ mode' = mode /\ chars' = chars /\ written' = written
      /\ cursor' = LinesFrom(cursor, 1).at
      /\ lineRead' = [call |-> "ReadLine", lines |-> LinesFrom(cursor, 1).lines]
      /\ taken' = taken + Len(LinesFrom(cursor, 1).lines)
  BY DEF ReadLine
<1>2. AllFit' <=> AllFit
  BY <1>1 DEF AllFit
<1>3. ASSUME AllFit
      PROVE  /\ \E P : Laid(chars, written, P) /\ taken' \in 0 .. Len(written) /\ cursor' = P[taken']
             /\ taken' <= Len(written)
             /\ lineRead'.lines # <<>> => lineRead'.lines = <<written[taken'].text>>
             /\ lineRead'.lines = <<>> => taken' = Len(written)
  <2>1. PICK P, t, m, texts :
           /\ Laid(chars, written, P) /\ t \in 0 .. Len(written) /\ t = taken
           /\ m = Least(1, Len(written) - t) /\ texts = NextTexts(written, t, 1)
           /\ LinesFrom(cursor, 1) = [at |-> P[t + m], lines |-> texts]
           /\ Len(texts) = m /\ t + m \in 0 .. Len(written)
    BY <1>3, ReadFromHere
  <2>2. taken' = t + m /\ cursor' = P[t + m] /\ lineRead'.lines = texts
    BY <1>1, <2>1
  <2>3. PICK N \in Nat : N = Len(written)
    BY DEF LinesIInv
  <2>4. texts = [k \in 1 .. m |-> written[t + k].text]
    BY <2>1, Zenon DEF NextTexts
  <2>5. CASE t < N
    <3>1. m = 1
      BY <2>1, <2>3, <2>5 DEF Least
    <3>2. texts = <<written[t + 1].text>>
      BY <2>4, <3>1
    <3>3. texts # <<>>
      BY <3>2
    <3>4. QED
      BY <2>1, <2>2, <2>3, <3>1, <3>2, <3>3
  <2>6. CASE t = N
    <3>1. m = 0 /\ t + 0 = N
      BY <2>1, <2>3, <2>6 DEF Least
    <3>2. texts = <<>>
      BY <2>4, <3>1
    <3>3. QED
      BY <2>1, <2>2, <2>3, <3>1, <3>2
  <2>7. QED
    BY <2>1, <2>3, <2>5, <2>6
<1>4. LinesLaid'
  <2>1. CASE AllFit
    BY <1>1, <1>3, <2>1 DEF LinesLaid
  <2>2. CASE ~AllFit
    <3>1. PICK P : Laid(chars, written, P)
      BY DEF LinesIInv, LinesLaid
    <3>2. QED
      BY <1>1, <1>2, <2>2, <3>1 DEF LinesLaid
  <2>3. QED
    BY <2>1, <2>2
<1>5. LinesReadBack'
  <2>1. lineRead'.call = "ReadLine" /\ ~(lineRead'.call = "vector")
    BY <1>1
  <2>2. (\A i \in DOMAIN written : Fits(written[i]))' => AllFit
    BY <1>1 DEF AllFit, Fits
  <2>3. QED
    BY <1>1, <1>3, <2>1, <2>2 DEF LinesReadBack
<1>6. QED
  BY <1>1, <1>4, <1>5 DEF LinesIInv

\* That the functions G[1], ..., G[n] of a set to itself can be iterated
Iterable(S, n, base, G) ==
  \E f \in [0 .. n -> S] : f[0] = base /\ \A i \in 1 .. n : f[i] = G[i][f[i - 1]]

LEMMA Iterated ==
  ASSUME NEW S, NEW n \in Nat, NEW base \in S, NEW G \in [1 .. n -> [S -> S]]
  PROVE  Iterable(S, n, base, G)
<1> DEFINE Begun(m, f) == f[0] = base /\ \A i \in 1 .. m : f[i] = G[i][f[i - 1]]
           Bad == {m \in 0 .. n : ~ \E f \in [0 .. m -> S] : Begun(m, f)}
<1>1. Bad = {}
  <2> SUFFICES ASSUME Bad # {} PROVE FALSE
    OBVIOUS
  <2>1. Bad \in SUBSET Nat
    OBVIOUS
  <2>2. PICK m \in Bad : \A k \in Bad : m <= k
    BY <2>1, LeastPosition
  <2>3. m # 0
    <3>1. [k \in 0 .. 0 |-> base] \in [0 .. 0 -> S] /\ Begun(0, [k \in 0 .. 0 |-> base])
      OBVIOUS
    <3>2. QED
      BY <3>1
  <2>4. m - 1 \in 0 .. n /\ m - 1 \notin Bad
    <3>1. m \in 1 .. n
      BY <2>2, <2>3
    <3>2. m - 1 \in 0 .. n /\ ~ (m <= m - 1)
      BY <3>1
    <3> HIDE DEF Bad
    <3>3. QED
      BY <2>2, <3>2
  <2>5. PICK f \in [0 .. m - 1 -> S] : Begun(m - 1, f)
    BY <2>4
  <2> DEFINE g == [k \in 0 .. m |-> IF k = m THEN G[m][f[m - 1]] ELSE f[k]]
  <2>6. G[m][f[m - 1]] \in S
    BY <2>3
  <2>7. g \in [0 .. m -> S]
    BY <2>6
  <2>8. Begun(m, g)
    <3>1. g[0] = base
      BY <2>3, <2>5
    <3>2. ASSUME NEW i \in 1 .. m PROVE g[i] = G[i][g[i - 1]]
      <4>1. g[i - 1] = f[i - 1]
        BY <2>3
      <4>2. CASE i = m
        BY <4>1, <4>2
      <4>3. CASE i # m
        BY <4>1, <4>3, <2>5
      <4>4. QED
        BY <4>2, <4>3
    <3>3. QED
      BY <3>1, <3>2
  <2>9. QED
    BY <2>7, <2>8, <2>2
<1>2. n \notin Bad
  BY <1>1
<1>3. QED
  BY <1>2 DEF Iterable

Chars == LineChars \cup {CR, LF}

\* What ReadLastLinesIntoVector returns of a line, if it is not empty
Word(line) == line.text \o Front(line.end)

LEMMA WordParts ==
  ASSUME NEW line \in Line
  PROVE  /\ Word(line) \in Seq(Chars) /\ Len(Word(line)) \in Nat
         /\ Len(Word(line)) + 1 = Len(line.text) + Len(line.end)
         /\ \A k \in 1 .. Len(Word(line)) :
              /\ Word(line)[k] # LF
              /\ k <= Len(line.text) => Word(line)[k] = line.text[k]
              /\ k > Len(line.text) => k = Len(line.text) + 1 /\ Word(line)[k] = line.end[1] /\ Len(line.end) = 2
         /\ Len(line.end) \in {1, 2} /\ line.end[Len(line.end)] = LF
<1>1. PICK text, end : text = line.text /\ end = line.end
  OBVIOUS
<1>2. /\ text \in Seq(LineChars) /\ \A k \in 1 .. Len(text) : text[k] \notin {CR, LF}
      /\ \/ end = <<LF>> /\ Len(end) = 1 /\ end[1] = LF
         \/ end = <<CR, LF>> /\ Len(end) = 2 /\ end[1] = CR /\ end[2] = LF
  BY <1>1, LineParts
<1>3. PICK word : word = text \o Front(end)
  OBVIOUS
<1>4. text \in Seq(Chars) /\ Len(text) \in Nat
  <2>1. \A k \in 1 .. Len(text) : text[k] \in Chars
    BY <1>2 DEF Chars
  <2>2. QED
    BY <1>2, <2>1
<1>5. CASE end = <<LF>> /\ Len(end) = 1 /\ end[1] = LF
  <2>1. Front(end) = <<>>
    BY <1>5 DEF Front
  <2>2. word = text
    BY <1>3, <1>4, <2>1
  <2>3. Word(line) = text
    BY <1>1, <1>3, <2>2, Zenon DEF Word
  <2>4. \A k \in 1 .. Len(text) : text[k] # LF /\ ~(k > Len(text))
    BY <1>2, <1>4
  <2>5. QED
    BY <1>1, <1>4, <1>5, <2>3, <2>4
<1>6. CASE end = <<CR, LF>> /\ Len(end) = 2 /\ end[1] = CR /\ end[2] = LF
  <2>1. Front(end) = <<CR>>
    <3>1. Front(end) = SubSeq(<<CR, LF>>, 1, 1)
      BY <1>6 DEF Front
    <3>2. PICK x : x = SubSeq(<<CR, LF>>, 1, 1)
      OBVIOUS
    <3>3. <<CR, LF>> \in Seq({CR, LF})
      OBVIOUS
    <3>4. x \in Seq({CR, LF}) /\ Len(x) = 1 /\ x[1] = CR
      BY <3>2, <3>3
    <3>5. x = <<CR>>
      <4>1. x \in [1 .. 1 -> {CR, LF}]
        BY <3>4
      <4>2. x = [k \in 1 .. 1 |-> x[k]] /\ \A k \in 1 .. 1 : x[k] = CR
        BY <3>4, <4>1
      <4>3. <<CR>> = [k \in 1 .. 1 |-> CR]
        OBVIOUS
      <4>4. QED
        BY <4>2, <4>3, Zenon
    <3>6. QED
      BY <3>1, <3>2, <3>5
  <2>2. CR \in Chars /\ CR # LF
    BY DEF Chars, CR, LF
  <2>3. /\ word \in Seq(Chars) /\ Len(word) = Len(text) + 1 /\ word[Len(text) + 1] = CR
        /\ \A k \in 1 .. Len(text) : word[k] = text[k]
    BY <1>3, <1>4, <2>1, <2>2
  <2>4. \A k \in 1 .. Len(word) : k \in 1 .. Len(text) \/ k = Len(text) + 1
    BY <1>4, <2>3
  <2>5. \A k \in 1 .. Len(word) : word[k] # LF
    BY <1>2, <2>2, <2>3, <2>4
  <2>6. word = Word(line)
    BY <1>1, <1>3, Zenon DEF Word
  <2>7. QED
    BY <1>1, <1>4, <1>6, <2>3, <2>4, <2>5, <2>6
<1>7. QED
  BY <1>2, <1>5, <1>6

LEMMA WordLaid ==
  ASSUME NEW lines \in Seq(Line), NEW cs, NEW P, Laid(cs, lines, P), NEW i \in 1 .. Len(lines)
  PROVE  /\ P[i] = P[i - 1] + Len(Word(lines[i])) + 1
         /\ \A k \in 1 .. Len(Word(lines[i])) : cs[P[i - 1] + k] = Word(lines[i])[k]
         /\ cs[P[i]] = LF
<1>1. PICK line \in Line : line = lines[i]
  OBVIOUS
<1>2. PICK word, text, end, n, a, e :
        word = Word(line) /\ text = line.text /\ end = line.end
        /\ n = Len(word) /\ a = Len(text) /\ e = Len(end)
  OBVIOUS
<1>3. /\ n \in Nat /\ n + 1 = a + e /\ e \in {1, 2} /\ end[e] = LF
      /\ \A k \in 1 .. n : (k <= a => word[k] = text[k]) /\ (k > a => k = a + 1 /\ word[k] = end[1] /\ e = 2)
  BY <1>2, WordParts, Zenon
<1>4. a \in Nat
  BY <1>2, LineParts
<1>5. PICK p, q : p = P[i - 1] /\ q = P[i]
  OBVIOUS
<1>6. p \in Nat /\ q \in Nat
  <2>1. PICK m \in Nat : m = Len(lines)
    OBVIOUS
  <2>2. P \in [0 .. m -> Nat]
    BY <2>1 DEF Laid
  <2>3. i - 1 \in 0 .. m /\ i \in 0 .. m
    BY <2>1
  <2>4. QED
    BY <1>5, <2>2, <2>3
<1>7. /\ q = p + a + e
      /\ \A k \in 1 .. a : cs[p + k] = text[k]
      /\ \A k \in 1 .. e : cs[p + a + k] = end[k]
  BY <1>1, <1>2, <1>5, Zenon DEF Laid
<1>8. q = p + n + 1
  BY <1>3, <1>4, <1>6, <1>7
<1>9. ASSUME NEW k \in 1 .. n PROVE cs[p + k] = word[k]
  <2>1. CASE k <= a
    BY <1>3, <1>4, <1>7, <2>1
  <2>2. CASE k > a
    <3>1. k = a + 1 /\ word[k] = end[1] /\ e = 2
      BY <1>3, <2>2
    <3>2. cs[p + a + 1] = end[1] /\ p + a + 1 = p + k
      BY <1>4, <1>6, <1>7, <3>1
    <3>3. QED
      BY <3>1, <3>2
  <2>3. QED
    BY <1>3, <1>4, <2>1, <2>2
<1>10. cs[q] = LF
  <2>1. e \in 1 .. e /\ p + a + e = q
    BY <1>3, <1>4, <1>6, <1>7
  <2>2. QED
    BY <1>3, <1>7, <2>1
<1>11. QED
  BY <1>1, <1>2, <1>5, <1>8, <1>9, <1>10, Zenon

\* The tables that Said, LengthOf and Split are read from
SaidBy(T, W, n) ==
  /\ T[0] = <<>>
  /\ \A i \in 1 .. n : T[i] = IF W[i] = <<>> THEN T[i - 1] ELSE Append(T[i - 1], W[i])

WordsOf(lines, n, W) ==
  lines \in Seq(Line) /\ n \in Nat /\ n = Len(lines) /\ W = [i \in 1 .. n |-> Word(lines[i])]

LEMMA SaidIs ==
  ASSUME NEW lines, NEW n, NEW W, WordsOf(lines, n, W)
  PROVE  \E T : SaidBy(T, W, n) /\ Said(lines) = T[n]
<1> USE DEF WordsOf
<1>1. \A i \in 1 .. n : W[i] \in Seq(Chars) /\ W[i] = Word(lines[i])
  <2>1. \A i \in 1 .. n : lines[i] \in Line
    OBVIOUS
  <2>2. QED
    BY <2>1, WordParts
<1>2. PICK S : S = Seq(Seq(Chars))
  OBVIOUS
<1>3. <<>> \in S /\ \A s \in S : \A w \in Seq(Chars) : Append(s, w) \in S
  <2>1. \A s \in Seq(Seq(Chars)) : \A w \in Seq(Chars) : Append(s, w) \in Seq(Seq(Chars))
    OBVIOUS
  <2>2. QED
    BY <1>2, <2>1
<1> DEFINE G == [i \in 1 .. n |-> [s \in S |-> IF W[i] = <<>> THEN s ELSE Append(s, W[i])]]
           Table(T) == [i \in 0 .. n |->
                          IF i = 0 THEN <<>>
                          ELSE LET before == T[i - 1] word == lines[i].text \o Front(lines[i].end)
                               IN IF word = <<>> THEN before ELSE Append(before, word)]
<1>4. G \in [1 .. n -> [S -> S]]
  BY <1>1, <1>3
<1>5. PICK f \in [0 .. n -> S] : f[0] = <<>> /\ \A i \in 1 .. n : f[i] = G[i][f[i - 1]]
  <2> HIDE DEF G
  <2>1. Iterable(S, n, <<>>, G)
    BY <1>3, <1>4, Iterated
  <2>2. QED
    BY <2>1 DEF Iterable
<1>6. \A i \in 1 .. n : f[i] = IF W[i] = <<>> THEN f[i - 1] ELSE Append(f[i - 1], W[i])
  <2>1. \A i \in 1 .. n : i - 1 \in 0 .. n
    OBVIOUS
  <2>2. \A i \in 1 .. n : f[i - 1] \in S
    BY <2>1
  <2>3. QED
    BY <1>5, <2>2
<1>7. f = Table(f)
  <2>1. f = [i \in 0 .. n |-> f[i]]
    OBVIOUS
  <2>2. ASSUME NEW i \in 0 .. n
        PROVE  f[i] = IF i = 0 THEN <<>>
                      ELSE LET before == f[i - 1] word == lines[i].text \o Front(lines[i].end)
                           IN IF word = <<>> THEN before ELSE Append(before, word)
    <3>1. CASE i = 0
      BY <1>5, <3>1
    <3>2. CASE i # 0
      <4>1. i \in 1 .. n
        BY <3>2
      <4>2. QED
        BY <1>1, <1>6, <3>2, <4>1, Zenon DEF Word
    <3>3. QED
      BY <3>1, <3>2
  <2>3. QED
    BY <2>1, <2>2, Zenon
<1>8. PICK T : T = CHOOSE h : h = Table(h)
  OBVIOUS
<1>9. T = Table(T)
  <2> HIDE DEF Table
  <2>1. QED
    BY <1>7, <1>8, Zenon
<1>10. \A i \in 0 .. n :
         T[i] = IF i = 0 THEN <<>>
                ELSE LET before == T[i - 1] word == lines[i].text \o Front(lines[i].end)
                     IN IF word = <<>> THEN before ELSE Append(before, word)
  BY <1>9, Zenon
<1>11. SaidBy(T, W, n)
  <2>1. T[0] = <<>>
    BY <1>10
  <2>2. ASSUME NEW i \in 1 .. n
        PROVE  T[i] = IF W[i] = <<>> THEN T[i - 1] ELSE Append(T[i - 1], W[i])
    <3>1. i \in 0 .. n /\ i # 0
      OBVIOUS
    <3>2. QED
      BY <1>1, <1>10, <3>1, Zenon DEF Word
  <2>3. QED
    BY <2>1, <2>2 DEF SaidBy
<1>12. Said(lines) = T[n]
  BY <1>8, Zenon DEF Said
<1>13. QED
  BY <1>11, <1>12

LEMMA LengthIs ==
  ASSUME NEW lines \in Seq(Line), NEW n \in Nat, n = Len(lines),
         NEW L \in [0 .. n -> Nat], L[0] = 0,
         \A i \in 1 .. n : L[i] = L[i - 1] + Len(lines[i].text) + Len(lines[i].end)
  PROVE  LengthOf(lines) = L[n]
<1> DEFINE Table(T) == [i \in 0 .. n |->
                          IF i = 0 THEN 0 ELSE T[i - 1] + Len(lines[i].text) + Len(lines[i].end)]
<1>1. L = Table(L)
  <2>1. L = [i \in 0 .. n |-> L[i]]
    OBVIOUS
  <2>2. ASSUME NEW i \in 0 .. n
        PROVE  L[i] = IF i = 0 THEN 0 ELSE L[i - 1] + Len(lines[i].text) + Len(lines[i].end)
    <3>1. i = 0 \/ (i \in 1 .. n /\ i # 0)
      OBVIOUS
    <3>2. QED
      BY <3>1, Zenon
  <2>3. QED
    BY <2>1, <2>2, Zenon
<1>2. PICK T : T = CHOOSE h : h = Table(h)
  OBVIOUS
<1>3. T = Table(T)
  <2> HIDE DEF Table
  <2>1. QED
    BY <1>1, <1>2, Zenon
<1>4. \A i \in 0 .. n : T[i] = IF i = 0 THEN 0 ELSE T[i - 1] + Len(lines[i].text) + Len(lines[i].end)
  BY <1>3, Zenon
<1> DEFINE Good == {i \in 0 .. n : T[i] = L[i]}
<1>5. 0 .. n \subseteq Good
  <2>1. 0 \in Good
    BY <1>4
  <2>2. ASSUME NEW i \in 1 .. n, i - 1 \in Good PROVE i \in Good
    <3>1. i \in 0 .. n /\ i # 0
      OBVIOUS
    <3>2. T[i - 1] = L[i - 1]
      BY <2>2, Zenon
    <3>3. T[i] = L[i]
      BY <1>4, <3>1, <3>2, Zenon
    <3>4. QED
      BY <3>1, <3>3
  <2> HIDE DEF Good
  <2>3. QED
    BY <2>1, <2>2, Upward
<1>6. T[n] = L[n]
  <2>1. n \in 0 .. n
    OBVIOUS
  <2>2. QED
    BY <1>5, <2>1
<1>7. LengthOf(lines) = T[n]
  BY <1>2, Zenon DEF LengthOf
<1>8. QED
  BY <1>6, <1>7

SplitBy(h, contents, m) ==
  /\ h[0] = [parts |-> <<>>, part |-> <<>>]
  /\ \A i \in 1 .. m :
       h[i] = IF contents[i] = LF THEN [parts |-> WithPart(h[i - 1]), part |-> <<>>]
              ELSE [parts |-> h[i - 1].parts, part |-> Append(h[i - 1].part, contents[i])]

LEMMA SplitIs ==
  ASSUME NEW contents \in Seq(Chars), NEW m \in Nat, m = Len(contents)
  PROVE  \E h : SplitBy(h, contents, m) /\ Split(contents) = WithPart(h[m])
<1>1. PICK S : S = [parts : Seq(Seq(Chars)), part : Seq(Chars)]
  OBVIOUS
<1>2. PICK base : base = [parts |-> <<>>, part |-> <<>>]
  OBVIOUS
<1>3. base \in S
  BY <1>1, <1>2
<1> DEFINE After(s, c) == IF c = LF THEN [parts |-> WithPart(s), part |-> <<>>]
                          ELSE [parts |-> s.parts, part |-> Append(s.part, c)]
           G == [i \in 1 .. m |-> [s \in S |-> After(s, contents[i])]]
           Table(T) == [i \in 0 .. m |->
                          IF i = 0 THEN [parts |-> <<>>, part |-> <<>>]
                          ELSE LET so == T[i - 1] IN
                               IF contents[i] = LF THEN [parts |-> WithPart(so), part |-> <<>>]
                               ELSE [parts |-> so.parts, part |-> Append(so.part, contents[i])]]
<1>4. ASSUME NEW s \in S, NEW c \in Chars PROVE After(s, c) \in S
  <2>1. PICK x \in Seq(Seq(Chars)), y \in Seq(Chars) : s = [parts |-> x, part |-> y]
    BY <1>1
  <2>2. Append(x, y) \in Seq(Seq(Chars)) /\ Append(y, c) \in Seq(Chars)
    OBVIOUS
  <2>3. WithPart(s) \in Seq(Seq(Chars))
    BY <2>1, <2>2 DEF WithPart
  <2>4. [parts |-> s.parts, part |-> Append(s.part, c)] = [parts |-> x, part |-> Append(y, c)]
    BY <2>1
  <2>5. QED
    BY <1>1, <2>2, <2>3, <2>4
<1>5. G \in [1 .. m -> [S -> S]]
  <2>1. \A i \in 1 .. m : contents[i] \in Chars
    OBVIOUS
  <2> HIDE DEF After
  <2>2. QED
    BY <1>4, <2>1
<1>6. PICK f \in [0 .. m -> S] : f[0] = base /\ \A i \in 1 .. m : f[i] = G[i][f[i - 1]]
  <2> HIDE DEF G
  <2>1. Iterable(S, m, base, G)
    BY <1>3, <1>5, Iterated
  <2>2. QED
    BY <2>1 DEF Iterable
<1>7. \A i \in 1 .. m : f[i] = After(f[i - 1], contents[i])
  <2>1. \A i \in 1 .. m : i - 1 \in 0 .. m
    OBVIOUS
  <2>2. \A i \in 1 .. m : f[i - 1] \in S
    BY <2>1
  <2> HIDE DEF After
  <2>3. QED
    BY <1>6, <2>2
<1>8. f = Table(f)
  <2>1. f = [i \in 0 .. m |-> f[i]]
    OBVIOUS
  <2>2. ASSUME NEW i \in 0 .. m
        PROVE  f[i] = IF i = 0 THEN [parts |-> <<>>, part |-> <<>>]
                      ELSE LET so == f[i - 1] IN
                           IF contents[i] = LF THEN [parts |-> WithPart(so), part |-> <<>>]
                           ELSE [parts |-> so.parts, part |-> Append(so.part, contents[i])]
    <3>1. i = 0 \/ (i \in 1 .. m /\ i # 0)
      OBVIOUS
    <3>2. CASE i = 0
      BY <1>2, <1>6, <3>2, Zenon
    <3>3. CASE i \in 1 .. m /\ i # 0
      BY <1>2, <1>6, <1>7, <3>3, Zenon
    <3>4. QED
      BY <3>1, <3>2, <3>3
  <2>3. QED
    BY <2>1, <2>2, Zenon
<1>9. PICK h : h = CHOOSE T : T = Table(T)
  OBVIOUS
<1>10. h = Table(h)
  <2> HIDE DEF Table
  <2>1. QED
    BY <1>8, <1>9, Zenon
<1>11. \A i \in 0 .. m :
         h[i] = IF i = 0 THEN [parts |-> <<>>, part |-> <<>>]
                ELSE LET so == h[i - 1] IN
                     IF contents[i] = LF THEN [parts |-> WithPart(so), part |-> <<>>]
                     ELSE [parts |-> so.parts, part |-> Append(so.part, contents[i])]
  BY <1>10, Zenon
<1>12. SplitBy(h, contents, m)
  <2>1. h[0] = [parts |-> <<>>, part |-> <<>>]
    BY <1>11, 0 \in 0 .. m, Zenon
  <2>2. ASSUME NEW i \in 1 .. m
        PROVE  h[i] = IF contents[i] = LF THEN [parts |-> WithPart(h[i - 1]), part |-> <<>>]
                      ELSE [parts |-> h[i - 1].parts, part |-> Append(h[i - 1].part, contents[i])]
    <3>1. i \in 0 .. m /\ i # 0
      OBVIOUS
    <3>2. QED
      BY <1>11, <3>1, Zenon
  <2>3. QED
    BY <2>1, <2>2, Zenon DEF SplitBy
<1>13. Split(contents) = WithPart(h[m])
  BY <1>9, Zenon DEF Split
<1>14. QED
  BY <1>12, <1>13

\* Splitting goes over a word that has no end of a line in it.
WordAt(sub, m, w, l, q) ==
  /\ m \in Nat /\ w \in Seq(Chars) /\ l \in Nat /\ l = Len(w) /\ q \in Nat /\ q + l <= m
  /\ \A j \in 1 .. l : sub[q + j] = w[j] /\ w[j] # LF

Found(h, q, x, p) == h[q] = [parts |-> x, part |-> p]

LEMMA WordSplit ==
  ASSUME NEW sub, NEW m, NEW h, SplitBy(h, sub, m), NEW w, NEW l, NEW q, WordAt(sub, m, w, l, q),
         NEW x, Found(h, q, x, <<>>)
  PROVE  Found(h, q + l, x, w)
<1> SUFFICES ASSUME h[q] = [parts |-> x, part |-> <<>>], m \in Nat, w \in Seq(Chars), l \in Nat, l = Len(w), q \in Nat, q + l <= m,
                    \A j \in 1 .. l : sub[q + j] = w[j] /\ w[j] # LF
             PROVE  h[q + l] = [parts |-> x, part |-> w]
  BY Zenon DEF WordAt, Found
<1> DEFINE Good == {j \in 0 .. l : h[q + j] = [parts |-> x, part |-> SubSeq(w, 1, j)]}
<1>1. 0 \in Good
  <2>1. q + 0 = q /\ SubSeq(w, 1, 0) = <<>>
    OBVIOUS
  <2>2. QED
    BY <2>1
<1>2. ASSUME NEW j \in 1 .. l, j - 1 \in Good PROVE j \in Good
  <2>1. PICK i \in Nat : i = j - 1 /\ j = i + 1
    OBVIOUS
  <2>2. PICK p \in Nat : p = q + j /\ p - 1 = q + i
    BY <2>1
  <2>3. p \in 1 .. m
    BY <2>1, <2>2
  <2>4. h[p] = IF sub[p] = LF THEN [parts |-> WithPart(h[p - 1]), part |-> <<>>]
               ELSE [parts |-> h[p - 1].parts, part |-> Append(h[p - 1].part, sub[p])]
    BY <2>3, Zenon DEF SplitBy
  <2>5. sub[p] = w[j] /\ sub[p] # LF
    BY <2>2
  <2>6. PICK u : u = SubSeq(w, 1, i)
    OBVIOUS
  <2>7. h[p - 1] = [parts |-> x, part |-> u]
    BY <1>2, <2>1, <2>2, <2>6
  <2>8. h[p] = [parts |-> x, part |-> Append(u, w[j])]
    BY <2>4, <2>5, <2>7
  <2>9. Append(u, w[j]) = SubSeq(w, 1, j)
    <3>1. PICK v : v = SubSeq(w, 1, j)
      OBVIOUS
    <3>2. v \in Seq(Chars) /\ Len(v) = j /\ \A k \in 1 .. j : v[k] = w[k]
      BY <3>1
    <3>3. u \in Seq(Chars) /\ Len(u) = i /\ \A k \in 1 .. i : u[k] = w[k]
      BY <2>1, <2>6
    <3>4. PICK y : y = Append(u, w[j])
      OBVIOUS
    <3>5. w[j] \in Chars
      OBVIOUS
    <3>6. y \in Seq(Chars) /\ Len(y) = j /\ y[j] = w[j] /\ \A k \in 1 .. i : y[k] = u[k]
      BY <2>1, <3>3, <3>4, <3>5
    <3>7. \A k \in 1 .. j : k \in 1 .. i \/ k = j
      BY <2>1
    <3>8. \A k \in 1 .. j : y[k] = v[k]
      BY <3>2, <3>3, <3>6, <3>7
    <3>9. y = [k \in 1 .. j |-> y[k]] /\ v = [k \in 1 .. j |-> v[k]]
      BY <3>2, <3>6
    <3>10. y = v
      BY <3>8, <3>9, Zenon
    <3>11. QED
      BY <3>1, <3>4, <3>10
  <2>10. QED
    BY <2>2, <2>8, <2>9
<1>3. l \in Good
  <2> HIDE DEF Good
  <2>1. 0 .. l \subseteq Good
    BY <1>1, <1>2, Upward
  <2>2. QED
    BY <2>1
<1>4. SubSeq(w, 1, l) = w
  OBVIOUS
<1>5. QED
  BY <1>3, <1>4

\* That a text is words with an end of a line behind each but the last, and one in
\* front perhaps
WordsIn(sub, m, W, Q, c, pre) ==
  /\ m \in Nat /\ c \in Nat \ {0} /\ pre \in {0, 1}
  /\ sub \in Seq(Chars) /\ m = Len(sub) /\ (pre = 1 => sub[1] = LF)
  /\ W \in [1 .. c -> Seq(Chars)] /\ Q \in [0 .. c -> Nat] /\ Q[0] = pre /\ Q[c] = m + 1
  /\ \A k \in 1 .. c - 1 : Q[k] <= m /\ sub[Q[k]] = LF
  /\ \A k \in 1 .. c :
       /\ Q[k] = Q[k - 1] + Len(W[k]) + 1
       /\ \A j \in 1 .. Len(W[k]) : sub[Q[k - 1] + j] = W[k][j] /\ W[k][j] # LF

\* SplitString finds the words that are not empty.
LEMMA WordsFound ==
  ASSUME NEW sub, NEW m, NEW W, NEW Q, NEW c, NEW pre, WordsIn(sub, m, W, Q, c, pre),
         NEW T, SaidBy(T, W, c)
  PROVE  Split(sub) = T[c]
<1>1. /\ m \in Nat /\ c \in Nat \ {0} /\ pre \in {0, 1}
      /\ sub \in Seq(Chars) /\ m = Len(sub) /\ (pre = 1 => sub[1] = LF)
      /\ W \in [1 .. c -> Seq(Chars)] /\ Q \in [0 .. c -> Nat] /\ Q[0] = pre /\ Q[c] = m + 1
  BY Zenon DEF WordsIn
<1>2. \A k \in 1 .. c - 1 : Q[k] <= m /\ sub[Q[k]] = LF
  BY Zenon DEF WordsIn
<1>3. PICK h : SplitBy(h, sub, m) /\ Split(sub) = WithPart(h[m])
  BY <1>1, SplitIs
<1>4. ASSUME NEW k \in 1 .. c, h[Q[k - 1]] = [parts |-> T[k - 1], part |-> <<>>]
      PROVE  /\ h[Q[k] - 1] = [parts |-> T[k - 1], part |-> W[k]]
             /\ WithPart(h[Q[k] - 1]) = T[k]
  <2>1. PICK w \in Seq(Chars), l \in Nat, q \in Nat, r \in Nat :
           w = W[k] /\ l = Len(w) /\ q = Q[k - 1] /\ r = Q[k]
    <3>1. k - 1 \in 0 .. c /\ k \in 0 .. c
      BY <1>1
    <3>2. W[k] \in Seq(Chars) /\ Q[k - 1] \in Nat /\ Q[k] \in Nat
      BY <1>1, <3>1
    <3>3. Len(W[k]) \in Nat
      BY <3>2
    <3>4. QED
      BY <3>2, <3>3
  <2>2. r = q + l + 1 /\ \A j \in 1 .. l : sub[q + j] = w[j] /\ w[j] # LF
    BY <2>1, Zenon DEF WordsIn
  <2>3. r <= m + 1
    <3>1. k = c \/ k \in 1 .. c - 1
      BY <1>1
    <3>2. Q[k] <= m \/ Q[k] = m + 1
      BY <1>1, <1>2, <3>1, Zenon
    <3>3. m \in Nat
      BY <1>1
    <3>4. QED
      BY <2>1, <3>2, <3>3
  <2>4. q + l <= m /\ q + l = r - 1
    <3>1. q + l + 1 <= m + 1 /\ m \in Nat
      BY <1>1, <2>2, <2>3
    <3>2. QED
      BY <2>2, <3>1
  <2>5. h[q] = [parts |-> T[k - 1], part |-> <<>>]
    BY <1>4, <2>1
  <2>6. h[q + l] = [parts |-> T[k - 1], part |-> w]
    <3>1. m \in Nat /\ SplitBy(h, sub, m)
      BY <1>1, <1>3
    <3>2. WordAt(sub, m, w, l, q)
      BY <2>1, <2>2, <2>4, <3>1, Zenon DEF WordAt
    <3>3. PICK x : x = T[k - 1]
      OBVIOUS
    <3>4. Found(h, q, x, <<>>)
      BY <2>5, <3>3, Zenon DEF Found
    <3>5. Found(h, q + l, x, w)
      BY <3>1, <3>2, <3>4, WordSplit, Zenon
    <3>6. QED
      BY <3>3, <3>5, Zenon DEF Found
  <2>7. T[k] = IF W[k] = <<>> THEN T[k - 1] ELSE Append(T[k - 1], W[k])
    BY Zenon DEF SaidBy
  <2>8. h[Q[k] - 1] = [parts |-> T[k - 1], part |-> W[k]]
    BY <2>1, <2>4, <2>6
  <2>9. WithPart([parts |-> T[k - 1], part |-> W[k]]) = T[k]
    BY <2>7 DEF WithPart
  <2>10. QED
    BY <2>8, <2>9
<1>5. T[0] = <<>> /\ h[0] = [parts |-> <<>>, part |-> <<>>]
  BY <1>3 DEF SaidBy, SplitBy
<1> DEFINE Good == {k \in 0 .. c - 1 : h[Q[k]] = [parts |-> T[k], part |-> <<>>]}
<1>6. 0 \in Good
  <2>1. CASE pre = 0
    BY <1>1, <1>5, <2>1
  <2>2. CASE pre = 1
    <3>1. 1 \in 1 .. m
      <4>1. m # 0
        <5>1. Q[1] = Q[0] + Len(W[1]) + 1 /\ W[1] \in Seq(Chars) /\ Q[1] <= m + 1
          <6>1. 1 \in 1 .. c
            BY <1>1
          <6>2. 1 = c \/ 1 \in 1 .. c - 1
            BY <1>1
          <6>3. Q[1] = Q[1 - 1] + Len(W[1]) + 1
            BY <6>1, Zenon DEF WordsIn
          <6>4. Q[1] <= m + 1
            BY <1>1, <1>2, <6>2
          <6>5. QED
            BY <1>1, <6>1, <6>3, <6>4
        <5>2. Len(W[1]) \in Nat
          BY <5>1
        <5>3. QED
          BY <1>1, <2>2, <5>1, <5>2
      <4>2. QED
        BY <1>1, <4>1
    <3>2. h[1] = IF sub[1] = LF THEN [parts |-> WithPart(h[1 - 1]), part |-> <<>>]
                 ELSE [parts |-> h[1 - 1].parts, part |-> Append(h[1 - 1].part, sub[1])]
      BY <1>3, <3>1, Zenon DEF SplitBy
    <3>3. WithPart(h[0]) = <<>>
      BY <1>5 DEF WithPart
    <3>4. h[1] = [parts |-> <<>>, part |-> <<>>]
      BY <1>1, <2>2, <3>2, <3>3
    <3>5. QED
      BY <1>1, <1>5, <2>2, <3>4
  <2>3. QED
    BY <1>1, <2>1, <2>2
<1>7. ASSUME NEW k \in 1 .. c - 1, k - 1 \in Good PROVE k \in Good
  <2>1. k \in 1 .. c /\ k \in 0 .. c - 1 /\ k \in 0 .. c
    BY <1>1
  <2>2. h[Q[k - 1]] = [parts |-> T[k - 1], part |-> <<>>]
    BY <1>7, Zenon
  <2>3. WithPart(h[Q[k] - 1]) = T[k]
    BY <1>4, <2>1, <2>2
  <2>4. PICK r \in Nat : r = Q[k] /\ r \in 1 .. m /\ sub[r] = LF
    <3>1. Q[k] <= m /\ sub[Q[k]] = LF /\ Q[k] \in Nat
      BY <1>1, <1>2, <2>1
    <3>2. Q[k] # 0
      <4>1. Q[k] = Q[k - 1] + Len(W[k]) + 1
        BY <2>1, Zenon DEF WordsIn
      <4>2. W[k] \in Seq(Chars) /\ k - 1 \in 0 .. c
        BY <1>1, <2>1
      <4>3. Len(W[k]) \in Nat
        BY <4>2
      <4>4. Q[k - 1] \in Nat
        BY <1>1, <4>2, Zenon
      <4>5. QED
        BY <4>1, <4>3, <4>4
    <3>3. QED
      BY <1>1, <3>1, <3>2
  <2>5. h[r] = IF sub[r] = LF THEN [parts |-> WithPart(h[r - 1]), part |-> <<>>]
               ELSE [parts |-> h[r - 1].parts, part |-> Append(h[r - 1].part, sub[r])]
    BY <1>3, <2>4, Zenon DEF SplitBy
  <2>6. h[r] = [parts |-> T[k], part |-> <<>>]
    BY <2>3, <2>4, <2>5
  <2>7. QED
    BY <2>1, <2>4, <2>6
<1>8. c - 1 \in Good
  <2> HIDE DEF Good
  <2>1. c - 1 \in Nat
    BY <1>1
  <2>2. 0 .. c - 1 \subseteq Good
    BY <1>6, <1>7, <2>1, Upward
  <2>3. QED
    BY <2>1, <2>2
<1>9. c \in 1 .. c /\ Q[c] - 1 = m
  BY <1>1
<1>10. WithPart(h[Q[c] - 1]) = T[c]
  BY <1>4, <1>8, <1>9
<1>11. QED
  BY <1>3, <1>9, <1>10

LaidOut(cs, lines, P, N) == lines \in Seq(Line) /\ Laid(cs, lines, P) /\ N \in Nat /\ N = Len(lines)

\* In a file of lines just the ends of lines are ends of lines.
LEMMA EndsOfLines ==
  ASSUME NEW lines, NEW cs, NEW P, NEW N, LaidOut(cs, lines, P, N), NEW q \in Nat, q # 0, q <= P[N]
  PROVE  cs[q] = LF <=> \E k \in 1 .. N : q = P[k]
<1> USE DEF LaidOut
<1>1. P \in [0 .. N -> Nat] /\ P[0] = 0
  BY DEF Laid
<1>2. ASSUME NEW k \in 1 .. N, q = P[k] PROVE cs[q] = LF
  BY <1>2, WordLaid
<1>3. ASSUME cs[q] = LF PROVE \E k \in 1 .. N : q = P[k]
  <2>1. PICK S : S = {k \in 0 .. N : q <= P[k]}
    OBVIOUS
  <2>2. N \in S /\ S \in SUBSET Nat
    BY <2>1
  <2>3. PICK k \in S : \A j \in S : k <= j
    BY <2>2, LeastPosition
  <2>4. k \in 0 .. N /\ q <= P[k] /\ k # 0
    BY <1>1, <2>1
  <2>5. k \in 1 .. N /\ k - 1 \in 0 .. N /\ ~(k <= k - 1)
    BY <2>4
  <2>6. k - 1 \notin S
    BY <2>3, <2>5
  <2>7. PICK word, n : word = Word(lines[k]) /\ n = Len(word)
    OBVIOUS
  <2>8. n \in Nat /\ \A j \in 1 .. n : word[j] # LF
    <3>1. lines[k] \in Line
      BY <2>5
    <3>2. QED
      BY <2>7, <3>1, WordParts
  <2>9. PICK p \in Nat, r \in Nat : p = P[k - 1] /\ r = P[k]
    BY <1>1, <2>5
  <2>10. r = p + n + 1 /\ \A j \in 1 .. n : cs[p + j] = word[j]
    <3>1. k \in 1 .. Len(lines)
      BY <2>5
    <3>2. /\ P[k] = P[k - 1] + Len(Word(lines[k])) + 1
          /\ \A j \in 1 .. Len(Word(lines[k])) : cs[P[k - 1] + j] = Word(lines[k])[j]
      BY <3>1, WordLaid
    <3>3. QED
      BY <2>7, <2>9, <3>2, Zenon
  <2>11. p < q /\ q <= r
    BY <2>1, <2>4, <2>5, <2>6, <2>9
  <2>12. q = r
    <3>1. SUFFICES ASSUME q # r PROVE FALSE
      OBVIOUS
    <3>2. PICK j \in 1 .. n : q = p + j
      <4>1. q - p \in 1 .. n /\ q = p + (q - p)
        BY <2>8, <2>10, <2>11, <3>1
      <4>2. QED
        BY <4>1
    <3>3. cs[q] # LF
      BY <2>8, <2>10, <3>2
    <3>4. QED
      BY <1>3, <3>3
  <2>13. QED
    BY <2>5, <2>9, <2>12
<1>4. QED
  BY <1>2, <1>3

LEMMA Counted ==
  ASSUME NEW k \in Nat, NEW t \in Nat, k <= t, NEW g \in [k .. t -> Int],
         \A i, j \in k .. t : g[i] = g[j] => i = j
  PROVE  Cardinality({g[j] : j \in k .. t}) = t - k + 1
<1>1. PICK E : E = {g[j] : j \in k .. t}
  OBVIOUS
<1>2. g \in [k .. t -> E] /\ \A y \in E : \E j \in k .. t : g[j] = y
  BY <1>1
<1>3. g \in Bijection(k .. t, E)
  BY <1>2, Fun_IsBij
<1>4. ExistsBijection(k .. t, E)
  BY <1>3, Fun_ExistsBij
<1>5. k \in Int /\ t \in Int /\ ~(k > t)
  OBVIOUS
<1>6. IsFiniteSet(k .. t) /\ Cardinality(k .. t) = t - k + 1
  BY <1>5, FS_Interval
<1>7. QED
  BY <1>1, <1>4, <1>6, FS_Bijection

\* From the back, the n-th end of a line before the last is that of the n-th line from the back.
Increasing(P, N) == P \in [0 .. N -> Nat] /\ \A i, j \in 0 .. N : i < j => P[i] < P[j]
EndsAt(contents, M, from, P, N) ==
  \A q \in 1 .. M : contents[q] = LF <=> \E k \in 1 .. N - 1 : from + q = P[k]

StopsOf(contents, M, n, S) ==
  S = {i \in 1 .. M : contents[i] = LF /\ Cardinality({k \in i .. M : contents[k] = LF}) = n}

LEMMA StopsAre ==
  ASSUME NEW N \in Nat \ {0}, NEW P, Increasing(P, N), NEW from \in Nat, NEW M \in Nat, M + 1 + from = P[N],
         NEW contents, EndsAt(contents, M, from, P, N), NEW n \in Nat \ {0},
         NEW S, StopsOf(contents, M, n, S)
  PROVE  /\ n < N /\ P[N - n] > from => S = {P[N - n] - from}
         /\ ~(n < N /\ P[N - n] > from) => S = {}
<1> USE DEF StopsOf
<1>1. P \in [0 .. N -> Nat] /\ \A i, j \in 0 .. N : i < j => P[i] < P[j]
  BY DEF Increasing
<1>2. \A q \in 1 .. M : contents[q] = LF <=> \E k \in 1 .. N - 1 : from + q = P[k]
  BY DEF EndsAt
<1>3. ASSUME NEW i \in 1 .. M, NEW k \in 1 .. N - 1, from + i = P[k]
      PROVE  Cardinality({q \in i .. M : contents[q] = LF}) = N - k
  <2>1. k \in Nat /\ N - 1 \in Nat /\ k <= N - 1 /\ N - 1 - k + 1 = N - k /\ k .. N - 1 \subseteq 0 .. N
    OBVIOUS
  <2>2. PICK g : g = [j \in k .. N - 1 |-> P[j] - from]
    OBVIOUS
  <2>3. g \in [k .. N - 1 -> Int] /\ \A j \in k .. N - 1 : g[j] = P[j] - from /\ P[j] \in Nat
    <3>1. \A j \in k .. N - 1 : P[j] \in Nat
      BY <1>1, <2>1
    <3>2. \A j \in k .. N - 1 : P[j] - from \in Int
      BY <3>1
    <3>3. QED
      BY <2>2, <3>1, <3>2, Zenon
  <2>4. ASSUME NEW a \in k .. N - 1, NEW b \in k .. N - 1, g[a] = g[b] PROVE a = b
    <3>1. P[a] = P[b] /\ P[a] \in Nat
      <4>1. P[a] - from = P[b] - from /\ P[a] \in Nat /\ P[b] \in Nat
        BY <2>3, <2>4, Zenon
      <4>2. QED
        BY <4>1
    <3>2. a \in 0 .. N /\ b \in 0 .. N
      BY <2>1
    <3>3. ~(a < b) /\ ~(b < a)
      BY <1>1, <3>1, <3>2
    <3>4. QED
      BY <3>2, <3>3
  <2>5. Cardinality({g[j] : j \in k .. N - 1}) = N - k
    <3>1. Cardinality({g[j] : j \in k .. N - 1}) = N - 1 - k + 1
      BY <2>1, <2>3, <2>4, Counted
    <3>2. QED
      BY <2>1, <3>1
  <2>6. ASSUME NEW j \in k .. N - 1 PROVE g[j] \in i .. M /\ contents[g[j]] = LF
    <3>1. j \in 1 .. N - 1 /\ j \in 0 .. N /\ k \in 0 .. N /\ N \in 0 .. N /\ j < N /\ (k = j \/ k < j)
      OBVIOUS
    <3>2. P[j] < P[N] /\ P[k] <= P[j] /\ P[j] \in Nat /\ P[N] \in Nat /\ P[k] \in Nat
      BY <1>1, <3>1
    <3>3. g[j] = P[j] - from /\ from + g[j] = P[j]
      <4>1. g[j] = P[j] - from
        BY <2>3
      <4>2. PICK d \in Nat : d = P[j]
        BY <3>2
      <4>3. from + (d - from) = d
        OBVIOUS
      <4>4. QED
        BY <4>1, <4>2, <4>3
    <3>4. g[j] \in i .. M /\ g[j] \in 1 .. M
      BY <1>3, <3>2, <3>3
    <3>5. QED
      BY <1>2, <3>1, <3>3, <3>4
  <2>7. ASSUME NEW q \in i .. M, contents[q] = LF PROVE \E j \in k .. N - 1 : q = g[j]
    <3>1. q \in 1 .. M
      OBVIOUS
    <3>2. PICK j \in 1 .. N - 1 : from + q = P[j]
      BY <1>2, <2>7, <3>1
    <3>3. j \in 0 .. N /\ k \in 0 .. N
      OBVIOUS
    <3>4. ~(P[j] < P[k])
      BY <1>3, <3>1, <3>2
    <3>5. j \in k .. N - 1
      BY <1>1, <3>3, <3>4
    <3>6. g[j] = q
      BY <2>3, <3>1, <3>2, <3>5
    <3>7. QED
      BY <3>5, <3>6
  <2>8. {q \in i .. M : contents[q] = LF} = {g[j] : j \in k .. N - 1}
    BY <2>6, <2>7
  <2>9. QED
    BY <2>5, <2>8
<1>4. ASSUME NEW i \in S PROVE n < N /\ P[N - n] > from /\ i = P[N - n] - from
  <2>1. i \in 1 .. M /\ contents[i] = LF /\ Cardinality({q \in i .. M : contents[q] = LF}) = n
    OBVIOUS
  <2>2. PICK k \in 1 .. N - 1 : from + i = P[k]
    BY <1>2, <2>1
  <2>3. N - k = n
    BY <1>3, <2>1, <2>2
  <2>4. n < N /\ k = N - n
    BY <2>3
  <2>5. QED
    BY <2>1, <2>2, <2>4
<1>5. ASSUME n < N, P[N - n] > from PROVE P[N - n] - from \in S
  <2>1. PICK k \in 1 .. N - 1 : k = N - n /\ N - k = n
    <3>1. N - n \in 1 .. N - 1 /\ N - (N - n) = n
      BY <1>5
    <3>2. QED
      BY <3>1
  <2>2. k \in 0 .. N /\ N \in 0 .. N /\ k < N
    OBVIOUS
  <2>3. P[k] < P[N] /\ P[k] \in Nat /\ P[N] \in Nat
    BY <1>1, <2>2
  <2>4. PICK i \in 1 .. M : i = P[k] - from /\ from + i = P[k]
    <3>1. P[k] - from \in 1 .. M /\ from + (P[k] - from) = P[k]
      BY <1>5, <2>1, <2>3
    <3>2. QED
      BY <3>1
  <2>5. contents[i] = LF
    BY <1>2, <2>4
  <2>6. Cardinality({q \in i .. M : contents[q] = LF}) = n
    BY <1>3, <2>1, <2>4
  <2>7. QED
    BY <2>1, <2>4, <2>5, <2>6
<1>6. QED
  <2>1. n < N /\ P[N - n] > from => S = {P[N - n] - from}
    BY <1>4, <1>5, Zenon
  <2>2. ~(n < N /\ P[N - n] > from) => S = {}
    BY <1>4, Zenon
  <2>3. QED
    BY <2>1, <2>2

LEMMA MoreOf ==
  ASSUME NEW a \in Int, NEW b \in Int
  PROVE  Max({a, b}) = IF a >= b THEN a ELSE b
<1>1. PICK m \in Int : m = IF a >= b THEN a ELSE b
  OBVIOUS
<1>2. m \in {a, b} /\ \A y \in {a, b} : m >= y
  BY <1>1
<1>3. \A x \in {a, b} : (\A y \in {a, b} : x >= y) => x = m
  BY <1>1
<1>4. Max({a, b}) = m
  BY <1>2, <1>3, Zenon DEF Max
<1>5. QED
  BY <1>1, <1>4

LEMMA BeginningOf ==
  ASSUME NEW s \in Seq(Chars), NEW m \in Nat, m <= Len(s)
  PROVE  /\ SubSeq(s, 1, m) \in Seq(Chars) /\ Len(SubSeq(s, 1, m)) = m
         /\ \A q \in 1 .. m : SubSeq(s, 1, m)[q] = s[q]
<1>1. \A q \in 1 .. m : s[q] \in Chars
  OBVIOUS
<1>2. m \in Int /\ 1 \in Int
  OBVIOUS
<1>3. PICK t : t = SubSeq(s, 1, m)
  OBVIOUS
<1>4. /\ t \in Seq(Chars) /\ Len(t) = IF 1 <= m THEN m - 1 + 1 ELSE 0
      /\ \A q \in 1 .. m - 1 + 1 : t[q] = s[1 + q - 1]
  BY <1>1, <1>2, <1>3, SubSeqProperties
<1>5. QED
  BY <1>3, <1>4

\* What ReadLastLinesIntoVector looks at: the file from some place on, without its last end
BlockOf(cs, from, contents, M) ==
  /\ contents \in Seq(Chars) /\ M \in Nat /\ M = Len(contents) /\ from \in Nat
  /\ M + 1 + from = Len(cs)
  /\ \A q \in 1 .. M : contents[q] = cs[from + q]

LEMMA BlockIs ==
  ASSUME NEW cs \in Seq(Chars), NEW size \in Nat, size = Len(cs), NEW from \in Nat, from < size, cs[size] = LF,
         NEW block, block = SubSeq(cs, from + 1, size),
         NEW contents, contents = IF Last(block) = LF THEN Front(block) ELSE block
  PROVE  \E M : BlockOf(cs, from, contents, M)
<1>1. PICK l \in Nat \ {0} : l = size - from /\ from + l = size
  <2>1. size - from \in Nat \ {0} /\ from + (size - from) = size
    OBVIOUS
  <2>2. QED
    BY <2>1
<1>2. block \in Seq(Chars) /\ Len(block) = l /\ \A q \in 1 .. l : block[q] = cs[from + q]
  <2>1. \A i \in from + 1 .. size : cs[i] \in Chars
    OBVIOUS
  <2>2. from + 1 \in Int /\ size \in Int /\ from + 1 <= size /\ size - (from + 1) + 1 = l
    BY <1>1
  <2>3. /\ block \in Seq(Chars) /\ Len(block) = IF from + 1 <= size THEN size - (from + 1) + 1 ELSE 0
        /\ \A q \in 1 .. size - (from + 1) + 1 : block[q] = cs[from + 1 + q - 1]
    BY <2>1, <2>2, SubSeqProperties
  <2>4. \A q \in 1 .. l : from + 1 + q - 1 = from + q
    OBVIOUS
  <2>5. QED
    BY <2>2, <2>3, <2>4
<1>3. Last(block) = LF
  <2>1. l \in 1 .. l
    OBVIOUS
  <2>2. QED
    BY <1>1, <1>2, <2>1 DEF Last
<1>4. PICK M \in Nat : M = l - 1
  OBVIOUS
<1>5. contents = SubSeq(block, 1, M)
  BY <1>2, <1>3, <1>4 DEF Front
<1>6. contents \in Seq(Chars) /\ Len(contents) = M /\ \A q \in 1 .. M : contents[q] = block[q]
  <2>1. M <= Len(block) /\ block \in Seq(Chars)
    BY <1>2, <1>4
  <2>2. /\ SubSeq(block, 1, M) \in Seq(Chars) /\ Len(SubSeq(block, 1, M)) = M
        /\ \A q \in 1 .. M : SubSeq(block, 1, M)[q] = block[q]
    BY <2>1, BeginningOf, Zenon
  <2>3. QED
    BY <1>5, <2>2, Zenon
<1>7. \A q \in 1 .. M : q \in 1 .. l
  BY <1>4
<1>8. ASSUME NEW q \in 1 .. M PROVE contents[q] = cs[from + q]
  <2>1. contents[q] = block[q]
    BY <1>6
  <2>2. block[q] = cs[from + q]
    BY <1>2, <1>7
  <2>3. QED
    BY <2>1, <2>2
<1>9. M + 1 + from = size
  BY <1>1, <1>4
<1>10. QED
  BY <1>6, <1>8, <1>9 DEF BlockOf

\* Splitting what begins with the line behind the first b, or an end of a line before,
\* gives the lines behind the first b.
LEMMA SplitFrom ==
  ASSUME NEW cs, NEW lines \in Seq(Line), NEW P, Laid(cs, lines, P), NEW N \in Nat, N = Len(lines),
         NEW from, NEW contents, NEW M, BlockOf(cs, from, contents, M),
         NEW b \in Nat, b < N, NEW s \in Nat, NEW pre \in {0, 1}, from + s + pre = P[b],
         pre = 1 => b # 0
  PROVE  Split(SubSeq(contents, s + 1, M)) = Said(SubSeq(lines, b + 1, N))
<1>1. P \in [0 .. N -> Nat] /\ P[0] = 0 /\ P[N] = Len(cs)
  BY DEF Laid
<1>2. /\ contents \in Seq(Chars) /\ M \in Nat /\ M = Len(contents) /\ from \in Nat
      /\ M + 1 + from = P[N]
      /\ \A q \in 1 .. M : contents[q] = cs[from + q]
  BY <1>1 DEF BlockOf
<1>3. \A i, j \in 0 .. N : (i <= j => P[i] <= P[j]) /\ (i < j => P[i] < P[j])
  BY LaidInOrder
<1>4. PICK c \in Nat \ {0} : c = N - b /\ b + c = N
  <2>1. N - b \in Nat \ {0} /\ b + (N - b) = N
    OBVIOUS
  <2>2. QED
    BY <2>1
<1>5. PICK D \in Nat : D = from + s
  BY <1>2
<1>6. \A k \in 0 .. c : b + k \in 0 .. N /\ P[b + k] \in Nat /\ P[b] <= P[b + k] /\ (k < c => P[b + k] < P[N])
  <2>1. \A k \in 0 .. c : b + k \in 0 .. N /\ b \in 0 .. N /\ N \in 0 .. N /\ b <= b + k /\ (k < c => b + k < N)
    BY <1>4
  <2>2. QED
    BY <1>1, <1>3, <2>1
<1>7. P[b] \in Nat /\ P[b] < P[N] /\ P[N] \in Nat
  BY <1>1, <1>3
<1>8. PICK m \in Nat : m = M - s /\ s + m = M /\ m + 1 + D = P[N]
  <2>1. M - s \in Nat /\ s + (M - s) = M /\ M - s + 1 + D = P[N]
    BY <1>2, <1>5, <1>7
  <2>2. QED
    BY <2>1
<1>9. PICK sub : sub = SubSeq(contents, s + 1, M)
  OBVIOUS
<1>10. sub \in Seq(Chars) /\ Len(sub) = m /\ \A q \in 1 .. m : sub[q] = cs[D + q]
  <2>1. \A i \in s + 1 .. M : contents[i] \in Chars
    BY <1>2
  <2>2. s + 1 \in Int /\ M \in Int /\ M - (s + 1) + 1 = m /\ (s + 1 <= M <=> m # 0)
    BY <1>2, <1>8
  <2>3. /\ sub \in Seq(Chars) /\ Len(sub) = IF s + 1 <= M THEN M - (s + 1) + 1 ELSE 0
        /\ \A q \in 1 .. M - (s + 1) + 1 : sub[q] = contents[s + 1 + q - 1]
    BY <1>9, <2>1, <2>2, SubSeqProperties
  <2>4. Len(sub) = m
    BY <2>2, <2>3
  <2>5. ASSUME NEW q \in 1 .. m PROVE sub[q] = cs[D + q]
    <3>1. s + 1 + q - 1 = s + q /\ s + q \in 1 .. M /\ from + (s + q) = D + q
      BY <1>2, <1>5, <1>8
    <3>2. sub[q] = contents[s + q]
      BY <2>2, <2>3, <3>1
    <3>3. QED
      BY <1>2, <3>1, <3>2
  <2>6. QED
    BY <2>3, <2>4, <2>5
<1>11. PICK W, Q : W = [k \in 1 .. c |-> Word(lines[b + k])] /\ Q = [k \in 0 .. c |-> P[b + k] - D]
  OBVIOUS
<1>12. \A k \in 0 .. c : Q[k] \in Nat /\ Q[k] = P[b + k] - D /\ D + Q[k] = P[b + k]
  <2>1. \A k \in 0 .. c : P[b + k] - D \in Nat /\ D + (P[b + k] - D) = P[b + k]
    <3>1. D <= P[b]
      BY <1>2, <1>5, <1>7
    <3>2. ASSUME NEW k \in 0 .. c PROVE P[b + k] - D \in Nat /\ D + (P[b + k] - D) = P[b + k]
      <4>1. P[b + k] \in Nat /\ P[b] <= P[b + k]
        BY <1>6
      <4>2. QED
        BY <1>7, <3>1, <4>1
    <3>3. QED
      BY <3>2
  <2>2. \A k \in 0 .. c : Q[k] = P[b + k] - D
    BY <1>11
  <2>3. QED
    BY <2>1, <2>2
<1>13. \A k \in 1 .. c : b + k \in 1 .. N /\ b + k - 1 = b + (k - 1) /\ k - 1 \in 0 .. c /\ k \in 0 .. c
  BY <1>4
<1>14. \A k \in 1 .. c : W[k] = Word(lines[b + k]) /\ W[k] \in Seq(Chars)
  <2>1. \A k \in 1 .. c : lines[b + k] \in Line
    BY <1>13
  <2>2. QED
    BY <1>11, <2>1, WordParts
<1>15. ASSUME NEW k \in 1 .. c
       PROVE  /\ Q[k] = Q[k - 1] + Len(W[k]) + 1
              /\ \A j \in 1 .. Len(W[k]) : sub[Q[k - 1] + j] = W[k][j] /\ W[k][j] # LF
              /\ k < c => Q[k] <= m /\ sub[Q[k]] = LF
  <2>1. PICK i \in 1 .. N : i = b + k /\ i - 1 = b + (k - 1)
    BY <1>13
  <2>2. PICK w, l : w = W[k] /\ l = Len(w)
    OBVIOUS
  <2>3. PICK u \in Nat, v \in Nat : u = Q[k - 1] /\ v = Q[k] /\ D + u = P[i - 1] /\ D + v = P[i]
    <3>1. k - 1 \in 0 .. c /\ k \in 0 .. c
      BY <1>13
    <3>2. Q[k - 1] \in Nat /\ Q[k] \in Nat /\ D + Q[k - 1] = P[b + (k - 1)] /\ D + Q[k] = P[b + k]
      BY <1>12, <3>1
    <3>3. D + Q[k - 1] = P[i - 1] /\ D + Q[k] = P[i]
      BY <2>1, <3>2
    <3>4. QED
      BY <3>2, <3>3
  <2>4. w = Word(lines[i]) /\ lines[i] \in Line
    BY <1>14, <2>1, <2>2
  <2>5. l \in Nat /\ \A j \in 1 .. l : w[j] # LF
    <3>1. /\ Len(Word(lines[i])) \in Nat
          /\ \A j \in 1 .. Len(Word(lines[i])) : Word(lines[i])[j] # LF
      BY <2>4, WordParts
    <3>2. QED
      BY <2>2, <2>4, <3>1, Zenon
  <2>6. P[i] = P[i - 1] + l + 1 /\ (\A j \in 1 .. l : cs[P[i - 1] + j] = w[j]) /\ cs[P[i]] = LF
    BY <2>2, <2>4, WordLaid
  <2>7. v = u + l + 1
    <3>1. PICK g, h : g = P[i - 1] /\ h = P[i]
      OBVIOUS
    <3>2. D + u = g /\ D + v = h /\ h = g + l + 1
      BY <2>3, <2>6, <3>1
    <3>3. QED
      BY <2>5, <3>2
  <2>8. v <= m + 1 /\ (k < c => v <= m)
    <3>1. P[i] <= P[N] /\ (k < c => P[i] < P[N]) /\ P[i] \in Nat
      <4>1. i \in 0 .. N /\ N \in 0 .. N /\ i <= N /\ (k < c => i < N)
        BY <1>4, <2>1
      <4>2. QED
        BY <1>1, <1>3, <4>1
    <3>2. QED
      <4>1. P[i] = D + v /\ P[N] = m + 1 + D
        BY <1>8, <2>3
      <4>2. QED
        BY <3>1, <4>1
  <2>9. ASSUME NEW j \in 1 .. l PROVE sub[u + j] = w[j]
    <3>1. u + j \in 1 .. m /\ D + (u + j) = D + u + j
      BY <2>5, <2>7, <2>8
    <3>2. cs[D + u + j] = w[j]
      BY <2>3, <2>6
    <3>3. sub[u + j] = cs[D + (u + j)]
      BY <1>10, <3>1
    <3>4. QED
      BY <3>1, <3>2, <3>3
  <2>10. ASSUME k < c PROVE v <= m /\ sub[v] = LF
    <3>1. v \in 1 .. m
      BY <2>5, <2>7, <2>8, <2>10
    <3>2. sub[v] = cs[D + v] /\ cs[D + v] = LF
      BY <1>10, <2>3, <2>6, <3>1
    <3>3. QED
      BY <3>1, <3>2
  <2>11. QED
    BY <2>2, <2>3, <2>5, <2>7, <2>9, <2>10, Zenon
<1>16. WordsIn(sub, m, W, Q, c, pre)
  <2>1. W \in [1 .. c -> Seq(Chars)]
    BY <1>11, <1>14
  <2>2. Q \in [0 .. c -> Nat]
    BY <1>11, <1>12
  <2>3. Q[0] = pre /\ Q[c] = m + 1
    <3>1. 0 \in 0 .. c /\ c \in 0 .. c /\ b + 0 = b
      BY <1>4
    <3>2. D + Q[0] = P[b] /\ D + Q[c] = P[N] /\ Q[0] \in Nat /\ Q[c] \in Nat
      BY <1>4, <1>12, <3>1
    <3>3. PICK g \in Nat, h \in Nat : g = Q[0] /\ h = Q[c] /\ D + g = P[b] /\ D + h = P[N]
      BY <3>2
    <3>4. D + pre = P[b]
      BY <1>2, <1>5
    <3>5. g = pre
      BY <3>3, <3>4
    <3>6. h = m + 1
      <4>1. m + 1 + D = D + h
        BY <1>8, <3>3, Zenon
      <4>2. PICK r \in Nat : r = m + 1
        OBVIOUS
      <4>3. r + D = D + h
        BY <4>1, <4>2
      <4>4. r = h
        BY <4>3
      <4>5. QED
        BY <4>2, <4>4
    <3>7. QED
      BY <3>3, <3>5, <3>6
  <2>4. pre = 1 => sub[1] = LF
    <3>1. SUFFICES ASSUME pre = 1 PROVE sub[1] = LF
      OBVIOUS
    <3>2. cs[P[b]] = LF
      <4>1. b \in 1 .. Len(lines)
        BY <3>1
      <4>2. QED
        BY <4>1, WordLaid
    <3>3. D + 1 = P[b]
      BY <1>5, <3>1
    <3>4. 1 \in 1 .. m
      BY <1>7, <1>8, <3>3
    <3>5. QED
      BY <1>10, <3>2, <3>3, <3>4
  <2>5. \A k \in 1 .. c - 1 : k \in 1 .. c /\ k < c
    OBVIOUS
  <2>6. \A k \in 1 .. c - 1 : Q[k] <= m /\ sub[Q[k]] = LF
    BY <1>15, <2>5
  <2>7. m = Len(sub) /\ sub \in Seq(Chars)
    BY <1>10
  <2>8. QED
    BY <1>15, <2>1, <2>2, <2>3, <2>4, <2>6, <2>7, Zenon DEF WordsIn
<1>17. PICK rest : rest = SubSeq(lines, b + 1, N)
  OBVIOUS
<1>18. rest \in Seq(Line) /\ Len(rest) = c /\ \A k \in 1 .. c : rest[k] = lines[b + k]
  <2>1. \A i \in b + 1 .. N : lines[i] \in Line
    OBVIOUS
  <2>2. b + 1 \in Int /\ N \in Int /\ N - (b + 1) + 1 = c /\ b + 1 <= N
    BY <1>4
  <2>3. /\ rest \in Seq(Line) /\ Len(rest) = IF b + 1 <= N THEN N - (b + 1) + 1 ELSE 0
        /\ \A k \in 1 .. N - (b + 1) + 1 : rest[k] = lines[b + 1 + k - 1]
    BY <1>17, <2>1, <2>2, SubSeqProperties
  <2>4. \A k \in 1 .. c : b + 1 + k - 1 = b + k
    OBVIOUS
  <2>5. QED
    BY <2>2, <2>3, <2>4
<1>19. W = [k \in 1 .. c |-> Word(rest[k])]
  BY <1>11, <1>18, Zenon
<1>20. PICK T : SaidBy(T, W, c) /\ Said(rest) = T[c]
  <2>1. c \in Nat /\ c = Len(rest) /\ rest \in Seq(Line)
    BY <1>18
  <2>2. WordsOf(rest, c, W)
    BY <1>19, <2>1, Zenon DEF WordsOf
  <2>3. QED
    BY <2>2, SaidIs, Zenon
<1>21. Split(sub) = T[c]
  BY <1>16, <1>20, WordsFound, Zenon
<1>22. QED
  BY <1>9, <1>17, <1>20, <1>21
LEMMA LengthOfRest ==
  ASSUME NEW cs, NEW lines, NEW P, NEW N, LaidOut(cs, lines, P, N), NEW b \in Nat, b < N
  PROVE  P[b] \in Nat /\ P[N] \in Nat /\ LengthOf(SubSeq(lines, b + 1, N)) = P[N] - P[b] /\ P[b] < P[N]
<1> USE DEF LaidOut
<1>1. P \in [0 .. N -> Nat]
  BY DEF Laid
<1>2. \A i \in 1 .. N : P[i] = P[i - 1] + Len(lines[i].text) + Len(lines[i].end)
  BY DEF Laid
<1>3. \A i, j \in 0 .. N : (i <= j => P[i] <= P[j]) /\ (i < j => P[i] < P[j])
  BY LaidInOrder
<1>4. PICK c \in Nat \ {0} : c = N - b /\ b + c = N
  <2>1. N - b \in Nat \ {0} /\ b + (N - b) = N
    OBVIOUS
  <2>2. QED
    BY <2>1
<1>5. PICK rest : rest = SubSeq(lines, b + 1, N)
  OBVIOUS
<1>6. rest \in Seq(Line) /\ Len(rest) = c /\ \A k \in 1 .. c : rest[k] = lines[b + k]
  <2>1. \A i \in b + 1 .. N : lines[i] \in Line
    OBVIOUS
  <2>2. b + 1 \in Int /\ N \in Int /\ N - (b + 1) + 1 = c /\ b + 1 <= N
    BY <1>4
  <2>3. /\ rest \in Seq(Line) /\ Len(rest) = IF b + 1 <= N THEN N - (b + 1) + 1 ELSE 0
        /\ \A k \in 1 .. N - (b + 1) + 1 : rest[k] = lines[b + 1 + k - 1]
    BY <1>5, <2>1, <2>2, SubSeqProperties
  <2>4. \A k \in 1 .. c : b + 1 + k - 1 = b + k
    OBVIOUS
  <2>5. QED
    BY <2>2, <2>3, <2>4
<1>7. \A k \in 0 .. c : b + k \in 0 .. N /\ P[b + k] \in Nat /\ P[b] \in Nat /\ P[b] <= P[b + k]
  <2>1. \A k \in 0 .. c : b + k \in 0 .. N /\ b \in 0 .. N /\ b <= b + k
    BY <1>4
  <2>2. QED
    BY <1>1, <1>3, <2>1
<1>8. PICK L : L = [k \in 0 .. c |-> P[b + k] - P[b]]
  OBVIOUS
<1>9. L \in [0 .. c -> Nat] /\ \A k \in 0 .. c : L[k] = P[b + k] - P[b]
  <2>1. \A k \in 0 .. c : P[b + k] - P[b] \in Nat
    <3>1. ASSUME NEW k \in 0 .. c PROVE P[b + k] - P[b] \in Nat
      <4>1. PICK g \in Nat, h \in Nat : g = P[b + k] /\ h = P[b] /\ h <= g
        BY <1>7
      <4>2. g - h \in Nat
        BY <4>1
      <4>3. QED
        BY <4>1, <4>2
    <3>2. QED
      BY <3>1
  <2>2. QED
    BY <1>8, <2>1
<1>10. L[0] = 0 /\ L[c] = P[N] - P[b]
  <2>1. 0 \in 0 .. c /\ c \in 0 .. c /\ b + 0 = b
    BY <1>4
  <2>2. L[0] = P[b + 0] - P[b] /\ L[c] = P[b + c] - P[b] /\ P[b] \in Nat
    BY <1>7, <1>9, <2>1
  <2>3. QED
    BY <1>4, <2>1, <2>2
<1>11. ASSUME NEW k \in 1 .. c PROVE L[k] = L[k - 1] + Len(rest[k].text) + Len(rest[k].end)
  <2>1. PICK i \in 1 .. N : i = b + k /\ i - 1 = b + (k - 1)
    <3>1. b + k \in 1 .. N /\ b + k - 1 = b + (k - 1)
      BY <1>4
    <3>2. QED
      BY <3>1
  <2>2. k - 1 \in 0 .. c /\ k \in 0 .. c
    OBVIOUS
  <2>3. PICK x \in Nat, y \in Nat : x = Len(rest[k].text) /\ y = Len(rest[k].end) /\ rest[k] = lines[i]
    <3>1. rest[k] = lines[i] /\ lines[i] \in Line
      BY <1>6, <2>1
    <3>2. Len(rest[k].text) \in Nat /\ Len(rest[k].end) \in Nat
      BY <3>1, LineParts
    <3>3. QED
      BY <3>1, <3>2
  <2>4. PICK g \in Nat, h \in Nat, e \in Nat : g = P[i - 1] /\ h = P[i] /\ e = P[b]
    BY <1>7, <2>1, <2>2
  <2>5. L[k - 1] = g - e /\ L[k] = h - e
    <3>1. L[k - 1] = P[b + (k - 1)] - P[b] /\ L[k] = P[b + k] - P[b]
      BY <1>9, <2>2
    <3>2. QED
      BY <2>1, <2>4, <3>1
  <2>6. h = g + x + y
    BY <1>2, <2>3, <2>4
  <2>7. h - e = g - e + x + y
    BY <2>6
  <2>8. QED
    BY <2>3, <2>5, <2>7
<1>12. LengthOf(rest) = L[c]
  BY <1>6, <1>9, <1>10, <1>11, LengthIs
<1>13. b \in 0 .. N /\ N \in 0 .. N
  OBVIOUS
<1>14. QED
  BY <1>1, <1>3, <1>5, <1>10, <1>12, <1>13
\* The values of ReadLastLinesIntoVector
LookedAt(cs, n, B, from, contents, stops, at) ==
  /\ from = Max({0, Len(cs) - B})
  /\ LET block == SubSeq(cs, from + 1, Len(cs)) IN contents = IF Last(block) = LF THEN Front(block) ELSE block
  /\ stops = {i \in DOMAIN contents :
                contents[i] = LF /\ Cardinality({k \in i .. Len(contents) : contents[k] = LF}) = n}
  /\ at = Max(stops \cup {1}) - 1

\* What ReadLastLinesIntoVector returns
LEMMA LastLines ==
  ASSUME NEW cs \in Seq(Chars), cs # <<>>, NEW lines \in Seq(Line), NEW P, Laid(cs, lines, P),
         NEW n \in Nat \ {0}, NEW B \in Nat, LengthOf(LastOf(lines, n)) <= B,
         NEW from, NEW contents, NEW stops, NEW at, LookedAt(cs, n, B, from, contents, stops, at)
  PROVE  Split(SubSeq(contents, (IF at > 0 THEN at + 1 ELSE 0) + 1, Len(contents))) = Said(LastOf(lines, n))
<1>a. from = Max({0, Len(cs) - B})
  BY Zenon DEF LookedAt
<1>b. PICK block : block = SubSeq(cs, from + 1, Len(cs)) /\ contents = IF Last(block) = LF THEN Front(block) ELSE block
  BY Zenon DEF LookedAt
<1>c. stops = {i \in DOMAIN contents :
                contents[i] = LF /\ Cardinality({k \in i .. Len(contents) : contents[k] = LF}) = n}
  BY Zenon DEF LookedAt
<1>d. at = Max(stops \cup {1}) - 1
  BY Zenon DEF LookedAt
<1>1. PICK N \in Nat : N = Len(lines)
  OBVIOUS
<1>2. P \in [0 .. N -> Nat] /\ P[0] = 0 /\ P[N] = Len(cs) /\ P[N] \in Nat /\ P[N] # 0
  <2>1. P \in [0 .. N -> Nat] /\ P[0] = 0 /\ P[N] = Len(cs)
    BY <1>1 DEF Laid
  <2>2. Len(cs) \in Nat /\ Len(cs) # 0
    OBVIOUS
  <2>3. QED
    BY <2>1, <2>2, Zenon
<1>3. N \in Nat \ {0}
  BY <1>1, <1>2
<1>4. Increasing(P, N)
  <2>1. \A i, j \in 0 .. N : i < j => P[i] < P[j]
    BY <1>1, LaidInOrder
  <2>2. QED
    BY <1>2, <2>1 DEF Increasing
<1>5. PICK b \in Nat : b < N /\ (n < N => b = N - n) /\ (~(n < N) => b = 0) /\ Max({0, N - n}) = b
  <2>1. Max({0, N - n}) = IF 0 >= N - n THEN 0 ELSE N - n
    BY <1>1, MoreOf
  <2>2. CASE n < N
    <3>1. N - n \in Nat /\ N - n < N /\ ~(0 >= N - n)
      BY <2>2
    <3>2. Max({0, N - n}) = N - n
      BY <2>1, <3>1, Zenon
    <3>3. QED
      BY <2>2, <3>1, <3>2, Zenon
  <2>3. CASE ~(n < N)
    <3>1. 0 >= N - n /\ 0 \in Nat /\ 0 < N
      BY <1>3, <2>3
    <3>2. Max({0, N - n}) = 0
      BY <2>1, <3>1, Zenon
    <3>3. QED
      BY <2>3, <3>1, <3>2, Zenon
  <2>4. QED
    BY <2>2, <2>3
<1>6. LastOf(lines, n) = SubSeq(lines, b + 1, N)
  BY <1>1, <1>5, Zenon DEF LastOf
<1>7. PICK u \in Nat, z \in Nat : u = P[b] /\ z = P[N] /\ u < z /\ z - u <= B
  <2>1. P[b] \in Nat /\ P[N] \in Nat /\ LengthOf(SubSeq(lines, b + 1, N)) = P[N] - P[b] /\ P[b] < P[N]
    <3>1. LaidOut(cs, lines, P, N)
      BY <1>1 DEF LaidOut
    <3>2. QED
      BY <1>5, <3>1, LengthOfRest
  <2>2. P[N] - P[b] <= B
    BY <1>6, <2>1
  <2>3. QED
    BY <2>1, <2>2
<1>8. from \in Nat /\ from <= u /\ from < z
  <2>1. Len(cs) = z
    BY <1>2, <1>7
  <2>2. Max({0, z - B}) = IF 0 >= z - B THEN 0 ELSE z - B
    BY MoreOf
  <2>3. from = IF 0 >= z - B THEN 0 ELSE z - B
    BY <1>a, <2>1, <2>2, Zenon
  <2>4. CASE z <= B
    <3>1. 0 >= z - B
      BY <2>4
    <3>2. from = 0
      BY <2>3, <3>1
    <3>3. QED
      BY <1>7, <3>2
  <2>5. CASE z > B
    <3>1. ~(0 >= z - B) /\ z - B \in Nat /\ z - B < z
      <4>1. B # 0
        BY <1>7
      <4>2. QED
        BY <2>5, <4>1
    <3>2. from = z - B
      BY <2>3, <3>1
    <3>3. z - B <= u
      BY <1>7
    <3>4. QED
      BY <3>1, <3>2, <3>3
  <2>6. QED
    BY <2>4, <2>5
<1>9. PICK M : BlockOf(cs, from, contents, M)
  <2>1. z = Len(cs)
    BY <1>2, <1>7
  <2>2. N \in 1 .. Len(lines)
    BY <1>1, <1>3
  <2>3. cs[P[N]] = LF
    BY <2>2, WordLaid
  <2>4. cs[z] = LF
    BY <1>7, <2>3
  <2>5. block = SubSeq(cs, from + 1, z)
    BY <1>b, <2>1, Zenon
  <2>6. \E M : BlockOf(cs, from, contents, M)
    BY <1>b, <1>8, <2>1, <2>4, <2>5, BlockIs, Zenon
  <2>7. QED
    BY <2>6
<1>10. /\ M \in Nat /\ M = Len(contents) /\ contents \in Seq(Chars) /\ M + 1 + from = z
       /\ \A q \in 1 .. M : contents[q] = cs[from + q]
  BY <1>2, <1>7, <1>9 DEF BlockOf
<1>11. EndsAt(contents, M, from, P, N)
  <2>1. ASSUME NEW q \in 1 .. M PROVE contents[q] = LF <=> \E k \in 1 .. N - 1 : from + q = P[k]
    <3>1. PICK x \in Nat : x = from + q /\ x # 0 /\ x <= P[N] /\ x # P[N]
      <4>1. from + q \in Nat /\ from + q # 0 /\ from + q <= z /\ from + q # z
        <5>1. M \in Nat /\ M + 1 + from = z
          BY <1>10
        <5>2. QED
          BY <1>8, <5>1
      <4>2. QED
        BY <1>7, <4>1
    <3>2. cs[x] = LF <=> \E k \in 1 .. N : x = P[k]
      <4>1. LaidOut(cs, lines, P, N)
        BY <1>1 DEF LaidOut
      <4>2. QED
        BY <3>1, <4>1, EndsOfLines
    <3>3. \A k \in 1 .. N : k = N \/ k \in 1 .. N - 1
      OBVIOUS
    <3>4. \A k \in 1 .. N - 1 : k \in 1 .. N
      OBVIOUS
    <3>5. (\E k \in 1 .. N : x = P[k]) <=> \E k \in 1 .. N - 1 : x = P[k]
      BY <3>1, <3>3, <3>4, Zenon
    <3>6. contents[q] = cs[x]
      BY <1>10, <3>1
    <3>7. QED
      BY <3>1, <3>2, <3>5, <3>6, Zenon
  <2>2. QED
    BY <2>1 DEF EndsAt
<1>12. /\ n < N /\ P[N - n] > from => stops = {P[N - n] - from}
       /\ ~(n < N /\ P[N - n] > from) => stops = {}
  <2>1. DOMAIN contents = 1 .. M
    BY <1>10
  <2>2. StopsOf(contents, M, n, stops)
    BY <1>c, <1>10, <2>1, Zenon DEF StopsOf
  <2>3. M + 1 + from = P[N]
    BY <1>7, <1>10
  <2>4. QED
    <3>1. from \in Nat /\ M \in Nat /\ N \in Nat \ {0}
      BY <1>3, <1>8, <1>10
    <3>2. QED
      BY <1>4, <1>11, <2>2, <2>3, <3>1, StopsAre, Zenon
<1>13. PICK s : s = IF at > 0 THEN at + 1 ELSE 0
  OBVIOUS
<1>14. ASSUME NEW pre \in {0, 1}, s \in Nat, from + s + pre = P[b], pre = 1 => b # 0
       PROVE  Split(SubSeq(contents, s + 1, M)) = Said(SubSeq(lines, b + 1, N))
  BY <1>1, <1>5, <1>9, <1>14, SplitFrom
<1> SUFFICES Split(SubSeq(contents, s + 1, M)) = Said(SubSeq(lines, b + 1, N))
  BY <1>6, <1>10, <1>13, Zenon
<1>15. CASE n < N /\ u > from
  <2>1. PICK v \in Nat : v = u - from /\ from + v = u /\ v >= 1
    <3>1. u - from \in Nat /\ from + (u - from) = u /\ u - from >= 1
      BY <1>8, <1>15
    <3>2. QED
      BY <3>1
  <2>2. stops = {v}
    <3>1. b = N - n /\ P[N - n] = u
      BY <1>5, <1>7, <1>15
    <3>2. QED
      BY <1>12, <1>15, <2>1, <3>1, Zenon
  <2>3. at = v - 1
    <3>1. stops \cup {1} = {v, 1}
      BY <2>2, Zenon
    <3>2. Max({v, 1}) = IF v >= 1 THEN v ELSE 1
      BY MoreOf
    <3>3. Max(stops \cup {1}) = v
      BY <2>1, <3>1, <3>2, Zenon
    <3>4. QED
      BY <1>d, <3>3, Zenon
  <2>4. b # 0
    BY <1>2, <1>7, <1>8, <1>15
  <2>5. CASE v = 1
    <3>1. ~(at > 0)
      BY <2>3, <2>5
    <3>2. s = 0
      BY <1>13, <3>1, Zenon
    <3>3. s \in Nat /\ from + s + 1 = P[b] /\ 1 \in {0, 1}
      BY <1>7, <1>8, <2>1, <2>5, <3>2
    <3>4. QED
      BY <1>14, <2>4, <3>3, Zenon
  <2>6. CASE v # 1
    <3>1. at > 0 /\ at + 1 = v
      BY <2>1, <2>3, <2>6
    <3>2. s = v
      BY <1>13, <3>1, Zenon
    <3>3. s \in Nat /\ from + s + 0 = P[b] /\ 0 \in {0, 1} /\ 0 # 1
      BY <1>7, <1>8, <2>1, <3>2
    <3>4. QED
      BY <1>14, <3>3, Zenon
  <2>7. QED
    BY <2>5, <2>6
<1>16. CASE ~(n < N /\ u > from)
  <2>1. ~(n < N /\ P[N - n] > from)
    BY <1>5, <1>7, <1>16
  <2>2. stops \cup {1} = {1, 1}
    BY <1>12, <2>1, Zenon
  <2>3. at = 0
    <3>1. Max({1, 1}) = 1
      BY MoreOf
    <3>2. Max(stops \cup {1}) = 1
      BY <2>2, <3>1, Zenon
    <3>3. at = 1 - 1
      BY <1>d, <3>2, Zenon
    <3>4. QED
      BY <3>3
  <2>4. from = u
    <3>1. CASE n < N
      BY <1>7, <1>8, <1>16, <3>1
    <3>2. CASE ~(n < N)
      <4>1. u = 0
        BY <1>2, <1>5, <1>7, <3>2
      <4>2. QED
        BY <1>8, <4>1
    <3>3. QED
      BY <3>1, <3>2
  <2>5. s = 0
    <3>1. ~(at > 0)
      BY <2>3
    <3>2. QED
      BY <1>13, <3>1, Zenon
  <2>6. s \in Nat /\ from + s + 0 = P[b] /\ 0 \in {0, 1} /\ 0 # 1
    BY <1>7, <1>8, <2>4, <2>5
  <2>7. QED
    BY <1>14, <2>6, Zenon
<1>17. QED
  BY <1>7, <1>15, <1>16
LEMMA ReadLastLinesKeeps == LinesIInv /\ (\E n \in 1..2 : ReadLastLines(n)) => LinesIInv'
<1> SUFFICES ASSUME LinesIInv, NEW n \in 1..2, ReadLastLines(n) PROVE LinesIInv'
  OBVIOUS
<1>1. /\ mode = "r" /\ mode' = mode /\ chars' = chars /\ written' = written
      /\ cursor' = Len(chars) /\ taken' = Len(written) /\ lineRead'.call = "last" /\ chars # <<>>
  BY DEF ReadLastLines
<1>2. PICK P : Laid(chars, written, P)
  BY DEF LinesIInv, LinesLaid
<1>3. P[Len(written)] = Len(chars) /\ Len(written) \in 0 .. Len(written)
  BY <1>2 DEF Laid, LinesIInv
<1>4. LinesLaid'
  BY <1>1, <1>2, <1>3 DEF LinesLaid
<1>5. PICK B \in Nat : B = n * LastBlock
  <2>1. LastBlock \in Nat
    BY LinesAssumption
  <2>2. n = 1 \/ n = 2
    OBVIOUS
  <2>3. n * LastBlock \in Nat
    BY <2>1, <2>2
  <2>4. QED
    BY <2>3
<1>6. PICK from, contents, stops, at :
        /\ LookedAt(chars, n, B, from, contents, stops, at)
        /\ lineRead' = [call |-> "last", n |-> n,
                        lines |-> Split(SubSeq(contents, (IF at > 0 THEN at + 1 ELSE 0) + 1, Len(contents)))]
  <2> DEFINE from == Max({0, Len(chars) - n * LastBlock})
             block == SubSeq(chars, from + 1, Len(chars))
             contents == IF Last(block) = LF THEN Front(block) ELSE block
             stops == {i \in DOMAIN contents :
                         contents[i] = LF /\ Cardinality({k \in i .. Len(contents) : contents[k] = LF}) = n}
             at == Max(stops \cup {1}) - 1
  <2>1. LookedAt(chars, n, B, from, contents, stops, at)
    BY <1>5, Zenon DEF LookedAt
  <2>2. lineRead' = [call |-> "last", n |-> n,
                     lines |-> Split(SubSeq(contents, (IF at > 0 THEN at + 1 ELSE 0) + 1, Len(contents)))]
    BY Zenon DEF ReadLastLines
  <2>3. QED
    BY <2>1, <2>2, Zenon
<1>7. ASSUME LengthOf(LastOf(written, n)) <= B
      PROVE  Split(SubSeq(contents, (IF at > 0 THEN at + 1 ELSE 0) + 1, Len(contents))) = Said(LastOf(written, n))
  <2>1. chars \in Seq(Chars) /\ written \in Seq(Line)
    BY DEF LinesIInv, Chars
  <2>2. n \in Nat \ {0}
    OBVIOUS
  <2>3. chars # <<>> /\ LookedAt(chars, n, B, from, contents, stops, at)
    BY <1>1, <1>6
  <2>4. QED
    BY <1>2, <1>7, <2>1, <2>2, <2>3, LastLines
<1>8. LinesReadBack'
  <2>1. /\ lineRead'.call = "last" /\ lineRead'.n = n
        /\ lineRead'.lines = Split(SubSeq(contents, (IF at > 0 THEN at + 1 ELSE 0) + 1, Len(contents)))
    BY <1>6
  <2>2. LengthOf(LastOf(written', n)) <= n * LastBlock => lineRead'.lines = Said(LastOf(written', n))
    BY <1>1, <1>5, <1>7, <2>1, Zenon
  <2>3. QED
    BY <2>1, <2>2 DEF LinesReadBack
<1>9. QED
  BY <1>1, <1>4, <1>8 DEF LinesIInv

LEMMA LinesAreLong ==
  ASSUME NEW lines \in Seq(Line), NEW cs, NEW P, Laid(cs, lines, P)
  PROVE  Len(lines) <= Len(cs)
<1>1. PICK n \in Nat : n = Len(lines)
  OBVIOUS
<1>2. P \in [0 .. n -> Nat] /\ P[0] = 0 /\ P[n] = Len(cs)
  BY <1>1 DEF Laid
<1>3. \A i, j \in 0 .. n : i < j => P[i] < P[j]
  BY <1>1, LaidInOrder
<1> DEFINE Good == {i \in 0 .. n : i <= P[i]}
<1>4. 0 \in Good
  BY <1>2
<1>5. ASSUME NEW i \in 1 .. n, i - 1 \in Good PROVE i \in Good
  <2>1. i - 1 \in 0 .. n /\ i \in 0 .. n /\ i - 1 < i
    OBVIOUS
  <2>2. P[i - 1] \in Nat /\ P[i] \in Nat /\ i - 1 <= P[i - 1] /\ P[i - 1] < P[i]
    BY <1>2, <1>3, <1>5, <2>1
  <2>3. QED
    BY <2>1, <2>2
<1>6. 0 .. n \subseteq Good
  <2> HIDE DEF Good
  <2>1. QED
    BY <1>4, <1>5, Upward
<1>7. n \in Good
  <2> HIDE DEF Good
  <2>1. QED
    BY <1>6
<1>8. QED
  BY <1>1, <1>2, <1>7

LEMMA LessOf ==
  ASSUME NEW a \in Nat, NEW b \in Nat
  PROVE  Min({a, b}) = Least(a, b) /\ Least(a, b) \in Nat /\ Least(a, b) <= a /\ Least(a, b) <= b
<1>1. Least(a, b) \in {a, b} /\ \A y \in {a, b} : Least(a, b) <= y
  BY DEF Least
<1>2. \A x \in {a, b} : (\A y \in {a, b} : x <= y) => x = Least(a, b)
  BY DEF Least
<1>3. Min({a, b}) = Least(a, b)
  BY <1>1, <1>2, Zenon DEF Min
<1>4. QED
  BY <1>1, <1>3

LEMMA LinesOf ==
  ASSUME NEW lines \in Seq(Line), NEW t \in 0 .. Len(lines), NEW c \in Nat, t + c <= Len(lines)
  PROVE  TextsOf(SubSeq(lines, t + 1, t + c)) = [k \in 1 .. c |-> lines[t + k].text]
<1>1. PICK some : some = SubSeq(lines, t + 1, t + c)
  OBVIOUS
<1>2. DOMAIN some = 1 .. c /\ \A k \in 1 .. c : some[k] = lines[t + k]
  <2>1. \A i \in t + 1 .. t + c : lines[i] \in Line
    OBVIOUS
  <2>2. t + 1 \in Int /\ t + c \in Int /\ t + c - (t + 1) + 1 = c /\ (t + 1 <= t + c <=> c # 0)
    OBVIOUS
  <2>3. /\ some \in Seq(Line) /\ Len(some) = IF t + 1 <= t + c THEN t + c - (t + 1) + 1 ELSE 0
        /\ \A k \in 1 .. t + c - (t + 1) + 1 : some[k] = lines[t + 1 + k - 1]
    BY <1>1, <2>1, <2>2, SubSeqProperties
  <2>4. Len(some) = c
    BY <2>2, <2>3
  <2>5. \A k \in 1 .. c : t + 1 + k - 1 = t + k
    OBVIOUS
  <2>6. \A k \in 1 .. c : some[k] = lines[t + k]
    BY <2>2, <2>3, <2>5
  <2>7. QED
    BY <2>3, <2>4, <2>6
<1>3. TextsOf(some) = [k \in 1 .. c |-> some[k].text]
  BY <1>2, Zenon DEF TextsOf
<1>4. QED
  BY <1>1, <1>2, <1>3, Zenon

\* The next lines up to a limit are the limit of the rest of them.
Upto(lines, N, t, max, upto, texts, rest) ==
  /\ lines \in Seq(Line) /\ N \in Nat /\ N = Len(lines) /\ t \in 0 .. N
  /\ max \in Nat /\ upto \in Nat
  /\ max = 0 => upto >= N - t
  /\ max # 0 => upto = max + 1
  /\ texts = NextTexts(lines, t, upto) /\ rest = SubSeq(lines, t + 1, N)

Limited(max, texts, rest) ==
  /\ max = 0 => texts = TextsOf(rest)
  /\ max # 0 => SubSeq(texts, 1, Min({max, Len(texts)})) =
                  TextsOf(SubSeq(rest, 1, Min({max, Len(rest)})))

LEMMA NextAreRest ==
  ASSUME NEW lines, NEW N, NEW t, NEW max, NEW upto, NEW texts, NEW rest,
         Upto(lines, N, t, max, upto, texts, rest)
  PROVE  Limited(max, texts, rest)
<1> SUFFICES ASSUME lines \in Seq(Line), N \in Nat, N = Len(lines), t \in 0 .. N,
                    max \in Nat, upto \in Nat, max = 0 => upto >= N - t, max # 0 => upto = max + 1,
                    texts = NextTexts(lines, t, upto), rest = SubSeq(lines, t + 1, N)
             PROVE  /\ max = 0 => texts = TextsOf(rest)
                    /\ max # 0 => SubSeq(texts, 1, Min({max, Len(texts)})) =
                                    TextsOf(SubSeq(rest, 1, Min({max, Len(rest)})))
  BY Zenon DEF Upto, Limited
<1>1. PICK r \in Nat : r = N - t /\ t + r = N
  <2>1. N - t \in Nat /\ t + (N - t) = N
    OBVIOUS
  <2>2. QED
    BY <2>1
<1>2. texts = [k \in 1 .. Least(upto, r) |-> lines[t + k].text]
  BY <1>1, Zenon DEF NextTexts
<1>3. CASE max = 0
  <2>1. Least(upto, r) = r
    BY <1>1, <1>3 DEF Least
  <2>2. TextsOf(SubSeq(lines, t + 1, t + r)) = [k \in 1 .. r |-> lines[t + k].text]
    <3>1. t \in 0 .. Len(lines) /\ t + r <= Len(lines)
      BY <1>1
    <3>2. QED
      BY <3>1, LinesOf
  <2>3. QED
    BY <1>1, <1>2, <1>3, <2>1, <2>2
<1>4. CASE max # 0
  <2>1. PICK m \in Nat : m = Least(upto, r)
    BY <1>1 DEF Least
  <2>2. \A k \in 1 .. m : lines[t + k].text \in LineTexts
    <3>1. \A k \in 1 .. m : lines[t + k] \in Line
      <4>1. m <= r
        BY <1>1, <2>1 DEF Least
      <4>2. \A k \in 1 .. m : t + k \in 1 .. Len(lines)
        BY <1>1, <4>1
      <4>3. QED
        BY <4>2, ElementOfSeq
    <3>2. QED
      BY <3>1, LineParts
  <2>3. texts \in Seq(LineTexts) /\ Len(texts) = m /\ \A k \in 1 .. m : texts[k] = lines[t + k].text
    <3>1. texts = [k \in 1 .. m |-> lines[t + k].text]
      BY <1>2, <2>1
    <3>2. DOMAIN texts = 1 .. m /\ \A k \in 1 .. m : texts[k] = lines[t + k].text
      BY <3>1
    <3>3. texts = [k \in 1 .. m |-> texts[k]] /\ \A k \in 1 .. m : texts[k] \in LineTexts
      BY <2>2, <3>1, <3>2, Zenon
    <3>4. texts \in [1 .. m -> LineTexts]
      BY <3>3, Zenon
    <3>5. QED
      BY <3>2, <3>4
  <2>4. PICK c \in Nat : c = Least(max, r)
    BY <1>1 DEF Least
  <2>5. Min({max, m}) = c /\ Min({max, r}) = c /\ c <= m /\ c <= r
    <3>1. Least(max, m) = c
      BY <1>1, <1>4, <2>1, <2>4 DEF Least
    <3>2. Min({max, m}) = Least(max, m) /\ Least(max, m) <= m
      BY LessOf
    <3>3. Min({max, r}) = Least(max, r) /\ Least(max, r) <= r
      BY LessOf
    <3>4. QED
      BY <2>4, <3>1, <3>2, <3>3, Zenon
  <2>6. SubSeq(texts, 1, c) = [k \in 1 .. c |-> lines[t + k].text]
    <3>1. PICK x : x = SubSeq(texts, 1, c)
      OBVIOUS
    <3>2. x \in Seq(LineTexts) /\ Len(x) = c /\ \A k \in 1 .. c : x[k] = texts[k]
      BY <2>3, <2>5, <3>1
    <3>3. x = [k \in 1 .. c |-> x[k]] /\ \A k \in 1 .. c : k \in 1 .. m
      BY <2>5, <3>2
    <3>4. \A k \in 1 .. c : x[k] = lines[t + k].text
      BY <2>3, <3>2, <3>3
    <3>5. QED
      BY <3>1, <3>3, <3>4, Zenon
  <2>7. SubSeq(rest, 1, c) = SubSeq(lines, t + 1, t + c) /\ Len(rest) = r
    <3>1. \A i \in t + 1 .. N : lines[i] \in Line
      OBVIOUS
    <3>2. t + 1 \in Int /\ N \in Int /\ N - (t + 1) + 1 = r /\ (t + 1 <= N <=> r # 0)
      BY <1>1
    <3>3. /\ rest \in Seq(Line) /\ Len(rest) = IF t + 1 <= N THEN N - (t + 1) + 1 ELSE 0
          /\ \A k \in 1 .. N - (t + 1) + 1 : rest[k] = lines[t + 1 + k - 1]
      BY <3>1, <3>2, SubSeqProperties
    <3>4. Len(rest) = r
      BY <3>2, <3>3
    <3>5. \A k \in 1 .. r : t + 1 + k - 1 = t + k
      OBVIOUS
    <3>6. \A k \in 1 .. r : rest[k] = lines[t + k]
      BY <3>2, <3>3, <3>5
    <3>7. PICK x : x = SubSeq(rest, 1, c)
      OBVIOUS
    <3>8. x \in Seq(Line) /\ Len(x) = c /\ \A k \in 1 .. c : x[k] = rest[k]
      BY <2>5, <3>3, <3>4, <3>7
    <3>9. PICK y : y = SubSeq(lines, t + 1, t + c)
      OBVIOUS
    <3>10. y \in Seq(Line) /\ Len(y) = c /\ \A k \in 1 .. c : y[k] = lines[t + k]
      <4>1. \A i \in t + 1 .. t + c : lines[i] \in Line
        BY <1>1, <2>5
      <4>2. t + 1 \in Int /\ t + c \in Int /\ t + c - (t + 1) + 1 = c /\ (t + 1 <= t + c <=> c # 0)
        OBVIOUS
      <4>3. /\ y \in Seq(Line) /\ Len(y) = IF t + 1 <= t + c THEN t + c - (t + 1) + 1 ELSE 0
            /\ \A k \in 1 .. t + c - (t + 1) + 1 : y[k] = lines[t + 1 + k - 1]
        BY <3>9, <4>1, <4>2, SubSeqProperties
      <4>4. Len(y) = c
        BY <4>2, <4>3
      <4>5. \A k \in 1 .. c : t + 1 + k - 1 = t + k
        OBVIOUS
      <4>6. QED
        BY <4>2, <4>3, <4>4, <4>5
    <3>11. \A k \in 1 .. c : k \in 1 .. r
      BY <2>5
    <3>12. x = [k \in 1 .. c |-> x[k]] /\ y = [k \in 1 .. c |-> y[k]]
      BY <3>8, <3>10
    <3>13. \A k \in 1 .. c : x[k] = y[k]
      BY <3>6, <3>8, <3>10, <3>11
    <3>14. x = y
      BY <3>12, <3>13, Zenon
    <3>15. QED
      BY <3>4, <3>7, <3>9, <3>14
  <2>8. TextsOf(SubSeq(lines, t + 1, t + c)) = [k \in 1 .. c |-> lines[t + k].text]
    <3>1. t \in 0 .. Len(lines) /\ t + c <= Len(lines)
      BY <1>1, <2>5
    <3>2. QED
      BY <3>1, LinesOf
  <2>9. QED
    BY <1>4, <2>3, <2>5, <2>6, <2>7, <2>8, Zenon
<1>5. QED
  BY <1>3, <1>4

\* ReadFileIntoVector returns the next lines, up to its limit.
LEMMA VectorKeeps == LinesIInv /\ (\E max \in 0..2 : ReadFileIntoVector(max)) => LinesIInv'
<1> SUFFICES ASSUME LinesIInv, NEW max \in 0..2, ReadFileIntoVector(max) PROVE LinesIInv'
  OBVIOUS
<1>1. PICK upto : upto = IF max <= 0 THEN Len(chars) ELSE max + 1
  OBVIOUS
<1>2. PICK all : all = LinesFrom(cursor, upto)
  OBVIOUS
<1>3. /\ mode = "r" /\ mode' = mode /\ chars' = chars /\ written' = written
      /\ cursor' = all.at /\ taken' = taken + Len(all.lines)
  BY <1>1, <1>2 DEF ReadFileIntoVector
<1>4. PICK some : some = IF max <= 0 THEN all.lines
                         ELSE SubSeq(all.lines, 1, Min({max, Len(all.lines)}))
  OBVIOUS
<1>5. lineRead' = [call |-> "vector", max |-> max, from |-> taken, lines |-> some]
  BY <1>1, <1>2, <1>4, Zenon DEF ReadFileIntoVector
<1>6. AllFit' <=> AllFit
  BY <1>3 DEF AllFit
<1>7. upto \in Nat /\ Len(written) \in Nat
  BY <1>1 DEF LinesIInv
<1>8. ASSUME AllFit
      PROVE  /\ \E P : Laid(chars, written, P) /\ taken' \in 0 .. Len(written) /\ cursor' = P[taken']
             /\ LET rest == SubSeq(written, taken + 1, Len(written)) IN
                some = TextsOf(IF max <= 0 THEN rest ELSE SubSeq(rest, 1, Min({max, Len(rest)})))
  <2>1. PICK P, t, m, texts :
           /\ Laid(chars, written, P) /\ t \in 0 .. Len(written) /\ t = taken
           /\ m = Least(upto, Len(written) - t) /\ texts = NextTexts(written, t, upto)
           /\ LinesFrom(cursor, upto) = [at |-> P[t + m], lines |-> texts]
           /\ Len(texts) = m /\ t + m \in 0 .. Len(written)
    BY <1>7, <1>8, ReadFromHere
  <2>2. taken' = t + m /\ cursor' = P[t + m] /\ all.lines = texts
    BY <1>2, <1>3, <2>1
  <2>3. PICK lines, N, rest : lines = written /\ N = Len(written) /\ rest = SubSeq(lines, t + 1, N)
    OBVIOUS
  <2>4. lines \in Seq(Line) /\ N = Len(lines) /\ N \in Nat /\ t \in 0 .. N /\ max \in Nat
    BY <2>1, <2>3 DEF LinesIInv
  <2>5. max = 0 => upto >= N - t
    <3>1. N <= Len(chars) /\ Len(chars) \in Nat
      <4>1. PICK cs : cs = chars
        OBVIOUS
      <4>2. Laid(cs, lines, P)
        BY <2>1, <2>3, <4>1
      <4>3. Len(lines) <= Len(cs)
        BY <2>4, <4>2, LinesAreLong
      <4>4. QED
        BY <2>4, <4>1, <4>3 DEF LinesIInv
    <3>2. QED
      BY <1>1, <2>4, <3>1
  <2>6. max # 0 => upto = max + 1
    BY <1>1
  <2>7. texts = NextTexts(lines, t, upto)
    BY <2>1, <2>3
  <2>8. /\ max = 0 => texts = TextsOf(rest)
        /\ max # 0 => SubSeq(texts, 1, Min({max, Len(texts)})) =
                        TextsOf(SubSeq(rest, 1, Min({max, Len(rest)})))
    <3>1. Upto(lines, N, t, max, upto, texts, rest)
      BY <1>7, <2>3, <2>4, <2>5, <2>6, <2>7, Zenon DEF Upto
    <3>2. Limited(max, texts, rest)
      BY <3>1, NextAreRest, Zenon
    <3>3. QED
      BY <3>2, Zenon DEF Limited
  <2>9. rest = SubSeq(written, taken + 1, Len(written))
    BY <2>1, <2>3
  <2>10. some = TextsOf(IF max <= 0 THEN rest ELSE SubSeq(rest, 1, Min({max, Len(rest)})))
    <3>1. CASE max = 0
      BY <1>4, <2>2, <2>8, <3>1
    <3>2. CASE max # 0
      <4>1. ~(max <= 0)
        BY <3>2
      <4>2. QED
        BY <1>4, <2>2, <2>8, <3>2, <4>1, Zenon
    <3>3. QED
      BY <3>1, <3>2
  <2>11. QED
    BY <2>1, <2>2, <2>9, <2>10, Zenon
<1>9. LinesLaid'
  <2>1. CASE AllFit
    BY <1>3, <1>8, <2>1 DEF LinesLaid
  <2>2. CASE ~AllFit
    <3>1. PICK P : Laid(chars, written, P)
      BY DEF LinesIInv, LinesLaid
    <3>2. QED
      BY <1>3, <1>6, <2>2, <3>1 DEF LinesLaid
  <2>3. QED
    BY <2>1, <2>2
<1>10. LinesReadBack'
  <2>1. /\ lineRead'.call = "vector" /\ ~(lineRead'.call = "ReadLine")
        /\ lineRead'.from = taken /\ lineRead'.max = max /\ lineRead'.lines = some
    BY <1>5
  <2>2. (\A i \in DOMAIN written : Fits(written[i]))' => AllFit
    BY <1>3 DEF AllFit, Fits
  <2>3. (\A i \in DOMAIN written : Fits(written[i]))' =>
           LET rest == SubSeq(written', lineRead'.from + 1, Len(written')) IN
           lineRead'.lines =
             TextsOf(IF lineRead'.max <= 0 THEN rest
                     ELSE SubSeq(rest, 1, Min({lineRead'.max, Len(rest)})))
    BY <1>3, <1>8, <2>1, <2>2, Zenon
  <2>4. QED
    BY <2>1, <2>3, Zenon DEF LinesReadBack
<1>11. QED
  BY <1>3, <1>9, <1>10 DEF LinesIInv

LEMMA LinesInductive == LinesIInv /\ [LineNext]_lineVars => LinesIInv'
<1>1. LinesIInv /\ UNCHANGED lineVars => LinesIInv'
  <2> SUFFICES ASSUME LinesIInv, UNCHANGED lineVars PROVE LinesIInv'
    OBVIOUS
  <2>1. /\ chars' = chars /\ mode' = mode /\ cursor' = cursor /\ lineRead' = lineRead
        /\ written' = written /\ taken' = taken
    BY DEF lineVars
  <2>2. LinesLaid'
    BY <2>1 DEF LinesIInv, LinesLaid, AllFit
  <2>3. LinesReadBack'
    BY <2>1 DEF LinesIInv, LinesReadBack
  <2>4. QED
    BY <2>1, <2>2, <2>3 DEF LinesIInv
<1>2. QED
  BY <1>1, OpenTextKeeps, CloseTextKeeps, WriteLineKeeps, ReadLineKeeps, VectorKeeps,
     ReadLastLinesKeeps DEF LineNext

\* For lines of any length and any order of calls: as long as each line fits into the
\* buffer, ReadLine and ReadFileIntoVector return the lines that were written, each
\* once, in order and without its end, up to a limit or the end of the file; and
\* ReadLastLinesIntoVector returns the last lines, if its block is as long as they are.
THEOREM LinesAreRead == LineSpec => []LinesReadBack
<1>1. LinesIInv => LinesReadBack
  BY DEF LinesIInv
<1>2. QED
  BY <1>1, LinesInitially, LinesInductive, PTL DEF LineSpec

=============================================================================
