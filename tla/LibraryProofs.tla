--------------------------- MODULE LibraryProofs ---------------------------
(***************************************************************************)
(* Theorems about the parts of Library, each for any values of its         *)
(* constants.                                                              *)
(***************************************************************************)
EXTENDS FileHandles, Guards, EventBus, Backups, Logger, Graph, Colors, TLAPS,
        FiniteSetTheorems, SequenceTheorems, WellFoundedInduction

-----------------------------------------------------------------------------
(* FileHandles: HandlesHeldOnce is inductive with the types.  A handle     *)
(* that is given out is open for no path, so no object can have it.        *)

FileSpec == FileInit /\ [][FileNext]_fileVars

FileTypes ==
  /\ alive \subseteq Objects
  /\ handle \in [Objects -> 0..MaxHandles]
  /\ path \in [Objects -> Paths \cup {NoPath}]
  /\ table \in [1..MaxHandles -> Paths \cup {NoPath}]

FilesIInv == FileTypes /\ HandlesHeldOnce

LEMMA FilesInitially == FileInit => FilesIInv
  BY MaxHandlesAssumption DEF FileInit, FilesIInv, FileTypes, HandlesHeldOnce, Invalid

\* Closing o's handle, if it has one, leaves those of the others.
LEMMA Closing ==
  ASSUME FilesIInv, NEW o \in Objects, CloseHandle(o)
  PROVE  /\ handle' = [handle EXCEPT ![o] = Invalid]
         /\ table' \in [1..MaxHandles -> Paths \cup {NoPath}]
         /\ \A h \in 1..MaxHandles : h # handle[o] => table'[h] = table[h]
<1> USE MaxHandlesAssumption DEF FilesIInv, FileTypes, CloseHandle, Opened, Invalid
<1>1. CASE handle[o] = Invalid
  <2>1. handle = [handle EXCEPT ![o] = Invalid]
    BY <1>1
  <2>2. QED
    BY <1>1, <2>1
<1>2. CASE handle[o] # Invalid
  BY <1>2
<1>3. QED
  BY <1>1, <1>2

LEMMA FilesInductive == FilesIInv /\ [FileNext]_fileVars => FilesIInv'
<1> SUFFICES ASSUME FilesIInv, [FileNext]_fileVars PROVE FilesIInv'
  OBVIOUS
<1>0. /\ alive \subseteq Objects
      /\ handle \in [Objects -> 0..MaxHandles]
      /\ path \in [Objects -> Paths \cup {NoPath}]
      /\ table \in [1..MaxHandles -> Paths \cup {NoPath}]
      /\ HandlesHeldOnce
  BY DEF FilesIInv, FileTypes
<1> USE MaxHandlesAssumption DEF Invalid
<1>1. CASE ConstructFile
  <2>1. PICK o \in Objects \ alive, p \in Paths :
          /\ alive' = alive \cup {o} /\ table' = table
          /\ path' = [path EXCEPT ![o] = p] /\ handle' = [handle EXCEPT ![o] = Invalid]
    BY <1>1 DEF ConstructFile
  <2>2. FileTypes'
    BY <1>0, <2>1 DEF FileTypes
  <2>3. HandlesHeldOnce'
    BY <1>0, <2>1 DEF HandlesHeldOnce
  <2>4. QED
    BY <2>2, <2>3 DEF FilesIInv
<1>2. CASE MoveConstructFile
  <2>1. PICK o \in Objects \ alive, source \in alive :
          /\ alive' = alive \cup {o} /\ table' = table
          /\ handle' = [handle EXCEPT ![o] = handle[source], ![source] = Invalid]
          /\ path' = [path EXCEPT ![o] = path[source], ![source] = NoPath]
    BY <1>2 DEF MoveConstructFile
  <2>2. FileTypes'
    <3>1. o \in Objects /\ source \in Objects /\ alive' \subseteq Objects
      BY <1>0, <2>1
    <3>2. handle[source] \in 0..MaxHandles /\ 0 \in 0..MaxHandles
      BY <1>0, <3>1
    <3>3. handle' \in [Objects -> 0..MaxHandles]
      BY <1>0, <2>1, <3>2
    <3>4. path' \in [Objects -> Paths \cup {NoPath}]
      BY <1>0, <2>1, <3>1
    <3>5. QED
      BY <1>0, <2>1, <3>1, <3>3, <3>4 DEF FileTypes
  <2>3. HandlesHeldOnce'
    BY <1>0, <2>1 DEF HandlesHeldOnce
  <2>4. QED
    BY <2>2, <2>3 DEF FilesIInv
<1>3. CASE MoveAssignFile
  <2>1. PICK o \in alive, source \in alive :
          /\ o # source /\ alive' = alive /\ table' = table
          /\ handle' = [handle EXCEPT ![o] = handle[source], ![source] = Invalid]
          /\ path' = [path EXCEPT ![o] = path[source], ![source] = path[o]]
    BY <1>3 DEF MoveAssignFile
  <2>2. FileTypes'
    <3>1. o \in Objects /\ source \in Objects /\ alive' \subseteq Objects
      BY <1>0, <2>1
    <3>2. handle[source] \in 0..MaxHandles /\ 0 \in 0..MaxHandles
      BY <1>0, <3>1
    <3>3. handle' \in [Objects -> 0..MaxHandles]
      BY <1>0, <2>1, <3>2
    <3>4. path' \in [Objects -> Paths \cup {NoPath}]
      BY <1>0, <2>1, <3>1
    <3>5. QED
      BY <1>0, <2>1, <3>1, <3>3, <3>4 DEF FileTypes
  <2>3. HandlesHeldOnce'
    BY <1>0, <2>1 DEF HandlesHeldOnce
  <2>4. QED
    BY <2>2, <2>3 DEF FilesIInv
<1>4. CASE OpenFile
  <2>1. PICK o \in alive :
          \/ \E h \in FreeHandles :
               /\ path[o] # NoPath /\ Opened(h, path[o])
               /\ handle' = [handle EXCEPT ![o] = h]
          \/ handle' = [handle EXCEPT ![o] = Invalid] /\ UNCHANGED table
    BY <1>4 DEF OpenFile
  <2>2. alive' = alive /\ path' = path
    BY <1>4 DEF OpenFile
  <2>3. CASE handle' = [handle EXCEPT ![o] = Invalid] /\ UNCHANGED table
    <3>1. FileTypes'
      BY <1>0, <2>2, <2>3 DEF FileTypes
    <3>2. HandlesHeldOnce'
      BY <1>0, <2>2, <2>3 DEF HandlesHeldOnce
    <3>3. QED
      BY <3>1, <3>2 DEF FilesIInv
  <2>4. ASSUME NEW h \in FreeHandles, path[o] # NoPath, Opened(h, path[o]),
               handle' = [handle EXCEPT ![o] = h]
        PROVE  FilesIInv'
    <3>1. h \in 1..MaxHandles /\ table[h] = NoPath /\ table' = [table EXCEPT ![h] = path[o]]
      BY <1>0, <2>4 DEF FreeHandles, Opened
    <3>2. \A other \in Objects : handle[other] # h
      BY <1>0, <3>1 DEF HandlesHeldOnce
    <3>3. FileTypes'
      BY <1>0, <2>2, <2>4, <3>1 DEF FileTypes
    <3>4. HandlesHeldOnce'
      BY <1>0, <2>2, <2>4, <3>1, <3>2 DEF HandlesHeldOnce
    <3>5. QED
      BY <3>3, <3>4 DEF FilesIInv
  <2>5. QED
    BY <2>1, <2>3, <2>4
<1>5. ASSUME NEW o \in alive, CloseHandle(o),
             alive' \subseteq Objects, \A other \in alive : other \in alive' \/ other = o,
             path' \in [Objects -> Paths \cup {NoPath}],
             \A other \in Objects \ {o} : path'[other] = path[other]
      PROVE  FilesIInv'
  <2>1. /\ handle' = [handle EXCEPT ![o] = Invalid]
        /\ table' \in [1..MaxHandles -> Paths \cup {NoPath}]
        /\ \A h \in 1..MaxHandles : h # handle[o] => table'[h] = table[h]
    BY <1>0, <1>5, Closing
  <2>2. FileTypes'
    BY <1>0, <1>5, <2>1 DEF FileTypes
  <2>3. HandlesHeldOnce'
    <3> SUFFICES ASSUME NEW held \in Objects, handle'[held] # Invalid
                 PROVE  /\ held \in alive' /\ table'[handle'[held]] = path'[held] /\ path'[held] # NoPath
                        /\ \A other \in Objects \ {held} : handle'[other] # handle'[held]
      BY DEF HandlesHeldOnce
    <3>1. held # o /\ handle'[held] = handle[held]
      BY <1>0, <2>1
    <3>2. handle[held] \in 1..MaxHandles /\ handle[held] # handle[o]
      BY <1>0, <1>5, <3>1 DEF HandlesHeldOnce
    <3>3. QED
      BY <1>0, <1>5, <2>1, <3>1, <3>2 DEF HandlesHeldOnce
  <2>4. QED
    BY <2>2, <2>3 DEF FilesIInv
<1>6. CASE CloseFile
  BY <1>0, <1>5, <1>6 DEF CloseFile
<1>7. CASE DestroyFile
  <2>1. PICK o \in alive :
          CloseHandle(o) /\ alive' = alive \ {o} /\ path' = [path EXCEPT ![o] = NoPath]
    BY <1>7 DEF DestroyFile
  <2>2. QED
    BY <1>0, <1>5, <2>1
<1>8. CASE UNCHANGED fileVars
  BY <1>0, <1>8 DEF fileVars, FilesIInv, FileTypes, HandlesHeldOnce
<1>9. QED
  BY <1>1, <1>2, <1>3, <1>4, <1>6, <1>7, <1>8 DEF FileNext

\* No two File objects ever own one handle, and an open object's handle is open for
\* its own path, however objects are moved, opened, closed and destroyed.
THEOREM HeldOnce == FileSpec => []HandlesHeldOnce
<1>1. FilesIInv => HandlesHeldOnce
  BY DEF FilesIInv
<1>2. QED
  BY <1>1, FilesInitially, FilesInductive, PTL DEF FileSpec

-----------------------------------------------------------------------------
(* Guards: FunctionsRunOnce is about what has run in the end.  What makes  *)
(* it hold is who owns the functions meanwhile: no two objects hold the    *)
(* same one, none holds one that has run, and the functions due are those  *)
(* that have run and those that the objects' destructors would run.        *)

GuardSpec == GuardInit /\ [][GuardNext]_guardVars

Fns == Actions \cup {NoFn}
ObjectSet ==
  [is : {"guard", "transaction"}, fn : Fns, invoke : BOOLEAN, commit : Fns, rollback : Fns, back : BOOLEAN]

Held(o) == {o.fn, o.commit, o.rollback} \ {NoFn}

\* What o's destructor runs
Pending(o) == IF o.is = "guard" THEN o.fn ELSE IF o.back THEN o.rollback ELSE o.commit

Sound(o) ==
  /\ o.is = "guard" => o.commit = NoFn /\ o.rollback = NoFn /\ (o.fn # NoFn => o.invoke)
  /\ o.is = "transaction" => o.fn = NoFn /\ (o.commit = o.rollback => o.commit = NoFn)

\* Of the objects objs, the functions r that have run, and those that are due
OwnedOnce(objs, r, d) ==
  /\ objs \in Seq(ObjectSet) /\ r \in Seq(Actions) /\ d \in SUBSET Actions
  /\ \A i \in 1..Len(objs) : Sound(objs[i])
  /\ \A i, j \in 1..Len(objs) : i # j => Held(objs[i]) \cap Held(objs[j]) = {}
  /\ \A k, l \in 1..Len(r) : r[k] = r[l] => k = l
  /\ \A k \in 1..Len(r) : r[k] \in d /\ \A i \in 1..Len(objs) : r[k] \notin Held(objs[i])
  /\ \A i \in 1..Len(objs) : Pending(objs[i]) \in d \cup {NoFn}
  /\ \A f \in d : (\E k \in 1..Len(r) : r[k] = f) \/ (\E i \in 1..Len(objs) : Pending(objs[i]) = f)

Fresh(f, objs, r, d) ==
  /\ f \notin d
  /\ \A i \in 1..Len(objs) : f \notin Held(objs[i])
  /\ \A k \in 1..Len(r) : r[k] # f

GuardsIInv == OwnedOnce(objects, ran, due)

-----------------------------------------------------------------------------
\* What an object runs it holds, or it runs nothing.
LEMMA PendingHeld ==
  ASSUME NEW o \in ObjectSet
  PROVE  Pending(o) \in Held(o) \cup {NoFn} /\ Held(o) \subseteq Actions
  BY DEF ObjectSet, Pending, Held, Fns

LEMMA Prepended ==
  ASSUME NEW objs \in Seq(ObjectSet), NEW o \in ObjectSet
  PROVE  /\ <<o>> \o objs \in Seq(ObjectSet)
         /\ Len(<<o>> \o objs) = Len(objs) + 1
         /\ (<<o>> \o objs)[1] = o
         /\ \A i \in 1..Len(objs) : (<<o>> \o objs)[i + 1] = objs[i]
         /\ \A i \in 2..Len(objs) + 1 : (<<o>> \o objs)[i] = objs[i - 1]
  OBVIOUS

LEMMA Pushed ==
  ASSUME NEW objs, NEW r, NEW d, OwnedOnce(objs, r, d),
         NEW o \in ObjectSet, Sound(o), \A f \in Held(o) : Fresh(f, objs, r, d)
  PROVE  OwnedOnce(<<o>> \o objs, r, d \cup ({Pending(o)} \ {NoFn}))
<1> DEFINE s == <<o>> \o objs
           e == d \cup ({Pending(o)} \ {NoFn})
<1>0. objs \in Seq(ObjectSet) /\ r \in Seq(Actions) /\ d \in SUBSET Actions
  BY DEF OwnedOnce
<1>1. /\ s \in Seq(ObjectSet) /\ Len(s) = Len(objs) + 1 /\ s[1] = o
      /\ \A i \in 1..Len(objs) : s[i + 1] = objs[i]
      /\ \A i \in 2..Len(objs) + 1 : s[i] = objs[i - 1]
  BY <1>0, Prepended
<1>2. Pending(o) \in Held(o) \cup {NoFn} /\ Held(o) \subseteq Actions
  BY PendingHeld
<1>3. Len(objs) \in Nat
  BY <1>0
<1>4. \A i \in 1..Len(s) : i = 1 \/ (i \in 2..Len(objs) + 1 /\ i - 1 \in 1..Len(objs))
  BY <1>1, <1>3
<1>5. e \in SUBSET Actions
  BY <1>0, <1>2
<1> HIDE DEF s, e
<1>6. \A i \in 1..Len(s) : Sound(s[i])
  BY <1>1, <1>4 DEF OwnedOnce
<1>7. ASSUME NEW i \in 1..Len(s), NEW j \in 1..Len(s), i # j
      PROVE  Held(s[i]) \cap Held(s[j]) = {}
  <2>1. CASE i # 1 /\ j # 1
    <3>1. i - 1 \in 1..Len(objs) /\ j - 1 \in 1..Len(objs) /\ i - 1 # j - 1
      BY <1>1, <1>3, <1>4, <1>7, <2>1
    <3>2. Held(objs[i - 1]) \cap Held(objs[j - 1]) = {}
      BY <3>1 DEF OwnedOnce
    <3>3. s[i] = objs[i - 1] /\ s[j] = objs[j - 1]
      BY <1>1, <1>4, <2>1
    <3>4. QED
      BY <3>2, <3>3
  <2>2. \A l \in 1..Len(s) : l # 1 => Held(o) \cap Held(s[l]) = {}
    <3>1. \A l \in 1..Len(objs) : Held(o) \cap Held(objs[l]) = {}
      BY DEF Fresh
    <3>2. QED
      BY <1>1, <1>4, <3>1
  <2>3. CASE i = 1 \/ j = 1
    BY <1>1, <1>7, <2>2, <2>3
  <2>4. QED
    BY <1>7, <2>1, <2>3
<1>8. ASSUME NEW k \in 1..Len(r)
      PROVE  r[k] \in e /\ \A i \in 1..Len(s) : r[k] \notin Held(s[i])
  <2>1. r[k] \in e
    BY DEF OwnedOnce, e
  <2>2. r[k] \notin Held(o)
    BY DEF Fresh
  <2>3. QED
    BY <1>1, <1>4, <2>1, <2>2 DEF OwnedOnce
<1>9. \A i \in 1..Len(s) : Pending(s[i]) \in e \cup {NoFn}
  BY <1>1, <1>4 DEF OwnedOnce, e
<1>10. ASSUME NEW f \in e
       PROVE  (\E k \in 1..Len(r) : r[k] = f) \/ (\E i \in 1..Len(s) : Pending(s[i]) = f)
  <2>1. CASE f \in d
    <3>1. (\E k \in 1..Len(r) : r[k] = f) \/ (\E i \in 1..Len(objs) : Pending(objs[i]) = f)
      BY <2>1 DEF OwnedOnce
    <3>2. \A i \in 1..Len(objs) : i + 1 \in 1..Len(s) /\ s[i + 1] = objs[i]
      BY <1>1, <1>3
    <3>3. QED
      BY <3>1, <3>2
  <2>2. CASE f = Pending(o)
    <3>1. 1 \in 1..Len(s)
      BY <1>1, <1>3
    <3>2. QED
      BY <1>1, <2>2, <3>1
  <2>3. QED
    BY <2>1, <2>2 DEF e
<1>11. \A k, l \in 1..Len(r) : r[k] = r[l] => k = l
  BY DEF OwnedOnce
<1>12. OwnedOnce(s, r, e)
  BY <1>0, <1>1, <1>5, <1>6, <1>7, <1>8, <1>9, <1>10, <1>11 DEF OwnedOnce
<1>13. QED
  BY <1>12 DEF s, e

\* An object that drops functions and takes fresh ones
LEMMA Changed ==
  ASSUME NEW objs, NEW r, NEW d, OwnedOnce(objs, r, d), NEW n \in 1..Len(objs),
         NEW o \in ObjectSet, Sound(o),
         \A f \in Held(o) : f \in Held(objs[n]) \/ Fresh(f, objs, r, d)
  PROVE  OwnedOnce([objs EXCEPT ![n] = o], r,
                   (d \ {Pending(objs[n])}) \cup ({Pending(o)} \ {NoFn}))
<1> DEFINE s == [objs EXCEPT ![n] = o]
           e == (d \ {Pending(objs[n])}) \cup ({Pending(o)} \ {NoFn})
<1>0. objs \in Seq(ObjectSet) /\ r \in Seq(Actions) /\ d \in SUBSET Actions
  BY DEF OwnedOnce
<1>1. /\ s \in Seq(ObjectSet) /\ Len(s) = Len(objs) /\ s[n] = o
      /\ \A i \in 1..Len(objs) : i # n => s[i] = objs[i]
  BY <1>0
<1>2. /\ Pending(o) \in Held(o) \cup {NoFn} /\ Held(o) \subseteq Actions
      /\ objs[n] \in ObjectSet
      /\ \A i \in 1..Len(objs) : Pending(objs[i]) \in Held(objs[i]) \cup {NoFn}
  BY <1>0, PendingHeld
<1>3. e \in SUBSET Actions
  BY <1>0, <1>2
<1> HIDE DEF s, e
<1>4. \A i \in 1..Len(s) : Sound(s[i])
  BY <1>1 DEF OwnedOnce
<1>5. ASSUME NEW i \in 1..Len(s), NEW j \in 1..Len(s), i # j
      PROVE  Held(s[i]) \cap Held(s[j]) = {}
  <2>1. CASE i # n /\ j # n
    BY <1>1, <1>5, <2>1 DEF OwnedOnce
  <2>2. ASSUME NEW other \in 1..Len(objs), other # n
        PROVE  Held(o) \cap Held(objs[other]) = {}
    <3>1. Held(objs[n]) \cap Held(objs[other]) = {}
      BY <2>2 DEF OwnedOnce
    <3>2. QED
      BY <2>2, <3>1 DEF Fresh
  <2>3. CASE i = n \/ j = n
    BY <1>1, <1>5, <2>2, <2>3
  <2>4. QED
    BY <2>1, <2>2, <2>3
<1>6. ASSUME NEW k \in 1..Len(r)
      PROVE  r[k] \in e /\ \A i \in 1..Len(s) : r[k] \notin Held(s[i])
  <2>1. r[k] \in d /\ r[k] \notin Held(objs[n]) /\ r[k] # NoFn
    BY <1>0, NoFnAssumption DEF OwnedOnce
  <2>2. r[k] \in e
    BY <1>2, <2>1 DEF e
  <2>3. r[k] \notin Held(o)
    BY <2>1 DEF Fresh
  <2>4. QED
    BY <1>1, <2>2, <2>3 DEF OwnedOnce
<1>7. ASSUME NEW i \in 1..Len(s) PROVE Pending(s[i]) \in e \cup {NoFn}
  <2>1. CASE i = n
    BY <1>1, <2>1 DEF e
  <2>2. CASE i # n
    <3>1. s[i] = objs[i] /\ Pending(objs[i]) \in d \cup {NoFn}
      BY <1>1, <2>2 DEF OwnedOnce
    <3>2. Held(objs[i]) \cap Held(objs[n]) = {}
      BY <1>1, <2>2 DEF OwnedOnce
    <3>3. Pending(objs[i]) = NoFn \/ Pending(objs[i]) # Pending(objs[n])
      BY <1>1, <1>2, <3>2
    <3>4. QED
      BY <3>1, <3>3 DEF e
  <2>3. QED
    BY <2>1, <2>2
<1>8. ASSUME NEW f \in e
      PROVE  (\E k \in 1..Len(r) : r[k] = f) \/ (\E i \in 1..Len(s) : Pending(s[i]) = f)
  <2>1. CASE f = Pending(o)
    BY <1>1, <2>1
  <2>2. CASE f \in d /\ f # Pending(objs[n])
    BY <1>1, <2>2 DEF OwnedOnce
  <2>3. QED
    BY <2>1, <2>2 DEF e
<1>9. \A k, l \in 1..Len(r) : r[k] = r[l] => k = l
  BY DEF OwnedOnce
<1>10. OwnedOnce(s, r, e)
  BY <1>0, <1>1, <1>3, <1>4, <1>5, <1>6, <1>7, <1>8, <1>9 DEF OwnedOnce
<1>11. QED
  BY <1>10 DEF s, e

\* The first object is gone, and has run what it was to run.
LEMMA Popped ==
  ASSUME NEW objs, NEW r, NEW d, OwnedOnce(objs, r, d), objs # <<>>
  PROVE  /\ Pending(Head(objs)) = NoFn => OwnedOnce(Tail(objs), r, d)
         /\ Pending(Head(objs)) # NoFn => OwnedOnce(Tail(objs), Append(r, Pending(Head(objs))), d)
<1> DEFINE o == Head(objs)
           s == Tail(objs)
<1>0. objs \in Seq(ObjectSet) /\ r \in Seq(Actions) /\ d \in SUBSET Actions
  BY DEF OwnedOnce
<1>1. /\ o = objs[1] /\ o \in ObjectSet /\ 1 \in 1..Len(objs)
      /\ s \in Seq(ObjectSet) /\ Len(s) = Len(objs) - 1 /\ Len(objs) \in Nat
      /\ \A i \in 1..Len(s) : s[i] = objs[i + 1] /\ i + 1 \in 1..Len(objs) /\ i + 1 # 1
  BY <1>0
<1>2. /\ Pending(o) \in Held(o) \cup {NoFn} /\ Held(o) \subseteq Actions
      /\ \A i \in 1..Len(objs) : Pending(objs[i]) \in Held(objs[i]) \cup {NoFn}
  BY <1>0, <1>1, PendingHeld
<1>3. \A i \in 1..Len(objs) : i = 1 \/ (i - 1 \in 1..Len(s) /\ s[i - 1] = objs[i])
  BY <1>1
<1> HIDE DEF o, s
<1>4. /\ \A i \in 1..Len(s) : Sound(s[i])
      /\ \A i \in 1..Len(s) : Pending(s[i]) \in d \cup {NoFn}
      /\ \A i \in 1..Len(s) : Held(o) \cap Held(s[i]) = {}
  BY <1>1 DEF OwnedOnce
<1>5. ASSUME NEW i \in 1..Len(s), NEW j \in 1..Len(s), i # j
      PROVE  Held(s[i]) \cap Held(s[j]) = {}
  <2>1. i + 1 # j + 1
    BY <1>5
  <2>2. Held(objs[i + 1]) \cap Held(objs[j + 1]) = {}
    BY <1>1, <2>1 DEF OwnedOnce
  <2>3. QED
    BY <1>1, <2>2
<1>6. \A k \in 1..Len(r) : r[k] \in d /\ r[k] \notin Held(o) /\ \A i \in 1..Len(s) : r[k] \notin Held(s[i])
  BY <1>1 DEF OwnedOnce
<1>7. ASSUME NEW f \in d
      PROVE  \/ \E k \in 1..Len(r) : r[k] = f
             \/ \E i \in 1..Len(s) : Pending(s[i]) = f
             \/ f = Pending(o)
  <2>1. (\E k \in 1..Len(r) : r[k] = f) \/ (\E i \in 1..Len(objs) : Pending(objs[i]) = f)
    BY DEF OwnedOnce
  <2>2. QED
    BY <1>1, <1>3, <2>1
<1>8. \A k, l \in 1..Len(r) : r[k] = r[l] => k = l
  BY DEF OwnedOnce
<1>9. ASSUME Pending(o) = NoFn PROVE OwnedOnce(s, r, d)
  <2>1. \A f \in d : f # NoFn
    BY <1>0, NoFnAssumption
  <2>2. QED
    BY <1>0, <1>1, <1>4, <1>5, <1>6, <1>7, <1>8, <1>9, <2>1 DEF OwnedOnce
<1>10. ASSUME Pending(o) # NoFn PROVE OwnedOnce(s, Append(r, Pending(o)), d)
  <2> DEFINE q == Append(r, Pending(o))
  <2>1. Pending(o) \in Held(o) /\ Pending(o) \in Actions /\ Pending(o) \in d
    BY <1>1, <1>2, <1>10 DEF OwnedOnce
  <2>2. /\ q \in Seq(Actions) /\ Len(q) = Len(r) + 1 /\ q[Len(r) + 1] = Pending(o) /\ Len(r) \in Nat
        /\ \A k \in 1..Len(r) : q[k] = r[k]
    BY <1>0, <2>1
  <2>3. \A k \in 1..Len(q) : k \in 1..Len(r) \/ k = Len(r) + 1
    BY <2>2
  <2> HIDE DEF q
  <2>4. \A k \in 1..Len(q) : q[k] \in d /\ \A i \in 1..Len(s) : q[k] \notin Held(s[i])
    BY <1>4, <1>6, <2>1, <2>2, <2>3
  <2>5. ASSUME NEW k \in 1..Len(q), NEW l \in 1..Len(q), q[k] = q[l] PROVE k = l
    BY <1>6, <1>8, <2>1, <2>2, <2>3, <2>5
  <2>6. ASSUME NEW f \in d
        PROVE  (\E k \in 1..Len(q) : q[k] = f) \/ (\E i \in 1..Len(s) : Pending(s[i]) = f)
    <3>1. Len(r) + 1 \in 1..Len(q) /\ \A k \in 1..Len(r) : k \in 1..Len(q)
      BY <2>2
    <3>2. QED
      BY <1>7, <2>2, <3>1
  <2>7. OwnedOnce(s, q, d)
    BY <1>0, <1>1, <1>4, <1>5, <2>2, <2>4, <2>5, <2>6 DEF OwnedOnce
  <2>8. QED
    BY <2>7 DEF q
<1>11. QED
  BY <1>9, <1>10 DEF o, s

-----------------------------------------------------------------------------
(* The steps *)

LEMMA GuardsInitially == GuardInit => GuardsIInv
  BY DEF GuardInit, GuardsIInv, OwnedOnce

\* What is not Given is fresh, and none of the objects' functions is NoFn.
LEMMA UnusedFresh ==
  ASSUME GuardsIInv, NEW f \in Unused
  PROVE  Fresh(f, objects, ran, due) /\ f \in Actions /\ f # NoFn
<1>1. objects \in Seq(ObjectSet) /\ ran \in Seq(Actions)
  BY DEF GuardsIInv, OwnedOnce
<1>2. f \in Actions /\ f \notin due /\ f \notin ToSet(ran)
      /\ \A o \in ToSet(objects) : f \notin {o.fn, o.commit, o.rollback}
  BY DEF Unused, Given
<1>3. \A i \in 1..Len(objects) : objects[i] \in ToSet(objects)
  BY <1>1 DEF ToSet
<1>4. \A k \in 1..Len(ran) : ran[k] \in ToSet(ran)
  BY <1>1 DEF ToSet
<1>5. Fresh(f, objects, ran, due)
  BY <1>2, <1>3, <1>4 DEF Fresh, Held
<1>6. QED
  BY <1>2, <1>5, NoFnAssumption

LEMMA ConstructKeeps == GuardsIInv /\ Construct => GuardsIInv'
<1> SUFFICES ASSUME GuardsIInv, Construct PROVE GuardsIInv'
  OBVIOUS
<1>0. ran' = ran
  BY DEF Construct
<1>1. ASSUME NEW f \in Unused, objects' = <<Guard(f, TRUE)>> \o objects, due' = due \cup {f}
      PROVE  GuardsIInv'
  <2>1. Fresh(f, objects, ran, due) /\ f \in Actions /\ f # NoFn
    BY UnusedFresh
  <2>2. /\ Guard(f, TRUE) \in ObjectSet /\ Sound(Guard(f, TRUE)) /\ Pending(Guard(f, TRUE)) = f
        /\ Held(Guard(f, TRUE)) = {f}
    BY <2>1 DEF Guard, ObjectSet, Fns, Sound, Pending, Held
  <2>3. OwnedOnce(<<Guard(f, TRUE)>> \o objects, ran, due \cup ({f} \ {NoFn}))
    BY <2>1, <2>2, Pushed DEF GuardsIInv
  <2>4. {f} \ {NoFn} = {f}
    BY <2>1
  <2>5. QED
    BY <1>0, <1>1, <2>3, <2>4 DEF GuardsIInv
<1>2. ASSUME objects' = <<Guard(NoFn, FALSE)>> \o objects, due' = due
      PROVE  GuardsIInv'
  <2>1. /\ Guard(NoFn, FALSE) \in ObjectSet /\ Sound(Guard(NoFn, FALSE))
        /\ Pending(Guard(NoFn, FALSE)) = NoFn /\ Held(Guard(NoFn, FALSE)) = {}
    BY DEF Guard, ObjectSet, Fns, Sound, Pending, Held
  <2>2. OwnedOnce(<<Guard(NoFn, FALSE)>> \o objects, ran, due \cup ({NoFn} \ {NoFn}))
    BY <2>1, Pushed DEF GuardsIInv
  <2>3. due \cup ({NoFn} \ {NoFn}) = due
    OBVIOUS
  <2>4. QED
    BY <1>0, <1>2, <2>2, <2>3 DEF GuardsIInv
<1>3. ASSUME NEW c \in Unused \cup {NoFn}, NEW r \in Unused \cup {NoFn}, c = r => c = NoFn,
             objects' = <<Transaction(c, r)>> \o objects, due' = due \cup ({c} \ {NoFn})
      PROVE  GuardsIInv'
  <2>1. \A f \in {c, r} \ {NoFn} : Fresh(f, objects, ran, due) /\ f \in Actions
    BY UnusedFresh
  <2>2. /\ Transaction(c, r) \in ObjectSet /\ Sound(Transaction(c, r))
        /\ Pending(Transaction(c, r)) = c /\ Held(Transaction(c, r)) = {c, r} \ {NoFn}
    BY <1>3, <2>1 DEF Transaction, ObjectSet, Fns, Sound, Pending, Held
  <2>3. OwnedOnce(<<Transaction(c, r)>> \o objects, ran, due \cup ({c} \ {NoFn}))
    BY <2>1, <2>2, Pushed DEF GuardsIInv
  <2>4. QED
    BY <1>0, <1>3, <2>3 DEF GuardsIInv
<1>4. ASSUME objects' = <<Guard(NoFn, TRUE)>> \o objects, due' = due
      PROVE  GuardsIInv'
  <2>1. /\ Guard(NoFn, TRUE) \in ObjectSet /\ Sound(Guard(NoFn, TRUE))
        /\ Pending(Guard(NoFn, TRUE)) = NoFn /\ Held(Guard(NoFn, TRUE)) = {}
    BY DEF Guard, ObjectSet, Fns, Sound, Pending, Held
  <2>2. OwnedOnce(<<Guard(NoFn, TRUE)>> \o objects, ran, due \cup ({NoFn} \ {NoFn}))
    BY <2>1, Pushed DEF GuardsIInv
  <2>3. due \cup ({NoFn} \ {NoFn}) = due
    OBVIOUS
  <2>4. QED
    BY <1>0, <1>4, <2>2, <2>3 DEF GuardsIInv
<1>5. QED
  BY <1>1, <1>2, <1>3, <1>4 DEF Construct

LEMMA CopyKeeps == GuardsIInv /\ Copy => GuardsIInv'
<1> SUFFICES ASSUME GuardsIInv, Copy PROVE GuardsIInv'
  OBVIOUS
<1>1. ran' = ran
  BY DEF Copy
<1>2. PICK i \in DOMAIN objects, c \in Unused \cup {NoFn}, r \in Unused \cup {NoFn} :
        /\ c = r => c = NoFn
        /\ objects' = <<[Transaction(c, r) EXCEPT !.back = objects[i].back]>> \o objects
        /\ due' = due \cup
             ({IF [Transaction(c, r) EXCEPT !.back = objects[i].back].back THEN r ELSE c} \ {NoFn})
  BY DEF Copy
<1>3. objects[i].back \in BOOLEAN
  <2>1. objects \in Seq(ObjectSet)
    BY DEF GuardsIInv, OwnedOnce
  <2>2. objects[i] \in ObjectSet
    BY <2>1
  <2>3. QED
    BY <2>2 DEF ObjectSet
<1> DEFINE copy == [Transaction(c, r) EXCEPT !.back = objects[i].back]
<1>4. \A f \in {c, r} \ {NoFn} : Fresh(f, objects, ran, due) /\ f \in Actions
  BY UnusedFresh
<1>5. /\ copy \in ObjectSet /\ Sound(copy)
      /\ Pending(copy) = (IF copy.back THEN r ELSE c) /\ Held(copy) = {c, r} \ {NoFn}
  BY <1>2, <1>3, <1>4 DEF Transaction, ObjectSet, Fns, Sound, Pending, Held
<1>6. /\ objects' = <<copy>> \o objects
      /\ due' = due \cup ({Pending(copy)} \ {NoFn})
  BY <1>2, <1>5
<1> HIDE DEF copy
<1>7. OwnedOnce(<<copy>> \o objects, ran, due \cup ({Pending(copy)} \ {NoFn}))
  BY <1>4, <1>5, Pushed DEF GuardsIInv
<1>8. QED
  BY <1>1, <1>6, <1>7 DEF GuardsIInv

LEMMA MoveKeeps == GuardsIInv /\ MoveConstruct => GuardsIInv'
<1> SUFFICES ASSUME GuardsIInv, MoveConstruct PROVE GuardsIInv'
  OBVIOUS
<1>0. DOMAIN objects = 1..Len(objects)
  BY DEF GuardsIInv, OwnedOnce
<1>1. PICK n \in 1..Len(objects) :
        /\ IsGuard(n)
        /\ objects' = <<Guard(objects[n].fn, objects[n].invoke)>> \o [objects EXCEPT ![n].fn = NoFn]
  BY <1>0 DEF MoveConstruct
<1>2. ran' = ran /\ due' = due
  BY DEF MoveConstruct
<1>3. /\ objects \in Seq(ObjectSet) /\ ran \in Seq(Actions) /\ due \in SUBSET Actions
      /\ Sound(objects[n]) /\ objects[n] \in ObjectSet /\ Pending(objects[n]) \in due \cup {NoFn}
  BY DEF GuardsIInv, OwnedOnce
<1> DEFINE f == objects[n].fn
           old == [objects[n] EXCEPT !.fn = NoFn]
           new == Guard(f, objects[n].invoke)
           rest == [objects EXCEPT ![n] = old]
<1>4. /\ f \in Fns /\ Pending(objects[n]) = f /\ Held(objects[n]) = {f} \ {NoFn}
      /\ objects[n].is = "guard" /\ objects[n].commit = NoFn /\ objects[n].rollback = NoFn
      /\ objects[n].invoke \in BOOLEAN /\ (f # NoFn => objects[n].invoke)
  BY <1>1, <1>3 DEF IsGuard, ObjectSet, Sound, Pending, Held
<1>5. old \in ObjectSet /\ Sound(old) /\ Pending(old) = NoFn /\ Held(old) = {}
  BY <1>3, <1>4 DEF ObjectSet, Fns, Sound, Pending, Held
<1>6. new \in ObjectSet /\ Sound(new) /\ Pending(new) = f /\ Held(new) = {f} \ {NoFn}
  BY <1>4 DEF Guard, ObjectSet, Fns, Sound, Pending, Held
<1>7. objects' = <<new>> \o rest
  BY <1>1, <1>3
<1> HIDE DEF old, new
<1>8. OwnedOnce(rest, ran, (due \ {f}) \cup ({NoFn} \ {NoFn}))
  BY <1>1, <1>4, <1>5, Changed DEF GuardsIInv
<1>9. (due \ {f}) \cup ({NoFn} \ {NoFn}) = due \ {f}
  OBVIOUS
<1>10. ASSUME f # NoFn PROVE Fresh(f, rest, ran, due \ {f})
  <2>1. Len(rest) = Len(objects) /\ rest[n] = old /\ \A i \in 1..Len(objects) : i # n => rest[i] = objects[i]
    BY <1>1, <1>3
  <2>2. f \in Held(objects[n])
    BY <1>4, <1>10
  <2>3. \A i \in 1..Len(objects) : i # n => f \notin Held(objects[i])
    BY <1>1, <2>2 DEF GuardsIInv, OwnedOnce
  <2>4. \A k \in 1..Len(ran) : ran[k] # f
    BY <1>1, <2>2 DEF GuardsIInv, OwnedOnce
  <2>5. QED
    BY <1>5, <2>1, <2>3, <2>4 DEF Fresh
<1>11. OwnedOnce(<<new>> \o rest, ran, (due \ {f}) \cup ({f} \ {NoFn}))
  <2>1. \A g \in Held(new) : Fresh(g, rest, ran, due \ {f})
    BY <1>6, <1>10
  <2>2. OwnedOnce(rest, ran, due \ {f})
    BY <1>8, <1>9
  <2>3. OwnedOnce(<<new>> \o rest, ran, (due \ {f}) \cup ({Pending(new)} \ {NoFn}))
    BY <1>6, <2>1, <2>2, Pushed
  <2>4. QED
    BY <1>6, <2>3
<1>12. (due \ {f}) \cup ({f} \ {NoFn}) = due
  BY <1>3, <1>4, NoFnAssumption
<1>13. QED
  BY <1>2, <1>7, <1>11, <1>12 DEF GuardsIInv

LEMMA SwapKeeps == GuardsIInv /\ Swap => GuardsIInv'
<1> SUFFICES ASSUME GuardsIInv, Swap PROVE GuardsIInv'
  OBVIOUS
<1>0. DOMAIN objects = 1..Len(objects)
  BY DEF GuardsIInv, OwnedOnce
<1>1. PICK n \in 1..Len(objects), f \in Unused \cup {NoFn} :
        /\ IsGuard(n)
        /\ objects' = [objects EXCEPT ![n].fn = f, ![n].invoke = (f # NoFn)]
        /\ due' = (due \ {objects[n].fn}) \cup ({f} \ {NoFn})
  BY <1>0 DEF Swap
<1>2. ran' = ran
  BY DEF Swap
<1>3. objects \in Seq(ObjectSet) /\ Sound(objects[n]) /\ objects[n] \in ObjectSet
  BY DEF GuardsIInv, OwnedOnce
<1> DEFINE new == [objects[n] EXCEPT !.fn = f, !.invoke = (f # NoFn)]
<1>4. \A g \in {f} \ {NoFn} : Fresh(g, objects, ran, due) /\ g \in Actions
  BY UnusedFresh
<1>5. new \in ObjectSet /\ Sound(new) /\ Pending(new) = f /\ Held(new) = {f} \ {NoFn}
  BY <1>1, <1>3, <1>4 DEF IsGuard, ObjectSet, Fns, Sound, Pending, Held
<1>6. objects' = [objects EXCEPT ![n] = new] /\ Pending(objects[n]) = objects[n].fn
  BY <1>1, <1>3 DEF IsGuard, Pending
<1> HIDE DEF new
<1>7. OwnedOnce([objects EXCEPT ![n] = new], ran, (due \ {objects[n].fn}) \cup ({f} \ {NoFn}))
  <2>1. OwnedOnce(objects, ran, due)
    BY DEF GuardsIInv
  <2>2. \A g \in Held(new) : Fresh(g, objects, ran, due)
    BY <1>4, <1>5
  <2>3. OwnedOnce([objects EXCEPT ![n] = new], ran,
                  (due \ {Pending(objects[n])}) \cup ({Pending(new)} \ {NoFn}))
    BY <1>5, <2>1, <2>2, Changed
  <2>4. QED
    BY <1>5, <1>6, <2>3
<1>8. QED
  BY <1>1, <1>2, <1>6, <1>7 DEF GuardsIInv

LEMMA RollbackKeeps == GuardsIInv /\ Rollback => GuardsIInv'
<1> SUFFICES ASSUME GuardsIInv, Rollback PROVE GuardsIInv'
  OBVIOUS
<1>0. DOMAIN objects = 1..Len(objects)
  BY DEF GuardsIInv, OwnedOnce
<1>1. PICK n \in 1..Len(objects) :
        /\ ~IsGuard(n)
        /\ objects' = [objects EXCEPT ![n].back = TRUE]
        /\ due' = (due \ {objects[n].commit}) \cup ({objects[n].rollback} \ {NoFn})
  BY <1>0 DEF Rollback
<1>2. ran' = ran
  BY DEF Rollback
<1>3. /\ objects \in Seq(ObjectSet) /\ Sound(objects[n]) /\ objects[n] \in ObjectSet
      /\ due \in SUBSET Actions /\ Pending(objects[n]) \in due \cup {NoFn}
  BY DEF GuardsIInv, OwnedOnce
<1> DEFINE c == objects[n].commit
           b == objects[n].rollback
           new == [objects[n] EXCEPT !.back = TRUE]
<1>4. /\ objects[n].is = "transaction" /\ objects[n].fn = NoFn /\ (c = b => c = NoFn)
      /\ Pending(objects[n]) = (IF objects[n].back THEN b ELSE c)
      /\ Held(objects[n]) = {c, b} \ {NoFn}
  BY <1>1, <1>3 DEF IsGuard, ObjectSet, Sound, Pending, Held
<1>5. new \in ObjectSet /\ Sound(new) /\ Pending(new) = b /\ Held(new) = {c, b} \ {NoFn}
  BY <1>3, <1>4 DEF ObjectSet, Fns, Sound, Pending, Held
<1>6. objects' = [objects EXCEPT ![n] = new]
  BY <1>1, <1>3
<1> HIDE DEF new
<1>7. OwnedOnce([objects EXCEPT ![n] = new], ran, (due \ {Pending(objects[n])}) \cup ({b} \ {NoFn}))
  BY <1>4, <1>5, Changed DEF GuardsIInv
<1>8. (due \ {Pending(objects[n])}) \cup ({b} \ {NoFn}) = (due \ {c}) \cup ({b} \ {NoFn})
  <2>1. CASE ~objects[n].back
    BY <1>4, <2>1
  <2>2. CASE objects[n].back
    <3>1. NoFn \notin due
      BY <1>3, NoFnAssumption
    <3>2. ASSUME c # NoFn PROVE c \notin due
      <4>1. c \in Held(objects[n]) /\ c # Pending(objects[n])
        BY <1>4, <2>2, <3>2
      <4>2. \A i \in 1..Len(objects) : i # n => c \notin Held(objects[i])
        BY <1>1, <4>1 DEF GuardsIInv, OwnedOnce
      <4>3. \A i \in 1..Len(objects) : Pending(objects[i]) # c
        BY <1>3, <3>2, <4>1, <4>2, PendingHeld
      <4>4. \A k \in 1..Len(ran) : ran[k] # c
        BY <1>1, <4>1 DEF GuardsIInv, OwnedOnce
      <4>5. QED
        BY <4>3, <4>4 DEF GuardsIInv, OwnedOnce
    <3>3. c \notin due
      BY <3>1, <3>2
    <3>4. Pending(objects[n]) = b /\ (b \in due \/ b = NoFn)
      BY <1>3, <1>4, <2>2
    <3>5. QED
      BY <3>1, <3>3, <3>4
  <2>3. QED
    BY <2>1, <2>2
<1>9. QED
  BY <1>1, <1>2, <1>6, <1>7, <1>8 DEF GuardsIInv

LEMMA DestroyKeeps == GuardsIInv /\ Destroy => GuardsIInv'
<1> SUFFICES ASSUME GuardsIInv, Destroy PROVE GuardsIInv'
  OBVIOUS
<1>1. objects # <<>> /\ objects' = Tail(objects) /\ due' = due
  BY DEF Destroy
<1>2. objects \in Seq(ObjectSet) /\ Head(objects) \in ObjectSet /\ Sound(Head(objects))
  BY <1>1 DEF GuardsIInv, OwnedOnce
<1>3. /\ Pending(Head(objects)) = NoFn => ran' = ran
      /\ Pending(Head(objects)) # NoFn => ran' = Append(ran, Pending(Head(objects)))
  <2>1. CASE Head(objects).is = "guard"
    BY <1>2, <2>1 DEF Destroy, Runs, Pending, Sound
  <2>2. CASE Head(objects).is # "guard"
    BY <1>2, <2>2 DEF Destroy, Runs, Pending
  <2>3. QED
    BY <2>1, <2>2
<1>4. /\ Pending(Head(objects)) = NoFn => OwnedOnce(Tail(objects), ran, due)
      /\ Pending(Head(objects)) # NoFn =>
           OwnedOnce(Tail(objects), Append(ran, Pending(Head(objects))), due)
  BY <1>1, Popped DEF GuardsIInv
<1>5. QED
  BY <1>1, <1>3, <1>4 DEF GuardsIInv

LEMMA GuardsInductive == GuardsIInv /\ [GuardNext]_guardVars => GuardsIInv'
<1> SUFFICES ASSUME GuardsIInv, [GuardNext]_guardVars PROVE GuardsIInv'
  OBVIOUS
<1>1. CASE Throw \/ Catch \/ UNCHANGED guardVars
  BY <1>1 DEF Throw, Catch, guardVars, GuardsIInv
<1>2. QED
  BY <1>1, ConstructKeeps, CopyKeeps, MoveKeeps, SwapKeeps, RollbackKeeps, DestroyKeeps DEF GuardNext

\* Every function that a guard or a transaction is to run runs exactly once, however
\* the guards are moved and swapped and wherever exceptions end their scopes.
THEOREM RunOnce == GuardSpec => []FunctionsRunOnce
<1>1. GuardsIInv => FunctionsRunOnce
  <2> SUFFICES ASSUME GuardsIInv PROVE FunctionsRunOnce
    OBVIOUS
  <2>1. objects \in Seq(ObjectSet) /\ ran \in Seq(Actions) /\ due \in SUBSET Actions
    BY DEF GuardsIInv, OwnedOnce
  <2>2. DOMAIN ran = 1..Len(ran) /\ ToSet(ran) = {ran[k] : k \in 1..Len(ran)}
    BY <2>1 DEF ToSet
  <2>3. \A i, j \in DOMAIN ran : ran[i] = ran[j] => i = j
    BY <2>2 DEF GuardsIInv, OwnedOnce
  <2>4. ToSet(ran) \subseteq due
    BY <2>2 DEF GuardsIInv, OwnedOnce
  <2>5. ASSUME objects = <<>> PROVE due \subseteq ToSet(ran)
    <3>1. 1..Len(objects) = {}
      BY <2>5
    <3>2. \A f \in due : \E k \in 1..Len(ran) : ran[k] = f
      BY <3>1 DEF GuardsIInv, OwnedOnce
    <3>3. QED
      BY <2>2, <3>2
  <2>6. QED
    BY <2>3, <2>4, <2>5 DEF FunctionsRunOnce
<1>2. QED
  BY <1>1, GuardsInitially, GuardsInductive, PTL DEF GuardSpec

-----------------------------------------------------------------------------
(* EventBus: the nodes of an event's list are those of its handlers, each  *)
(* once and in the order in which they were subscribed; an invocation has  *)
(* called those behind the one it is at that are not its own to skip.      *)

\* A set of positions that is not empty has a smallest element.
LEMMA LeastPosition ==
  ASSUME NEW S \in SUBSET Nat, S # {}
  PROVE  \E x \in S : \A y \in S : x <= y
<1>1. PICK x \in S : \A y \in S : ~ (<<y, x>> \in OpToRel(<, Nat))
  BY NatLessThanWellFounded, WFMin
<1>2. \A y \in S : ~ (y < x)
  BY <1>1 DEF OpToRel
<1>3. \A y \in S : x <= y
  BY <1>2
<1>4. QED
  BY <1>3

LEMMA GreatestPosition ==
  ASSUME NEW n \in Nat, NEW S \in SUBSET (1 .. n), S # {}
  PROVE  \E x \in S : \A y \in S : y <= x
<1> DEFINE T == {n - j : j \in S}
<1>1. T \in SUBSET Nat /\ T # {}
  <2>1. \A j \in S : n - j \in Nat
    OBVIOUS
  <2>2. PICK j \in S : TRUE
    OBVIOUS
  <2>3. n - j \in T
    OBVIOUS
  <2>4. QED
    BY <2>1, <2>3
<1>2. PICK t \in T : \A u \in T : t <= u
  <2> HIDE DEF T
  <2> QED
    BY <1>1, LeastPosition
<1>3. PICK x \in S : t = n - x
  OBVIOUS
<1>4. \A y \in S : n - y \in T
  OBVIOUS
<1>5. \A y \in S : n - x <= n - y
  BY <1>2, <1>3, <1>4
<1>6. \A y \in S : y <= x
  BY <1>5
<1>7. QED
  BY <1>6

-----------------------------------------------------------------------------
BusSpec == BusInit /\ [][BusNext]_busVars

Node == [handler : Handlers, type : EventTypes, any : BOOLEAN]

\* A list of nodes: each handler once, those of a type next to each other
ListNodes(l) ==
  /\ l \in Seq(Node)
  /\ \A i, j \in 1..Len(l) : l[i].handler = l[j].handler => i = j
  /\ \A i, j, k \in 1..Len(l) : i < j /\ j < k /\ l[i].type = l[k].type => l[j].type = l[i].type

In(l) == {l[i].handler : i \in 1..Len(l)}

\* Where a handler is, or the end
Place(l, x) == IF x = End THEN Len(l) + 1 ELSE CHOOSE i \in 1..Len(l) : l[i].handler = x

WalkSet ==
  [type : EventTypes, in : BOOLEAN, called : Seq(Handlers), before : SUBSET Handlers,
   at : Handlers \cup {End}, end : Handlers \cup {End}]

\* What has been called is not behind the place the walk is at, and what is still to
\* be called is between it and the end.
WalkOK(l, w) ==
  LET behind == IF w.in THEN Place(l, w.at) ELSE Place(l, w.at) - 1 IN
  /\ w \in WalkSet
  /\ {w.at, w.end} \subseteq In(l) \cup {End} /\ w.before \subseteq In(l)
  /\ behind < Place(l, w.end)
  /\ \A i \in 1..Len(w.called) : w.called[i] \in In(l) /\ Place(l, w.called[i]) <= behind
  /\ \A i, j \in 1..Len(w.called) : w.called[i] = w.called[j] => i = j
  /\ \A b \in w.before :
       /\ l[Place(l, b)].type = w.type
       /\ \/ \E i \in 1..Len(w.called) : w.called[i] = b
          \/ behind < Place(l, b) /\ Place(l, b) < Place(l, w.end)

BusIInv ==
  /\ ListNodes(list)
  /\ walks \in Seq(WalkSet)
  /\ \A n \in 1..Len(walks) : WalkOK(list, walks[n])

-----------------------------------------------------------------------------
LEMMA InsertAtParts ==
  ASSUME NEW S, NEW l \in Seq(S), NEW e \in S, NEW i \in 1 .. Len(l) + 1
  PROVE  LET n == InsertAt(l, i, e) IN
         /\ n \in Seq(S) /\ Len(n) = Len(l) + 1 /\ n[i] = e
         /\ \A j \in 1..Len(l) : n[IF j < i THEN j ELSE j + 1] = l[j]
<1> DEFINE a == SubSeq(l, 1, i - 1)
           b == SubSeq(l, i, Len(l))
           n == a \o <<e>> \o b
<1>1. a \in Seq(S) /\ Len(a) = i - 1 /\ \A j \in 1 .. i - 1 : a[j] = l[j]
  OBVIOUS
<1>2. /\ b \in Seq(S) /\ Len(b) = Len(l) + 1 - i
      /\ \A j \in 1 .. Len(l) + 1 - i : b[j] = l[i + j - 1]
  OBVIOUS
<1>3. Len(l) \in Nat
  OBVIOUS
<1> HIDE DEF a, b
<1>4. a \o <<e>> \in Seq(S) /\ Len(a \o <<e>>) = i
  BY <1>1
<1>5. (a \o <<e>>)[i] = e /\ \A j \in 1 .. i - 1 : (a \o <<e>>)[j] = l[j]
  BY <1>1
<1>6. n \in Seq(S) /\ Len(n) = Len(l) + 1
  BY <1>2, <1>3, <1>4
<1>7. \A j \in 1 .. i : n[j] = (a \o <<e>>)[j]
  BY <1>2, <1>3, <1>4
<1>8. ASSUME NEW j \in 1..Len(l), i <= j PROVE n[j + 1] = l[j]
  <2>1. n[j + 1] = b[j + 1 - i]
    BY <1>2, <1>3, <1>4, <1>8
  <2>2. j + 1 - i \in 1 .. Len(l) + 1 - i /\ i + (j + 1 - i) - 1 = j
    BY <1>3, <1>8
  <2>3. QED
    BY <1>2, <2>1, <2>2
<1>9. InsertAt(l, i, e) = n
  BY DEF InsertAt, a, b
<1> HIDE DEF n
<1>10. ASSUME NEW j \in 1..Len(l)
       PROVE  n[IF j < i THEN j ELSE j + 1] = l[j]
  <2>1. CASE j < i
    <3>1. j \in 1 .. i - 1 /\ j \in 1 .. i
      BY <1>3, <2>1
    <3>2. n[j] = l[j]
      BY <1>5, <1>7, <3>1
    <3>3. QED
      BY <2>1, <3>2
  <2>2. CASE i <= j
    BY <1>8, <2>2
  <2>3. QED
    BY <1>3, <2>1, <2>2
<1>11. n[i] = e
  <2>1. i \in 1 .. i
    BY <1>3
  <2>2. n[i] = (a \o <<e>>)[i]
    BY <1>7, <2>1
  <2>3. QED
    BY <1>5, <2>2
<1>12. QED
  BY <1>6, <1>9, <1>10, <1>11

LEMMA Placed ==
  ASSUME NEW l, ListNodes(l)
  PROVE  /\ Len(l) \in Nat /\ DOMAIN l = 1..Len(l)
         /\ Place(l, End) = Len(l) + 1
         /\ \A i \in 1..Len(l) : l[i] \in Node /\ l[i].handler # End /\ Place(l, l[i].handler) = i
         /\ \A x \in In(l) :
              x \in Handlers /\ x # End /\ Place(l, x) \in 1..Len(l) /\ l[Place(l, x)].handler = x
<1>1. l \in Seq(Node) /\ Len(l) \in Nat /\ DOMAIN l = 1..Len(l)
  BY DEF ListNodes
<1>2. ASSUME NEW i \in 1..Len(l)
      PROVE  l[i] \in Node /\ l[i].handler \in Handlers /\ l[i].handler # End
  <2>1. l[i] \in Node
    BY <1>1
  <2>2. l[i].handler \in Handlers
    BY <2>1 DEF Node
  <2>3. QED
    BY <2>1, <2>2, EndAssumption
<1>3. ASSUME NEW i \in 1..Len(l) PROVE Place(l, l[i].handler) = i
  <2>1. \A j \in 1..Len(l) : l[j].handler = l[i].handler => j = i
    BY DEF ListNodes
  <2>2. QED
    BY <1>2, <2>1 DEF Place
<1>4. QED
  BY <1>1, <1>2, <1>3 DEF In, Place

\* A node put into the list moves those behind it by one place.
LEMMA Inserted ==
  ASSUME NEW l, ListNodes(l), NEW e \in Node, e.handler \notin In(l),
         NEW i \in 1 .. Len(l) + 1, ListNodes(InsertAt(l, i, e))
  PROVE  LET n == InsertAt(l, i, e)
             New(p) == IF p < i THEN p ELSE p + 1
         IN /\ In(l) \subseteq In(n)
            /\ \A x \in In(l) \cup {End} : Place(n, x) = New(Place(l, x))
            /\ \A x \in In(l) : n[Place(n, x)] = l[Place(l, x)]
<1> DEFINE n == InsertAt(l, i, e)
           New(p) == IF p < i THEN p ELSE p + 1
<1>1. l \in Seq(Node) /\ Len(l) \in Nat
  BY DEF ListNodes
<1>2. /\ n \in Seq(Node) /\ Len(n) = Len(l) + 1
      /\ \A j \in 1..Len(l) : n[New(j)] = l[j]
  BY <1>1, InsertAtParts
<1> HIDE DEF n
<1>3. \A j \in 1..Len(l) : New(j) \in 1..Len(n)
  BY <1>1, <1>2
<1>4. ASSUME NEW x \in In(l)
      PROVE  x \in In(n) /\ Place(n, x) = New(Place(l, x)) /\ n[Place(n, x)] = l[Place(l, x)]
  <2>1. Place(l, x) \in 1..Len(l) /\ l[Place(l, x)].handler = x
    BY Placed
  <2>2. New(Place(l, x)) \in 1..Len(n) /\ n[New(Place(l, x))] = l[Place(l, x)]
    BY <1>2, <1>3, <2>1
  <2>3. Place(n, x) = New(Place(l, x))
    BY <2>1, <2>2, Placed DEF n
  <2>4. QED
    BY <2>1, <2>2, <2>3 DEF In
<1>5. Place(n, End) = New(Place(l, End))
  BY <1>1, <1>2, Placed DEF n
<1>6. QED
  BY <1>4, <1>5 DEF n

\* What a walk relies on is left as it was by a node put into the list.
LEMMA WalkKept ==
  ASSUME NEW l, ListNodes(l), NEW e \in Node, e.handler \notin In(l),
         NEW i \in 1 .. Len(l) + 1, ListNodes(InsertAt(l, i, e)), NEW w, WalkOK(l, w)
  PROVE  WalkOK(InsertAt(l, i, e), w)
<1> DEFINE n == InsertAt(l, i, e)
           New(p) == IF p < i THEN p ELSE p + 1
           old == IF w.in THEN Place(l, w.at) ELSE Place(l, w.at) - 1
           new == IF w.in THEN Place(n, w.at) ELSE Place(n, w.at) - 1
<1>1. /\ In(l) \subseteq In(n)
      /\ \A x \in In(l) \cup {End} : Place(n, x) = New(Place(l, x))
      /\ \A x \in In(l) : n[Place(n, x)] = l[Place(l, x)]
  BY Inserted
<1>2. /\ w \in WalkSet
      /\ {w.at, w.end} \subseteq In(l) \cup {End} /\ w.before \subseteq In(l)
      /\ old < Place(l, w.end)
      /\ \A k \in 1..Len(w.called) : w.called[k] \in In(l) /\ Place(l, w.called[k]) <= old
      /\ \A j, k \in 1..Len(w.called) : w.called[j] = w.called[k] => j = k
      /\ \A b \in w.before :
           /\ l[Place(l, b)].type = w.type
           /\ \/ \E k \in 1..Len(w.called) : w.called[k] = b
              \/ old < Place(l, b) /\ Place(l, b) < Place(l, w.end)
  BY DEF WalkOK
<1>3. \A x \in In(l) \cup {End} : Place(l, x) \in 1 .. Len(l) + 1
  BY Placed
<1>4. Len(l) \in Nat
  BY Placed
<1> HIDE DEF n
<1>5. /\ new < Place(n, w.end)
      /\ \A x \in In(l) : Place(l, x) <= old => Place(n, x) <= new
      /\ \A x \in In(l) : old < Place(l, x) /\ Place(l, x) < Place(l, w.end)
                            => new < Place(n, x) /\ Place(n, x) < Place(n, w.end)
  BY <1>1, <1>2, <1>3, <1>4, SMTT(30)
<1>6. \A k \in 1..Len(w.called) : w.called[k] \in In(n) /\ Place(n, w.called[k]) <= new
  BY <1>1, <1>2, <1>5
<1>7. \A b \in w.before :
        /\ n[Place(n, b)].type = w.type
        /\ \/ \E k \in 1..Len(w.called) : w.called[k] = b
           \/ new < Place(n, b) /\ Place(n, b) < Place(n, w.end)
  BY <1>1, <1>2, <1>5
<1>8. WalkOK(n, w)
  BY <1>1, <1>2, <1>5, <1>6, <1>7 DEF WalkOK
<1>9. QED
  BY <1>8 DEF n

\* A new handler is put next to those of its type, or between two types.
LEMMA InsertedInPlace ==
  ASSUME ListNodes(list), NEW e \in Node, e.handler \notin In(list), NEW i \in Places(e.type)
  PROVE  i \in 1 .. Len(list) + 1 /\ ListNodes(InsertAt(list, i, e))
<1> DEFINE n == InsertAt(list, i, e)
           Old(p) == IF p < i THEN p ELSE p - 1
<1>0. list \in Seq(Node) /\ Len(list) \in Nat /\ DOMAIN list = 1..Len(list)
  BY DEF ListNodes
<1>1. i \in 1 .. Len(list) + 1
  BY DEF Places
<1>2. /\ n \in Seq(Node) /\ Len(n) = Len(list) + 1 /\ n[i] = e
      /\ \A j \in 1..Len(list) : n[IF j < i THEN j ELSE j + 1] = list[j]
  <2>1. list \in Seq(Node)
    BY <1>0
  <2>2. QED
    BY <1>1, <2>1, InsertAtParts
<1> HIDE DEF n
<1>3. ASSUME NEW p \in 1..Len(n), p # i
      PROVE  Old(p) \in 1..Len(list) /\ n[p] = list[Old(p)]
  <2>1. CASE p < i
    <3>1. p \in 1..Len(list)
      BY <1>0, <1>1, <1>2, <2>1
    <3>2. QED
      BY <1>2, <2>1, <3>1
  <2>2. CASE i < p
    <3>1. p - 1 \in 1..Len(list) /\ ~(p - 1 < i) /\ ~(p < i) /\ (p - 1) + 1 = p
      BY <1>0, <1>1, <1>2, <2>2
    <3>2. n[(p - 1) + 1] = list[p - 1]
      BY <1>2, <3>1
    <3>3. QED
      BY <3>1, <3>2
  <2>3. QED
    BY <1>0, <1>1, <1>2, <1>3, <2>1, <2>2
<1>4. ASSUME NEW p \in 1..Len(n), NEW q \in 1..Len(n), n[p].handler = n[q].handler
      PROVE  p = q
  <2>1. CASE p # i /\ q # i
    <3>1. Old(p) = Old(q)
      BY <1>3, <1>4, <2>1, SMTT(30) DEF ListNodes
    <3>2. QED
      BY <1>0, <1>1, <1>2, <2>1, <3>1
  <2>2. \A r \in 1..Len(n) : r # i => n[r].handler # e.handler
    BY <1>3 DEF In
  <2>3. QED
    BY <1>2, <1>4, <2>1, <2>2
<1>5. ASSUME NEW p \in 1..Len(n), NEW q \in 1..Len(n), NEW r \in 1..Len(n),
             p < q, q < r, n[p].type = n[r].type
      PROVE  n[q].type = n[p].type
  <2>1. \A a, b, c \in 1..Len(list) :
          a < b /\ b < c /\ list[a].type = list[c].type => list[b].type = list[a].type
    BY DEF ListNodes
  <2>2. CASE p # i /\ q # i /\ r # i
    <3>1. Old(p) < Old(q) /\ Old(q) < Old(r)
      BY <1>0, <1>1, <1>2, <1>5, <2>2
    <3>2. /\ Old(p) \in 1..Len(list) /\ n[p] = list[Old(p)]
          /\ Old(q) \in 1..Len(list) /\ n[q] = list[Old(q)]
          /\ Old(r) \in 1..Len(list) /\ n[r] = list[Old(r)]
      BY <1>3, <2>2
    <3>3. list[Old(p)].type = list[Old(r)].type
      BY <1>5, <3>2
    <3> HIDE DEF Old
    <3>4. QED
      BY <2>1, <3>1, <3>2, <3>3
  <2>3. CASE q = i
    <3>1. Old(p) < i /\ i <= Old(r) /\ Old(p) \in 1..Len(list) /\ Old(r) \in 1..Len(list)
          /\ list[Old(p)].type = list[Old(r)].type
      BY <1>0, <1>1, <1>2, <1>3, <1>5, <2>3
    <3>2. i - 1 \in 1..Len(list) /\ i \in 1..Len(list)
      BY <1>0, <1>1, <3>1
    <3>3. list[i - 1].type = list[Old(p)].type /\ list[i].type = list[Old(p)].type
      BY <1>0, <1>1, <2>1, <3>1, <3>2
    <3>4. CASE OfType(e.type) # {}
      <4>1. list[i].type = e.type \/ list[i - 1].type = e.type
        BY <3>4 DEF Places, OfType
      <4>2. QED
        BY <1>2, <1>3, <1>5, <2>3, <3>3, <4>1
    <3>5. CASE OfType(e.type) = {}
      <4>1. i = 1 \/ i = Len(list) + 1 \/ list[i].type # list[i - 1].type
        BY <3>5 DEF Places
      <4>2. QED
        BY <1>0, <3>2, <3>3, <4>1
    <3>6. QED
      BY <3>4, <3>5
  <2>4. CASE p = i \/ r = i
    <3>0. DEFINE o == IF p = i THEN r ELSE p
    <3>1. /\ Old(o) \in 1..Len(list) /\ list[Old(o)].type = e.type
          /\ Old(q) \in 1..Len(list) /\ n[q] = list[Old(q)]
      BY <1>0, <1>1, <1>2, <1>3, <1>5, <2>4
    <3>2. OfType(e.type) # {}
      BY <1>0, <3>1 DEF OfType
    <3>3. PICK k \in {i, i - 1} : k \in 1..Len(list) /\ list[k].type = e.type
      BY <1>0, <3>2 DEF Places, OfType
    <3>4. list[Old(q)].type = e.type
      <4>1. CASE p = i
        <5>1. k <= Old(q) /\ Old(q) < Old(r) /\ o = r
          BY <1>0, <1>1, <1>2, <1>5, <3>3, <4>1
        <5>2. CASE k = Old(q)
          BY <3>3, <5>2
        <5>3. CASE k < Old(q)
          BY <2>1, <3>1, <3>3, <5>1, <5>3
        <5>4. QED
          BY <1>0, <1>1, <5>1, <5>2, <5>3
      <4>2. CASE r = i /\ p # i
        <5>1. Old(q) <= k /\ Old(p) < Old(q) /\ o = p
          BY <1>0, <1>1, <1>2, <1>5, <3>3, <4>2
        <5>2. CASE k = Old(q)
          BY <3>3, <5>2
        <5>3. CASE Old(q) < k
          BY <2>1, <3>1, <3>3, <5>1, <5>3, SMTT(30)
        <5>4. QED
          BY <1>0, <1>1, <3>3, <5>1, <5>2, <5>3
      <4>3. QED
        BY <2>4, <4>1, <4>2
    <3>5. n[p].type = e.type
      BY <1>2, <1>5, <2>4
    <3>6. QED
      BY <3>1, <3>4, <3>5
  <2>5. QED
    BY <2>2, <2>3, <2>4
<1>6. ListNodes(n)
  BY <1>2, <1>4, <1>5 DEF ListNodes
<1>7. QED
  BY <1>1, <1>6 DEF n

-----------------------------------------------------------------------------
LEMMA BusInitially == BusInit => BusIInv
  BY DEF BusInit, BusIInv, ListNodes

\* What is left of a sequence when its first n elements are gone
LEMMA Behind ==
  ASSUME NEW S, NEW s \in Seq(S), NEW n \in 1..Len(s)
  PROVE  LET r == SubSeq(s, n + 1, Len(s)) IN
         /\ r \in Seq(S) /\ Len(r) = Len(s) - n
         /\ \A k \in 1..Len(r) : k + n \in 1..Len(s) /\ r[k] = s[k + n]
<1>1. \A i \in n + 1 .. Len(s) : s[i] \in S
  OBVIOUS
<1>2. Len(s) \in Nat /\ n \in Nat /\ n <= Len(s)
  OBVIOUS
<1> DEFINE r == SubSeq(s, n + 1, Len(s))
<1>3. r \in Seq(S) /\ Len(r) = Len(s) - n
  BY <1>1, <1>2
<1>4. \A k \in 1 .. Len(s) - n : k + n \in 1..Len(s) /\ r[k] = s[k + n]
  BY <1>2
<1>5. QED
  BY <1>3, <1>4

LEMMA Innermost ==
  ASSUME BusIInv, walks # <<>>
  PROVE  /\ Head(walks) = walks[1] /\ 1 \in 1..Len(walks) /\ DOMAIN walks = 1..Len(walks)
         /\ walks[1] \in WalkSet /\ WalkOK(list, walks[1])
  BY DEF BusIInv

\* The innermost walk goes on, and the others wait.
LEMMA WalkReplaced ==
  ASSUME BusIInv, walks # <<>>, NEW w, WalkOK(list, w),
         list' = list, walks' = [walks EXCEPT ![1] = w]
  PROVE  BusIInv'
<1>1. w \in WalkSet
  BY DEF WalkOK
<1>2. walks' \in Seq(WalkSet) /\ Len(walks') = Len(walks)
  BY <1>1 DEF BusIInv
<1>3. \A n \in 1..Len(walks) : WalkOK(list, walks'[n])
  BY DEF BusIInv
<1>4. QED
  BY <1>2, <1>3 DEF BusIInv

LEMMA AddHandlerKeeps == BusIInv /\ AddHandler => BusIInv'
<1> SUFFICES ASSUME BusIInv, AddHandler PROVE BusIInv'
  OBVIOUS
<1>0. ListNodes(list) /\ DOMAIN list = 1..Len(list) /\ walks' = walks
  <2>1. ListNodes(list)
    BY DEF BusIInv
  <2>2. walks' = walks
    BY DEF AddHandler
  <2>3. QED
    BY <2>1, <2>2 DEF ListNodes
<1>1. PICK h \in Handlers \ In(list), t \in EventTypes, any \in BOOLEAN : \E i \in Places(t) :
        list' = InsertAt(list, i, [handler |-> h, type |-> t, any |-> any])
  BY <1>0 DEF AddHandler, In
<1> DEFINE e == [handler |-> h, type |-> t, any |-> any]
<1>2. e \in Node /\ e.handler \notin In(list) /\ e.type = t
  BY DEF Node
<1> HIDE DEF e
<1>3. PICK i \in Places(e.type) : list' = InsertAt(list, i, e)
  BY <1>1, <1>2 DEF e
<1>4. i \in 1 .. Len(list) + 1 /\ ListNodes(InsertAt(list, i, e))
  BY <1>0, <1>2, InsertedInPlace
<1>5. \A n \in 1..Len(walks) : WalkOK(InsertAt(list, i, e), walks[n])
  BY <1>0, <1>2, <1>4, WalkKept DEF BusIInv
<1>6. QED
  BY <1>0, <1>3, <1>4, <1>5 DEF BusIInv

LEMMA InvokeKeeps == BusIInv /\ Invoke => BusIInv'
<1> SUFFICES ASSUME BusIInv, Invoke PROVE BusIInv'
  OBVIOUS
<1>0. /\ ListNodes(list) /\ walks \in Seq(WalkSet) /\ \A n \in 1..Len(walks) : WalkOK(list, walks[n])
      /\ Len(list) \in Nat /\ DOMAIN list = 1..Len(list) /\ list' = list
      /\ Place(list, End) = Len(list) + 1
      /\ \A i \in 1..Len(list) : list[i] \in Node /\ Place(list, list[i].handler) = i
  BY Placed DEF BusIInv, Invoke
<1>1. PICK t \in EventTypes :
        LET of == OfType(t)
            first == CHOOSE i \in of : i - 1 \notin of
            last == CHOOSE i \in of : i + 1 \notin of
        IN walks' = <<[type |-> t, in |-> FALSE, called |-> <<>>,
                       before |-> {list[i].handler : i \in of},
                       at |-> IF of = {} THEN End ELSE HandlerAt(first),
                       end |-> IF of = {} THEN End ELSE HandlerAt(last + 1)]>> \o walks
  BY DEF Invoke
<1> DEFINE of == OfType(t)
           first == CHOOSE i \in of : i - 1 \notin of
           last == CHOOSE i \in of : i + 1 \notin of
           at == IF of = {} THEN End ELSE HandlerAt(first)
           end == IF of = {} THEN End ELSE HandlerAt(last + 1)
           before == {list[i].handler : i \in of}
           w == [type |-> t, in |-> FALSE, called |-> <<>>, before |-> before, at |-> at, end |-> end]
<1>2. of \subseteq 1..Len(list) /\ \A i \in 1..Len(list) : i \in of <=> list[i].type = t
  BY <1>0 DEF OfType
<1>3. \A i \in 1 .. Len(list) + 1 :
        /\ HandlerAt(i) \in In(list) \cup {End} /\ HandlerAt(i) \in Handlers \cup {End}
        /\ Place(list, HandlerAt(i)) = i
  BY <1>0 DEF HandlerAt, In, Node
<1>4. /\ {at, end} \subseteq In(list) \cup {End} /\ {at, end} \subseteq Handlers \cup {End}
      /\ Place(list, at) <= Place(list, end) /\ Place(list, at) \in Nat /\ Place(list, end) \in Nat
      /\ \A i \in of : Place(list, at) <= i /\ i < Place(list, end)
  <2>1. CASE of = {}
    BY <1>0, <2>1
  <2>2. CASE of # {}
    <3>1. PICK f \in of : \A j \in of : f <= j
      BY <1>2, <2>2, LeastPosition
    <3>2. PICK g \in of : \A j \in of : j <= g
      BY <1>0, <1>2, <2>2, GreatestPosition
    <3>3. f - 1 \notin of /\ g + 1 \notin of
      BY <1>2, <3>1, <3>2
    <3>4. first \in of /\ first - 1 \notin of /\ last \in of /\ last + 1 \notin of
      BY <3>3
    <3> HIDE DEF of, first, last
    <3>5. \A i \in of : first <= i
      <4> SUFFICES ASSUME NEW i \in of, i < first PROVE FALSE
        BY <1>2, <3>4
      <4>1. first - 1 \in 1..Len(list) /\ i <= first - 1
        BY <1>0, <1>2, <3>4
      <4>2. i # first - 1
        BY <3>4
      <4>3. list[first - 1].type = list[i].type
        BY <1>0, <1>2, <3>4, <4>1, <4>2, SMTT(30) DEF ListNodes
      <4>4. QED
        BY <1>2, <3>4, <4>1, <4>3
    <3>6. \A i \in of : i <= last
      <4> SUFFICES ASSUME NEW i \in of, last < i PROVE FALSE
        BY <1>2, <3>4
      <4>1. last + 1 \in 1..Len(list) /\ last + 1 <= i
        BY <1>0, <1>2, <3>4
      <4>2. i # last + 1
        BY <3>4
      <4>3. list[last + 1].type = list[last].type
        BY <1>0, <1>2, <3>4, <4>1, <4>2 DEF ListNodes
      <4>4. QED
        BY <1>2, <3>4, <4>1, <4>3
    <3>7. first \in 1 .. Len(list) + 1 /\ last + 1 \in 1 .. Len(list) + 1
      BY <1>0, <1>2, <3>4
    <3>8. Place(list, at) = first /\ Place(list, end) = last + 1
      BY <1>3, <2>2, <3>7
    <3>9. at = HandlerAt(first) /\ end = HandlerAt(last + 1)
      BY <2>2
    <3>10. {at, end} \subseteq In(list) \cup {End} /\ {at, end} \subseteq Handlers \cup {End}
      BY <1>3, <3>7, <3>9
    <3>11. first \in Nat /\ last \in Nat /\ first <= last /\ \A i \in of : i \in Nat
      BY <1>0, <1>2, <3>4, <3>5
    <3> HIDE DEF at, end
    <3>12. QED
      BY <3>5, <3>6, <3>8, <3>10, <3>11
  <2>3. QED
    BY <2>1, <2>2
<1>5. before \subseteq In(list) /\ before \subseteq Handlers
  BY <1>0, <1>2 DEF In, Node
<1>6. \A b \in before : \E i \in of : Place(list, b) = i /\ list[Place(list, b)].type = t
  BY <1>0, <1>2
<1>7. walks' = <<w>> \o walks
  BY <1>1
<1> HIDE DEF of, first, last, at, end, before
<1>8. w \in WalkSet
  BY <1>4, <1>5 DEF WalkSet
<1>9. WalkOK(list, w)
  <2>1. /\ w.in = FALSE /\ w.called = <<>> /\ w.at = at /\ w.end = end /\ w.before = before
        /\ w.type = t
    OBVIOUS
  <2> HIDE DEF w
  <2>2. \A b \in before :
          /\ list[Place(list, b)].type = t
          /\ Place(list, at) - 1 < Place(list, b) /\ Place(list, b) < Place(list, end)
    BY <1>0, <1>2, <1>4, <1>6
  <2>3. Place(list, at) - 1 < Place(list, end)
    BY <1>4
  <2>4. 1..Len(w.called) = {}
    BY <2>1
  <2>5. QED
    BY <1>4, <1>5, <1>8, <2>1, <2>2, <2>3, <2>4 DEF WalkOK
<1> HIDE DEF w
<1>10. /\ walks' \in Seq(WalkSet) /\ Len(walks') = Len(walks) + 1 /\ walks'[1] = w
       /\ \A n \in 2 .. Len(walks) + 1 : walks'[n] = walks[n - 1]
  BY <1>0, <1>7, <1>8
<1>11. \A n \in 1..Len(walks') : WalkOK(list, walks'[n])
  BY <1>0, <1>9, <1>10
<1>12. QED
  BY <1>0, <1>10, <1>11 DEF BusIInv

LEMMA CallHandlerKeeps == BusIInv /\ CallHandler => BusIInv'
<1> SUFFICES ASSUME BusIInv, CallHandler PROVE BusIInv'
  OBVIOUS
<1> DEFINE w == walks[1]
           node == list[Index(w.at)]
           taken == node.any \/ node.type = w.type
           v == [w EXCEPT !.in = TRUE, !.called = IF taken THEN Append(@, w.at) ELSE @]
<1>1. /\ walks # <<>> /\ Head(walks) = w /\ 1 \in 1..Len(walks) /\ DOMAIN walks = 1..Len(walks)
      /\ w \in WalkSet /\ WalkOK(list, w) /\ ListNodes(list)
  BY Innermost DEF CallHandler, BusIInv
<1>2. ~w.in /\ w.at # w.end /\ list' = list
  BY <1>1 DEF CallHandler
<1>3. walks' = [walks EXCEPT ![1] = v]
  BY <1>1 DEF CallHandler
<1>4. /\ w.type \in EventTypes /\ w.called \in Seq(Handlers) /\ w.before \subseteq Handlers
      /\ w.at \in Handlers \cup {End} /\ w.end \in Handlers \cup {End}
  BY <1>1 DEF WalkSet
<1>5. /\ {w.at, w.end} \subseteq In(list) \cup {End} /\ w.before \subseteq In(list)
      /\ Place(list, w.at) - 1 < Place(list, w.end)
      /\ \A i \in 1..Len(w.called) :
           w.called[i] \in In(list) /\ Place(list, w.called[i]) <= Place(list, w.at) - 1
      /\ \A i, j \in 1..Len(w.called) : w.called[i] = w.called[j] => i = j
      /\ \A b \in w.before :
           /\ list[Place(list, b)].type = w.type
           /\ \/ \E i \in 1..Len(w.called) : w.called[i] = b
              \/ Place(list, w.at) - 1 < Place(list, b) /\ Place(list, b) < Place(list, w.end)
  BY <1>1, <1>2 DEF WalkOK
<1>6. /\ Len(list) \in Nat /\ Place(list, End) = Len(list) + 1
      /\ \A x \in In(list) :
           x \in Handlers /\ x # End /\ Place(list, x) \in 1..Len(list) /\ list[Place(list, x)].handler = x
  BY <1>1, Placed
<1>7. w.at \in In(list) /\ Place(list, w.at) < Place(list, w.end)
  BY <1>2, <1>5, <1>6
<1>8. Index(w.at) = Place(list, w.at)
  <2>1. DOMAIN list = 1..Len(list)
    BY <1>1, Placed
  <2>2. w.at \in In(list) /\ w.at # End
    BY <1>6, <1>7
  <2>3. PICK x : x = w.at
    OBVIOUS
  <2>4. Index(x) = Place(list, x)
    BY <2>1, <2>2, <2>3 DEF Index, Place
  <2>5. QED
    BY <2>3, <2>4
<1>9. /\ v \in WalkSet
      /\ v.in = TRUE /\ v.at = w.at /\ v.end = w.end /\ v.before = w.before /\ v.type = w.type
      /\ v.called = IF taken THEN Append(w.called, w.at) ELSE w.called
  <2>1. w.at \in Handlers
    BY <1>6, <1>7
  <2>2. (IF taken THEN Append(w.called, w.at) ELSE w.called) \in Seq(Handlers)
    BY <1>4, <2>1
  <2>3. QED
    BY <1>1, <1>4, <2>2 DEF WalkSet
<1>10. \A b \in w.before : b = w.at => taken
  BY <1>5, <1>8
<1> HIDE DEF v, taken
<1>11. /\ \A i \in 1..Len(v.called) :
            v.called[i] \in In(list) /\ Place(list, v.called[i]) <= Place(list, w.at)
       /\ \A i, j \in 1..Len(v.called) : v.called[i] = v.called[j] => i = j
       /\ \A i \in 1..Len(w.called) : i \in 1..Len(v.called) /\ v.called[i] = w.called[i]
       /\ taken => \E i \in 1..Len(v.called) : v.called[i] = w.at
  <2>1. CASE ~taken
    <3>1. v.called = w.called
      BY <1>9, <2>1
    <3>2. \A i \in 1..Len(w.called) :
            w.called[i] \in In(list) /\ Place(list, w.called[i]) <= Place(list, w.at)
      BY <1>5, <1>6, <1>7
    <3>3. QED
      BY <1>5, <2>1, <3>1, <3>2
  <2>2. CASE taken
    <3>1. /\ v.called \in Seq(Handlers) /\ Len(v.called) = Len(w.called) + 1
          /\ v.called[Len(w.called) + 1] = w.at
          /\ \A i \in 1..Len(w.called) : v.called[i] = w.called[i]
      BY <1>4, <1>6, <1>7, <1>9, <2>2
    <3>2. Len(w.called) \in Nat
      BY <1>4
    <3>3. \A i \in 1..Len(w.called) : w.called[i] # w.at
      BY <1>5, <1>6, <1>7
    <3>4. \A i \in 1..Len(v.called) : i = Len(w.called) + 1 \/ i \in 1..Len(w.called)
      BY <3>1, <3>2
    <3>5. \A i \in 1..Len(w.called) : Place(list, w.called[i]) <= Place(list, w.at)
      BY <1>5, <1>6, <1>7
    <3>6. ASSUME NEW i \in 1..Len(v.called)
          PROVE  v.called[i] \in In(list) /\ Place(list, v.called[i]) <= Place(list, w.at)
      <4>1. CASE i = Len(w.called) + 1
        BY <1>6, <1>7, <3>1, <4>1
      <4>2. CASE i \in 1..Len(w.called)
        BY <1>5, <3>1, <3>5, <4>2
      <4>3. QED
        BY <3>4, <4>1, <4>2
    <3>7. \A i, j \in 1..Len(v.called) : v.called[i] = v.called[j] => i = j
      BY <1>5, <3>1, <3>3, <3>4
    <3>8. \A i \in 1..Len(w.called) : i \in 1..Len(v.called) /\ v.called[i] = w.called[i]
      BY <3>1, <3>2
    <3>9. Len(w.called) + 1 \in 1..Len(v.called)
      BY <3>1, <3>2
    <3>10. QED
      BY <3>1, <3>6, <3>7, <3>8, <3>9
  <2>3. QED
    BY <2>1, <2>2
<1>12. \A b \in w.before :
         \/ \E i \in 1..Len(v.called) : v.called[i] = b
         \/ Place(list, w.at) < Place(list, b) /\ Place(list, b) < Place(list, w.end)
  <2> SUFFICES ASSUME NEW b \in w.before, ~ \E i \in 1..Len(v.called) : v.called[i] = b
               PROVE  Place(list, w.at) < Place(list, b) /\ Place(list, b) < Place(list, w.end)
    OBVIOUS
  <2>1. Place(list, w.at) - 1 < Place(list, b) /\ Place(list, b) < Place(list, w.end)
    BY <1>5, <1>11
  <2>2. b # w.at
    BY <1>10, <1>11
  <2>3. b \in In(list)
    BY <1>5
  <2>4. Place(list, b) # Place(list, w.at)
    BY <1>6, <1>7, <2>2, <2>3
  <2>5. QED
    BY <1>6, <1>7, <2>1, <2>3, <2>4
<1>13. WalkOK(list, v)
  <2>1. /\ v \in WalkSet
        /\ v.in = TRUE /\ v.at = w.at /\ v.end = w.end /\ v.before = w.before /\ v.type = w.type
    BY <1>9
  <2>2. {v.at, v.end} \subseteq In(list) \cup {End} /\ v.before \subseteq In(list)
    BY <1>5, <1>7, <2>1
  <2>3. Place(list, v.at) < Place(list, v.end)
    BY <1>5, <1>7, <2>1
  <2>4. \A i \in 1..Len(v.called) : v.called[i] \in In(list) /\ Place(list, v.called[i]) <= Place(list, v.at)
    BY <1>11, <2>1
  <2>5. \A i, j \in 1..Len(v.called) : v.called[i] = v.called[j] => i = j
    BY <1>11
  <2>6. \A b \in v.before : list[Place(list, b)].type = v.type
    BY <1>5, <2>1
  <2>7. \A b \in v.before :
          \/ \E i \in 1..Len(v.called) : v.called[i] = b
          \/ Place(list, v.at) < Place(list, b) /\ Place(list, b) < Place(list, v.end)
    BY <1>12, <2>1
  <2>8. QED
    BY <2>1, <2>2, <2>3, <2>4, <2>5, <2>6, <2>7, Zenon DEF WalkOK
<1>14. QED
  BY <1>1, <1>2, <1>3, <1>13, WalkReplaced

LEMMA HandlerReturnsKeeps == BusIInv /\ HandlerReturns => BusIInv'
<1> SUFFICES ASSUME BusIInv, HandlerReturns PROVE BusIInv'
  OBVIOUS
<1> DEFINE w == walks[1]
           next == HandlerAt(Index(w.at) + 1)
           v == [w EXCEPT !.in = FALSE, !.at = next]
<1>1. /\ walks # <<>> /\ Head(walks) = w /\ 1 \in 1..Len(walks) /\ DOMAIN walks = 1..Len(walks)
      /\ w \in WalkSet /\ WalkOK(list, w) /\ ListNodes(list)
  BY Innermost DEF HandlerReturns, BusIInv
<1>2. w.in /\ list' = list
  BY <1>1 DEF HandlerReturns
<1>3. walks' = [walks EXCEPT ![1] = v]
  BY <1>1 DEF HandlerReturns
<1>4. /\ {w.at, w.end} \subseteq In(list) \cup {End} /\ w.before \subseteq In(list)
      /\ Place(list, w.at) < Place(list, w.end)
      /\ \A i \in 1..Len(w.called) :
           w.called[i] \in In(list) /\ Place(list, w.called[i]) <= Place(list, w.at)
      /\ \A i, j \in 1..Len(w.called) : w.called[i] = w.called[j] => i = j
      /\ \A b \in w.before :
           /\ list[Place(list, b)].type = w.type
           /\ \/ \E i \in 1..Len(w.called) : w.called[i] = b
              \/ Place(list, w.at) < Place(list, b) /\ Place(list, b) < Place(list, w.end)
  BY <1>1, <1>2 DEF WalkOK
<1>5. /\ Len(list) \in Nat /\ DOMAIN list = 1..Len(list) /\ Place(list, End) = Len(list) + 1
      /\ \A i \in 1..Len(list) : list[i] \in Node /\ Place(list, list[i].handler) = i
      /\ \A x \in In(list) :
           x \in Handlers /\ x # End /\ Place(list, x) \in 1..Len(list) /\ list[Place(list, x)].handler = x
  BY <1>1, Placed
<1>6. w.at \in In(list) /\ Place(list, w.at) + 1 \in 1 .. Len(list) + 1
  BY <1>4, <1>5
<1>7. Index(w.at) = Place(list, w.at)
  BY <1>5, <1>6 DEF Index, Place
<1>8. /\ next \in In(list) \cup {End} /\ next \in Handlers \cup {End}
      /\ Place(list, next) = Place(list, w.at) + 1
  BY <1>5, <1>6, <1>7 DEF HandlerAt, In, Node
<1> HIDE DEF next
<1>9. /\ v \in WalkSet
      /\ v.in = FALSE /\ v.at = next /\ v.end = w.end /\ v.before = w.before /\ v.type = w.type
      /\ v.called = w.called
  BY <1>1, <1>8 DEF WalkSet
<1> HIDE DEF v
<1>10. /\ Place(list, next) - 1 = Place(list, w.at)
  BY <1>5, <1>6, <1>8
<1>11. WalkOK(list, v)
  BY <1>4, <1>8, <1>9, <1>10 DEF WalkOK
<1>12. QED
  BY <1>1, <1>2, <1>3, <1>11, WalkReplaced

LEMMA UnwoundKeeps == BusIInv /\ (HandlerThrows \/ InvokeReturns) => BusIInv'
<1> SUFFICES ASSUME BusIInv, HandlerThrows \/ InvokeReturns PROVE BusIInv'
  OBVIOUS
<1>1. walks # <<>> /\ list' = list /\ walks \in Seq(WalkSet) /\ DOMAIN walks = 1..Len(walks)
  BY DEF HandlerThrows, InvokeReturns, BusIInv
<1>2. PICK n \in 1..Len(walks) : walks' = SubSeq(walks, n + 1, Len(walks))
  <2>1. CASE HandlerThrows
    BY <1>1, <2>1 DEF HandlerThrows
  <2>2. CASE InvokeReturns
    <3>1. walks' = SubSeq(walks, 1 + 1, Len(walks)) /\ 1 \in 1..Len(walks)
      BY <1>1, <2>2 DEF InvokeReturns
    <3>2. QED
      BY <3>1
  <2>3. QED
    BY <2>1, <2>2
<1>3. /\ walks' \in Seq(WalkSet) /\ Len(walks') = Len(walks) - n
      /\ \A k \in 1..Len(walks') : k + n \in 1..Len(walks) /\ walks'[k] = walks[k + n]
  BY <1>1, <1>2, Behind
<1>4. QED
  BY <1>1, <1>3 DEF BusIInv

LEMMA BusInductive == BusIInv /\ [BusNext]_busVars => BusIInv'
<1> SUFFICES ASSUME BusIInv, [BusNext]_busVars PROVE BusIInv'
  OBVIOUS
<1>1. CASE UNCHANGED busVars
  BY <1>1 DEF busVars, BusIInv
<1>2. QED
  BY <1>1, AddHandlerKeeps, InvokeKeeps, CallHandlerKeeps, HandlerReturnsKeeps, UnwoundKeeps
     DEF BusNext

\* For any handlers and any number of events, an event reaches each handler that was
\* there for it when invoke began, and none twice, whatever is added meanwhile.
THEOREM CalledOnce == BusSpec => []HandlersCalledOnce
<1>1. BusIInv => HandlersCalledOnce
  <2> SUFFICES ASSUME BusIInv, NEW n \in 1..Len(walks)
               PROVE  LET w == walks[n] IN
                      /\ \A i, j \in DOMAIN w.called : w.called[i] = w.called[j] => i = j
                      /\ ~w.in /\ w.at = w.end => w.before \subseteq ToSet(w.called)
    BY DEF HandlersCalledOnce, BusIInv
  <2> DEFINE w == walks[n]
  <2>1. WalkOK(list, w) /\ w \in WalkSet /\ ListNodes(list)
    BY DEF BusIInv
  <2>2. w.called \in Seq(Handlers) /\ DOMAIN w.called = 1..Len(w.called)
    BY <2>1 DEF WalkSet
  <2> HIDE DEF w
  <2>3. \A i, j \in DOMAIN w.called : w.called[i] = w.called[j] => i = j
    BY <2>1, <2>2 DEF WalkOK
  <2>4. ASSUME ~w.in, w.at = w.end, NEW b \in w.before PROVE b \in ToSet(w.called)
    <3>1. Place(list, w.at) \in Nat /\ Place(list, b) \in Nat
      BY <2>1, Placed DEF WalkOK
    <3>2. \E i \in 1..Len(w.called) : w.called[i] = b
      BY <2>1, <2>4, <3>1 DEF WalkOK
    <3>3. QED
      BY <2>2, <3>2 DEF ToSet
  <2>5. QED
    BY <2>3, <2>4 DEF w
<1>2. QED
  BY <1>1, BusInitially, BusInductive, PTL DEF BusSpec

-----------------------------------------------------------------------------
(* Logger: who is between flock and fclose is alone there, and the log ends*)
(* with what it has written so far of its message.  A message's line is    *)
(* begun after all the program's earlier lines, and one that waits for a   *)
(* message about its own failure is done with the file.                    *)

LogSpec == LogInit /\ [][LogNext]_logVars

Appenders == {"console", "file"}
Message ==
  [level : Levels, nr : Nat, todo : SUBSET Appenders, at : {"loop", "lock", "write"}, pos : 0..Blocks]
Block == [by : Loggers, nr : Nat, part : 1..Blocks]

LogTypes ==
  /\ logText \in Seq(Block)
  /\ logLock \in [Loggers -> {"none", "exclusive"}]
  /\ config \in [Loggers -> (SUBSET Appenders) \cup {None}]
  /\ logging \in [Loggers -> Seq(Message)]
  /\ console \in [Loggers -> Seq(Nat)]
  /\ said \in [Loggers -> Seq(SUBSET Appenders)]
  /\ missed \in [Loggers -> SUBSET Nat]
  /\ program \in [Loggers -> {"running", "aborted", "overflown", "killed"}]

\* p is between flock and fclose.
Writes(p) == Up(p) /\ logging[p] # <<>> /\ logging[p][1].at = "write"

\* The message's line is still to be begun.
LineDue(m) == "file" \in m.todo \/ m.at = "lock" \/ (m.at = "write" /\ m.pos = 0)

InFileOrMissed(p, n) == InFile(p, n) \/ n \in missed[p]

MessageOK(p, m) ==
  /\ m.nr \in 1..Len(said[p])
  /\ m.at # "loop" => "file" \notin m.todo
  /\ LineDue(m) =>
       /\ m.pos = 0
       /\ \A k \in 1..Len(logText) : logText[k].by = p => logText[k].nr < m.nr
  /\ "file" \in said[p][m.nr] => LineDue(m) \/ InFileOrMissed(p, m.nr)
  /\ "console" \in said[p][m.nr] => "console" \in m.todo \/ OnConsole(p, m.nr)

\* The messages that wait for one about their own failure are done with the file.
StackOfMessages(p) ==
  /\ \A i \in 1..Len(logging[p]) :
       /\ MessageOK(p, logging[p][i])
       /\ i # 1 => logging[p][i].at = "loop" /\ "file" \notin logging[p][i].todo
  /\ program[p] # "killed" =>
       \A n \in 1..Len(said[p]) :
         \/ \E i \in 1..Len(logging[p]) : logging[p][i].nr = n
         \/ /\ "file" \in said[p][n] => InFileOrMissed(p, n)
            /\ "console" \in said[p][n] => OnConsole(p, n)

Whole(i) ==
  /\ i + Blocks - 1 <= Len(logText)
  /\ \A k \in 1 .. Blocks - 1 : logText[i + k] = [logText[i] EXCEPT !.part = k + 1]

LinesOfLog ==
  /\ \A k \in 1..Len(logText) : logText[k].nr \in 1..Len(said[logText[k].by])
  /\ \A i, j \in 1..Len(logText) :
       i < j /\ logText[i].part = 1 /\ logText[j].part = 1 /\ logText[i].by = logText[j].by
         => logText[i].nr < logText[j].nr
  /\ \A i \in 1..Len(logText) : logText[i].part = 1 =>
       LET p == logText[i].by IN
       \/ Whole(i)
       \/ program[p] = "killed"
       \/ Writes(p) /\ i + logging[p][1].pos - 1 = Len(logText) /\ logging[p][1].pos # 0
  /\ \A p \in Loggers : Writes(p) =>
       LET m == logging[p][1] IN
       /\ m.pos <= Len(logText)
       /\ \A k \in 1..m.pos : logText[Len(logText) - m.pos + k] = [by |-> p, nr |-> m.nr, part |-> k]

LocksOfLog ==
  /\ \A p \in Loggers : logLock[p] = "exclusive" <=> Writes(p)
  /\ \A p, q \in Loggers : Writes(p) /\ Writes(q) => p = q

LogIInv == LogTypes /\ LocksOfLog /\ LinesOfLog /\ \A p \in Loggers : StackOfMessages(p)


LEMMA LogInitially == LogInit => LogIInv
<1> SUFFICES ASSUME LogInit PROVE LogIInv
  OBVIOUS
<1>1. LogTypes
  BY DEF LogInit, LogTypes
<1>2. /\ logText = <<>> /\ \A p \in Loggers : logging[p] = <<>> /\ said[p] = <<>> /\ logLock[p] = "none"
  BY DEF LogInit
<1>3. QED
  BY <1>1, <1>2 DEF LogIInv, LocksOfLog, LinesOfLog, StackOfMessages, Writes

\* What follows from the invariant: the property
LEMMA LogProperty == LogIInv => LogLinesWhole
<1> SUFFICES ASSUME LogIInv PROVE LogLinesWhole
  OBVIOUS
<1>1. LogTypes /\ LocksOfLog /\ LinesOfLog /\ \A p \in Loggers : StackOfMessages(p)
  BY DEF LogIInv
<1>2. /\ logText \in Seq(Block) /\ DOMAIN logText = 1..Len(logText)
      /\ LineStarts = {i \in 1..Len(logText) : logText[i].part = 1}
  BY <1>1 DEF LogTypes, LineStarts
<1>3. ASSUME NEW i \in LineStarts
      PROVE  Whole(i) \/ program[logText[i].by] = "killed" \/ logLock[logText[i].by] = "exclusive"
  <2>0. logText[i] \in Block
    BY <1>2
  <2>1. logText[i].by \in Loggers
    BY <2>0 DEF Block
  <2>2. QED
    BY <1>1, <1>2, <2>1 DEF LinesOfLog, LocksOfLog
<1>4. \A i, j \in LineStarts : i < j /\ logText[i].by = logText[j].by => logText[i].nr < logText[j].nr
  BY <1>1, <1>2 DEF LinesOfLog
<1>5. ASSUME NEW p \in Loggers, program[p] \in {"running", "aborted"}, NEW n \in DOMAIN said[p] \ UnderWay(p)
      PROVE  /\ "file" \in said[p][n] => InFile(p, n) \/ n \in missed[p]
             /\ "console" \in said[p][n] => OnConsole(p, n)
  <2>1. DOMAIN said[p] = 1..Len(said[p]) /\ DOMAIN logging[p] = 1..Len(logging[p])
    BY <1>1 DEF LogTypes
  <2>2. \A i \in 1..Len(logging[p]) : logging[p][i].nr # n
    BY <2>1 DEF UnderWay
  <2>3. QED
    BY <1>1, <1>5, <2>1, <2>2 DEF StackOfMessages, InFileOrMissed
<1>6. QED
  BY <1>3, <1>4, <1>5 DEF LogLinesWhole, Whole

-----------------------------------------------------------------------------
\* What p is done with it stays done with.
Kept(p) ==
  /\ logText' = logText
  /\ Len(said[p]) <= Len(said'[p])
  /\ \A n \in 1..Len(said[p]) : said'[p][n] = said[p][n]
  /\ missed[p] \subseteq missed'[p]
  /\ \A n \in Nat : OnConsole(p, n) => OnConsole(p, n)'

LEMMA MessageKept ==
  ASSUME NEW p \in Loggers, Kept(p), LogTypes, LogTypes', NEW m \in Message, MessageOK(p, m)
  PROVE  MessageOK(p, m)'
<1>1. m.nr \in 1..Len(said[p]) /\ m.nr \in 1..Len(said'[p]) /\ said'[p][m.nr] = said[p][m.nr]
  BY DEF MessageOK, Kept, LogTypes
<1>2. InFileOrMissed(p, m.nr) => InFileOrMissed(p, m.nr)'
  BY DEF InFileOrMissed, InFile, LineStarts, Kept
<1>3. OnConsole(p, m.nr) => OnConsole(p, m.nr)'
  BY <1>1 DEF Kept, LogTypes
<1>4. logText' = logText
  BY DEF Kept
<1>5. QED
  BY <1>1, <1>2, <1>3, <1>4 DEF MessageOK, LineDue

\* A step of p that leaves the log as it is: it neither takes a lock that another has
\* nor gives up its own within a line.
LEMMA StepOfOne ==
  ASSUME LogIInv, LogTypes', NEW p \in Loggers, logText' = logText,
         \A q \in Loggers \ {p} :
           /\ logging'[q] = logging[q] /\ said'[q] = said[q] /\ missed'[q] = missed[q]
           /\ console'[q] = console[q] /\ program'[q] = program[q] /\ logLock'[q] = logLock[q],
         StackOfMessages(p)', Len(said[p]) <= Len(said'[p]),
         program[p] = "killed" => program'[p] = "killed",
         logLock'[p] = "exclusive" <=> Writes(p)',
         \/ ~Writes(p)' /\ (Writes(p) => program'[p] = "killed" \/ logging[p][1].pos = Blocks)
         \/ ~Writes(p) /\ logging'[p][1].pos = 0 /\ \A q \in Loggers \ {p} : ~Writes(q)
  PROVE  LogIInv'
<1>1. LogTypes /\ LocksOfLog /\ LinesOfLog /\ \A q \in Loggers : StackOfMessages(q)
  BY DEF LogIInv
<1>2. \A q \in Loggers \ {p} : Writes(q)' <=> Writes(q)
  BY DEF Writes, Up
<1>3. LocksOfLog'
  BY <1>1, <1>2 DEF LocksOfLog
<1>4. \A q \in Loggers \ {p} : StackOfMessages(q)'
  <2> SUFFICES ASSUME NEW q \in Loggers \ {p} PROVE StackOfMessages(q)'
    OBVIOUS
  <2>1. /\ \A n : InFileOrMissed(q, n)' <=> InFileOrMissed(q, n)
        /\ \A n : OnConsole(q, n)' <=> OnConsole(q, n)
    BY DEF InFileOrMissed, InFile, LineStarts, OnConsole
  <2>2. \A m : MessageOK(q, m) => MessageOK(q, m)'
    BY <2>1 DEF MessageOK, LineDue
  <2>3. PICK z : z = logging[q]
    OBVIOUS
  <2>4. /\ \A i \in 1..Len(z) :
             MessageOK(q, z[i]) /\ (i # 1 => z[i].at = "loop" /\ "file" \notin z[i].todo)
        /\ program[q] # "killed" => \A n \in 1..Len(said[q]) :
             \/ \E i \in 1..Len(z) : z[i].nr = n
             \/ /\ "file" \in said[q][n] => InFileOrMissed(q, n)
                /\ "console" \in said[q][n] => OnConsole(q, n)
    BY <1>1, <2>3 DEF StackOfMessages
  <2>5. \A i \in 1..Len(z) : MessageOK(q, z[i])'
    BY <2>2, <2>4
  <2>6. logging'[q] = z
    BY <2>3
  <2>7. QED
    BY <2>1, <2>4, <2>5, <2>6 DEF StackOfMessages
<1>5. LinesOfLog'
  <2>1. logText \in Seq(Block) /\ Len(logText) \in Nat
    BY <1>1 DEF LogTypes
  <2>2. \A k \in 1..Len(logText) : logText[k] \in Block /\ logText[k].by \in Loggers
    <3>1. \A k \in 1..Len(logText) : logText[k] \in Block
      BY <2>1
    <3>2. QED
      BY <3>1 DEF Block
  <2>3. \A q \in Loggers : Len(said[q]) \in Nat /\ Len(said'[q]) \in Nat /\ Len(said[q]) <= Len(said'[q])
    <3>1. \A q \in Loggers : Len(said[q]) \in Nat
      BY <1>1 DEF LogTypes
    <3>2. Len(said'[p]) \in Nat
      BY DEF LogTypes
    <3>3. QED
      BY <3>1, <3>2
  <2>4. \A k \in 1..Len(logText) : logText[k].nr \in 1..Len(said'[logText[k].by])
    BY <1>1, <2>2, <2>3 DEF LinesOfLog
  <2>5. \A i \in 1..Len(logText) : Whole(i)' <=> Whole(i)
    BY DEF Whole
  <2>6. ASSUME NEW i \in 1..Len(logText), logText[i].part = 1
        PROVE  LET q == logText[i].by IN
               \/ Whole(i)'
               \/ program'[q] = "killed"
               \/ Writes(q)' /\ i + logging'[q][1].pos - 1 = Len(logText') /\ logging'[q][1].pos # 0
    <3> DEFINE q == logText[i].by
    <3>1. q \in Loggers
      BY <2>2
    <3>2. \/ Whole(i)
          \/ program[q] = "killed"
          \/ Writes(q) /\ i + logging[q][1].pos - 1 = Len(logText) /\ logging[q][1].pos # 0
      BY <1>1, <2>6 DEF LinesOfLog
    <3>3. CASE q # p
      BY <1>2, <2>5, <3>1, <3>2, <3>3
    <3>4. CASE q = p /\ Writes(q) /\ i + logging[q][1].pos - 1 = Len(logText) /\ logging[q][1].pos = Blocks
      <4>1. \A k \in 1..Blocks :
              logText[Len(logText) - Blocks + k] = [by |-> p, nr |-> logging[p][1].nr, part |-> k]
        BY <1>1, <3>4 DEF LinesOfLog
      <4>2. i = Len(logText) - Blocks + 1
        BY <2>1, <3>4, BlocksAssumption
      <4>3. 1 \in 1..Blocks /\ Len(logText) - Blocks + 1 = i
        BY <2>1, <4>2, BlocksAssumption
      <4>4. logText[i] = [by |-> p, nr |-> logging[p][1].nr, part |-> 1]
        BY <4>1, <4>3
      <4>5. \A k \in 1 .. Blocks - 1 :
              logText[i + k] = [by |-> p, nr |-> logging[p][1].nr, part |-> k + 1]
        <5> TAKE k \in 1 .. Blocks - 1
        <5>1. k + 1 \in 1..Blocks /\ i + k = Len(logText) - Blocks + (k + 1)
          BY <2>1, <4>2, BlocksAssumption
        <5>2. QED
          BY <4>1, <5>1
      <4>6. \A k \in 1 .. Blocks - 1 : logText[i + k] = [logText[i] EXCEPT !.part = k + 1]
        BY <4>4, <4>5
      <4>7. i + Blocks - 1 <= Len(logText)
        BY <2>1, <4>2, BlocksAssumption
      <4>8. Whole(i)
        BY <4>6, <4>7 DEF Whole
      <4>9. QED
        BY <2>5, <4>8
    <3>5. QED
      BY <2>5, <3>2, <3>3, <3>4
  <2>7. ASSUME NEW q \in Loggers, Writes(q)'
        PROVE  LET m == logging'[q][1] IN
               /\ m.pos <= Len(logText')
               /\ \A k \in 1..m.pos :
                    logText'[Len(logText') - m.pos + k] = [by |-> q, nr |-> m.nr, part |-> k]
    <3>1. CASE q # p
      BY <1>1, <1>2, <2>7, <3>1 DEF LinesOfLog
    <3>2. CASE q = p
      BY <2>1, <2>7, <3>2
    <3>3. QED
      BY <3>1, <3>2
  <2>8. \A i, j \in 1..Len(logText) :
          i < j /\ logText[i].part = 1 /\ logText[j].part = 1 /\ logText[i].by = logText[j].by
            => logText[i].nr < logText[j].nr
    BY <1>1 DEF LinesOfLog
  <2>9. QED
    BY <2>4, <2>6, <2>7, <2>8 DEF LinesOfLog
<1>6. QED
  BY <1>1, <1>3, <1>4, <1>5 DEF LogIInv

\* The message on top goes on.
LEMMA TopGoesOn ==
  ASSUME LogTypes, LogTypes', NEW p \in Loggers, Kept(p), StackOfMessages(p),
         NEW m \in Message, logging' = [logging EXCEPT ![p] = [@ EXCEPT ![1] = m]],
         logging[p] # <<>>, m.nr = logging[p][1].nr, MessageOK(p, m)', said' = said, program' = program
  PROVE  StackOfMessages(p)' /\ logging'[p] # <<>> /\ logging'[p][1] = m
<1>0. PICK s : s = logging[p]
  OBVIOUS
<1>1. /\ s \in Seq(Message) /\ Len(s) \in Nat /\ 1 \in 1..Len(s) /\ DOMAIN s = 1..Len(s)
      /\ \A i \in 1..Len(s) : s[i] \in Message
  <2>1. s \in Seq(Message) /\ s # <<>>
    BY <1>0 DEF LogTypes
  <2>2. QED
    BY <2>1
<1>2. PICK r : r = [s EXCEPT ![1] = m]
  OBVIOUS
<1>3. logging'[p] = r
  BY <1>0, <1>2 DEF LogTypes
<1>4. /\ Len(r) = Len(s) /\ r[1] = m /\ r # <<>>
      /\ \A i \in 1..Len(s) : i # 1 => r[i] = s[i]
  BY <1>1, <1>2
<1>5. \A i \in 1..Len(s) : MessageOK(p, s[i]) /\ (i # 1 => s[i].at = "loop" /\ "file" \notin s[i].todo)
  BY <1>0 DEF StackOfMessages
<1>6. \A i \in 1..Len(r) :
        /\ MessageOK(p, r[i])'
        /\ i # 1 => r[i].at = "loop" /\ "file" \notin r[i].todo
  <2> TAKE i \in 1..Len(r)
  <2>1. CASE i = 1
    BY <1>4, <2>1
  <2>2. CASE i # 1
    <3>1. r[i] = s[i] /\ MessageOK(p, s[i]) /\ s[i] \in Message
      BY <1>1, <1>4, <1>5, <2>2
    <3>2. MessageOK(p, s[i])'
      BY <3>1, MessageKept
    <3>3. QED
      BY <1>4, <1>5, <2>2, <3>1, <3>2
  <2>3. QED
    BY <2>1, <2>2
<1>7. \A i \in 1..Len(r) : r[i].nr = s[i].nr
  BY <1>0, <1>4
<1>8. ASSUME program[p] # "killed", NEW n \in 1..Len(said[p])
      PROVE  \/ \E i \in 1..Len(r) : r[i].nr = n
             \/ /\ "file" \in said[p][n] => InFileOrMissed(p, n)'
                /\ "console" \in said[p][n] => OnConsole(p, n)'
  <2>1. \/ \E i \in 1..Len(s) : s[i].nr = n
        \/ /\ "file" \in said[p][n] => InFileOrMissed(p, n)
           /\ "console" \in said[p][n] => OnConsole(p, n)
    BY <1>0, <1>8 DEF StackOfMessages
  <2>2. InFileOrMissed(p, n) => InFileOrMissed(p, n)'
    BY DEF InFileOrMissed, InFile, LineStarts, Kept
  <2>3. OnConsole(p, n) => OnConsole(p, n)'
    BY DEF Kept
  <2>4. QED
    BY <1>4, <1>7, <2>1, <2>2, <2>3
<1>9. StackOfMessages(p)'
  BY <1>3, <1>6, <1>8 DEF StackOfMessages
<1>10. QED
  BY <1>3, <1>4, <1>9

\* What the steps of a message start from
LEMMA TopParts ==
  ASSUME LogIInv, NEW p \in Loggers, NEW at, InLog(p, at)
  PROVE  /\ LogTypes /\ LocksOfLog /\ LinesOfLog /\ StackOfMessages(p)
         /\ program[p] = "running" /\ logging[p] # <<>> /\ logging[p] \in Seq(Message)
         /\ DOMAIN logging[p] = 1..Len(logging[p]) /\ 1 \in 1..Len(logging[p])
         /\ Top(p) = logging[p][1] /\ logging[p][1] \in Message
         /\ logging[p][1].at = at /\ MessageOK(p, logging[p][1])
         /\ Writes(p) <=> at = "write"
<1>1. LogTypes /\ LocksOfLog /\ LinesOfLog /\ StackOfMessages(p)
  BY DEF LogIInv
<1>2. program[p] = "running" /\ logging[p] # <<>> /\ Head(logging[p]).at = at
  BY DEF InLog, Up, Top
<1>3. /\ logging[p] \in Seq(Message) /\ DOMAIN logging[p] = 1..Len(logging[p])
      /\ 1 \in 1..Len(logging[p])
      /\ Head(logging[p]) = logging[p][1] /\ logging[p][1] \in Message
  BY <1>1, <1>2 DEF LogTypes
<1>4. MessageOK(p, logging[p][1])
  BY <1>1, <1>3 DEF StackOfMessages
<1>5. QED
  BY <1>1, <1>2, <1>3, <1>4 DEF Writes, Up, Top

LEMMA AppendToConsoleKeeps ==
  ASSUME LogIInv, NEW p \in Loggers, AppendToConsole(p)
  PROVE  LogIInv'
<1>1. PICK t : t = logging[p][1]
  OBVIOUS
<1>2. /\ LogTypes /\ LocksOfLog /\ StackOfMessages(p) /\ program[p] = "running"
      /\ logging[p] # <<>> /\ logging[p] \in Seq(Message) /\ DOMAIN logging[p] = 1..Len(logging[p])
      /\ Top(p) = t /\ t \in Message /\ t.at = "loop" /\ MessageOK(p, t) /\ ~Writes(p)
      /\ 1 \in 1..Len(logging[p])
  <2>1. InLog(p, "loop")
    BY DEF AppendToConsole
  <2>2. QED
    BY <1>1, <2>1, TopParts
<1>3. PICK m : m = [t EXCEPT !.todo = @ \ {"console"}]
  OBVIOUS
<1>4. /\ logging' = [logging EXCEPT ![p] = [@ EXCEPT ![1] = m]]
      /\ console' = [console EXCEPT ![p] = Append(@, t.nr)]
      /\ logText' = logText /\ logLock' = logLock /\ said' = said /\ missed' = missed
      /\ program' = program /\ config' = config
  BY <1>1, <1>2, <1>3 DEF AppendToConsole, LogTypes
<1>5. /\ m \in Message /\ m.nr = t.nr /\ m.at = t.at /\ m.pos = t.pos /\ m.todo = t.todo \ {"console"}
  BY <1>2, <1>3 DEF Message
<1>6. LogTypes'
  <2>1. [logging[p] EXCEPT ![1] = m] \in Seq(Message)
    BY <1>2, <1>5
  <2>2. logging' \in [Loggers -> Seq(Message)]
    BY <1>2, <1>4, <2>1 DEF LogTypes
  <2>3. t.nr \in Nat
    BY <1>2 DEF Message
  <2>4. console' \in [Loggers -> Seq(Nat)]
    BY <1>2, <1>4, <2>3 DEF LogTypes
  <2>5. QED
    BY <1>2, <1>4, <2>2, <2>4 DEF LogTypes
<1>7. Kept(p) /\ OnConsole(p, t.nr)'
  <2>1. console[p] \in Seq(Nat) /\ t.nr \in Nat /\ console'[p] = Append(console[p], t.nr)
    BY <1>2, <1>4 DEF LogTypes, Message
  <2>2. /\ Len(console'[p]) = Len(console[p]) + 1 /\ console'[p][Len(console[p]) + 1] = t.nr
        /\ \A i \in 1..Len(console[p]) : console'[p][i] = console[p][i]
        /\ DOMAIN console[p] = 1..Len(console[p]) /\ DOMAIN console'[p] = 1..Len(console'[p])
        /\ Len(console[p]) \in Nat
    BY <2>1
  <2>3. \A n \in Nat : OnConsole(p, n) => OnConsole(p, n)'
    BY <2>2 DEF OnConsole
  <2>4. Len(console[p]) + 1 \in DOMAIN console'[p]
    BY <2>2
  <2>5. OnConsole(p, t.nr)'
    BY <2>2, <2>4 DEF OnConsole
  <2>6. Len(said[p]) \in Nat
    BY <1>2 DEF LogTypes
  <2>7. QED
    BY <1>4, <2>3, <2>5, <2>6 DEF Kept
<1>8. MessageOK(p, m)'
  <2>1. MessageOK(p, t)'
    BY <1>2, <1>6, <1>7, MessageKept
  <2>2. QED
    BY <1>4, <1>5, <1>7, <2>1 DEF MessageOK, LineDue
<1>9. StackOfMessages(p)' /\ logging'[p] # <<>> /\ logging'[p][1] = m
  <2>1. m.nr = logging[p][1].nr
    BY <1>1, <1>5
  <2>2. LogTypes /\ StackOfMessages(p) /\ Kept(p) /\ m \in Message /\ logging[p] # <<>>
    BY <1>2, <1>5, <1>7
  <2>3. logging' = [logging EXCEPT ![p] = [@ EXCEPT ![1] = m]] /\ said' = said /\ program' = program
    BY <1>4
  <2>4. QED
    BY <1>6, <1>8, <2>1, <2>2, <2>3, TopGoesOn
<1>10. ~Writes(p)'
  BY <1>2, <1>5, <1>9 DEF Writes
<1>11. \A q \in Loggers \ {p} : logging'[q] = logging[q] /\ console'[q] = console[q]
  BY <1>2, <1>4 DEF LogTypes
<1>12. Len(said[p]) \in Nat
  BY <1>2 DEF LogTypes
<1>13. QED
  BY <1>2, <1>4, <1>6, <1>9, <1>10, <1>11, <1>12, StepOfOne DEF LocksOfLog

\* What becomes of p's lock as its message goes on from "at" to be m
LockMoves(p, at, m, lock) ==
  \/ lock = "none" /\ m.at # "write" /\ (at = "write" => logging[p][1].pos = Blocks)
  \/ /\ lock = "exclusive" /\ m.at = "write" /\ m.pos = 0 /\ at # "write"
     /\ \A q \in Loggers \ {p} : logLock[q] = "none"

\* A step of the message on top that writes nothing
LEMMA TopSteps ==
  ASSUME LogIInv, NEW p \in Loggers, NEW at, InLog(p, at), NEW m \in Message, NEW lock,
         logging' = [logging EXCEPT ![p] = [@ EXCEPT ![1] = m]], logLock' = [logLock EXCEPT ![p] = lock],
         logText' = logText, config' = config, console' = console, said' = said, missed' = missed,
         program' = program, m.nr = logging[p][1].nr, MessageOK(p, m),
         LockMoves(p, at, m, lock)
  PROVE  LogIInv'
<1>1. /\ LogTypes /\ LocksOfLog /\ StackOfMessages(p) /\ program[p] = "running"
      /\ logging[p] # <<>> /\ logging[p] \in Seq(Message) /\ DOMAIN logging[p] = 1..Len(logging[p])
      /\ 1 \in 1..Len(logging[p]) /\ (Writes(p) <=> at = "write")
  BY TopParts
<1>2. LogTypes'
  <2>1. [logging[p] EXCEPT ![1] = m] \in Seq(Message)
    BY <1>1
  <2>2. logging' \in [Loggers -> Seq(Message)]
    BY <1>1, <2>1 DEF LogTypes
  <2>3. lock \in {"none", "exclusive"}
    BY DEF LockMoves
  <2>4. logLock' \in [Loggers -> {"none", "exclusive"}]
    BY <1>1, <2>3 DEF LogTypes
  <2>5. QED
    BY <1>1, <2>2, <2>4 DEF LogTypes
<1>3. Kept(p)
  <2>1. Len(said[p]) \in Nat
    BY <1>1 DEF LogTypes
  <2>2. QED
    BY <2>1 DEF Kept, OnConsole
<1>4. MessageOK(p, m)'
  BY <1>1, <1>2, <1>3, MessageKept
<1>5. StackOfMessages(p)' /\ logging'[p] # <<>> /\ logging'[p][1] = m
  BY <1>1, <1>2, <1>3, <1>4, TopGoesOn
<1>6. /\ Writes(p)' <=> m.at = "write"
      /\ logLock'[p] = lock
  BY <1>1, <1>5 DEF Writes, Up, LogTypes
<1>7. \A q \in Loggers \ {p} : logging'[q] = logging[q] /\ logLock'[q] = logLock[q]
  BY <1>1 DEF LogTypes
<1>8. Len(said[p]) \in Nat
  BY <1>1 DEF LogTypes
<1>9. \A q \in Loggers \ {p} : logLock[q] = "none" => ~Writes(q)
  BY <1>1 DEF LocksOfLog
<1>10. \/ ~Writes(p)' /\ (Writes(p) => program'[p] = "killed" \/ logging[p][1].pos = Blocks)
       \/ ~Writes(p) /\ logging'[p][1].pos = 0 /\ \A q \in Loggers \ {p} : ~Writes(q)
  BY <1>1, <1>5, <1>6, <1>9 DEF LockMoves
<1>11. logLock'[p] = "exclusive" <=> Writes(p)'
  BY <1>6 DEF LockMoves
<1>12. QED
  BY <1>2, <1>5, <1>7, <1>8, <1>10, <1>11, StepOfOne

LEMMA OpenLogKeeps ==
  ASSUME LogIInv, NEW p \in Loggers, OpenLog(p)
  PROVE  LogIInv'
<1>1. PICK t : t = logging[p][1]
  OBVIOUS
<1>2. InLog(p, "loop")
  BY DEF OpenLog
<1>3. /\ LogTypes /\ LocksOfLog /\ DOMAIN logging[p] = 1..Len(logging[p]) /\ 1 \in 1..Len(logging[p])
      /\ Top(p) = t /\ t \in Message /\ t.at = "loop" /\ MessageOK(p, t) /\ ~Writes(p)
  BY <1>1, <1>2, TopParts
<1>4. PICK m : m = [t EXCEPT !.todo = @ \ {"file"}, !.at = "lock"]
  OBVIOUS
<1>5. /\ m \in Message /\ m.nr = t.nr /\ m.at = "lock" /\ m.pos = t.pos /\ m.todo = t.todo \ {"file"}
      /\ "file" \in t.todo
  BY <1>3, <1>4 DEF Message, OpenLog
<1>6. logging' = [logging EXCEPT ![p] = [@ EXCEPT ![1] = m]]
  BY <1>1, <1>3, <1>4 DEF OpenLog, LogTypes
<1>7. logLock[p] = "none"
  BY <1>3 DEF LogTypes, LocksOfLog
<1>8. logLock' = [logLock EXCEPT ![p] = "none"]
  BY <1>3, <1>7 DEF OpenLog, LogTypes
<1>9. MessageOK(p, m)
  BY <1>3, <1>5 DEF MessageOK, LineDue
<1>10. /\ logText' = logText /\ config' = config /\ console' = console /\ said' = said
      /\ missed' = missed /\ program' = program
  BY DEF OpenLog
<1>11. m.nr = logging[p][1].nr
  BY <1>1, <1>3, <1>5
<1>12. QED
  <2>1. LockMoves(p, "loop", m, "none")
    BY <1>5 DEF LockMoves
  <2>2. m \in Message
    BY <1>5
  <2>3. QED
    BY <1>2, <1>6, <1>8, <1>9, <1>10, <1>11, <2>1, <2>2, TopSteps

LEMMA LockLogKeeps ==
  ASSUME LogIInv, NEW p \in Loggers, LockLog(p)
  PROVE  LogIInv'
<1>1. PICK t : t = logging[p][1]
  OBVIOUS
<1>2. InLog(p, "lock")
  BY DEF LockLog
<1>3. /\ LogTypes /\ DOMAIN logging[p] = 1..Len(logging[p]) /\ 1 \in 1..Len(logging[p])
      /\ t \in Message /\ t.at = "lock" /\ MessageOK(p, t)
  BY <1>1, <1>2, TopParts
<1>4. PICK m : m = [t EXCEPT !.at = "write"]
  OBVIOUS
<1>5. m \in Message /\ m.nr = t.nr /\ m.at = "write" /\ m.pos = t.pos /\ m.todo = t.todo
  BY <1>3, <1>4 DEF Message
<1>6. logging' = [logging EXCEPT ![p] = [@ EXCEPT ![1] = m]]
  BY <1>1, <1>3, <1>4 DEF LockLog, LogTypes
<1>7. /\ logLock' = [logLock EXCEPT ![p] = "exclusive"]
      /\ \A q \in Loggers \ {p} : logLock[q] = "none"
  BY DEF LockLog, AppendLock
<1>8. MessageOK(p, m) /\ m.pos = 0
  BY <1>3, <1>5 DEF MessageOK, LineDue
<1>9. /\ logText' = logText /\ config' = config /\ console' = console /\ said' = said
      /\ missed' = missed /\ program' = program
  BY DEF LockLog
<1>10. m.nr = logging[p][1].nr
  BY <1>1, <1>3, <1>5
<1>11. QED
  <2>1. LockMoves(p, "lock", m, "exclusive")
    BY <1>5, <1>7, <1>8 DEF LockMoves
  <2>2. m \in Message
    BY <1>5
  <2>3. QED
    BY <1>2, <1>6, <1>7, <1>8, <1>9, <1>10, <2>1, <2>2, TopSteps

LEMMA CloseLogKeeps ==
  ASSUME LogIInv, NEW p \in Loggers, CloseLog(p)
  PROVE  LogIInv'
<1>1. PICK t : t = logging[p][1]
  OBVIOUS
<1>2. InLog(p, "write")
  BY DEF CloseLog
<1>3. /\ LogTypes /\ DOMAIN logging[p] = 1..Len(logging[p]) /\ 1 \in 1..Len(logging[p])
      /\ Top(p) = t /\ t \in Message /\ t.at = "write" /\ MessageOK(p, t)
  BY <1>1, <1>2, TopParts
<1>4. PICK m : m = [t EXCEPT !.at = "loop"]
  OBVIOUS
<1>5. /\ m \in Message /\ m.nr = t.nr /\ m.at = "loop" /\ m.pos = t.pos /\ m.todo = t.todo
      /\ t.pos = Blocks
  BY <1>3, <1>4 DEF Message, CloseLog
<1>6. logging' = [logging EXCEPT ![p] = [@ EXCEPT ![1] = m]]
  BY <1>1, <1>3, <1>4 DEF CloseLog, LogTypes
<1>7. logLock' = [logLock EXCEPT ![p] = "none"]
  BY DEF CloseLog
<1>8. MessageOK(p, m)
  BY <1>3, <1>5, BlocksAssumption DEF MessageOK, LineDue
<1>9. /\ logText' = logText /\ config' = config /\ console' = console /\ said' = said
      /\ missed' = missed /\ program' = program
  BY DEF CloseLog
<1>10. m.nr = logging[p][1].nr /\ (m.at = "loop" => logging[p][1].pos = Blocks)
  BY <1>1, <1>3, <1>5
<1>11. QED
  <2>1. LockMoves(p, "write", m, "none")
    BY <1>5, <1>10 DEF LockMoves
  <2>2. m \in Message
    BY <1>5
  <2>3. QED
    BY <1>2, <1>6, <1>7, <1>8, <1>9, <1>10, <2>1, <2>2, TopSteps

LEMMA EndMessageKeeps ==
  ASSUME LogIInv, NEW p \in Loggers, EndMessage(p)
  PROVE  LogIInv'
<1>1. PICK s : s = logging[p]
  OBVIOUS
<1>2. InLog(p, "loop")
  BY DEF EndMessage
<1>3. /\ LogTypes /\ LocksOfLog /\ StackOfMessages(p) /\ s \in Seq(Message) /\ s # <<>> /\ program[p] = "running"
      /\ Top(p) = s[1] /\ s[1] \in Message /\ s[1].at = "loop" /\ MessageOK(p, s[1]) /\ ~Writes(p)
  BY <1>1, <1>2, TopParts
<1>4. /\ logging' = [logging EXCEPT ![p] = Tail(s)] /\ s[1].todo = {}
      /\ program' = [program EXCEPT ![p] = IF s[1].level = "fatal" THEN "aborted" ELSE @]
      /\ logText' = logText /\ logLock' = logLock /\ said' = said /\ missed' = missed
      /\ console' = console /\ config' = config
  BY <1>1, <1>3 DEF EndMessage
<1>5. PICK r : r = Tail(s)
  OBVIOUS
<1>6. /\ r \in Seq(Message) /\ Len(r) = Len(s) - 1 /\ Len(s) \in Nat \ {0}
      /\ \A i \in 1..Len(r) : r[i] = s[i + 1] /\ i + 1 \in 1..Len(s) /\ s[i + 1] \in Message
      /\ \A i \in 1..Len(s) : i = 1 \/ i - 1 \in 1..Len(r)
  BY <1>3, <1>5
<1>7. logging'[p] = r /\ \A q \in Loggers \ {p} : logging'[q] = logging[q] /\ program'[q] = program[q]
  BY <1>3, <1>4, <1>5 DEF LogTypes
<1>8. LogTypes'
  <2>1. logging' \in [Loggers -> Seq(Message)]
    BY <1>3, <1>4, <1>5, <1>6 DEF LogTypes
  <2>2. program' \in [Loggers -> {"running", "aborted", "overflown", "killed"}]
    BY <1>3, <1>4 DEF LogTypes
  <2>3. QED
    BY <1>3, <1>4, <2>1, <2>2 DEF LogTypes
<1>9. Kept(p) /\ Len(said[p]) \in Nat
  <2>1. Len(said[p]) \in Nat
    BY <1>3 DEF LogTypes
  <2>2. QED
    BY <1>4, <2>1 DEF Kept, OnConsole
<1>10. \A i \in 1..Len(s) : MessageOK(p, s[i]) /\ (i # 1 => s[i].at = "loop" /\ "file" \notin s[i].todo)
  BY <1>1, <1>3 DEF StackOfMessages
<1>11. \A i \in 1..Len(r) : MessageOK(p, r[i])' /\ r[i].at = "loop" /\ "file" \notin r[i].todo
  <2> TAKE i \in 1..Len(r)
  <2>1. /\ r[i] \in Message /\ MessageOK(p, r[i])
        /\ r[i].at = "loop" /\ "file" \notin r[i].todo
    <3>1. i + 1 # 1
      BY <1>6
    <3>2. QED
      BY <1>6, <1>10, <3>1
  <2>2. MessageOK(p, r[i])'
    BY <1>3, <1>8, <1>9, <2>1, MessageKept
  <2>3. QED
    BY <2>1, <2>2
<1>12. ASSUME NEW n \in 1..Len(said[p])
       PROVE  \/ \E i \in 1..Len(r) : r[i].nr = n
              \/ /\ "file" \in said[p][n] => InFileOrMissed(p, n)
                 /\ "console" \in said[p][n] => OnConsole(p, n)
  <2>1. CASE \E i \in 1..Len(s) : s[i].nr = n
    <3>1. PICK i \in 1..Len(s) : s[i].nr = n
      BY <2>1
    <3>2. CASE i = 1
      BY <1>3, <1>4, <3>1, <3>2 DEF MessageOK, LineDue
    <3>3. CASE i # 1
      <4>1. i - 1 \in 1..Len(r) /\ r[i - 1] = s[(i - 1) + 1] /\ (i - 1) + 1 = i
        BY <1>6, <3>3
      <4>2. QED
        BY <3>1, <4>1
    <3>4. QED
      BY <3>2, <3>3
  <2>2. QED
    BY <1>1, <1>3, <2>1 DEF StackOfMessages
<1>13. /\ \A n : InFileOrMissed(p, n)' <=> InFileOrMissed(p, n)
       /\ \A n : OnConsole(p, n)' <=> OnConsole(p, n)
  BY <1>4 DEF InFileOrMissed, InFile, LineStarts, OnConsole
<1>14. StackOfMessages(p)'
  BY <1>4, <1>7, <1>11, <1>12, <1>13 DEF StackOfMessages
<1>15. ~Writes(p)'
  <2>1. r # <<>> => 1 \in 1..Len(r)
    BY <1>6
  <2>2. QED
    BY <1>7, <1>11, <2>1 DEF Writes
<1>16. logLock'[p] # "exclusive"
  BY <1>3, <1>4 DEF LocksOfLog
<1>17. QED
  BY <1>3, <1>4, <1>7, <1>8, <1>9, <1>14, <1>15, <1>16, StepOfOne

\* A line that is not to be begun stays as it is while the log grows.
LEMMA MessageWhileLogGrows ==
  ASSUME NEW p \in Loggers, NEW m, MessageOK(p, m), LogTypes, NEW b, logText' = Append(logText, b),
         said' = said, missed' = missed, console' = console, b.by # p \/ ~LineDue(m)
  PROVE  MessageOK(p, m)'
<1>1. /\ logText \in Seq(Block) /\ Len(logText) \in Nat /\ DOMAIN logText = 1..Len(logText)
      /\ Len(logText') = Len(logText) + 1 /\ DOMAIN logText' = 1..Len(logText) + 1
      /\ logText'[Len(logText) + 1] = b /\ \A k \in 1..Len(logText) : logText'[k] = logText[k]
  BY DEF LogTypes
<1>2. \A n : InFileOrMissed(p, n) => InFileOrMissed(p, n)'
  BY <1>1 DEF InFileOrMissed, InFile, LineStarts
<1>3. \A n : OnConsole(p, n)' <=> OnConsole(p, n)
  BY DEF OnConsole
<1>4. b.by # p => \A k \in 1..Len(logText') : logText'[k].by = p => k \in 1..Len(logText)
  BY <1>1
<1>5. QED
  BY <1>1, <1>2, <1>3, <1>4 DEF MessageOK, LineDue

LEMMA WriteLogKeeps ==
  ASSUME LogIInv, NEW p \in Loggers, WriteLog(p)
  PROVE  LogIInv'
<1>1. PICK s : s = logging[p]
  OBVIOUS
<1>2. PICK t : t = s[1]
  OBVIOUS
<1>3. InLog(p, "write")
  BY DEF WriteLog
<1>4. /\ LogTypes /\ LocksOfLog /\ LinesOfLog /\ StackOfMessages(p) /\ program[p] = "running"
      /\ s \in Seq(Message) /\ s # <<>> /\ 1 \in 1..Len(s) /\ DOMAIN s = 1..Len(s)
      /\ Top(p) = t /\ t \in Message /\ t.at = "write" /\ MessageOK(p, t) /\ Writes(p)
      /\ \A q \in Loggers : StackOfMessages(q)
  BY <1>1, <1>2, <1>3, TopParts DEF LogIInv
<1>5. PICK m : m = [t EXCEPT !.pos = @ + 1]
  OBVIOUS
<1>6. PICK b : b = [by |-> p, nr |-> t.nr, part |-> t.pos + 1]
  OBVIOUS
<1>7. /\ t.pos < Blocks /\ logText' = Append(logText, b)
      /\ logging' = [logging EXCEPT ![p] = [s EXCEPT ![1] = m]]
      /\ logLock' = logLock /\ config' = config /\ console' = console /\ said' = said
      /\ missed' = missed /\ program' = program
  BY <1>1, <1>2, <1>4, <1>5, <1>6 DEF WriteLog, LogTypes
<1>8. /\ t.pos \in Nat /\ m \in Message /\ m.nr = t.nr /\ m.at = "write" /\ m.pos = t.pos + 1
      /\ m.todo = t.todo /\ b \in Block /\ b.by = p /\ b.nr = t.nr /\ b.part = t.pos + 1
  <2>1. t.pos \in 0..Blocks /\ t.nr \in Nat
    BY <1>4 DEF Message
  <2>2. t.pos \in Nat /\ t.pos + 1 \in 1..Blocks
    BY <1>7, <2>1, BlocksAssumption
  <2>3. /\ m.nr = t.nr /\ m.at = "write" /\ m.pos = t.pos + 1 /\ m.todo = t.todo
        /\ m \in Message
    BY <1>4, <1>5, <2>2 DEF Message
  <2>4. b \in Block /\ b.by = p /\ b.nr = t.nr /\ b.part = t.pos + 1
    BY <1>6, <2>1, <2>2 DEF Block
  <2>5. QED
    BY <2>2, <2>3, <2>4
<1>9. PICK r : r = [s EXCEPT ![1] = m]
  OBVIOUS
<1>10. /\ r \in Seq(Message) /\ Len(r) = Len(s) /\ r[1] = m /\ r # <<>>
       /\ \A i \in 1..Len(s) : i # 1 => r[i] = s[i]
  BY <1>4, <1>8, <1>9
<1>11. logging'[p] = r /\ \A q \in Loggers \ {p} : logging'[q] = logging[q]
  BY <1>4, <1>7, <1>9 DEF LogTypes
<1>12. /\ logText \in Seq(Block) /\ Len(logText) \in Nat /\ DOMAIN logText = 1..Len(logText)
       /\ Len(logText') = Len(logText) + 1 /\ DOMAIN logText' = 1..Len(logText) + 1
       /\ logText'[Len(logText) + 1] = b /\ \A k \in 1..Len(logText) : logText'[k] = logText[k]
       /\ logText' \in Seq(Block)
  <2>1. logText \in Seq(Block)
    BY <1>4 DEF LogTypes
  <2>2. QED
    BY <1>7, <1>8, <2>1
<1>13. LogTypes'
  <2>1. logging' \in [Loggers -> Seq(Message)]
    BY <1>4, <1>7, <1>9, <1>10 DEF LogTypes
  <2>2. QED
    BY <1>4, <1>7, <1>12, <2>1 DEF LogTypes
<1>14. \A q \in Loggers : Writes(q)' <=> Writes(q)
  BY <1>4, <1>7, <1>8, <1>10, <1>11 DEF Writes, Up
<1>15. LocksOfLog'
  BY <1>4, <1>7, <1>14 DEF LocksOfLog
<1>16. LinesOfLog'
  <2>1. \A k \in 1..Len(logText') : logText'[k].nr \in 1..Len(said'[logText'[k].by])
    BY <1>4, <1>7, <1>8, <1>12 DEF LinesOfLog, MessageOK
  <2>2. \A i, j \in 1..Len(logText') :
          i < j /\ logText'[i].part = 1 /\ logText'[j].part = 1 /\ logText'[i].by = logText'[j].by
            => logText'[i].nr < logText'[j].nr
    <3> SUFFICES ASSUME NEW i \in 1..Len(logText'), NEW j \in 1..Len(logText'), i < j,
                        logText'[i].part = 1, logText'[j].part = 1, logText'[i].by = logText'[j].by
                 PROVE  logText'[i].nr < logText'[j].nr
      OBVIOUS
    <3>1. i \in 1..Len(logText)
      BY <1>12
    <3>2. CASE j \in 1..Len(logText)
      BY <1>4, <1>12, <3>1, <3>2 DEF LinesOfLog
    <3>3. CASE j = Len(logText) + 1
      <4>1. t.pos = 0 /\ LineDue(t)
        BY <1>4, <1>8, <1>12, <3>3 DEF LineDue
      <4>2. logText[i].by = p
        BY <1>8, <1>12, <3>1, <3>3
      <4>3. logText[i].nr < t.nr
        BY <1>4, <3>1, <4>1, <4>2 DEF MessageOK
      <4>4. QED
        BY <1>8, <1>12, <3>1, <3>3, <4>3
    <3>4. QED
      BY <1>12, <3>2, <3>3
  <2>3. ASSUME NEW i \in 1..Len(logText'), logText'[i].part = 1
        PROVE  \/ Whole(i)'
               \/ program'[logText'[i].by] = "killed"
               \/ /\ Writes(logText[i].by)'
                  /\ i + logging'[logText'[i].by][1].pos - 1 = Len(logText')
                  /\ logging'[logText'[i].by][1].pos # 0
    <3>1. CASE i = Len(logText) + 1
      <4>1. logText'[i] = b /\ logText'[i].by = p /\ m.pos = 1
        BY <1>8, <1>12, <2>3, <3>1
      <4>2. Writes(p)' /\ i + logging'[p][1].pos - 1 = Len(logText') /\ logging'[p][1].pos # 0
        BY <1>4, <1>10, <1>11, <1>12, <1>14, <3>1, <4>1
      <4>3. QED
        BY <4>1, <4>2
    <3>2. CASE i \in 1..Len(logText)
      <4>1. PICK q : q = logText[i].by
        OBVIOUS
      <4>2. q \in Loggers /\ logText'[i] = logText[i] /\ logText[i].part = 1
        <5>1. logText[i] \in Block
          BY <1>12, <3>2
        <5>2. QED
          BY <1>12, <2>3, <3>2, <4>1, <5>1 DEF Block
      <4>3. CASE Whole(i)
        <5>1. i + Blocks - 1 <= Len(logText) /\ \A k \in 1 .. Blocks - 1 : i + k \in 1..Len(logText)
          BY <1>12, <3>2, <4>3, BlocksAssumption DEF Whole
        <5>2. QED
          BY <1>12, <4>2, <4>3, <5>1, BlocksAssumption DEF Whole
      <4>4. CASE program[q] = "killed"
        BY <1>7, <4>1, <4>2, <4>4
      <4>5. CASE Writes(q) /\ i + logging[q][1].pos - 1 = Len(logText) /\ logging[q][1].pos # 0
        <5>1. q = p /\ logging[q][1] = t
          BY <1>1, <1>2, <1>4, <4>2, <4>5 DEF LocksOfLog
        <5>2. i + logging'[p][1].pos - 1 = Len(logText') /\ logging'[p][1].pos # 0
          BY <1>8, <1>10, <1>11, <1>12, <4>5, <5>1
        <5>3. logText'[i].by = p /\ Writes(p)'
          BY <1>4, <1>14, <4>1, <4>2, <5>1
        <5>4. QED
          BY <5>2, <5>3
      <4>6. QED
        BY <1>4, <3>2, <4>1, <4>2, <4>3, <4>4, <4>5 DEF LinesOfLog
    <3>3. QED
      BY <1>12, <3>1, <3>2
  <2>4. ASSUME NEW q \in Loggers, Writes(q)'
        PROVE  /\ logging'[q][1].pos <= Len(logText')
               /\ \A k \in 1..logging'[q][1].pos :
                    logText'[Len(logText') - logging'[q][1].pos + k] = [by |-> q, nr |-> logging'[q][1].nr, part |-> k]
    <3>1. q = p
      BY <1>4, <1>14, <2>4 DEF LocksOfLog
    <3>2. /\ t.pos <= Len(logText)
          /\ \A k \in 1..t.pos : logText[Len(logText) - t.pos + k] = [by |-> p, nr |-> t.nr, part |-> k]
      BY <1>1, <1>2, <1>4 DEF LinesOfLog
    <3>3. ASSUME NEW k \in 1..m.pos
          PROVE  logText'[Len(logText') - m.pos + k] = [by |-> p, nr |-> m.nr, part |-> k]
      <4>1. Len(logText') - m.pos + k = Len(logText) - t.pos + k
        BY <1>8, <1>12
      <4>2. CASE k = t.pos + 1
        <5>1. Len(logText) - t.pos + k = Len(logText) + 1
          BY <1>8, <1>12, <4>2
        <5>2. b = [by |-> p, nr |-> m.nr, part |-> k]
          BY <1>6, <1>8, <4>2
        <5>3. QED
          BY <1>12, <4>1, <5>1, <5>2
      <4>3. CASE k \in 1..t.pos
        BY <1>8, <1>12, <3>2, <4>1, <4>3
      <4>4. QED
        BY <1>8, <4>2, <4>3
    <3>4. QED
      BY <1>8, <1>10, <1>11, <1>12, <3>1, <3>2, <3>3
  <2>5. QED
    BY <2>1, <2>2, <2>3, <2>4 DEF LinesOfLog
<1>17. /\ \A q \in Loggers : \A n : InFileOrMissed(q, n) => InFileOrMissed(q, n)'
       /\ \A q \in Loggers : \A n : OnConsole(q, n)' <=> OnConsole(q, n)
  BY <1>7, <1>12 DEF InFileOrMissed, InFile, LineStarts, OnConsole
<1>18. MessageOK(p, m)'
  <2>1. ~LineDue(m)'
    BY <1>4, <1>8 DEF MessageOK, LineDue
  <2>2. "file" \in said[p][t.nr] => InFileOrMissed(p, t.nr)'
    <3>1. CASE t.pos = 0
      <4>1. InFile(p, t.nr)'
        BY <1>8, <1>12, <3>1 DEF InFile, LineStarts
      <4>2. QED
        BY <4>1 DEF InFileOrMissed
    <3>2. CASE t.pos # 0
      BY <1>4, <1>17, <3>2 DEF MessageOK, LineDue
    <3>3. QED
      BY <3>1, <3>2
  <2>3. QED
    BY <1>4, <1>7, <1>8, <1>17, <2>1, <2>2 DEF MessageOK, LineDue
<1>19. StackOfMessages(p)'
  <2>1. \A i \in 1..Len(r) :
          /\ MessageOK(p, r[i])'
          /\ i # 1 => r[i].at = "loop" /\ "file" \notin r[i].todo
          /\ r[i].nr = s[i].nr
    <3> TAKE i \in 1..Len(r)
    <3>1. CASE i = 1
      BY <1>2, <1>8, <1>10, <1>18, <3>1
    <3>2. CASE i # 1
      <4>1. r[i] = s[i] /\ MessageOK(p, s[i]) /\ s[i].at = "loop" /\ "file" \notin s[i].todo
        BY <1>1, <1>4, <1>10, <3>2 DEF StackOfMessages
      <4>2. MessageOK(p, r[i])'
        BY <1>4, <1>7, <4>1, MessageWhileLogGrows DEF LineDue
      <4>3. QED
        BY <4>1, <4>2
    <3>3. QED
      BY <3>1, <3>2
  <2>2. \A n \in 1..Len(said[p]) :
          \/ \E i \in 1..Len(r) : r[i].nr = n
          \/ /\ "file" \in said[p][n] => InFileOrMissed(p, n)'
             /\ "console" \in said[p][n] => OnConsole(p, n)'
    BY <1>1, <1>4, <1>10, <1>17, <2>1 DEF StackOfMessages
  <2>3. QED
    BY <1>7, <1>11, <2>1, <2>2 DEF StackOfMessages
<1>20. \A q \in Loggers \ {p} : StackOfMessages(q)'
  <2> SUFFICES ASSUME NEW q \in Loggers \ {p} PROVE StackOfMessages(q)'
    OBVIOUS
  <2>1. PICK z : z = logging[q]
    OBVIOUS
  <2>2. \A i \in 1..Len(z) : MessageOK(q, z[i])'
    <3> TAKE i \in 1..Len(z)
    <3>1. MessageOK(q, z[i])
      BY <1>4, <2>1 DEF StackOfMessages
    <3>2. QED
      BY <1>4, <1>7, <1>8, <3>1, MessageWhileLogGrows
  <2>3. StackOfMessages(q)
    BY <1>4
  <2>4. QED
    BY <1>7, <1>11, <1>17, <2>1, <2>2, <2>3 DEF StackOfMessages
<1>21. QED
  BY <1>13, <1>15, <1>16, <1>19, <1>20 DEF LogIInv

\* Messages that wait are done with the file, given what the file did not open for.
WaitingMessage(p, m, lost) ==
  /\ m \in Message /\ m.nr \in 1..Len(said[p]) /\ m.at = "loop" /\ "file" \notin m.todo
  /\ "file" \in said[p][m.nr] => InFile(p, m.nr) \/ m.nr \in lost
  /\ "console" \in said[p][m.nr] => "console" \in m.todo \/ OnConsole(p, m.nr)

WaitingMessages(p, rest, lost) ==
  /\ rest \in Seq(Message)
  /\ \A i \in 1..Len(rest) : WaitingMessage(p, rest[i], lost)
  /\ \A n \in 1..Len(said[p]) :
       \/ \E i \in 1..Len(rest) : rest[i].nr = n
       \/ /\ "file" \in said[p][n] => InFile(p, n) \/ n \in lost
          /\ "console" \in said[p][n] => OnConsole(p, n)

\* Dropped by the verbosity, without room on the stack, or begun
LEMMA BeginKeeps ==
  ASSUME LogIInv, NEW p \in Loggers, Up(p), ~Writes(p), NEW level \in Levels, NEW rest, NEW lost \in SUBSET Nat,
         missed[p] \subseteq lost, WaitingMessages(p, rest, lost), BeginMessage(p, level, rest),
         missed' = [missed EXCEPT ![p] = lost], logText' = logText, logLock' = logLock,
         config' = config, console' = console
  PROVE  LogIInv'
<1>1. /\ LogTypes /\ LocksOfLog /\ LinesOfLog /\ StackOfMessages(p) /\ program[p] = "running"
      /\ Len(said[p]) \in Nat /\ said[p] \in Seq(SUBSET Appenders)
      /\ \A n \in 1..Len(said[p]) : said[p][n] \in SUBSET Appenders
  <2>1. LogTypes /\ LocksOfLog /\ LinesOfLog /\ StackOfMessages(p) /\ program[p] = "running"
    BY DEF LogIInv, Up
  <2>2. said[p] \in Seq(SUBSET Appenders)
    BY <2>1 DEF LogTypes
  <2>3. QED
    BY <2>1, <2>2
<1>2. /\ missed' \in [Loggers -> SUBSET Nat] /\ missed'[p] = lost
      /\ \A q \in Loggers \ {p} : missed'[q] = missed[q]
  BY <1>1 DEF LogTypes
<1>3. logLock'[p] # "exclusive"
  BY <1>1 DEF LocksOfLog
<1>4. /\ \A n : InFileOrMissed(p, n)' <=> InFile(p, n) \/ n \in lost
      /\ \A n : OnConsole(p, n)' <=> OnConsole(p, n)
  BY <1>2 DEF InFileOrMissed, InFile, LineStarts, OnConsole
<1>5. rest \in Seq(Message) /\ Len(rest) \in Nat /\ \A i \in 1..Len(rest) : rest[i] \in Message
  <2>1. rest \in Seq(Message)
    BY DEF WaitingMessages
  <2>2. QED
    BY <2>1
<1>6. CASE logging' = [logging EXCEPT ![p] = rest] /\ said' = said /\ program' = program
  <2>1. logging'[p] = rest /\ \A q \in Loggers \ {p} : logging'[q] = logging[q]
    BY <1>1, <1>6 DEF LogTypes
  <2>2. LogTypes'
    <3>1. logging' \in [Loggers -> Seq(Message)]
      BY <1>1, <1>5, <1>6 DEF LogTypes
    <3>2. QED
      BY <1>1, <1>2, <1>6, <3>1 DEF LogTypes
  <2>3. \A i \in 1..Len(rest) : MessageOK(p, rest[i])' /\ rest[i].at = "loop" /\ "file" \notin rest[i].todo
    <3> TAKE i \in 1..Len(rest)
    <3>1. WaitingMessage(p, rest[i], lost)
      BY DEF WaitingMessages
    <3>2. QED
      BY <1>4, <1>6, <3>1 DEF WaitingMessage, MessageOK, LineDue
  <2>4. StackOfMessages(p)'
    BY <1>4, <1>6, <2>1, <2>3 DEF StackOfMessages, WaitingMessages
  <2>5. ~Writes(p)'
    <3>1. rest # <<>> => 1 \in 1..Len(rest)
      BY <1>5
    <3>2. QED
      BY <2>1, <2>3, <3>1 DEF Writes
  <2>6. QED
    BY <1>1, <1>2, <1>3, <1>6, <2>1, <2>2, <2>4, <2>5, StepOfOne
<1>7. CASE program' = [program EXCEPT ![p] = "overflown"] /\ said' = said /\ logging' = logging
  <2>1. program'[p] = "overflown" /\ \A q \in Loggers \ {p} : program'[q] = program[q]
    BY <1>1, <1>7 DEF LogTypes
  <2>2. LogTypes'
    BY <1>1, <1>2, <1>7 DEF LogTypes
  <2>3. Kept(p)
    BY <1>1, <1>2, <1>4, <1>7 DEF Kept
  <2>4. PICK s : s = logging[p]
    OBVIOUS
  <2>5. \A i \in 1..Len(s) : MessageOK(p, s[i])'
    <3> TAKE i \in 1..Len(s)
    <3>1. MessageOK(p, s[i]) /\ s[i] \in Message
      BY <1>1, <2>4 DEF StackOfMessages, LogTypes
    <3>2. QED
      BY <1>1, <2>2, <2>3, <3>1, MessageKept
  <2>6. \A n : InFileOrMissed(p, n) => InFileOrMissed(p, n)'
    BY <1>2, <1>4 DEF InFileOrMissed
  <2>7. StackOfMessages(p)'
    BY <1>1, <1>4, <1>7, <2>4, <2>5, <2>6 DEF StackOfMessages
  <2>8. ~Writes(p)'
    BY <2>1 DEF Writes, Up
  <2>9. QED
    BY <1>1, <1>2, <1>3, <1>7, <2>1, <2>2, <2>7, <2>8, StepOfOne
<1>8. ASSUME NEW m, m = [level |-> level, nr |-> Len(said[p]) + 1, todo |-> DueTo(p, level), at |-> "loop", pos |-> 0],
             said' = [said EXCEPT ![p] = Append(@, DueTo(p, level))],
             logging' = [logging EXCEPT ![p] = <<m>> \o rest], program' = program
      PROVE  LogIInv'
  <2>1. DueTo(p, level) \in SUBSET Appenders
    <3>1. config[p] \in (SUBSET Appenders) \cup {None}
      BY <1>1 DEF LogTypes
    <3>2. QED
      BY <3>1 DEF DueTo, AppendersOf, Appenders
  <2>2. /\ m \in Message /\ m.nr = Len(said[p]) + 1 /\ m.todo = DueTo(p, level) /\ m.at = "loop" /\ m.pos = 0
    BY <1>1, <1>8, <2>1, BlocksAssumption DEF Message
  <2>3. PICK r : r = <<m>> \o rest
    OBVIOUS
  <2>4. /\ r \in Seq(Message) /\ Len(r) = Len(rest) + 1 /\ r[1] = m
        /\ \A i \in 1..Len(rest) : r[i + 1] = rest[i] /\ i + 1 \in 1..Len(r)
        /\ \A i \in 1..Len(r) : i = 1 \/ (i - 1 \in 1..Len(rest) /\ r[i] = rest[i - 1])
    BY <1>5, <2>2, <2>3
  <2>5. logging'[p] = r /\ \A q \in Loggers \ {p} : logging'[q] = logging[q] /\ said'[q] = said[q]
    BY <1>1, <1>8, <2>3 DEF LogTypes
  <2>6. /\ said'[p] \in Seq(SUBSET Appenders) /\ Len(said'[p]) = Len(said[p]) + 1
        /\ said'[p][Len(said[p]) + 1] = DueTo(p, level)
        /\ \A n \in 1..Len(said[p]) : said'[p][n] = said[p][n]
    <3>1. said'[p] = Append(said[p], DueTo(p, level))
      BY <1>1, <1>8 DEF LogTypes
    <3>2. QED
      BY <1>1, <2>1, <3>1
  <2>7. LogTypes'
    <3>1. logging' \in [Loggers -> Seq(Message)]
      BY <1>1, <1>8, <2>3, <2>4 DEF LogTypes
    <3>2. said' \in [Loggers -> Seq(SUBSET Appenders)]
      BY <1>1, <1>8, <2>1, SMTT(30) DEF LogTypes
    <3>3. QED
      BY <1>1, <1>2, <1>8, <3>1, <3>2 DEF LogTypes
  <2>8. MessageOK(p, m)'
    <3>1. \A k \in 1..Len(logText) : logText[k].by = p => logText[k].nr < m.nr
      <4> TAKE k \in 1..Len(logText)
      <4>1. logText[k].nr \in 1..Len(said[logText[k].by])
        BY <1>1 DEF LinesOfLog
      <4>2. QED
        BY <1>1, <2>2, <4>1
    <3>2. m.nr \in 1..Len(said'[p]) /\ said'[p][m.nr] = m.todo
      BY <1>1, <2>2, <2>6
    <3>3. QED
      BY <2>2, <3>1, <3>2 DEF MessageOK, LineDue
  <2>9. \A i \in 1..Len(rest) : MessageOK(p, rest[i])' /\ rest[i].at = "loop" /\ "file" \notin rest[i].todo
    <3> TAKE i \in 1..Len(rest)
    <3>1. WaitingMessage(p, rest[i], lost)
      BY DEF WaitingMessages
    <3>2. rest[i].nr \in 1..Len(said'[p]) /\ said'[p][rest[i].nr] = said[p][rest[i].nr]
      BY <1>1, <2>6, <3>1 DEF WaitingMessage
    <3>3. QED
      BY <1>4, <3>1, <3>2 DEF WaitingMessage, MessageOK, LineDue
  <2>10. \A i \in 1..Len(r) :
           /\ MessageOK(p, r[i])'
           /\ r[i].at = "loop" /\ (i # 1 => "file" \notin r[i].todo)
    <3> TAKE i \in 1..Len(r)
    <3>1. CASE i = 1
      BY <2>2, <2>4, <2>8, <3>1
    <3>2. CASE i # 1
      BY <2>4, <2>9, <3>2
    <3>3. QED
      BY <3>1, <3>2
  <2>11. ASSUME NEW n \in 1..Len(said'[p])
         PROVE  \/ \E i \in 1..Len(r) : r[i].nr = n
                \/ /\ "file" \in said'[p][n] => InFileOrMissed(p, n)'
                   /\ "console" \in said'[p][n] => OnConsole(p, n)'
    <3>1. CASE n = Len(said[p]) + 1
      <4>1. 1 \in 1..Len(r)
        BY <1>5, <2>4
      <4>2. QED
        BY <2>2, <2>4, <3>1, <4>1
    <3>2. CASE n \in 1..Len(said[p])
      <4>1. \/ \E i \in 1..Len(rest) : rest[i].nr = n
            \/ /\ "file" \in said[p][n] => InFile(p, n) \/ n \in lost
               /\ "console" \in said[p][n] => OnConsole(p, n)
        BY <3>2 DEF WaitingMessages
      <4>2. CASE \E i \in 1..Len(rest) : rest[i].nr = n
        BY <2>4, <4>2
      <4>3. QED
        BY <1>4, <2>6, <3>2, <4>1, <4>2
    <3>3. QED
      BY <1>1, <2>6, <3>1, <3>2
  <2>12. StackOfMessages(p)'
    BY <2>5, <2>10, <2>11 DEF StackOfMessages
  <2>13. ~Writes(p)'
    <3>1. 1 \in 1..Len(r)
      BY <1>5, <2>4
    <3>2. QED
      BY <2>5, <2>10, <3>1 DEF Writes
  <2>14. Len(said[p]) <= Len(said'[p])
    BY <1>1, <2>6
  <2>15. QED
    BY <1>1, <1>2, <1>3, <1>8, <2>5, <2>7, <2>12, <2>13, <2>14, StepOfOne
<1>9. QED
  BY <1>6, <1>7, <1>8 DEF BeginMessage

\* A message of the program itself, with none under way
LEMMA FirstMessageKeeps ==
  ASSUME LogIInv, NEW p \in Loggers, Up(p), logging[p] = <<>>, NEW level \in Levels,
         BeginMessage(p, level, <<>>), missed' = missed, logText' = logText, logLock' = logLock,
         config' = config, console' = console
  PROVE  LogIInv'
<1>1. LogTypes /\ StackOfMessages(p) /\ program[p] = "running"
  BY DEF LogIInv, Up
<1>2. WaitingMessages(p, <<>>, missed[p])
  BY <1>1 DEF WaitingMessages, StackOfMessages, InFileOrMissed
<1>3. missed[p] \in SUBSET Nat /\ missed' = [missed EXCEPT ![p] = missed[p]]
  BY <1>1 DEF LogTypes
<1>4. ~Writes(p)
  BY DEF Writes
<1>5. QED
  BY <1>2, <1>3, <1>4, BeginKeeps

LEMMA OpenLogFailsKeeps ==
  ASSUME LogIInv, NEW p \in Loggers, OpenLogFails(p)
  PROVE  LogIInv'
<1>1. PICK s : s = logging[p]
  OBVIOUS
<1>2. PICK t : t = s[1]
  OBVIOUS
<1>3. InLog(p, "loop")
  BY DEF OpenLogFails
<1>4. /\ LogTypes /\ StackOfMessages(p) /\ program[p] = "running"
      /\ s \in Seq(Message) /\ s # <<>> /\ 1 \in 1..Len(s)
      /\ Top(p) = t /\ t \in Message /\ t.at = "loop" /\ MessageOK(p, t) /\ ~Writes(p)
  BY <1>1, <1>2, <1>3, TopParts
<1>5. PICK m : m = [t EXCEPT !.todo = @ \ {"file"}]
  OBVIOUS
<1>6. m \in Message /\ m.nr = t.nr /\ m.at = "loop" /\ m.pos = t.pos /\ m.todo = t.todo \ {"file"}
  BY <1>4, <1>5 DEF Message
<1>7. PICK rest : rest = <<m>> \o Tail(s)
  OBVIOUS
<1>8. /\ rest \in Seq(Message) /\ Len(rest) = Len(s) /\ rest[1] = m
      /\ \A i \in 1..Len(s) : i # 1 => rest[i] = s[i]
      /\ \A i \in 1..Len(s) : s[i] \in Message
  BY <1>4, <1>6, <1>7
<1>9. PICK lost : lost = missed[p] \cup {t.nr}
  OBVIOUS
<1>10. lost \in SUBSET Nat
  BY <1>4, <1>9 DEF LogTypes, Message
<1>11. /\ missed' = [missed EXCEPT ![p] = lost] /\ BeginMessage(p, "verbose", rest)
       /\ logText' = logText /\ logLock' = logLock /\ config' = config /\ console' = console
  BY <1>1, <1>4, <1>5, <1>7, <1>9 DEF OpenLogFails, LogTypes
<1>12. \A i \in 1..Len(rest) : WaitingMessage(p, rest[i], lost) /\ rest[i].nr = s[i].nr
  <2> TAKE i \in 1..Len(rest)
  <2>1. CASE i = 1
    BY <1>2, <1>4, <1>6, <1>8, <1>9, <2>1 DEF WaitingMessage, MessageOK, LineDue
  <2>2. CASE i # 1
    <3>1. /\ rest[i] = s[i] /\ s[i] \in Message /\ MessageOK(p, s[i])
          /\ s[i].at = "loop" /\ "file" \notin s[i].todo
      BY <1>1, <1>4, <1>8, <2>2 DEF StackOfMessages
    <3>2. QED
      BY <1>9, <3>1 DEF WaitingMessage, MessageOK, LineDue, InFileOrMissed
  <2>3. QED
    BY <2>1, <2>2
<1>13. WaitingMessages(p, rest, lost)
  <2>1. \A n \in 1..Len(said[p]) :
          \/ \E i \in 1..Len(s) : s[i].nr = n
          \/ /\ "file" \in said[p][n] => InFile(p, n) \/ n \in lost
             /\ "console" \in said[p][n] => OnConsole(p, n)
    BY <1>1, <1>4, <1>9 DEF StackOfMessages, InFileOrMissed
  <2>2. \A i \in 1..Len(s) : i \in 1..Len(rest) /\ rest[i].nr = s[i].nr
    BY <1>8, <1>12
  <2>3. QED
    BY <1>8, <1>12, <2>1, <2>2 DEF WaitingMessages
<1>14. "verbose" \in Levels /\ Up(p) /\ missed[p] \subseteq lost
  BY <1>4, <1>9 DEF Levels, Up
<1>15. QED
  BY <1>4, <1>10, <1>11, <1>13, <1>14, BeginKeeps

LEMMA KillLoggerKeeps ==
  ASSUME LogIInv, NEW p \in Loggers, KillLogger(p)
  PROVE  LogIInv'
<1>1. LogTypes /\ LocksOfLog /\ Up(p)
  BY DEF LogIInv, KillLogger
<1>2. /\ program' = [program EXCEPT ![p] = "killed"] /\ logLock' = [logLock EXCEPT ![p] = "none"]
      /\ logging' = [logging EXCEPT ![p] = <<>>] /\ logText' = logText /\ config' = config
      /\ console' = console /\ said' = said /\ missed' = missed
  BY DEF KillLogger
<1>3. /\ program'[p] = "killed" /\ logLock'[p] = "none" /\ logging'[p] = <<>>
      /\ \A q \in Loggers \ {p} : program'[q] = program[q] /\ logLock'[q] = logLock[q] /\ logging'[q] = logging[q]
  BY <1>1, <1>2 DEF LogTypes
<1>4. LogTypes'
  BY <1>1, <1>2 DEF LogTypes
<1>5. StackOfMessages(p)' /\ ~Writes(p)'
  BY <1>3 DEF StackOfMessages, Writes
<1>6. Len(said[p]) \in Nat
  BY <1>1 DEF LogTypes
<1>7. QED
  BY <1>2, <1>3, <1>4, <1>5, <1>6, StepOfOne

\* Steps of what the invariant is not about
LEMMA OtherLogStepsKeep ==
  ASSUME LogIInv, \/ \E p \in Loggers : InitLogger(p)
                  \/ LogDirectoryChanges
                  \/ UNCHANGED logVars
  PROVE  LogIInv'
<1>1. LogTypes /\ LocksOfLog /\ LinesOfLog /\ \A p \in Loggers : StackOfMessages(p)
  BY DEF LogIInv
<1>2. /\ logText' = logText /\ logLock' = logLock /\ logging' = logging /\ console' = console
      /\ said' = said /\ missed' = missed /\ program' = program
  BY DEF InitLogger, LogDirectoryChanges, logVars
<1>3. config' \in [Loggers -> (SUBSET Appenders) \cup {None}]
  <2>1. CASE \E p \in Loggers : InitLogger(p)
    BY <1>1, <2>1 DEF InitLogger, LogTypes, Appenders
  <2>2. CASE LogDirectoryChanges \/ UNCHANGED logVars
    BY <1>1, <2>2 DEF LogDirectoryChanges, logVars, LogTypes
  <2>3. QED
    BY <2>1, <2>2
<1>4. LogTypes'
  BY <1>1, <1>2, <1>3 DEF LogTypes
<1>5. \A p : Writes(p)' <=> Writes(p)
  BY <1>2 DEF Writes, Up
<1>6. LocksOfLog'
  BY <1>1, <1>2, <1>5 DEF LocksOfLog
<1>7. LinesOfLog'
  BY <1>1, <1>2, <1>5 DEF LinesOfLog, Whole
<1>8. \A p, m : MessageOK(p, m)' <=> MessageOK(p, m)
  BY <1>2 DEF MessageOK, LineDue, InFileOrMissed, InFile, LineStarts, OnConsole
<1>9. \A p, n : (InFileOrMissed(p, n)' <=> InFileOrMissed(p, n)) /\ (OnConsole(p, n)' <=> OnConsole(p, n))
  BY <1>2 DEF InFileOrMissed, InFile, LineStarts, OnConsole
<1>10. \A p \in Loggers : StackOfMessages(p)'
  BY <1>1, <1>2, <1>8, <1>9 DEF StackOfMessages
<1>11. QED
  BY <1>4, <1>6, <1>7, <1>10 DEF LogIInv

LEMMA LogInductive == LogIInv /\ [LogNext]_logVars => LogIInv'
<1> SUFFICES ASSUME LogIInv, [LogNext]_logVars PROVE LogIInv'
  OBVIOUS
<1>1. ASSUME NEW p \in Loggers, StartupLog(p) PROVE LogIInv'
  BY <1>1, FirstMessageKeeps DEF StartupLog, Levels
<1>2. ASSUME NEW p \in Loggers, NEW level \in Levels, LogMessage(p, level) PROVE LogIInv'
  BY <1>2, FirstMessageKeeps DEF LogMessage
<1>3. ASSUME NEW p \in Loggers,
             \/ AppendToConsole(p) \/ OpenLog(p) \/ OpenLogFails(p) \/ LockLog(p)
             \/ WriteLog(p) \/ CloseLog(p) \/ EndMessage(p) \/ KillLogger(p)
      PROVE  LogIInv'
  BY <1>3, AppendToConsoleKeeps, OpenLogKeeps, OpenLogFailsKeeps, LockLogKeeps,
     WriteLogKeeps, CloseLogKeeps, EndMessageKeeps, KillLoggerKeeps
<1>4. CASE (\E p \in Loggers : InitLogger(p)) \/ LogDirectoryChanges \/ UNCHANGED logVars
  BY <1>4, OtherLogStepsKeep
<1>5. QED
  BY <1>1, <1>2, <1>3, <1>4 DEF LogNext

\* Programs that share a log file do not mix their lines, a program's lines are in its
\* order, and every message is at all it was for unless the file did not open
\* (log.cpp:59-71, textfile.cpp:103-111), for any number of programs, messages and
\* blocks, the log's directory coming and going and programs killed at any point.
THEOREM LinesWhole == LogSpec => []LogLinesWhole
<1>1. LogInit => LogIInv
  BY LogInitially
<1>2. LogIInv /\ [LogNext]_logVars => LogIInv'
  BY LogInductive
<1>3. LogIInv => LogLinesWhole
  BY LogProperty
<1>4. QED
  BY <1>1, <1>2, <1>3, PTL DEF LogSpec

-----------------------------------------------------------------------------
(* Backups: what a program is about to remove has MaxBackups newer ones    *)
(* among all that were made, and so has what is gone.  That a scan's list  *)
(* is in the order of the names is by induction on the clock.              *)

BackupSpec == BackupInit /\ [][BackupNext]_backupVars

FilesOf(f) == [of : {f}, at : 0..LastSecond, kind : {"file"}]

BackupFile == [of : Files, at : 0..LastSecond, kind : {"file"}]

Newer(b) == {n \in made : n.of = b.of /\ n.at > b.at}
Surplus(b) == Cardinality(Newer(b)) >= MaxBackups

BackupTypes ==
  /\ second \in 0..LastSecond
  /\ directory \subseteq [of : Files, at : 0..LastSecond, kind : {"file", "directory"}]
  /\ made \subseteq BackupFile
  /\ step \in [Programs -> {"idle", "find", "scan", "remove"}]
  /\ victims \in [Programs -> Seq(BackupFile)]

BackupIInv ==
  /\ BackupTypes
  /\ \A e \in directory : IsFile(e) => e \in made
  /\ \A p \in Programs : step[p] \in {"find", "scan"} => MaxBackups > 0
  /\ \A p \in Programs : step[p] = "remove" => victims[p] # <<>>
  /\ \A p \in Programs : \A i \in 1..Len(victims[p]) : Surplus(victims[p][i])
  /\ \A b \in made \ directory : Surplus(b)

\* How WFindFile's files of one name can be listed, in the order of their names
Listed(S) ==
  \E names \in [1..Cardinality(S) -> S] :
    \A i, j \in DOMAIN names : i < j => names[i].at < names[j].at

\* The backups of a file are finitely many, as the clock's values are.
LEMMA FinitelyMany ==
  ASSUME NEW f, NEW S \in SUBSET FilesOf(f)
  PROVE  IsFiniteSet(S)
<1> DEFINE at == [e \in S |-> e.at]
<1>1. at \in Injection(S, 0..LastSecond)
  BY DEF FilesOf, Injection, IsInjective
<1>2. IsFiniteSet(0..LastSecond)
  BY LastSecondAssumption, FS_Interval
<1>3. QED
  BY <1>1, <1>2, FS_Injection

LEMMA CanBeListed ==
  ASSUME NEW f, NEW S \in SUBSET FilesOf(f)
  PROVE  Listed(S)
<1> DEFINE Before(k) == {e \in FilesOf(f) : e.at < k}
           Bad == {k \in Nat : \E T \in SUBSET Before(k) : ~Listed(T)}
<1>1. ASSUME Bad # {} PROVE FALSE
  <2>1. PICK k \in Bad : \A j \in Bad : k <= j
    BY <1>1, LeastPosition
  <2>2. PICK T \in SUBSET Before(k) : ~Listed(T)
    BY <2>1
  <2>3. IsFiniteSet(T)
    BY FinitelyMany
  <2>4. CASE k = 0
    <3>1. T = {}
      BY <2>4 DEF FilesOf
    <3>2. [i \in 1..0 |-> 0] \in [1..Cardinality(T) -> T]
      BY <3>1, FS_EmptySet
    <3>3. QED
      BY <2>2, <3>1, <3>2, FS_EmptySet DEF Listed
  <2>5. CASE k # 0
    <3> DEFINE e == [of |-> f, at |-> k - 1, kind |-> "file"]
               U == T \ {e}
    <3>1. k - 1 \in Nat /\ k - 1 \notin Bad
      BY <2>1, <2>5
    <3>2. U \in SUBSET Before(k - 1)
      <4> SUFFICES ASSUME NEW g \in U PROVE g \in FilesOf(f) /\ g.at < k - 1
        OBVIOUS
      <4>1. g \in FilesOf(f) /\ g.at < k
        BY <2>2
      <4>2. g.at # k - 1
        BY <4>1 DEF FilesOf
      <4>3. g.at \in Nat
        BY <4>1, LastSecondAssumption DEF FilesOf
      <4>4. QED
        BY <3>1, <4>1, <4>2, <4>3
    <3>3. Listed(U)
      BY <3>1, <3>2
    <3>4. e \in T
      BY <2>2, <3>3
    <3>5. IsFiniteSet(U) /\ Cardinality(U) \in Nat /\ Cardinality(T) = Cardinality(U) + 1
      <4>0. PICK u, V : u = e /\ V = T \ {u}
        OBVIOUS
      <4>1. IsFiniteSet(V) /\ Cardinality(V) = Cardinality(T) - 1
        <5>1. u \in T
          BY <3>4, <4>0
        <5> HIDE DEF e, U
        <5>2. QED
          BY <2>3, <4>0, <5>1, FS_RemoveElement
      <4>2. Cardinality(T) \in Nat /\ Cardinality(U) \in Nat
        BY <2>3, <4>0, <4>1, FS_CardinalityType
      <4>3. IsFiniteSet(U) /\ Cardinality(U) = Cardinality(T) - 1
        BY <4>0, <4>1
      <4>4. QED
        BY <4>2, <4>3
    <3>6. PICK n : n = Cardinality(U)
      OBVIOUS
    <3>7. PICK names \in [1..n -> U] : \A i, j \in 1..n : i < j => names[i].at < names[j].at
      BY <3>3, <3>6 DEF Listed
    <3> DEFINE more == [i \in 1 .. n + 1 |-> IF i = n + 1 THEN e ELSE names[i]]
    <3>8. /\ more \in [1 .. n + 1 -> T] /\ more[n + 1] = e
          /\ \A i \in 1..n : more[i] = names[i] /\ names[i] \in U
      <4>1. U \subseteq T
        OBVIOUS
      <4> HIDE DEF U, e
      <4>2. n \in Nat
        BY <3>5, <3>6
      <4>3. \A i \in 1 .. n + 1 : i = n + 1 \/ (i \in 1..n /\ i # n + 1)
        BY <4>2
      <4>4. \A i \in 1..n : names[i] \in U /\ i \in 1 .. n + 1 /\ i # n + 1
        BY <3>7, <4>2
      <4>5. \A i \in 1 .. n + 1 : (IF i = n + 1 THEN e ELSE names[i]) \in T
        BY <3>4, <4>1, <4>3, <4>4
      <4>6. n + 1 \in 1 .. n + 1
        BY <4>2
      <4>7. QED
        BY <4>4, <4>5, <4>6
    <3> HIDE DEF more
    <3>9. ASSUME NEW i \in 1 .. n + 1, NEW j \in 1 .. n + 1, i < j PROVE more[i].at < more[j].at
      <4>1. n \in Nat /\ i \in 1..n /\ (j = n + 1 \/ j \in 1..n)
        BY <3>5, <3>6, <3>9
      <4>2. CASE j = n + 1
        <5>1. more[j].at = k - 1
          BY <3>8, <4>2
        <5>2. more[i] \in U
          BY <3>8, <4>1
        <5>3. QED
          BY <3>2, <5>1, <5>2
      <4>3. CASE j \in 1..n
        <5>1. more[i] = names[i] /\ more[j] = names[j]
          BY <3>8, <4>1, <4>3
        <5>2. QED
          BY <3>7, <3>9, <4>1, <4>3, <5>1
      <4>4. QED
        BY <4>1, <4>2, <4>3
    <3>10. QED
      BY <2>2, <3>5, <3>6, <3>8, <3>9 DEF Listed
  <2>6. QED
    BY <2>4, <2>5
<1>2. S \in SUBSET Before(LastSecond + 1)
  BY LastSecondAssumption DEF FilesOf
<1>3. QED
  BY <1>1, <1>2, LastSecondAssumption

\* What Scan finds is in the order of its names, which are those of backups of one file.
LEMMA FoundInOrder ==
  ASSUME BackupIInv, NEW p \in Programs
  PROVE  /\ Found(p) \in Seq(BackupFile)
         /\ \A i \in 1..Len(Found(p)) : Found(p)[i] \in made /\ Found(p)[i].of = spec[p]
         /\ \A i, j \in 1..Len(Found(p)) : i < j => Found(p)[i].at < Found(p)[j].at
<1> DEFINE found == {e \in Entries(p) : IsFile(e)}
<1>1. found \subseteq FilesOf(spec[p]) /\ found \subseteq made
      /\ found \subseteq BackupFile
      /\ \A e \in found : e.of = spec[p]
  BY DEF BackupIInv, BackupTypes, Entries, NameOk, IsFile, FilesOf, BackupFile
<1>2. IsFiniteSet(found) /\ Listed(found)
  BY <1>1, FinitelyMany, CanBeListed
<1>3. Cardinality(found) \in Nat
  BY <1>2, FS_CardinalityType
<1>4. Found(p) = CHOOSE names \in [1..Cardinality(found) -> found] :
                   \A i, j \in DOMAIN names : i < j => names[i].at < names[j].at
  BY DEF Found
<1> HIDE DEF found
<1>5. /\ Found(p) \in [1..Cardinality(found) -> found]
      /\ \A i, j \in DOMAIN Found(p) : i < j => Found(p)[i].at < Found(p)[j].at
  BY <1>2, <1>4 DEF Listed
<1>6. PICK names : names = Found(p)
  OBVIOUS
<1>7. PICK n \in Nat : n = Cardinality(found)
  BY <1>3
<1>8. /\ names \in [1..n -> found] /\ Len(names) = n
      /\ \A i, j \in 1..n : i < j => names[i].at < names[j].at
  BY <1>5, <1>6, <1>7
<1>9. names \in [1..n -> BackupFile]
  BY <1>1, <1>8
<1>10. names \in Seq(BackupFile)
  BY <1>9
<1>11. \A i \in 1..n : names[i] \in made /\ names[i].of = spec[p]
  BY <1>1, <1>8
<1>12. QED
  BY <1>6, <1>8, <1>10, <1>11

\* What is beyond max_backups has that many newer ones.
LEMMA ExcessIsSurplus ==
  ASSUME BackupIInv, NEW p \in Programs, NEW i \in 1 .. Len(Found(p)) - MaxBackups, i \in 1..Len(Found(p)),
         MaxBackups >= 0
  PROVE  Surplus(Found(p)[i])
<1> DEFINE found == Found(p)
           rest == i + 1 .. Len(found)
           newer == [j \in rest |-> found[j]]
<1>1. /\ found \in Seq(BackupFile)
      /\ \A j \in 1..Len(found) : found[j] \in made /\ found[j].of = spec[p]
      /\ \A j, k \in 1..Len(found) : j < k => found[j].at < found[k].at
  BY FoundInOrder
<1> HIDE DEF found
<1>2. Len(found) \in Nat /\ \A j \in 1..Len(found) : found[j].at \in Int
  <2>1. \A j \in 1..Len(found) : found[j] \in BackupFile
    BY <1>1
  <2>2. Len(found) \in Nat
    BY <1>1
  <2>3. QED
    BY <2>1, <2>2, LastSecondAssumption DEF BackupFile
<1>3. rest \subseteq 1..Len(found) /\ \A j \in rest : i < j
  BY <1>2 DEF found
<1>4. newer \in [rest -> Newer(found[i])]
  BY <1>1, <1>2, <1>3 DEF Newer, found
<1>5. \A j, k \in rest : newer[j] = newer[k] => j = k
  <2> SUFFICES ASSUME NEW j \in rest, NEW k \in rest, newer[j] = newer[k] PROVE j = k
    OBVIOUS
  <2>1. found[j].at = found[k].at /\ found[j].at \in Int
    BY <1>2, <1>3
  <2>2. ~(j < k) /\ ~(k < j)
    BY <1>1, <1>2, <1>3, <2>1
  <2>3. j \in Int /\ k \in Int
    OBVIOUS
  <2>4. QED
    BY <2>2, <2>3
<1>6. newer \in Injection(rest, Newer(found[i]))
  BY <1>4, <1>5 DEF Injection, IsInjective
<1>7. Newer(found[i]) \subseteq FilesOf(found[i].of)
  BY DEF Newer, FilesOf, BackupIInv, BackupTypes, BackupFile
<1>8. IsFiniteSet(Newer(found[i]))
  BY <1>7, FinitelyMany
<1>9. Cardinality(rest) <= Cardinality(Newer(found[i])) /\ Cardinality(Newer(found[i])) \in Nat
  BY <1>6, <1>8, FS_Injection, FS_CardinalityType
<1>10. Cardinality(rest) = IF i + 1 > Len(found) THEN 0 ELSE Len(found) - (i + 1) + 1
  <2>1. i + 1 \in Int /\ Len(found) \in Int
    BY <1>2 DEF found
  <2>2. QED
    BY <2>1, FS_Interval
<1>11. Cardinality(rest) >= MaxBackups
  BY <1>2, <1>10, MaxBackupsAssumption DEF found
<1>12. QED
  BY <1>9, <1>10, <1>11, <1>2, MaxBackupsAssumption DEF Surplus, found

LEMMA BackupInitially == BackupInit => BackupIInv
<1> SUFFICES ASSUME BackupInit PROVE BackupIInv
  OBVIOUS
<1>1. BackupTypes
  BY LastSecondAssumption DEF BackupInit, BackupTypes
<1>2. /\ made = {} /\ \A e \in directory : e.kind = "directory"
      /\ \A p \in Programs : step[p] = "idle" /\ victims[p] = <<>>
  BY DEF BackupInit
<1>3. QED
  BY <1>1, <1>2 DEF BackupIInv, IsFile

\* A surplus backup stays one: newer ones are only added to those made.
LEMMA SurplusStays ==
  ASSUME BackupIInv, BackupTypes', made \subseteq made', NEW b, Surplus(b)
  PROVE  Surplus(b)'
<1>1. Newer(b)' \in SUBSET FilesOf(b.of)
  BY DEF Newer, BackupTypes, FilesOf, BackupFile
<1>2. Newer(b) \in SUBSET Newer(b)'
  BY DEF Newer
<1>3. IsFiniteSet(Newer(b)') /\ IsFiniteSet(Newer(b))
  BY <1>1, <1>2, FinitelyMany
<1>4. /\ Cardinality(Newer(b)) <= Cardinality(Newer(b)')
      /\ Cardinality(Newer(b)) \in Nat /\ Cardinality(Newer(b)') \in Nat
  BY <1>2, <1>3, FS_Subset, FS_CardinalityType
<1>5. QED
  BY <1>4, MaxBackupsAssumption DEF Surplus

LEMMA MakeBackupKeeps ==
  ASSUME BackupIInv, NEW p \in Programs, MakeBackup(p)
  PROVE  BackupIInv'
<1>1. BackupTypes
  BY DEF BackupIInv
<1>2. PICK f \in Files :
        /\ directory' = directory \cup {Backup(f, second)} /\ made' = made \cup {Backup(f, second)}
        /\ step' = [step EXCEPT ![p] = IF MaxBackups > 0 THEN "find" ELSE "idle"]
  BY DEF MakeBackup
<1>3. second' = second /\ spec' = spec /\ victims' = victims
  BY DEF MakeBackup
<1>4. Backup(f, second) \in BackupFile
  BY <1>1 DEF Backup, BackupFile, BackupTypes
<1>5. BackupTypes'
  BY <1>1, <1>2, <1>3, <1>4 DEF BackupTypes, BackupFile
<1>6. \A b : Surplus(b) => Surplus(b)'
  BY <1>2, <1>5, SurplusStays
<1>7. \A q \in Programs : step'[q] = step[q] \/ (q = p /\ step'[q] = IF MaxBackups > 0 THEN "find" ELSE "idle")
  BY <1>1, <1>2 DEF BackupTypes
<1>8. QED
  BY <1>2, <1>3, <1>5, <1>6, <1>7 DEF BackupIInv, IsFile

LEMMA ScanKeeps ==
  ASSUME BackupIInv, NEW p \in Programs, Scan(p)
  PROVE  BackupIInv'
<1>1. BackupTypes /\ MaxBackups > 0
  BY DEF BackupIInv, Scan
<1>2. directory' = directory /\ second' = second /\ made' = made
  BY DEF Scan
<1>3. \A b : Surplus(b)' <=> Surplus(b)
  BY <1>2 DEF Surplus, Newer
<1>4. PICK found : found = Found(p)
  OBVIOUS
<1>5. found \in Seq(BackupFile) /\ Len(found) \in Nat
  BY <1>4, FoundInOrder
<1>6. PICK excess \in Int : excess = Len(found) - MaxBackups
  BY <1>5, MaxBackupsAssumption
<1>7. CASE excess <= 0
  <2>1. step' = [step EXCEPT ![p] = "idle"] /\ victims' = victims
    BY <1>4, <1>6, <1>7 DEF Scan
  <2>2. BackupTypes'
    BY <1>1, <1>2, <2>1 DEF BackupTypes
  <2>3. \A q \in Programs : step'[q] = step[q] \/ step'[q] = "idle"
    BY <1>1, <2>1 DEF BackupTypes
  <2>4. QED
    BY <1>2, <1>3, <2>1, <2>2, <2>3 DEF BackupIInv
<1>8. CASE excess > 0
  <2>1. PICK first : first = SubSeq(found, 1, excess)
    OBVIOUS
  <2>2. /\ step' = [step EXCEPT ![p] = "remove"]
        /\ victims' = [victims EXCEPT ![p] = first]
    BY <1>4, <1>6, <1>8, <2>1 DEF Scan
  <2>3. excess \in 1..Len(found)
    BY <1>1, <1>5, <1>6, <1>8, MaxBackupsAssumption
  <2>4. /\ first \in Seq(BackupFile) /\ Len(first) = excess /\ first # <<>>
        /\ \A i \in 1..excess : first[i] = found[i] /\ i \in 1..Len(found)
    BY <1>5, <2>1, <2>3
  <2>5. \A i \in 1..Len(first) : Surplus(first[i])
    <3> TAKE i \in 1..Len(first)
    <3>1. i \in 1 .. Len(found) - MaxBackups /\ i \in 1..Len(found) /\ first[i] = found[i]
      BY <1>6, <2>4
    <3>2. QED
      BY <1>1, <1>4, <3>1, ExcessIsSurplus, MaxBackupsAssumption
  <2>6. BackupTypes'
    <3>1. victims' \in [Programs -> Seq(BackupFile)]
      BY <1>1, <2>2, <2>4 DEF BackupTypes
    <3>2. QED
      BY <1>1, <1>2, <2>2, <3>1 DEF BackupTypes
  <2>7. \A q \in Programs :
          \/ step'[q] = step[q] /\ victims'[q] = victims[q]
          \/ step'[q] = "remove" /\ victims'[q] = first
    BY <1>1, <2>2 DEF BackupTypes
  <2>8. QED
    BY <1>2, <1>3, <2>4, <2>5, <2>6, <2>7 DEF BackupIInv
<1>9. QED
  BY <1>7, <1>8

LEMMA RemoveOneKeeps ==
  ASSUME BackupIInv, NEW p \in Programs, RemoveOne(p)
  PROVE  BackupIInv'
<1>1. PICK v : v = victims[p]
  OBVIOUS
<1>2. BackupTypes /\ v \in Seq(BackupFile) /\ v # <<>> /\ Surplus(v[1])
  <2>1. BackupTypes /\ v # <<>>
    BY <1>1 DEF BackupIInv, RemoveOne
  <2>2. v \in Seq(BackupFile)
    BY <1>1, <2>1 DEF BackupTypes
  <2>3. 1 \in 1..Len(v)
    BY <2>1, <2>2
  <2>4. QED
    BY <1>1, <2>1, <2>2, <2>3 DEF BackupIInv
<1>3. /\ directory' \in {directory, directory \ {v[1]}}
      /\ victims' = [victims EXCEPT ![p] = Tail(v)]
      /\ step' = [step EXCEPT ![p] = IF Len(v) = 1 THEN "idle" ELSE "remove"]
      /\ second' = second /\ made' = made
  BY <1>1, <1>2 DEF RemoveOne
<1>4. PICK rest : rest = Tail(v)
  OBVIOUS
<1>5. /\ rest \in Seq(BackupFile) /\ (Len(v) # 1 => rest # <<>>)
      /\ \A i \in 1..Len(rest) : rest[i] = v[i + 1] /\ i + 1 \in 1..Len(v)
  <2>1. Len(v) \in Nat \ {0} /\ v \in Seq(BackupFile)
    BY <1>2
  <2>2. rest \in Seq(BackupFile) /\ Len(rest) = Len(v) - 1
    BY <1>2, <1>4
  <2>3. \A i \in 1..Len(rest) : rest[i] = v[i + 1]
    BY <1>2, <1>4
  <2>4. QED
    BY <2>1, <2>2, <2>3
<1>6. \A b : Surplus(b)' <=> Surplus(b)
  BY <1>3 DEF Surplus, Newer
<1>7. \A i \in 1..Len(rest) : Surplus(rest[i])
  BY <1>1, <1>5 DEF BackupIInv
<1>8. BackupTypes'
  <2>1. victims' \in [Programs -> Seq(BackupFile)]
    BY <1>2, <1>3, <1>4, <1>5 DEF BackupTypes
  <2>2. step' \in [Programs -> {"idle", "find", "scan", "remove"}]
    BY <1>2, <1>3 DEF BackupTypes
  <2>3. QED
    BY <1>2, <1>3, <2>1, <2>2 DEF BackupTypes
<1>9. \A q \in Programs :
        \/ step'[q] = step[q] /\ victims'[q] = victims[q]
        \/ step'[q] = (IF Len(v) = 1 THEN "idle" ELSE "remove") /\ victims'[q] = rest
  BY <1>2, <1>3, <1>4 DEF BackupTypes
<1>10. \A q \in Programs :
         /\ step'[q] \in {"find", "scan"} => MaxBackups > 0
         /\ step'[q] = "remove" => victims'[q] # <<>>
         /\ \A i \in 1..Len(victims'[q]) : Surplus(victims'[q][i])
  <2> TAKE q \in Programs
  <2>1. CASE step'[q] = step[q] /\ victims'[q] = victims[q]
    BY <2>1 DEF BackupIInv
  <2>2. CASE step'[q] = (IF Len(v) = 1 THEN "idle" ELSE "remove") /\ victims'[q] = rest
    BY <1>5, <1>7, <2>2
  <2>3. QED
    BY <1>9, <2>1, <2>2
<1>11. \A e \in directory' : IsFile(e) => e \in made'
  BY <1>3 DEF BackupIInv
<1>12. \A b \in made' \ directory' : Surplus(b)
  BY <1>2, <1>3 DEF BackupIInv
<1>13. QED
  BY <1>6, <1>8, <1>10, <1>11, <1>12 DEF BackupIInv

LEMMA OtherBackupStepsKeep ==
  ASSUME BackupIInv, \/ Tick \/ UNCHANGED backupVars
                     \/ \E p \in Programs : SetSpec(p) \/ RestartProgram(p)
  PROVE  BackupIInv'
<1>1. BackupTypes
  BY DEF BackupIInv
<1>2. directory' = directory /\ made' = made
  BY DEF Tick, backupVars, SetSpec, RestartProgram
<1>3. \A b : Surplus(b)' <=> Surplus(b)
  BY <1>2 DEF Surplus, Newer
<1>4. /\ second' \in 0..LastSecond
      /\ step' \in [Programs -> {"idle", "find", "scan", "remove"}]
      /\ victims' \in [Programs -> Seq(BackupFile)]
      /\ \A q \in Programs :
           \/ step'[q] = step[q] /\ victims'[q] = victims[q]
           \/ step'[q] = "scan" /\ step[q] = "find" /\ victims'[q] = victims[q]
           \/ step'[q] = "idle" /\ victims'[q] = <<>>
  <2>1. CASE Tick \/ UNCHANGED backupVars
    BY <1>1, <2>1 DEF Tick, backupVars, BackupTypes
  <2>2. ASSUME NEW p \in Programs, SetSpec(p)
        PROVE  <1>4!:
    BY <1>1, <2>2 DEF SetSpec, BackupTypes
  <2>3. ASSUME NEW p \in Programs, RestartProgram(p)
        PROVE  <1>4!:
    BY <1>1, <2>3 DEF RestartProgram, BackupTypes
  <2>4. QED
    BY <2>1, <2>2, <2>3
<1>5. BackupTypes'
  BY <1>1, <1>2, <1>4 DEF BackupTypes
<1>6. \A q \in Programs :
        /\ step'[q] \in {"find", "scan"} => MaxBackups > 0
        /\ step'[q] = "remove" => victims'[q] # <<>>
        /\ \A i \in 1..Len(victims'[q]) : Surplus(victims'[q][i])
  <2> TAKE q \in Programs
  <2>1. CASE victims'[q] = victims[q] /\ (step'[q] = step[q] \/ (step'[q] = "scan" /\ step[q] = "find"))
    BY <2>1 DEF BackupIInv
  <2>2. CASE step'[q] = "idle" /\ victims'[q] = <<>>
    BY <2>2
  <2>3. QED
    BY <1>4, <2>1, <2>2
<1>7. QED
  BY <1>2, <1>3, <1>5, <1>6 DEF BackupIInv

LEMMA BackupInductive == BackupIInv /\ [BackupNext]_backupVars => BackupIInv'
  BY MakeBackupKeeps, ScanKeeps, RemoveOneKeeps, OtherBackupStepsKeep DEF BackupNext

\* However programs that back up and trim one file interleave, and are killed, and
\* whatever the clock does, no backup goes of which max_backups newer ones were not
\* made (file.cpp:114-149, findfiles.cpp:29-83).
THEOREM NewestStay == BackupSpec => []NewestBackupsStay
<1>1. BackupIInv => NewestBackupsStay
  BY DEF BackupIInv, NewestBackupsStay, Surplus, Newer
<1>2. QED
  BY <1>1, BackupInitially, BackupInductive, PTL DEF BackupSpec

-----------------------------------------------------------------------------
(* Graph: the nodes that are done form, with the edges they were last      *)
(* relaxed by, a tree of routes from the source.  No later node of the     *)
(* queue is nearer than they are, and no edge of theirs leads to a node    *)
(* for less than its cost.                                                 *)

GraphSpec == GraphInit /\ [][GraphNext]_graphVars

Edge == [node : Nodes, cost : Costs]

Computation ==
  [cost : [Nodes -> Nat], previous : [Nodes -> Nodes \cup {NoNode}], queue : SUBSET (Nat \X Nodes)]

Now == [cost |-> cost, previous |-> previous, queue |-> queue]

Done(s, v) == s.cost[v] < MaxCost /\ <<s.cost[v], v>> \notin s.queue

\* How many edges each node is away from the source
Ranked(s) ==
  \E rank \in [Nodes -> Nat] : \A v \in Nodes :
    s.previous[v] # NoNode => rank[v] = rank[s.previous[v]] + 1

Rooted(s) ==
  /\ s.cost[Source] = 0 /\ s.previous[Source] = NoNode
  /\ \A v \in Nodes \ {Source} : s.previous[v] = NoNode => s.cost[v] = MaxCost

Reached(s) ==
  \A v \in Nodes : s.previous[v] # NoNode =>
    /\ Done(s, s.previous[v]) /\ s.cost[v] < MaxCost
    /\ \E c \in EdgeCosts(s.previous[v], v) : s.cost[v] = s.cost[s.previous[v]] + c

QueueOfCosts(s) == \A a \in s.queue : a[1] = s.cost[a[2]] /\ a[1] < MaxCost

TreeOfRoutes(s) ==
  /\ s \in Computation
  /\ \A v \in Nodes : s.cost[v] <= MaxCost
  /\ Rooted(s) /\ Reached(s) /\ Ranked(s) /\ QueueOfCosts(s)

\* The nodes are done in the order of their costs.
Level(s, dist) ==
  /\ \A v \in Nodes : Done(s, v) => s.cost[v] <= dist
  /\ \A a \in s.queue : dist <= a[1]

NoShortcut(s, v) ==
  \A i \in DOMAIN edges[v] : s.cost[edges[v][i].node] <= s.cost[v] + edges[v][i].cost

GraphIInv ==
  /\ edges \in [Nodes -> Seq(Edge)] /\ computed \in BOOLEAN
  /\ TreeOfRoutes(Now)
  /\ ~computed => queue = {} /\ \A v \in Nodes : previous[v] = NoNode
  /\ computed => \A v \in Nodes : Done(Now, v) =>
       NoShortcut(Now, v) /\ \A a \in queue : cost[v] <= a[1]

\* That the functions G[1], ..., G[n] of a set to itself can be iterated
Iterable(S, n, base, G) ==
  \E f \in [0 .. n -> S] : f[0] = base /\ \A i \in 1 .. n : f[i] = G[i][f[i - 1]]

LEMMA Iterated ==
  ASSUME NEW S, NEW n \in Nat, NEW base \in S, NEW G \in [1 .. n -> [S -> S]]
  PROVE  Iterable(S, n, base, G)
<1> DEFINE Upto(m, f) == f[0] = base /\ \A i \in 1 .. m : f[i] = G[i][f[i - 1]]
           Bad == {m \in 0 .. n : ~ \E f \in [0 .. m -> S] : Upto(m, f)}
<1>1. Bad = {}
  <2> SUFFICES ASSUME Bad # {} PROVE FALSE
    OBVIOUS
  <2>1. Bad \in SUBSET Nat
    OBVIOUS
  <2>2. PICK m \in Bad : \A k \in Bad : m <= k
    BY <2>1, LeastPosition
  <2>3. m # 0
    <3>1. [k \in 0 .. 0 |-> base] \in [0 .. 0 -> S] /\ Upto(0, [k \in 0 .. 0 |-> base])
      OBVIOUS
    <3>2. QED
      BY <3>1
  <2>4. m - 1 \in 0 .. n /\ m - 1 \notin Bad
    <3>1. m \in 1 .. n
      BY <2>2, <2>3
    <3>2. m - 1 \in 0 .. n /\ ~ (m <= m - 1)
      BY <3>1
    <3> HIDE DEF Bad
    <3>3. QED
      BY <2>2, <3>2
  <2>5. PICK f \in [0 .. m - 1 -> S] : Upto(m - 1, f)
    BY <2>4
  <2> DEFINE g == [k \in 0 .. m |-> IF k = m THEN G[m][f[m - 1]] ELSE f[k]]
  <2>6. G[m][f[m - 1]] \in S
    BY <2>3
  <2>7. g \in [0 .. m -> S]
    BY <2>6
  <2>8. Upto(m, g)
    <3>1. g[0] = base
      BY <2>3, <2>5
    <3>2. ASSUME NEW i \in 1 .. m PROVE g[i] = G[i][g[i - 1]]
      <4>1. g[i - 1] = f[i - 1]
        BY <2>3
      <4>2. CASE i = m
        BY <4>1, <4>2
      <4>3. CASE i # m
        BY <4>1, <4>3, <2>5
      <4>4. QED
        BY <4>2, <4>3
    <3>3. QED
      BY <3>1, <3>2
  <2>9. QED
    BY <2>7, <2>8, <2>2
<1>2. n \notin Bad
  BY <1>1
<1>3. QED
  BY <1>2 DEF Iterable


\* What relaxing an edge of the node u, which is done, does to the tree
LEMMA RelaxedKeeps ==
  ASSUME GraphAssumption,
         NEW s \in Computation, TreeOfRoutes(s),
         NEW u \in Nodes, Done(s, u), Level(s, s.cost[u]),
         NEW e \in Edge, e.cost \in EdgeCosts(u, e.node),
         NEW t, t = Relaxed(s, u, s.cost[u], e)
  PROVE  /\ t \in Computation /\ TreeOfRoutes(t)
         /\ t.cost[u] = s.cost[u] /\ Level(t, s.cost[u])
         /\ \A v \in Nodes :
              /\ t.cost[v] <= s.cost[v]
              /\ Done(t, v) <=> Done(s, v)
              /\ Done(s, v) => t.cost[v] = s.cost[v]
         /\ t.cost[e.node] <= s.cost[u] + e.cost
<1> DEFINE v == e.node
           dist == s.cost[u]
           through == dist + e.cost
<1>1. /\ v \in Nodes /\ e.cost \in Nat /\ dist \in Nat /\ through \in Nat /\ dist <= through
      /\ MaxCost \in Nat /\ NoNode \notin Nodes /\ Source \in Nodes /\ s.cost[v] \in Nat
  <2>1. Costs \subseteq Nat /\ MaxCost \in Nat /\ NoNode \notin Nodes /\ Source \in Nodes
    BY DEF GraphAssumption
  <2>2. v \in Nodes /\ e.cost \in Nat
    BY <2>1 DEF Edge
  <2>3. dist \in Nat /\ s.cost[v] \in Nat
    BY <2>2 DEF Computation
  <2>4. QED
    BY <2>1, <2>2, <2>3
<1>2. CASE ~ (through < s.cost[v])
  <2>1. t = s
    BY <1>2 DEF Relaxed
  <2>2. s.cost[v] <= through
    BY <1>1, <1>2
  <2>3. \A w \in Nodes : s.cost[w] \in Nat
    BY DEF Computation
  <2>4. QED
    BY <2>1, <2>2, <2>3
<1>3. CASE through < s.cost[v]
  <2>0. s.cost[v] <= MaxCost
    BY <1>1 DEF TreeOfRoutes
  <2>1. /\ t.cost = [s.cost EXCEPT ![v] = through]
        /\ t.previous = [s.previous EXCEPT ![v] = u]
        /\ t.queue = (s.queue \ {<<s.cost[v], v>>}) \cup {<<through, v>>}
        /\ t = [cost |-> t.cost, previous |-> t.previous, queue |-> t.queue]
    BY <1>3 DEF Relaxed
  <2>2. t \in Computation
    <3>1. t.cost \in [Nodes -> Nat] /\ t.previous \in [Nodes -> Nodes \cup {NoNode}]
      BY <1>1, <2>1 DEF Computation
    <3>2. t.queue \in SUBSET (Nat \X Nodes)
      BY <1>1, <2>1 DEF Computation
    <3>3. QED
      BY <2>1, <3>1, <3>2 DEF Computation
  <2>3. /\ t.cost[v] = through /\ t.previous[v] = u
        /\ \A w \in Nodes \ {v} : t.cost[w] = s.cost[w] /\ t.previous[w] = s.previous[w]
        /\ \A w \in Nodes : s.cost[w] \in Nat
    BY <1>1, <2>1 DEF Computation
  <2>4. ~Done(s, v) /\ v # u
    <3>1. ~ (s.cost[v] <= dist)
      BY <1>1, <1>3
    <3>2. ~Done(s, v)
      BY <1>1, <3>1 DEF Level
    <3>3. QED
      BY <3>2
  <2>5. ~Done(t, v)
    BY <2>1, <2>3 DEF Done
  <2>6. ASSUME NEW w \in Nodes, w # v PROVE Done(t, w) <=> Done(s, w)
    <3>1. <<s.cost[w], w>> \in t.queue <=> <<s.cost[w], w>> \in s.queue
      BY <2>1, <2>6
    <3>2. QED
      BY <2>3, <2>6, <3>1 DEF Done
  <2>7. \A w \in Nodes :
          /\ t.cost[w] <= s.cost[w]
          /\ Done(t, w) <=> Done(s, w)
          /\ Done(s, w) => t.cost[w] = s.cost[w]
    BY <1>1, <1>3, <2>3, <2>4, <2>5, <2>6
  <2>8. Level(t, dist)
    <3>1. \A w \in Nodes : Done(t, w) => t.cost[w] <= dist
      BY <2>7 DEF Level
    <3>2. ASSUME NEW a \in t.queue PROVE dist <= a[1]
      <4>1. CASE a = <<through, v>>
        BY <1>1, <4>1
      <4>2. CASE a \in s.queue
        BY <4>2 DEF Level
      <4>3. QED
        BY <2>1, <4>1, <4>2
    <3>3. QED
      BY <3>1, <3>2 DEF Level
  <2>9. v # Source
    BY <1>1, <1>3 DEF TreeOfRoutes, Rooted
  <2>10. Rooted(t)
    BY <1>1, <2>3, <2>9 DEF TreeOfRoutes, Rooted
  <2>11. Reached(t)
    <3> SUFFICES ASSUME NEW w \in Nodes, t.previous[w] # NoNode
                 PROVE  /\ Done(t, t.previous[w]) /\ t.cost[w] < MaxCost
                        /\ \E c \in EdgeCosts(t.previous[w], w) : t.cost[w] = t.cost[t.previous[w]] + c
      BY DEF Reached
    <3>1. CASE w = v
      BY <1>1, <1>3, <2>0, <2>3, <2>4, <2>7, <3>1
    <3>2. CASE w # v
      <4>1. t.previous[w] = s.previous[w] /\ s.previous[w] \in Nodes
        BY <2>3, <3>2 DEF Computation
      <4>2. Done(s, s.previous[w]) /\ s.cost[w] < MaxCost /\ \E c \in EdgeCosts(s.previous[w], w) : s.cost[w] = s.cost[s.previous[w]] + c
        BY <4>1 DEF TreeOfRoutes, Reached
      <4>3. t.cost[w] = s.cost[w] /\ t.cost[s.previous[w]] = s.cost[s.previous[w]]
        BY <2>3, <2>7, <3>2, <4>1, <4>2
      <4>4. Done(t, s.previous[w])
        BY <2>7, <4>1, <4>2
      <4>5. QED
        BY <4>1, <4>2, <4>3, <4>4
    <3>3. QED
      BY <3>1, <3>2
  <2>12. Ranked(t)
    <3>1. PICK rank \in [Nodes -> Nat] :
            \A w \in Nodes : s.previous[w] # NoNode => rank[w] = rank[s.previous[w]] + 1
      BY DEF TreeOfRoutes, Ranked
    <3> DEFINE new == [rank EXCEPT ![v] = rank[u] + 1]
    <3>2. new \in [Nodes -> Nat] /\ new[v] = rank[u] + 1 /\ \A w \in Nodes \ {v} : new[w] = rank[w]
      BY <1>1
    <3> HIDE DEF new
    <3>3. ASSUME NEW w \in Nodes, t.previous[w] # NoNode PROVE new[w] = new[t.previous[w]] + 1
      <4>1. CASE w = v
        BY <2>3, <2>4, <3>2, <4>1
      <4>2. CASE w # v
        <5>1. t.previous[w] = s.previous[w] /\ s.previous[w] \in Nodes
          BY <2>3, <3>3, <4>2 DEF Computation
        <5>2. Done(s, s.previous[w])
          BY <3>3, <5>1 DEF TreeOfRoutes, Reached
        <5>3. s.previous[w] # v
          BY <2>4, <5>2
        <5>4. QED
          BY <3>1, <3>2, <3>3, <4>2, <5>1, <5>3
      <4>3. QED
        BY <4>1, <4>2
    <3>4. QED
      BY <3>2, <3>3 DEF Ranked
  <2>13. QueueOfCosts(t)
    <3> SUFFICES ASSUME NEW a \in t.queue PROVE a[1] = t.cost[a[2]] /\ a[1] < MaxCost
      BY DEF QueueOfCosts
    <3>1. CASE a = <<through, v>>
      BY <1>1, <1>3, <2>0, <2>3, <3>1
    <3>2. CASE a \in s.queue \ {<<s.cost[v], v>>}
      <4>1. a[1] = s.cost[a[2]] /\ a[1] < MaxCost /\ a = <<a[1], a[2]>> /\ a[2] \in Nodes
        BY <3>2 DEF TreeOfRoutes, QueueOfCosts, Computation
      <4>2. a[2] # v
        BY <3>2, <4>1
      <4>3. QED
        BY <2>3, <4>1, <4>2
    <3>3. QED
      BY <2>1, <3>1, <3>2
  <2>14. \A w \in Nodes : t.cost[w] <= MaxCost
    <3>1. \A w \in Nodes : s.cost[w] <= MaxCost
      BY DEF TreeOfRoutes
    <3>2. \A w \in Nodes : t.cost[w] \in Nat
      BY <2>2 DEF Computation
    <3>3. QED
      BY <1>1, <2>3, <2>7, <3>1, <3>2
  <2>15. t.cost[u] = dist /\ t.cost[v] <= through
    BY <1>1, <2>3, <2>4
  <2>16. QED
    BY <2>2, <2>7, <2>8, <2>10, <2>11, <2>12, <2>13, <2>14, <2>15 DEF TreeOfRoutes
<1>4. QED
  BY <1>2, <1>3

\* What it does to the tree that all edges of u are relaxed
AllRelaxedTo(s, u, t) ==
  /\ t \in Computation
  /\ TreeOfRoutes(t) /\ t.cost[u] = s.cost[u] /\ Level(t, s.cost[u])
  /\ \A v \in Nodes :
       /\ t.cost[v] <= s.cost[v]
       /\ Done(t, v) <=> Done(s, v)
       /\ Done(s, v) => t.cost[v] = s.cost[v]
  /\ NoShortcut(t, u)

\* The edges of a node, relaxed one after the other
LEMMA AllRelaxed ==
  ASSUME GraphAssumption, NEW u \in Nodes, edges[u] \in Seq(Edge),
         NEW s \in Computation, TreeOfRoutes(s), Done(s, u), Level(s, s.cost[u]),
         NEW after,
         after = (CHOOSE f : f = [n \in 0 .. Len(edges[u]) |->
                    IF n = 0 THEN s ELSE Relaxed(f[n - 1], u, s.cost[u], edges[u][n])])
  PROVE  \E t : t = after[Len(edges[u])] /\ AllRelaxedTo(s, u, t)
<1> DEFINE leaving == edges[u]
           dist == s.cost[u]
           Step(i, x) == Relaxed(x, u, dist, leaving[i])
           G == [i \in 1 .. Len(leaving) |-> [x \in Computation |-> Step(i, x)]]
<1>1. /\ Len(leaving) \in Nat /\ \A i \in 1 .. Len(leaving) : leaving[i] \in Edge /\ leaving[i].cost \in EdgeCosts(u, leaving[i].node)
  <2>1. Len(leaving) \in Nat /\ DOMAIN leaving = 1 .. Len(leaving) /\ \A i \in 1 .. Len(leaving) : leaving[i] \in Edge
    OBVIOUS
  <2>2. QED
    BY <2>1 DEF EdgeCosts
<1>2. /\ Costs \subseteq Nat /\ NoNode \notin Nodes /\ dist \in Nat
      /\ \A i \in 1 .. Len(leaving) : leaving[i].node \in Nodes /\ leaving[i].cost \in Nat
  <2>1. Costs \subseteq Nat /\ NoNode \notin Nodes
    BY DEF GraphAssumption
  <2>2. dist \in Nat
    BY DEF Computation
  <2>3. QED
    BY <1>1, <2>1, <2>2 DEF Edge
<1>3. ASSUME NEW i \in 1 .. Len(leaving), NEW x \in Computation
      PROVE  Step(i, x) \in Computation
  <2>1. leaving[i].node \in Nodes /\ dist + leaving[i].cost \in Nat
    <3>1. leaving[i].node \in Nodes /\ dist \in Nat /\ leaving[i].cost \in Nat
      BY <1>2
    <3>2. \A a, b \in Nat : a + b \in Nat
      OBVIOUS
    <3>3. QED
      BY <3>1, <3>2
  <2>2. PICK v : v = leaving[i].node
    OBVIOUS
  <2>3. PICK through : through = dist + leaving[i].cost
    OBVIOUS
  <2>4. [x.cost EXCEPT ![v] = through] \in [Nodes -> Nat]
    BY <2>1, <2>2, <2>3 DEF Computation
  <2>5. [x.previous EXCEPT ![v] = u] \in [Nodes -> Nodes \cup {NoNode}]
    BY <2>1, <2>2, <2>3 DEF Computation
  <2>6. (x.queue \ {<<x.cost[v], v>>}) \cup {<<through, v>>} \in SUBSET (Nat \X Nodes)
    <3>1. x.queue \in SUBSET (Nat \X Nodes)
      BY DEF Computation
    <3>2. <<through, v>> \in Nat \X Nodes
      BY <2>1, <2>2, <2>3
    <3>3. QED
      BY <3>1, <3>2
  <2>7. QED
    BY <2>2, <2>3, <2>4, <2>5, <2>6 DEF Relaxed, Computation
<1>4. G \in [1 .. Len(leaving) -> [Computation -> Computation]]
  BY <1>3
<1>5. PICK w \in [0 .. Len(leaving) -> Computation] :
        w[0] = s /\ \A i \in 1 .. Len(leaving) : w[i] = G[i][w[i - 1]]
  <2> HIDE DEF G
  <2>1. PICK n \in Nat : n = Len(leaving)
    BY <1>1
  <2>2. PICK g : g = G
    OBVIOUS
  <2>3. g \in [1 .. n -> [Computation -> Computation]]
    BY <1>4, <2>1, <2>2
  <2>4. \E f \in [0 .. n -> Computation] : f[0] = s /\ \A i \in 1 .. n : f[i] = g[i][f[i - 1]]
    <3>1. PICK S : S = Computation
      OBVIOUS
    <3>2. s \in S /\ g \in [1 .. n -> [S -> S]]
      BY <2>3, <3>1
    <3>3. Iterable(S, n, s, g)
      BY <3>2, Iterated
    <3>4. QED
      BY <3>1, <3>3 DEF Iterable
  <2>5. QED
    BY <2>1, <2>2, <2>4
<1>6. ASSUME NEW i \in 1 .. Len(leaving)
      PROVE  w[i - 1] \in Computation /\ w[i] = Step(i, w[i - 1])
  <2>1. i - 1 \in 0 .. Len(leaving)
    BY <1>1
  <2>2. w[i - 1] \in Computation
    BY <2>1, <1>5
  <2>3. QED
    BY <2>2, <1>5
<1> DEFINE D(f) == [n \in 0 .. Len(leaving) |-> IF n = 0 THEN s ELSE Step(n, f[n - 1])]
<1>7. w = D(w)
  <2>1. ASSUME NEW n \in 0 .. Len(leaving) PROVE w[n] = D(w)[n]
    <3>1. CASE n = 0
      BY <1>5, <3>1
    <3>2. CASE n # 0
      <4>1. n \in 1 .. Len(leaving)
        BY <1>1, <3>2
      <4>2. QED
        BY <1>6, <3>2, <4>1
    <3>3. QED
      BY <3>1, <3>2
  <2>2. QED
    BY <1>5, <2>1
<1>8. after = D(after)
  BY <1>7
<1> DEFINE Good(t, n) ==
             /\ t \in Computation /\ TreeOfRoutes(t) /\ t.cost[u] = dist /\ Level(t, dist)
             /\ \A v \in Nodes :
                  /\ t.cost[v] <= s.cost[v]
                  /\ Done(t, v) <=> Done(s, v)
                  /\ Done(s, v) => t.cost[v] = s.cost[v]
             /\ \A i \in 1 .. n : t.cost[leaving[i].node] <= dist + leaving[i].cost
           Bad == {n \in 0 .. Len(leaving) : ~Good(after[n], n)}
<1>9. after[0] = s /\ \A n \in 1 .. Len(leaving) : after[n] = Step(n, after[n - 1])
  <2>1. \A n \in 0 .. Len(leaving) : after[n] = IF n = 0 THEN s ELSE Step(n, after[n - 1])
    BY <1>8
  <2> HIDE DEF Step
  <2>2. QED
    BY <1>1, <2>1
<1>10. Good(s, 0)
  <2>1. \A v \in Nodes : s.cost[v] \in Nat
    BY DEF Computation
  <2>2. QED
    BY <2>1
<1>11. ASSUME NEW n \in 1 .. Len(leaving), NEW x, Good(x, n - 1) PROVE Good(Step(n, x), n)
  <2>1. PICK t : t = Relaxed(x, u, x.cost[u], leaving[n])
    OBVIOUS
  <2>2. t = Step(n, x)
    BY <1>11, <2>1
  <2>3. x \in Computation /\ TreeOfRoutes(x) /\ Done(x, u) /\ Level(x, x.cost[u])
    BY <1>11
  <2>4. /\ t \in Computation /\ TreeOfRoutes(t)
        /\ t.cost[u] = x.cost[u] /\ Level(t, x.cost[u])
        /\ \A v \in Nodes :
              /\ t.cost[v] <= x.cost[v]
              /\ Done(t, v) <=> Done(x, v)
              /\ Done(x, v) => t.cost[v] = x.cost[v]
        /\ t.cost[leaving[n].node] <= x.cost[u] + leaving[n].cost
    BY <1>1, <2>1, <2>3, RelaxedKeeps
  <2>5. \A v \in Nodes : t.cost[v] \in Nat /\ x.cost[v] \in Nat /\ s.cost[v] \in Nat
    BY <2>3, <2>4 DEF Computation
  <2>6. \A v \in Nodes : t.cost[v] <= s.cost[v]
    <3>1. ASSUME NEW v \in Nodes PROVE t.cost[v] <= s.cost[v]
      <4>1. t.cost[v] <= x.cost[v] /\ x.cost[v] <= s.cost[v]
        BY <1>11, <2>4
      <4>2. \A a, b, c \in Nat : a <= b /\ b <= c => a <= c
        OBVIOUS
      <4>3. QED
        BY <2>5, <4>1, <4>2
    <3>2. QED
      BY <3>1
  <2>7. ASSUME NEW i \in 1 .. n PROVE t.cost[leaving[i].node] <= dist + leaving[i].cost
    <3>1. CASE i = n
      BY <1>11, <2>4, <3>1
    <3>2. CASE i # n
      <4>1. i \in 1 .. n - 1 /\ i \in 1 .. Len(leaving)
        BY <1>1, <3>2
      <4>2. x.cost[leaving[i].node] <= dist + leaving[i].cost
        BY <1>11, <4>1
      <4>3. t.cost[leaving[i].node] <= x.cost[leaving[i].node]
        BY <1>2, <2>4, <4>1
      <4>4. /\ t.cost[leaving[i].node] \in Nat /\ x.cost[leaving[i].node] \in Nat
            /\ leaving[i].cost \in Nat /\ dist \in Nat
        BY <1>2, <2>5, <4>1
      <4>5. \A a, b, c, d \in Nat : a <= b /\ b <= d + c => a <= d + c
        OBVIOUS
      <4>6. QED
        BY <4>2, <4>3, <4>4, <4>5
    <3>3. QED
      BY <3>1, <3>2
  <2>8. QED
    BY <1>11, <2>2, <2>4, <2>6, <2>7
<1>12. Bad = {}
  <2> HIDE DEF Good
  <2> SUFFICES ASSUME Bad # {} PROVE FALSE
    OBVIOUS
  <2>1. PICK m \in Bad : \A k \in Bad : m <= k
    <3>1. Bad \in SUBSET Nat
      OBVIOUS
    <3> HIDE DEF Bad
    <3>2. QED
      BY <3>1, LeastPosition
  <2>2. m \in 0 .. Len(leaving) /\ ~Good(after[m], m)
    BY <2>1
  <2> HIDE DEF Good, Step
  <2>3. m # 0
    BY <1>9, <1>10, <2>2
  <2>4. m \in 1 .. Len(leaving) /\ m - 1 \in 0 .. Len(leaving) /\ ~ (m <= m - 1)
    BY <1>1, <2>2, <2>3
  <2>5. m - 1 \notin Bad
    <3> HIDE DEF Bad
    <3>1. QED
      BY <2>1, <2>4
  <2>6. Good(after[m - 1], m - 1)
    BY <2>4, <2>5
  <2>7. Good(after[m], m)
    BY <1>9, <1>11, <2>4, <2>6
  <2>8. QED
    BY <2>2, <2>7
<1>13. Good(after[Len(leaving)], Len(leaving))
  <2> HIDE DEF Good
  <2>1. PICK n \in 0 .. Len(leaving) : n = Len(leaving)
    BY <1>1
  <2>2. Good(after[n], n)
    BY <1>12, <2>1
  <2>3. QED
    BY <2>1, <2>2
<1>14. DOMAIN leaving = 1 .. Len(leaving)
  OBVIOUS
<1>15. PICK t : t = after[Len(leaving)]
  OBVIOUS
<1>16. Good(t, Len(leaving))
  BY <1>13, <1>15
<1>17. NoShortcut(t, u)
  BY <1>14, <1>16 DEF NoShortcut
<1>18. AllRelaxedTo(s, u, t)
  BY <1>16, <1>17 DEF AllRelaxedTo
<1>19. QED
  BY <1>15, <1>18

-----------------------------------------------------------------------------
LEMMA GraphInitially == GraphAssumption /\ GraphInit => GraphIInv
<1> SUFFICES ASSUME GraphAssumption, GraphInit PROVE GraphIInv
  OBVIOUS
<1>1. MaxCost \in Nat /\ Source \in Nodes /\ NoNode \notin Nodes
  BY DEF GraphAssumption
<1>2. /\ Now.cost = [n \in Nodes |-> IF n = Source THEN 0 ELSE MaxCost]
      /\ Now.previous = [n \in Nodes |-> NoNode] /\ Now.queue = {}
      /\ Now \in Computation
  BY <1>1 DEF GraphInit, Now, Computation
<1>3. Rooted(Now) /\ QueueOfCosts(Now) /\ \A v \in Nodes : Now.cost[v] <= MaxCost
  BY <1>1, <1>2 DEF Rooted, QueueOfCosts
<1>4. Reached(Now)
  BY <1>2 DEF Reached
<1>5. Ranked(Now)
  <2>1. [n \in Nodes |-> 0] \in [Nodes -> Nat]
    OBVIOUS
  <2>2. QED
    BY <1>2, <2>1 DEF Ranked
<1>6. edges \in [Nodes -> Seq(Edge)]
  BY DEF GraphInit
<1>7. QED
  BY <1>2, <1>3, <1>4, <1>5, <1>6 DEF GraphIInv, TreeOfRoutes, GraphInit

LEMMA AddEdgeKeeps == GraphAssumption /\ GraphIInv /\ AddEdge => GraphIInv'
<1> SUFFICES ASSUME GraphAssumption, GraphIInv, AddEdge PROVE GraphIInv'
  OBVIOUS
<1>1. PICK s \in Nodes, d \in Nodes, c \in Costs :
        edges' = [edges EXCEPT ![s] = Append(@, [node |-> d, cost |-> c])]
  BY DEF AddEdge
<1>2. ~computed /\ ~computed' /\ queue = {} /\ Now' = Now /\ \A v \in Nodes : Now.previous[v] = NoNode
  BY DEF AddEdge, GraphIInv, Now
<1>3. edges' \in [Nodes -> Seq(Edge)]
  <2>1. [node |-> d, cost |-> c] \in Edge
    BY DEF Edge
  <2>2. edges \in [Nodes -> Seq(Edge)]
    BY DEF GraphIInv
  <2>3. Append(edges[s], [node |-> d, cost |-> c]) \in Seq(Edge)
    BY <2>1, <2>2, AppendProperties
  <2>4. QED
    BY <1>1, <2>2, <2>3
<1>4. TreeOfRoutes(Now)'
  <2>1. TreeOfRoutes(Now)
    BY DEF GraphIInv
  <2>2. PICK s0 : s0 = Now
    OBVIOUS
  <2>3. TreeOfRoutes(s0) /\ \A v \in Nodes : s0.previous[v] = NoNode
    BY <1>2, <2>1, <2>2
  <2>4. TreeOfRoutes(s0)'
    BY <2>3 DEF TreeOfRoutes, Reached, Rooted, Ranked, QueueOfCosts
  <2>5. QED
    BY <1>2, <2>2, <2>4 DEF TreeOfRoutes, Reached, Rooted, Ranked, QueueOfCosts
<1>5. QED
  BY <1>2, <1>3, <1>4 DEF GraphIInv, AddEdge, Now

LEMMA ComputeKeeps == GraphAssumption /\ GraphIInv /\ Compute => GraphIInv'
<1> SUFFICES ASSUME GraphAssumption, GraphIInv, Compute PROVE GraphIInv'
  OBVIOUS
<1>0. MaxCost \in Nat /\ Source \in Nodes /\ 0 < MaxCost
  <2>1. PICK most \in Costs : Cardinality(Nodes) * most < MaxCost
    BY DEF GraphAssumption
  <2>2. MaxCost \in Nat /\ Source \in Nodes /\ IsFiniteSet(Nodes) /\ most \in Nat
    BY DEF GraphAssumption
  <2>3. Cardinality(Nodes) \in Nat
    BY <2>2, FS_CardinalityType
  <2>4. \A a, b \in Nat : a * b \in Nat
    OBVIOUS
  <2>5. Cardinality(Nodes) * most \in Nat
    BY <2>2, <2>3, <2>4
  <2>6. QED
    BY <2>1, <2>2, <2>5
<1>1. PICK s : s = Now
  OBVIOUS
<1>2. PICK t : t = Now'
  OBVIOUS
<1>3. /\ TreeOfRoutes(s) /\ s.queue = {} /\ \A v \in Nodes : s.previous[v] = NoNode
      /\ t = [cost |-> s.cost, previous |-> s.previous, queue |-> {<<0, Source>>}]
      /\ s = [cost |-> s.cost, previous |-> s.previous, queue |-> s.queue]
  <2>1. TreeOfRoutes(Now) /\ queue = {} /\ cost[Source] = 0 /\ \A v \in Nodes : previous[v] = NoNode
    BY DEF GraphIInv, Compute, Now, TreeOfRoutes, Rooted
  <2>2. s = [cost |-> cost, previous |-> previous, queue |-> queue]
    BY <1>1 DEF Now
  <2>3. t = [cost |-> cost, previous |-> previous, queue |-> {<<0, Source>>}]
    BY <1>2, <2>1 DEF Now, Compute
  <2>4. s.cost = cost /\ s.previous = previous /\ s.queue = queue
    BY <2>2
  <2>5. TreeOfRoutes(s)
    BY <1>1, <2>1
  <2>6. QED
    BY <2>1, <2>2, <2>3, <2>4, <2>5
<1>4. /\ t.cost = s.cost /\ t.previous = s.previous /\ t.queue = {<<0, Source>>}
      /\ t = [cost |-> t.cost, previous |-> t.previous, queue |-> t.queue]
  BY <1>3
<1>5. t \in Computation
  BY <1>0, <1>3, <1>4 DEF TreeOfRoutes, Computation
<1>6. TreeOfRoutes(t)
  <2>1. Rooted(t) /\ Reached(t) /\ \A v \in Nodes : t.cost[v] <= MaxCost
    BY <1>3, <1>4 DEF TreeOfRoutes, Rooted, Reached
  <2>2. Ranked(t)
    BY <1>3, <1>4 DEF TreeOfRoutes, Ranked
  <2>3. QueueOfCosts(t)
    BY <1>0, <1>3, <1>4 DEF TreeOfRoutes, QueueOfCosts, Rooted
  <2>4. QED
    BY <1>5, <2>1, <2>2, <2>3 DEF TreeOfRoutes
<1>7. \A v \in Nodes : ~Done(t, v)
  <2>1. ASSUME NEW v \in Nodes PROVE ~Done(t, v)
    <3>1. CASE v = Source
      BY <1>3, <1>4, <3>1 DEF Done, TreeOfRoutes, Rooted
    <3>2. CASE v # Source
      <4>1. t.cost[v] = MaxCost
        BY <1>3, <1>4, <3>2 DEF TreeOfRoutes, Rooted
      <4>2. QED
        BY <1>0, <4>1 DEF Done
    <3>3. QED
      BY <3>1, <3>2
  <2>2. QED
    BY <2>1
<1>8. edges' = edges /\ computed'
  BY DEF Compute
<1>9. TreeOfRoutes(t)'
  BY <1>6, <1>8 DEF TreeOfRoutes, Rooted, Reached, Ranked, QueueOfCosts, EdgeCosts
<1>10. TreeOfRoutes(Now)'
  BY <1>2, <1>9 DEF TreeOfRoutes, Rooted, Reached, Ranked, QueueOfCosts
<1>11. \A v \in Nodes : ~Done(Now, v)'
  BY <1>2, <1>7 DEF Done
<1>12. QED
  BY <1>8, <1>10, <1>11 DEF GraphIInv

\* The first element of the queue
LEMMA FirstOfQueue ==
  ASSUME NEW q, Nodes \subseteq Nat, q \in SUBSET (Nat \X Nodes), q # {}
  PROVE  First(q) \in q /\ \A a \in q : First(q)[1] <= a[1]
<1>1. \A a \in q : a[1] \in Nat /\ a[2] \in Nat
  OBVIOUS
<1> DEFINE C == {a[1] : a \in q}
<1>2. PICK c \in C : \A x \in C : c <= x
  <2>1. C \in SUBSET Nat /\ C # {}
    BY <1>1
  <2> HIDE DEF C
  <2>2. QED
    BY <2>1, LeastPosition
<1> DEFINE N == {a[2] : a \in {b \in q : b[1] = c}}
<1>3. PICK n \in N : \A x \in N : n <= x
  <2>1. N \in SUBSET Nat
    BY <1>1
  <2>2. N # {}
    BY <1>2
  <2> HIDE DEF N
  <2>3. QED
    BY <2>1, <2>2, LeastPosition
<1>4. PICK m \in q : m[1] = c /\ m[2] = n
  BY <1>3
<1>5. \A b \in q : m[1] < b[1] \/ (m[1] = b[1] /\ m[2] <= b[2])
  <2>1. ASSUME NEW b \in q PROVE m[1] < b[1] \/ (m[1] = b[1] /\ m[2] <= b[2])
    <3>1. c <= b[1]
      BY <1>2
    <3>2. b[1] = c => n <= b[2]
      BY <1>3
    <3>3. QED
      BY <1>1, <1>4, <3>1, <3>2
  <2>2. QED
    BY <2>1
<1>6. /\ First(q) \in q
      /\ \A b \in q : First(q)[1] < b[1] \/ (First(q)[1] = b[1] /\ First(q)[2] <= b[2])
  <2>1. \E a \in q : \A b \in q : a[1] < b[1] \/ (a[1] = b[1] /\ a[2] <= b[2])
    BY <1>5
  <2>2. QED
    BY <2>1 DEF First
<1>7. QED
  <2>1. PICK f : f = First(q)
    OBVIOUS
  <2>2. QED
    BY <1>1, <1>6, <2>1

LEMMA SettleKeeps == GraphAssumption /\ GraphIInv /\ Settle => GraphIInv'
<1> SUFFICES ASSUME GraphAssumption, GraphIInv, Settle PROVE GraphIInv'
  OBVIOUS
<1>0. Nodes \subseteq Nat /\ MaxCost \in Nat
  BY DEF GraphAssumption
<1>1. computed
  BY DEF GraphIInv, Settle
<1>2. PICK old : old = Now
  OBVIOUS
<1>3. /\ old \in Computation /\ TreeOfRoutes(old)
      /\ old.cost = cost /\ old.previous = previous /\ old.queue = queue
      /\ \A v \in Nodes : Done(old, v) => NoShortcut(old, v) /\ \A a \in queue : cost[v] <= a[1]
  BY <1>1, <1>2 DEF GraphIInv, TreeOfRoutes, Now
<1>4. queue \in SUBSET (Nat \X Nodes) /\ queue # {}
  BY <1>3 DEF Computation, Settle
<1>5. PICK q \in queue : q = First(queue) /\ \A a \in queue : q[1] <= a[1]
  BY <1>0, <1>4, FirstOfQueue
<1>6. PICK u \in Nodes, dist \in Nat : u = q[2] /\ dist = q[1] /\ q = <<dist, u>>
  <2>1. q \in Nat \X Nodes
    BY <1>4
  <2>2. q[1] \in Nat /\ q[2] \in Nodes /\ q = <<q[1], q[2]>>
    BY <2>1
  <2>3. QED
    BY <2>2
<1>7. old.cost[u] = dist /\ dist < MaxCost
  BY <1>3, <1>5, <1>6 DEF TreeOfRoutes, QueueOfCosts
<1>8. PICK s : s = [cost |-> cost, previous |-> previous, queue |-> queue \ {q}]
  OBVIOUS
<1>9. /\ s \in Computation /\ s.cost = old.cost /\ s.previous = old.previous
      /\ s.queue = old.queue \ {q}
  BY <1>3, <1>8 DEF Computation
<1>10. \A v \in Nodes : Done(s, v) <=> Done(old, v) \/ v = u
  <2>1. ASSUME NEW v \in Nodes PROVE Done(s, v) <=> Done(old, v) \/ v = u
    <3>1. CASE v = u
      BY <1>6, <1>7, <1>9, <3>1 DEF Done
    <3>2. CASE v # u
      <4>1. <<s.cost[v], v>> # q
        BY <1>6, <3>2
      <4>2. QED
        BY <1>9, <3>2, <4>1 DEF Done
    <3>3. QED
      BY <3>1, <3>2
  <2>2. QED
    BY <2>1
<1>11. Done(s, u) /\ s.cost[u] = dist
  BY <1>7, <1>9, <1>10
<1>12. TreeOfRoutes(s)
  <2>1. Rooted(s) /\ \A v \in Nodes : s.cost[v] <= MaxCost
    BY <1>3, <1>9 DEF TreeOfRoutes, Rooted
  <2>2. Ranked(s)
    BY <1>3, <1>9 DEF TreeOfRoutes, Ranked
  <2>3. QueueOfCosts(s)
    BY <1>3, <1>9 DEF TreeOfRoutes, QueueOfCosts
  <2>4. Reached(s)
    <3>1. \A v \in Nodes : old.previous[v] \in Nodes \cup {NoNode}
      BY <1>3 DEF Computation
    <3>2. QED
      BY <1>3, <1>9, <1>10, <3>1 DEF TreeOfRoutes, Reached
  <2>5. QED
    BY <1>9, <2>1, <2>2, <2>3, <2>4 DEF TreeOfRoutes
<1>13. Level(s, dist)
  <2>1. ASSUME NEW v \in Nodes, Done(s, v) PROVE s.cost[v] <= dist
    <3>1. CASE v = u
      BY <1>11, <3>1
    <3>2. CASE v # u
      BY <1>3, <1>5, <1>6, <1>9, <1>10, <2>1, <3>2
    <3>3. QED
      BY <3>1, <3>2
  <2>2. \A a \in s.queue : dist <= a[1]
    BY <1>3, <1>5, <1>6, <1>9
  <2>3. QED
    BY <2>1, <2>2 DEF Level
<1>14. edges[u] \in Seq(Edge)
  BY DEF GraphIInv
<1> DEFINE After == CHOOSE f : f = [n \in 0 .. Len(edges[u]) |->
                      IF n = 0 THEN s ELSE Relaxed(f[n - 1], u, dist, edges[u][n])]
<1>15. PICK after : after = After
  OBVIOUS
<1>16. PICK t \in Computation :
           /\ t = after[Len(edges[u])]
           /\ TreeOfRoutes(t) /\ t.cost[u] = s.cost[u] /\ Level(t, s.cost[u])
           /\ \A v \in Nodes :
                /\ t.cost[v] <= s.cost[v]
                /\ Done(t, v) <=> Done(s, v)
                /\ Done(s, v) => t.cost[v] = s.cost[v]
           /\ NoShortcut(t, u)
  <2>1. after = (CHOOSE f : f = [n \in 0 .. Len(edges[u]) |->
                   IF n = 0 THEN s ELSE Relaxed(f[n - 1], u, s.cost[u], edges[u][n])])
    BY <1>11, <1>15
  <2>2. Level(s, s.cost[u])
    BY <1>11, <1>13
  <2>3. \E t : t = after[Len(edges[u])] /\ AllRelaxedTo(s, u, t)
    BY <1>9, <1>11, <1>12, <1>14, <2>1, <2>2, AllRelaxed
  <2>4. QED
    BY <2>3 DEF AllRelaxedTo
<1>17. /\ cost' = t.cost /\ previous' = t.previous /\ queue' = t.queue
       /\ edges' = edges /\ computed' = computed
  <2> DEFINE A(p) == CHOOSE f : f = [n \in 0 .. Len(edges[p[2]]) |->
                       IF n = 0 THEN [cost |-> cost, previous |-> previous, queue |-> queue \ {p}]
                       ELSE Relaxed(f[n - 1], p[2], p[1], edges[p[2]][n])]
             EndAfter(p) == A(p)[Len(edges[p[2]])]
  <2>1. /\ cost' = EndAfter(First(queue)).cost /\ previous' = EndAfter(First(queue)).previous
        /\ queue' = EndAfter(First(queue)).queue /\ edges' = edges /\ computed' = computed
    BY DEF Settle
  <2>2. A(q) = After
    BY <1>6, <1>8
  <2>3. EndAfter(q) = t
    BY <1>6, <1>15, <1>16, <2>2
  <2> HIDE DEF EndAfter
  <2>4. EndAfter(First(queue)) = t
    BY <1>5, <2>3
  <2>5. QED
    BY <2>1, <2>4
<1>18. Now' = t
  BY <1>16, <1>17 DEF Now, Computation
<1>19. TreeOfRoutes(t)'
  <2>1. \A v, w : EdgeCosts(v, w)' = EdgeCosts(v, w)
    BY <1>17 DEF EdgeCosts
  <2>2. Reached(t)'
    BY <1>16, <2>1 DEF TreeOfRoutes, Reached
  <2>3. QED
    BY <1>16, <2>2 DEF TreeOfRoutes
<1>20. TreeOfRoutes(Now)'
  BY <1>18, <1>19 DEF TreeOfRoutes, Rooted, Reached, Ranked, QueueOfCosts
<1>21. ASSUME NEW v \in Nodes, Done(t, v)
       PROVE  NoShortcut(t, v) /\ \A a \in t.queue : t.cost[v] <= a[1]
  <2>1. \A w \in Nodes : t.cost[w] \in Nat /\ s.cost[w] \in Nat
    BY <1>9, <1>16 DEF Computation
  <2>2. ASSUME NEW a \in t.queue PROVE t.cost[v] <= a[1]
    <3>1. t.cost[v] <= dist /\ dist <= a[1] /\ a[1] \in Nat
      BY <1>11, <1>16, <1>21, <2>2 DEF Level, Computation
    <3>2. QED
      BY <2>1, <3>1
  <2>3. NoShortcut(t, v)
    <3>1. CASE v = u
      BY <1>16, <3>1
    <3>2. CASE v # u
      <4>1. Done(old, v) /\ t.cost[v] = s.cost[v]
        BY <1>10, <1>16, <1>21, <3>2
      <4>2. NoShortcut(old, v)
        BY <1>3, <4>1
      <4>3. ASSUME NEW i \in DOMAIN edges[v]
            PROVE  t.cost[edges[v][i].node] <= t.cost[v] + edges[v][i].cost
        <5>1. edges[v][i] \in Edge
          BY DEF GraphIInv
        <5>2. PICK w \in Nodes, c \in Nat : w = edges[v][i].node /\ c = edges[v][i].cost
          BY <5>1 DEF Edge, GraphAssumption
        <5>3. s.cost[w] <= s.cost[v] + c /\ t.cost[w] <= s.cost[w]
          BY <1>9, <1>16, <4>2, <5>2 DEF NoShortcut
        <5>4. QED
          BY <2>1, <4>1, <5>2, <5>3
      <4>4. QED
        BY <4>3 DEF NoShortcut
    <3>3. QED
      BY <3>1, <3>2
  <2>4. QED
    BY <2>2, <2>3
<1>22. \A v \in Nodes : Done(Now, v)' =>
         NoShortcut(Now, v)' /\ \A a \in queue' : cost'[v] <= a[1]
  BY <1>17, <1>18, <1>21 DEF Done, NoShortcut
<1>23. QED
  BY <1>1, <1>17, <1>20, <1>22 DEF GraphIInv

LEMMA GraphInductive == GraphAssumption /\ GraphIInv /\ [GraphNext]_graphVars => GraphIInv'
<1> SUFFICES ASSUME GraphAssumption, GraphIInv, [GraphNext]_graphVars PROVE GraphIInv'
  OBVIOUS
<1>1. CASE AddEdge
  BY <1>1, AddEdgeKeeps
<1>2. CASE Compute
  BY <1>2, ComputeKeeps
<1>3. CASE Settle
  BY <1>3, SettleKeeps
<1>4. CASE UNCHANGED graphVars
  <2>1. Now' = Now /\ edges' = edges /\ computed' = computed /\ previous' = previous /\ queue' = queue /\ cost' = cost
    BY <1>4 DEF graphVars, Now
  <2>2. PICK s : s = Now
    OBVIOUS
  <2>3. \A v, w : EdgeCosts(v, w)' = EdgeCosts(v, w)
    BY <2>1 DEF EdgeCosts
  <2>4. TreeOfRoutes(s)
    BY <2>2 DEF GraphIInv
  <2>5. Reached(s)'
    BY <2>3, <2>4 DEF TreeOfRoutes, Reached
  <2>6. TreeOfRoutes(Now)'
    BY <2>1, <2>2, <2>4, <2>5 DEF TreeOfRoutes, Reached
  <2>7. \A v \in Nodes : Done(Now, v)' = Done(Now, v) /\ NoShortcut(Now, v)' = NoShortcut(Now, v)
    BY <2>1 DEF Done, NoShortcut
  <2>8. QED
    BY <2>1, <2>6, <2>7 DEF GraphIInv
<1>5. QED
  BY <1>1, <1>2, <1>3, <1>4 DEF GraphNext

-----------------------------------------------------------------------------
LEMMA LeastIn ==
  ASSUME NEW S \in SUBSET Nat, S # {}
  PROVE  Min(S) \in S /\ \A y \in S : Min(S) <= y
<1>1. PICK x \in S : \A y \in S : x <= y
  BY LeastPosition
<1>2. QED
  BY <1>1 DEF Min

\* f[i] is what the first i edges of the path p cost.
CostsAlong(p, n, f) ==
  /\ f \in [0 .. n - 1 -> Nat] /\ f[0] = 0
  /\ \A i \in 1 .. n - 1 : f[i] = f[i - 1] + Min(EdgeCosts(p[i], p[i + 1]))

IsPath(p, n) ==
  /\ n \in Nat \ {0} /\ p \in [1 .. n -> Nodes] /\ Len(p) = n
  /\ \A i \in 1 .. n - 1 : EdgeCosts(p[i], p[i + 1]) # {}

\* Everything that edges cost
LEMMA EdgeCostsIn ==
  ASSUME GraphAssumption, GraphIInv, NEW u \in Nodes, NEW v \in Nodes
  PROVE  /\ EdgeCosts(u, v) \subseteq Costs \cap Nat
         /\ EdgeCosts(u, v) # {} =>
              /\ Min(EdgeCosts(u, v)) \in EdgeCosts(u, v) \cap Costs \cap Nat
              /\ \A c \in EdgeCosts(u, v) : Min(EdgeCosts(u, v)) <= c
<1>1. EdgeCosts(u, v) \subseteq Costs
  <2>1. edges[u] \in Seq(Edge)
    BY DEF GraphIInv
  <2>2. \A i \in DOMAIN edges[u] : edges[u][i].cost \in Costs
    <3>1. \A i \in DOMAIN edges[u] : edges[u][i] \in Edge
      BY <2>1
    <3>2. QED
      BY <3>1 DEF Edge
  <2>3. QED
    BY <2>2 DEF EdgeCosts
<1>2. EdgeCosts(u, v) \subseteq Nat
  BY <1>1 DEF GraphAssumption
<1>3. PICK S : S = EdgeCosts(u, v)
  OBVIOUS
<1>4. S # {} => Min(S) \in S /\ \A y \in S : Min(S) <= y
  BY <1>2, <1>3, LeastIn
<1>5. QED
  BY <1>1, <1>2, <1>3, <1>4

LEMMA RouteCostIs ==
  ASSUME GraphAssumption, GraphIInv, NEW p, NEW n, IsPath(p, n)
  PROVE  \E f : CostsAlong(p, n, f) /\ RouteCost(p) = f[n - 1]
<1> DEFINE Leg(i) == Min(EdgeCosts(p[i], p[i + 1]))
<1>1. PICK k \in Nat : k = n - 1
  BY DEF IsPath
<1>2. \A i \in 1 .. k : Leg(i) \in Nat
  <2>1. ASSUME NEW i \in 1 .. k PROVE Leg(i) \in Nat
    <3>1. p[i] \in Nodes /\ p[i + 1] \in Nodes /\ EdgeCosts(p[i], p[i + 1]) # {}
      BY <1>1 DEF IsPath
    <3>2. PICK u \in Nodes, v \in Nodes : u = p[i] /\ v = p[i + 1]
      BY <3>1
    <3>3. QED
      BY <3>1, <3>2, EdgeCostsIn
  <2>2. QED
    BY <2>1
<1>3. PICK leg : leg = [i \in 1 .. k |-> Leg(i)]
  OBVIOUS
<1>4. PICK g : g = [i \in 1 .. k |-> [x \in Nat |-> x + leg[i]]]
  OBVIOUS
<1>5. g \in [1 .. k -> [Nat -> Nat]]
  <2>1. \A i \in 1 .. k : leg[i] \in Nat
    BY <1>2, <1>3
  <2>2. \A i \in 1 .. k : [x \in Nat |-> x + leg[i]] \in [Nat -> Nat]
    BY <2>1
  <2>3. QED
    BY <1>4, <2>2
<1>6. Iterable(Nat, k, 0, g)
  BY <1>5, Iterated
<1>7. PICK w \in [0 .. k -> Nat] : w[0] = 0 /\ \A i \in 1 .. k : w[i] = g[i][w[i - 1]]
  BY <1>6 DEF Iterable
<1>8. \A i \in 1 .. k : w[i] = w[i - 1] + Leg(i)
  <2>1. ASSUME NEW i \in 1 .. k PROVE w[i] = w[i - 1] + Leg(i)
    <3>1. w[i - 1] \in Nat
      BY <1>1
    <3>2. w[i] = w[i - 1] + leg[i]
      BY <1>4, <1>7, <3>1
    <3>3. QED
      BY <1>3, <3>2
  <2>2. QED
    BY <2>1
<1> HIDE DEF Leg
<1> DEFINE D(f) == [i \in 0 .. k |-> IF i = 0 THEN 0 ELSE f[i - 1] + Leg(i)]
<1>9. w = D(w)
  <2>1. \A i \in 0 .. k : w[i] = IF i = 0 THEN 0 ELSE w[i - 1] + Leg(i)
    BY <1>1, <1>7, <1>8
  <2>2. QED
    BY <1>7, <2>1
<1>10. PICK f : f = (CHOOSE h : h = D(h))
  OBVIOUS
<1>11. f = D(f)
  BY <1>9, <1>10
<1>12. f[0] = 0 /\ \A i \in 1 .. k : f[i] = f[i - 1] + Leg(i)
  <2>1. \A i \in 0 .. k : f[i] = IF i = 0 THEN 0 ELSE f[i - 1] + Leg(i)
    BY <1>11
  <2>2. QED
    BY <1>1, <2>1
<1>13. \A i \in 0 .. k : f[i] \in Nat
  <2> DEFINE Bad == {i \in 0 .. k : f[i] \notin Nat}
  <2> SUFFICES ASSUME Bad # {} PROVE FALSE
    OBVIOUS
  <2>1. PICK m \in Bad : \A j \in Bad : m <= j
    <3>1. Bad \in SUBSET Nat
      OBVIOUS
    <3> HIDE DEF Bad
    <3>2. QED
      BY <3>1, LeastPosition
  <2>2. m \in 0 .. k /\ f[m] \notin Nat
    BY <2>1
  <2>3. m \in 1 .. k /\ m - 1 \in 0 .. k /\ ~ (m <= m - 1)
    BY <1>1, <1>12, <2>2
  <2>4. m - 1 \notin Bad
    <3> HIDE DEF Bad
    <3>1. QED
      BY <2>1, <2>3
  <2>5. f[m - 1] \in Nat
    BY <2>3, <2>4
  <2>6. Leg(m) \in Nat /\ f[m] = f[m - 1] + Leg(m)
    BY <1>2, <1>12, <2>3
  <2>7. QED
    BY <2>2, <2>5, <2>6
<1>14. f \in [0 .. k -> Nat]
  BY <1>11, <1>13
<1>15. CostsAlong(p, n, f)
  BY <1>1, <1>12, <1>14 DEF CostsAlong, Leg
<1>16. RouteCost(p) = f[n - 1]
  <2>1. Len(p) = n
    BY DEF IsPath
  <2>2. RouteCost(p) = (CHOOSE h : h = [i \in 0 .. n - 1 |-> IF i = 0 THEN 0 ELSE h[i - 1] + Leg(i)])[n - 1]
    BY <2>1 DEF RouteCost, Leg
  <2>3. QED
    BY <1>1, <1>10, <2>2
<1>17. QED
  BY <1>15, <1>16

\* What RouteCost adds up to is at least the cost of where it leads to, and
\* below infinity.
LEMMA CostIsLeast ==
  ASSUME GraphAssumption, GraphIInv, computed, queue = {},
         NEW p, NEW n, IsPath(p, n), n <= Cardinality(Nodes), p[1] = Source
  PROVE  cost[p[n]] <= RouteCost(p) /\ cost[p[n]] < MaxCost /\ RouteCost(p) \in Nat
<1>1. PICK f : CostsAlong(p, n, f) /\ RouteCost(p) = f[n - 1]
  BY RouteCostIs
<1>2. PICK k \in Nat : k = n - 1
  BY DEF IsPath
<1>3. PICK most \in Costs : (\A c \in Costs : c <= most) /\ Cardinality(Nodes) * most < MaxCost
  BY DEF GraphAssumption
<1>4. /\ Costs \subseteq Nat /\ most \in Nat /\ MaxCost \in Nat /\ IsFiniteSet(Nodes)
  BY DEF GraphAssumption
<1>5. Cardinality(Nodes) \in Nat
  BY <1>4, FS_CardinalityType
<1>6. \A i \in 0 .. k : i * most \in Nat /\ i * most < MaxCost
  <2>1. \A a, b, c \in Nat : a <= b => a * c <= b * c /\ a * c \in Nat /\ b * c \in Nat
    OBVIOUS
  <2>2. ASSUME NEW i \in 0 .. k PROVE i * most \in Nat /\ i * most < MaxCost
    <3>1. i \in Nat /\ i <= Cardinality(Nodes)
      BY <1>2, <1>5 DEF IsPath
    <3>2. i * most <= Cardinality(Nodes) * most /\ i * most \in Nat /\ Cardinality(Nodes) * most \in Nat
      BY <1>4, <1>5, <2>1, <3>1
    <3>3. PICK x, y : x = i * most /\ y = Cardinality(Nodes) * most
      OBVIOUS
    <3>4. QED
      BY <1>3, <1>4, <3>2, <3>3
  <2>3. QED
    BY <2>2
<1>7. /\ \A v \in Nodes : cost[v] \in Nat /\ (cost[v] < MaxCost => NoShortcut(Now, v))
      /\ Now.cost = cost /\ cost[Source] = 0
  <2>1. Now.cost = cost /\ Now.queue = {}
    BY DEF Now
  <2>2. \A v \in Nodes : cost[v] < MaxCost => Done(Now, v)
    BY <2>1 DEF Done
  <2>3. QED
    BY <2>1, <2>2 DEF GraphIInv, TreeOfRoutes, Computation, Rooted
<1> DEFINE Near(i) == f[i] \in Nat /\ f[i] <= i * most /\ cost[p[i + 1]] <= f[i]
           Bad == {i \in 0 .. k : ~Near(i)}
<1>8. Near(0)
  <2>1. f[0] = 0 /\ p[1] = Source
    BY <1>1 DEF CostsAlong
  <2>2. 0 * most = 0
    BY <1>4
  <2>3. QED
    BY <1>7, <2>1, <2>2
<1>9. ASSUME NEW i \in 1 .. k, Near(i - 1) PROVE Near(i)
  <2>1. p[i] \in Nodes /\ p[i + 1] \in Nodes /\ EdgeCosts(p[i], p[i + 1]) # {}
    BY <1>2 DEF IsPath
  <2>2. PICK u \in Nodes, v \in Nodes : u = p[i] /\ v = p[i + 1]
    BY <2>1
  <2>3. PICK c \in Nat : c = Min(EdgeCosts(u, v)) /\ c \in Costs /\ c \in EdgeCosts(u, v) /\ c <= most
    BY <1>3, <2>1, <2>2, EdgeCostsIn
  <2>4. i - 1 + 1 = i /\ i - 1 \in 0 .. k
    BY <1>2
  <2>5. PICK was \in Nat : was = f[i - 1] /\ was <= (i - 1) * most /\ cost[u] <= was
    BY <1>9, <2>2, <2>4
  <2>6. f[i] = was + c
    BY <1>1, <1>2, <2>2, <2>3, <2>5 DEF CostsAlong
  <2>7. was + c <= i * most
    <3>1. \A a, b, m, x \in Nat : a >= 1 /\ b <= (a - 1) * m /\ x <= m => b + x <= a * m
      OBVIOUS
    <3>2. i \in Nat /\ i >= 1
      BY <1>2
    <3>3. QED
      BY <1>4, <2>3, <2>5, <3>1, <3>2
  <2>8. cost[u] < MaxCost
    <3>1. (i - 1) * most < MaxCost /\ (i - 1) * most \in Nat
      BY <1>6, <2>4
    <3>2. PICK x \in Nat : x = (i - 1) * most
      BY <3>1
    <3>3. QED
      BY <1>4, <1>7, <2>5, <3>1, <3>2
  <2>9. cost[v] <= cost[u] + c
    <3>1. PICK j \in DOMAIN edges[u] : edges[u][j].node = v /\ edges[u][j].cost = c
      BY <2>3 DEF EdgeCosts
    <3>2. NoShortcut(Now, u)
      BY <1>7, <2>8
    <3>3. QED
      BY <1>7, <3>1, <3>2 DEF NoShortcut
  <2>10. QED
    BY <1>7, <2>2, <2>5, <2>6, <2>7, <2>9
<1>10. Bad = {}
  <2> SUFFICES ASSUME Bad # {} PROVE FALSE
    OBVIOUS
  <2>1. PICK m \in Bad : \A j \in Bad : m <= j
    <3>1. Bad \in SUBSET Nat
      OBVIOUS
    <3> HIDE DEF Bad
    <3>2. QED
      BY <3>1, LeastPosition
  <2>2. m \in 0 .. k /\ ~Near(m)
    BY <2>1
  <2> HIDE DEF Near
  <2>3. m \in 1 .. k /\ m - 1 \in 0 .. k /\ ~ (m <= m - 1)
    BY <1>2, <1>8, <2>2
  <2>4. m - 1 \notin Bad
    <3> HIDE DEF Bad
    <3>1. QED
      BY <2>1, <2>3
  <2>5. Near(m - 1)
    BY <2>3, <2>4
  <2>6. QED
    BY <1>9, <2>2, <2>3, <2>5
<1>11. Near(k)
  <2> HIDE DEF Near
  <2>1. k \in 0 .. k
    BY <1>2
  <2>2. QED
    BY <1>10, <2>1
<1>12. cost[p[n]] <= f[k] /\ f[k] \in Nat /\ f[k] <= k * most
  <2>1. k + 1 = n
    BY <1>2 DEF IsPath
  <2>2. QED
    BY <1>11, <2>1
<1>13. cost[p[n]] \in Nat
  <2>1. p[n] \in Nodes
    BY DEF IsPath
  <2>2. QED
    BY <1>7, <2>1
<1>14. PICK x \in Nat : x = k * most /\ x < MaxCost
  BY <1>2, <1>6
<1>15. QED
  BY <1>1, <1>2, <1>4, <1>12, <1>13, <1>14

-----------------------------------------------------------------------------
\* The path to d, as long as it is: each node is the one before the next.
IsBack(p, n, d) ==
  /\ n \in 1 .. Cardinality(Nodes) /\ p \in [1 .. n -> Nodes] /\ Len(p) = n
  /\ p[n] = d /\ previous[p[1]] = NoNode
  /\ \A i \in 1 .. n - 1 : previous[p[i + 1]] = p[i]
  /\ IsInjective(p)

LEMMA PathBack ==
  ASSUME GraphAssumption, GraphIInv, NEW d \in Nodes
  PROVE  \E p, n : p = PathTo(d) /\ IsBack(p, n, d)
<1>1. PICK N \in Nat : N = Cardinality(Nodes) /\ IsFiniteSet(Nodes)
  <2>1. IsFiniteSet(Nodes)
    BY DEF GraphAssumption
  <2>2. QED
    BY <2>1, FS_CardinalityType
<1>2. previous \in [Nodes -> Nodes \cup {NoNode}] /\ NoNode \notin Nodes
  <2>1. Now.previous \in [Nodes -> Nodes \cup {NoNode}] /\ Now.previous = previous
    BY DEF GraphIInv, TreeOfRoutes, Computation, Now
  <2>2. QED
    BY <2>1 DEF GraphAssumption
<1>3. PICK rank \in [Nodes -> Nat] :
        \A v \in Nodes : previous[v] # NoNode => rank[v] = rank[previous[v]] + 1
  <2>1. Ranked(Now) /\ Now.previous = previous
    BY DEF GraphIInv, TreeOfRoutes, Now
  <2>2. QED
    BY <2>1 DEF Ranked
<1>4. PICK S : S = {x \in Seq(Nodes) : Len(x) >= 1}
  OBVIOUS
<1> DEFINE Chain(x, n) ==
             /\ x \in Seq(Nodes) /\ Len(x) \in Nat /\ Len(x) >= 1 /\ x[Len(x)] = d
             /\ \A i \in 1 .. Len(x) - 1 : previous[x[i + 1]] = x[i]
             /\ \A i \in 1 .. Len(x) : rank[x[i]] + (Len(x) - i) = rank[d]
             /\ Len(x) = n + 1 \/ previous[x[1]] = NoNode
<1>5. ASSUME NEW x \in S
      PROVE  /\ Head(x) = x[1] /\ x[1] \in Nodes /\ Len(x) \in Nat /\ FromBefore(x) \in S
             /\ previous[x[1]] # NoNode =>
                  \E y \in Seq(Nodes) : /\ y = FromBefore(x) /\ Len(y) = Len(x) + 1
                                       /\ y[1] = previous[x[1]] /\ previous[x[1]] \in Nodes
                                       /\ \A i \in 2 .. Len(y) : y[i] = x[i - 1]
  <2>1. x \in Seq(Nodes) /\ Len(x) >= 1 /\ Len(x) \in Nat
    BY <1>4
  <2>2. Head(x) = x[1] /\ x[1] \in Nodes
    BY <2>1, ElementOfSeq
  <2>3. CASE previous[x[1]] = NoNode
    BY <2>1, <2>2, <2>3 DEF FromBefore
  <2>4. CASE previous[x[1]] # NoNode
    <3>1. PICK u \in Nodes : u = previous[x[1]]
      BY <1>2, <2>2, <2>4
    <3>2. <<u>> \in Seq(Nodes) /\ Len(<<u>>) = 1 /\ <<u>>[1] = u
      BY <3>1
    <3>3. PICK y : y = <<u>> \o x
      OBVIOUS
    <3>4. /\ y \in Seq(Nodes) /\ Len(y) = 1 + Len(x)
          /\ \A i \in 1 .. 1 + Len(x) : y[i] = IF i <= 1 THEN <<u>>[i] ELSE x[i - 1]
      BY <2>1, <3>2, <3>3, ConcatProperties
    <3>5. y = FromBefore(x)
      BY <2>2, <2>4, <3>1, <3>3 DEF FromBefore
    <3>6. y[1] = u /\ \A i \in 2 .. Len(y) : y[i] = x[i - 1]
      BY <2>1, <3>2, <3>4
    <3>7. y \in S
      BY <1>4, <2>1, <3>4
    <3>8. QED
      BY <2>1, <2>2, <3>1, <3>4, <3>5, <3>6, <3>7
  <2>5. QED
    BY <2>3, <2>4
<1>6. ASSUME NEW n \in 1 .. N, NEW x, Chain(x, n - 1) PROVE Chain(FromBefore(x), n)
  <2>1. x \in S
    BY <1>4, <1>6
  <2>2. CASE previous[x[1]] = NoNode
    <3>1. FromBefore(x) = x
      BY <1>5, <2>1, <2>2 DEF FromBefore
    <3>2. QED
      BY <1>6, <2>2, <3>1
  <2>3. CASE previous[x[1]] # NoNode
    <3>1. PICK y \in Seq(Nodes) :
            /\ y = FromBefore(x) /\ Len(y) = Len(x) + 1
            /\ y[1] = previous[x[1]] /\ previous[x[1]] \in Nodes
            /\ \A i \in 2 .. Len(y) : y[i] = x[i - 1]
      BY <1>5, <2>1, <2>3
    <3>2. PICK k \in Nat : k = Len(x) /\ k >= 1 /\ Len(y) = k + 1
      BY <1>6, <3>1
    <3>3. k = n
      BY <1>6, <2>3, <3>2
    <3>4. y[k + 1] = d
      BY <1>6, <3>1, <3>2
    <3>5. ASSUME NEW i \in 1 .. k PROVE previous[y[i + 1]] = y[i]
      <4>1. y[i + 1] = x[i]
        BY <3>1, <3>2
      <4>2. CASE i = 1
        BY <3>1, <4>1, <4>2
      <4>3. CASE i # 1
        <5>1. i - 1 \in 1 .. k - 1 /\ y[i] = x[i - 1]
          BY <3>1, <3>2, <4>3
        <5>2. previous[x[i - 1 + 1]] = x[i - 1]
          BY <1>6, <3>2, <5>1
        <5>3. QED
          BY <4>1, <5>1, <5>2
      <4>4. QED
        BY <4>2, <4>3
    <3>6. ASSUME NEW i \in 1 .. k + 1 PROVE rank[y[i]] + (k + 1 - i) = rank[d]
      <4>1. CASE i = 1
        <5>1. rank[x[1]] + (k - 1) = rank[d]
          BY <1>6, <3>2
        <5>2. rank[x[1]] = rank[y[1]] + 1 /\ rank[y[1]] \in Nat
          <6>1. x[1] \in Nodes
            BY <1>5, <2>1
          <6>2. QED
            BY <1>3, <2>3, <3>1, <6>1
        <5>3. PICK a \in Nat, b \in Nat : a = rank[y[1]] /\ b = rank[d]
          BY <1>3, <5>2
        <5>4. a + 1 + (k - 1) = b /\ k + 1 - i = k
          BY <3>2, <4>1, <5>1, <5>2, <5>3
        <5>5. a + k = b
          BY <5>4
        <5>6. QED
          BY <4>1, <5>3, <5>4, <5>5
      <4>2. CASE i # 1
        <5>1. i - 1 \in 1 .. k /\ y[i] = x[i - 1] /\ k - (i - 1) = k + 1 - i
          BY <3>1, <3>2, <4>2
        <5>2. rank[x[i - 1]] + (k - (i - 1)) = rank[d]
          BY <1>6, <3>2, <5>1
        <5>3. QED
          BY <5>1, <5>2
      <4>3. QED
        BY <4>1, <4>2
    <3>7. QED
      BY <3>1, <3>2, <3>3, <3>4, <3>5, <3>6
  <2>4. QED
    BY <2>2, <2>3
<1> DEFINE base == <<d>>
<1>7. Chain(base, 0) /\ base \in S
  <2>1. base \in Seq(Nodes) /\ Len(base) = 1 /\ base[1] = d
    OBVIOUS
  <2>2. QED
    BY <1>3, <1>4, <2>1
<1>8. PICK g : g = [i \in 1 .. N |-> [x \in S |-> FromBefore(x)]]
  OBVIOUS
<1>9. g \in [1 .. N -> [S -> S]]
  BY <1>5, <1>8
<1>10. PICK w \in [0 .. N -> S] : w[0] = base /\ \A i \in 1 .. N : w[i] = g[i][w[i - 1]]
  <2>1. Iterable(S, N, base, g)
    BY <1>7, <1>9, Iterated
  <2>2. QED
    BY <2>1 DEF Iterable
<1>11. \A i \in 1 .. N : w[i] = FromBefore(w[i - 1])
  <2>1. ASSUME NEW i \in 1 .. N PROVE w[i] = FromBefore(w[i - 1])
    <3>1. i - 1 \in 0 .. N
      BY <1>1
    <3>2. w[i - 1] \in S
      BY <1>10, <3>1
    <3>3. QED
      BY <1>8, <1>10, <3>2
  <2>2. QED
    BY <2>1
<1> DEFINE D(f) == [n \in 0 .. N |-> IF n = 0 THEN base ELSE FromBefore(f[n - 1])]
<1> HIDE DEF base, Chain
<1>12. w = D(w)
  <2>1. \A i \in 0 .. N : w[i] = IF i = 0 THEN base ELSE FromBefore(w[i - 1])
    BY <1>1, <1>10, <1>11
  <2>2. QED
    BY <1>10, <2>1
<1>13. PICK back : back = (CHOOSE f : f = D(f))
  OBVIOUS
<1>14. back = D(back)
  BY <1>12, <1>13
<1>15. back[0] = base /\ \A n \in 1 .. N : back[n] = FromBefore(back[n - 1])
  <2>1. \A n \in 0 .. N : back[n] = IF n = 0 THEN base ELSE FromBefore(back[n - 1])
    BY <1>14
  <2>2. QED
    BY <1>1, <2>1
<1> DEFINE Bad == {n \in 0 .. N : ~Chain(back[n], n)}
<1>16. Bad = {}
  <2> SUFFICES ASSUME Bad # {} PROVE FALSE
    OBVIOUS
  <2>1. PICK m \in Bad : \A j \in Bad : m <= j
    <3>1. Bad \in SUBSET Nat
      OBVIOUS
    <3> HIDE DEF Bad
    <3>2. QED
      BY <3>1, LeastPosition
  <2>2. m \in 0 .. N /\ ~Chain(back[m], m)
    BY <2>1
  <2>3. m \in 1 .. N /\ m - 1 \in 0 .. N /\ ~ (m <= m - 1)
    BY <1>1, <1>7, <1>15, <2>2
  <2>4. m - 1 \notin Bad
    <3> HIDE DEF Bad
    <3>1. QED
      BY <2>1, <2>3
  <2>5. Chain(back[m - 1], m - 1)
    BY <2>3, <2>4
  <2>6. QED
    BY <1>6, <1>15, <2>2, <2>3, <2>5
<1>17. PICK p : p = back[N]
  OBVIOUS
<1>18. Chain(p, N)
  <2>1. N \in 0 .. N
    BY <1>1
  <2>2. QED
    BY <1>16, <1>17, <2>1
<1>19. p = PathTo(d)
  <2>1. PathTo(d) = (CHOOSE f : f = [n \in 0 .. N |-> IF n = 0 THEN <<d>> ELSE FromBefore(f[n - 1])])[N]
    BY <1>1 DEF PathTo
  <2>2. QED
    BY <1>13, <1>17, <2>1 DEF base
<1>20. PICK n \in Nat : n = Len(p) /\ n >= 1 /\ p \in [1 .. n -> Nodes]
  BY <1>18 DEF Chain
<1>21. ASSUME NEW i \in 1 .. n, NEW j \in 1 .. n, p[i] = p[j] PROVE i = j
  <2>1. rank[p[i]] + (n - i) = rank[d] /\ rank[p[j]] + (n - j) = rank[d]
    BY <1>18, <1>20 DEF Chain
  <2>2. rank[p[i]] \in Nat
    BY <1>3, <1>20
  <2>3. PICK a \in Nat, b \in Nat : a = rank[p[i]] /\ a + (n - i) = b /\ a + (n - j) = b
    <3>1. rank[d] \in Nat
      BY <1>3
    <3>2. QED
      BY <1>21, <2>1, <2>2, <3>1
  <2>4. i \in Nat /\ j \in Nat
    BY <1>20
  <2>5. \A x, y, z \in Nat : a + (x - y) = b /\ a + (x - z) = b => y = z
    OBVIOUS
  <2>6. QED
    BY <1>20, <2>3, <2>4, <2>5
<1>22. n <= N
  <2> SUFFICES ASSUME ~ (n <= N) PROVE FALSE
    OBVIOUS
  <2>1. IsFiniteSet(1 .. n) /\ Cardinality(1 .. n) = n
    <3>1. 1 \in Int /\ n \in Int /\ ~ (1 > n) /\ n - 1 + 1 = n
      BY <1>20
    <3>2. QED
      BY <3>1, FS_Interval
  <2>2. PICK I : I = 1 .. n
    OBVIOUS
  <2>3. IsFiniteSet(I) /\ Cardinality(Nodes) < Cardinality(I) /\ p \in [I -> Nodes]
    BY <1>1, <1>20, <2>1, <2>2
  <2>4. \E i, j \in I : i # j /\ p[i] = p[j]
    BY <1>1, <2>3, FS_PigeonHole
  <2>5. QED
    BY <1>21, <2>2, <2>4
<1>23. previous[p[1]] = NoNode
  BY <1>1, <1>18, <1>20, <1>22 DEF Chain
<1>24. IsInjective(p)
  BY <1>20, <1>21 DEF IsInjective
<1>25. IsBack(p, n, d)
  BY <1>1, <1>18, <1>20, <1>22, <1>23, <1>24 DEF IsBack, Chain
<1>26. QED
  BY <1>19, <1>25

\* Of a node that is reached the path back begins at the source, and costs what
\* was computed.
LEMMA PathIsRoute ==
  ASSUME GraphAssumption, GraphIInv, computed, queue = {},
         NEW d \in Nodes, cost[d] < MaxCost, NEW p, NEW n, IsBack(p, n, d)
  PROVE  IsPath(p, n) /\ p[1] = Source /\ RouteCost(p) = cost[d]
<1>1. /\ n \in Nat /\ 1 <= n /\ p \in [1 .. n -> Nodes] /\ Len(p) = n /\ p[n] = d
      /\ previous[p[1]] = NoNode /\ \A i \in 1 .. n - 1 : previous[p[i + 1]] = p[i]
  <2>1. IsFiniteSet(Nodes)
    BY DEF GraphAssumption
  <2>2. Cardinality(Nodes) \in Nat
    BY <2>1, FS_CardinalityType
  <2>3. QED
    BY <2>2 DEF IsBack
<1>2. PICK s : s = Now /\ s.cost = cost /\ s.previous = previous /\ s.queue = {}
  <2>1. Now.cost = cost /\ Now.previous = previous /\ Now.queue = {}
    BY DEF Now
  <2>2. QED
    BY <2>1
<1>3. /\ s \in Computation /\ Rooted(s) /\ Reached(s) /\ NoNode \notin Nodes /\ MaxCost \in Nat
      /\ \A v \in Nodes : s.cost[v] < MaxCost => NoShortcut(s, v)
  <2>1. \A v \in Nodes : s.cost[v] < MaxCost => Done(Now, v)
    BY <1>2 DEF Done
  <2>2. QED
    BY <1>2, <2>1 DEF GraphIInv, TreeOfRoutes, GraphAssumption
<1>4. ASSUME NEW i \in 1 .. n - 1
      PROVE  /\ p[i] \in Nodes /\ p[i + 1] \in Nodes /\ EdgeCosts(p[i], p[i + 1]) # {}
             /\ cost[p[i]] < MaxCost
             /\ cost[p[i + 1]] = cost[p[i]] + Min(EdgeCosts(p[i], p[i + 1]))
  <2>0. i \in 1 .. n /\ i + 1 \in 1 .. n
    BY <1>1
  <2>1. PICK u \in Nodes, v \in Nodes : u = p[i] /\ v = p[i + 1] /\ previous[v] = u
    <3>1. p[i] \in Nodes /\ p[i + 1] \in Nodes
      BY <1>1, <2>0
    <3>2. previous[p[i + 1]] = p[i]
      BY <1>1
    <3>3. QED
      BY <3>1, <3>2
  <2>2. Done(s, u) /\ \E c \in EdgeCosts(u, v) : s.cost[v] = s.cost[u] + c
    BY <1>2, <1>3, <2>1 DEF Reached
  <2>3. PICK c \in EdgeCosts(u, v) : s.cost[v] = s.cost[u] + c
    BY <2>2
  <2>4. PICK m \in Nat : m = Min(EdgeCosts(u, v)) /\ m \in EdgeCosts(u, v) /\ m <= c /\ c \in Nat
    BY <2>3, EdgeCostsIn
  <2>5. s.cost[v] <= s.cost[u] + m
    <3>1. PICK j \in DOMAIN edges[u] : edges[u][j].node = v /\ edges[u][j].cost = m
      BY <2>4 DEF EdgeCosts
    <3>2. NoShortcut(s, u)
      BY <1>3, <2>2 DEF Done
    <3>3. QED
      BY <3>1, <3>2 DEF NoShortcut
  <2>6. s.cost[u] \in Nat /\ s.cost[v] \in Nat
    BY <1>3 DEF Computation
  <2>7. s.cost[v] = s.cost[u] + m
    BY <2>3, <2>4, <2>5, <2>6
  <2>8. QED
    BY <1>2, <2>1, <2>2, <2>3, <2>4, <2>7 DEF Done
<1>5. IsPath(p, n)
  <2>1. n \in Nat \ {0}
    BY <1>1
  <2>2. QED
    BY <1>1, <1>4, <2>1 DEF IsPath
<1>6. p[1] = Source
  <2>1. cost[p[1]] < MaxCost
    <3>1. CASE n = 1
      BY <1>1, <3>1
    <3>2. CASE n # 1
      <4>1. 1 \in 1 .. n - 1
        BY <1>1, <3>2
      <4>2. QED
        BY <1>4, <4>1
    <3>3. QED
      BY <3>1, <3>2
  <2>2. p[1] \in Nodes /\ cost[p[1]] \in Nat
    <3>1. 1 \in 1 .. n
      BY <1>1
    <3>2. p[1] \in Nodes
      BY <1>1, <3>1
    <3>3. QED
      BY <1>2, <1>3, <3>2 DEF Computation
  <2>3. QED
    BY <1>1, <1>2, <1>3, <2>1, <2>2 DEF Rooted
<1>7. PICK f : CostsAlong(p, n, f) /\ RouteCost(p) = f[n - 1]
  BY <1>5, RouteCostIs
<1>8. PICK k \in Nat : k = n - 1
  BY <1>1
<1> DEFINE Bad == {i \in 0 .. k : f[i] # cost[p[i + 1]]}
<1>9. Bad = {}
  <2> SUFFICES ASSUME Bad # {} PROVE FALSE
    OBVIOUS
  <2>1. PICK m \in Bad : \A j \in Bad : m <= j
    <3>1. Bad \in SUBSET Nat
      OBVIOUS
    <3> HIDE DEF Bad
    <3>2. QED
      BY <3>1, LeastPosition
  <2>2. m \in 0 .. k /\ f[m] # cost[p[m + 1]]
    BY <2>1
  <2>3. m # 0
    BY <1>2, <1>3, <1>6, <1>7, <2>2 DEF CostsAlong, Rooted
  <2>4. m \in 1 .. k /\ m - 1 \in 0 .. k /\ ~ (m <= m - 1) /\ m - 1 + 1 = m
    BY <1>8, <2>2, <2>3
  <2>5. m - 1 \notin Bad
    <3> HIDE DEF Bad
    <3>1. QED
      BY <2>1, <2>4
  <2>6. f[m - 1] = cost[p[m]]
    BY <2>4, <2>5
  <2>7. f[m] = f[m - 1] + Min(EdgeCosts(p[m], p[m + 1]))
    BY <1>7, <1>8, <2>4 DEF CostsAlong
  <2>8. QED
    BY <1>4, <1>8, <2>2, <2>4, <2>6, <2>7
<1>10. f[k] = cost[p[k + 1]]
  <2>1. k \in 0 .. k
    BY <1>8
  <2>2. QED
    BY <1>9, <2>1
<1>11. k + 1 = n
  BY <1>1, <1>8
<1>12. QED
  BY <1>1, <1>5, <1>6, <1>7, <1>8, <1>10, <1>11

LEMMA GraphProperty == GraphAssumption /\ GraphIInv => ShortestPaths
<1> SUFFICES ASSUME GraphAssumption, GraphIInv, computed, queue = {}, NEW d \in Nodes
             PROVE  IF Routes(d) = {} THEN cost[d] = MaxCost /\ Hops(d) = 0
                    ELSE /\ cost[d] = Min({RouteCost(p) : p \in Routes(d)})
                         /\ PathTo(d) \in Routes(d) /\ RouteCost(PathTo(d)) = cost[d]
  BY DEF ShortestPaths
<1>1. PICK N \in Nat : N = Cardinality(Nodes)
  <2>1. IsFiniteSet(Nodes)
    BY DEF GraphAssumption
  <2>2. QED
    BY <2>1, FS_CardinalityType
<1>2. /\ cost[d] \in Nat /\ cost[d] <= MaxCost /\ MaxCost \in Nat
      /\ previous[d] # NoNode => cost[d] < MaxCost
      /\ d # Source /\ previous[d] = NoNode => cost[d] = MaxCost
  <2>1. /\ Now.cost = cost /\ Now.previous = previous /\ Now.queue = {}
        /\ Now \in Computation /\ Rooted(Now) /\ Reached(Now) /\ Now.cost[d] <= MaxCost
    BY DEF GraphIInv, TreeOfRoutes, Now
  <2>2. QED
    BY <2>1 DEF Computation, Rooted, Reached, Done, GraphAssumption
<1>3. ASSUME NEW p \in Routes(d)
      PROVE  \E n \in 1 .. N : IsPath(p, n) /\ p[1] = Source /\ p[n] = d
  <2>1. PICK n \in 1 .. N : p \in [1 .. n -> Nodes]
    BY <1>1 DEF Routes
  <2>2. n \in Nat \ {0} /\ Len(p) = n
    BY <1>1, <2>1
  <2>3. QED
    BY <2>1, <2>2 DEF Routes, IsPath
<1>4. ASSUME NEW p \in Routes(d)
      PROVE  cost[d] <= RouteCost(p) /\ cost[d] < MaxCost /\ RouteCost(p) \in Nat
  <2>1. PICK n \in 1 .. N : IsPath(p, n) /\ p[1] = Source /\ p[n] = d
    BY <1>3
  <2>2. n <= Cardinality(Nodes)
    BY <1>1, <2>1
  <2>3. QED
    BY <2>1, <2>2, CostIsLeast
<1>5. PICK p, n : p = PathTo(d) /\ IsBack(p, n, d)
  BY PathBack
<1>6. n \in 1 .. N /\ p \in [1 .. n -> Nodes] /\ Len(p) = n /\ p[n] = d /\ IsInjective(p)
  BY <1>1, <1>5 DEF IsBack
<1>7. cost[d] < MaxCost => p \in Routes(d) /\ RouteCost(p) = cost[d]
  <2> SUFFICES ASSUME cost[d] < MaxCost PROVE p \in Routes(d) /\ RouteCost(p) = cost[d]
    OBVIOUS
  <2>1. IsPath(p, n) /\ p[1] = Source /\ RouteCost(p) = cost[d]
    BY <1>5, PathIsRoute
  <2>2. p \in UNION {[1 .. m -> Nodes] : m \in 1 .. Cardinality(Nodes)}
    BY <1>1, <1>6
  <2>3. QED
    BY <1>6, <2>1, <2>2 DEF Routes, IsPath
<1>8. CASE Routes(d) = {}
  <2>1. cost[d] = MaxCost
    BY <1>2, <1>7, <1>8
  <2>2. n = 1
    <3> SUFFICES ASSUME n # 1 PROVE FALSE
      OBVIOUS
    <3>1. n - 1 \in 1 .. n - 1 /\ n - 1 + 1 = n
      BY <1>1, <1>6
    <3>2. previous[d] = p[n - 1] /\ p[n - 1] \in Nodes
      <4>1. \A i \in 1 .. n - 1 : previous[p[i + 1]] = p[i]
        BY <1>5 DEF IsBack
      <4>2. n - 1 \in 1 .. n
        BY <1>1, <1>6, <3>1
      <4>3. QED
        BY <1>6, <3>1, <4>1, <4>2
    <3>3. PICK u \in Nodes : u = previous[d] /\ u # NoNode
      BY <3>2 DEF GraphAssumption
    <3>4. QED
      BY <1>2, <2>1, <3>3
  <2>3. QED
    BY <1>5, <1>6, <1>8, <2>1, <2>2 DEF Hops
<1>9. CASE Routes(d) # {}
  <2>1. cost[d] < MaxCost
    BY <1>4, <1>9
  <2>2. p \in Routes(d) /\ RouteCost(p) = cost[d]
    BY <1>7, <2>1
  <2>3. PICK S : S = {RouteCost(q) : q \in Routes(d)}
    OBVIOUS
  <2>4. S \in SUBSET Nat /\ cost[d] \in S /\ \A x \in S : cost[d] <= x
    BY <1>4, <2>2, <2>3
  <2>5. Min(S) \in S /\ \A x \in S : Min(S) <= x
    BY <2>4, LeastIn
  <2>6. Min(S) = cost[d]
    <3>1. PICK m, c : m = Min(S) /\ c = cost[d]
      OBVIOUS
    <3>2. m \in S /\ c \in S /\ c <= m /\ m <= c
      BY <2>4, <2>5, <3>1
    <3>3. m \in Nat /\ c \in Nat
      BY <2>4, <3>2
    <3>4. QED
      BY <3>1, <3>2, <3>3
  <2>7. QED
    BY <1>5, <1>9, <2>2, <2>3, <2>6
<1>10. QED
  BY <1>8, <1>9

\* ShortestPaths, for every graph and every source: what Compute leaves when its queue
\* is empty are the costs of the cheapest routes, and the paths back are such routes.
THEOREM PathsAreShortest == GraphSpec => []ShortestPaths
<1>1. GraphAssumption
  BY GraphAssumption
<1>2. QED
  BY <1>1, GraphInitially, GraphInductive, GraphProperty, PTL DEF GraphSpec

-----------------------------------------------------------------------------
(* Colors: stripcolors is one turn after the other, each of which begins   *)
(* where no code reaches over, so that it takes out codes as a whole and   *)
(* puts out what is in none.                                               *)

ColorSpec == ColorInit /\ [][ColorNext]_colored

\* What holds at the end, and at a position when it holds behind it, holds at all.
LEMMA Downward ==
  ASSUME NEW n \in Nat, NEW Good, n + 1 \in Good,
         \A i \in 1 .. n : (\A j \in i + 1 .. n + 1 : j \in Good) => i \in Good
  PROVE  1 .. n + 1 \subseteq Good
<1> DEFINE Bad == (1 .. n + 1) \ Good
<1>1. SUFFICES ASSUME Bad # {} PROVE FALSE
  OBVIOUS
<1>2. PICK x \in Bad : \A y \in Bad : y <= x
  <2>1. Bad \in SUBSET (1 .. n + 1) /\ n + 1 \in Nat
    OBVIOUS
  <2> HIDE DEF Bad
  <2>2. QED
    BY <1>1, <2>1, GreatestPosition
<1>3. x \in 1 .. n /\ x \notin Good
  BY <1>2
<1>4. \A j \in x + 1 .. n + 1 : j \in Good
  BY <1>2, <1>3
<1>5. QED
  BY <1>3, <1>4

\* What is put together of pieces, out[i] at i and what comes at next[i]
Joined(n, out, next, f) ==
  /\ f = [i \in 1 .. n + 1 |-> f[i]] /\ f[n + 1] = <<>>
  /\ \A i \in 1 .. n : f[i] = out[i] \o f[next[i]]

LEMMA JoinedIn ==
  ASSUME NEW T, NEW n \in Nat, NEW out \in [1 .. n -> Seq(T)], NEW next \in [1 .. n -> 1 .. n + 1],
         \A i \in 1 .. n : next[i] > i, NEW f, Joined(n, out, next, f)
  PROVE  f \in [1 .. n + 1 -> Seq(T)]
<1> DEFINE Good == {i \in 1 .. n + 1 : f[i] \in Seq(T)}
<1>1. n + 1 \in Good
  <2>1. f[n + 1] = <<>> /\ <<>> \in Seq(T)
    BY DEF Joined
  <2>2. f[n + 1] \in Seq(T) /\ n + 1 \in 1 .. n + 1
    BY <2>1
  <2>3. QED
    BY <2>2
<1>2. ASSUME NEW i \in 1 .. n, \A j \in i + 1 .. n + 1 : j \in Good PROVE i \in Good
  <2>1. f[next[i]] \in Seq(T)
    <3>1. next[i] \in i + 1 .. n + 1
      OBVIOUS
    <3>2. QED
      BY <1>2, <3>1
  <2>2. f[i] = out[i] \o f[next[i]]
    BY DEF Joined
  <2>3. f[i] \in Seq(T)
    BY <2>1, <2>2
  <2>4. QED
    BY <2>3
<1>3. 1 .. n + 1 \subseteq Good
  <2> HIDE DEF Good
  <2>1. QED
    BY <1>1, <1>2, Downward
<1>4. \A i \in 1 .. n + 1 : f[i] \in Seq(T)
  BY <1>3
<1>5. f = [i \in 1 .. n + 1 |-> f[i]]
  BY DEF Joined
<1>6. QED
  BY <1>4, <1>5

LEMMA JoinedIs ==
  ASSUME NEW T, NEW n \in Nat, NEW out \in [1 .. n -> Seq(T)], NEW next \in [1 .. n -> 1 .. n + 1],
         \A i \in 1 .. n : next[i] > i
  PROVE  \E f : Joined(n, out, next, f)
<1> DEFINE From(m, f) == f[n + 1] = <<>> /\ \A i \in m .. n : f[i] = out[i] \o f[next[i]]
           Good == {m \in 1 .. n + 1 : \E f \in [m .. n + 1 -> Seq(T)] : From(m, f)}
<1>1. n + 1 \in Good
  <2>1. PICK f \in [n + 1 .. n + 1 -> Seq(T)] : f[n + 1] = <<>>
    <3>1. [i \in n + 1 .. n + 1 |-> <<>>] \in [n + 1 .. n + 1 -> Seq(T)]
      OBVIOUS
    <3>2. [i \in n + 1 .. n + 1 |-> <<>>][n + 1] = <<>>
      OBVIOUS
    <3>3. QED
      BY <3>1, <3>2
  <2>2. From(n + 1, f)
    <3>1. n + 1 .. n = {}
      OBVIOUS
    <3>2. QED
      BY <2>1, <3>1, Zenon
  <2> HIDE DEF From
  <2>3. QED
    BY <2>1, <2>2
<1>2. ASSUME NEW m \in 1 .. n, \A j \in m + 1 .. n + 1 : j \in Good PROVE m \in Good
  <2>1. PICK f \in [m + 1 .. n + 1 -> Seq(T)] : From(m + 1, f)
    <3> HIDE DEF From
    <3>1. m + 1 \in m + 1 .. n + 1
      OBVIOUS
    <3>2. QED
      BY <1>2, <3>1
  <2>2. next[m] \in m + 1 .. n + 1
    OBVIOUS
  <2>3. PICK first \in Seq(T) : first = out[m] \o f[next[m]]
    <3>1. out[m] \in Seq(T) /\ f[next[m]] \in Seq(T)
      BY <2>2
    <3>2. out[m] \o f[next[m]] \in Seq(T)
      BY <3>1
    <3>3. QED
      BY <3>2
  <2>4. PICK g : g = [i \in m .. n + 1 |-> IF i = m THEN first ELSE f[i]]
    OBVIOUS
  <2>5. g \in [m .. n + 1 -> Seq(T)]
    BY <2>3, <2>4
  <2>6. g[m] = first /\ \A i \in m + 1 .. n + 1 : g[i] = f[i]
    BY <2>4
  <2>7. From(m, g)
    <3>1. g[n + 1] = <<>>
      <4>1. n + 1 \in m + 1 .. n + 1
        OBVIOUS
      <4>2. QED
        BY <2>1, <2>6, <4>1, Zenon
    <3>2. ASSUME NEW i \in m .. n PROVE g[i] = out[i] \o g[next[i]]
      <4>1. next[i] \in m + 1 .. n + 1 /\ next[i] \in i + 1 .. n + 1
        OBVIOUS
      <4>2. CASE i = m
        BY <2>3, <2>6, <4>1, <4>2
      <4>3. CASE i # m
        <5>1. i \in m + 1 .. n
          BY <4>3
        <5>2. f[i] = out[i] \o f[next[i]]
          BY <2>1, <5>1
        <5>3. g[i] = f[i] /\ g[next[i]] = f[next[i]]
          <6>1. i \in m + 1 .. n + 1
            BY <5>1
          <6>2. QED
            BY <2>6, <4>1, <6>1, Zenon
        <5>4. QED
          BY <5>2, <5>3
      <4>4. QED
        BY <4>2, <4>3
    <3>3. QED
      BY <3>1, <3>2
  <2>8. QED
    <3> HIDE DEF From
    <3>1. QED
      BY <2>5, <2>7
<1>3. 1 \in Good
  <2>1. 1 .. n + 1 \subseteq Good
    <3> HIDE DEF Good
    <3>1. QED
      BY <1>1, <1>2, Downward
  <2> HIDE DEF Good
  <2>2. QED
    BY <2>1
<1>4. PICK f \in [1 .. n + 1 -> Seq(T)] : From(1, f)
  <2> HIDE DEF From
  <2>1. QED
    BY <1>3
<1>5. f = [i \in 1 .. n + 1 |-> f[i]]
  OBVIOUS
<1>6. QED
  BY <1>4, <1>5 DEF Joined

-----------------------------------------------------------------------------
\* What begins at a position of a text
PipeAt(s, i) == s[i] = "|" /\ IsColorCode(CharAt(s, i + 1)) /\ IsColorCode(CharAt(s, i + 2))
HeartAt(s, i) == s[i] = Heart /\ IsDigit(CharAt(s, i + 1))
AnsiAt(s, i) == s[i] = Escape /\ IsAnsiStart(s, i)

\* That l is where the first letter is, from i on
FirstLetter(s, i, l) == l \in i .. Len(s) /\ s[l] = "m" /\ \A k \in i .. l - 1 : s[k] # "m"

\* What a turn at i does, which is at position at when it looks for a code
TurnsAt(s, i, at, turn) ==
  /\ at \in i .. Len(s) + 1
  /\ \/ at = i /\ ~AnsiAt(s, i)
     \/ AnsiAt(s, i) /\ FirstLetter(s, i, at - 1)
  /\ \/ at = Len(s) + 1 /\ turn = [next |-> at, out |-> <<>>]
     \/ at <= Len(s) /\ PipeAt(s, at) /\ turn = [next |-> at + 3, out |-> <<>>]
     \/ at <= Len(s) /\ HeartAt(s, at) /\ turn = [next |-> at + 2, out |-> <<>>]
     \/ at <= Len(s) /\ ~PipeAt(s, at) /\ ~HeartAt(s, at) /\ turn = [next |-> at + 1, out |-> <<s[at]>>]

LEMMA LetterThere ==
  ASSUME NEW T, NEW s \in Seq(T), NEW i \in 1 .. Len(s), AnsiAt(s, i)
  PROVE  \E l \in i + 2 .. Len(s) :
           FirstLetter(s, i, l) /\ l = Min({k \in i .. Len(s) : IsAlpha(s[k])})
<1> DEFINE K == {k \in i .. Len(s) : IsAlpha(s[k])}
<1>1. K \in SUBSET Nat /\ K # {}
  BY DEF AnsiAt, IsAnsiStart, IsAlpha
<1>2. PICK l \in K : \A k \in K : l <= k
  <2> HIDE DEF K
  <2>1. QED
    BY <1>1, LeastPosition
<1>3. Min(K) \in K /\ \A k \in K : Min(K) <= k
  <2> HIDE DEF K
  <2>1. QED
    BY <1>2, Zenon DEF Min
<1>4. PICK m \in K : m = Min(K) /\ \A k \in K : m <= k
  BY <1>3
<1>5. FirstLetter(s, i, m)
  <2>1. m \in i .. Len(s) /\ s[m] = "m"
    BY <1>4 DEF IsAlpha
  <2>2. ASSUME NEW k \in i .. m - 1 PROVE s[k] # "m"
    <3>1. k \in i .. Len(s) /\ ~(m <= k)
      BY <2>1
    <3>2. k \notin K
      <4> HIDE DEF K
      <4>1. QED
        BY <1>4, <3>1
    <3>3. QED
      BY <3>1, <3>2 DEF IsAlpha
  <2>3. QED
    BY <2>1, <2>2 DEF FirstLetter
<1>6. s[i] # "m" /\ s[i + 1] # "m" /\ i + 1 <= Len(s)
  BY DEF AnsiAt, IsAnsiStart, Escape, CharAt
<1>7. m \in i + 2 .. Len(s)
  BY <1>5, <1>6 DEF FirstLetter
<1>8. QED
  BY <1>4, <1>5, <1>7

LEMMA TurnIs ==
  ASSUME NEW T, NEW s \in Seq(T), NEW i \in 1 .. Len(s)
  PROVE  \E at : TurnsAt(s, i, at, Turn(s, i))
<1>1. CASE s[i] = Escape /\ i < Len(s) /\ ~IsAnsiStart(s, i)
  <2>1. Turn(s, i) = [next |-> i + 1, out |-> <<s[i]>>]
    <3>1. CharAt(s, i) = s[i] /\ s[i] # "|" /\ s[i] # Heart /\ ~(i > Len(s))
      BY <1>1 DEF CharAt, Escape, Heart
    <3>2. QED
      BY <1>1, <3>1 DEF Turn
  <2>2. ~AnsiAt(s, i) /\ ~PipeAt(s, i) /\ ~HeartAt(s, i)
    BY <1>1 DEF AnsiAt, PipeAt, HeartAt, Escape, Heart
  <2>3. i \in i .. Len(s) + 1 /\ i <= Len(s)
    OBVIOUS
  <2>4. TurnsAt(s, i, i, Turn(s, i))
    BY <2>1, <2>2, <2>3 DEF TurnsAt
  <2>5. QED
    BY <2>4
<1>2. CASE ~(s[i] = Escape /\ i < Len(s) /\ ~IsAnsiStart(s, i))
  <2>1. AnsiAt(s, i) => i < Len(s)
    BY DEF AnsiAt, IsAnsiStart, CharAt
  <2>2. PICK at : at = IF AnsiAt(s, i) THEN AfterLetter(s, i) ELSE i
    OBVIOUS
  <2>3. /\ at \in i .. Len(s) + 1
        /\ \/ at = i /\ ~AnsiAt(s, i)
           \/ AnsiAt(s, i) /\ FirstLetter(s, i, at - 1)
    <3>1. CASE AnsiAt(s, i)
      <4>1. PICK l \in i + 2 .. Len(s) : FirstLetter(s, i, l) /\ l = Min({k \in i .. Len(s) : IsAlpha(s[k])})
        BY <3>1, LetterThere
      <4>2. at = l + 1
        BY <2>2, <3>1, <4>1 DEF AfterLetter
      <4>3. at - 1 = l
        BY <4>2
      <4>4. QED
        BY <3>1, <4>1, <4>2, <4>3
    <3>2. CASE ~AnsiAt(s, i)
      BY <2>2, <3>2
    <3>3. QED
      BY <3>1, <3>2
  <2>4. Turn(s, i) =
          CASE at > Len(s) -> [next |-> at, out |-> <<>>]
            [] CharAt(s, at) = "|" /\ IsColorCode(CharAt(s, at + 1)) /\ IsColorCode(CharAt(s, at + 2)) ->
                 [next |-> at + 3, out |-> <<>>]
            [] CharAt(s, at) = Heart /\ IsDigit(CharAt(s, at + 1)) -> [next |-> at + 2, out |-> <<>>]
            [] OTHER -> [next |-> at + 1, out |-> <<CharAt(s, at)>>]
    BY <1>2, <2>1, <2>2 DEF Turn, AnsiAt
  <2>5. CASE at > Len(s)
    <3>1. at = Len(s) + 1 /\ CharAt(s, at) = "end"
      BY <2>3, <2>5 DEF CharAt
    <3>2. Turn(s, i) = [next |-> at, out |-> <<>>]
      BY <2>4, <2>5, <3>1 DEF Heart
    <3>3. QED
      BY <2>3, <3>1, <3>2 DEF TurnsAt
  <2>6. CASE at <= Len(s)
    <3>1. CharAt(s, at) = s[at] /\ ~(at > Len(s)) /\ at \in 1 .. Len(s)
      BY <2>3, <2>6 DEF CharAt
    <3>2. CASE PipeAt(s, at)
      <4>1. s[at] # Heart
        BY <3>2 DEF PipeAt, Heart
      <4>2. Turn(s, i) = [next |-> at + 3, out |-> <<>>]
        BY <2>4, <3>1, <3>2, <4>1 DEF PipeAt
      <4>3. QED
        BY <2>3, <2>6, <3>2, <4>2 DEF TurnsAt
    <3>3. CASE HeartAt(s, at)
      <4>1. s[at] # "|"
        BY <3>3 DEF HeartAt, Heart
      <4>2. Turn(s, i) = [next |-> at + 2, out |-> <<>>]
        BY <2>4, <3>1, <3>3, <4>1 DEF HeartAt
      <4>3. QED
        BY <2>3, <2>6, <3>3, <4>2 DEF TurnsAt
    <3>4. CASE ~PipeAt(s, at) /\ ~HeartAt(s, at)
      <4>1. Turn(s, i) = [next |-> at + 1, out |-> <<s[at]>>]
        BY <2>4, <3>1, <3>4 DEF PipeAt, HeartAt
      <4>2. QED
        BY <2>3, <2>6, <3>4, <4>1 DEF TurnsAt
    <3>5. QED
      BY <3>2, <3>3, <3>4
  <2>7. QED
    BY <2>3, <2>5, <2>6
<1>3. QED
  BY <1>1, <1>2

\* A turn goes on, to the end at most.
LEMMA TurnGoesOn ==
  ASSUME NEW T, NEW s \in Seq(T), NEW i \in 1 .. Len(s)
  PROVE  Turn(s, i).next \in i + 1 .. Len(s) + 1 /\ Turn(s, i).out \in Seq(T)
<1>1. PICK at : TurnsAt(s, i, at, Turn(s, i))
  BY TurnIs
<1>2. at \in i .. Len(s) + 1 /\ (at = Len(s) + 1 => at \in i + 1 .. Len(s) + 1)
  BY <1>1 DEF TurnsAt
<1>3. \A k \in 1 .. Len(s) : PipeAt(s, k) => k + 2 <= Len(s)
  BY DEF PipeAt, CharAt, IsColorCode, IsDigit
<1>4. \A k \in 1 .. Len(s) : HeartAt(s, k) => k + 1 <= Len(s)
  BY DEF HeartAt, CharAt, IsDigit
<1>5. CASE at = Len(s) + 1
  <2>1. ~(at <= Len(s)) /\ <<>> \in Seq(T)
    BY <1>5
  <2>2. Turn(s, i) = [next |-> at, out |-> <<>>]
    BY <1>1, <2>1 DEF TurnsAt
  <2>3. Turn(s, i).next = at /\ Turn(s, i).out = <<>>
    BY <2>2
  <2>4. QED
    BY <1>2, <1>5, <2>1, <2>3
<1>6. CASE at <= Len(s)
  <2>1. at \in 1 .. Len(s) /\ at # Len(s) + 1 /\ <<s[at]>> \in Seq(T) /\ <<>> \in Seq(T)
    BY <1>2, <1>6
  <2>2. CASE PipeAt(s, at) /\ Turn(s, i) = [next |-> at + 3, out |-> <<>>]
    BY <1>2, <1>3, <2>1, <2>2
  <2>3. CASE HeartAt(s, at) /\ Turn(s, i) = [next |-> at + 2, out |-> <<>>]
    BY <1>2, <1>4, <2>1, <2>3
  <2>4. CASE Turn(s, i) = [next |-> at + 1, out |-> <<s[at]>>]
    BY <1>2, <2>1, <2>4
  <2>5. QED
    BY <1>1, <2>1, <2>2, <2>3, <2>4 DEF TurnsAt
<1>7. QED
  BY <1>2, <1>5, <1>6

\* What is put out from each position on
Stripped(T, s, f) ==
  /\ f \in [1 .. Len(s) + 1 -> Seq(T)] /\ f[Len(s) + 1] = <<>>
  /\ \A i \in 1 .. Len(s) : f[i] = Turn(s, i).out \o f[Turn(s, i).next]

LEMMA StrippedIs ==
  ASSUME NEW T, NEW s \in Seq(T)
  PROVE  \E f : Stripped(T, s, f) /\ stripcolors(s) = f[1]
<1>1. PICK n \in Nat : n = Len(s)
  OBVIOUS
<1>2. PICK out : out = [i \in 1 .. n |-> Turn(s, i).out]
  OBVIOUS
<1>3. PICK next : next = [i \in 1 .. n |-> Turn(s, i).next]
  OBVIOUS
<1>4. \A i \in 1 .. n : out[i] = Turn(s, i).out /\ next[i] = Turn(s, i).next
  BY <1>2, <1>3
<1>5. \A i \in 1 .. n : Turn(s, i).next \in i + 1 .. n + 1 /\ Turn(s, i).out \in Seq(T)
  BY <1>1, TurnGoesOn
<1>6. /\ out \in [1 .. n -> Seq(T)] /\ next \in [1 .. n -> 1 .. n + 1]
      /\ \A i \in 1 .. n : next[i] > i
  BY <1>2, <1>3, <1>4, <1>5
<1> DEFINE Table(h) == [i \in 1 .. n + 1 |-> IF i > n THEN <<>> ELSE Turn(s, i).out \o h[Turn(s, i).next]]
<1>7. ASSUME NEW h, Joined(n, out, next, h) PROVE h = Table(h)
  <2>1. h = [i \in 1 .. n + 1 |-> h[i]]
    BY <1>7 DEF Joined
  <2>2. ASSUME NEW i \in 1 .. n + 1
        PROVE  h[i] = IF i > n THEN <<>> ELSE Turn(s, i).out \o h[Turn(s, i).next]
    <3>1. CASE i > n
      <4>1. i = n + 1
        BY <3>1
      <4>2. QED
        BY <1>7, <3>1, <4>1, Zenon DEF Joined
    <3>2. CASE ~(i > n)
      <4>1. i \in 1 .. n
        BY <3>2
      <4>2. QED
        BY <1>4, <1>7, <3>2, <4>1, Zenon DEF Joined
    <3>3. QED
      BY <3>1, <3>2
  <2>3. QED
    BY <2>1, <2>2, Zenon
<1>8. ASSUME NEW h, h = Table(h) PROVE Joined(n, out, next, h)
  <2>1. \A i \in 1 .. n + 1 : h[i] = IF i > n THEN <<>> ELSE Turn(s, i).out \o h[Turn(s, i).next]
    BY <1>8, Zenon
  <2>2. h = [i \in 1 .. n + 1 |-> h[i]]
    BY <1>8, <2>1, Zenon
  <2>3. n + 1 \in 1 .. n + 1 /\ n + 1 > n /\ \A i \in 1 .. n : i \in 1 .. n + 1 /\ ~(i > n)
    OBVIOUS
  <2>4. h[n + 1] = <<>>
    BY <2>1, <2>3, Zenon
  <2>5. \A i \in 1 .. n : h[i] = out[i] \o h[next[i]]
    <3>1. \A i \in 1 .. n : h[i] = Turn(s, i).out \o h[Turn(s, i).next]
      BY <2>1, <2>3, ZenonT(60)
    <3>2. QED
      BY <1>4, <3>1, ZenonT(60)
  <2>6. QED
    BY <2>2, <2>4, <2>5, Zenon DEF Joined
<1>9. PICK f : f = (CHOOSE h : h = Table(h))
  OBVIOUS
<1>10. f = Table(f)
  <2>1. PICK h : Joined(n, out, next, h)
    BY <1>6, JoinedIs
  <2>2. h = Table(h)
    BY <1>7, <2>1
  <2> HIDE DEF Table
  <2>3. QED
    BY <1>9, <2>2, Zenon
<1>11. Joined(n, out, next, f)
  BY <1>8, <1>10
<1>12. Stripped(T, s, f)
  <2>1. f \in [1 .. n + 1 -> Seq(T)]
    BY <1>6, <1>11, JoinedIn
  <2>2. QED
    BY <1>1, <1>4, <1>11, <2>1, Zenon DEF Joined, Stripped
<1>13. stripcolors(s) = f[1]
  BY <1>1, <1>9, Zenon DEF stripcolors
<1>14. QED
  BY <1>12, <1>13

\* The positions that are in codes
Codes(s) == UNION (PipeCodes(s) \cup HeartCodes(s) \cup AnsiCodes(s))

\* What is seen from each position on
SeenFrom(T, s, f) ==
  /\ f \in [1 .. Len(s) + 1 -> Seq(T)] /\ f[Len(s) + 1] = <<>>
  /\ \A i \in 1 .. Len(s) : f[i] = (IF i \in Codes(s) THEN <<>> ELSE <<s[i]>>) \o f[i + 1]

LEMMA SeenIs ==
  ASSUME NEW T, NEW s \in Seq(T)
  PROVE  \E f : SeenFrom(T, s, f) /\ Seen(s) = f[1]
<1>1. PICK n \in Nat : n = Len(s)
  OBVIOUS
<1>2. PICK codes : codes = Codes(s)
  OBVIOUS
<1> DEFINE Piece(i) == IF i \in codes THEN <<>> ELSE <<s[i]>>
<1>3. PICK out : out = [i \in 1 .. n |-> Piece(i)]
  OBVIOUS
<1>4. PICK next : next = [i \in 1 .. n |-> i + 1]
  OBVIOUS
<1>5. \A i \in 1 .. n : out[i] = Piece(i) /\ next[i] = i + 1
  BY <1>3, <1>4
<1>6. \A i \in 1 .. n : Piece(i) \in Seq(T)
  BY <1>1
<1> HIDE DEF Piece
<1>7. /\ out \in [1 .. n -> Seq(T)] /\ next \in [1 .. n -> 1 .. n + 1]
      /\ \A i \in 1 .. n : next[i] > i
  BY <1>3, <1>4, <1>5, <1>6
<1> DEFINE Table(h) == [i \in 1 .. n + 1 |-> IF i > n THEN <<>> ELSE Piece(i) \o h[i + 1]]
<1>8. ASSUME NEW h, Joined(n, out, next, h) PROVE h = Table(h)
  <2>1. h = [i \in 1 .. n + 1 |-> h[i]]
    BY <1>8 DEF Joined
  <2>2. ASSUME NEW i \in 1 .. n + 1
        PROVE  h[i] = IF i > n THEN <<>> ELSE Piece(i) \o h[i + 1]
    <3>1. CASE i > n
      <4>1. i = n + 1
        BY <3>1
      <4>2. QED
        BY <1>8, <3>1, <4>1, Zenon DEF Joined
    <3>2. CASE ~(i > n)
      <4>1. i \in 1 .. n
        BY <3>2
      <4>2. QED
        BY <1>5, <1>8, <3>2, <4>1, Zenon DEF Joined
    <3>3. QED
      BY <3>1, <3>2
  <2>3. QED
    BY <2>1, <2>2, Zenon
<1>9. ASSUME NEW h, h = Table(h) PROVE Joined(n, out, next, h)
  <2>1. \A i \in 1 .. n + 1 : h[i] = IF i > n THEN <<>> ELSE Piece(i) \o h[i + 1]
    BY <1>9, Zenon
  <2>2. h = [i \in 1 .. n + 1 |-> h[i]]
    BY <1>9, <2>1, Zenon
  <2>3. n + 1 \in 1 .. n + 1 /\ n + 1 > n /\ \A i \in 1 .. n : i \in 1 .. n + 1 /\ ~(i > n)
    OBVIOUS
  <2>4. h[n + 1] = <<>>
    BY <2>1, <2>3, Zenon
  <2>5. \A i \in 1 .. n : h[i] = out[i] \o h[next[i]]
    <3>1. \A i \in 1 .. n : h[i] = Piece(i) \o h[i + 1]
      BY <2>1, <2>3, ZenonT(60)
    <3>2. QED
      BY <1>5, <3>1, ZenonT(60)
  <2>6. QED
    BY <2>2, <2>4, <2>5, Zenon DEF Joined
<1>10. PICK f : f = (CHOOSE h : h = Table(h))
  OBVIOUS
<1>11. f = Table(f)
  <2>1. PICK h : Joined(n, out, next, h)
    BY <1>7, JoinedIs
  <2>2. h = Table(h)
    BY <1>8, <2>1
  <2> HIDE DEF Table
  <2>3. QED
    BY <1>10, <2>2, Zenon
<1>12. Joined(n, out, next, f)
  BY <1>9, <1>11
<1>13. SeenFrom(T, s, f)
  <2>1. f \in [1 .. n + 1 -> Seq(T)]
    BY <1>7, <1>12, JoinedIn
  <2>2. QED
    BY <1>1, <1>2, <1>5, <1>12, <2>1, Zenon DEF Joined, SeenFrom, Piece
<1>14. Seen(s) = f[1]
  BY <1>1, <1>2, <1>10, Zenon DEF Seen, Codes, Piece
<1>15. QED
  BY <1>13, <1>14

\* That a code is from a to b
IsCode(s, a, b) ==
  \/ PipeAt(s, a) /\ b = a + 2
  \/ HeartAt(s, a) /\ b = a + 1
  \/ AnsiAt(s, a) /\ FirstLetter(s, a, b)

LEMMA CodesAre ==
  ASSUME NEW T, NEW s \in Seq(T), NEW j
  PROVE  j \in Codes(s) <=> \E a, b \in 1 .. Len(s) : IsCode(s, a, b) /\ j \in a .. b
<1>1. DOMAIN s = 1 .. Len(s)
  OBVIOUS
<1>2. ASSUME j \in Codes(s) PROVE \E a, b \in 1 .. Len(s) : IsCode(s, a, b) /\ j \in a .. b
  <2>1. CASE j \in UNION PipeCodes(s)
    <3>1. PICK a \in 1 .. Len(s) : PipeAt(s, a) /\ j \in a .. a + 2
      BY <1>1, <2>1 DEF PipeCodes, PipeAt
    <3>2. a + 2 \in 1 .. Len(s)
      BY <3>1 DEF PipeAt, CharAt, IsColorCode, IsDigit
    <3>3. QED
      BY <3>1, <3>2 DEF IsCode
  <2>2. CASE j \in UNION HeartCodes(s)
    <3>1. PICK a \in 1 .. Len(s) : HeartAt(s, a) /\ j \in a .. a + 1
      BY <1>1, <2>2 DEF HeartCodes, HeartAt
    <3>2. a + 1 \in 1 .. Len(s)
      BY <3>1 DEF HeartAt, CharAt, IsDigit
    <3>3. QED
      BY <3>1, <3>2 DEF IsCode
  <2>3. CASE j \in UNION AnsiCodes(s)
    <3>1. PICK a \in 1 .. Len(s) : AnsiAt(s, a) /\ j \in a .. Min({k \in a .. Len(s) : IsAlpha(s[k])})
      BY <1>1, <2>3 DEF AnsiCodes, AnsiStarts, AnsiAt
    <3>2. PICK l \in a + 2 .. Len(s) : FirstLetter(s, a, l) /\ l = Min({k \in a .. Len(s) : IsAlpha(s[k])})
      BY <3>1, LetterThere
    <3>3. l \in 1 .. Len(s) /\ j \in a .. l
      BY <3>1, <3>2
    <3>4. QED
      BY <3>1, <3>2, <3>3 DEF IsCode
  <2>4. QED
    BY <1>2, <2>1, <2>2, <2>3 DEF Codes
<1>3. ASSUME NEW a \in 1 .. Len(s), NEW b \in 1 .. Len(s), IsCode(s, a, b), j \in a .. b
      PROVE  j \in Codes(s)
  <2>1. CASE PipeAt(s, a) /\ b = a + 2
    <3>1. a .. a + 2 \in PipeCodes(s)
      BY <1>1, <2>1 DEF PipeCodes, PipeAt
    <3>2. QED
      BY <1>3, <2>1, <3>1 DEF Codes
  <2>2. CASE HeartAt(s, a) /\ b = a + 1
    <3>1. a .. a + 1 \in HeartCodes(s)
      BY <1>1, <2>2 DEF HeartCodes, HeartAt
    <3>2. QED
      BY <1>3, <2>2, <3>1 DEF Codes
  <2>3. CASE AnsiAt(s, a) /\ FirstLetter(s, a, b)
    <3>1. PICK l \in a + 2 .. Len(s) : FirstLetter(s, a, l) /\ l = Min({k \in a .. Len(s) : IsAlpha(s[k])})
      BY <2>3, LetterThere
    <3>2. l = b
      BY <2>3, <3>1 DEF FirstLetter
    <3>3. a .. l \in AnsiCodes(s)
      BY <1>1, <2>3, <3>1 DEF AnsiCodes, AnsiStarts, AnsiAt
    <3>4. QED
      BY <1>3, <3>2, <3>3 DEF Codes
  <2>4. QED
    BY <1>3, <2>1, <2>2, <2>3 DEF IsCode
<1>4. QED
  BY <1>2, <1>3

\* That no code reaches over a position from before it
Boundary(s, i) == \A a, b \in 1 .. Len(s) : IsCode(s, a, b) /\ a < i => b < i

LEMMA BehindCode ==
  ASSUME NEW T, NEW s \in Seq(T), NEW i \in 1 .. Len(s), NEW b \in 1 .. Len(s),
         Boundary(s, i), IsCode(s, i, b)
  PROVE  b >= i /\ Boundary(s, b + 1) /\ \A j \in i .. b : j \in Codes(s)
<1>1. b >= i
  BY DEF IsCode, FirstLetter
<1>2. \A j \in i .. b : j \in Codes(s)
  BY CodesAre
<1>3. ASSUME NEW a \in 1 .. Len(s), NEW c \in 1 .. Len(s), IsCode(s, a, c), a < b + 1
      PROVE  c < b + 1
  <2>1. CASE a < i
    BY <1>1, <1>3, <2>1 DEF Boundary
  <2>2. CASE a = i
    <3>1. CASE AnsiAt(s, i) /\ FirstLetter(s, i, b)
      <4>1. FirstLetter(s, i, c)
        BY <1>3, <2>2, <3>1 DEF IsCode, AnsiAt, PipeAt, HeartAt, Escape, Heart
      <4>2. QED
        BY <3>1, <4>1 DEF FirstLetter
    <3>2. CASE PipeAt(s, i) /\ b = i + 2
      BY <1>3, <2>2, <3>2 DEF IsCode, AnsiAt, PipeAt, HeartAt, Escape, Heart
    <3>3. CASE HeartAt(s, i) /\ b = i + 1
      BY <1>3, <2>2, <3>3 DEF IsCode, AnsiAt, PipeAt, HeartAt, Escape, Heart
    <3>4. QED
      BY <3>1, <3>2, <3>3 DEF IsCode
  <2>3. CASE a \in i + 1 .. b
    <3>1. CASE AnsiAt(s, i) /\ FirstLetter(s, i, b)
      <4>1. s[b] = "m"
        BY <3>1 DEF FirstLetter
      <4>2. a # b
        BY <1>3, <4>1 DEF IsCode, AnsiAt, PipeAt, HeartAt, Escape, Heart
      <4>3. a < b
        BY <2>3, <4>2
      <4>4. CASE PipeAt(s, a) /\ c = a + 2
        <5>1. s[a + 1] # "m" /\ s[a + 2] # "m"
          BY <4>4 DEF PipeAt, IsColorCode, IsDigit, CharAt
        <5>2. b # a + 1 /\ b # a + 2
          BY <4>1, <5>1
        <5>3. QED
          BY <4>3, <4>4, <5>2
      <4>5. CASE HeartAt(s, a) /\ c = a + 1
        BY <4>3, <4>5
      <4>6. CASE FirstLetter(s, a, c)
        <5>1. ~(b \in a .. c - 1)
          BY <4>1, <4>6 DEF FirstLetter
        <5>2. QED
          BY <4>3, <5>1
      <4>7. QED
        BY <1>3, <4>4, <4>5, <4>6 DEF IsCode
    <3>2. CASE PipeAt(s, i) /\ b = i + 2
      <4>1. a = i + 1 \/ a = i + 2
        BY <2>3, <3>2
      <4>2. s[a] = "#" \/ s[a] = "0"
        BY <3>2, <4>1 DEF PipeAt, IsColorCode, IsDigit, CharAt
      <4>3. QED
        BY <1>3, <4>2 DEF IsCode, AnsiAt, PipeAt, HeartAt, Escape, Heart
    <3>3. CASE HeartAt(s, i) /\ b = i + 1
      <4>1. a = i + 1
        BY <2>3, <3>3
      <4>2. s[a] = "0"
        BY <3>3, <4>1 DEF HeartAt, IsDigit, CharAt
      <4>3. QED
        BY <1>3, <4>2 DEF IsCode, AnsiAt, PipeAt, HeartAt, Escape, Heart
    <3>4. QED
      BY <3>1, <3>2, <3>3 DEF IsCode
  <2>4. QED
    BY <1>3, <2>1, <2>2, <2>3
<1>4. QED
  BY <1>1, <1>2, <1>3 DEF Boundary

LEMMA NoCode ==
  ASSUME NEW T, NEW s \in Seq(T), NEW i \in 1 .. Len(s), Boundary(s, i),
         ~PipeAt(s, i), ~HeartAt(s, i), ~AnsiAt(s, i)
  PROVE  i \notin Codes(s) /\ Boundary(s, i + 1)
<1>1. ASSUME NEW a \in 1 .. Len(s), NEW b \in 1 .. Len(s), IsCode(s, a, b) PROVE a # i
  BY <1>1 DEF IsCode
<1>2. i \notin Codes(s)
  <2>1. ASSUME NEW a \in 1 .. Len(s), NEW b \in 1 .. Len(s), IsCode(s, a, b), i \in a .. b PROVE FALSE
    <3>1. a < i /\ b >= i
      BY <1>1, <2>1
    <3>2. QED
      BY <2>1, <3>1 DEF Boundary
  <2>2. QED
    BY <2>1, CodesAre
<1>3. Boundary(s, i + 1)
  <2>1. ASSUME NEW a \in 1 .. Len(s), NEW b \in 1 .. Len(s), IsCode(s, a, b), a < i + 1 PROVE b < i + 1
    <3>1. a < i
      BY <1>1, <2>1
    <3>2. b < i
      BY <2>1, <3>1 DEF Boundary
    <3>3. QED
      BY <3>2
  <2>2. QED
    BY <2>1 DEF Boundary
<1>4. QED
  BY <1>2, <1>3

\* Behind an escape sequence begins no other.
LEMMA NotSideBySide ==
  ASSUME NEW T, NEW s \in Seq(T), ~AnsiSideBySide(s), NEW i \in 1 .. Len(s), AnsiAt(s, i),
         NEW l \in 1 .. Len(s), FirstLetter(s, i, l), l + 1 <= Len(s)
  PROVE  ~AnsiAt(s, l + 1)
<1>1. PICK m \in i + 2 .. Len(s) : FirstLetter(s, i, m) /\ m = Min({k \in i .. Len(s) : IsAlpha(s[k])})
  BY LetterThere
<1>2. m = l
  BY <1>1 DEF FirstLetter
<1>3. i .. l \in AnsiCodes(s)
  <2>1. i \in AnsiStarts(s)
    BY DEF AnsiStarts, AnsiAt
  <2>2. QED
    BY <1>1, <1>2, <2>1 DEF AnsiCodes
<1>4. Max(i .. l) = l
  <2>1. l \in i .. l /\ \A y \in i .. l : l >= y
    BY DEF FirstLetter
  <2>2. \A x \in i .. l : (\A y \in i .. l : x >= y) => x = l
    BY <2>1
  <2>3. QED
    BY <2>1, <2>2, Zenon DEF Max
<1>5. SUFFICES ASSUME AnsiAt(s, l + 1) PROVE FALSE
  OBVIOUS
<1>6. l + 1 \in AnsiStarts(s)
  BY <1>5 DEF AnsiStarts, AnsiAt
<1>7. QED
  BY <1>3, <1>4, <1>6, Zenon DEF AnsiSideBySide

\* A turn takes codes out as a whole, and puts out one character in none of them
\* that is behind them.
LEMMA TurnTakesOut ==
  ASSUME NEW T, NEW s \in Seq(T), ~AnsiSideBySide(s), NEW i \in 1 .. Len(s), Boundary(s, i),
         NEW next, NEW out, next = Turn(s, i).next, out = Turn(s, i).out
  PROVE  /\ Boundary(s, next)
         /\ \/ out = <<>> /\ \A j \in i .. next - 1 : j \in Codes(s)
            \/ /\ next - 1 \in i .. Len(s) /\ next - 1 \notin Codes(s) /\ out = <<s[next - 1]>>
               /\ \A j \in i .. next - 2 : j \in Codes(s)
<1>1. PICK at : TurnsAt(s, i, at, Turn(s, i))
  BY TurnIs
<1>2. at \in i .. Len(s) + 1
  BY <1>1 DEF TurnsAt
<1>3. /\ Boundary(s, at) /\ \A j \in i .. at - 1 : j \in Codes(s)
      /\ at <= Len(s) => ~AnsiAt(s, at)
  <2>1. CASE at = i /\ ~AnsiAt(s, i)
    BY <2>1
  <2>2. CASE AnsiAt(s, i) /\ FirstLetter(s, i, at - 1)
    <3>1. PICK l : l = at - 1
      OBVIOUS
    <3>2. l \in 1 .. Len(s) /\ l + 1 = at
      BY <1>2, <2>2, <3>1 DEF FirstLetter
    <3>3. IsCode(s, i, l)
      BY <2>2, <3>1 DEF IsCode
    <3>4. Boundary(s, l + 1) /\ \A j \in i .. l : j \in Codes(s)
      BY <3>2, <3>3, BehindCode
    <3>5. l + 1 <= Len(s) => ~AnsiAt(s, l + 1)
      BY <2>2, <3>1, <3>2, NotSideBySide
    <3>6. QED
      BY <3>1, <3>2, <3>4, <3>5
  <2>3. QED
    BY <1>1, <2>1, <2>2 DEF TurnsAt
<1>4. CASE at = Len(s) + 1
  <2>1. ~(at <= Len(s))
    BY <1>4
  <2>2. Turn(s, i) = [next |-> at, out |-> <<>>]
    BY <1>1, <2>1 DEF TurnsAt
  <2>3. next = at /\ out = <<>>
    BY <2>2
  <2>4. QED
    BY <1>3, <2>3
<1>5. CASE at <= Len(s)
  <2>1. at \in 1 .. Len(s) /\ at # Len(s) + 1
    BY <1>2, <1>5
  <2>2. CASE PipeAt(s, at) /\ Turn(s, i) = [next |-> at + 3, out |-> <<>>]
    <3>1. next = at + 3 /\ out = <<>>
      BY <2>2
    <3>2. at + 2 \in 1 .. Len(s)
      BY <2>1, <2>2 DEF PipeAt, CharAt, IsColorCode, IsDigit
    <3>3. IsCode(s, at, at + 2)
      BY <2>2 DEF IsCode
    <3>4. Boundary(s, at + 2 + 1) /\ \A j \in at .. at + 2 : j \in Codes(s)
      BY <1>3, <2>1, <3>2, <3>3, BehindCode
    <3>5. at + 2 + 1 = next
      BY <2>1, <3>1
    <3>6. \A j \in i .. next - 1 : j \in i .. at - 1 \/ j \in at .. at + 2
      BY <1>2, <3>1
    <3>7. QED
      BY <1>3, <3>1, <3>4, <3>5, <3>6
  <2>3. CASE HeartAt(s, at) /\ Turn(s, i) = [next |-> at + 2, out |-> <<>>]
    <3>1. next = at + 2 /\ out = <<>>
      BY <2>3
    <3>2. at + 1 \in 1 .. Len(s)
      BY <2>1, <2>3 DEF HeartAt, CharAt, IsDigit
    <3>3. IsCode(s, at, at + 1)
      BY <2>3 DEF IsCode
    <3>4. Boundary(s, at + 1 + 1) /\ \A j \in at .. at + 1 : j \in Codes(s)
      BY <1>3, <2>1, <3>2, <3>3, BehindCode
    <3>5. at + 1 + 1 = next
      BY <2>1, <3>1
    <3>6. \A j \in i .. next - 1 : j \in i .. at - 1 \/ j \in at .. at + 1
      BY <1>2, <3>1
    <3>7. QED
      BY <1>3, <3>1, <3>4, <3>5, <3>6
  <2>4. CASE ~PipeAt(s, at) /\ ~HeartAt(s, at) /\ Turn(s, i) = [next |-> at + 1, out |-> <<s[at]>>]
    <3>1. next = at + 1 /\ out = <<s[at]>>
      BY <2>4
    <3>2. at \notin Codes(s) /\ Boundary(s, at + 1)
      BY <1>3, <2>1, <2>4, NoCode
    <3>3. next - 1 = at /\ next - 2 = at - 1
      BY <2>1, <3>1
    <3>4. QED
      BY <1>2, <1>3, <1>5, <3>1, <3>2, <3>3
  <2>5. QED
    BY <1>1, <2>1, <2>2, <2>3, <2>4 DEF TurnsAt
<1>6. QED
  BY <1>2, <1>4, <1>5

\* Over positions in codes the same is seen.
LEMMA SeenOver ==
  ASSUME NEW T, NEW s \in Seq(T), NEW g, SeenFrom(T, s, g), NEW a \in 1 .. Len(s) + 1,
         NEW b \in a .. Len(s) + 1, \A j \in a .. b - 1 : j \in Codes(s)
  PROVE  g[a] = g[b]
<1>1. PICK n \in Nat : n = b - 1 /\ n + 1 = b
  OBVIOUS
<1> DEFINE Good == {j \in 1 .. b : j >= a => g[j] = g[b]}
<1>2. n + 1 \in Good
  BY <1>1
<1>3. ASSUME NEW i \in 1 .. n, \A j \in i + 1 .. n + 1 : j \in Good PROVE i \in Good
  <2>1. CASE i < a
    BY <1>1, <2>1
  <2>2. CASE i >= a
    <3>1. i + 1 \in Good /\ i + 1 >= a
      BY <1>3, <2>2
    <3>2. g[i + 1] = g[b]
      BY <3>1
    <3>3. i \in Codes(s) /\ i \in 1 .. Len(s) /\ i + 1 \in 1 .. Len(s) + 1
      BY <1>1, <2>2
    <3>4. g[i] = <<>> \o g[i + 1] /\ g[i + 1] \in Seq(T)
      BY <3>3 DEF SeenFrom
    <3>5. g[i] = g[b]
      BY <3>2, <3>4
    <3>6. QED
      BY <1>1, <3>5
  <2>3. QED
    BY <2>1, <2>2
<1>4. 1 .. n + 1 \subseteq Good
  <2> HIDE DEF Good
  <2>1. QED
    BY <1>2, <1>3, Downward
<1>5. a \in Good
  <2> HIDE DEF Good
  <2>1. a \in 1 .. n + 1
    BY <1>1
  <2>2. QED
    BY <1>4, <2>1
<1>6. QED
  BY <1>5

LEMMA StrippedAsSeen ==
  ASSUME NEW T, NEW s \in Seq(T), ~AnsiSideBySide(s)
  PROVE  stripcolors(s) = Seen(s)
<1>1. PICK n \in Nat : n = Len(s)
  OBVIOUS
<1>2. PICK f : Stripped(T, s, f) /\ stripcolors(s) = f[1]
  BY StrippedIs
<1>3. PICK g : SeenFrom(T, s, g) /\ Seen(s) = g[1]
  BY SeenIs
<1> DEFINE Good == {i \in 1 .. n + 1 : Boundary(s, i) => f[i] = g[i]}
<1>4. n + 1 \in Good
  BY <1>1, <1>2, <1>3 DEF Stripped, SeenFrom
<1>5. ASSUME NEW i \in 1 .. n, \A j \in i + 1 .. n + 1 : j \in Good PROVE i \in Good
  <2>1. SUFFICES ASSUME Boundary(s, i) PROVE f[i] = g[i]
    OBVIOUS
  <2>2. PICK next, out : next = Turn(s, i).next /\ out = Turn(s, i).out
    OBVIOUS
  <2>3. next \in i + 1 .. n + 1
    BY <1>1, <2>2, TurnGoesOn
  <2>4. f[i] = out \o f[next]
    BY <1>1, <1>2, <2>2 DEF Stripped
  <2>5. Boundary(s, next)
    BY <1>1, <2>1, <2>2, TurnTakesOut
  <2>6. f[next] = g[next]
    BY <1>5, <2>3, <2>5
  <2>7. g[next] \in Seq(T)
    BY <1>1, <1>3, <2>3 DEF SeenFrom
  <2>8. CASE out = <<>> /\ \A j \in i .. next - 1 : j \in Codes(s)
    <3>1. g[i] = g[next]
      BY <1>1, <1>3, <2>3, <2>8, SeenOver
    <3>2. QED
      BY <2>4, <2>6, <2>7, <2>8, <3>1
  <2>9. CASE /\ next - 1 \in i .. Len(s) /\ next - 1 \notin Codes(s) /\ out = <<s[next - 1]>>
             /\ \A j \in i .. next - 2 : j \in Codes(s)
    <3>1. PICK p : p = next - 1
      OBVIOUS
    <3>2. p \in i .. n /\ p + 1 = next /\ next - 2 = p - 1
      BY <1>1, <2>3, <2>9, <3>1
    <3>3. g[i] = g[p]
      BY <1>1, <1>3, <2>9, <3>1, <3>2, SeenOver
    <3>4. g[p] = <<s[p]>> \o g[next]
      <4>1. p \in 1 .. Len(s) /\ p \notin Codes(s)
        BY <1>1, <2>9, <3>1, <3>2
      <4>2. g[p] = (IF p \in Codes(s) THEN <<>> ELSE <<s[p]>>) \o g[p + 1]
        BY <1>3, <4>1, Zenon DEF SeenFrom
      <4>3. QED
        BY <3>2, <4>1, <4>2, Zenon
    <3>5. out = <<s[p]>>
      BY <2>9, <3>1
    <3>6. QED
      BY <2>4, <2>6, <3>3, <3>4, <3>5, Zenon
  <2>10. QED
    BY <1>1, <2>1, <2>2, <2>8, <2>9, TurnTakesOut
<1>6. 1 \in Good
  <2>1. 1 .. n + 1 \subseteq Good
    <3> HIDE DEF Good
    <3>1. QED
      BY <1>4, <1>5, Downward
  <2> HIDE DEF Good
  <2>2. QED
    BY <2>1
<1>7. Boundary(s, 1)
  BY DEF Boundary
<1>8. QED
  BY <1>2, <1>3, <1>6, <1>7

-----------------------------------------------------------------------------
\* That w is the text s with k blanks behind it
Padded(T, s, k, w) ==
  /\ w \in Seq(T) /\ Len(w) = Len(s) + k
  /\ \A i \in 1 .. Len(s) : w[i] = s[i]
  /\ \A i \in Len(s) + 1 .. Len(s) + k : w[i] = Blank

\* A blank is in no code, so the turns are those without the blanks, but that
\* behind an escape sequence at the end the first blank is put out in the same turn.
LEMMA TurnPadded ==
  ASSUME NEW T, NEW s \in Seq(T), NEW k \in Nat, NEW w, Padded(T, s, k, w), NEW i \in 1 .. Len(s)
  PROVE  \/ Turn(w, i) = Turn(s, i)
         \/ /\ k > 0 /\ Turn(s, i).next = Len(s) + 1 /\ Turn(s, i).out = <<>>
            /\ Turn(w, i).next = Len(s) + 2 /\ Turn(w, i).out = <<Blank>>
<1>1. PICK n \in Nat : n = Len(s) /\ Len(w) = n + k
  BY DEF Padded
<1>2. w \in Seq(T) /\ i \in 1 .. Len(w) /\ w[i] = s[i]
  BY <1>1 DEF Padded
<1>3. /\ \A j \in 1 .. n : CharAt(w, j) = s[j] /\ CharAt(s, j) = s[j] /\ w[j] = s[j]
      /\ \A j \in Nat : j > n => CharAt(s, j) = "end" /\ CharAt(w, j) \in {Blank, "end"}
      /\ \A j \in n + 1 .. n + k : w[j] = Blank
  BY <1>1, <1>2 DEF Padded, CharAt
<1>4. AnsiAt(w, i) <=> AnsiAt(s, i)
  <2>1. CharAt(w, i + 1) = "[" <=> CharAt(s, i + 1) = "["
    BY <1>1, <1>3 DEF Blank
  <2>2. (\E m \in i + 2 .. Len(w) : w[m] = "m") <=> (\E m \in i + 2 .. Len(s) : s[m] = "m")
    <3>1. ASSUME NEW m \in i + 2 .. Len(w), w[m] = "m" PROVE m \in i + 2 .. n /\ s[m] = "m"
      <4>1. m \notin n + 1 .. n + k
        BY <1>3, <3>1 DEF Blank
      <4>2. m \in i + 2 .. n
        BY <1>1, <4>1
      <4>3. QED
        BY <1>3, <3>1, <4>2
    <3>2. ASSUME NEW m \in i + 2 .. n, s[m] = "m" PROVE m \in i + 2 .. Len(w) /\ w[m] = "m"
      BY <1>1, <1>3, <3>2
    <3>3. QED
      BY <1>1, <3>1, <3>2
  <2>3. QED
    BY <1>2, <2>1, <2>2 DEF AnsiAt, IsAnsiStart
<1>5. \A j \in 1 .. n : (PipeAt(w, j) <=> PipeAt(s, j)) /\ (HeartAt(w, j) <=> HeartAt(s, j))
  <2>1. ASSUME NEW j \in Nat, j >= 1
        PROVE  /\ IsColorCode(CharAt(w, j)) <=> IsColorCode(CharAt(s, j))
               /\ IsDigit(CharAt(w, j)) <=> IsDigit(CharAt(s, j))
    <3>1. CASE j <= n
      <4>1. j \in 1 .. n
        BY <2>1, <3>1
      <4>2. QED
        BY <1>3, <4>1
    <3>2. CASE j > n
      <4>1. CharAt(s, j) = "end" /\ CharAt(w, j) \in {Blank, "end"}
        BY <1>3, <3>2
      <4>2. QED
        BY <4>1 DEF IsColorCode, IsDigit, Blank
    <3>3. QED
      BY <3>1, <3>2
  <2>2. \A j \in 1 .. n : w[j] = s[j] /\ j + 1 \in Nat /\ j + 1 >= 1 /\ j + 2 \in Nat /\ j + 2 >= 1
    BY <1>3
  <2>3. QED
    BY <2>1, <2>2 DEF PipeAt, HeartAt
<1>6. PICK at : TurnsAt(s, i, at, Turn(s, i))
  BY TurnIs
<1>7. PICK to : TurnsAt(w, i, to, Turn(w, i))
  BY <1>2, TurnIs
<1>8. at \in i .. n + 1 /\ to \in i .. n + k + 1
  BY <1>1, <1>6, <1>7 DEF TurnsAt
<1>9. to = at
  <2>1. CASE ~AnsiAt(s, i)
    BY <1>4, <1>6, <1>7, <2>1 DEF TurnsAt
  <2>2. CASE AnsiAt(s, i)
    <3>1. FirstLetter(s, i, at - 1) /\ FirstLetter(w, i, to - 1)
      BY <1>4, <1>6, <1>7, <2>2 DEF TurnsAt
    <3>2. at - 1 \in i .. n /\ s[at - 1] = "m" /\ \A m \in i .. at - 2 : s[m] # "m"
      <4>1. at - 2 = at - 1 - 1
        BY <1>8
      <4>2. QED
        BY <1>1, <3>1, <4>1 DEF FirstLetter
    <3>3. to - 1 \in i .. n + k /\ w[to - 1] = "m" /\ \A m \in i .. to - 2 : w[m] # "m"
      <4>1. to - 2 = to - 1 - 1
        BY <1>8
      <4>2. QED
        BY <1>1, <3>1, <4>1 DEF FirstLetter
    <3>4. to - 1 \in i .. n
      <4>1. to - 1 \notin n + 1 .. n + k
        BY <1>3, <3>3 DEF Blank
      <4>2. QED
        BY <3>3, <4>1
    <3>5. \A m \in i .. n : w[m] = s[m]
      BY <1>3
    <3>6. ~(at - 1 \in i .. to - 2) /\ ~(to - 1 \in i .. at - 2)
      BY <3>2, <3>3, <3>4, <3>5
    <3>7. QED
      BY <1>8, <3>2, <3>4, <3>6
  <2>3. QED
    BY <2>1, <2>2
<1>10. CASE at \in 1 .. n
  <2>1. at <= Len(s) /\ at <= Len(w) /\ at # Len(s) + 1 /\ at # Len(w) + 1 /\ w[at] = s[at]
    BY <1>1, <1>3, <1>10
  <2>2. \/ PipeAt(s, at) /\ Turn(s, i) = [next |-> at + 3, out |-> <<>>]
        \/ HeartAt(s, at) /\ Turn(s, i) = [next |-> at + 2, out |-> <<>>]
        \/ ~PipeAt(s, at) /\ ~HeartAt(s, at) /\ Turn(s, i) = [next |-> at + 1, out |-> <<s[at]>>]
    BY <1>6, <2>1 DEF TurnsAt
  <2>3. \/ PipeAt(s, at) /\ Turn(w, i) = [next |-> at + 3, out |-> <<>>]
        \/ HeartAt(s, at) /\ Turn(w, i) = [next |-> at + 2, out |-> <<>>]
        \/ ~PipeAt(s, at) /\ ~HeartAt(s, at) /\ Turn(w, i) = [next |-> at + 1, out |-> <<s[at]>>]
    BY <1>5, <1>7, <1>9, <1>10, <2>1 DEF TurnsAt
  <2>4. ~(PipeAt(s, at) /\ HeartAt(s, at))
    BY DEF PipeAt, HeartAt, Heart
  <2>5. QED
    BY <2>2, <2>3, <2>4
<1>11. CASE at = n + 1
  <2>1. ~(at <= Len(s))
    BY <1>1, <1>11
  <2>2. Turn(s, i) = [next |-> at, out |-> <<>>]
    BY <1>6, <2>1 DEF TurnsAt
  <2>3. CASE k = 0
    <3>1. ~(at <= Len(w))
      BY <1>1, <1>11, <2>3
    <3>2. Turn(w, i) = [next |-> at, out |-> <<>>]
      BY <1>7, <1>9, <3>1 DEF TurnsAt
    <3>3. QED
      BY <2>2, <3>2
  <2>4. CASE k > 0
    <3>1. at # Len(w) + 1 /\ at \in n + 1 .. n + k
      BY <1>1, <1>11, <2>4
    <3>2. w[at] = Blank
      BY <1>3, <3>1
    <3>3. ~PipeAt(w, at) /\ ~HeartAt(w, at)
      BY <3>2 DEF PipeAt, HeartAt, Heart, Blank
    <3>4. Turn(w, i) = [next |-> at + 1, out |-> <<w[at]>>]
      BY <1>7, <1>9, <3>1, <3>3 DEF TurnsAt
    <3>5. Turn(s, i).next = at /\ Turn(s, i).out = <<>>
      BY <2>2
    <3>6. Turn(w, i).next = at + 1 /\ Turn(w, i).out = <<Blank>>
      BY <3>2, <3>4
    <3>7. at = Len(s) + 1 /\ at + 1 = Len(s) + 2
      BY <1>1, <1>11
    <3>8. QED
      BY <2>4, <3>5, <3>6, <3>7
  <2>5. QED
    BY <2>3, <2>4
<1>12. QED
  BY <1>8, <1>10, <1>11

LEMMA BlankTurn ==
  ASSUME NEW T, NEW s \in Seq(T), NEW k \in Nat, NEW w, Padded(T, s, k, w),
         NEW i \in Len(s) + 1 .. Len(s) + k
  PROVE  Turn(w, i).next = i + 1 /\ Turn(w, i).out = <<Blank>>
<1>1. w \in Seq(T) /\ i \in 1 .. Len(w) /\ w[i] = Blank
  BY DEF Padded
<1>2. PICK at : TurnsAt(w, i, at, Turn(w, i))
  BY <1>1, TurnIs
<1>3. ~AnsiAt(w, i) /\ ~PipeAt(w, i) /\ ~HeartAt(w, i)
  BY <1>1 DEF AnsiAt, PipeAt, HeartAt, Escape, Heart, Blank
<1>4. at = i /\ at # Len(w) + 1
  BY <1>1, <1>2, <1>3 DEF TurnsAt
<1>5. Turn(w, i) = [next |-> i + 1, out |-> <<w[i]>>]
  BY <1>2, <1>3, <1>4 DEF TurnsAt
<1>6. QED
  BY <1>1, <1>5

\* Each blank is one column more.
LEMMA PaddedSize ==
  ASSUME NEW T, NEW s \in Seq(T), NEW k \in Nat, NEW w, Padded(T, s, k, w)
  PROVE  Len(stripcolors(w)) = Len(stripcolors(s)) + k
<1>1. PICK n \in Nat : n = Len(s) /\ Len(w) = n + k
  BY DEF Padded
<1>2. w \in Seq(T)
  BY DEF Padded
<1>3. PICK h : Stripped(T, s, h) /\ stripcolors(s) = h[1]
  BY StrippedIs
<1>4. PICK f : Stripped(T, w, f) /\ stripcolors(w) = f[1]
  BY <1>2, StrippedIs
<1>5. /\ \A i \in 1 .. n + k + 1 : f[i] \in Seq(T)
      /\ \A i \in 1 .. n + 1 : h[i] \in Seq(T)
      /\ f[n + k + 1] = <<>> /\ h[n + 1] = <<>>
  BY <1>1, <1>3, <1>4 DEF Stripped
<1>6. /\ \A i \in 1 .. n + k : f[i] = Turn(w, i).out \o f[Turn(w, i).next]
      /\ \A i \in 1 .. n : h[i] = Turn(s, i).out \o h[Turn(s, i).next]
  BY <1>1, <1>3, <1>4 DEF Stripped
<1> DEFINE Good == {i \in 1 .. n + k + 1 : IF i <= n THEN Len(f[i]) = Len(h[i]) + k
                                           ELSE Len(f[i]) = n + k + 1 - i}
<1>7. n + k + 1 \in Good
  <2>1. ~(n + k + 1 <= n) /\ Len(f[n + k + 1]) = n + k + 1 - (n + k + 1) /\ n + k + 1 \in 1 .. n + k + 1
    BY <1>5
  <2>2. QED
    BY <2>1
<1>8. ASSUME NEW i \in 1 .. n + k, \A j \in i + 1 .. n + k + 1 : j \in Good PROVE i \in Good
  <2>1. CASE i > n
    <3>1. Turn(w, i).next = i + 1 /\ Turn(w, i).out = <<Blank>>
      BY <1>1, <2>1, BlankTurn
    <3>2. f[i] = <<Blank>> \o f[i + 1]
      BY <1>6, <3>1
    <3>3. i + 1 \in Good /\ i + 1 \in 1 .. n + k + 1 /\ ~(i + 1 <= n)
      BY <1>8, <2>1
    <3>4. Len(f[i + 1]) = n + k + 1 - (i + 1) /\ f[i + 1] \in Seq(T)
      BY <1>5, <3>3
    <3>5. Len(f[i]) = 1 + Len(f[i + 1])
      BY <3>2, <3>4
    <3>6. Len(f[i]) = n + k + 1 - i
      BY <3>4, <3>5
    <3>7. QED
      BY <2>1, <3>6
  <2>2. CASE i <= n
    <3>1. PICK next, out : next = Turn(s, i).next /\ out = Turn(s, i).out
      OBVIOUS
    <3>2. next \in i + 1 .. n + 1 /\ out \in Seq(T)
      BY <1>1, <2>2, <3>1, TurnGoesOn
    <3>3. h[i] = out \o h[next] /\ h[next] \in Seq(T)
      <4>1. i \in 1 .. n /\ next \in 1 .. n + 1
        BY <2>2, <3>2
      <4>2. h[next] \in Seq(T)
        BY <1>5, <4>1
      <4>3. h[i] = Turn(s, i).out \o h[Turn(s, i).next]
        BY <1>6, <4>1
      <4>4. QED
        BY <3>1, <4>2, <4>3, Zenon
    <3>4. Len(h[i]) = Len(out) + Len(h[next])
      BY <3>2, <3>3
    <3>5. CASE Turn(w, i) = Turn(s, i)
      <4>1. f[i] = out \o f[next] /\ f[next] \in Seq(T)
        <5>1. next \in 1 .. n + k + 1
          BY <3>2
        <5>2. f[next] \in Seq(T)
          BY <1>5, <5>1
        <5>3. f[i] = Turn(w, i).out \o f[Turn(w, i).next]
          BY <1>6
        <5>4. QED
          BY <3>1, <3>5, <5>2, <5>3, Zenon
      <4>2. Len(f[i]) = Len(out) + Len(f[next])
        BY <3>2, <4>1
      <4>3. next \in Good
        BY <1>8, <3>2
      <4>4. Len(f[next]) = Len(h[next]) + k
        <5>1. CASE next <= n
          BY <4>3, <5>1
        <5>2. CASE next = n + 1
          <6>1. h[next] = <<>> /\ ~(next <= n)
            BY <1>5, <5>2
          <6>2. QED
            BY <4>3, <5>2, <6>1
        <5>3. QED
          BY <3>2, <5>1, <5>2
      <4>5. Len(out) \in Nat /\ Len(h[next]) \in Nat
        BY <3>2, <3>3
      <4>6. Len(f[i]) = Len(h[i]) + k
        BY <3>4, <4>2, <4>4, <4>5
      <4>7. QED
        BY <2>2, <4>6
    <3>6. CASE /\ k > 0 /\ Turn(s, i).next = n + 1 /\ Turn(s, i).out = <<>>
               /\ Turn(w, i).next = n + 2 /\ Turn(w, i).out = <<Blank>>
      <4>1. next = n + 1 /\ out = <<>> /\ n + 2 \in i + 1 .. n + k + 1
        BY <2>2, <3>1, <3>6
      <4>2. Len(h[i]) = 0
        BY <1>5, <3>4, <4>1
      <4>3. f[i] = <<Blank>> \o f[n + 2] /\ f[n + 2] \in Seq(T)
        <5>1. n + 2 \in 1 .. n + k + 1
          BY <3>6
        <5>2. f[n + 2] \in Seq(T)
          BY <1>5, <5>1
        <5>3. f[i] = Turn(w, i).out \o f[Turn(w, i).next]
          BY <1>6
        <5>4. QED
          BY <3>6, <5>2, <5>3, Zenon
      <4>4. Len(f[i]) = 1 + Len(f[n + 2])
        BY <4>3
      <4>5. n + 2 \in Good /\ ~(n + 2 <= n)
        BY <1>8, <4>1
      <4>6. Len(f[n + 2]) = n + k + 1 - (n + 2)
        BY <4>5
      <4>7. Len(f[i]) = Len(h[i]) + k
        BY <4>2, <4>4, <4>6
      <4>8. QED
        BY <2>2, <4>7
    <3>7. QED
      BY <1>1, <2>2, <3>5, <3>6, TurnPadded
  <2>3. QED
    BY <2>1, <2>2
<1>9. 1 \in Good
  <2>1. PICK m \in Nat : m = n + k
    OBVIOUS
  <2>2. 1 .. m + 1 \subseteq Good
    <3> HIDE DEF Good
    <3>1. QED
      BY <1>7, <1>8, <2>1, Downward
  <2>3. QED
    BY <2>1, <2>2
<1>10. CASE n = 0
  <2>1. Len(f[1]) = k /\ h[1] = <<>>
    BY <1>5, <1>9, <1>10
  <2>2. QED
    BY <1>3, <1>4, <2>1
<1>11. CASE n > 0
  BY <1>3, <1>4, <1>9, <1>11
<1>12. QED
  BY <1>10, <1>11

\* What is kept of a text that is cut is the most that is short enough.
LEMMA CutSize ==
  ASSUME NEW T, NEW s \in Seq(T), NEW size \in Nat
  PROVE  /\ size_without_colors(trim_to_size_ignore_colors(s, size)) <= size
         /\ size_without_colors(s) <= size => trim_to_size_ignore_colors(s, size) = s
<1> DEFINE K == {n \in 0 .. Len(s) : size_without_colors(SubSeq(s, 1, n)) <= size}
<1>1. 0 \in K
  <2>1. SubSeq(s, 1, 0) = <<>> /\ <<>> \in Seq(T)
    OBVIOUS
  <2>2. PICK e \in Seq(T) : e = <<>> /\ Len(e) = 0
    <3>1. Len(<<>>) = 0
      OBVIOUS
    <3>2. QED
      BY <2>1, <3>1
  <2>3. PICK f : Stripped(T, e, f) /\ stripcolors(e) = f[1]
    BY <2>2, StrippedIs
  <2>4. f[1] = <<>>
    BY <2>2, <2>3 DEF Stripped
  <2>5. size_without_colors(SubSeq(s, 1, 0)) = 0
    BY <2>1, <2>2, <2>3, <2>4 DEF size_without_colors
  <2>6. QED
    BY <2>5
<1>2. PICK m \in K : \A n \in K : m >= n
  <2>1. Len(s) \in Nat /\ K \subseteq 0 .. Len(s)
    OBVIOUS
  <2> DEFINE K1 == {n + 1 : n \in K}
  <2>2. K1 \in SUBSET (1 .. Len(s) + 1) /\ K1 # {} /\ \A n \in K : n + 1 \in K1
    <3> HIDE DEF K
    <3>1. QED
      BY <1>1, <2>1
  <2>3. \A x \in K1 : x - 1 \in K /\ x \in Nat
    <3> HIDE DEF K
    <3>1. QED
      BY <2>1
  <2>4. PICK x \in K1 : \A y \in K1 : y <= x
    <3> HIDE DEF K1
    <3>1. PICK top \in Nat : top = Len(s) + 1
      BY <2>1
    <3>2. K1 \in SUBSET (1 .. top) /\ K1 # {}
      BY <2>2, <3>1
    <3>3. QED
      BY <3>2, GreatestPosition
  <2> HIDE DEF K1, K
  <2>5. \A n \in K : x - 1 >= n
    BY <2>1, <2>2, <2>3, <2>4
  <2>6. QED
    BY <2>3, <2>5
<1>3. PICK c \in K : c = Max(K) /\ \A n \in K : c >= n
  <2> HIDE DEF K
  <2>1. Max(K) \in K /\ \A n \in K : Max(K) >= n
    BY <1>2, Zenon DEF Max
  <2>2. QED
    BY <2>1
<1>4. trim_to_size_ignore_colors(s, size) = SubSeq(s, 1, c)
  BY <1>3 DEF trim_to_size_ignore_colors
<1>5. size_without_colors(SubSeq(s, 1, c)) <= size
  BY <1>3
<1>6. ASSUME size_without_colors(s) <= size PROVE SubSeq(s, 1, c) = s
  <2>1. SubSeq(s, 1, Len(s)) = s /\ Len(s) \in 0 .. Len(s)
    OBVIOUS
  <2>2. Len(s) \in K
    BY <1>6, <2>1
  <2>3. c = Len(s)
    BY <1>3, <2>2
  <2>4. QED
    BY <2>1, <2>3
<1>7. QED
  BY <1>4, <1>5, <1>6

LEMMA WideSize ==
  ASSUME NEW T, NEW s \in Seq(T), NEW size \in Nat
  PROVE  size_without_colors(pad_to_ignore_colors(s, size)) = Max({size, size_without_colors(s)})
<1>1. PICK z \in Nat : z = size_without_colors(s)
  <2>1. PICK f : Stripped(T, s, f) /\ stripcolors(s) = f[1]
    BY StrippedIs
  <2>2. f[1] \in Seq(T)
    BY <2>1 DEF Stripped
  <2>3. QED
    BY <2>1, <2>2 DEF size_without_colors
<1>2. /\ Max({0, size - z}) = IF size > z THEN size - z ELSE 0
      /\ Max({size, z}) = IF size > z THEN size ELSE z
  <2>1. ASSUME NEW a \in Int, NEW b \in Int PROVE Max({a, b}) = IF a >= b THEN a ELSE b
    <3>1. PICK m \in {a, b} : \A y \in {a, b} : m >= y
      OBVIOUS
    <3>2. Max({a, b}) \in {a, b} /\ \A y \in {a, b} : Max({a, b}) >= y
      BY <3>1, Zenon DEF Max
    <3>3. QED
      BY <3>2
  <2>2. size - z \in Int /\ 0 \in Int
    OBVIOUS
  <2>3. /\ Max({0, size - z}) = IF 0 >= size - z THEN 0 ELSE size - z
        /\ Max({size, z}) = IF size >= z THEN size ELSE z
    BY <2>1, <2>2
  <2>4. QED
    BY <2>3
<1>3. PICK k \in Nat : k = Max({0, size - z}) /\ z + k = Max({size, z})
  BY <1>2
<1>4. PICK blanks : blanks = [i \in 1 .. k |-> Blank]
  OBVIOUS
<1>5. PICK w : w = s \o blanks
  OBVIOUS
<1>6. Padded(T \cup {Blank}, s, k, w) /\ s \in Seq(T \cup {Blank})
  <2>1. s \in Seq(T \cup {Blank})
    OBVIOUS
  <2>2. blanks \in Seq(T \cup {Blank}) /\ Len(blanks) = k /\ \A i \in 1 .. k : blanks[i] = Blank
    BY <1>4
  <2>3. w \in Seq(T \cup {Blank}) /\ Len(w) = Len(s) + k
    <3>1. PICK W : W = T \cup {Blank}
      OBVIOUS
    <3>2. s \in Seq(W) /\ blanks \in Seq(W) /\ Len(blanks) = k
      BY <2>1, <2>2, <3>1
    <3>3. w \in Seq(W) /\ Len(w) = Len(s) + k
      <4>1. s \o blanks \in Seq(W) /\ Len(s \o blanks) = Len(s) + Len(blanks)
        BY <3>2, ConcatProperties
      <4>2. QED
        BY <1>5, <3>2, <4>1, Zenon
    <3>4. QED
      BY <3>1, <3>3
  <2>4. \A i \in 1 .. Len(s) : w[i] = s[i]
    BY <1>5, <2>1, <2>2
  <2>5. ASSUME NEW i \in Len(s) + 1 .. Len(s) + k PROVE w[i] = Blank
    <3>1. w[i] = blanks[i - Len(s)] /\ i - Len(s) \in 1 .. k
      BY <1>5, <2>1, <2>2
    <3>2. QED
      BY <2>2, <3>1
  <2>6. QED
    BY <2>3, <2>4, <2>5 DEF Padded
<1>7. Len(stripcolors(w)) = Len(stripcolors(s)) + k
  BY <1>6, PaddedSize
<1>8. pad_to_ignore_colors(s, size) = w
  BY <1>1, <1>3, <1>4, <1>5, Zenon DEF pad_to_ignore_colors
<1>9. size_without_colors(w) = z + k
  BY <1>1, <1>7 DEF size_without_colors
<1>10. QED
  BY <1>1, <1>3, <1>8, <1>9

LEMMA ColorsHold == ASSUME colored \in Seq(Chars) PROVE ColorsStripped
<1>1. ~AnsiSideBySide(colored) => stripcolors(colored) = Seen(colored)
  <2>1. PICK s : s = colored
    OBVIOUS
  <2>2. s \in Seq(Chars)
    BY <2>1
  <2>3. ~AnsiSideBySide(s) => stripcolors(s) = Seen(s)
    BY <2>2, StrippedAsSeen
  <2>4. QED
    BY <2>1, <2>3
<1>2. ASSUME NEW n \in 0 .. MaxColumns
      PROVE  /\ size_without_colors(trim_to_size_ignore_colors(colored, n)) <= n
             /\ size_without_colors(colored) <= n => trim_to_size_ignore_colors(colored, n) = colored
             /\ size_without_colors(pad_to_ignore_colors(colored, n)) = Max({n, size_without_colors(colored)})
  <2>1. PICK s : s = colored
    OBVIOUS
  <2>2. s \in Seq(Chars) /\ n \in Nat
    BY <2>1, ColumnsAssumption
  <2>3. /\ size_without_colors(trim_to_size_ignore_colors(s, n)) <= n
        /\ size_without_colors(s) <= n => trim_to_size_ignore_colors(s, n) = s
    BY <2>2, CutSize
  <2>4. size_without_colors(pad_to_ignore_colors(s, n)) = Max({n, size_without_colors(s)})
    BY <2>2, WideSize
  <2>5. QED
    BY <2>1, <2>3, <2>4
<1>3. QED
  BY <1>1, <1>2 DEF ColorsStripped

\* In every text, however it was typed, codes are taken out and nothing else is, and it
\* is cut and padded to the columns asked for: stripcolors, trim_to_size_ignore_colors
\* and pad_to_ignore_colors.
THEOREM CodesTakenOut == ColorSpec => []ColorsStripped
<1>1. ColorInit => colored \in Seq(Chars)
  BY DEF ColorInit
<1>2. colored \in Seq(Chars) /\ [ColorNext]_colored => (colored \in Seq(Chars))'
  BY DEF ColorNext, TypeChar
<1>3. colored \in Seq(Chars) => ColorsStripped
  BY ColorsHold
<1>4. QED
  BY <1>1, <1>2, <1>3, PTL DEF ColorSpec

=============================================================================
