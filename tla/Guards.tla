------------------------------- MODULE Guards -------------------------------
(***************************************************************************)
(* Functions that run when a scope is left: ScopeExit of a std::function   *)
(* (src/core/scope_exit.h) and Transaction (src/core/transaction.h).  The  *)
(* objects are destroyed in the reverse order of their construction, when  *)
(* their scope ends and when an exception leaves it.  A destructor that    *)
(* throws terminates the program.                                          *)
(***************************************************************************)
EXTENDS Integers, Sequences, FiniteSets, SequencesExt

CONSTANTS
  Actions,    \* the function objects, each given to one object; see Copy
  NoFn,       \* an empty std::function
  MaxObjects  \* bound: how many objects are alive

ASSUME NoFnAssumption == NoFn \notin Actions

VARIABLES
  objects,  \* the objects that are alive, the youngest first
  ran,      \* the functions that have run, in order
  due,      \* history: those that are to run in the end
  life      \* "running", "unwinding"; "called empty" or "threw" when terminated

guardVars == <<objects, ran, due, life>>

Given ==
  (UNION {{o.fn, o.commit, o.rollback} : o \in ToSet(objects)})
    \cup ToSet(ran) \cup due
Unused == Actions \ Given

Guard(fn, invoke) ==
  [is |-> "guard", fn |-> fn, invoke |-> invoke, commit |-> NoFn, rollback |-> NoFn, back |-> FALSE]
Transaction(commit, rollback) ==
  [is |-> "transaction", fn |-> NoFn, invoke |-> FALSE, commit |-> commit, rollback |-> rollback, back |-> FALSE]
IsGuard(i) == objects[i].is = "guard"

Alive == life = "running"
Room == Alive /\ Len(objects) < MaxObjects

\* With a function; without; and a guard of a function that is empty, which terminates
\* the program in the end
Construct ==
  /\ Room
  /\ \/ \E f \in Unused : objects' = <<Guard(f, TRUE)>> \o objects /\ due' = due \cup {f}
     \/ objects' = <<Guard(NoFn, FALSE)>> \o objects /\ UNCHANGED due
     \/ objects' = <<Guard(NoFn, TRUE)>> \o objects /\ UNCHANGED due
     \/ \E c, r \in Unused \cup {NoFn} :
          /\ c = r => c = NoFn
          /\ objects' = <<Transaction(c, r)>> \o objects
          /\ due' = due \cup ({c} \ {NoFn})
  /\ UNCHANGED <<ran, life>>

\* The function is swapped with the empty one of the new guard, and invoke_ is copied;
\* the old guard keeps its own.
MoveConstruct ==
  /\ Room
  /\ \E i \in DOMAIN objects :
       /\ IsGuard(i)
       /\ objects' = <<Guard(objects[i].fn, objects[i].invoke)>> \o [objects EXCEPT ![i].fn = NoFn]
  /\ UNCHANGED <<ran, due, life>>

\* A Transaction can be copied, and its functions with it: the copy calls its own
\* in the end, so that what the caller handed over is called once for each copy.
Copy ==
  /\ Room
  /\ \E i \in DOMAIN objects : \E c, r \in Unused \cup {NoFn} :
       LET copy == [Transaction(c, r) EXCEPT !.back = objects[i].back] IN
       /\ ~IsGuard(i)
       /\ c = NoFn <=> objects[i].commit = NoFn
       /\ r = NoFn <=> objects[i].rollback = NoFn
       /\ c = r => c = NoFn
       /\ objects' = <<copy>> \o objects
       /\ due' = due \cup ({IF copy.back THEN r ELSE c} \ {NoFn})
  /\ UNCHANGED <<ran, life>>

\* Mutation: a swap leaves invoke_ as it was.
SwapOnly ==
  /\ Alive
  /\ \E i \in DOMAIN objects, f \in Unused \cup {NoFn} :
       /\ IsGuard(i)
       /\ objects' = [objects EXCEPT ![i].fn = f]
       /\ due' = (due \ {objects[i].fn}) \cup ({f} \ {NoFn})
  /\ UNCHANGED <<ran, life>>

\* What the guard had before is dropped with the parameter.
Swap ==
  /\ Alive
  /\ \E i \in DOMAIN objects, f \in Unused \cup {NoFn} :
       /\ IsGuard(i)
       /\ objects' = [objects EXCEPT ![i].fn = f, ![i].invoke = (f # NoFn)]
       /\ due' = (due \ {objects[i].fn}) \cup ({f} \ {NoFn})
  /\ UNCHANGED <<ran, life>>

Rollback ==
  /\ Alive
  /\ \E i \in DOMAIN objects :
       /\ ~IsGuard(i)
       /\ objects' = [objects EXCEPT ![i].back = TRUE]
       /\ due' = (due \ {objects[i].commit}) \cup ({objects[i].rollback} \ {NoFn})
  /\ UNCHANGED <<ran, life>>

Throw ==
  /\ Alive /\ objects # <<>>
  /\ life' = "unwinding"
  /\ UNCHANGED <<objects, ran, due>>

Runs(f) == ran' = Append(ran, f) /\ life' \in {life, "threw"}

\* An exception is caught somewhere on its way, at the latest when all is left.
Destroy ==
  /\ life \in {"running", "unwinding"} /\ objects # <<>>
  /\ LET o == Head(objects)
         f == IF o.back THEN o.rollback ELSE o.commit
     IN IF o.is = "guard"
        THEN IF ~o.invoke THEN UNCHANGED <<ran, life>>
             ELSE IF o.fn = NoFn THEN life' = "called empty" /\ UNCHANGED ran
             ELSE Runs(o.fn)
        ELSE IF f = NoFn THEN UNCHANGED <<ran, life>> ELSE Runs(f)
  /\ objects' = Tail(objects)
  /\ UNCHANGED due

Catch ==
  /\ life = "unwinding"
  /\ life' = "running"
  /\ UNCHANGED <<objects, ran, due>>

GuardInit == objects = <<>> /\ ran = <<>> /\ due = {} /\ life = "running"

GuardNext == Construct \/ MoveConstruct \/ Copy \/ Swap \/ Rollback \/ Throw \/ Destroy \/ Catch

-----------------------------------------------------------------------------
\* No function object runs twice.  When the objects are gone those have run that were given
\* to a guard and not replaced, also if the guard was moved; and of each transaction
\* that which its last Rollback, or none, calls for, an exception being no Rollback.
\* (A guard that was moved from keeps its invoke_ and has an empty function: to
\* destroy it terminates the program, though scope_exit.h calls the class movable.)
FunctionsRunOnce ==
  /\ \A i, j \in DOMAIN ran : ran[i] = ran[j] => i = j
  /\ ToSet(ran) \subseteq due
  /\ objects = <<>> /\ life \in {"running", "unwinding"} => ToSet(ran) = due

=============================================================================
