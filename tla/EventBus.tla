------------------------------ MODULE EventBus ------------------------------
(***************************************************************************)
(* Handlers of events (src/core/eventbus.h).  handlers_ is an unordered    *)
(* multimap: one list of nodes, in which those of a type are next to each  *)
(* other, and invoke walks over a part of it while handlers may add to it  *)
(* and invoke again.                                                       *)
(*                                                                         *)
(* Where a node is put among or between the types is up to the library.    *)
(* The list is not hashed anew below 14 handlers (libstdc++); a handler    *)
(* that adds the 14th would leave the walk with invalid iterators.         *)
(***************************************************************************)
EXTENDS Integers, Sequences, FiniteSets, SequencesExt

CONSTANTS
  EventTypes,
  Handlers,    \* the functions that may be added, each once
  MaxInvokes   \* bound: how often invoke is called

VARIABLES
  list,     \* handlers_, in the order of the list: what is added, and for which type
  walks,    \* the calls of invoke under way, the innermost first
  invokes   \* how many there have been

busVars == <<list, walks, invokes>>

End == 0  \* past the last node of the list

ASSUME EndAssumption == End \notin Handlers

OfType(t) == {i \in DOMAIN list : list[i].type = t}
Index(h) == CHOOSE i \in DOMAIN list : list[i].handler = h
HandlerAt(i) == IF i \in DOMAIN list THEN list[i].handler ELSE End

\* The places for a node: among those of its type, or between two types.
Places(t) ==
  IF OfType(t) # {}
  THEN {i \in 1 .. Len(list) + 1 : i \in OfType(t) \/ i - 1 \in OfType(t)}
  ELSE {i \in 1 .. Len(list) + 1 :
          i = 1 \/ i = Len(list) + 1 \/ list[i].type # list[i - 1].type}

\* Only the program itself, or a handler that runs, does anything.
Running == walks # <<>> => Head(walks).in

\* Without arguments a handler takes any event, otherwise those of its type.
AddHandler ==
  /\ Running
  /\ \E h \in Handlers \ {list[i].handler : i \in DOMAIN list}, t \in EventTypes,
        any \in BOOLEAN : \E i \in Places(t) :
       list' = InsertAt(list, i, [handler |-> h, type |-> t, any |-> any])
  /\ UNCHANGED <<walks, invokes>>

\* equal_range: the first node of the type, and the one after its last
Invoke ==
  /\ Running /\ invokes < MaxInvokes
  /\ \E t \in EventTypes :
       LET of == OfType(t)
           first == CHOOSE i \in of : i - 1 \notin of
           last == CHOOSE i \in of : i + 1 \notin of
       IN walks' = <<[type |-> t, in |-> FALSE, called |-> <<>>, before |-> {list[i].handler : i \in of},
                      at |-> IF of = {} THEN End ELSE HandlerAt(first),
                      end |-> IF of = {} THEN End ELSE HandlerAt(last + 1)]>> \o walks
  /\ invokes' = invokes + 1
  /\ UNCHANGED list

\* An event of another type is not cast, which is logged: the handler is not called.
CallHandler ==
  /\ walks # <<>> /\ ~Head(walks).in /\ Head(walks).at # Head(walks).end
  /\ LET w == Head(walks)
         node == list[Index(w.at)]
         taken == node.any \/ node.type = w.type
     IN walks' = [walks EXCEPT ![1].in = TRUE,
                               ![1].called = IF taken THEN Append(@, w.at) ELSE @]
  /\ UNCHANGED <<list, invokes>>

\* Mutation: the walk begins again when the list has grown.
HandlerReturnsAgain ==
  /\ walks # <<>> /\ Head(walks).in
  /\ LET w == Head(walks)
         again == Cardinality(OfType(w.type)) > Cardinality(w.before)
     IN walks' = [walks EXCEPT ![1].in = FALSE,
                    ![1].at = IF again /\ Len(w.called) = 1 THEN list[1].handler
                              ELSE HandlerAt(Index(w.at) + 1)]
  /\ UNCHANGED <<list, invokes>>

\* The node after this one is looked up when the handler has returned.
HandlerReturns ==
  /\ walks # <<>> /\ Head(walks).in
  /\ walks' = [walks EXCEPT ![1].in = FALSE, ![1].at = HandlerAt(Index(@) + 1)]
  /\ UNCHANGED <<list, invokes>>

\* Any other exception ends invoke, and the handler that called it if nothing
\* catches it there.
HandlerThrows ==
  /\ walks # <<>> /\ Head(walks).in
  /\ \E n \in DOMAIN walks : walks' = SubSeq(walks, n + 1, Len(walks))
  /\ UNCHANGED <<list, invokes>>

InvokeReturns ==
  /\ walks # <<>> /\ ~Head(walks).in /\ Head(walks).at = Head(walks).end
  /\ walks' = Tail(walks)
  /\ UNCHANGED <<list, invokes>>

BusInit == list = <<>> /\ walks = <<>> /\ invokes = 0

BusNext == AddHandler \/ Invoke \/ CallHandler \/ HandlerReturns \/ HandlerThrows \/ InvokeReturns

-----------------------------------------------------------------------------
\* An event reaches each handler that was there for its type when invoke began, and
\* none twice, while handlers add others and invoke events of their own.  (It may
\* reach one that was added meanwhile, even one without arguments for another type.)
HandlersCalledOnce ==
  \A n \in DOMAIN walks :
    LET w == walks[n] IN
    /\ \A i, j \in DOMAIN w.called : w.called[i] = w.called[j] => i = j
    /\ ~w.in /\ w.at = w.end => w.before \subseteq ToSet(w.called)

=============================================================================
