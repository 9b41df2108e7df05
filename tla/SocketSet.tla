------------------------------ MODULE SocketSet ------------------------------
(***************************************************************************)
(* The accept loop (src/core/net.cpp): SocketSet::add, Run and RunOnce     *)
(* over the ports it listens to.  Connections that are waiting, and the    *)
(* descriptors, are the operating system's (Linux: a client that leaves    *)
(* while it waits is still accepted).                                      *)
(***************************************************************************)
EXTENDS SocketConnection

CONSTANTS
  Ports,
  Timed   \* timeout_seconds > 0

VARIABLES
  listening,  \* socket_port_map_: the port of each listening descriptor
  backlog,    \* the clients waiting at each port
  loop,       \* "adding", "select", "scan"; or how Run ended
  ready,      \* the descriptors in fds that are left to look at
  exit        \* exit_signal

setVars == <<listening, backlog, loop, ready, exit>>

ASSUME PortsAssumption == None \notin Ports /\ Ports \cap Clients = {}

Connect(c) ==
  /\ peer[c] = "away"
  /\ \E d \in DOMAIN listening : backlog' = [backlog EXCEPT ![d] = Append(@, c)]
  /\ peer' = [peer EXCEPT ![c] = "open"]
  /\ UNCHANGED <<descriptors, outbox, inbox, sock, open, call, result, received, closedTwice, sendVars>>
  /\ UNCHANGED <<listening, loop, ready, exit>>

\* CreateListenSocket: a socket that is not bound, as the port is taken, or does not
\* listen, is not closed when it throws.
CreateListenSocket(p, listens) ==
  LET s == Min(Free) IN
  /\ Free # {}
  /\ descriptors' = [descriptors EXCEPT ![s] = p]
  /\ IF listens
     THEN /\ listening' = [d \in DOMAIN listening \cup {s} |-> IF d = s THEN p ELSE listening[d]]
          /\ backlog' = [d \in DOMAIN backlog \cup {s} |-> IF d = s THEN <<>> ELSE backlog[d]]
     ELSE UNCHANGED <<listening, backlog>>

\* The caller may try again.
AddPort(p) ==
  /\ loop = "adding" /\ p \notin {listening[d] : d \in DOMAIN listening}
  /\ CreateListenSocket(p, TRUE) \/ CreateListenSocket(p, FALSE)
  /\ UNCHANGED <<outbox, inbox, peer, sock, open, call, result, received, closedTwice, sendVars>>
  /\ UNCHANGED <<loop, ready, exit>>

SignalExit ==
  /\ loop # "adding" /\ ~exit
  /\ exit' = TRUE
  /\ UNCHANGED <<connVars, listening, backlog, loop, ready>>

-----------------------------------------------------------------------------
\* Run looks at exit_signal before each RunOnce.
RunOnceOrEnd == loop' = IF exit THEN "returned" ELSE "select"

StartRun ==
  /\ loop = "adding" /\ Cardinality(DOMAIN listening) = Cardinality(Ports)
  /\ RunOnceOrEnd
  /\ UNCHANGED <<connVars, listening, backlog, ready, exit>>

Waiting == {d \in DOMAIN listening : backlog[d] # <<>>}

SelectReady ==
  /\ loop = "select" /\ Waiting # {}
  /\ ready' = Waiting
  /\ loop' = "scan"
  /\ UNCHANGED <<connVars, listening, backlog, exit>>

\* Mutation: RunOnce calls select again when its time is over.
SelectAgain ==
  /\ loop = "select" /\ Waiting = {} /\ Timed
  /\ UNCHANGED <<connVars, setVars>>

SelectTimeout ==
  /\ loop = "select" /\ Waiting = {} /\ Timed
  /\ RunOnceOrEnd
  /\ UNCHANGED <<connVars, listening, backlog, ready, exit>>

SelectInterrupted ==
  /\ loop = "select"
  /\ RunOnceOrEnd
  /\ UNCHANGED <<connVars, listening, backlog, ready, exit>>

\* Descriptors are looked at in their order.  Without a free one accept returns -1;
\* it is passed on, and the SocketConnection made of it throws out of the loop: then
\* nobody is connected.
Accept(connected) ==
  /\ loop = "scan" /\ ready # {}
  /\ LET d == Min(ready)
         c == Head(backlog[d])
         s == IF Free = {} THEN 0 ELSE Min(Free)
     IN IF ~SetBlockingMode(s)
        THEN /\ connected = None /\ loop' = "thrown"
             /\ UNCHANGED <<connVars, backlog, ready>>
        ELSE /\ connected = c
             /\ descriptors' = [descriptors EXCEPT ![s] = c]
             /\ backlog' = [backlog EXCEPT ![d] = Tail(@)]
             /\ ready' = ready \ {d}
             /\ Constructed(c, s)
             /\ UNCHANGED <<outbox, inbox, peer, call, result, received, closedTwice, sendVars, loop>>
  /\ UNCHANGED <<listening, exit>>

ScanEnd ==
  /\ loop = "scan" /\ ready = {}
  /\ RunOnceOrEnd
  /\ UNCHANGED <<connVars, listening, backlog, ready, exit>>

Ended == loop \in {"returned", "thrown"}

SetInit ==
  /\ listening = <<>>
  /\ backlog = <<>>
  /\ loop = "adding"
  /\ ready = {}
  /\ exit = FALSE

=============================================================================
