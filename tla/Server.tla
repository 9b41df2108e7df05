------------------------------- MODULE Server -------------------------------
(***************************************************************************)
(* A server: the accept loop gives each connection to a thread of its own, *)
(* which runs an HttpServer on it or reads values from it, and destroys it *)
(* (src/core/net.cpp, socket_connection.cpp, http_server.cpp).             *)
(*                                                                         *)
(* The function that gives the connections to threads is not in the        *)
(* repository; net.h recommends it.                                        *)
(***************************************************************************)
EXTENDS HttpServer, SocketSet

CONSTANTS
  Reads   \* the reads that are tried on Readers: their kinds and sizes

\* read_line reads a byte at a time.
ASSUME ReadsAssumption ==
  \A r \in Reads : /\ r.kind \in {"line", "value", "upto"} /\ r.size \in Nat \ {0}
                   /\ r.kind = "line" => r.size = 1

vars == <<connVars, httpVars, setVars>>

Init == ConnInit /\ HttpInit /\ SetInit

PeerStep(c) ==
  \/ Connect(c) /\ UNCHANGED httpVars
  \/ (ClientSends(c) \/ ClientReads(c) \/ ClientLeaves(c)) /\ UNCHANGED <<httpVars, setVars>>

Spawned(c) ==
  IF c = None THEN UNCHANGED httpVars
  ELSE /\ Becomes(c, IF c \in Readers THEN "reading" ELSE "new")
       /\ UNCHANGED <<answer, todo>>

LoopStep ==
  \/ (SelectReady \/ SelectTimeout \/ ScanEnd) /\ UNCHANGED httpVars
  \/ \E c \in Clients \cup {None} : Accept(c) /\ Spawned(c)

OtherStep ==
  /\ (\E p \in Ports : AddPort(p)) \/ StartRun \/ SelectInterrupted \/ SignalExit
  /\ UNCHANGED httpVars

BeginRead(c) ==
  /\ http[c] = "reading" /\ sock[c] # 0 /\ call[c] = None /\ open[c]
  /\ \E r \in Reads : Begin(c, r.kind, r.size)
  /\ UNCHANGED <<descriptors, outbox, inbox, peer, sock, open, received, closedTwice, sendVars, httpVars, setVars>>

WorkerStep(c) ==
  \/ /\ Run(c)
     /\ UNCHANGED <<descriptors, outbox, inbox, peer, sock, open, closedTwice, setVars>>
  \/ (Recv(c) \/ Deadline(c)) /\ UNCHANGED <<httpVars, setVars>>
  \/ http[c] = "over" /\ Destroy(c) /\ UNCHANGED <<httpVars, setVars>>

ReaderStep(c) ==
  /\ http[c] = "reading"
  /\ BeginRead(c) \/ ((Close(c) \/ Destroy(c)) /\ UNCHANGED <<httpVars, setVars>>)

Next ==
  \/ LoopStep \/ OtherStep
  \/ \E c \in Clients : PeerStep(c) \/ WorkerStep(c) \/ ReaderStep(c)

\* The threads run and deadlines pass; what the clients do, signals and exits may
\* never happen.
FairSpec == Init /\ [][Next]_vars /\ WF_vars(LoopStep) /\ \A c \in Clients : WF_vars(WorkerStep(c))

-----------------------------------------------------------------------------
(* Properties *)

Bytes(c) == [i \in DOMAIN received[c] |-> received[c][i].byte]

\* On each connection the bytes are received in order, each once, whatever lines and
\* values they are cut into by late bytes, full lines and ends of streams; none is
\* lost, but those of a value whose deadline passes.  Lines lose none.  A response is
\* sent in order and whole, unless a send met a full buffer, or nobody: then a part
\* of it may be missing in the middle, and what follows is sent all the same.  (A
\* connection that is closed and then destroyed may take another's descriptor from
\* it.)
StreamInOrder ==
  \A c \in Clients :
    peer[c] # "reset" /\ ~closedTwice =>
      /\ Bytes(c) \o (IF call[c] = None THEN <<>> ELSE call[c].line \o call[c].got)
           \o inbox[c] \o outbox[c] = Requests[c]
      /\ \A i \in DOMAIN received[c] : received[c][i].fate = "lost" => c \in Readers
      /\ \A i, j \in DOMAIN sent[c] : i < j => sent[c][i] < sent[c][j]
      /\ http[c] \in {"sending", "over"} /\ answer[c] # None /\ ~cut[c] =>
           sent[c] \o FlattenSeq(todo[c]) = FlattenSeq(Response(answer[c].status))

\* A response is for the method and the whole path of the client's request line,
\* although the line that was read may be cut at any byte, as long as connections
\* have their descriptors for themselves.
PathIsWhole ==
  \A c \in Clients :
    answer[c] # None /\ ~closedTwice =>
      LET request == Parts(Requests[c]) IN
      /\ answer[c].method = request[1] /\ answer[c].path = request[2]
      /\ answer[c].status = 200 =>
           \E i \in DOMAIN Roots : IsPrefix(Roots[i], request[2])

\* A loop that is told to exit returns, or has thrown, though clients keep coming;
\* and a connection with an HttpServer is closed in the end, whatever its client
\* does or fails to do.
ServersEnd ==
  /\ Timed => (exit ~> Ended)
  /\ \A c \in Clients \ Readers : http[c] = "new" ~> sock[c] = 0

=============================================================================
