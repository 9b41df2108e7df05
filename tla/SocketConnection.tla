-------------------------- MODULE SocketConnection --------------------------
(***************************************************************************)
(* Connections (src/core/socket_connection.cpp): reads of a value with a   *)
(* deadline over a socket that does not block, and closing it.  The peers, *)
(* the descriptors and the bytes under way are the operating system's.     *)
(*                                                                         *)
(* A read is a loop of recv, a sleep of 100 ms when there was nothing, and *)
(* a look at the clock, which may find the deadline passed.  A recv with   *)
(* nothing to take changes nothing; the others, and the deadline, are      *)
(* steps.  A line is read as one value of one byte after the other, each   *)
(* with a deadline of its own.                                             *)
(***************************************************************************)
EXTENDS Integers, Sequences, FiniteSets, FiniteSetsExt, TLC

CONSTANTS
  Clients,      \* the peers; the connection to one is named after it
  Requests,     \* the bytes each of them sends
  Limits,       \* how many descriptors there may be
  MaxLine,      \* max_size of read_line
  SendBuffer,   \* how many bytes the system takes for a client that reads none
  Readers,      \* the clients the values of whose reads decide nothing
  None

VARIABLES
  descriptors,  \* what each number stands for: a client's socket, a port, or None
  outbox,       \* the bytes a client has still to send
  inbox,        \* those that have come, and were not received
  peer,         \* "away", "open", then "closed" or "reset"
  sock,         \* sock_; 0 for INVALID_SOCKET
  open,         \* open_
  call,         \* the read under way, or None
  result,       \* the line that was read last, for the one who asked for it, or None
  received,     \* history: the bytes read from a socket, with what became of each
  closedTwice,  \* history: a connection was closed, and then its object destroyed
  sent,         \* the bytes the system has taken for a client
  taken,        \* how many of them the client has read
  cut           \* history: bytes of a send were not taken

connVars ==
  <<descriptors, outbox, inbox, peer, sock, open, call, result, received, closedTwice, sent, taken, cut>>
sendVars == <<sent, taken, cut>>

Byte == UNION {{Requests[c][i] : i \in DOMAIN Requests[c]} : c \in Clients}
\* A read under way: its kind and size, what read_TYPE has, and what read_line has.
Call == [kind : {"line", "value", "upto"}, size : Nat \ {0}, got : Seq(Byte), line : Seq(Byte)]

ASSUME ConnectionAssumption ==
  /\ None \notin Clients /\ None \notin Call
  /\ Requests \in [Clients -> Seq(Byte)]
  /\ Limits \subseteq Nat /\ SendBuffer \in Nat

-----------------------------------------------------------------------------
(* Peers *)

ClientSends(c) ==
  /\ peer[c] = "open" /\ outbox[c] # <<>>
  /\ inbox' = [inbox EXCEPT ![c] = Append(@, Head(outbox[c]))]
  /\ outbox' = [outbox EXCEPT ![c] = Tail(@)]
  /\ UNCHANGED <<descriptors, peer, sock, open, call, result, received, closedTwice, sendVars>>

ClientLeaves(c) ==
  /\ peer[c] = "open"
  /\ \E how \in {"closed", "reset"} :
       /\ peer' = [peer EXCEPT ![c] = how]
       /\ inbox' = [inbox EXCEPT ![c] = IF how = "reset" THEN <<>> ELSE @]
       /\ outbox' = [outbox EXCEPT ![c] = IF how = "reset" THEN <<>> ELSE @]
  /\ UNCHANGED <<descriptors, sock, open, call, result, received, closedTwice, sendVars>>

ClientReads(c) ==
  /\ peer[c] = "open" /\ taken[c] < Len(sent[c])
  /\ taken' = [taken EXCEPT ![c] = @ + 1]
  /\ UNCHANGED <<descriptors, outbox, inbox, peer, sock, open, call, result, received, closedTwice, sent, cut>>

-----------------------------------------------------------------------------
(* Reading: read_TYPE and its callers *)

\* The kind of a read: "line", "value" for receive and the integers, which throw
\* at the deadline, or "upto".
Begin(c, kind, size) ==
  /\ call' = [call EXCEPT ![c] = [kind |-> kind, size |-> size, got |-> <<>>, line |-> <<>>]]
  /\ result' = [result EXCEPT ![c] = None]

\* The bytes of a call that ends, and what becomes of them
Recorded(c, bytes, fate) ==
  received' = [received EXCEPT ![c] = @ \o [i \in DOMAIN bytes |-> [byte |-> bytes[i], fate |-> fate]]]

Return(c, bytes) ==
  /\ call' = [call EXCEPT ![c] = None]
  /\ result' = [result EXCEPT ![c] = IF c \in Readers THEN None ELSE bytes]
  /\ Recorded(c, bytes, "given")

\* A timeout_error or a socket_closed_error, with the bytes received so far
Throw(c, lost) ==
  /\ call' = [call EXCEPT ![c] = None]
  /\ Recorded(c, lost, "lost")
  /\ UNCHANGED result

GoOn(c, got) ==
  /\ call' = [call EXCEPT ![c].got = got]
  /\ UNCHANGED <<result, received>>

\* An integer of which there is nothing is the end of the stream, unless the
\* connection was closed here; one of which half was read is taken for it.
ValueEnds(c, got) ==
  IF got = <<>> /\ open[c] /\ call[c].kind = "value" THEN Throw(c, <<>>) ELSE Return(c, got)

\* read_TYPE returns what it has.  For a line this is a byte, or nothing at its end.
Ends(c, got) ==
  LET line == call[c].line \o got IN
  CASE call[c].kind # "line" ->
         ValueEnds(c, got)
    [] OTHER ->
         IF ~open[c] THEN Throw(c, line)
         ELSE IF got = <<>> \/ got = <<"\n">> \/ Len(line) > MaxLine THEN Return(c, line)
         ELSE /\ call' = [call EXCEPT ![c].got = <<>>, ![c].line = line]
              /\ UNCHANGED <<result, received>>

\* Whose socket the descriptor stands for by now: it may be another connection's.
Other(c) == IF sock[c] = 0 THEN None ELSE descriptors[sock[c]]
Nothing(c) == Other(c) \in Clients /\ inbox[Other(c)] = <<>> /\ peer[Other(c)] = "open"

Recv(c) ==
  /\ call[c] # None /\ ~Nothing(c)
  /\ LET o == Other(c)
         n == Min({Len(inbox[o]), call[c].size - Len(call[c].got)})
         got == call[c].got \o SubSeq(inbox[o], 1, n)
     IN IF o \notin Clients \/ inbox[o] = <<>>
        THEN Ends(c, call[c].got) /\ UNCHANGED inbox
        ELSE /\ inbox' = [inbox EXCEPT ![o] = SubSeq(@, n + 1, Len(@))]
             /\ IF Len(got) = call[c].size THEN Ends(c, got) ELSE GoOn(c, got)
  /\ UNCHANGED <<descriptors, outbox, peer, sock, open, closedTwice, sendVars>>

\* Mutation: read_line gives up the line when a byte is late.
AtDeadlineForgetful(c) ==
  IF call[c].kind = "line" THEN Throw(c, call[c].line)
  ELSE IF call[c].kind = "value" THEN Throw(c, call[c].got)
  ELSE Return(c, call[c].got)

AtDeadline(c) ==
  IF call[c].kind = "line" THEN Return(c, call[c].line)
  ELSE IF call[c].kind = "value" THEN Throw(c, call[c].got)
  ELSE Return(c, call[c].got)

\* The clock is looked at after a recv that took nothing, or less than was asked for.
Deadline(c) ==
  /\ call[c] # None /\ (Nothing(c) \/ call[c].got # <<>>)
  /\ AtDeadline(c)
  /\ UNCHANGED <<descriptors, outbox, inbox, peer, sock, open, closedTwice, sendVars>>

-----------------------------------------------------------------------------
(* SocketConnection::send *)

\* The socket does not block: it takes what there is room for.
Room(c) ==
  LET o == Other(c)
  IN IF o \notin Clients \/ peer[o] = "reset" THEN 0 ELSE SendBuffer - (Len(sent[o]) - taken[o])

\* Bytes that are not taken are logged; the send returns as if they had been.
SendTakes(c, bytes) ==
  LET n == Min({Len(bytes), Room(c)}) IN
  /\ n > 0
  /\ sent' = [sent EXCEPT ![Other(c)] = @ \o SubSeq(bytes, 1, n)]
  /\ cut' = [cut EXCEPT ![c] = @ \/ n < Len(bytes)]
  /\ UNCHANGED taken

\* A send of which nothing is taken throws: the buffer is full, or the client gone.
SendThrows(c) ==
  /\ Room(c) = 0 \/ (Other(c) \in Clients /\ peer[Other(c)] = "closed")
  /\ cut' = [cut EXCEPT ![c] = TRUE]
  /\ UNCHANGED <<sent, taken>>

-----------------------------------------------------------------------------
(* The object *)

\* SetBlockingMode, which fails for INVALID_SOCKET; the constructor throws then.
SetBlockingMode(d) == d # 0

Constructed(c, d) ==
  /\ sock' = [sock EXCEPT ![c] = d]
  /\ open' = [open EXCEPT ![c] = TRUE]

\* close keeps the number, for the destructor to close it again.
Close(c) ==
  /\ sock[c] # 0 /\ open[c] /\ call[c] = None
  /\ open' = [open EXCEPT ![c] = FALSE]
  /\ descriptors' = [descriptors EXCEPT ![sock[c]] = None]
  /\ UNCHANGED <<outbox, inbox, peer, sock, call, result, received, closedTwice, sendVars>>

\* With CLOSE_SOCKET; the other two exit modes leave the descriptor to the caller.
Destroy(c) ==
  /\ sock[c] # 0 /\ call[c] = None
  /\ descriptors' = [descriptors EXCEPT ![sock[c]] = None]
  /\ sock' = [sock EXCEPT ![c] = 0]
  /\ closedTwice' = (closedTwice \/ ~open[c])
  /\ UNCHANGED <<outbox, inbox, peer, open, call, result, received, sendVars>>

\* Descriptors are given out from the lowest that is free.
Free == {d \in DOMAIN descriptors : descriptors[d] = None}

ConnInit ==
  /\ \E n \in Limits : descriptors = [d \in 1..n |-> None]
  /\ outbox = Requests
  /\ inbox = [c \in Clients |-> <<>>]
  /\ peer = [c \in Clients |-> "away"]
  /\ sock = [c \in Clients |-> 0]
  /\ open = [c \in Clients |-> FALSE]
  /\ call = [c \in Clients |-> None]
  /\ result = [c \in Clients |-> None]
  /\ received = [c \in Clients |-> <<>>]
  /\ closedTwice = FALSE
  /\ sent = [c \in Clients |-> <<>>]
  /\ taken = [c \in Clients |-> 0]
  /\ cut = [c \in Clients |-> FALSE]

=============================================================================
