----------------------------- MODULE HttpServer -----------------------------
(***************************************************************************)
(* One request on one connection (src/core/http_server.cpp): the request   *)
(* line and the header lines are read with deadlines of 10 ms, and the     *)
(* response is sent.  A method, a blank and a line's end are one byte each *)
(* here; a path is one or more.                                            *)
(***************************************************************************)
EXTENDS SocketConnection, SequencesExt

CONSTANT Roots  \* the roots in get_, in the order of the map

VARIABLES
  http,   \* what Run is about: "new", "request", "headers", "sending", "over"
  answer, \* the status and path of the response, or None
  todo    \* what SendResponse has still to send: the bytes of each send

httpVars == <<http, answer, todo>>

\* SplitString at blanks, of which it makes no empty parts: where parts begin, the
\* n-th of these places, and the part that begins at i.
Starts(line) == {i \in DOMAIN line : line[i] # " " /\ (i = 1 \/ line[i - 1] = " ")}
Nth(places, n) == CHOOSE i \in places : Cardinality({j \in places : j <= i}) = n
Unbroken(line, i) == {j \in i .. Len(line) : \A k \in i .. j : line[k] # " "}
PartAt(line, i) == SubSeq(line, i, Max(Unbroken(line, i)))
Parts(line) == [n \in 1 .. Cardinality(Starts(line)) |-> PartAt(line, Nth(Starts(line), n))]

Becomes(c, state) == http' = [http EXCEPT ![c] = state]
ReadLine(c) == Begin(c, "line", 1) /\ UNCHANGED received
HasRead(c) == call[c] = None /\ result[c] # None

-----------------------------------------------------------------------------
RunBegins(c) ==
  /\ http[c] = "new"
  /\ ReadLine(c)
  /\ Becomes(c, "request")
  /\ UNCHANGED <<answer, todo>>

\* Mutation: the last part may be missing.
RequestReadShort(c) ==
  /\ http[c] = "request" /\ HasRead(c)
  /\ LET parts == Parts(result[c]) IN
     IF Len(parts) < 2
     THEN Becomes(c, "over") /\ UNCHANGED <<call, result, received, answer>>
     ELSE /\ Becomes(c, "headers")
          /\ answer' = [answer EXCEPT ![c] = [status |-> 0, method |-> parts[1], path |-> parts[2]]]
          /\ ReadLine(c)
  /\ UNCHANGED todo

\* A request line of less than three parts is not answered.
RequestRead(c) ==
  /\ http[c] = "request" /\ HasRead(c)
  /\ LET parts == Parts(result[c]) IN
     IF Len(parts) < 3
     THEN Becomes(c, "over") /\ UNCHANGED <<call, result, received, answer>>
     ELSE /\ Becomes(c, "headers")
          /\ answer' = [answer EXCEPT ![c] = [status |-> 0, method |-> parts[1], path |-> parts[2]]]
          /\ ReadLine(c)
  /\ UNCHANGED todo

\* The first of the roots that the path begins with has the handler.
Status(request) ==
  IF request.method # <<"GET">> THEN 405
  ELSE IF \E i \in DOMAIN Roots : IsPrefix(Roots[i], request.path) THEN 200 ELSE 404

\* SendResponse's sends: the status, the other headers, which are lines like it, and
\* the text if there is one.  The bytes are numbered.
Response(status) == IF status = 200 THEN << <<1>>, <<2, 3>>, <<4>> >> ELSE << <<1>>, <<2, 3>> >>

\* The headers end where no byte comes in time, and nowhere else.
HeaderRead(c) ==
  /\ http[c] = "headers" /\ HasRead(c)
  /\ IF result[c] # <<>>
     THEN ReadLine(c) /\ UNCHANGED httpVars
     ELSE /\ Becomes(c, "sending")
          /\ answer' = [answer EXCEPT ![c].status = Status(answer[c])]
          /\ todo' = [todo EXCEPT ![c] = Response(Status(answer[c]))]
          /\ UNCHANGED <<call, result, received>>

Send(c) ==
  /\ http[c] = "sending"
  /\ SendTakes(c, Head(todo[c]))
  /\ todo' = [todo EXCEPT ![c] = Tail(@)]
  /\ IF Len(todo[c]) = 1 THEN Becomes(c, "over") ELSE UNCHANGED http
  /\ UNCHANGED <<call, result, received, answer>>

\* The exception leaves Run, and the thread is done with the connection.
SendFails(c) ==
  /\ http[c] = "sending"
  /\ SendThrows(c)
  /\ Becomes(c, "over")
  /\ UNCHANGED <<call, result, received, answer, todo>>

Run(c) ==
  \/ (RunBegins(c) \/ RequestRead(c) \/ HeaderRead(c)) /\ UNCHANGED sendVars
  \/ Send(c) \/ SendFails(c)

HttpInit ==
  /\ http = [c \in Clients |-> "idle"]
  /\ answer = [c \in Clients |-> None]
  /\ todo = [c \in Clients |-> <<>>]

=============================================================================
