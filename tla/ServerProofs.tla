---------------------------- MODULE ServerProofs ----------------------------
(***************************************************************************)
(* Theorems about Server, for any clients, requests, numbers of            *)
(* descriptors, ports and room for what is sent: on each connection the    *)
(* bytes are received in order, each once, and the response is sent in     *)
(* order; and an answer is for the whole path of the request line.         *)
(*                                                                         *)
(* An open connection has its descriptor for itself, until one is closed   *)
(* and then destroyed; and the bytes of a request are at each time those   *)
(* received, those of the read under way, those that have come and those   *)
(* the client has still to send, in this order.  So the line an HttpServer *)
(* reads first is what the request begins with, also where the client      *)
(* resets the connection; and if it has three parts, its two first are the *)
(* request's: each is followed by a blank.                                 *)
(***************************************************************************)
EXTENDS Server, TLAPS, FiniteSetTheorems, SequenceTheorems, WellFoundedInduction

Fate == {"given", "lost"}
Received == [byte : Byte, fate : Fate]
HttpStates == {"idle", "new", "request", "headers", "sending", "over", "reading"}

DescriptorTypes ==
  \E n \in Limits : descriptors \in [1 .. n -> Clients \cup Ports \cup {None}]

TypeOK ==
  /\ DescriptorTypes
  /\ outbox \in [Clients -> Seq(Byte)] /\ inbox \in [Clients -> Seq(Byte)]
  /\ peer \in [Clients -> {"away", "open", "closed", "reset"}]
  /\ sock \in [Clients -> {0} \cup DOMAIN descriptors] /\ open \in [Clients -> BOOLEAN]
  /\ call \in [Clients -> Call \cup {None}] /\ DOMAIN result = Clients
  /\ received \in [Clients -> Seq(Received)]
  /\ sent \in [Clients -> Seq(Nat)] /\ taken \in [Clients -> Nat] /\ cut \in [Clients -> BOOLEAN]
  /\ http \in [Clients -> HttpStates] /\ DOMAIN answer = Clients /\ DOMAIN todo = Clients
  /\ DOMAIN listening \subseteq DOMAIN descriptors
  /\ backlog \in [DOMAIN listening -> Seq(Clients)]

\* An open connection has its descriptor for itself.
Owned == \A c \in Clients : sock[c] # 0 /\ open[c] => descriptors[sock[c]] = c

\* Who waits at a port waits there once, and nowhere else.
Queued ==
  /\ \A d \in DOMAIN backlog : \A i \in DOMAIN backlog[d] :
       /\ peer[backlog[d][i]] # "away" /\ http[backlog[d][i]] = "idle"
       /\ \A e \in DOMAIN backlog : \A j \in DOMAIN backlog[e] :
            backlog[d][i] = backlog[e][j] => d = e /\ i = j
  /\ ready \subseteq Waiting
  /\ loop = "adding" => ready = {}

\* Where a connection's object and its thread are.
Stage(c) ==
  /\ peer[c] = "away" => http[c] = "idle"
  /\ http[c] = "idle" => sock[c] = 0 /\ ~open[c]
  /\ http[c] \in {"new", "request", "headers", "sending"} => sock[c] # 0 /\ open[c]
  /\ http[c] = "over" /\ sock[c] # 0 => open[c]
  /\ http[c] = "reading" => c \in Readers
  /\ http[c] \notin {"idle", "reading"} => c \notin Readers
  /\ http[c] \in {"idle", "new", "request"} => answer[c] = None
  /\ http[c] = "headers" => "status" \in DOMAIN answer[c]

\* The read under way.  It is of a line, unless the connection is read for values.
Reading(c) ==
  call[c] # None =>
    /\ http[c] \in {"request", "headers", "reading"} /\ sock[c] # 0 /\ open[c]
    /\ Len(call[c].got) < call[c].size
    /\ call[c].kind = "line" => call[c].size = 1
    /\ call[c].kind # "line" => call[c].line = <<>>
    /\ c \notin Readers => call[c].kind = "line"

\* The bytes of the read under way
Held(c) == IF call[c] = None THEN <<>> ELSE call[c].line \o call[c].got

Stream(c) ==
  /\ peer[c] # "reset" => Bytes(c) \o Held(c) \o inbox[c] \o outbox[c] = Requests[c]
  /\ \A i \in DOMAIN received[c] : received[c][i].fate = "lost" => c \in Readers

\* How far a response has come: what is left of it, and what was sent; and where it
\* may have come when its second send was cut.
Stations(status) ==
  IF status = 200
  THEN { << << <<1>>, <<2, 3>>, <<4>> >>, <<>> >>, << << <<2, 3>>, <<4>> >>, <<1>> >>,
         << << <<4>> >>, <<1, 2, 3>> >>, << <<>>, <<1, 2, 3, 4>> >> }
  ELSE { << << <<1>>, <<2, 3>> >>, <<>> >>, << << <<2, 3>> >>, <<1>> >>, << <<>>, <<1, 2, 3>> >> }
CutStations == { << << <<4>> >>, <<1, 2>> >>, << <<>>, <<1, 2, 4>> >>, << <<>>, <<1, 2>> >> }

Responding(c) ==
  /\ http[c] \notin {"sending", "over"} => sent[c] = <<>> /\ todo[c] = <<>> /\ ~cut[c]
  /\ http[c] \in {"sending", "over"} =>
       \/ answer[c] = None /\ sent[c] = <<>> /\ todo[c] = <<>>
       \/ <<todo[c], sent[c]>> \in Stations(answer[c].status)
       \/ <<todo[c], sent[c]>> \in CutStations /\ cut[c]
  /\ http[c] = "sending" => todo[c] # <<>>

ClientOK(c) == Stage(c) /\ Reading(c) /\ Stream(c) /\ Responding(c)

ServerInv == TypeOK /\ Owned /\ Queued /\ \A c \in Clients : ClientOK(c)
IInv == closedTwice \/ ServerInv

-----------------------------------------------------------------------------
(* Numbers and sequences *)

\* A set of naturals that is not empty has its Min.
LEMMA MinIn ==
  ASSUME NEW S \in SUBSET Nat, S # {}
  PROVE  Min(S) \in S /\ \A y \in S : Min(S) <= y
<1>1. PICK x \in S : \A y \in S : ~ (<<y, x>> \in OpToRel(<, Nat))
  BY NatLessThanWellFounded, WFMin
<1>2. \A y \in S : ~ (y < x)
  BY <1>1 DEF OpToRel
<1>3. \A y \in S : x <= y
  BY <1>2
<1>4. QED
  BY <1>3 DEF Min

LEMMA MinOfTwo ==
  ASSUME NEW m \in Int, NEW n \in Int
  PROVE  Min({m, n}) = IF m <= n THEN m ELSE n
<1>1. CASE m <= n
  <2>1. m \in {m, n} /\ \A y \in {m, n} : m <= y
    BY <1>1
  <2>2. \A x \in {m, n} : (\A y \in {m, n} : x <= y) => x = m
    BY <1>1
  <2>3. QED
    BY <1>1, <2>1, <2>2 DEF Min
<1>2. CASE n < m
  <2>1. n \in {m, n} /\ \A y \in {m, n} : n <= y
    BY <1>2
  <2>2. \A x \in {m, n} : (\A y \in {m, n} : x <= y) => x = n
    BY <1>2
  <2>3. QED
    BY <1>2, <2>1, <2>2 DEF Min
<1>3. QED
  BY <1>1, <1>2

LEMMA Concatenated ==
  \A s, t \in Seq(Byte) : s \o t \in Seq(Byte)
  BY ConcatProperties

Regroups(b, l, g) == (b \o l) \o g = b \o (l \o g)

LEMMA ThreeInARow == \A b, l, g \in Seq(Byte) : Regroups(b, l, g)
  BY ConcatAssociative DEF Regroups

Joined(b, l, g, i) == (b \o (l \o g)) \o i

\* What a recv takes moves from the bytes that have come to those held.
LEMMA Regroup ==
  ASSUME NEW b \in Seq(Byte), NEW l \in Seq(Byte), NEW g \in Seq(Byte), NEW t \in Seq(Byte),
         NEW r \in Seq(Byte)
  PROVE  Joined(b, l, g \o t, r) = Joined(b, l, g, t \o r)
<1>1. Regroups(l, g, t)
  BY ThreeInARow
<1>2. PICK h : h = l \o g
  OBVIOUS
<1>3. h \in Seq(Byte)
  BY <1>2, ConcatProperties
<1>4. Regroups(b, h, t)
  BY <1>3, ThreeInARow
<1>5. PICK e : e = b \o h
  OBVIOUS
<1>6. e \in Seq(Byte)
  BY <1>3, <1>5, ConcatProperties
<1>7. Regroups(e, t, r)
  BY <1>6, ThreeInARow
<1>8. QED
  BY <1>1, <1>2, <1>4, <1>5, <1>7 DEF Joined, Regroups

\* A recv takes n of the bytes that have come.
LEMMA Taking ==
  ASSUME NEW i \in Seq(Byte), NEW n \in 0 .. Len(i)
  PROVE  /\ SubSeq(i, 1, n) \in Seq(Byte) /\ Len(SubSeq(i, 1, n)) = n
         /\ SubSeq(i, n + 1, Len(i)) \in Seq(Byte)
         /\ SubSeq(i, 1, n) \o SubSeq(i, n + 1, Len(i)) = i
<1>1. Len(i) \in Nat /\ n \in Int /\ \A k \in 1 .. Len(i) : i[k] \in Byte
  BY ElementOfSeq
<1>2. SubSeq(i, 1, n) \in Seq(Byte) /\ Len(SubSeq(i, 1, n)) = n
  <2>1. \A k \in 1 .. n : i[k] \in Byte
    BY <1>1
  <2>2. QED
    BY <1>1, <2>1, SubSeqProperties
<1>3. SubSeq(i, n + 1, Len(i)) \in Seq(Byte)
  <2>1. \A k \in n + 1 .. Len(i) : i[k] \in Byte
    BY <1>1
  <2>2. QED
    BY <1>1, <2>1, SubSeqProperties
<1>4. SubSeq(i, 1, n) \o SubSeq(i, n + 1, Len(i)) = SubSeq(i, 1, Len(i))
  <2>1. 1 \in 1 .. Len(i) + 1 /\ n \in (1 - 1) .. Len(i) /\ Len(i) \in n .. Len(i)
    BY <1>1
  <2>2. QED
    BY <2>1, ConcatAdjacentSubSeq
<1>5. QED
  BY <1>2, <1>3, <1>4, SubSeqFull

Row(a, i, o) == a \o i \o o

\* What a client sends moves from the bytes still to send to those that have come.
LEMMA Sending ==
  ASSUME NEW a \in Seq(Byte), NEW i \in Seq(Byte), NEW o \in Seq(Byte), o # <<>>
  PROVE  /\ Append(i, Head(o)) \in Seq(Byte) /\ Tail(o) \in Seq(Byte)
         /\ Row(a, Append(i, Head(o)), Tail(o)) = Row(a, i, o)
<1>1. Head(o) \in Byte /\ Tail(o) \in Seq(Byte)
  BY HeadTailProperties
<1>2. PICK h \in Byte : h = Head(o)
  BY <1>1
<1>3. PICK t \in Seq(Byte) : t = Tail(o)
  BY <1>1
<1>4. Append(i, h) \in Seq(Byte) /\ Append(i, h) = i \o <<h>>
  BY AppendIsConcat, AppendProperties
<1>5. <<h>> \o t = o
  BY <1>2, <1>3
<1>6. PICK u : u = <<h>>
  OBVIOUS
<1>7. u \in Seq(Byte)
  BY <1>6
<1>8. Regroups(a, i, u)
  BY <1>7, ThreeInARow
<1>9. PICK e : e = a \o i
  OBVIOUS
<1>10. e \in Seq(Byte)
  BY <1>9, ConcatProperties
<1>11. Regroups(e, u, t)
  BY <1>7, <1>10, ThreeInARow
<1>12. QED
  BY <1>2, <1>3, <1>4, <1>5, <1>6, <1>8, <1>9, <1>11 DEF Row, Regroups

\* The bytes of what was received, and bytes with their fate
ByteOf(r) == [i \in DOMAIN r |-> r[i].byte]
Marked(s, f) == [i \in DOMAIN s |-> [byte |-> s[i], fate |-> f]]

LEMMA BytesOf ==
  ASSUME NEW r \in Seq(Received)
  PROVE  /\ ByteOf(r) \in Seq(Byte) /\ Len(ByteOf(r)) = Len(r)
         /\ \A i \in 1 .. Len(r) : ByteOf(r)[i] = r[i].byte
<1> DEFINE b == [i \in DOMAIN r |-> r[i].byte]
<1>1. PICK n \in Nat : n = Len(r) /\ DOMAIN r = 1 .. n /\ \A i \in 1 .. n : r[i] \in Received
  BY LenProperties, ElementOfSeq
<1>2. b \in [1 .. n -> Byte]
  BY <1>1 DEF Received
<1>3. \A i \in 1 .. n : b[i] = r[i].byte
  BY <1>1
<1> HIDE DEF b
<1>4. b \in Seq(Byte)
  BY <1>2, SeqDef
<1>5. DOMAIN b = 1 .. n
  BY <1>2
<1>6. Len(b) = n
  BY <1>1, <1>4, <1>5, LenProperties
<1>7. QED
  BY <1>1, <1>3, <1>4, <1>6 DEF b, ByteOf

\* The bytes of a call that ends are received after the others, with their fate.
LEMMA Recording ==
  ASSUME NEW r \in Seq(Received), NEW s \in Seq(Byte), NEW f \in Fate,
         NEW q, q = r \o Marked(s, f)
  PROVE  /\ q \in Seq(Received) /\ ByteOf(q) = ByteOf(r) \o s
         /\ \A i \in DOMAIN q : q[i].fate = "lost" =>
              f = "lost" \/ \E j \in DOMAIN r : r[j].fate = "lost"
<1> DEFINE w == Marked(s, f)
           rb == ByteOf(r)
           qb == ByteOf(q)
<1>1. PICK k \in Nat : k = Len(s) /\ DOMAIN s = 1 .. k /\ \A i \in 1 .. k : s[i] \in Byte
  BY LenProperties, ElementOfSeq
<1>2. PICK n \in Nat : n = Len(r) /\ DOMAIN r = 1 .. n /\ \A i \in 1 .. n : r[i] \in Received
  BY LenProperties, ElementOfSeq
<1>3. w \in Seq(Received) /\ Len(w) = k
  <2>1. \A i \in 1 .. k : [byte |-> s[i], fate |-> f] \in Received
    BY <1>1 DEF Received
  <2>2. w \in [1 .. k -> Received]
    BY <1>1, <2>1 DEF Marked
  <2> HIDE DEF w
  <2>3. w \in Seq(Received)
    BY <2>2, SeqDef
  <2>4. Len(w) = k
    BY <2>2, <2>3, LenProperties
  <2>5. QED
    BY <2>3, <2>4
<1>4. \A i \in 1 .. k : w[i].byte = s[i] /\ w[i].fate = f
  BY <1>1 DEF Marked
<1>5. q = r \o w
  OBVIOUS
<1> HIDE DEF w
<1>6. q \in Seq(Received) /\ Len(q) = n + k
  BY <1>2, <1>3, <1>5, ConcatProperties
<1>7. \A i \in 1 .. n + k : q[i] = IF i <= n THEN r[i] ELSE w[i - n]
  <2>1. \A i \in 1 .. Len(r) + Len(w) : (r \o w)[i] = IF i <= Len(r) THEN r[i] ELSE w[i - Len(r)]
    BY <1>3, ConcatProperties
  <2>2. QED
    BY <2>1, <1>2, <1>3, <1>5
<1>8. DOMAIN q = 1 .. n + k
  BY <1>6, LenProperties
<1>9. rb \in Seq(Byte) /\ Len(rb) = n /\ \A i \in 1 .. n : rb[i] = r[i].byte
  BY <1>2, BytesOf
<1>10. qb \in Seq(Byte) /\ Len(qb) = n + k /\ \A i \in 1 .. n + k : qb[i] = q[i].byte
  BY <1>6, BytesOf
<1> HIDE DEF rb, qb
<1>11. rb \o s \in Seq(Byte) /\ Len(rb \o s) = n + k
  BY <1>1, <1>9, ConcatProperties
<1>12. \A i \in 1 .. n + k : (rb \o s)[i] = IF i <= n THEN rb[i] ELSE s[i - n]
  BY <1>1, <1>9, ConcatProperties
<1>13. \A i \in 1 .. n + k : qb[i] = (rb \o s)[i] /\ q[i].fate = IF i <= n THEN r[i].fate ELSE f
  <2> SUFFICES ASSUME NEW i \in 1 .. n + k
               PROVE  qb[i] = (rb \o s)[i] /\ q[i].fate = IF i <= n THEN r[i].fate ELSE f
    OBVIOUS
  <2>1. CASE i <= n
    <3>1. i \in 1 .. n
      BY <2>1
    <3>2. q[i] = r[i] /\ (rb \o s)[i] = rb[i]
      BY <2>1, <1>7, <1>12
    <3>3. QED
      BY <2>1, <3>1, <3>2, <1>9, <1>10
  <2>2. CASE ~ (i <= n)
    <3>1. i - n \in 1 .. k
      BY <2>2
    <3>2. q[i] = w[i - n] /\ (rb \o s)[i] = s[i - n]
      BY <2>2, <1>7, <1>12
    <3>3. w[i - n].byte = s[i - n] /\ w[i - n].fate = f
      BY <3>1, <1>4
    <3>4. QED
      BY <2>2, <3>2, <3>3, <1>10
  <2>3. QED
    BY <2>1, <2>2
<1>14. qb = rb \o s
  BY <1>10, <1>11, <1>13, SeqEqual
<1>15. \A i \in DOMAIN q : q[i].fate = "lost" =>
         f = "lost" \/ \E j \in DOMAIN r : r[j].fate = "lost"
  <2> SUFFICES ASSUME NEW i \in 1 .. n + k, q[i].fate = "lost", f # "lost"
               PROVE  \E j \in DOMAIN r : r[j].fate = "lost"
    BY <1>8
  <2>1. i <= n /\ r[i].fate = "lost"
    BY <1>13
  <2>2. i \in DOMAIN r
    BY <1>2, <2>1
  <2>3. QED
    BY <2>1, <2>2
<1>16. QED
  BY <1>6, <1>9, <1>14, <1>15 DEF rb, qb

-----------------------------------------------------------------------------
(* Reads *)

\* What a read of c comes to that has got now, after what it has of a line: it goes
\* on or it ends, and the bytes received and held are those of before and the new.
ReadTo(c, got) ==
  /\ call' \in [Clients -> Call \cup {None}] /\ DOMAIN result' = Clients
  /\ received' \in [Clients -> Seq(Received)]
  /\ \A b \in Clients \ {c} : call'[b] = call[b] /\ received'[b] = received[b]
  /\ call'[c] # None =>
       /\ Len(call'[c].got) < call'[c].size
       /\ call'[c].kind = call[c].kind /\ call'[c].size = call[c].size
       /\ call'[c].kind # "line" => call'[c].line = <<>>
  /\ Bytes(c)' \in Seq(Byte) /\ Held(c)' \in Seq(Byte)
  /\ Bytes(c)' \o Held(c)' = Bytes(c) \o (call[c].line \o got)
  /\ \A i \in DOMAIN received'[c] : received'[c][i].fate = "lost" => c \in Readers

LEMMA CallOf ==
  ASSUME TypeOK, NEW c \in Clients, call[c] # None
  PROVE  /\ call[c] \in Call /\ call[c].kind \in {"line", "value", "upto"}
         /\ call[c].size \in Nat \ {0} /\ call[c].got \in Seq(Byte) /\ call[c].line \in Seq(Byte)
<1>1. call[c] \in Call
  BY DEF TypeOK
<1>2. QED
  BY <1>1 DEF Call

LEMMA ReadEnds ==
  ASSUME TypeOK, NEW c \in Clients, Stream(c), call[c] # None,
         NEW got, NEW bytes \in Seq(Byte), bytes = call[c].line \o got, NEW fate \in Fate,
         fate = "lost" => c \in Readers,
         call' = [call EXCEPT ![c] = None], Recorded(c, bytes, fate), DOMAIN result' = Clients
  PROVE  ReadTo(c, got)
<1>1. call' \in [Clients -> Call \cup {None}] /\ call'[c] = None
  BY DEF TypeOK
<1>2. \A b \in Clients \ {c} : call'[b] = call[b]
  BY DEF TypeOK
<1>3. PICK r \in Seq(Received) : r = received[c]
  BY DEF TypeOK
<1>4. PICK q : q = r \o Marked(bytes, fate)
  OBVIOUS
<1>5. received' = [received EXCEPT ![c] = q]
  BY <1>3, <1>4 DEF Recorded, Marked
<1>6. /\ q \in Seq(Received) /\ ByteOf(q) = ByteOf(r) \o bytes
      /\ \A i \in DOMAIN q : q[i].fate = "lost" =>
           fate = "lost" \/ \E j \in DOMAIN r : r[j].fate = "lost"
  BY <1>4, Recording
<1>7. received'[c] = q /\ received' \in [Clients -> Seq(Received)]
  BY <1>5, <1>6 DEF TypeOK
<1>8. \A b \in Clients \ {c} : received'[b] = received[b]
  BY <1>5 DEF TypeOK
<1>9. Held(c)' = <<>> /\ Held(c)' \in Seq(Byte)
  BY <1>1 DEF Held
<1>10. Bytes(c) = ByteOf(r) /\ Bytes(c)' = ByteOf(q)
  BY <1>3, <1>7 DEF Bytes, ByteOf
<1>11. Bytes(c)' = Bytes(c) \o bytes /\ Bytes(c)' \in Seq(Byte)
  <2>1. PICK x \in Seq(Byte) : x = ByteOf(r)
    BY BytesOf
  <2>2. PICK y \in Seq(Byte) : y = ByteOf(q) /\ y = x \o bytes
    BY <1>6, <2>1, ConcatProperties
  <2>3. QED
    BY <1>10, <2>1, <2>2
<1>12. Bytes(c)' \o <<>> = Bytes(c)'
  BY <1>11, ConcatEmptySeq
<1>13. \A j \in DOMAIN r : r[j].fate = "lost" => c \in Readers
  BY <1>3 DEF Stream
<1>14. \A i \in DOMAIN received'[c] : received'[c][i].fate = "lost" => c \in Readers
  BY <1>6, <1>7, <1>13
<1>15. Bytes(c)' \o Held(c)' = Bytes(c) \o (call[c].line \o got)
  BY <1>9, <1>11, <1>12
<1>16. QED
  BY <1>1, <1>2, <1>7, <1>8, <1>9, <1>11, <1>14, <1>15 DEF ReadTo

LEMMA ReadGoesOn ==
  ASSUME TypeOK, NEW c \in Clients, Stream(c), call[c] # None,
         NEW got \in Seq(Byte), NEW g \in Seq(Byte), NEW l \in Seq(Byte),
         l \o g = call[c].line \o got, Len(g) < call[c].size,
         call[c].kind # "line" => l = <<>>,
         call' = [call EXCEPT ![c].got = g, ![c].line = l], UNCHANGED <<result, received>>
  PROVE  ReadTo(c, got)
<1>1. PICK k \in Call : k = call[c]
  BY CallOf
<1>2. PICK m : m = [k EXCEPT !.got = g, !.line = l]
  OBVIOUS
<1>3. m \in Call /\ m.got = g /\ m.line = l /\ m.kind = k.kind /\ m.size = k.size
  BY <1>2 DEF Call
<1>4. call' = [call EXCEPT ![c] = m]
  BY <1>1, <1>2
<1>5. call' \in [Clients -> Call \cup {None}] /\ call'[c] = m
  <2>1. call \in [Clients -> Call \cup {None}] /\ m \in Call
    BY <1>3 DEF TypeOK
  <2>2. QED
    BY <1>4, <2>1
<1>6. \A b \in Clients \ {c} : call'[b] = call[b]
  BY <1>4 DEF TypeOK
<1>7. m # None
  BY <1>3, ConnectionAssumption
<1>8. Held(c)' = l \o g /\ Held(c)' \in Seq(Byte)
  BY <1>3, <1>5, <1>7, ConcatProperties DEF Held
<1>9. PICK r \in Seq(Received) : r = received[c] /\ r = received'[c]
  BY DEF TypeOK
<1>10. Bytes(c)' = Bytes(c) /\ Bytes(c)' \in Seq(Byte)
  BY <1>9, BytesOf DEF Bytes, ByteOf
<1>11. \A i \in DOMAIN received'[c] : received'[c][i].fate = "lost" => c \in Readers
  BY <1>9 DEF Stream
<1>12. Bytes(c)' \o Held(c)' = Bytes(c) \o (call[c].line \o got)
  BY <1>8, <1>10
<1>13. received' \in [Clients -> Seq(Received)] /\ DOMAIN result' = Clients
  BY DEF TypeOK
<1>14. call'[c] # None =>
         /\ Len(call'[c].got) < call'[c].size
         /\ call'[c].kind = call[c].kind /\ call'[c].size = call[c].size
         /\ call'[c].kind # "line" => call'[c].line = <<>>
  BY <1>1, <1>3, <1>5
<1>15. QED
  BY <1>5, <1>6, <1>8, <1>10, <1>11, <1>12, <1>13, <1>14 DEF ReadTo

\* read_TYPE returns, and its caller with it or not: no byte is lost.
LEMMA EndsKeeps ==
  ASSUME TypeOK, NEW c \in Clients, Stream(c), Reading(c), call[c] # None,
         NEW got \in Seq(Byte), Ends(c, got)
  PROVE  ReadTo(c, got)
<1>1. /\ call[c].kind \in {"line", "value", "upto"} /\ call[c].size \in Nat \ {0}
      /\ call[c].got \in Seq(Byte) /\ call[c].line \in Seq(Byte)
  BY CallOf
<1>2. open[c] /\ (call[c].kind # "line" => call[c].line = <<>>)
  BY DEF Reading
<1>3. PICK line \in Seq(Byte) : line = call[c].line \o got
  BY <1>1, ConcatProperties
<1>4. DOMAIN result = Clients
  BY DEF TypeOK
<1>5. "given" \in Fate /\ "lost" \in Fate
  BY DEF Fate
<1>6. CASE call[c].kind # "line"
  <2>1. ValueEnds(c, got) /\ line = got
    BY <1>2, <1>3, <1>6, ConcatEmptySeq DEF Ends
  <2>2. CASE Throw(c, <<>>) /\ got = <<>> /\ call[c].kind = "value"
    <3>1. Recorded(c, <<>>, "given")
      BY <2>2 DEF Throw, Recorded
    <3>2. call' = [call EXCEPT ![c] = None] /\ DOMAIN result' = Clients
      BY <2>2, <1>4 DEF Throw
    <3>3. QED
      BY <3>1, <3>2, <2>1, <2>2, <1>3, <1>5, ReadEnds
  <2>3. CASE Return(c, got)
    <3>1. call' = [call EXCEPT ![c] = None] /\ DOMAIN result' = Clients /\ Recorded(c, got, "given")
      BY <2>3, <1>4 DEF Return
    <3>2. QED
      BY <3>1, <2>1, <1>3, <1>5, ReadEnds
  <2>4. QED
    BY <2>1, <2>2, <2>3 DEF ValueEnds
<1>7. CASE call[c].kind = "line" /\ Return(c, line)
  <2>1. call' = [call EXCEPT ![c] = None] /\ DOMAIN result' = Clients /\ Recorded(c, line, "given")
    BY <1>7, <1>4 DEF Return
  <2>2. QED
    BY <2>1, <1>3, <1>5, ReadEnds
<1>8. CASE /\ call[c].kind = "line" /\ UNCHANGED <<result, received>>
           /\ call' = [call EXCEPT ![c].got = <<>>, ![c].line = line]
  <2>1. line \o <<>> = call[c].line \o got
    BY <1>3, ConcatEmptySeq
  <2>2. <<>> \in Seq(Byte) /\ Len(<<>>) < call[c].size
    BY <1>1
  <2>3. QED
    BY <2>1, <2>2, <1>3, <1>8, ReadGoesOn
<1>9. QED
  BY <1>2, <1>3, <1>6, <1>7, <1>8 DEF Ends

LEMMA GoOnKeeps ==
  ASSUME TypeOK, NEW c \in Clients, Stream(c), Reading(c), call[c] # None,
         NEW got \in Seq(Byte), Len(got) < call[c].size, GoOn(c, got)
  PROVE  ReadTo(c, got)
<1>1. PICK k \in Call : k = call[c]
  BY CallOf
<1>2. k.line \in Seq(Byte) /\ k = [k EXCEPT !.line = k.line]
  BY <1>1 DEF Call
<1>3. [k EXCEPT !.got = got] = [k EXCEPT !.got = got, !.line = k.line]
  BY DEF Call
<1>4. call' = [call EXCEPT ![c] = [k EXCEPT !.got = got]]
  BY <1>1 DEF GoOn
<1>5. call' = [call EXCEPT ![c].got = got, ![c].line = k.line]
  BY <1>1, <1>3, <1>4
<1>6. call[c].kind # "line" => k.line = <<>>
  BY <1>1 DEF Reading
<1>7. QED
  BY <1>1, <1>2, <1>5, <1>6, ReadGoesOn DEF GoOn

\* At a deadline a line is kept, and so is a value of which some is enough.
LEMMA AtDeadlineKeeps ==
  ASSUME TypeOK, NEW c \in Clients, Stream(c), Reading(c), call[c] # None, AtDeadline(c)
  PROVE  ReadTo(c, call[c].got)
<1>1. /\ call[c].kind \in {"line", "value", "upto"} /\ call[c].size \in Nat \ {0}
      /\ call[c].got \in Seq(Byte) /\ call[c].line \in Seq(Byte)
  BY CallOf
<1>2. /\ call[c].kind # "line" => call[c].line = <<>> /\ c \in Readers
      /\ call[c].kind = "line" => call[c].got = <<>>
  <2>1. Len(call[c].got) < call[c].size /\ (call[c].kind = "line" => call[c].size = 1)
    BY DEF Reading
  <2>2. QED
    BY <1>1, <2>1, EmptySeq DEF Reading
<1>3. PICK bytes \in Seq(Byte) : bytes = call[c].line \o call[c].got
  BY <1>1, ConcatProperties
<1>4. bytes = IF call[c].kind = "line" THEN call[c].line ELSE call[c].got
  BY <1>1, <1>2, <1>3, ConcatEmptySeq
<1>5. DOMAIN result = Clients
  BY DEF TypeOK
<1>6. PICK fate \in Fate :
        /\ fate = "lost" => c \in Readers
        /\ call' = [call EXCEPT ![c] = None] /\ DOMAIN result' = Clients
        /\ Recorded(c, bytes, fate)
  <2>1. CASE Return(c, bytes)
    BY <2>1, <1>5 DEF Return, Fate
  <2>2. CASE Throw(c, bytes) /\ call[c].kind # "line"
    BY <2>2, <1>2, <1>5 DEF Throw, Fate
  <2>3. QED
    BY <2>1, <2>2, <1>4 DEF AtDeadline
<1>7. QED
  BY <1>3, <1>6, ReadEnds

-----------------------------------------------------------------------------
(* What a step leaves alone *)

\* Nothing that the invariant says of b is changed.
Same(b) ==
  /\ http'[b] = http[b] /\ answer'[b] = answer[b] /\ todo'[b] = todo[b]
  /\ peer'[b] = peer[b] /\ sock'[b] = sock[b] /\ open'[b] = open[b]
  /\ call'[b] = call[b] /\ received'[b] = received[b]
  /\ inbox'[b] = inbox[b] /\ outbox'[b] = outbox[b]
  /\ sent'[b] = sent[b] /\ cut'[b] = cut[b]

LEMMA SameClient ==
  ASSUME NEW b \in Clients, ClientOK(b), Same(b)
  PROVE  ClientOK(b)'
<1>1. Stage(b)'
  BY DEF ClientOK, Stage, Same
<1>2. Reading(b)'
  BY DEF ClientOK, Reading, Same
<1>3. Stream(b)'
  <2>1. Bytes(b)' = Bytes(b) /\ Held(b)' = Held(b)
    BY DEF Same, Bytes, Held
  <2>2. QED
    BY <2>1 DEF ClientOK, Stream, Same
<1>4. Responding(b)'
  BY DEF ClientOK, Responding, Same
<1>5. QED
  BY <1>1, <1>2, <1>3, <1>4 DEF ClientOK

LEMMA Together ==
  ASSUME ServerInv, NEW c \in Clients, TypeOK', Owned', Queued',
         \A b \in Clients \ {c} : Same(b), ClientOK(c)'
  PROVE  ServerInv'
<1>1. \A b \in Clients \ {c} : ClientOK(b)'
  BY SameClient DEF ServerInv
<1>2. QED
  BY <1>1 DEF ServerInv

LEMMA OwnedStays ==
  ASSUME Owned, UNCHANGED <<descriptors, sock, open>>
  PROVE  Owned'
  BY DEF Owned

\* Who waits stays where it is, as long as it does nothing and its peer has come.
LEMMA QueuedStays ==
  ASSUME TypeOK, Queued, UNCHANGED setVars,
         \A b \in Clients : /\ peer[b] # "away" => peer'[b] # "away"
                            /\ http[b] = "idle" => http'[b] = "idle"
  PROVE  Queued'
<1>1. \A d \in DOMAIN backlog : \A i \in DOMAIN backlog[d] : backlog[d][i] \in Clients
  BY DEF TypeOK
<1>2. backlog' = backlog /\ ready' = ready /\ loop' = loop /\ listening' = listening
  BY DEF setVars
<1>3. \A d \in DOMAIN backlog : \A i \in DOMAIN backlog[d] :
        peer'[backlog[d][i]] # "away" /\ http'[backlog[d][i]] = "idle"
  BY <1>1 DEF Queued
<1>4. Waiting' = Waiting
  BY <1>2 DEF Waiting
<1>5. QED
  BY <1>2, <1>3, <1>4 DEF Queued

\* The parts of a connection's bytes are sequences of them.
LEMMA StreamTypes ==
  ASSUME TypeOK, NEW c \in Clients
  PROVE  /\ Bytes(c) \in Seq(Byte) /\ Held(c) \in Seq(Byte)
         /\ Bytes(c) \o Held(c) \in Seq(Byte)
         /\ inbox[c] \in Seq(Byte) /\ outbox[c] \in Seq(Byte)
<1>1. PICK r \in Seq(Received) : r = received[c]
  BY DEF TypeOK
<1>2. Bytes(c) \in Seq(Byte)
  BY <1>1, BytesOf DEF Bytes, ByteOf
<1>3. Held(c) \in Seq(Byte)
  BY CallOf, ConcatProperties DEF Held
<1>4. QED
  BY <1>2, <1>3, ConcatProperties DEF TypeOK

-----------------------------------------------------------------------------
(* The clients *)

LEMMA ClientSendsKeeps ==
  ASSUME ServerInv, NEW c \in Clients, ClientSends(c), UNCHANGED <<httpVars, setVars>>
  PROVE  ServerInv'
<1>1. TypeOK /\ Owned /\ Queued /\ ClientOK(c) /\ Stream(c)
  BY DEF ServerInv, ClientOK
<1>2. PICK a \in Seq(Byte) : a = Bytes(c) \o Held(c)
  BY <1>1, StreamTypes
<1>3. PICK i \in Seq(Byte), o \in Seq(Byte) : i = inbox[c] /\ o = outbox[c]
  BY <1>1, StreamTypes
<1>4. /\ Append(i, Head(o)) \in Seq(Byte) /\ Tail(o) \in Seq(Byte)
      /\ a \o Append(i, Head(o)) \o Tail(o) = a \o i \o o
  <2>1. o # <<>>
    BY <1>3 DEF ClientSends
  <2>2. Append(i, Head(o)) \in Seq(Byte) /\ Tail(o) \in Seq(Byte)
    BY <2>1, Sending
  <2>3. Row(a, Append(i, Head(o)), Tail(o)) = Row(a, i, o)
    BY <2>1, Sending
  <2>4. QED
    BY <2>2, <2>3 DEF Row
<1>5. /\ inbox' = [inbox EXCEPT ![c] = Append(i, Head(o))]
      /\ outbox' = [outbox EXCEPT ![c] = Tail(o)]
  BY <1>3 DEF ClientSends
<1>6. inbox' \in [Clients -> Seq(Byte)] /\ outbox' \in [Clients -> Seq(Byte)]
  BY <1>1, <1>4, <1>5 DEF TypeOK
<1>7. TypeOK'
  BY <1>1, <1>6 DEF TypeOK, DescriptorTypes, ClientSends, sendVars, httpVars, setVars
<1>8. \A b \in Clients \ {c} : Same(b)
  BY <1>1, <1>5 DEF TypeOK, Same, ClientSends, sendVars, httpVars
<1>9. Owned'
  BY <1>1, OwnedStays DEF ClientSends
<1>10. Queued'
  BY <1>1, QueuedStays DEF ClientSends, httpVars
<1>11. Stage(c)' /\ Reading(c)' /\ Responding(c)'
  BY <1>1 DEF ClientOK, Stage, Reading, Responding, ClientSends, sendVars, httpVars
<1>12. Stream(c)'
  <2>1. inbox'[c] = Append(i, Head(o)) /\ outbox'[c] = Tail(o)
    BY <1>1, <1>5 DEF TypeOK
  <2>2. Bytes(c)' = Bytes(c) /\ Held(c)' = Held(c) /\ received' = received /\ peer' = peer
    BY DEF ClientSends, Bytes, Held
  <2>3. peer[c] # "reset" => a \o i \o o = Requests[c]
    BY <1>1, <1>2, <1>3 DEF Stream
  <2>4. QED
    BY <1>1, <1>2, <1>4, <2>1, <2>2, <2>3 DEF Stream
<1>13. QED
  BY <1>7, <1>8, <1>9, <1>10, <1>11, <1>12, Together DEF ClientOK

LEMMA ClientReadsKeeps ==
  ASSUME ServerInv, NEW c \in Clients, ClientReads(c), UNCHANGED <<httpVars, setVars>>
  PROVE  ServerInv'
<1>1. TypeOK /\ Owned /\ Queued
  BY DEF ServerInv
<1>2. taken' \in [Clients -> Nat]
  BY <1>1 DEF TypeOK, ClientReads
<1>3. TypeOK'
  BY <1>1, <1>2 DEF TypeOK, DescriptorTypes, ClientReads, httpVars, setVars
<1>4. Owned'
  BY <1>1, OwnedStays DEF ClientReads
<1>5. Queued'
  BY <1>1, QueuedStays DEF ClientReads, httpVars
<1>6. \A b \in Clients : Same(b)
  BY DEF Same, ClientReads, httpVars
<1>7. QED
  BY <1>3, <1>4, <1>5, <1>6, SameClient DEF ServerInv

LEMMA ClientLeavesKeeps ==
  ASSUME ServerInv, NEW c \in Clients, ClientLeaves(c), UNCHANGED <<httpVars, setVars>>
  PROVE  ServerInv'
<1>1. TypeOK /\ Owned /\ Queued /\ ClientOK(c) /\ Stream(c)
  BY DEF ServerInv, ClientOK
<1>2. PICK how \in {"closed", "reset"} :
        /\ peer' = [peer EXCEPT ![c] = how]
        /\ inbox' = [inbox EXCEPT ![c] = IF how = "reset" THEN <<>> ELSE @]
        /\ outbox' = [outbox EXCEPT ![c] = IF how = "reset" THEN <<>> ELSE @]
  BY DEF ClientLeaves
<1>3. inbox' \in [Clients -> Seq(Byte)] /\ outbox' \in [Clients -> Seq(Byte)]
  BY <1>1, <1>2 DEF TypeOK
<1>4. peer' \in [Clients -> {"away", "open", "closed", "reset"}] /\ peer'[c] = how
  BY <1>1, <1>2 DEF TypeOK
<1>5. TypeOK'
  BY <1>1, <1>3, <1>4 DEF TypeOK, DescriptorTypes, ClientLeaves, sendVars, httpVars, setVars
<1>6. \A b \in Clients \ {c} : Same(b)
  BY <1>1, <1>2 DEF TypeOK, Same, ClientLeaves, sendVars, httpVars
<1>7. Owned'
  BY <1>1, OwnedStays DEF ClientLeaves
<1>8. Queued'
  <2>1. \A b \in Clients : peer[b] # "away" => peer'[b] # "away"
    BY <1>1, <1>2 DEF TypeOK
  <2>2. QED
    BY <1>1, <2>1, QueuedStays DEF httpVars
<1>9. Stage(c)' /\ Reading(c)' /\ Responding(c)'
  BY <1>1, <1>4 DEF ClientOK, Stage, Reading, Responding, ClientLeaves, sendVars, httpVars
<1>10. Stream(c)'
  <2>1. Bytes(c)' = Bytes(c) /\ Held(c)' = Held(c) /\ received' = received
    BY DEF ClientLeaves, Bytes, Held
  <2>2. how = "closed" => inbox'[c] = inbox[c] /\ outbox'[c] = outbox[c]
    BY <1>1, <1>2 DEF TypeOK
  <2>3. peer[c] = "open"
    BY DEF ClientLeaves
  <2>4. QED
    BY <1>1, <1>4, <2>1, <2>2, <2>3 DEF Stream
<1>11. QED
  BY <1>5, <1>6, <1>7, <1>8, <1>9, <1>10, Together DEF ClientOK

-----------------------------------------------------------------------------
(* Receiving *)

\* The descriptor of a read is the connection's own.
LEMMA OwnDescriptor ==
  ASSUME ServerInv, NEW c \in Clients, sock[c] # 0, open[c]
  PROVE  Other(c) = c
  BY DEF ServerInv, Owned, Other

LEMMA ReadKeeps ==
  ASSUME ServerInv, NEW c \in Clients, call[c] # None,
         NEW got \in Seq(Byte), NEW i \in Seq(Byte), ReadTo(c, got),
         inbox' = [inbox EXCEPT ![c] = i],
         Joined(Bytes(c), call[c].line, got, i) = Joined(Bytes(c), call[c].line, call[c].got, inbox[c]),
         UNCHANGED <<descriptors, outbox, peer, sock, open, sendVars, httpVars, setVars>>
  PROVE  ServerInv'
<1>1. TypeOK /\ Owned /\ Queued /\ ClientOK(c) /\ Stream(c) /\ Reading(c)
  BY DEF ServerInv, ClientOK
<1>2. inbox' \in [Clients -> Seq(Byte)] /\ inbox'[c] = i
  BY <1>1 DEF TypeOK
<1>3. TypeOK'
  BY <1>1, <1>2 DEF TypeOK, DescriptorTypes, ReadTo, sendVars, httpVars, setVars
<1>4. \A b \in Clients \ {c} : Same(b)
  BY <1>1 DEF TypeOK, Same, ReadTo, sendVars, httpVars
<1>5. Owned'
  BY <1>1, OwnedStays
<1>6. Queued'
  BY <1>1, QueuedStays DEF httpVars
<1>7. Stage(c)' /\ Responding(c)'
  BY <1>1 DEF ClientOK, Stage, Responding, sendVars, httpVars
<1>8. Reading(c)'
  <2>1. call'[c] # None =>
          /\ Len(call'[c].got) < call'[c].size
          /\ call'[c].kind = call[c].kind /\ call'[c].size = call[c].size
          /\ call'[c].kind # "line" => call'[c].line = <<>>
    BY DEF ReadTo
  <2>2. /\ http[c] \in {"request", "headers", "reading"} /\ sock[c] # 0 /\ open[c]
        /\ call[c].kind = "line" => call[c].size = 1
        /\ c \notin Readers => call[c].kind = "line"
    BY <1>1 DEF Reading
  <2>3. http' = http /\ sock' = sock /\ open' = open
    BY DEF httpVars
  <2>4. QED
    BY <2>1, <2>2, <2>3 DEF Reading
<1>9. Stream(c)'
  <2>1. Held(c) = call[c].line \o call[c].got
    BY DEF Held
  <2>2. Bytes(c)' \o Held(c)' \o i = Bytes(c) \o Held(c) \o inbox[c]
    BY <2>1 DEF ReadTo, Joined
  <2>3. peer[c] # "reset" => (Bytes(c) \o Held(c) \o inbox[c]) \o outbox[c] = Requests[c]
    BY <1>1 DEF Stream
  <2>4. peer' = peer /\ outbox' = outbox
    OBVIOUS
  <2>5. peer'[c] # "reset" => (Bytes(c)' \o Held(c)' \o inbox'[c]) \o outbox'[c] = Requests[c]
    BY <1>2, <2>2, <2>3, <2>4
  <2>6. QED
    BY <2>5 DEF Stream, ReadTo
<1>10. QED
  BY <1>3, <1>4, <1>5, <1>6, <1>7, <1>8, <1>9, Together DEF ClientOK

LEMMA RecvKeeps ==
  ASSUME ServerInv, NEW c \in Clients, Recv(c), UNCHANGED <<httpVars, setVars>>
  PROVE  ServerInv'
<1>1. TypeOK /\ Stream(c) /\ Reading(c) /\ call[c] # None
  BY DEF ServerInv, ClientOK, Recv
<1>2. Other(c) = c
  BY <1>1, OwnDescriptor DEF Reading
<1>3. PICK g \in Seq(Byte), l \in Seq(Byte), size \in Nat \ {0} :
        g = call[c].got /\ l = call[c].line /\ size = call[c].size
  BY <1>1, CallOf
<1>4. PICK b \in Seq(Byte), i \in Seq(Byte) : b = Bytes(c) /\ i = inbox[c]
  BY <1>1, StreamTypes
<1>5. UNCHANGED <<descriptors, outbox, peer, sock, open, sendVars, httpVars, setVars>>
  BY DEF Recv
<1>6. CASE i = <<>>
  <2>1. Ends(c, g) /\ inbox' = inbox
    BY <1>2, <1>3, <1>4, <1>6 DEF Recv
  <2>2. ReadTo(c, g)
    BY <1>1, <2>1, EndsKeeps
  <2>3. inbox' = [inbox EXCEPT ![c] = i]
    BY <1>1, <1>4, <2>1 DEF TypeOK
  <2>4. QED
    BY <1>1, <1>3, <1>4, <1>5, <2>2, <2>3, ReadKeeps
<1>7. CASE i # <<>>
  <2>1. PICK n : n = Min({Len(i), size - Len(g)})
    OBVIOUS
  <2>2. Len(i) \in Nat \ {0} /\ Len(g) \in Nat /\ Len(g) < size
    BY <1>1, <1>3, <1>7, EmptySeq DEF Reading
  <2>3. n \in 0 .. Len(i) /\ n <= size - Len(g)
    <3>1. PICK x \in Nat, y \in Nat : x = Len(i) /\ y = size - Len(g)
      BY <2>2
    <3>2. n = Min({x, y})
      BY <2>1, <3>1
    <3>3. Min({x, y}) = IF x <= y THEN x ELSE y
      BY MinOfTwo
    <3>4. QED
      BY <3>1, <3>2, <3>3
  <2>4. PICK t : t = SubSeq(i, 1, n)
    OBVIOUS
  <2>5. PICK r : r = SubSeq(i, n + 1, Len(i))
    OBVIOUS
  <2>6. t \in Seq(Byte) /\ Len(t) = n /\ r \in Seq(Byte) /\ t \o r = i
    BY <2>3, <2>4, <2>5, Taking
  <2>7. Joined(b, l, g \o t, r) = Joined(b, l, g, i)
    <3>1. t \in Seq(Byte) /\ r \in Seq(Byte)
      BY <2>6
    <3>2. Joined(b, l, g \o t, r) = Joined(b, l, g, t \o r)
      BY <3>1, Regroup
    <3>3. QED
      BY <2>6, <3>2
  <2>8. PICK got \in Seq(Byte) : got = g \o t /\ Len(got) = Len(g) + n
    BY <2>6, ConcatProperties
  <2>9. /\ inbox' = [inbox EXCEPT ![c] = SubSeq(inbox[c], n + 1, Len(inbox[c]))]
        /\ IF Len(got) = call[c].size THEN Ends(c, got) ELSE GoOn(c, got)
    BY <1>1, <1>2, <1>3, <1>4, <1>7, <2>1, <2>4, <2>8 DEF Recv
  <2>10. ReadTo(c, got)
    <3>1. CASE Len(got) = call[c].size
      BY <3>1, <1>1, <2>9, EndsKeeps
    <3>2. CASE Len(got) # call[c].size
      <4>1. Len(got) < call[c].size
        <5>1. PICK x \in Nat : x = Len(g)
          BY <2>2
        <5>2. n \in Nat /\ n <= size - x
          BY <2>2, <2>3, <5>1
        <5>3. Len(got) = x + n /\ Len(got) # size /\ size = call[c].size
          BY <3>2, <1>3, <2>8, <5>1
        <5>4. x + n < size
          <6>1. x + n # size /\ x \in Nat /\ n \in Nat /\ size \in Nat
            BY <5>2, <5>3
          <6>2. QED
            BY <5>2, <6>1
        <5>5. QED
          BY <5>3, <5>4
      <4>2. GoOn(c, got)
        BY <3>2, <2>9
      <4>3. QED
        BY <4>1, <4>2, <1>1, GoOnKeeps
    <3>3. QED
      BY <3>1, <3>2
  <2>11. inbox' = [inbox EXCEPT ![c] = r]
    BY <1>4, <2>5, <2>9
  <2>12. Joined(Bytes(c), call[c].line, got, r) = Joined(Bytes(c), call[c].line, call[c].got, inbox[c])
    BY <1>3, <1>4, <2>7, <2>8
  <2>13. QED
    BY <1>1, <1>5, <2>6, <2>10, <2>11, <2>12, ReadKeeps
<1>8. QED
  BY <1>6, <1>7

LEMMA DeadlineKeeps ==
  ASSUME ServerInv, NEW c \in Clients, Deadline(c), UNCHANGED <<httpVars, setVars>>
  PROVE  ServerInv'
<1>1. TypeOK /\ Stream(c) /\ Reading(c) /\ call[c] # None /\ AtDeadline(c)
  BY DEF ServerInv, ClientOK, Deadline
<1>2. ReadTo(c, call[c].got) /\ call[c].got \in Seq(Byte)
  BY <1>1, AtDeadlineKeeps, CallOf
<1>3. inbox[c] \in Seq(Byte) /\ inbox' = [inbox EXCEPT ![c] = inbox[c]]
  BY <1>1 DEF TypeOK, Deadline
<1>4. UNCHANGED <<descriptors, outbox, peer, sock, open, sendVars, httpVars, setVars>>
  BY DEF Deadline
<1>5. QED
  BY <1>1, <1>2, <1>3, <1>4, ReadKeeps

-----------------------------------------------------------------------------
(* The bytes of a response, and its sends *)

\* A concatenation is known by its elements.
Fits(a, b, c) ==
  /\ Len(c) = Len(a) + Len(b)
  /\ \A i \in 1 .. Len(a) : a[i] = c[i]
  /\ \A i \in 1 .. Len(b) : b[i] = c[Len(a) + i]

Joins(a, b, c) == a \o b = c

LEMMA ConcatIs ==
  ASSUME NEW a \in Seq(Nat), NEW b \in Seq(Nat), NEW c \in Seq(Nat), Fits(a, b, c)
  PROVE  Joins(a, b, c)
<1> USE DEF Fits
<1>0. PICK m \in Nat, n \in Nat : m = Len(a) /\ n = Len(b)
  OBVIOUS
<1>1. PICK s : s = a \o b
  OBVIOUS
<1>2. s \in Seq(Nat) /\ Len(s) = m + n
  BY <1>0, <1>1, ConcatProperties
<1>3. \A i \in 1 .. Len(a) + Len(b) : s[i] = IF i <= Len(a) THEN a[i] ELSE b[i - Len(a)]
  BY <1>1, ConcatProperties
<1>4. \A i \in 1 .. m + n : s[i] = c[i]
  <2> SUFFICES ASSUME NEW i \in 1 .. m + n
               PROVE  s[i] = c[i]
    OBVIOUS
  <2>1. CASE i <= m
    BY <2>1, <1>0, <1>3
  <2>2. CASE ~ (i <= m)
    <3>1. i - m \in 1 .. n
      BY <2>2
    <3>2. s[i] = b[i - m]
      BY <2>2, <1>0, <1>3
    <3>3. b[i - m] = c[m + (i - m)]
      BY <3>1, <1>0
    <3>5. m + (i - m) = i
      OBVIOUS
    <3>4. QED
      BY <3>2, <3>3, <3>5
  <2>3. QED
    BY <2>1, <2>2
<1>5. s = c
  BY <1>0, <1>2, <1>4, SeqEqual
<1>6. QED
  BY <1>1, <1>5 DEF Joins

LEMMA Pieces ==
  /\ <<1>> \in Seq(Nat) /\ <<2>> \in Seq(Nat) /\ <<4>> \in Seq(Nat)
  /\ <<1, 2>> \in Seq(Nat) /\ <<2, 3>> \in Seq(Nat) /\ <<2, 3, 4>> \in Seq(Nat)
  /\ <<1, 2, 3>> \in Seq(Nat) /\ <<1, 2, 4>> \in Seq(Nat) /\ <<1, 2, 3, 4>> \in Seq(Nat)
<1>1. <<1>> \in Seq(Nat) /\ <<2>> \in Seq(Nat) /\ <<4>> \in Seq(Nat)
  OBVIOUS
<1>2. <<1, 2>> \in Seq(Nat) /\ <<2, 3>> \in Seq(Nat)
  OBVIOUS
<1>3. <<1, 2, 3>> \in Seq(Nat) /\ <<1, 2, 4>> \in Seq(Nat) /\ <<2, 3, 4>> \in Seq(Nat)
  OBVIOUS
<1>4. <<1, 2, 3, 4>> \in Seq(Nat)
  OBVIOUS
<1>5. QED
  BY <1>1, <1>2, <1>3, <1>4

LEMMA Sent ==
  /\ <<1>> \o <<2, 3>> = <<1, 2, 3>>
  /\ <<1>> \o <<2>> = <<1, 2>>
  /\ <<1, 2, 3>> \o <<4>> = <<1, 2, 3, 4>>
  /\ <<1, 2>> \o <<4>> = <<1, 2, 4>>
  /\ <<2, 3>> \o <<4>> = <<2, 3, 4>>
  /\ <<1>> \o <<2, 3, 4>> = <<1, 2, 3, 4>>
<1>1. <<1>> \o <<2, 3>> = <<1, 2, 3>>
  <2>1. Len(<<1, 2, 3>>) = Len(<<1>>) + Len(<<2, 3>>)
    OBVIOUS
  <2>2. \A i \in 1 .. Len(<<1>>) : <<1>>[i] = <<1, 2, 3>>[i]
    OBVIOUS
  <2>3. \A i \in 1 .. Len(<<2, 3>>) : <<2, 3>>[i] = <<1, 2, 3>>[Len(<<1>>) + i]
    OBVIOUS
  <2>4. Fits(<<1>>, <<2, 3>>, <<1, 2, 3>>)
    BY <2>1, <2>2, <2>3 DEF Fits
  <2>5. Joins(<<1>>, <<2, 3>>, <<1, 2, 3>>)
    BY <2>4, Pieces, ConcatIs
  <2>6. QED
    BY <2>5 DEF Joins
<1>2. <<1>> \o <<2>> = <<1, 2>>
  <2>1. Len(<<1, 2>>) = Len(<<1>>) + Len(<<2>>)
    OBVIOUS
  <2>2. \A i \in 1 .. Len(<<1>>) : <<1>>[i] = <<1, 2>>[i]
    OBVIOUS
  <2>3. \A i \in 1 .. Len(<<2>>) : <<2>>[i] = <<1, 2>>[Len(<<1>>) + i]
    OBVIOUS
  <2>4. Fits(<<1>>, <<2>>, <<1, 2>>)
    BY <2>1, <2>2, <2>3 DEF Fits
  <2>5. Joins(<<1>>, <<2>>, <<1, 2>>)
    BY <2>4, Pieces, ConcatIs
  <2>6. QED
    BY <2>5 DEF Joins
<1>3. <<1, 2, 3>> \o <<4>> = <<1, 2, 3, 4>>
  <2>1. Len(<<1, 2, 3, 4>>) = Len(<<1, 2, 3>>) + Len(<<4>>)
    OBVIOUS
  <2>2. \A i \in 1 .. Len(<<1, 2, 3>>) : <<1, 2, 3>>[i] = <<1, 2, 3, 4>>[i]
    OBVIOUS
  <2>3. \A i \in 1 .. Len(<<4>>) : <<4>>[i] = <<1, 2, 3, 4>>[Len(<<1, 2, 3>>) + i]
    OBVIOUS
  <2>4. Fits(<<1, 2, 3>>, <<4>>, <<1, 2, 3, 4>>)
    BY <2>1, <2>2, <2>3 DEF Fits
  <2>5. Joins(<<1, 2, 3>>, <<4>>, <<1, 2, 3, 4>>)
    BY <2>4, Pieces, ConcatIs
  <2>6. QED
    BY <2>5 DEF Joins
<1>4. <<1, 2>> \o <<4>> = <<1, 2, 4>>
  <2>1. Len(<<1, 2, 4>>) = Len(<<1, 2>>) + Len(<<4>>)
    OBVIOUS
  <2>2. \A i \in 1 .. Len(<<1, 2>>) : <<1, 2>>[i] = <<1, 2, 4>>[i]
    OBVIOUS
  <2>3. \A i \in 1 .. Len(<<4>>) : <<4>>[i] = <<1, 2, 4>>[Len(<<1, 2>>) + i]
    OBVIOUS
  <2>4. Fits(<<1, 2>>, <<4>>, <<1, 2, 4>>)
    BY <2>1, <2>2, <2>3 DEF Fits
  <2>5. Joins(<<1, 2>>, <<4>>, <<1, 2, 4>>)
    BY <2>4, Pieces, ConcatIs
  <2>6. QED
    BY <2>5 DEF Joins
<1>5. <<2, 3>> \o <<4>> = <<2, 3, 4>>
  <2>1. Len(<<2, 3, 4>>) = Len(<<2, 3>>) + Len(<<4>>)
    OBVIOUS
  <2>2. \A i \in 1 .. Len(<<2, 3>>) : <<2, 3>>[i] = <<2, 3, 4>>[i]
    OBVIOUS
  <2>3. \A i \in 1 .. Len(<<4>>) : <<4>>[i] = <<2, 3, 4>>[Len(<<2, 3>>) + i]
    OBVIOUS
  <2>4. Fits(<<2, 3>>, <<4>>, <<2, 3, 4>>)
    BY <2>1, <2>2, <2>3 DEF Fits
  <2>5. Joins(<<2, 3>>, <<4>>, <<2, 3, 4>>)
    BY <2>4, Pieces, ConcatIs
  <2>6. QED
    BY <2>5 DEF Joins
<1>6. <<1>> \o <<2, 3, 4>> = <<1, 2, 3, 4>>
  <2>1. Len(<<1, 2, 3, 4>>) = Len(<<1>>) + Len(<<2, 3, 4>>)
    OBVIOUS
  <2>2. \A i \in 1 .. Len(<<1>>) : <<1>>[i] = <<1, 2, 3, 4>>[i]
    OBVIOUS
  <2>3. \A i \in 1 .. Len(<<2, 3, 4>>) : <<2, 3, 4>>[i] = <<1, 2, 3, 4>>[Len(<<1>>) + i]
    OBVIOUS
  <2>4. Fits(<<1>>, <<2, 3, 4>>, <<1, 2, 3, 4>>)
    BY <2>1, <2>2, <2>3 DEF Fits
  <2>5. Joins(<<1>>, <<2, 3, 4>>, <<1, 2, 3, 4>>)
    BY <2>4, Pieces, ConcatIs
  <2>6. QED
    BY <2>5 DEF Joins
<1>7. QED
  BY <1>1, <1>2, <1>3, <1>4, <1>5, <1>6

LEMMA Parted ==
  /\ SubSeq(<<1>>, 1, 1) = <<1>> /\ SubSeq(<<4>>, 1, 1) = <<4>>
  /\ SubSeq(<<2, 3>>, 1, 2) = <<2, 3>> /\ SubSeq(<<2, 3>>, 1, 1) = <<2>>
<1>1. Len(<<1>>) = 1 /\ Len(<<4>>) = 1 /\ Len(<<2, 3>>) = 2 /\ Len(<<2>>) = 1
  OBVIOUS
<1>2. \A i \in 1 .. 1 : <<2, 3>>[i] \in Nat
  OBVIOUS
<1>3. PICK s : s = SubSeq(<<2, 3>>, 1, 1)
  OBVIOUS
<1>4. s \in Seq(Nat)
  BY <1>2, <1>3, SubSeqProperties
<1>5. Len(s) = 1
  BY <1>2, <1>3, SubSeqProperties
<1>6. s[1] = 2
  BY <1>2, <1>3, SubSeqProperties
<1>7. \A i \in 1 .. Len(s) : s[i] = <<2>>[i]
  BY <1>5, <1>6
<1>8. s = <<2>>
  BY <1>1, <1>4, <1>5, <1>7, Pieces, SeqEqual
<1>9. QED
  BY <1>1, <1>3, <1>8, Pieces, SubSeqFull

\* FlattenSeq of two sequences, and of three, without its recursion
LEMMA FlattenTwo ==
  ASSUME NEW a, NEW b
  PROVE  FlattenSeq(<<a, b>>) = a \o b
<1> DEFINE seqs == <<a, b>>
           G(f) == [i \in 1 .. 2 |-> IF i = 1 THEN seqs[i] ELSE f[i - 1] \o seqs[i]]
           w == [i \in 1 .. 2 |-> IF i = 1 THEN a ELSE a \o b]
<1>1. w = G(w)
  <2>1. \A i \in 1 .. 2 : w[i] = G(w)[i]
    OBVIOUS
  <2>2. QED
    BY <2>1
<1>2. PICK f : f = (CHOOSE g : g = G(g))
  OBVIOUS
<1>3. f = G(f)
  BY <1>1, <1>2
<1>4. \A i \in 1 .. 2 : f[i] = IF i = 1 THEN seqs[i] ELSE f[i - 1] \o seqs[i]
  BY <1>3
<1>5. f[1] = a
  BY <1>4
<1>6. f[2] = f[1] \o b
  <2>1. f[2] = f[2 - 1] \o seqs[2]
    BY <1>4
  <2>2. QED
    BY <2>1
<1>7. Len(seqs) = 2
  OBVIOUS
<1>8. FlattenSeq(seqs) = f[2]
  BY <1>2, <1>7 DEF FlattenSeq
<1>9. QED
  BY <1>5, <1>6, <1>8

LEMMA FlattenThree ==
  ASSUME NEW a, NEW b, NEW c
  PROVE  FlattenSeq(<<a, b, c>>) = Row(a, b, c)
<1> DEFINE seqs == <<a, b, c>>
           G(f) == [i \in 1 .. 3 |-> IF i = 1 THEN seqs[i] ELSE f[i - 1] \o seqs[i]]
           w == [i \in 1 .. 3 |-> IF i = 1 THEN a ELSE IF i = 2 THEN a \o b ELSE a \o b \o c]
<1>1. w = G(w)
  <2>1. w[1] = a /\ w[2] = a \o b /\ w[3] = (a \o b) \o c
    OBVIOUS
  <2>2. \A i \in 1 .. 3 : w[i] = G(w)[i]
    BY <2>1
  <2>3. QED
    BY <2>2
<1>2. PICK f : f = (CHOOSE g : g = G(g))
  OBVIOUS
<1>3. f = G(f)
  BY <1>1, <1>2
<1>4. \A i \in 1 .. 3 : f[i] = IF i = 1 THEN seqs[i] ELSE f[i - 1] \o seqs[i]
  BY <1>3
<1>5. f[1] = a
  BY <1>4
<1>6. f[2] = f[1] \o b
  <2>1. f[2] = f[2 - 1] \o seqs[2]
    BY <1>4
  <2>2. QED
    BY <2>1
<1>7. f[3] = f[2] \o c
  <2>1. f[3] = f[3 - 1] \o seqs[3]
    BY <1>4
  <2>2. QED
    BY <2>1
<1>8. Len(seqs) = 3
  OBVIOUS
<1>9. FlattenSeq(seqs) = f[3]
  BY <1>2, <1>8 DEF FlattenSeq
<1>10. QED
  BY <1>5, <1>6, <1>7, <1>9 DEF Row

\* At each station what was sent and what is left make up the response.
LEMMA StationsWhole ==
  ASSUME NEW t, NEW s, NEW status, <<t, s>> \in Stations(status)
  PROVE  s \o FlattenSeq(t) = FlattenSeq(Response(status))
<1>1. FlattenSeq(<<>>) = <<>>
  BY DEF FlattenSeq
<1>2. FlattenSeq(<< <<4>> >>) = <<4>> /\ FlattenSeq(<< <<2, 3>> >>) = <<2, 3>>
  BY DEF FlattenSeq
<1>3. FlattenSeq(<< <<1>>, <<2, 3>> >>) = <<1, 2, 3>> /\ FlattenSeq(<< <<2, 3>>, <<4>> >>) = <<2, 3, 4>>
  BY FlattenTwo, Sent
<1>4. FlattenSeq(<< <<1>>, <<2, 3>>, <<4>> >>) = <<1, 2, 3, 4>>
  <2>1. FlattenSeq(<< <<1>>, <<2, 3>>, <<4>> >>) = Row(<<1>>, <<2, 3>>, <<4>>)
    BY FlattenThree
  <2>2. QED
    BY <2>1, Sent DEF Row
<1>5. /\ <<>> \o <<1, 2, 3>> = <<1, 2, 3>> /\ <<1, 2, 3>> \o <<>> = <<1, 2, 3>>
      /\ <<>> \o <<1, 2, 3, 4>> = <<1, 2, 3, 4>> /\ <<1, 2, 3, 4>> \o <<>> = <<1, 2, 3, 4>>
  BY Pieces, ConcatEmptySeq
<1>6. CASE status = 200
  <2>1. FlattenSeq(Response(status)) = <<1, 2, 3, 4>>
    BY <1>4, <1>6 DEF Response
  <2>2. \/ t = << <<1>>, <<2, 3>>, <<4>> >> /\ s = <<>>
        \/ t = << <<2, 3>>, <<4>> >> /\ s = <<1>>
        \/ t = << <<4>> >> /\ s = <<1, 2, 3>>
        \/ t = <<>> /\ s = <<1, 2, 3, 4>>
    BY <1>6 DEF Stations
  <2>3. QED
    BY <2>1, <2>2, <1>1, <1>2, <1>3, <1>4, <1>5, Sent
<1>7. CASE status # 200
  <2>1. FlattenSeq(Response(status)) = <<1, 2, 3>>
    BY <1>3, <1>7 DEF Response
  <2>2. \/ t = << <<1>>, <<2, 3>> >> /\ s = <<>>
        \/ t = << <<2, 3>> >> /\ s = <<1>>
        \/ t = <<>> /\ s = <<1, 2, 3>>
    BY <1>7 DEF Stations
  <2>3. QED
    BY <2>1, <2>2, <1>1, <1>2, <1>3, <1>5, Sent
<1>8. QED
  BY <1>6, <1>7

\* A send goes to the next station, or is cut.
LEMMA OneSend ==
  ASSUME NEW t, NEW s, NEW status, NEW n \in Nat, t # <<>>, 0 < n, n <= Len(Head(t)),
         <<t, s>> \in Stations(status) \cup CutStations
  PROVE  /\ s \o SubSeq(Head(t), 1, n) \in Seq(Nat)
         /\ \/ /\ <<t, s>> \in Stations(status) /\ n = Len(Head(t))
               /\ <<Tail(t), s \o SubSeq(Head(t), 1, n)>> \in Stations(status)
            \/ /\ <<t, s>> \in Stations(status) => n < Len(Head(t))
               /\ <<Tail(t), s \o SubSeq(Head(t), 1, n)>> \in CutStations
         /\ Len(t) # 1 => Tail(t) # <<>>
<1>1. /\ Head(<< <<1>>, <<2, 3>>, <<4>> >>) = <<1>>
      /\ Tail(<< <<1>>, <<2, 3>>, <<4>> >>) = << <<2, 3>>, <<4>> >>
      /\ Head(<< <<2, 3>>, <<4>> >>) = <<2, 3>> /\ Tail(<< <<2, 3>>, <<4>> >>) = << <<4>> >>
      /\ Head(<< <<4>> >>) = <<4>> /\ Tail(<< <<4>> >>) = <<>> /\ Len(<< <<4>> >>) = 1
  OBVIOUS
<1>2. /\ Head(<< <<1>>, <<2, 3>> >>) = <<1>> /\ Tail(<< <<1>>, <<2, 3>> >>) = << <<2, 3>> >>
      /\ Head(<< <<2, 3>> >>) = <<2, 3>> /\ Tail(<< <<2, 3>> >>) = <<>> /\ Len(<< <<2, 3>> >>) = 1
  OBVIOUS
<1>3. Len(<<1>>) = 1 /\ Len(<<4>>) = 1 /\ Len(<<2, 3>>) = 2
  OBVIOUS
<1>4. <<>> \o <<1>> = <<1>>
  BY Pieces, ConcatEmptySeq
<1>5. PICK k, v, z : k = Len(Head(t)) /\ v = s \o SubSeq(Head(t), 1, n) /\ z = Tail(t)
  OBVIOUS
<1>5a. n \in 1 .. k
  BY <1>5
<1> DEFINE Goal == /\ v \in Seq(Nat)
                   /\ \/ <<t, s>> \in Stations(status) /\ n = k /\ <<z, v>> \in Stations(status)
                      \/ (<<t, s>> \in Stations(status) => n < k) /\ <<z, v>> \in CutStations
                   /\ Len(t) # 1 => z # <<>>
<1> SUFFICES Goal
  BY <1>5
<1>6. CASE t = << <<1>>, <<2, 3>>, <<4>> >> /\ s = <<>> /\ status = 200
  <2>1. Head(t) = <<1>> /\ k = 1 /\ z = << <<2, 3>>, <<4>> >>
    BY <1>1, <1>2, <1>3, <1>5, <1>6
  <2>2. z # <<>>
    BY <2>1
  <2>3. <<t, s>> \in Stations(status)
    BY <1>6 DEF Stations
  <2>4. CASE n = 1
    <3>1. v = <<>> \o SubSeq(<<1>>, 1, 1)
      BY <2>1, <2>4, <1>5, <1>6
    <3>2. v = <<1>> /\ v \in Seq(Nat)
      BY <3>1, <1>4, Parted, Sent, Pieces
    <3>3. <<z, v>> \in Stations(status)
      BY <2>1, <3>2, <1>6 DEF Stations, CutStations
    <3>4. QED
      BY <2>1, <2>2, <2>3, <2>4, <3>2, <3>3
  <2>5. n \in 1 .. 1
    BY <2>1, <1>5a, SMTT(30)
  <2>6. QED
    BY <2>5, <2>4
<1>7. CASE t = << <<2, 3>>, <<4>> >> /\ s = <<1>> /\ status = 200
  <2>1. Head(t) = <<2, 3>> /\ k = 2 /\ z = << <<4>> >>
    BY <1>1, <1>2, <1>3, <1>5, <1>7
  <2>2. z # <<>>
    BY <2>1
  <2>3. <<t, s>> \in Stations(status)
    BY <1>7 DEF Stations
  <2>4. CASE n = 1
    <3>1. v = <<1>> \o SubSeq(<<2, 3>>, 1, 1)
      BY <2>1, <2>4, <1>5, <1>7
    <3>2. v = <<1, 2>> /\ v \in Seq(Nat)
      BY <3>1, <1>4, Parted, Sent, Pieces
    <3>3. <<z, v>> \in CutStations
      BY <2>1, <3>2, <1>7 DEF Stations, CutStations
    <3>4. QED
      BY <2>1, <2>2, <2>3, <2>4, <3>2, <3>3
  <2>5. CASE n = 2
    <3>1. v = <<1>> \o SubSeq(<<2, 3>>, 1, 2)
      BY <2>1, <2>5, <1>5, <1>7
    <3>2. v = <<1, 2, 3>> /\ v \in Seq(Nat)
      BY <3>1, <1>4, Parted, Sent, Pieces
    <3>3. <<z, v>> \in Stations(status)
      BY <2>1, <3>2, <1>7 DEF Stations, CutStations
    <3>4. QED
      BY <2>1, <2>2, <2>3, <2>5, <3>2, <3>3
  <2>6. n \in 1 .. 2
    BY <2>1, <1>5a, SMTT(30)
  <2>7. QED
    BY <2>6, <2>4, <2>5
<1>8. CASE t = << <<4>> >> /\ s = <<1, 2, 3>> /\ status = 200
  <2>1. Head(t) = <<4>> /\ k = 1 /\ z = <<>>
    BY <1>1, <1>2, <1>3, <1>5, <1>8
  <2>2. Len(t) = 1
    BY <1>1, <1>2, <1>8
  <2>3. <<t, s>> \in Stations(status)
    BY <1>8 DEF Stations
  <2>4. CASE n = 1
    <3>1. v = <<1, 2, 3>> \o SubSeq(<<4>>, 1, 1)
      BY <2>1, <2>4, <1>5, <1>8
    <3>2. v = <<1, 2, 3, 4>> /\ v \in Seq(Nat)
      BY <3>1, <1>4, Parted, Sent, Pieces
    <3>3. <<z, v>> \in Stations(status)
      BY <2>1, <3>2, <1>8 DEF Stations, CutStations
    <3>4. QED
      BY <2>1, <2>2, <2>3, <2>4, <3>2, <3>3
  <2>5. n \in 1 .. 1
    BY <2>1, <1>5a, SMTT(30)
  <2>6. QED
    BY <2>5, <2>4
<1>9. CASE t = << <<1>>, <<2, 3>> >> /\ s = <<>> /\ status # 200
  <2>1. Head(t) = <<1>> /\ k = 1 /\ z = << <<2, 3>> >>
    BY <1>1, <1>2, <1>3, <1>5, <1>9
  <2>2. z # <<>>
    BY <2>1
  <2>3. <<t, s>> \in Stations(status)
    BY <1>9 DEF Stations
  <2>4. CASE n = 1
    <3>1. v = <<>> \o SubSeq(<<1>>, 1, 1)
      BY <2>1, <2>4, <1>5, <1>9
    <3>2. v = <<1>> /\ v \in Seq(Nat)
      BY <3>1, <1>4, Parted, Sent, Pieces
    <3>3. <<z, v>> \in Stations(status)
      BY <2>1, <3>2, <1>9 DEF Stations, CutStations
    <3>4. QED
      BY <2>1, <2>2, <2>3, <2>4, <3>2, <3>3
  <2>5. n \in 1 .. 1
    BY <2>1, <1>5a, SMTT(30)
  <2>6. QED
    BY <2>5, <2>4
<1>10. CASE t = << <<2, 3>> >> /\ s = <<1>> /\ status # 200
  <2>1. Head(t) = <<2, 3>> /\ k = 2 /\ z = <<>>
    BY <1>1, <1>2, <1>3, <1>5, <1>10
  <2>2. Len(t) = 1
    BY <1>1, <1>2, <1>10
  <2>3. <<t, s>> \in Stations(status)
    BY <1>10 DEF Stations
  <2>4. CASE n = 1
    <3>1. v = <<1>> \o SubSeq(<<2, 3>>, 1, 1)
      BY <2>1, <2>4, <1>5, <1>10
    <3>2. v = <<1, 2>> /\ v \in Seq(Nat)
      BY <3>1, <1>4, Parted, Sent, Pieces
    <3>3. <<z, v>> \in CutStations
      BY <2>1, <3>2, <1>10 DEF Stations, CutStations
    <3>4. QED
      BY <2>1, <2>2, <2>3, <2>4, <3>2, <3>3
  <2>5. CASE n = 2
    <3>1. v = <<1>> \o SubSeq(<<2, 3>>, 1, 2)
      BY <2>1, <2>5, <1>5, <1>10
    <3>2. v = <<1, 2, 3>> /\ v \in Seq(Nat)
      BY <3>1, <1>4, Parted, Sent, Pieces
    <3>3. <<z, v>> \in Stations(status)
      BY <2>1, <3>2, <1>10 DEF Stations, CutStations
    <3>4. QED
      BY <2>1, <2>2, <2>3, <2>5, <3>2, <3>3
  <2>6. n \in 1 .. 2
    BY <2>1, <1>5a, SMTT(30)
  <2>7. QED
    BY <2>6, <2>4, <2>5
<1>11. CASE t = << <<4>> >> /\ s = <<1, 2>>
  <2>1. Head(t) = <<4>> /\ k = 1 /\ z = <<>>
    BY <1>1, <1>2, <1>3, <1>5, <1>11
  <2>2. Len(t) = 1
    BY <1>1, <1>2, <1>11
  <2>3. <<t, s>> \notin Stations(status)
    <3>1. <<1, 2>> # <<1>> /\ <<1, 2>> # <<>> /\ <<1, 2>> # <<1, 2, 3>> /\ <<1, 2>> # <<1, 2, 3, 4>>
      OBVIOUS
    <3>2. QED
      BY <3>1, <1>11 DEF Stations
  <2>4. CASE n = 1
    <3>1. v = <<1, 2>> \o SubSeq(<<4>>, 1, 1)
      BY <2>1, <2>4, <1>5, <1>11
    <3>2. v = <<1, 2, 4>> /\ v \in Seq(Nat)
      BY <3>1, <1>4, Parted, Sent, Pieces
    <3>3. <<z, v>> \in CutStations
      BY <2>1, <3>2, <1>11 DEF Stations, CutStations
    <3>4. QED
      BY <2>1, <2>2, <2>3, <2>4, <3>2, <3>3
  <2>5. n \in 1 .. 1
    BY <2>1, <1>5a, SMTT(30)
  <2>6. QED
    BY <2>5, <2>4
<1>12. QED
  <2>1. t # <<>> /\ <<t, s>> \in Stations(status) \cup CutStations
    OBVIOUS
  <2>2. QED
    BY <2>1, <1>6, <1>7, <1>8, <1>9, <1>10, <1>11 DEF Stations, CutStations

-----------------------------------------------------------------------------
(* The threads *)

\* A step changes nothing of a thread but c's.
Beside(c) ==
  /\ http' \in [Clients -> HttpStates] /\ DOMAIN answer' = Clients /\ DOMAIN todo' = Clients
  /\ call' \in [Clients -> Call \cup {None}] /\ DOMAIN result' = Clients
  /\ sent' \in [Clients -> Seq(Nat)] /\ cut' \in [Clients -> BOOLEAN]
  /\ \A b \in Clients \ {c} :
       /\ http'[b] = http[b] /\ answer'[b] = answer[b] /\ todo'[b] = todo[b]
       /\ call'[b] = call[b] /\ sent'[b] = sent[b] /\ cut'[b] = cut[b]

\* A step of c's thread that is not a recv changes what is c's, and receives nothing.
LEMMA ThreadKeeps ==
  ASSUME ServerInv, NEW c \in Clients, http[c] # "idle", Beside(c),
         UNCHANGED <<descriptors, outbox, inbox, peer, sock, open, received, taken, setVars>>,
         Held(c)' = Held(c), Stage(c)', Reading(c)', Responding(c)'
  PROVE  ServerInv'
<1>1. TypeOK /\ Owned /\ Queued /\ Stream(c)
  BY DEF ServerInv, ClientOK
<1>2. TypeOK'
  BY <1>1 DEF TypeOK, DescriptorTypes, setVars, Beside
<1>3. \A b \in Clients \ {c} : Same(b)
  BY <1>1 DEF TypeOK, Same, Beside
<1>4. Owned'
  BY <1>1, OwnedStays
<1>5. Queued'
  <2>1. \A b \in Clients : http[b] = "idle" => http'[b] = "idle"
    BY DEF Beside
  <2>2. QED
    BY <1>1, <2>1, QueuedStays
<1>6. Stream(c)'
  <2>1. Bytes(c)' = Bytes(c) /\ received' = received /\ peer' = peer /\ inbox' = inbox /\ outbox' = outbox
    BY DEF Bytes
  <2>2. QED
    BY <1>1, <2>1 DEF Stream
<1>7. QED
  BY <1>2, <1>3, <1>4, <1>5, <1>6, Together DEF ClientOK

\* A read begins with nothing.
LEMMA BeginIs ==
  ASSUME TypeOK, NEW c \in Clients, call[c] = None, NEW kind, NEW size, Begin(c, kind, size),
         kind \in {"line", "value", "upto"}, size \in Nat \ {0}
  PROVE  /\ call' \in [Clients -> Call \cup {None}] /\ DOMAIN result' = Clients
         /\ \A b \in Clients \ {c} : call'[b] = call[b]
         /\ call'[c] # None /\ call'[c].kind = kind /\ call'[c].size = size
         /\ call'[c].line = <<>> /\ Len(call'[c].got) < call'[c].size
         /\ Held(c)' = Held(c)
<1>1. PICK k : k = [kind |-> kind, size |-> size, got |-> <<>>, line |-> <<>>]
  OBVIOUS
<1>2. k \in Call
  BY <1>1 DEF Call
<1>3. k.kind = kind /\ k.size = size /\ k.got = <<>> /\ k.line = <<>>
  BY <1>1
<1>4. call' = [call EXCEPT ![c] = k] /\ DOMAIN result' = Clients
  BY <1>1 DEF Begin, TypeOK
<1>5. call' \in [Clients -> Call \cup {None}] /\ call'[c] = k /\ \A b \in Clients \ {c} : call'[b] = call[b]
  <2>1. call \in [Clients -> Call \cup {None}]
    BY DEF TypeOK
  <2>2. QED
    BY <1>2, <1>4, <2>1
<1>6. k # None
  BY <1>2, ConnectionAssumption
<1>7. <<>> \o <<>> = <<>> /\ Len(<<>>) = 0
  BY EmptySeq, ConcatEmptySeq
<1>8. Held(c)' = <<>> /\ Held(c) = <<>>
  BY <1>3, <1>5, <1>6, <1>7 DEF Held
<1>9. QED
  BY <1>3, <1>4, <1>5, <1>6, <1>7, <1>8

LEMMA BeginReadKeeps ==
  ASSUME ServerInv, NEW c \in Clients, BeginRead(c)
  PROVE  ServerInv'
<1>1. TypeOK /\ ClientOK(c)
  BY DEF ServerInv
<1>2. PICK r \in Reads : Begin(c, r.kind, r.size)
  BY DEF BeginRead
<1>3. r.kind \in {"line", "value", "upto"} /\ r.size \in Nat \ {0} /\ (r.kind = "line" => r.size = 1)
  BY ReadsAssumption
<1>4. http[c] = "reading" /\ sock[c] # 0 /\ call[c] = None /\ open[c]
  BY DEF BeginRead
<1>5. /\ call' \in [Clients -> Call \cup {None}] /\ DOMAIN result' = Clients
      /\ \A b \in Clients \ {c} : call'[b] = call[b]
      /\ call'[c] # None /\ call'[c].kind = r.kind /\ call'[c].size = r.size
      /\ call'[c].line = <<>> /\ Len(call'[c].got) < call'[c].size
      /\ Held(c)' = Held(c)
  BY <1>1, <1>2, <1>3, <1>4, BeginIs
<1>6. /\ UNCHANGED <<descriptors, outbox, inbox, peer, sock, open, received, taken, setVars>>
      /\ sent' = sent /\ cut' = cut /\ http' = http /\ answer' = answer /\ todo' = todo
  BY DEF BeginRead, sendVars, httpVars
<1>7. Beside(c)
  BY <1>1, <1>5, <1>6 DEF Beside, TypeOK
<1>8. Stage(c)' /\ Responding(c)'
  BY <1>1, <1>6 DEF ClientOK, Stage, Responding
<1>9. Reading(c)'
  BY <1>1, <1>3, <1>4, <1>5, <1>6 DEF ClientOK, Reading, Stage
<1>10. QED
  BY <1>4, <1>5, <1>6, <1>7, <1>8, <1>9, ThreadKeeps

\* An HttpServer begins to read a line: in a state with an open connection.
LEMMA ReadLineKeeps ==
  ASSUME ServerInv, NEW c \in Clients, call[c] = None, ReadLine(c),
         http[c] \in {"new", "request", "headers"}, http'[c] \in {"request", "headers"},
         http' \in [Clients -> HttpStates], DOMAIN answer' = Clients,
         \A b \in Clients \ {c} : http'[b] = http[b] /\ answer'[b] = answer[b],
         http'[c] = "request" => answer'[c] = None,
         http'[c] = "headers" => "status" \in DOMAIN answer'[c],
         UNCHANGED <<descriptors, outbox, inbox, peer, sock, open, todo, sendVars, setVars>>
  PROVE  ServerInv'
<1>1. TypeOK /\ ClientOK(c)
  BY DEF ServerInv
<1>2. Begin(c, "line", 1) /\ received' = received
  BY DEF ReadLine
<1>3. /\ call' \in [Clients -> Call \cup {None}] /\ DOMAIN result' = Clients
      /\ \A b \in Clients \ {c} : call'[b] = call[b]
      /\ call'[c] # None /\ call'[c].kind = "line" /\ call'[c].size = 1
      /\ call'[c].line = <<>> /\ Len(call'[c].got) < call'[c].size
      /\ Held(c)' = Held(c)
  BY <1>1, <1>2, BeginIs
<1>4. Beside(c)
  BY <1>1, <1>3 DEF Beside, TypeOK, sendVars
<1>5. Stage(c)'
  BY <1>1 DEF ClientOK, Stage
<1>6. Reading(c)'
  BY <1>1, <1>3 DEF ClientOK, Reading, Stage
<1>7. Responding(c)'
  BY <1>1 DEF ClientOK, Responding, sendVars
<1>8. QED
  BY <1>2, <1>3, <1>4, <1>5, <1>6, <1>7, ThreadKeeps DEF sendVars

LEMMA BecomesIs ==
  ASSUME TypeOK, NEW c \in Clients, NEW state \in HttpStates, Becomes(c, state)
  PROVE  /\ http' \in [Clients -> HttpStates] /\ http'[c] = state
         /\ \A b \in Clients \ {c} : http'[b] = http[b]
  BY DEF TypeOK, Becomes

LEMMA RunBeginsKeeps ==
  ASSUME ServerInv, NEW c \in Clients, RunBegins(c),
         UNCHANGED <<descriptors, outbox, inbox, peer, sock, open, sendVars, setVars>>
  PROVE  ServerInv'
<1>1. TypeOK /\ ClientOK(c)
  BY DEF ServerInv
<1>2. /\ http' \in [Clients -> HttpStates] /\ http'[c] = "request"
      /\ \A b \in Clients \ {c} : http'[b] = http[b]
  BY <1>1, BecomesIs DEF RunBegins, HttpStates
<1>3. http[c] = "new" /\ ReadLine(c) /\ answer' = answer /\ todo' = todo
  BY DEF RunBegins
<1>4. call[c] = None /\ answer[c] = None
  BY <1>1, <1>3 DEF ClientOK, Reading, Stage
<1>5. QED
  BY <1>1, <1>2, <1>3, <1>4, ReadLineKeeps DEF TypeOK

LEMMA RequestReadKeeps ==
  ASSUME ServerInv, NEW c \in Clients, RequestRead(c),
         UNCHANGED <<descriptors, outbox, inbox, peer, sock, open, sendVars, setVars>>
  PROVE  ServerInv'
<1>1. TypeOK /\ ClientOK(c)
  BY DEF ServerInv
<1>2. http[c] = "request" /\ call[c] = None /\ todo' = todo
  BY DEF RequestRead, HasRead
<1>3. CASE Becomes(c, "over") /\ UNCHANGED <<call, result, received, answer>>
  <2>1. /\ http' \in [Clients -> HttpStates] /\ http'[c] = "over"
        /\ \A b \in Clients \ {c} : http'[b] = http[b]
    BY <1>1, <1>3, BecomesIs DEF HttpStates
  <2>2. Beside(c)
    BY <1>1, <1>2, <1>3, <2>1 DEF Beside, TypeOK, sendVars
  <2>3. Held(c)' = Held(c)
    BY <1>3 DEF Held
  <2>4. Stage(c)'
    BY <1>1, <1>2, <2>1 DEF ClientOK, Stage
  <2>5. Reading(c)'
    BY <1>2, <1>3 DEF Reading
  <2>6. Responding(c)'
    <3>1. sent[c] = <<>> /\ todo[c] = <<>>
      BY <1>1, <1>2 DEF ClientOK, Responding
    <3>2. answer[c] = None
      BY <1>1, <1>2 DEF ClientOK, Stage
    <3>3. QED
      BY <1>2, <1>3, <2>1, <3>1, <3>2 DEF Responding, sendVars
  <2>7. QED
    BY <1>2, <1>3, <2>1, <2>2, <2>3, <2>4, <2>5, <2>6, ThreadKeeps DEF sendVars
<1>4. CASE /\ Becomes(c, "headers") /\ ReadLine(c)
           /\ \E m, p : answer' = [answer EXCEPT ![c] = [status |-> 0, method |-> m, path |-> p]]
  <2>1. /\ http' \in [Clients -> HttpStates] /\ http'[c] = "headers"
        /\ \A b \in Clients \ {c} : http'[b] = http[b]
    BY <1>1, <1>4, BecomesIs DEF HttpStates
  <2>2. PICK m, p : answer' = [answer EXCEPT ![c] = [status |-> 0, method |-> m, path |-> p]]
    BY <1>4
  <2>3. /\ DOMAIN answer' = Clients /\ "status" \in DOMAIN answer'[c]
        /\ \A b \in Clients \ {c} : answer'[b] = answer[b]
    BY <1>1, <2>2 DEF TypeOK
  <2>4. QED
    BY <1>2, <1>4, <2>1, <2>3, ReadLineKeeps
<1>5. QED
  <2>1. PICK parts : parts = Parts(result[c])
    OBVIOUS
  <2>2. CASE Len(parts) < 3
    BY <1>3, <2>1, <2>2 DEF RequestRead
  <2>3. CASE ~ (Len(parts) < 3)
    BY <1>4, <2>1, <2>3 DEF RequestRead
  <2>4. QED
    BY <2>2, <2>3

LEMMA HeaderReadKeeps ==
  ASSUME ServerInv, NEW c \in Clients, HeaderRead(c),
         UNCHANGED <<descriptors, outbox, inbox, peer, sock, open, sendVars, setVars>>
  PROVE  ServerInv'
<1>1. TypeOK /\ ClientOK(c)
  BY DEF ServerInv
<1>2. http[c] = "headers" /\ call[c] = None
  BY DEF HeaderRead, HasRead
<1>3. CASE ReadLine(c) /\ UNCHANGED httpVars
  BY <1>1, <1>2, <1>3, ReadLineKeeps DEF httpVars, TypeOK, ClientOK, Stage
<1>4. CASE /\ Becomes(c, "sending") /\ UNCHANGED <<call, result, received>>
           /\ answer' = [answer EXCEPT ![c].status = Status(answer[c])]
           /\ todo' = [todo EXCEPT ![c] = Response(Status(answer[c]))]
  <2>1. /\ http' \in [Clients -> HttpStates] /\ http'[c] = "sending"
        /\ \A b \in Clients \ {c} : http'[b] = http[b]
    BY <1>1, <1>4, BecomesIs DEF HttpStates
  <2>2. PICK status : status = Status(answer[c])
    OBVIOUS
  <2>3. /\ DOMAIN answer' = Clients /\ answer'[c].status = status
        /\ \A b \in Clients \ {c} : answer'[b] = answer[b]
    <3>1. answer'[c] = [answer[c] EXCEPT !.status = status]
      BY <1>1, <1>4, <2>2 DEF TypeOK
    <3>2. "status" \in DOMAIN answer[c]
      BY <1>1, <1>2 DEF ClientOK, Stage
    <3>3. answer'[c].status = status
      BY <3>1, <3>2
    <3>4. QED
      BY <1>1, <1>4, <3>3 DEF TypeOK
  <2>4. /\ DOMAIN todo' = Clients /\ todo'[c] = Response(status)
        /\ \A b \in Clients \ {c} : todo'[b] = todo[b]
    BY <1>1, <1>4, <2>2 DEF TypeOK
  <2>5. Beside(c)
    BY <1>1, <1>4, <2>1, <2>3, <2>4 DEF Beside, TypeOK, sendVars
  <2>6. Held(c)' = Held(c)
    BY <1>4 DEF Held
  <2>7. Stage(c)'
    BY <1>1, <1>2, <2>1 DEF ClientOK, Stage
  <2>8. Reading(c)'
    BY <1>2, <1>4 DEF Reading
  <2>9. Responding(c)'
    <3>1. sent'[c] = <<>>
      BY <1>1, <1>2 DEF ClientOK, Responding, sendVars
    <3>2. <<Response(status), <<>> >> \in Stations(status) /\ Response(status) # <<>>
      BY DEF Response, Stations
    <3>3. QED
      BY <2>1, <2>3, <2>4, <3>1, <3>2 DEF Responding
  <2>10. QED
    BY <1>2, <1>4, <2>1, <2>5, <2>6, <2>7, <2>8, <2>9, ThreadKeeps DEF sendVars
<1>5. QED
  BY <1>3, <1>4 DEF HeaderRead

\* Where the response of a connection that is sending has come
LEMMA SendingAt ==
  ASSUME NEW c \in Clients, Responding(c), http[c] = "sending"
  PROVE  /\ todo[c] # <<>>
         /\ <<todo[c], sent[c]>> \in Stations(answer[c].status) \cup CutStations
         /\ <<todo[c], sent[c]>> \in Stations(answer[c].status) \/ cut[c]
  BY DEF Responding

LEMMA SendKeeps ==
  ASSUME ServerInv, NEW c \in Clients, Send(c),
         UNCHANGED <<descriptors, outbox, inbox, peer, sock, open, setVars>>
  PROVE  ServerInv'
<1>1. TypeOK /\ ClientOK(c)
  BY DEF ServerInv
<1>2. http[c] = "sending" /\ Other(c) = c
  BY <1>1, OwnDescriptor DEF Send, ClientOK, Stage
<1>3. PICK t, s, status : t = todo[c] /\ s = sent[c] /\ status = answer[c].status
  OBVIOUS
<1>4. /\ t # <<>> /\ <<t, s>> \in Stations(status) \cup CutStations
      /\ <<t, s>> \in Stations(status) \/ cut[c]
  BY <1>1, <1>2, <1>3, SendingAt DEF ClientOK
<1>5. Head(t) \in Seq(Nat)
  <2>1. \/ t = << <<1>>, <<2, 3>>, <<4>> >> \/ t = << <<2, 3>>, <<4>> >> \/ t = << <<4>> >>
        \/ t = << <<1>>, <<2, 3>> >> \/ t = << <<2, 3>> >>
    BY <1>4 DEF Stations, CutStations
  <2>2. Head(t) = <<1>> \/ Head(t) = <<2, 3>> \/ Head(t) = <<4>>
    BY <2>1
  <2>3. QED
    BY <2>2, Pieces
<1>6. PICK n : n = Min({Len(Head(t)), Room(c)})
  OBVIOUS
<1>7. /\ n > 0 /\ taken' = taken
      /\ sent' = [sent EXCEPT ![c] = sent[c] \o SubSeq(Head(t), 1, n)]
      /\ cut' = [cut EXCEPT ![c] = cut[c] \/ n < Len(Head(t))]
  BY <1>2, <1>3, <1>6 DEF Send, SendTakes
<1>8. n \in Nat /\ 0 < n /\ n <= Len(Head(t))
  <2>1. Room(c) \in Int
    BY <1>1, <1>2, ConnectionAssumption DEF Room, TypeOK
  <2>2. PICK x \in Nat, y \in Int : x = Len(Head(t)) /\ y = Room(c)
    BY <1>5, <2>1
  <2>3. Min({x, y}) = IF x <= y THEN x ELSE y
    BY MinOfTwo
  <2>4. n = IF x <= y THEN x ELSE y
    BY <1>6, <2>2, <2>3
  <2>5. QED
    BY <1>7, <2>2, <2>4
<1>9. PICK v, z : v = s \o SubSeq(Head(t), 1, n) /\ z = Tail(t)
  OBVIOUS
<1>10. /\ v \in Seq(Nat)
       /\ \/ <<t, s>> \in Stations(status) /\ n = Len(Head(t)) /\ <<z, v>> \in Stations(status)
          \/ (<<t, s>> \in Stations(status) => n < Len(Head(t))) /\ <<z, v>> \in CutStations
       /\ Len(t) # 1 => z # <<>>
  BY <1>4, <1>8, <1>9, OneSend
<1>11. PICK x \in BOOLEAN : x = (cut[c] \/ n < Len(Head(t)))
  OBVIOUS
<1>12. <<z, v>> \in Stations(status) \/ (<<z, v>> \in CutStations /\ x)
  BY <1>4, <1>10, <1>11
<1>13. /\ sent' \in [Clients -> Seq(Nat)] /\ sent'[c] = v
       /\ \A b \in Clients \ {c} : sent'[b] = sent[b]
  BY <1>1, <1>3, <1>7, <1>9, <1>10 DEF TypeOK
<1>14. /\ cut' \in [Clients -> BOOLEAN] /\ cut'[c] = x
       /\ \A b \in Clients \ {c} : cut'[b] = cut[b]
  BY <1>1, <1>7, <1>11 DEF TypeOK
<1>15. /\ DOMAIN todo' = Clients /\ todo'[c] = z
       /\ \A b \in Clients \ {c} : todo'[b] = todo[b]
  BY <1>1, <1>3, <1>9 DEF TypeOK, Send
<1>16. /\ http' \in [Clients -> HttpStates] /\ http'[c] \in {"sending", "over"}
       /\ http'[c] = "sending" => z # <<>>
       /\ \A b \in Clients \ {c} : http'[b] = http[b]
  <2>1. CASE Len(t) = 1
    <3>1. Becomes(c, "over")
      BY <1>3, <2>1 DEF Send
    <3>2. QED
      BY <1>1, <3>1, BecomesIs DEF HttpStates
  <2>2. CASE Len(t) # 1
    <3>1. http' = http
      BY <1>3, <2>2 DEF Send
    <3>2. QED
      BY <1>1, <1>2, <1>10, <2>2, <3>1 DEF TypeOK
  <2>3. QED
    BY <2>1, <2>2
<1>17. call' = call /\ result' = result /\ received' = received /\ answer' = answer
  BY DEF Send
<1>18. Beside(c)
  BY <1>1, <1>13, <1>14, <1>15, <1>16, <1>17 DEF Beside, TypeOK
<1>19. Held(c)' = Held(c)
  BY <1>17 DEF Held
<1>20. Stage(c)'
  BY <1>1, <1>2, <1>16, <1>17 DEF ClientOK, Stage
<1>21. Reading(c)'
  <2>1. call[c] = None
    BY <1>1, <1>2 DEF ClientOK, Reading
  <2>2. QED
    BY <1>17, <2>1 DEF Reading
<1>22. Responding(c)'
  BY <1>3, <1>12, <1>13, <1>14, <1>15, <1>16, <1>17 DEF Responding
<1>23. QED
  BY <1>2, <1>7, <1>17, <1>18, <1>19, <1>20, <1>21, <1>22, ThreadKeeps

LEMMA SendFailsKeeps ==
  ASSUME ServerInv, NEW c \in Clients, SendFails(c),
         UNCHANGED <<descriptors, outbox, inbox, peer, sock, open, setVars>>
  PROVE  ServerInv'
<1>1. TypeOK /\ ClientOK(c)
  BY DEF ServerInv
<1>2. /\ http[c] = "sending" /\ Becomes(c, "over")
      /\ call' = call /\ result' = result /\ received' = received /\ answer' = answer /\ todo' = todo
      /\ cut' = [cut EXCEPT ![c] = TRUE] /\ sent' = sent /\ taken' = taken
  BY DEF SendFails, SendThrows
<1>3. /\ http' \in [Clients -> HttpStates] /\ http'[c] = "over"
      /\ \A b \in Clients \ {c} : http'[b] = http[b]
  BY <1>1, <1>2, BecomesIs DEF HttpStates
<1>4. cut' \in [Clients -> BOOLEAN] /\ cut'[c] /\ \A b \in Clients \ {c} : cut'[b] = cut[b]
  BY <1>1, <1>2 DEF TypeOK
<1>5. Beside(c)
  BY <1>1, <1>2, <1>3, <1>4 DEF Beside, TypeOK
<1>6. Held(c)' = Held(c)
  BY <1>2 DEF Held
<1>7. Stage(c)'
  BY <1>1, <1>2, <1>3 DEF ClientOK, Stage
<1>8. Reading(c)'
  <2>1. call[c] = None
    BY <1>1, <1>2 DEF ClientOK, Reading
  <2>2. QED
    BY <1>2, <2>1 DEF Reading
<1>9. Responding(c)'
  <2>1. <<todo[c], sent[c]>> \in Stations(answer[c].status) \cup CutStations
    BY <1>1, <1>2, SendingAt DEF ClientOK
  <2>2. QED
    BY <1>2, <1>3, <1>4, <2>1 DEF Responding
<1>10. QED
  BY <1>2, <1>3, <1>5, <1>6, <1>7, <1>8, <1>9, ThreadKeeps

-----------------------------------------------------------------------------
(* Descriptors *)

\* Giving back a connection's own descriptor leaves the others theirs.
LEMMA OthersOwn ==
  ASSUME TypeOK, Owned, NEW c \in Clients, sock[c] # 0, open[c], NEW b \in Clients \ {c},
         sock[b] # 0, open[b], descriptors' = [descriptors EXCEPT ![sock[c]] = None]
  PROVE  descriptors'[sock[b]] = b
<1>1. descriptors[sock[c]] = c /\ descriptors[sock[b]] = b
  BY DEF Owned
<1>2. sock[b] # sock[c]
  BY <1>1
<1>3. sock[b] \in DOMAIN descriptors
  BY DEF TypeOK
<1>4. QED
  BY <1>1, <1>2, <1>3

LEMMA DescriptorsTyped ==
  ASSUME DescriptorTypes, NEW d, NEW x \in Clients \cup Ports \cup {None},
         descriptors' = [descriptors EXCEPT ![d] = x]
  PROVE  DescriptorTypes' /\ DOMAIN descriptors' = DOMAIN descriptors
<1>1. PICK n \in Limits : descriptors \in [1 .. n -> Clients \cup Ports \cup {None}]
  BY DEF DescriptorTypes
<1>2. descriptors' \in [1 .. n -> Clients \cup Ports \cup {None}]
  BY <1>1
<1>3. QED
  BY <1>1, <1>2 DEF DescriptorTypes

LEMMA CloseKeeps ==
  ASSUME ServerInv, NEW c \in Clients, http[c] = "reading", Close(c), UNCHANGED <<httpVars, setVars>>
  PROVE  ServerInv'
<1>1. TypeOK /\ Owned /\ Queued /\ ClientOK(c)
  BY DEF ServerInv
<1>2. /\ sock[c] # 0 /\ open[c] /\ call[c] = None /\ open' = [open EXCEPT ![c] = FALSE]
      /\ descriptors' = [descriptors EXCEPT ![sock[c]] = None]
  BY DEF Close
<1>3. DescriptorTypes' /\ DOMAIN descriptors' = DOMAIN descriptors
  BY <1>1, <1>2, DescriptorsTyped DEF TypeOK
<1>4. open' \in [Clients -> BOOLEAN] /\ open'[c] = FALSE /\ \A b \in Clients \ {c} : open'[b] = open[b]
  BY <1>1, <1>2 DEF TypeOK
<1>5. TypeOK'
  BY <1>1, <1>3, <1>4 DEF TypeOK, Close, sendVars, httpVars, setVars
<1>6. \A b \in Clients \ {c} : Same(b)
  BY <1>4 DEF Same, Close, sendVars, httpVars
<1>7. Owned'
  <2> SUFFICES ASSUME NEW b \in Clients, sock'[b] # 0, open'[b]
               PROVE  descriptors'[sock'[b]] = b
    BY DEF Owned
  <2>1. sock' = sock /\ b # c
    BY <1>4 DEF Close
  <2>2. QED
    BY <1>1, <1>2, <1>4, <2>1, OthersOwn
<1>8. Queued'
  BY <1>1, QueuedStays DEF Close, httpVars
<1>9. ClientOK(c)'
  <2>1. Stage(c)' /\ Reading(c)' /\ Responding(c)'
    BY <1>1, <1>2, <1>4 DEF ClientOK, Stage, Reading, Responding, Close, sendVars, httpVars
  <2>2. Bytes(c)' = Bytes(c) /\ Held(c)' = Held(c)
    BY DEF Close, Bytes, Held
  <2>3. QED
    BY <1>1, <2>1, <2>2 DEF ClientOK, Stream, Close
<1>10. QED
  BY <1>5, <1>6, <1>7, <1>8, <1>9, Together

LEMMA DestroyKeeps ==
  ASSUME ServerInv, NEW c \in Clients, http[c] \in {"over", "reading"}, Destroy(c), open[c],
         UNCHANGED <<httpVars, setVars>>
  PROVE  ServerInv'
<1>1. TypeOK /\ Owned /\ Queued /\ ClientOK(c)
  BY DEF ServerInv
<1>2. /\ sock[c] # 0 /\ call[c] = None /\ sock' = [sock EXCEPT ![c] = 0]
      /\ descriptors' = [descriptors EXCEPT ![sock[c]] = None]
  BY DEF Destroy
<1>3. DescriptorTypes' /\ DOMAIN descriptors' = DOMAIN descriptors
  BY <1>1, <1>2, DescriptorsTyped DEF TypeOK
<1>4. /\ sock' \in [Clients -> {0} \cup DOMAIN descriptors'] /\ sock'[c] = 0
      /\ \A b \in Clients \ {c} : sock'[b] = sock[b]
  BY <1>1, <1>2, <1>3 DEF TypeOK
<1>5. TypeOK'
  BY <1>1, <1>3, <1>4 DEF TypeOK, Destroy, sendVars, httpVars, setVars
<1>6. \A b \in Clients \ {c} : Same(b)
  BY <1>4 DEF Same, Destroy, sendVars, httpVars
<1>7. Owned'
  <2> SUFFICES ASSUME NEW b \in Clients, sock'[b] # 0, open'[b]
               PROVE  descriptors'[sock'[b]] = b
    BY DEF Owned
  <2>1. open' = open /\ b # c
    BY <1>4 DEF Destroy
  <2>2. QED
    BY <1>1, <1>2, <1>4, <2>1, OthersOwn
<1>8. Queued'
  BY <1>1, QueuedStays DEF Destroy, httpVars
<1>9. ClientOK(c)'
  <2>1. Stage(c)' /\ Reading(c)' /\ Responding(c)'
    BY <1>1, <1>2, <1>4 DEF ClientOK, Stage, Reading, Responding, Destroy, sendVars, httpVars
  <2>2. Bytes(c)' = Bytes(c) /\ Held(c)' = Held(c)
    BY DEF Destroy, Bytes, Held
  <2>3. QED
    BY <1>1, <2>1, <2>2 DEF ClientOK, Stream, Destroy
<1>10. QED
  BY <1>5, <1>6, <1>7, <1>8, <1>9, Together

\* The lowest free descriptor, which is nobody's
LEMMA FreeOne ==
  ASSUME TypeOK, Owned, Free # {}
  PROVE  /\ Min(Free) \in DOMAIN descriptors /\ Min(Free) # 0 /\ descriptors[Min(Free)] = None
         /\ \A b \in Clients : sock[b] # 0 /\ open[b] => sock[b] # Min(Free)
<1>1. PICK n \in Limits : descriptors \in [1 .. n -> Clients \cup Ports \cup {None}]
  BY DEF TypeOK, DescriptorTypes
<1>2. n \in Nat
  BY ConnectionAssumption
<1>3. Free \in SUBSET Nat /\ \A d \in Free : d # 0
  BY <1>1, <1>2 DEF Free
<1>4. Min(Free) \in Free
  BY <1>3, MinIn
<1>5. Min(Free) \in DOMAIN descriptors /\ descriptors[Min(Free)] = None /\ Min(Free) # 0
  BY <1>3, <1>4 DEF Free
<1>6. \A b \in Clients : sock[b] # 0 /\ open[b] => sock[b] # Min(Free)
  BY <1>5, ConnectionAssumption DEF Owned
<1>7. QED
  BY <1>5, <1>6

-----------------------------------------------------------------------------
(* The loop *)

LEMMA ConnectKeeps ==
  ASSUME ServerInv, NEW c \in Clients, Connect(c), UNCHANGED httpVars
  PROVE  ServerInv'
<1>1. TypeOK /\ Owned /\ Queued /\ ClientOK(c)
  BY DEF ServerInv
<1>2. PICK d \in DOMAIN listening : backlog' = [backlog EXCEPT ![d] = Append(@, c)]
  BY DEF Connect
<1>3. peer[c] = "away" /\ peer' = [peer EXCEPT ![c] = "open"]
  BY DEF Connect
<1>4. http[c] = "idle" /\ sock[c] = 0 /\ ~open[c]
  BY <1>1, <1>3 DEF ClientOK, Stage
<1>5. backlog \in [DOMAIN listening -> Seq(Clients)]
  BY <1>1 DEF TypeOK
<1>6a. PICK q \in Seq(Clients) : q = backlog[d]
  BY <1>2, <1>5
<1>6b. PICK n \in Nat : n = Len(q)
  BY LenProperties
<1>6c. PICK q2 : q2 = Append(q, c)
  OBVIOUS
<1>6. /\ q2 \in Seq(Clients) /\ Len(q2) = n + 1 /\ q2[n + 1] = c
      /\ \A i \in 1 .. n : q2[i] = q[i]
  BY <1>6b, <1>6c, AppendProperties
<1>7. backlog' = [backlog EXCEPT ![d] = q2]
  BY <1>2, <1>6a, <1>6c
<1>8. /\ backlog' \in [DOMAIN listening -> Seq(Clients)] /\ backlog'[d] = q2
      /\ \A e \in DOMAIN listening \ {d} : backlog'[e] = backlog[e]
  BY <1>2, <1>5, <1>7
<1>9. listening' = listening /\ loop' = loop /\ ready' = ready /\ http' = http
  BY DEF Connect, httpVars
<1>10. /\ peer' \in [Clients -> {"away", "open", "closed", "reset"}] /\ peer'[c] = "open"
       /\ \A b \in Clients \ {c} : peer'[b] = peer[b]
  BY <1>1, <1>3 DEF TypeOK
<1>11. TypeOK'
  BY <1>1, <1>8, <1>9, <1>10 DEF TypeOK, DescriptorTypes, Connect, sendVars, httpVars
<1>12. \A b \in Clients \ {c} : Same(b)
  BY <1>10 DEF Same, Connect, sendVars, httpVars
<1>13. Owned'
  BY <1>1, OwnedStays DEF Connect
<1>14. Queued'
  \* Every place of before holds whom it held; the new one holds c, who was nowhere.
  <2>1. DOMAIN q = 1 .. n /\ DOMAIN q2 = 1 .. n + 1
    BY <1>6, <1>6b, LenProperties
  <2>2. \A e \in DOMAIN listening : \A i \in DOMAIN backlog'[e] :
          \/ i \in DOMAIN backlog[e] /\ backlog'[e][i] = backlog[e][i]
          \/ e = d /\ i = n + 1 /\ backlog'[e][i] = c
    <3> SUFFICES ASSUME NEW e \in DOMAIN listening, NEW i \in DOMAIN backlog'[e]
                 PROVE  \/ i \in DOMAIN backlog[e] /\ backlog'[e][i] = backlog[e][i]
                        \/ e = d /\ i = n + 1 /\ backlog'[e][i] = c
      OBVIOUS
    <3>1. CASE e # d
      BY <1>8, <3>1
    <3>2. CASE e = d /\ i = n + 1
      BY <1>6, <1>8, <3>2
    <3>3. CASE e = d /\ i # n + 1
      <4>1. i \in 1 .. n + 1 /\ n \in Int
        BY <1>8, <2>1, <3>3
      <4>2. i \in 1 .. n
        BY <3>3, <4>1
      <4>3. q2[i] = q[i]
        BY <1>6, <4>2
      <4>4. QED
        BY <1>6a, <1>8, <2>1, <3>3, <4>2, <4>3
    <3>4. QED
      BY <3>1, <3>2, <3>3
  <2>3. \A e \in DOMAIN listening : \A i \in DOMAIN backlog[e] : backlog[e][i] \in Clients \ {c}
    <3> SUFFICES ASSUME NEW e \in DOMAIN listening, NEW i \in DOMAIN backlog[e]
                 PROVE  backlog[e][i] \in Clients \ {c}
      OBVIOUS
    <3>1. backlog[e][i] \in Clients
      BY <1>5
    <3>2. peer[backlog[e][i]] # "away"
      BY <1>1, <1>5 DEF Queued
    <3>3. QED
      BY <1>3, <3>1, <3>2
  <2>4. \A e \in DOMAIN backlog' : \A i \in DOMAIN backlog'[e] :
          peer'[backlog'[e][i]] # "away" /\ http'[backlog'[e][i]] = "idle"
    <3> SUFFICES ASSUME NEW e \in DOMAIN listening, NEW i \in DOMAIN backlog'[e]
                 PROVE  peer'[backlog'[e][i]] # "away" /\ http'[backlog'[e][i]] = "idle"
      BY <1>8
    <3>1. CASE i \in DOMAIN backlog[e] /\ backlog'[e][i] = backlog[e][i]
      <4>1. peer[backlog[e][i]] # "away" /\ http[backlog[e][i]] = "idle"
        BY <1>1, <1>5, <3>1 DEF Queued
      <4>2. backlog[e][i] \in Clients \ {c}
        BY <2>3, <3>1
      <4>3. QED
        BY <1>9, <1>10, <3>1, <4>1, <4>2
    <3>2. CASE backlog'[e][i] = c
      BY <1>4, <1>9, <1>10, <3>2
    <3>3. QED
      BY <2>2, <3>1, <3>2
  <2>5. \A e \in DOMAIN backlog' : \A i \in DOMAIN backlog'[e] :
          \A g \in DOMAIN backlog' : \A j \in DOMAIN backlog'[g] :
            backlog'[e][i] = backlog'[g][j] => e = g /\ i = j
    <3> SUFFICES ASSUME NEW e \in DOMAIN listening, NEW i \in DOMAIN backlog'[e],
                        NEW g \in DOMAIN listening, NEW j \in DOMAIN backlog'[g],
                        backlog'[e][i] = backlog'[g][j]
                 PROVE  e = g /\ i = j
      BY <1>8
    <3>1. CASE backlog'[e][i] = c
      <4>1. e = d /\ i = n + 1
        BY <2>2, <2>3, <3>1
      <4>2. backlog'[g][j] = c
        BY <3>1
      <4>3. g = d /\ j = n + 1
        BY <2>2, <2>3, <4>2
      <4>4. QED
        BY <4>1, <4>3
    <3>2. CASE backlog'[e][i] # c
      <4>1. /\ i \in DOMAIN backlog[e] /\ backlog'[e][i] = backlog[e][i]
            /\ j \in DOMAIN backlog[g] /\ backlog'[g][j] = backlog[g][j]
        BY <2>2, <3>2
      <4>2. backlog[e][i] = backlog[g][j] /\ e \in DOMAIN backlog /\ g \in DOMAIN backlog
        BY <1>5, <4>1
      <4>3. QED
        BY <1>1, <4>1, <4>2 DEF Queued
    <3>3. QED
      BY <3>1, <3>2
  <2>6. ready' \subseteq Waiting'
    <3>1. q2 # <<>>
      BY <1>6, EmptySeq
    <3>2. Waiting \subseteq Waiting'
      BY <1>8, <1>9, <3>1 DEF Waiting
    <3>3. QED
      BY <1>1, <1>9, <3>2 DEF Queued
  <2>7. loop' = "adding" => ready' = {}
    BY <1>1, <1>9 DEF Queued
  <2>8. QED
    BY <2>4, <2>5, <2>6, <2>7 DEF Queued
<1>15. ClientOK(c)'
  <2>1. Stage(c)' /\ Reading(c)' /\ Responding(c)'
    BY <1>1, <1>4, <1>10 DEF ClientOK, Stage, Reading, Responding, Connect, sendVars, httpVars
  <2>2. Bytes(c)' = Bytes(c) /\ Held(c)' = Held(c) /\ received' = received
    BY DEF Connect, Bytes, Held
  <2>3. inbox' = inbox /\ outbox' = outbox
    BY DEF Connect
  <2>4. QED
    BY <1>1, <1>3, <2>1, <2>2, <2>3 DEF ClientOK, Stream
<1>16. QED
  BY <1>11, <1>12, <1>13, <1>14, <1>15, Together

\* A descriptor that is given out: the others keep theirs.
LEMMA GivenOut ==
  ASSUME TypeOK, Owned, Free # {}, NEW x \in Clients \cup Ports,
         descriptors' = [descriptors EXCEPT ![Min(Free)] = x]
  PROVE  /\ DescriptorTypes' /\ DOMAIN descriptors' = DOMAIN descriptors
         /\ descriptors'[Min(Free)] = x
         /\ \A b \in Clients : sock[b] # 0 /\ open[b] => descriptors'[sock[b]] = b
<1>1. /\ Min(Free) \in DOMAIN descriptors
      /\ \A b \in Clients : sock[b] # 0 /\ open[b] => sock[b] # Min(Free)
  BY FreeOne
<1>2. DescriptorTypes' /\ DOMAIN descriptors' = DOMAIN descriptors
  BY DescriptorsTyped DEF TypeOK
<1>3. PICK m : m = Min(Free)
  OBVIOUS
<1>4. descriptors' = [descriptors EXCEPT ![m] = x] /\ m \in DOMAIN descriptors
  BY <1>1, <1>3
<1>5. \A b \in Clients : sock[b] # 0 /\ open[b] => descriptors'[sock[b]] = b
  <2> SUFFICES ASSUME NEW b \in Clients, sock[b] # 0, open[b]
               PROVE  descriptors'[sock[b]] = b
    OBVIOUS
  <2>1. sock[b] # m /\ sock[b] \in DOMAIN descriptors /\ descriptors[sock[b]] = b
    BY <1>1, <1>3 DEF Owned, TypeOK
  <2>2. QED
    BY <1>4, <2>1
<1>6. QED
  BY <1>2, <1>3, <1>4, <1>5

LEMMA AddPortKeeps ==
  ASSUME ServerInv, NEW p \in Ports, AddPort(p), UNCHANGED httpVars
  PROVE  ServerInv'
<1>1. TypeOK /\ Owned /\ Queued
  BY DEF ServerInv
<1>2. PICK m : m = Min(Free)
  OBVIOUS
<1>3. /\ Free # {} /\ descriptors' = [descriptors EXCEPT ![m] = p]
      /\ \/ /\ listening' = [d \in DOMAIN listening \cup {m} |-> IF d = m THEN p ELSE listening[d]]
            /\ backlog' = [d \in DOMAIN backlog \cup {m} |-> IF d = m THEN <<>> ELSE backlog[d]]
         \/ UNCHANGED <<listening, backlog>>
  BY <1>2 DEF AddPort, CreateListenSocket
<1>4. /\ DescriptorTypes' /\ DOMAIN descriptors' = DOMAIN descriptors /\ m \in DOMAIN descriptors
      /\ \A b \in Clients : sock[b] # 0 /\ open[b] => descriptors'[sock[b]] = b
  BY <1>1, <1>2, <1>3, GivenOut, FreeOne
<1>5. loop = "adding" /\ loop' = loop /\ ready' = ready
  BY DEF AddPort
<1>6. ready = {}
  BY <1>1, <1>5 DEF Queued
<1>7. backlog \in [DOMAIN listening -> Seq(Clients)] /\ DOMAIN listening \subseteq DOMAIN descriptors
  BY <1>1 DEF TypeOK
<1>8. /\ DOMAIN listening' \subseteq DOMAIN descriptors'
      /\ backlog' \in [DOMAIN listening' -> Seq(Clients)]
      /\ \A e \in DOMAIN backlog' : \A i \in DOMAIN backlog'[e] :
           e \in DOMAIN backlog /\ i \in DOMAIN backlog[e] /\ backlog'[e][i] = backlog[e][i]
  <2>1. CASE UNCHANGED <<listening, backlog>>
    BY <1>4, <1>7, <2>1
  <2>2. CASE /\ DOMAIN listening' = DOMAIN listening \cup {m}
             /\ backlog' = [d \in DOMAIN backlog \cup {m} |-> IF d = m THEN <<>> ELSE backlog[d]]
    <3>1. DOMAIN listening' = DOMAIN listening \cup {m}
      BY <2>2
    <3>2. backlog' = [e \in DOMAIN listening \cup {m} |-> IF e = m THEN <<>> ELSE backlog[e]]
      BY <2>2, <1>7
    <3>3. backlog' \in [DOMAIN listening' -> Seq(Clients)]
      BY <3>1, <3>2, <1>7
    <3>4. \A i : i \notin DOMAIN <<>>
      OBVIOUS
    <3>5. \A e \in DOMAIN backlog' : \A i \in DOMAIN backlog'[e] :
            e \in DOMAIN backlog /\ i \in DOMAIN backlog[e] /\ backlog'[e][i] = backlog[e][i]
      BY <3>2, <3>4, <1>7
    <3>6. QED
      BY <1>4, <1>7, <3>1, <3>3, <3>5
  <2>3. QED
    BY <1>3, <2>1, <2>2
<1>9. TypeOK'
  BY <1>1, <1>4, <1>8 DEF TypeOK, AddPort, sendVars, httpVars
<1>10. Owned'
  BY <1>4 DEF Owned, AddPort
<1>11. \A b \in Clients : Same(b)
  BY DEF Same, AddPort, sendVars, httpVars
<1>12. Queued'
  <2>1. peer' = peer /\ http' = http
    BY DEF AddPort, httpVars
  <2>2. ready' \subseteq Waiting' /\ (loop' = "adding" => ready' = {})
    BY <1>5, <1>6
  <2>3. \A e \in DOMAIN backlog' : \A i \in DOMAIN backlog'[e] :
          /\ peer'[backlog'[e][i]] # "away" /\ http'[backlog'[e][i]] = "idle"
          /\ \A g \in DOMAIN backlog' : \A j \in DOMAIN backlog'[g] :
               backlog'[e][i] = backlog'[g][j] => e = g /\ i = j
    <3> SUFFICES ASSUME NEW e \in DOMAIN backlog', NEW i \in DOMAIN backlog'[e]
                 PROVE  /\ peer'[backlog'[e][i]] # "away" /\ http'[backlog'[e][i]] = "idle"
                        /\ \A g \in DOMAIN backlog' : \A j \in DOMAIN backlog'[g] :
                             backlog'[e][i] = backlog'[g][j] => e = g /\ i = j
      OBVIOUS
    <3>1. e \in DOMAIN backlog /\ i \in DOMAIN backlog[e] /\ backlog'[e][i] = backlog[e][i]
      BY <1>8
    <3>2. peer[backlog[e][i]] # "away" /\ http[backlog[e][i]] = "idle"
      BY <1>1, <3>1 DEF Queued
    <3>3. \A g \in DOMAIN backlog : \A j \in DOMAIN backlog[g] :
            backlog[e][i] = backlog[g][j] => e = g /\ i = j
      BY <1>1, <3>1 DEF Queued
    <3>4. QED
      BY <1>8, <2>1, <3>1, <3>2, <3>3
  <2>4. QED
    BY <2>2, <2>3 DEF Queued
<1>13. QED
  BY <1>9, <1>10, <1>11, <1>12, SameClient DEF ServerInv

\* What the loop does between two accepts concerns nobody.
LEMMA LoopKeeps ==
  ASSUME ServerInv, UNCHANGED <<connVars, httpVars>>, UNCHANGED <<listening, backlog>>,
         ready' \subseteq Waiting, loop' # "adding"
  PROVE  ServerInv'
<1>1. TypeOK /\ Owned /\ Queued
  BY DEF ServerInv
<1>2. TypeOK'
  BY <1>1 DEF TypeOK, DescriptorTypes, connVars, httpVars
<1>3. Owned'
  BY <1>1, OwnedStays DEF connVars
<1>4. Queued'
  <2>1. Waiting' = Waiting
    BY DEF Waiting
  <2>2. QED
    BY <1>1, <2>1 DEF Queued, connVars, httpVars
<1>5. \A b \in Clients : Same(b)
  BY DEF Same, connVars, httpVars
<1>6. QED
  BY <1>2, <1>3, <1>4, <1>5, SameClient DEF ServerInv

LEMMA SelectsKeep ==
  ASSUME ServerInv, UNCHANGED httpVars,
         SelectReady \/ SelectTimeout \/ ScanEnd \/ StartRun \/ SelectInterrupted \/ SignalExit
  PROVE  ServerInv'
<1>1. ready \subseteq Waiting
  BY DEF ServerInv, Queued
<1>2. UNCHANGED connVars /\ UNCHANGED <<listening, backlog>> /\ ready' \subseteq Waiting
  BY <1>1 DEF SelectReady, SelectTimeout, ScanEnd, StartRun, SelectInterrupted, SignalExit
<1>3. loop' # "adding"
  BY DEF SelectReady, SelectTimeout, ScanEnd, StartRun, SelectInterrupted, SignalExit, RunOnceOrEnd
<1>4. QED
  BY <1>2, <1>3, LoopKeeps

\* Without a descriptor the loop throws.
LEMMA AcceptThrowsKeeps ==
  ASSUME ServerInv, NEW x, Accept(x), Spawned(x), Free = {}
  PROVE  ServerInv'
<1>1. x = None /\ loop' = "thrown" /\ UNCHANGED <<connVars, backlog, ready>> /\ UNCHANGED <<listening, exit>>
  BY DEF Accept, SetBlockingMode
<1>2. UNCHANGED httpVars
  BY <1>1 DEF Spawned
<1>3. ready' \subseteq Waiting
  BY <1>1 DEF ServerInv, Queued
<1>4. QED
  BY <1>1, <1>2, <1>3, LoopKeeps

LEMMA AcceptKeeps ==
  ASSUME ServerInv, NEW x \in Clients \cup {None}, Accept(x), Spawned(x), Free # {}
  PROVE  ServerInv'
<1>1. TypeOK /\ Owned /\ Queued
  BY DEF ServerInv
<1>2. PICK m : m = Min(Free)
  OBVIOUS
<1>3. m # 0 /\ m \in DOMAIN descriptors
  BY <1>1, <1>2, FreeOne
<1>4. PICK d : d = Min(ready)
  OBVIOUS
<1>5. /\ x = Head(backlog[d]) /\ descriptors' = [descriptors EXCEPT ![m] = x]
      /\ backlog' = [backlog EXCEPT ![d] = Tail(@)] /\ ready' = ready \ {d}
      /\ Constructed(x, m)
      /\ UNCHANGED <<outbox, inbox, peer, call, result, received, closedTwice, sendVars, loop>>
      /\ UNCHANGED <<listening, exit>>
  BY <1>2, <1>3, <1>4 DEF Accept, SetBlockingMode
<1>6. backlog \in [DOMAIN listening -> Seq(Clients)]
  BY <1>1 DEF TypeOK
<1>7. d \in ready /\ d \in DOMAIN listening /\ backlog[d] # <<>> /\ loop # "adding"
  <2>1. ready \subseteq Waiting /\ ready # {} /\ loop = "scan"
    BY <1>1 DEF Queued, Accept
  <2>2. PICK n \in Limits : DOMAIN descriptors = 1 .. n
    BY <1>1 DEF TypeOK, DescriptorTypes
  <2>3. n \in Nat /\ DOMAIN listening \subseteq 1 .. n
    BY <1>1, <2>2, ConnectionAssumption DEF TypeOK
  <2>4. ready \in SUBSET Nat
    BY <2>1, <2>3 DEF Waiting
  <2>5. d \in ready
    BY <1>4, <2>1, <2>4, MinIn
  <2>6. QED
    BY <2>1, <2>5 DEF Waiting
<1>8. PICK q \in Seq(Clients) : q = backlog[d]
  BY <1>6, <1>7
<1>9. PICK n \in Nat : n = Len(q)
  BY LenProperties
<1>10. PICK t : t = Tail(q)
  OBVIOUS
<1>11. /\ n \in Nat \ {0} /\ 1 \in 1 .. n /\ x = q[1] /\ x \in Clients
       /\ t \in Seq(Clients) /\ Len(t) = n - 1
  <2>1. q # <<>>
    BY <1>7, <1>8
  <2>2. Head(q) \in Clients /\ Tail(q) \in Seq(Clients) /\ Len(Tail(q)) = Len(q) - 1
    BY <2>1, HeadTailProperties
  <2>3. n # 0
    BY <2>1, <1>9, EmptySeq
  <2>4. Head(q) = q[1]
    OBVIOUS
  <2>5. QED
    BY <1>5, <1>8, <1>9, <1>10, <2>2, <2>3, <2>4
<1>12. \A i \in 1 .. n - 1 : t[i] = q[i + 1] /\ i + 1 \in 1 .. n
  <2>1. q # <<>>
    BY <1>7, <1>8
  <2>2. \A i \in 1 .. Len(Tail(q)) : Tail(q)[i] = q[i + 1]
    BY <2>1, HeadTailProperties
  <2>3. QED
    BY <1>10, <1>11, <2>2
<1>13. DOMAIN q = 1 .. n /\ DOMAIN t = 1 .. n - 1
  BY <1>9, <1>11, LenProperties
<1>14. /\ backlog' \in [DOMAIN listening -> Seq(Clients)] /\ backlog'[d] = t
       /\ \A e \in DOMAIN listening \ {d} : backlog'[e] = backlog[e]
  <2>1. backlog' = [backlog EXCEPT ![d] = t]
    BY <1>5, <1>6, <1>7, <1>8, <1>10
  <2>2. QED
    BY <1>6, <1>7, <1>11, <2>1
<1>15. peer[x] # "away" /\ http[x] = "idle" /\ x # None
  <2>1. d \in DOMAIN backlog /\ 1 \in DOMAIN backlog[d] /\ backlog[d][1] = x
    BY <1>6, <1>7, <1>8, <1>11, <1>13
  <2>2. QED
    BY <1>1, <1>11, <2>1, ConnectionAssumption DEF Queued
<1>16. PICK state \in {"reading", "new"} : /\ state = "reading" <=> x \in Readers
                                           /\ Becomes(x, state)
  BY <1>15 DEF Spawned
<1>17. /\ http' \in [Clients -> HttpStates] /\ http'[x] = state
       /\ \A b \in Clients \ {x} : http'[b] = http[b]
  BY <1>1, <1>11, <1>16, BecomesIs DEF HttpStates
<1>18. answer' = answer /\ todo' = todo
  BY <1>15 DEF Spawned
<1>19. /\ DescriptorTypes' /\ DOMAIN descriptors' = DOMAIN descriptors /\ descriptors'[m] = x
       /\ \A b \in Clients : sock[b] # 0 /\ open[b] => descriptors'[sock[b]] = b
  BY <1>1, <1>2, <1>5, <1>11, GivenOut
<1>20. /\ sock' \in [Clients -> {0} \cup DOMAIN descriptors'] /\ open' \in [Clients -> BOOLEAN]
       /\ sock'[x] = m /\ open'[x] = TRUE
       /\ \A b \in Clients \ {x} : sock'[b] = sock[b] /\ open'[b] = open[b]
  BY <1>1, <1>3, <1>5, <1>11, <1>19 DEF TypeOK, Constructed
<1>21. TypeOK'
  BY <1>1, <1>5, <1>14, <1>17, <1>18, <1>19, <1>20 DEF TypeOK, sendVars
<1>22. \A b \in Clients \ {x} : Same(b)
  BY <1>5, <1>17, <1>18, <1>20 DEF Same, sendVars
<1>23. Owned'
  <2> SUFFICES ASSUME NEW b \in Clients, sock'[b] # 0, open'[b]
               PROVE  descriptors'[sock'[b]] = b
    BY DEF Owned
  <2>1. CASE b = x
    BY <1>19, <1>20, <2>1
  <2>2. CASE b # x
    BY <1>19, <1>20, <2>2
  <2>3. QED
    BY <2>1, <2>2
<1>24. Queued'
  \* Where i now stands stood one place further in d's queue; x was at its head only.
  <2> DEFINE was(e, i) == IF e = d THEN i + 1 ELSE i
  <2>1. \A e \in DOMAIN listening : \A i \in DOMAIN backlog'[e] :
          /\ was(e, i) \in DOMAIN backlog[e] /\ backlog'[e][i] = backlog[e][was(e, i)]
          /\ e = d => was(e, i) # 1 /\ i \in Int
    <3> SUFFICES ASSUME NEW e \in DOMAIN listening, NEW i \in DOMAIN backlog'[e]
                 PROVE  /\ was(e, i) \in DOMAIN backlog[e] /\ backlog'[e][i] = backlog[e][was(e, i)]
                        /\ e = d => was(e, i) # 1 /\ i \in Int
      OBVIOUS
    <3>1. CASE e # d
      BY <1>14, <3>1
    <3>2. CASE e = d
      <4>1. i \in 1 .. n - 1
        BY <1>13, <1>14, <3>2
      <4>2. was(e, i) = i + 1 /\ i + 1 # 1 /\ i \in Int
        BY <3>2, <4>1
      <4>3. i + 1 \in DOMAIN q /\ t[i] = q[i + 1]
        BY <1>12, <1>13, <4>1
      <4>4. QED
        BY <1>8, <1>14, <3>2, <4>2, <4>3
    <3>3. QED
      BY <3>1, <3>2
  <2>2. \A e \in DOMAIN listening : \A i \in DOMAIN backlog'[e] : backlog'[e][i] \in Clients \ {x}
    <3> SUFFICES ASSUME NEW e \in DOMAIN listening, NEW i \in DOMAIN backlog'[e]
                 PROVE  backlog'[e][i] \in Clients \ {x}
      OBVIOUS
    <3>1. backlog'[e][i] \in Clients
      BY <1>14
    <3>2. PICK k : k = was(e, i)
      OBVIOUS
    <3>3. k \in DOMAIN backlog[e] /\ backlog'[e][i] = backlog[e][k] /\ (e = d => k # 1)
      BY <2>1, <3>2
    <3>4. e \in DOMAIN backlog /\ d \in DOMAIN backlog /\ 1 \in DOMAIN backlog[d] /\ backlog[d][1] = x
      BY <1>6, <1>7, <1>8, <1>11, <1>13
    <3>5. backlog[e][k] = backlog[d][1] => e = d /\ k = 1
      BY <1>1, <3>3, <3>4 DEF Queued
    <3>6. QED
      BY <3>1, <3>3, <3>4, <3>5
  <2>3. \A e \in DOMAIN backlog' : \A i \in DOMAIN backlog'[e] :
          peer'[backlog'[e][i]] # "away" /\ http'[backlog'[e][i]] = "idle"
    <3> SUFFICES ASSUME NEW e \in DOMAIN listening, NEW i \in DOMAIN backlog'[e]
                 PROVE  peer'[backlog'[e][i]] # "away" /\ http'[backlog'[e][i]] = "idle"
      BY <1>14
    <3>1. PICK k \in DOMAIN backlog[e] : backlog'[e][i] = backlog[e][k]
      BY <2>1
    <3>2. peer[backlog[e][k]] # "away" /\ http[backlog[e][k]] = "idle"
      BY <1>1, <1>6, <3>1 DEF Queued
    <3>3. backlog'[e][i] \in Clients \ {x}
      BY <2>2
    <3>4. QED
      BY <1>5, <1>17, <3>1, <3>2, <3>3
  <2>4. \A e \in DOMAIN backlog' : \A i \in DOMAIN backlog'[e] :
          \A g \in DOMAIN backlog' : \A j \in DOMAIN backlog'[g] :
            backlog'[e][i] = backlog'[g][j] => e = g /\ i = j
    <3> SUFFICES ASSUME NEW e \in DOMAIN listening, NEW i \in DOMAIN backlog'[e],
                        NEW g \in DOMAIN listening, NEW j \in DOMAIN backlog'[g],
                        backlog'[e][i] = backlog'[g][j]
                 PROVE  e = g /\ i = j
      BY <1>14
    <3>1. /\ was(e, i) \in DOMAIN backlog[e] /\ was(g, j) \in DOMAIN backlog[g]
          /\ backlog[e][was(e, i)] = backlog[g][was(g, j)]
      BY <2>1
    <3>2. e = g /\ was(e, i) = was(g, j)
      <4> HIDE DEF was
      <4>1. e \in DOMAIN backlog /\ g \in DOMAIN backlog
        BY <1>6
      <4>2. PICK k, l : k = was(e, i) /\ l = was(g, j)
        OBVIOUS
      <4>3. k \in DOMAIN backlog[e] /\ l \in DOMAIN backlog[g] /\ backlog[e][k] = backlog[g][l]
        BY <3>1, <4>2
      <4>4. QED
        BY <1>1, <4>1, <4>2, <4>3 DEF Queued
    <3>3. CASE e = d
      <4>1. i \in Int /\ j \in Int /\ i + 1 = j + 1
        BY <2>1, <3>2, <3>3
      <4>2. QED
        BY <3>2, <4>1
    <3>4. CASE e # d
      BY <3>2, <3>4
    <3>5. QED
      BY <3>3, <3>4
  <2>5. ready' \subseteq Waiting'
    <3>1. \A e \in ready \ {d} : e \in DOMAIN listening /\ backlog[e] # <<>>
      BY <1>1 DEF Queued, Waiting
    <3>2. QED
      BY <1>5, <1>14, <3>1 DEF Waiting
  <2>6. loop' # "adding"
    BY <1>5, <1>7
  <2> HIDE DEF was
  <2>7. QED
    BY <2>3, <2>4, <2>5, <2>6 DEF Queued
<1>25. ClientOK(x)'
  <2>1. ClientOK(x)
    BY <1>11 DEF ServerInv
  <2>2. peer'[x] = peer[x] /\ call'[x] = call[x] /\ sent'[x] = sent[x] /\ cut'[x] = cut[x]
    BY <1>5 DEF sendVars
  <2>3. Stage(x)'
    BY <1>3, <1>15, <1>16, <1>17, <1>18, <1>20, <2>1, <2>2 DEF ClientOK, Stage
  <2>4. call[x] = None
    BY <1>15, <2>1 DEF ClientOK, Reading
  <2>5. Reading(x)'
    BY <2>2, <2>4 DEF Reading
  <2>6. Responding(x)'
    BY <1>15, <1>17, <1>18, <2>1, <2>2 DEF ClientOK, Responding
  <2>7. Bytes(x)' = Bytes(x) /\ Held(x)' = Held(x)
    BY <1>5 DEF Bytes, Held
  <2>8. Stream(x)'
    BY <1>5, <2>1, <2>7 DEF ClientOK, Stream
  <2>9. QED
    BY <2>3, <2>5, <2>6, <2>8 DEF ClientOK
<1>26. QED
  BY <1>11, <1>21, <1>22, <1>23, <1>24, <1>25, Together

-----------------------------------------------------------------------------
(* Every step *)

\* Once a connection was closed and then destroyed, this is remembered; nothing but
\* destroying a connection that was closed makes it so.
LEMMA Remembered ==
  ASSUME Next
  PROVE  closedTwice => closedTwice'
<1>1. \A c \in Clients : PeerStep(c) => closedTwice' = closedTwice
  BY DEF PeerStep, Connect, ClientSends, ClientReads, ClientLeaves
<1>2. \A c \in Clients : Run(c) /\ UNCHANGED <<descriptors, outbox, inbox, peer, sock, open, closedTwice, setVars>>
                         => closedTwice' = closedTwice
  OBVIOUS
<1>3. \A c \in Clients : WorkerStep(c) => (closedTwice => closedTwice')
  BY <1>2 DEF WorkerStep, Recv, Deadline, Destroy
<1>4. \A c \in Clients : ReaderStep(c) => (closedTwice => closedTwice')
  BY DEF ReaderStep, BeginRead, Close, Destroy
<1>5. \A x : Accept(x) => closedTwice' = closedTwice
  BY DEF Accept, connVars
<1>6. LoopStep => closedTwice' = closedTwice
  BY <1>5 DEF LoopStep, SelectReady, SelectTimeout, ScanEnd, connVars
<1>7. OtherStep => closedTwice' = closedTwice
  BY DEF OtherStep, AddPort, StartRun, SelectInterrupted, SignalExit, connVars
<1>8. QED
  BY <1>1, <1>3, <1>4, <1>6, <1>7 DEF Next

LEMMA PeerKeeps ==
  ASSUME ServerInv, NEW c \in Clients, PeerStep(c)
  PROVE  ServerInv'
  BY ConnectKeeps, ClientSendsKeeps, ClientReadsKeeps, ClientLeavesKeeps DEF PeerStep

LEMMA DestroyOrTwice ==
  ASSUME ServerInv, NEW c \in Clients, http[c] \in {"over", "reading"}, Destroy(c),
         UNCHANGED <<httpVars, setVars>>
  PROVE  IInv'
<1>1. CASE open[c]
  BY <1>1, DestroyKeeps DEF IInv
<1>2. CASE ~open[c]
  BY <1>2 DEF Destroy, IInv
<1>3. QED
  BY <1>1, <1>2

LEMMA WorkerKeeps ==
  ASSUME ServerInv, NEW c \in Clients, WorkerStep(c)
  PROVE  IInv'
<1>1. CASE Run(c) /\ UNCHANGED <<descriptors, outbox, inbox, peer, sock, open, closedTwice, setVars>>
  <2>1. UNCHANGED <<descriptors, outbox, inbox, peer, sock, open, setVars>>
    BY <1>1
  <2>2. CASE (RunBegins(c) \/ RequestRead(c) \/ HeaderRead(c)) /\ UNCHANGED sendVars
    <3>1. UNCHANGED <<descriptors, outbox, inbox, peer, sock, open, sendVars, setVars>>
      BY <2>1, <2>2
    <3>2. ServerInv'
      BY <2>2, <3>1, RunBeginsKeeps, RequestReadKeeps, HeaderReadKeeps
    <3>3. QED
      BY <3>2 DEF IInv
  <2>3. CASE Send(c) \/ SendFails(c)
    BY <2>1, <2>3, SendKeeps, SendFailsKeeps DEF IInv
  <2>4. QED
    BY <1>1, <2>2, <2>3 DEF Run
<1>2. CASE (Recv(c) \/ Deadline(c)) /\ UNCHANGED <<httpVars, setVars>>
  BY <1>2, RecvKeeps, DeadlineKeeps DEF IInv
<1>3. CASE http[c] = "over" /\ Destroy(c) /\ UNCHANGED <<httpVars, setVars>>
  BY <1>3, DestroyOrTwice
<1>4. QED
  BY <1>1, <1>2, <1>3 DEF WorkerStep

LEMMA ReaderKeeps ==
  ASSUME ServerInv, NEW c \in Clients, ReaderStep(c)
  PROVE  IInv'
<1>1. http[c] = "reading"
  BY DEF ReaderStep
<1>2. CASE BeginRead(c)
  BY <1>2, BeginReadKeeps DEF IInv
<1>3. CASE Close(c) /\ UNCHANGED <<httpVars, setVars>>
  BY <1>1, <1>3, CloseKeeps DEF IInv
<1>4. CASE Destroy(c) /\ UNCHANGED <<httpVars, setVars>>
  BY <1>1, <1>4, DestroyOrTwice
<1>5. QED
  BY <1>2, <1>3, <1>4 DEF ReaderStep

LEMMA LoopStepKeeps ==
  ASSUME ServerInv, LoopStep \/ OtherStep
  PROVE  ServerInv'
<1>1. CASE LoopStep
  <2>1. CASE (SelectReady \/ SelectTimeout \/ ScanEnd) /\ UNCHANGED httpVars
    BY <2>1, SelectsKeep
  <2>2. CASE \E x \in Clients \cup {None} : Accept(x) /\ Spawned(x)
    <3>1. PICK x \in Clients \cup {None} : Accept(x) /\ Spawned(x)
      BY <2>2
    <3>2. QED
      BY <3>1, AcceptThrowsKeeps, AcceptKeeps
  <2>3. QED
    BY <1>1, <2>1, <2>2 DEF LoopStep
<1>2. CASE OtherStep
  <2>1. UNCHANGED httpVars
    BY <1>2 DEF OtherStep
  <2>2. CASE \E p \in Ports : AddPort(p)
    BY <2>1, <2>2, AddPortKeeps
  <2>3. CASE StartRun \/ SelectInterrupted \/ SignalExit
    BY <2>1, <2>3, SelectsKeep
  <2>4. QED
    BY <1>2, <2>2, <2>3 DEF OtherStep
<1>3. QED
  BY <1>1, <1>2

LEMMA StutterKeeps ==
  ASSUME ServerInv, UNCHANGED vars
  PROVE  ServerInv'
<1>1. UNCHANGED connVars /\ UNCHANGED httpVars /\ UNCHANGED setVars
  BY DEF vars
<1>2. TypeOK /\ Owned /\ Queued
  BY DEF ServerInv
<1>3. TypeOK'
  BY <1>1, <1>2 DEF TypeOK, DescriptorTypes, connVars, httpVars, setVars
<1>4. Owned'
  BY <1>1, <1>2, OwnedStays DEF connVars
<1>5. Queued'
  BY <1>1, <1>2, QueuedStays DEF connVars, httpVars
<1>6. \A b \in Clients : Same(b)
  BY <1>1 DEF Same, connVars, httpVars
<1>7. QED
  BY <1>3, <1>4, <1>5, <1>6, SameClient DEF ServerInv

LEMMA Inductive ==
  ASSUME IInv, [Next]_vars
  PROVE  IInv'
<1>1. CASE closedTwice
  <2>1. CASE Next
    BY <1>1, <2>1, Remembered DEF IInv
  <2>2. CASE UNCHANGED vars
    BY <1>1, <2>2 DEF IInv, vars, connVars
  <2>3. QED
    BY <2>1, <2>2
<1>2. CASE ServerInv
  <2>1. CASE LoopStep \/ OtherStep
    BY <1>2, <2>1, LoopStepKeeps DEF IInv
  <2>2. CASE \E c \in Clients : PeerStep(c) \/ WorkerStep(c) \/ ReaderStep(c)
    <3>1. PICK c \in Clients : PeerStep(c) \/ WorkerStep(c) \/ ReaderStep(c)
      BY <2>2
    <3>2. CASE PeerStep(c)
      BY <1>2, <3>2, PeerKeeps DEF IInv
    <3>3. CASE WorkerStep(c)
      BY <1>2, <3>3, WorkerKeeps
    <3>4. CASE ReaderStep(c)
      BY <1>2, <3>4, ReaderKeeps
    <3>5. QED
      BY <3>1, <3>2, <3>3, <3>4
  <2>3. CASE UNCHANGED vars
    BY <1>2, <2>3, StutterKeeps DEF IInv
  <2>4. QED
    BY <2>1, <2>2, <2>3 DEF Next
<1>3. QED
  BY <1>1, <1>2 DEF IInv

LEMMA Initially ==
  ASSUME Init
  PROVE  IInv
<1>1. ConnInit /\ HttpInit /\ SetInit
  BY DEF Init
<1>2. \A x : x \notin DOMAIN <<>>
  OBVIOUS
<1>3. DescriptorTypes
  <2>1. PICK n \in Limits : descriptors = [d \in 1 .. n |-> None]
    BY <1>1 DEF ConnInit
  <2>2. QED
    BY <2>1 DEF DescriptorTypes
<1>4. /\ outbox = Requests /\ inbox = [c \in Clients |-> <<>>]
      /\ outbox \in [Clients -> Seq(Byte)] /\ inbox \in [Clients -> Seq(Byte)]
  <2>1. outbox = Requests /\ inbox = [c \in Clients |-> <<>>]
    BY <1>1 DEF ConnInit
  <2>2. Requests \in [Clients -> Seq(Byte)]
    BY ConnectionAssumption
  <2>3. QED
    BY <2>1, <2>2
<1>5. TypeOK
  BY <1>1, <1>2, <1>3, <1>4 DEF TypeOK, ConnInit, HttpInit, SetInit, HttpStates
<1>6. Owned
  BY <1>1 DEF Owned, ConnInit
<1>7. Queued
  BY <1>1, <1>2 DEF Queued, SetInit
<1>8. \A c \in Clients : ClientOK(c)
  <2> SUFFICES ASSUME NEW c \in Clients PROVE ClientOK(c)
    OBVIOUS
  <2>1. Stage(c) /\ Reading(c) /\ Responding(c)
    BY <1>1 DEF Stage, Reading, Responding, ConnInit, HttpInit
  <2>2. received[c] = <<>> /\ call[c] = None /\ inbox[c] = <<>> /\ outbox[c] = Requests[c]
    BY <1>1 DEF ConnInit
  <2>3. Bytes(c) = <<>>
    <3>1. PICK b \in Seq(Byte) : b = Bytes(c)
      BY <1>5, StreamTypes
    <3>2. DOMAIN b = {}
      BY <1>2, <2>2, <3>1 DEF Bytes
    <3>3. Len(b) = 0
      BY <3>2, LenProperties
    <3>4. QED
      BY <3>1, <3>3, EmptySeq
  <2>4. Held(c) = <<>>
    BY <2>2 DEF Held
  <2>5. <<>> \o <<>> \o <<>> \o Requests[c] = Requests[c]
    <3>1. PICK r \in Seq(Byte) : r = Requests[c]
      BY ConnectionAssumption
    <3>2. <<>> \o <<>> = <<>>
      OBVIOUS
    <3>3. <<>> \o r = r
      BY ConcatEmptySeq
    <3>4. QED
      BY <3>1, <3>2, <3>3
  <2>6. Stream(c)
    BY <1>2, <2>2, <2>3, <2>4, <2>5 DEF Stream
  <2>7. QED
    BY <2>1, <2>6 DEF ClientOK
<1>9. QED
  BY <1>5, <1>6, <1>7, <1>8 DEF IInv, ServerInv

-----------------------------------------------------------------------------
(* The theorem *)

\* What was sent grows.
LEMMA StationsGrow ==
  ASSUME NEW t, NEW s, NEW status, <<t, s>> \in Stations(status) \cup CutStations
  PROVE  \A i, j \in DOMAIN s : i < j => s[i] < s[j]
<1>1. s \in {<<>>, <<1>>, <<1, 2>>, <<1, 2, 3>>, <<1, 2, 3, 4>>, <<1, 2, 4>>}
  BY DEF Stations, CutStations
<1>2. QED
  BY <1>1

LEMMA InOrderHolds ==
  ASSUME IInv
  PROVE  StreamInOrder
<1> SUFFICES ASSUME NEW c \in Clients, peer[c] # "reset", ~closedTwice
             PROVE  /\ Bytes(c) \o Held(c) \o inbox[c] \o outbox[c] = Requests[c]
                    /\ \A i \in DOMAIN received[c] : received[c][i].fate = "lost" => c \in Readers
                    /\ \A i, j \in DOMAIN sent[c] : i < j => sent[c][i] < sent[c][j]
                    /\ http[c] \in {"sending", "over"} /\ answer[c] # None /\ ~cut[c] =>
                         sent[c] \o FlattenSeq(todo[c]) = FlattenSeq(Response(answer[c].status))
  BY DEF StreamInOrder, Held
<1>1. Stream(c) /\ Responding(c)
  BY DEF IInv, ServerInv, ClientOK
<1>2. PICK t, s, status : t = todo[c] /\ s = sent[c] /\ status = answer[c].status
  OBVIOUS
<1>3. \A i, j \in DOMAIN s : i < j => s[i] < s[j]
  <2>1. CASE s = <<>>
    BY <2>1
  <2>2. CASE <<t, s>> \in Stations(status) \cup CutStations
    BY <2>2, StationsGrow
  <2>3. QED
    BY <1>1, <1>2, <2>1, <2>2 DEF Responding
<1>4. http[c] \in {"sending", "over"} /\ answer[c] # None /\ ~cut[c] =>
        s \o FlattenSeq(t) = FlattenSeq(Response(status))
  <2> SUFFICES ASSUME http[c] \in {"sending", "over"}, answer[c] # None, ~cut[c]
               PROVE  s \o FlattenSeq(t) = FlattenSeq(Response(status))
    OBVIOUS
  <2>1. <<t, s>> \in Stations(status)
    BY <1>1, <1>2 DEF Responding
  <2>2. QED
    BY <2>1, StationsWhole
<1>5. QED
  BY <1>1, <1>2, <1>3, <1>4 DEF Stream

\* Whatever the clients do, and however few descriptors there are: on each connection
\* the bytes are received in order, each once, and none is lost but those of a value
\* whose deadline passes; a response is sent in order, and whole unless a send was
\* cut (SocketConnection's reads and send, HttpServer::Run).
THEOREM InOrder == FairSpec => []StreamInOrder
<1>1. Init => IInv
  BY Initially
<1>2. IInv /\ [Next]_vars => IInv'
  BY Inductive
<1>3. IInv => StreamInOrder
  BY InOrderHolds
<1>4. QED
  BY <1>1, <1>2, <1>3, PTL DEF FairSpec

-----------------------------------------------------------------------------
(* The parts of a line *)

\* The two first of three places
LEMMA TwoFirst ==
  ASSUME NEW S \in SUBSET Nat, IsFiniteSet(S), NEW a \in S, NEW b \in S, a < b,
         \A j \in S : j = a \/ j = b \/ b < j
  PROVE  Nth(S, 1) = a /\ Nth(S, 2) = b
<1> DEFINE To(i) == {j \in S : j <= i}
<1>1. To(a) = {a} /\ To(b) = {a, b}
  <2>1. \A j \in S : j <= a <=> j = a
    OBVIOUS
  <2>2. \A j \in S : j <= b <=> j = a \/ j = b
    OBVIOUS
  <2>3. QED
    BY <2>1, <2>2
<1>2. Cardinality({a}) = 1 /\ IsFiniteSet({a})
  BY FS_Singleton
<1>3. Cardinality({a, b}) = 2
  <2>1. Cardinality({a} \cup {b}) = 2
    <3>1. b \notin {a}
      OBVIOUS
    <3>2. Cardinality({a} \cup {b}) = Cardinality({a}) + 1
      BY <1>2, <3>1, FS_AddElement
    <3>3. QED
      BY <1>2, <3>2
  <2>2. {a} \cup {b} = {a, b}
    OBVIOUS
  <2>3. QED
    BY <2>1, <2>2
<1>4. ASSUME NEW i \in S, i # a, i # b
      PROVE  Cardinality(To(i)) # 1 /\ Cardinality(To(i)) # 2
  <2>1. {a, b} \subseteq To(i) /\ i \in To(i) /\ i \notin {a, b}
    BY <1>4
  <2>2. IsFiniteSet(To(i))
    BY FS_Subset
  <2>3. PICK T : T = To(i)
    OBVIOUS
  <2>4. {a, b} \in SUBSET T /\ {a, b} # T /\ IsFiniteSet(T)
    BY <2>1, <2>2, <2>3
  <2>5. IsFiniteSet({a, b}) /\ Cardinality({a, b}) <= Cardinality(T) /\ Cardinality({a, b}) # Cardinality(T)
    BY <2>4, FS_Subset
  <2>6. Cardinality(T) \in Nat
    BY <2>4, FS_CardinalityType
  <2>7. QED
    BY <1>3, <2>3, <2>5, <2>6
<1> HIDE DEF To
<1>5. \A i \in S : Cardinality(To(i)) = 1 <=> i = a
  BY <1>1, <1>2, <1>3, <1>4
<1>6. \A i \in S : Cardinality(To(i)) = 2 <=> i = b
  BY <1>1, <1>2, <1>3, <1>4
<1>7. Nth(S, 1) = a
  <2>1. Nth(S, 1) = CHOOSE i \in S : Cardinality(To(i)) = 1
    BY DEF Nth, To
  <2>2. QED
    BY <1>5, <2>1
<1>8. Nth(S, 2) = b
  <2>1. Nth(S, 2) = CHOOSE i \in S : Cardinality(To(i)) = 2
    BY DEF Nth, To
  <2>2. QED
    BY <1>6, <2>1
<1>9. QED
  BY <1>7, <1>8

\* Of three places one can name the first, the second and one after them.
LEMMA ThreePlaces ==
  ASSUME NEW S \in SUBSET Nat, IsFiniteSet(S), Cardinality(S) >= 3
  PROVE  \E a, b, d \in S : a < b /\ b < d /\ \A j \in S : j = a \/ j = b \/ b < j
<1>1. Cardinality(S) \in Nat
  BY FS_CardinalityType
<1>2. S # {}
  BY FS_EmptySet
<1>3. PICK a \in S : \A j \in S : a <= j
  BY <1>2, MinIn
<1>4. PICK U : U = S \ {a}
  OBVIOUS
<1>5. U \in SUBSET Nat /\ IsFiniteSet(U) /\ Cardinality(U) = Cardinality(S) - 1
  BY <1>3, <1>4, FS_RemoveElement
<1>6. U # {}
  BY <1>1, <1>5, FS_EmptySet
<1>7. PICK b \in U : \A j \in U : b <= j
  BY <1>5, <1>6, MinIn
<1>8. PICK V : V = U \ {b}
  OBVIOUS
<1>9. Cardinality(V) = Cardinality(S) - 2
  <2>1. Cardinality(V) = Cardinality(U) - 1
    BY <1>5, <1>7, <1>8, FS_RemoveElement
  <2>2. QED
    BY <1>1, <1>5, <2>1
<1>10. V # {}
  BY <1>1, <1>9, FS_EmptySet
<1>11. PICK d \in V : TRUE
  BY <1>10
<1>12. b \in S /\ a # b /\ a < b
  BY <1>3, <1>4, <1>5, <1>7
<1>13. d \in S /\ d \in U /\ d # b /\ b < d
  BY <1>4, <1>5, <1>7, <1>8, <1>11
<1>14. \A j \in S : j = a \/ j = b \/ b < j
  BY <1>4, <1>5, <1>7
<1>15. QED
  BY <1>3, <1>12, <1>13, <1>14

PrefixOf(s, r) == \E t \in Seq(Byte) : s \o t = r

LEMMA PrefixIs ==
  ASSUME NEW s \in Seq(Byte), NEW r \in Seq(Byte), PrefixOf(s, r)
  PROVE  /\ Len(s) \in Nat /\ Len(r) \in Nat /\ Len(s) <= Len(r)
         /\ DOMAIN s = 1 .. Len(s) /\ DOMAIN r = 1 .. Len(r)
         /\ \A i \in 1 .. Len(s) : s[i] = r[i]
<1>1. PICK t \in Seq(Byte) : s \o t = r
  BY DEF PrefixOf
<1>2. PICK m \in Nat, n \in Nat : m = Len(s) /\ n = Len(t) /\ Len(r) = m + n
  BY <1>1, ConcatProperties
<1>3. \A i \in 1 .. m : s[i] = r[i]
  BY <1>1, <1>2, ConcatProperties
<1>4. DOMAIN s = 1 .. Len(s) /\ DOMAIN r = 1 .. Len(r)
  BY LenProperties
<1>5. QED
  BY <1>2, <1>3, <1>4

\* The largest of a set of naturals below a number
LEMMA MaxIn ==
  ASSUME NEW n \in Nat, NEW S \in SUBSET (0 .. n), S # {}
  PROVE  Max(S) \in S
<1>1. PICK T \in SUBSET Nat : T = {n - x : x \in S}
  <2>1. \A x \in S : n - x \in Nat
    OBVIOUS
  <2>2. {n - x : x \in S} \in SUBSET Nat
    BY <2>1
  <2>3. QED
    BY <2>2
<1>2. T # {}
  BY <1>1
<1>3. PICK y \in T : \A z \in T : y <= z
  BY <1>2, MinIn
<1>4. PICK x \in S : y = n - x
  BY <1>1, <1>3
<1>5. ASSUME NEW z \in S PROVE x >= z
  <2>1. n - z \in T /\ y <= n - z
    BY <1>1, <1>3
  <2>2. QED
    BY <1>4, <2>1
<1>6. QED
  BY <1>5 DEF Max

Blank == " "

\* A part that another follows is the same in the prefix and the whole.
LEMMA PartStays ==
  ASSUME NEW s \in Seq(Byte), NEW r \in Seq(Byte), PrefixOf(s, r),
         NEW i \in Starts(s), NEW d \in Starts(s), i < d
  PROVE  PartAt(s, i) = PartAt(r, i)
<1>1. PICK m \in Nat, n \in Nat :
        /\ m = Len(s) /\ n = Len(r) /\ m <= n /\ DOMAIN s = 1 .. m /\ DOMAIN r = 1 .. n
        /\ \A k \in 1 .. m : s[k] = r[k]
  BY PrefixIs
<1>2. /\ i \in 1 .. m /\ d \in 1 .. m /\ s[i] # Blank /\ s[d - 1] = Blank
      /\ d - 1 \in i .. m /\ r[d - 1] = Blank
  <2>1. i \in 1 .. m /\ d \in 1 .. m /\ s[i] # Blank /\ (d = 1 \/ s[d - 1] = Blank)
    BY <1>1 DEF Starts, Blank
  <2>2. d - 1 \in i .. m /\ d # 1 /\ d - 1 \in 1 .. m
    BY <2>1
  <2>3. QED
    BY <1>1, <2>1, <2>2
<1>3. PICK A : A = Unbroken(s, i)
  OBVIOUS
<1>4. A = {j \in i .. m : \A k \in i .. j : s[k] # Blank}
  BY <1>1, <1>3 DEF Unbroken, Blank
<1>5. PICK B : B = Unbroken(r, i)
  OBVIOUS
<1>6. B = {j \in i .. n : \A k \in i .. j : r[k] # Blank}
  BY <1>1, <1>5 DEF Unbroken, Blank
<1> HIDE DEF Blank
<1>7. ASSUME NEW j \in B
      PROVE  j \in A
  <2>1. j \in i .. n /\ \A k \in i .. j : r[k] # Blank
    BY <1>6
  <2>2. j < d - 1
    BY <1>2, <2>1
  <2>3. j \in i .. m /\ i .. j \subseteq 1 .. m
    BY <1>2, <2>1, <2>2
  <2>4. \A k \in i .. j : s[k] # Blank
    BY <1>1, <2>1, <2>3
  <2>5. QED
    BY <1>4, <2>3, <2>4
<1>8. ASSUME NEW j \in A
      PROVE  j \in B
  <2>1. j \in i .. m /\ \A k \in i .. j : s[k] # Blank
    BY <1>4
  <2>2. j \in i .. n /\ i .. j \subseteq 1 .. m
    BY <1>1, <1>2, <2>1
  <2>3. \A k \in i .. j : r[k] # Blank
    BY <1>1, <2>1, <2>2
  <2>4. QED
    BY <1>6, <2>2, <2>3
<1>9. A = B
  BY <1>7, <1>8
<1>10. Max(A) \in i .. m
  <2>1. i \in A
    <3>1. i \in i .. m /\ \A k \in i .. i : k = i
      BY <1>2
    <3>2. QED
      BY <1>2, <1>4, <3>1
  <2>2. A \in SUBSET (0 .. m) /\ A \subseteq i .. m
    BY <1>2, <1>4
  <2>3. QED
    BY <2>1, <2>2, MaxIn
<1>11. PICK x \in i .. m : x = Max(A)
  BY <1>10
<1>12. PICK u, v : u = SubSeq(s, i, x) /\ v = SubSeq(r, i, x)
  OBVIOUS
<1>13. i \in Int /\ x \in Int /\ \A k \in i .. x : k \in 1 .. m /\ s[k] \in Byte /\ r[k] \in Byte /\ s[k] = r[k]
  <2>1. i .. x \subseteq 1 .. m
    BY <1>2
  <2>2. \A k \in 1 .. m : s[k] \in Byte /\ s[k] = r[k]
    BY <1>1, ElementOfSeq
  <2>3. QED
    BY <1>2, <2>1, <2>2
<1>14. /\ u \in Seq(Byte) /\ Len(u) = (IF i <= x THEN x - i + 1 ELSE 0)
       /\ \A k \in 1 .. x - i + 1 : u[k] = s[i + k - 1]
  BY <1>12, <1>13, SubSeqProperties
<1>15. /\ v \in Seq(Byte) /\ Len(v) = (IF i <= x THEN x - i + 1 ELSE 0)
       /\ \A k \in 1 .. x - i + 1 : v[k] = r[i + k - 1]
  BY <1>12, <1>13, SubSeqProperties
<1>16. Len(u) = x - i + 1 /\ Len(v) = x - i + 1
  BY <1>2, <1>14, <1>15
<1>17. \A k \in 1 .. x - i + 1 : u[k] = v[k]
  <2>1. \A k \in 1 .. x - i + 1 : i + k - 1 \in i .. x
    BY <1>2
  <2>2. QED
    BY <1>13, <1>14, <1>15, <2>1
<1>18. u = v
  BY <1>14, <1>15, <1>16, <1>17, SeqEqual
<1>19. QED
  BY <1>3, <1>5, <1>9, <1>11, <1>12, <1>18 DEF PartAt

\* A line that is a prefix of a request and has three parts has its two first.
LEMMA TwoPartsStay ==
  ASSUME NEW s \in Seq(Byte), NEW r \in Seq(Byte), PrefixOf(s, r), ~ (Len(Parts(s)) < 3)
  PROVE  Parts(s)[1] = Parts(r)[1] /\ Parts(s)[2] = Parts(r)[2]
<1>1. PICK m \in Nat, n \in Nat :
        /\ m = Len(s) /\ n = Len(r) /\ m <= n /\ DOMAIN s = 1 .. m /\ DOMAIN r = 1 .. n
        /\ \A k \in 1 .. m : s[k] = r[k]
  BY PrefixIs
<1>2. PICK S, R : S = Starts(s) /\ R = Starts(r)
  OBVIOUS
<1>3. S \in SUBSET (1 .. m) /\ R \in SUBSET (1 .. n)
  BY <1>1, <1>2 DEF Starts
<1>4. \A i \in 1 .. m : i \in S <=> i \in R
  <2> SUFFICES ASSUME NEW i \in 1 .. m
               PROVE  i \in S <=> i \in R
    OBVIOUS
  <2>1. i \in 1 .. n /\ s[i] = r[i]
    BY <1>1
  <2>2. i = 1 \/ s[i - 1] = r[i - 1]
    BY <1>1
  <2>3. QED
    BY <1>1, <1>2, <2>1, <2>2 DEF Starts
<1>5. IsFiniteSet(S) /\ IsFiniteSet(R) /\ S \in SUBSET Nat /\ R \in SUBSET Nat /\ S \in SUBSET R
  <2>0. 1 \in Int /\ m \in Int /\ n \in Int
    OBVIOUS
  <2>1. IsFiniteSet(1 .. m) /\ IsFiniteSet(1 .. n)
    BY <2>0, FS_Interval
  <2>2. IsFiniteSet(S) /\ IsFiniteSet(R)
    BY <1>3, <2>1, FS_Subset
  <2>3. QED
    BY <1>3, <1>4, <2>2
<1>6. PICK N \in Nat, M \in Nat : N = Cardinality(S) /\ M = Cardinality(R) /\ N <= M
  BY <1>5, FS_CardinalityType, FS_Subset
<1>7. /\ Parts(s) = [k \in 1 .. N |-> PartAt(s, Nth(S, k))]
      /\ Parts(r) = [k \in 1 .. M |-> PartAt(r, Nth(R, k))]
  BY <1>2, <1>6 DEF Parts
<1>8. N >= 3
  <2>1. Len([k \in 1 .. N |-> PartAt(s, Nth(S, k))]) = N
    OBVIOUS
  <2>2. QED
    BY <1>6, <1>7, <2>1
<1>9. PICK a, b, d \in S : a < b /\ b < d /\ \A j \in S : j = a \/ j = b \/ b < j
  BY <1>5, <1>6, <1>8, ThreePlaces
<1>10. Nth(S, 1) = a /\ Nth(S, 2) = b
  BY <1>5, <1>9, TwoFirst
<1>11. \A j \in R : j = a \/ j = b \/ b < j
  <2> SUFFICES ASSUME NEW j \in R, j \notin S
               PROVE  b < j
    BY <1>9
  <2>1. j \in 1 .. n /\ ~ (j <= m)
    BY <1>3, <1>4
  <2>2. QED
    BY <1>3, <2>1
<1>12. Nth(R, 1) = a /\ Nth(R, 2) = b
  BY <1>5, <1>9, <1>11, TwoFirst
<1>13. PartAt(s, a) = PartAt(r, a) /\ PartAt(s, b) = PartAt(r, b)
  <2>1. a < d
    BY <1>3, <1>9
  <2>2. QED
    BY <1>2, <1>9, <2>1, PartStays
<1>14. QED
  BY <1>6, <1>7, <1>8, <1>10, <1>12, <1>13

-----------------------------------------------------------------------------
(* The request line and its answer *)

Rooted(c) == \E i \in DOMAIN Roots : IsPrefix(Roots[i], Parts(Requests[c])[2])

\* What is answered is what was asked.
Answered(c) ==
  answer[c] # None \/ http[c] = "headers" =>
    \E status : /\ answer[c] = [status |-> status, method |-> Parts(Requests[c])[1],
                                path |-> Parts(Requests[c])[2]]
                /\ status = 200 => Rooted(c)

\* The bytes received and held are those the request begins with, and the request
\* line is the first that is received.
Heard(c) ==
  /\ peer[c] = "reset" => inbox[c] = <<>> /\ outbox[c] = <<>>
  /\ PrefixOf(Bytes(c) \o Held(c), Requests[c])
  /\ call[c] # None => result[c] = None
  /\ http[c] \in {"idle", "new"} => received[c] = <<>>
  /\ http[c] = "request" /\ call[c] # None => received[c] = <<>>
  /\ http[c] = "request" /\ call[c] = None /\ result[c] # None =>
       c \notin Readers /\ result[c] = Bytes(c)
  /\ Answered(c)

\* Nothing happens to b that Heard is about.
Quiet(b) ==
  /\ received'[b] = received[b] /\ call'[b] = call[b] /\ result'[b] = result[b]
  /\ answer'[b] = answer[b]
  /\ peer'[b] = "reset" => inbox'[b] = <<>> /\ outbox'[b] = <<>>
  /\ http'[b] \in {"idle", "new"} => http[b] \in {"idle", "new"}
  /\ \A state \in {"request", "headers"} : http'[b] = state => http[b] = state

LEMMA QuietKeeps ==
  ASSUME NEW b \in Clients, Heard(b), Quiet(b)
  PROVE  Heard(b)'
<1>1. Bytes(b)' = Bytes(b) /\ Held(b)' = Held(b)
  BY DEF Quiet, Bytes, Held
<1>2. (PrefixOf(Bytes(b) \o Held(b), Requests[b]))'
  BY <1>1 DEF Heard, PrefixOf
<1>3. Answered(b)'
  BY DEF Heard, Answered, Quiet, Rooted
<1>4. QED
  BY <1>1, <1>2, <1>3 DEF Heard, Quiet

\* What is received in the end, whether the client reset the connection or not
LEMMA PrefixStays ==
  ASSUME ServerInv, NEW c \in Clients, Heard(c), ServerInv',
         peer'[c] = "reset" => Bytes(c)' \o Held(c)' = Bytes(c) \o Held(c)
  PROVE  (PrefixOf(Bytes(c) \o Held(c), Requests[c]))'
<1>1. CASE peer'[c] = "reset"
  BY <1>1 DEF Heard, PrefixOf
<1>2. CASE peer'[c] # "reset"
  <2>1. PICK b, h, i, o : b = Bytes(c)' /\ h = Held(c)' /\ i = inbox'[c] /\ o = outbox'[c]
    OBVIOUS
  <2>2. b \in Seq(Byte) /\ h \in Seq(Byte) /\ b \o h \in Seq(Byte) /\ i \in Seq(Byte) /\ o \in Seq(Byte)
    <3>1. (/\ Bytes(c) \in Seq(Byte) /\ Held(c) \in Seq(Byte)
           /\ Bytes(c) \o Held(c) \in Seq(Byte)
           /\ inbox[c] \in Seq(Byte) /\ outbox[c] \in Seq(Byte))'
      <4>1. ServerInv' => TypeOK'
        BY DEF ServerInv
      <4>2. QED
        BY <4>1, StreamTypes, PTL
    <3>2. QED
      BY <2>1, <3>1
  <2>3. b \o h \o i \o o = Requests[c]
    BY <1>2, <2>1 DEF ServerInv, ClientOK, Stream
  <2>4. Regroups(b \o h, i, o) /\ i \o o \in Seq(Byte)
    BY <2>2, ThreeInARow, ConcatProperties
  <2>5. (b \o h) \o (i \o o) = Requests[c]
    BY <2>3, <2>4 DEF Regroups
  <2>6. QED
    BY <2>1, <2>4, <2>5 DEF PrefixOf
<1>3. QED
  BY <1>1, <1>2

\* What a read that goes on or ends leaves for who reads: a line is what was received.
Outcome(c) ==
  \/ result' = result /\ (call'[c] = None \/ received' = received)
  \/ /\ call'[c] = None
     /\ \E bytes \in Seq(Byte) :
          /\ Recorded(c, bytes, "given")
          /\ result' = [result EXCEPT ![c] = IF c \in Readers THEN None ELSE bytes]

LEMMA ReturnOutcome ==
  ASSUME TypeOK, NEW c \in Clients, NEW bytes \in Seq(Byte), Return(c, bytes)
  PROVE  Outcome(c)
<1>1. call'[c] = None
  BY DEF Return, TypeOK
<1>2. QED
  BY <1>1 DEF Return, Outcome

LEMMA ThrowOutcome ==
  ASSUME TypeOK, NEW c \in Clients, NEW bytes, Throw(c, bytes)
  PROVE  Outcome(c)
<1>1. call'[c] = None
  BY DEF Throw, TypeOK
<1>2. QED
  BY <1>1 DEF Throw, Outcome

LEMMA EndsOutcome ==
  ASSUME TypeOK, NEW c \in Clients, call[c] # None, NEW got \in Seq(Byte), Ends(c, got)
  PROVE  Outcome(c)
<1>1. PICK line \in Seq(Byte) : line = call[c].line \o got
  BY CallOf, ConcatProperties
<1>2. CASE ValueEnds(c, got)
  BY <1>2, ReturnOutcome, ThrowOutcome DEF ValueEnds
<1>3. CASE Throw(c, line) \/ Return(c, line)
  BY <1>3, ReturnOutcome, ThrowOutcome
<1>4. CASE UNCHANGED <<result, received>>
  BY <1>4 DEF Outcome
<1>5. QED
  BY <1>1, <1>2, <1>3, <1>4 DEF Ends

\* A read of c, of bytes that have come, goes on or ends.
LEMMA ReadHeard ==
  ASSUME ServerInv, NEW c \in Clients, Heard(c), ServerInv', call[c] # None,
         NEW got \in Seq(Byte), ReadTo(c, got), Outcome(c),
         peer[c] = "reset" => got = call[c].got /\ inbox' = inbox,
         UNCHANGED <<outbox, peer, httpVars>>
  PROVE  Heard(c)'
<1>1. TypeOK /\ call[c].got \in Seq(Byte) /\ call[c].line \in Seq(Byte)
  BY CallOf DEF ServerInv
<1>2. http' = http /\ answer' = answer /\ peer' = peer /\ outbox' = outbox
  BY DEF httpVars
<1>3. peer'[c] = "reset" => inbox'[c] = <<>> /\ outbox'[c] = <<>>
  BY <1>2 DEF Heard
<1>4. (PrefixOf(Bytes(c) \o Held(c), Requests[c]))'
  <2>1. Held(c) = call[c].line \o call[c].got
    BY DEF Held
  <2>2. peer'[c] = "reset" => Bytes(c)' \o Held(c)' = Bytes(c) \o Held(c)
    BY <1>2, <2>1 DEF ReadTo
  <2>3. QED
    BY <2>2, PrefixStays
<1>5. result[c] = None
  BY DEF Heard
<1>6. http[c] \notin {"idle", "new"}
  BY DEF ServerInv, ClientOK, Reading
<1>7. Answered(c)'
  BY <1>2 DEF Heard, Answered, Rooted
<1>8. http[c] = "request" => received[c] = <<>>
  BY DEF Heard
<1>9. CASE result' = result /\ (call'[c] = None \/ received' = received)
  BY <1>2, <1>3, <1>4, <1>5, <1>6, <1>7, <1>8, <1>9 DEF Heard
<1>10. CASE /\ call'[c] = None
            /\ \E bytes \in Seq(Byte) :
                 /\ Recorded(c, bytes, "given")
                 /\ result' = [result EXCEPT ![c] = IF c \in Readers THEN None ELSE bytes]
  <2>1. PICK bytes \in Seq(Byte) :
          /\ Recorded(c, bytes, "given")
          /\ result' = [result EXCEPT ![c] = IF c \in Readers THEN None ELSE bytes]
    BY <1>10
  <2>2. result'[c] = IF c \in Readers THEN None ELSE bytes
    BY <1>1, <2>1 DEF TypeOK
  <2>3. http[c] = "request" => Bytes(c)' = bytes
    <3>1. PICK q : q = received[c] \o Marked(bytes, "given")
      OBVIOUS
    <3>2. received'[c] = q
      BY <1>1, <2>1, <3>1 DEF Recorded, Marked, TypeOK
    <3>3. CASE http[c] = "request"
      <4>1. PICK r \in Seq(Received) : r = received[c] /\ r = <<>>
        BY <1>1, <1>8, <3>3 DEF TypeOK
      <4>2. ByteOf(q) = ByteOf(r) \o bytes /\ "given" \in Fate
        BY <3>1, <4>1, Recording DEF Fate
      <4>3. ByteOf(r) = <<>>
        <5>1. ByteOf(r) \in Seq(Byte) /\ Len(ByteOf(r)) = 0
          BY <4>1, BytesOf, EmptySeq
        <5>2. QED
          BY <5>1, EmptySeq
      <4>4. <<>> \o bytes = bytes
        BY ConcatEmptySeq
      <4>5. Bytes(c)' = ByteOf(q)
        BY <3>2 DEF Bytes, ByteOf
      <4>6. QED
        BY <4>2, <4>3, <4>4, <4>5
    <3>4. QED
      BY <3>3
  <2>4. http'[c] = "request" /\ result'[c] # None => c \notin Readers /\ result'[c] = Bytes(c)'
    BY <1>2, <2>2, <2>3
  <2>5. QED
    BY <1>2, <1>3, <1>4, <1>6, <1>7, <1>10, <2>4 DEF Heard
<1>11. QED
  BY <1>9, <1>10 DEF Outcome

Alone(b) ==
  /\ received'[b] = received[b] /\ call'[b] = call[b] /\ result'[b] = result[b]
  /\ answer'[b] = answer[b] /\ http'[b] = http[b]
  /\ peer'[b] = peer[b] /\ inbox'[b] = inbox[b] /\ outbox'[b] = outbox[b]

HeardAll == \A c \in Clients : Heard(c)

LEMMA AloneKeeps ==
  ASSUME HeardAll, NEW c \in Clients, \A b \in Clients \ {c} : Alone(b), Heard(c)'
  PROVE  HeardAll'
<1>1. ASSUME NEW b \in Clients \ {c}
      PROVE  Heard(b)'
  <2>1. Heard(b) /\ Alone(b)
    BY DEF HeardAll
  <2>2. Quiet(b)
    BY <2>1 DEF Alone, Quiet, Heard
  <2>3. QED
    BY <2>1, <2>2, QuietKeeps
<1>2. QED
  BY <1>1 DEF HeardAll

LEMMA OutcomeAlone ==
  ASSUME TypeOK, NEW c \in Clients, Outcome(c), NEW b \in Clients \ {c}
  PROVE  result'[b] = result[b]
  BY DEF Outcome, TypeOK

LEMMA RecvHeard ==
  ASSUME ServerInv, HeardAll, ServerInv', NEW c \in Clients, Recv(c), UNCHANGED <<httpVars, setVars>>
  PROVE  HeardAll'
<1>1. TypeOK /\ Stream(c) /\ Reading(c) /\ call[c] # None /\ Heard(c)
  BY DEF ServerInv, ClientOK, Recv, HeardAll
<1>2. Other(c) = c
  BY <1>1, OwnDescriptor DEF Reading
<1>3. PICK g \in Seq(Byte), size \in Nat \ {0} : g = call[c].got /\ size = call[c].size
  BY <1>1, CallOf
<1>4. PICK i \in Seq(Byte) : i = inbox[c]
  BY <1>1, StreamTypes
<1>5. UNCHANGED <<outbox, peer, httpVars>>
  BY DEF Recv
<1>6. PICK got \in Seq(Byte) :
        /\ ReadTo(c, got) /\ Outcome(c)
        /\ i = <<>> => got = g /\ inbox' = inbox
        /\ \A b \in Clients \ {c} : inbox'[b] = inbox[b]
  <2>1. CASE i = <<>>
    <3>1. Ends(c, g) /\ inbox' = inbox
      BY <1>2, <1>3, <1>4, <2>1 DEF Recv
    <3>2. QED
      BY <1>1, <1>3, <3>1, EndsKeeps, EndsOutcome
  <2>2. CASE i # <<>>
    <3>1. PICK n : n = Min({Len(i), size - Len(g)})
      OBVIOUS
    <3>2. Len(i) \in Nat \ {0} /\ Len(g) \in Nat /\ Len(g) < size
      BY <1>1, <1>3, <2>2, EmptySeq DEF Reading
    <3>3. PICK x \in Nat, y \in Nat : x = Len(i) /\ y = size - Len(g) /\ y <= size
      <4>1. PICK x \in Nat, z \in Nat : x = Len(i) /\ z = Len(g) /\ z < size
        BY <3>2
      <4>2. size - z \in Nat /\ size - z <= size
        BY <4>1
      <4>3. QED
        BY <4>1, <4>2
    <3>4. n \in 0 .. Len(i) /\ n <= y
      <4>1. n = Min({x, y})
        BY <3>1, <3>3
      <4>2. Min({x, y}) = IF x <= y THEN x ELSE y
        BY MinOfTwo
      <4>3. QED
        BY <3>3, <4>1, <4>2
    <3>5. PICK t : t = SubSeq(i, 1, n)
      OBVIOUS
    <3>6. t \in Seq(Byte) /\ Len(t) = n
      BY <3>4, <3>5, Taking
    <3>7. PICK got \in Seq(Byte) : got = g \o t /\ Len(got) = Len(g) + n
      BY <3>6, ConcatProperties
    <3>8. /\ inbox' = [inbox EXCEPT ![c] = SubSeq(inbox[c], n + 1, Len(inbox[c]))]
          /\ IF Len(got) = call[c].size THEN Ends(c, got) ELSE GoOn(c, got)
      BY <1>1, <1>2, <1>3, <1>4, <2>2, <3>1, <3>5, <3>7 DEF Recv
    <3>9. ReadTo(c, got) /\ Outcome(c)
      <4>1. CASE Len(got) = call[c].size
        BY <4>1, <1>1, <3>8, EndsKeeps, EndsOutcome
      <4>2. CASE Len(got) # call[c].size
        <5>1. Len(got) < call[c].size
          <6>1. PICK z \in Nat : z = Len(g) /\ n \in Nat /\ Len(got) = z + n /\ n <= size - z
            BY <3>2, <3>3, <3>4, <3>7
          <6>2. z + n # size
            BY <4>2, <1>3, <6>1
          <6>3. z + n < size
            BY <6>1, <6>2
          <6>4. QED
            BY <1>3, <6>1, <6>3
        <5>2. GoOn(c, got)
          BY <4>2, <3>8
        <5>3. ReadTo(c, got)
          BY <5>1, <5>2, <1>1, GoOnKeeps
        <5>4. QED
          BY <5>2, <5>3 DEF GoOn, Outcome
      <4>3. QED
        BY <4>1, <4>2
    <3>10. \A b \in Clients \ {c} : inbox'[b] = inbox[b]
      BY <1>1, <3>8 DEF TypeOK
    <3>11. QED
      BY <2>2, <3>9, <3>10
  <2>3. QED
    BY <2>1, <2>2
<1>7. peer[c] = "reset" => got = call[c].got /\ inbox' = inbox
  BY <1>1, <1>3, <1>4, <1>6 DEF Heard
<1>8. Heard(c)'
  BY <1>1, <1>5, <1>6, <1>7, ReadHeard
<1>9. \A b \in Clients \ {c} : Alone(b)
  BY <1>1, <1>5, <1>6, OutcomeAlone DEF Alone, ReadTo, httpVars
<1>10. QED
  BY <1>8, <1>9, AloneKeeps

LEMMA DeadlineHeard ==
  ASSUME ServerInv, HeardAll, ServerInv', NEW c \in Clients, Deadline(c),
         UNCHANGED <<httpVars, setVars>>
  PROVE  HeardAll'
<1>1. TypeOK /\ Stream(c) /\ Reading(c) /\ call[c] # None /\ AtDeadline(c) /\ Heard(c)
  BY DEF ServerInv, ClientOK, Deadline, HeardAll
<1>2. UNCHANGED <<inbox, outbox, peer, httpVars>>
  BY DEF Deadline
<1>3. ReadTo(c, call[c].got) /\ call[c].got \in Seq(Byte) /\ call[c].line \in Seq(Byte)
  BY <1>1, AtDeadlineKeeps, CallOf
<1>4. Outcome(c)
  BY <1>1, <1>3, ReturnOutcome, ThrowOutcome DEF AtDeadline
<1>5. Heard(c)'
  BY <1>1, <1>2, <1>3, <1>4, ReadHeard
<1>6. \A b \in Clients \ {c} : Alone(b)
  BY <1>1, <1>2, <1>3, <1>4, OutcomeAlone DEF Alone, ReadTo, httpVars
<1>7. QED
  BY <1>5, <1>6, AloneKeeps

\* A read begins, with nothing received or held that was not.
LEMMA BeginHeard ==
  ASSUME TypeOK, HeardAll, NEW c \in Clients, call[c] = None,
         NEW kind \in {"line", "value", "upto"}, NEW size \in Nat \ {0}, Begin(c, kind, size),
         http'[c] \notin {"idle", "new"}, http'[c] = "request" => http[c] = "new",
         Answered(c)', \A b \in Clients \ {c} : http'[b] = http[b] /\ answer'[b] = answer[b],
         UNCHANGED <<received, peer, inbox, outbox>>
  PROVE  HeardAll'
<1>1. /\ call'[c] # None /\ Held(c)' = Held(c)
      /\ \A b \in Clients \ {c} : call'[b] = call[b]
  BY BeginIs
<1>2. result'[c] = None /\ \A b \in Clients \ {c} : result'[b] = result[b]
  BY DEF Begin, TypeOK
<1>3. Bytes(c)' = Bytes(c) /\ Heard(c)
  BY DEF Bytes, HeardAll
<1>4. (PrefixOf(Bytes(c) \o Held(c), Requests[c]))'
  BY <1>1, <1>3 DEF Heard, PrefixOf
<1>5. Heard(c)'
  BY <1>1, <1>2, <1>3, <1>4 DEF Heard
<1>6. \A b \in Clients \ {c} : Alone(b)
  BY <1>1, <1>2 DEF Alone
<1>7. QED
  BY <1>5, <1>6, AloneKeeps

LEMMA RunBeginsHeard ==
  ASSUME ServerInv, HeardAll, NEW c \in Clients, RunBegins(c), UNCHANGED <<peer, inbox, outbox>>
  PROVE  HeardAll'
<1>1. TypeOK /\ ClientOK(c) /\ Heard(c)
  BY DEF ServerInv, HeardAll
<1>2. http'[c] = "request" /\ \A b \in Clients \ {c} : http'[b] = http[b]
  BY <1>1, BecomesIs DEF RunBegins, HttpStates
<1>3. /\ http[c] = "new" /\ Begin(c, "line", 1) /\ received' = received /\ answer' = answer
      /\ call[c] = None
  BY <1>1 DEF RunBegins, ReadLine, ClientOK, Reading
<1>4. Answered(c)'
  BY <1>1, <1>2, <1>3 DEF Heard, Answered, Rooted
<1>5. QED
  BY <1>1, <1>2, <1>3, <1>4, BeginHeard

LEMMA RequestReadHeard ==
  ASSUME ServerInv, HeardAll, NEW c \in Clients, RequestRead(c), UNCHANGED <<peer, inbox, outbox>>
  PROVE  HeardAll'
<1>1. TypeOK /\ ClientOK(c) /\ Heard(c)
  BY DEF ServerInv, HeardAll
<1>2. http[c] = "request" /\ call[c] = None /\ result[c] # None
  BY DEF RequestRead, HasRead
<1>3. PICK parts : parts = Parts(result[c])
  OBVIOUS
<1>4. CASE Len(parts) < 3
  <2>1. Becomes(c, "over") /\ UNCHANGED <<call, result, received, answer>>
    BY <1>3, <1>4 DEF RequestRead
  <2>2. http'[c] = "over" /\ \A b \in Clients \ {c} : http'[b] = http[b]
    BY <1>1, <2>1, BecomesIs DEF HttpStates
  <2>3. Quiet(c) /\ \A b \in Clients \ {c} : Alone(b)
    BY <1>1, <2>1, <2>2 DEF Quiet, Alone, Heard
  <2>4. QED
    BY <1>1, <2>3, QuietKeeps, AloneKeeps
<1>5. CASE ~ (Len(parts) < 3)
  <2>1. /\ Becomes(c, "headers")
        /\ answer' = [answer EXCEPT ![c] = [status |-> 0, method |-> parts[1], path |-> parts[2]]]
        /\ Begin(c, "line", 1) /\ received' = received
    BY <1>3, <1>5 DEF RequestRead, ReadLine
  <2>2. http'[c] = "headers" /\ \A b \in Clients \ {c} : http'[b] = http[b]
    BY <1>1, <2>1, BecomesIs DEF HttpStates
  <2>3. PICK s \in Seq(Byte), r \in Seq(Byte) : s = Bytes(c) /\ r = Requests[c]
    BY <1>1, StreamTypes, ConnectionAssumption
  <2>4. PrefixOf(s, r) /\ parts = Parts(s)
    <3>1. result[c] = s
      BY <1>1, <1>2, <2>3 DEF Heard
    <3>2. Held(c) = <<>> /\ s \o <<>> = s
      BY <1>2, ConcatEmptySeq DEF Held
    <3>3. QED
      BY <1>1, <1>3, <2>3, <3>1, <3>2 DEF Heard
  <2>5. parts[1] = Parts(r)[1] /\ parts[2] = Parts(r)[2]
    BY <1>5, <2>4, TwoPartsStay
  <2>6. answer'[c] = [status |-> 0, method |-> Parts(Requests[c])[1], path |-> Parts(Requests[c])[2]]
    BY <1>1, <2>1, <2>3, <2>5 DEF TypeOK
  <2>7. Answered(c)'
    <3>1. 0 # 200
      OBVIOUS
    <3>2. QED
      BY <2>6, <3>1 DEF Answered
  <2>8. \A b \in Clients \ {c} : answer'[b] = answer[b]
    BY <1>1, <2>1 DEF TypeOK
  <2>9. /\ "line" \in {"line", "value", "upto"} /\ 1 \in Nat \ {0}
        /\ http'[c] \notin {"idle", "new"} /\ http'[c] # "request"
        /\ UNCHANGED <<received, peer, inbox, outbox>>
        /\ TypeOK /\ call[c] = None /\ Begin(c, "line", 1)
    BY <1>1, <1>2, <2>1, <2>2
  <2>10. QED
    BY <2>2, <2>7, <2>8, <2>9, BeginHeard
<1>6. QED
  BY <1>4, <1>5

LEMMA HeaderReadHeard ==
  ASSUME ServerInv, HeardAll, NEW c \in Clients, HeaderRead(c), UNCHANGED <<peer, inbox, outbox>>
  PROVE  HeardAll'
<1>1. TypeOK /\ ClientOK(c) /\ Heard(c)
  BY DEF ServerInv, HeardAll
<1>2. http[c] = "headers" /\ call[c] = None
  BY DEF HeaderRead, HasRead
<1>3. CASE ReadLine(c) /\ UNCHANGED httpVars
  <2>1. Begin(c, "line", 1) /\ received' = received /\ http' = http /\ answer' = answer
    BY <1>3 DEF ReadLine, httpVars
  <2>2. Answered(c)'
    BY <1>1, <2>1 DEF Heard, Answered, Rooted
  <2>3. QED
    BY <1>1, <1>2, <2>1, <2>2, BeginHeard
<1>4. CASE /\ Becomes(c, "sending") /\ UNCHANGED <<call, result, received>>
           /\ answer' = [answer EXCEPT ![c].status = Status(answer[c])]
  <2>1. http'[c] = "sending" /\ \A b \in Clients \ {c} : http'[b] = http[b]
    BY <1>1, <1>4, BecomesIs DEF HttpStates
  <2>2. \A b \in Clients \ {c} : answer'[b] = answer[b]
    BY <1>1, <1>4 DEF TypeOK
  <2>3. Answered(c)'
    <3>1. PICK a, m, p : a = answer[c] /\ m = Parts(Requests[c])[1] /\ p = Parts(Requests[c])[2]
      OBVIOUS
    <3>2. answer'[c] = [a EXCEPT !.status = Status(a)]
      BY <1>1, <1>4, <3>1 DEF TypeOK
    <3>3. PICK old : a = [status |-> old, method |-> m, path |-> p]
      BY <1>1, <1>2, <3>1 DEF Heard, Answered
    <3>4. PICK status : status = Status(a)
      OBVIOUS
    <3>5. answer'[c] = [status |-> status, method |-> m, path |-> p]
      BY <3>2, <3>3, <3>4
    <3>6. status = 200 => \E i \in DOMAIN Roots : IsPrefix(Roots[i], p)
      BY <3>3, <3>4 DEF Status
    <3>7. QED
      BY <3>1, <3>5, <3>6 DEF Answered, Rooted
  <2>4. PrefixOf(Bytes(c) \o Held(c), Requests[c])'
    <3>1. Bytes(c)' = Bytes(c) /\ Held(c)' = Held(c)
      BY <1>4 DEF Bytes, Held
    <3>2. QED
      BY <1>1, <3>1 DEF Heard, PrefixOf
  <2>5. Heard(c)'
    BY <1>1, <1>2, <1>4, <2>1, <2>3, <2>4 DEF Heard
  <2>6. \A b \in Clients \ {c} : Alone(b)
    BY <1>4, <2>1, <2>2 DEF Alone
  <2>7. QED
    BY <2>5, <2>6, AloneKeeps
<1>5. QED
  BY <1>3, <1>4 DEF HeaderRead

LEMMA BeginReadHeard ==
  ASSUME ServerInv, HeardAll, NEW c \in Clients, BeginRead(c)
  PROVE  HeardAll'
<1>1. TypeOK /\ ClientOK(c) /\ Heard(c)
  BY DEF ServerInv, HeardAll
<1>2. PICK r \in Reads : Begin(c, r.kind, r.size)
  BY DEF BeginRead
<1>3. r.kind \in {"line", "value", "upto"} /\ r.size \in Nat \ {0}
  BY ReadsAssumption
<1>4. /\ http[c] = "reading" /\ call[c] = None /\ http' = http /\ answer' = answer
      /\ UNCHANGED <<received, peer, inbox, outbox>>
  BY DEF BeginRead, httpVars
<1>5. Answered(c)'
  BY <1>1, <1>4 DEF Heard, Answered, Rooted
<1>6. QED
  BY <1>1, <1>2, <1>3, <1>4, <1>5, BeginHeard

LEMMA QuietAll ==
  ASSUME HeardAll, \A b \in Clients : Quiet(b)
  PROVE  HeardAll'
  BY QuietKeeps DEF HeardAll

\* Sends, closes and what the peers and the loop do
LEMMA OthersHeard ==
  ASSUME ServerInv, HeardAll,
         UNCHANGED <<received, call, result, answer>>,
         \A b \in Clients : /\ peer'[b] = "reset" => inbox'[b] = <<>> /\ outbox'[b] = <<>>
                            /\ http'[b] = http[b] \/ http[b] = "idle" \/ http'[b] = "over",
         \A b \in Clients : http[b] = "idle" /\ http'[b] # "idle" => http'[b] \in {"new", "reading"}
  PROVE  HeardAll'
<1>1. \A b \in Clients : Quiet(b)
  BY DEF Quiet
<1>2. QED
  BY <1>1, QuietAll

LEMMA PeerHeard ==
  ASSUME ServerInv, HeardAll, NEW c \in Clients, PeerStep(c)
  PROVE  HeardAll'
<1>1. TypeOK /\ \A b \in Clients : peer[b] = "reset" => inbox[b] = <<>> /\ outbox[b] = <<>>
  BY DEF ServerInv, HeardAll, Heard
<1>2. UNCHANGED <<received, call, result, httpVars>>
  BY DEF PeerStep, Connect, ClientSends, ClientReads, ClientLeaves
<1>3. \A b \in Clients : peer'[b] = "reset" => inbox'[b] = <<>> /\ outbox'[b] = <<>>
  <2>1. CASE Connect(c) \/ ClientReads(c)
    BY <1>1, <2>1 DEF Connect, ClientReads, TypeOK
  <2>2. CASE ClientSends(c)
    <3>1. /\ peer' = peer /\ peer[c] = "open"
          /\ \A b \in Clients \ {c} : inbox'[b] = inbox[b] /\ outbox'[b] = outbox[b]
      BY <1>1, <2>2 DEF ClientSends, TypeOK
    <3>2. QED
      BY <1>1, <3>1
  <2>3. CASE ClientLeaves(c)
    <3>1. PICK how \in {"closed", "reset"} :
            /\ peer' = [peer EXCEPT ![c] = how]
            /\ inbox' = [inbox EXCEPT ![c] = IF how = "reset" THEN <<>> ELSE @]
            /\ outbox' = [outbox EXCEPT ![c] = IF how = "reset" THEN <<>> ELSE @]
      BY <2>3 DEF ClientLeaves
    <3>2. \A b \in Clients \ {c} : peer'[b] = peer[b] /\ inbox'[b] = inbox[b] /\ outbox'[b] = outbox[b]
      BY <1>1, <3>1 DEF TypeOK
    <3>3. peer'[c] = "reset" => inbox'[c] = <<>> /\ outbox'[c] = <<>>
      BY <1>1, <3>1 DEF TypeOK
    <3>4. QED
      BY <1>1, <3>2, <3>3
  <2>4. QED
    BY <2>1, <2>2, <2>3 DEF PeerStep
<1>4. QED
  BY <1>2, <1>3, OthersHeard DEF httpVars

LEMMA SendHeard ==
  ASSUME ServerInv, HeardAll, NEW c \in Clients, Send(c) \/ SendFails(c),
         UNCHANGED <<inbox, outbox, peer>>
  PROVE  HeardAll'
<1>1. TypeOK /\ \A b \in Clients : peer[b] = "reset" => inbox[b] = <<>> /\ outbox[b] = <<>>
  BY DEF ServerInv, HeardAll, Heard
<1>2. UNCHANGED <<received, call, result, answer>> /\ (Becomes(c, "over") \/ http' = http)
  BY DEF Send, SendFails
<1>3. \A b \in Clients : http'[b] = http[b] \/ (http'[b] = "over" /\ http[b] = "sending")
  BY <1>1, <1>2 DEF Becomes, TypeOK, Send, SendFails
<1>4. QED
  BY <1>1, <1>2, <1>3, OthersHeard

LEMMA UnheardStep ==
  ASSUME ServerInv, HeardAll, UNCHANGED <<received, call, result, answer, inbox, outbox, peer, http>>
  PROVE  HeardAll'
<1>1. \A b \in Clients : peer[b] = "reset" => inbox[b] = <<>> /\ outbox[b] = <<>>
  BY DEF HeardAll, Heard
<1>2. QED
  BY <1>1, OthersHeard

LEMMA WorkerHeard ==
  ASSUME ServerInv, HeardAll, ServerInv', NEW c \in Clients, WorkerStep(c)
  PROVE  HeardAll'
<1>1. CASE Run(c) /\ UNCHANGED <<descriptors, outbox, inbox, peer, sock, open, closedTwice, setVars>>
  <2>1. UNCHANGED <<inbox, outbox, peer>>
    BY <1>1
  <2>2. CASE Send(c) \/ SendFails(c)
    BY <2>1, <2>2, SendHeard
  <2>3. CASE RunBegins(c) \/ RequestRead(c) \/ HeaderRead(c)
    BY <2>1, <2>3, RunBeginsHeard, RequestReadHeard, HeaderReadHeard
  <2>4. QED
    BY <1>1, <2>2, <2>3 DEF Run
<1>2. CASE (Recv(c) \/ Deadline(c)) /\ UNCHANGED <<httpVars, setVars>>
  BY <1>2, RecvHeard, DeadlineHeard
<1>3. CASE Destroy(c) /\ UNCHANGED <<httpVars, setVars>>
  BY <1>3, UnheardStep DEF Destroy, httpVars
<1>4. QED
  BY <1>1, <1>2, <1>3 DEF WorkerStep

LEMMA ReaderHeard ==
  ASSUME ServerInv, HeardAll, NEW c \in Clients, ReaderStep(c)
  PROVE  HeardAll'
<1>1. CASE BeginRead(c)
  BY <1>1, BeginReadHeard
<1>2. CASE (Close(c) \/ Destroy(c)) /\ UNCHANGED <<httpVars, setVars>>
  BY <1>2, UnheardStep DEF Close, Destroy, httpVars
<1>3. QED
  BY <1>1, <1>2 DEF ReaderStep

\* Who is accepted had no thread.
LEMMA LoopHeard ==
  ASSUME ServerInv, HeardAll, LoopStep \/ OtherStep
  PROVE  HeardAll'
<1>1. CASE UNCHANGED <<connVars, httpVars>>
  BY <1>1, UnheardStep DEF connVars, httpVars
<1>2. CASE OtherStep
  <2>1. CASE \E p \in Ports : AddPort(p)
    BY <1>2, <2>1, UnheardStep DEF OtherStep, AddPort, httpVars
  <2>2. CASE StartRun \/ SelectInterrupted \/ SignalExit
    BY <1>2, <2>2, <1>1 DEF OtherStep, StartRun, SelectInterrupted, SignalExit
  <2>3. QED
    BY <1>2, <2>1, <2>2 DEF OtherStep
<1>3. CASE (SelectReady \/ SelectTimeout \/ ScanEnd) /\ UNCHANGED httpVars
  BY <1>3, <1>1 DEF SelectReady, SelectTimeout, ScanEnd
<1>4. CASE \E x \in Clients \cup {None} : Accept(x) /\ Spawned(x)
  <2>1. PICK x \in Clients \cup {None} : Accept(x) /\ Spawned(x)
    BY <1>4
  <2>2. UNCHANGED <<received, call, result, inbox, outbox, peer>>
    BY <2>1 DEF Accept, connVars
  <2>3. CASE x = None
    BY <2>1, <2>2, <2>3, UnheardStep DEF Spawned, httpVars
  <2>4. CASE x # None
    <3>1. TypeOK /\ Queued
      BY DEF ServerInv
    <3>2. /\ Becomes(x, IF x \in Readers THEN "reading" ELSE "new") /\ answer' = answer
          /\ x \in Clients
      BY <2>1, <2>4 DEF Spawned
    <3>3. \A b \in Clients : http'[b] = http[b] \/ (b = x /\ http'[b] \in {"new", "reading"})
      BY <3>1, <3>2 DEF Becomes, TypeOK
    <3>4. http[x] = "idle"
      <4>1. loop = "scan" /\ ready # {} /\ x = Head(backlog[Min(ready)])
        BY <2>1, <2>4 DEF Accept
      <4>2. ready \subseteq Waiting /\ Waiting \subseteq DOMAIN listening /\ DOMAIN listening \subseteq Nat
        BY <3>1 DEF Queued, Waiting, TypeOK, DescriptorTypes
      <4>3. Min(ready) \in ready
        BY <4>1, <4>2, MinIn
      <4>4. PICK d : d = Min(ready)
        OBVIOUS
      <4>5. d \in DOMAIN listening /\ backlog[d] # <<>>
        BY <4>2, <4>3, <4>4 DEF Waiting
      <4>6. PICK w \in Seq(Clients) : w = backlog[d] /\ w # <<>>
        BY <3>1, <4>5 DEF TypeOK
      <4>7. 1 \in DOMAIN w /\ Head(w) = w[1] /\ d \in DOMAIN backlog
        BY <3>1, <4>5, <4>6 DEF TypeOK
      <4>8. QED
        BY <3>1, <4>1, <4>4, <4>6, <4>7 DEF Queued
    <3>5. \A b \in Clients : peer[b] = "reset" => inbox[b] = <<>> /\ outbox[b] = <<>>
      BY DEF HeardAll, Heard
    <3>6. QED
      BY <2>2, <3>2, <3>3, <3>4, <3>5, OthersHeard
  <2>5. QED
    BY <2>3, <2>4
<1>5. QED
  BY <1>2, <1>3, <1>4 DEF LoopStep

WholeInv == closedTwice \/ (ServerInv /\ HeardAll)

LEMMA StepHeard ==
  ASSUME ServerInv, HeardAll, [Next]_vars, ServerInv'
  PROVE  HeardAll'
<1>1. CASE LoopStep \/ OtherStep
  BY <1>1, LoopHeard
<1>2. CASE \E c \in Clients : PeerStep(c) \/ WorkerStep(c) \/ ReaderStep(c)
  BY <1>2, PeerHeard, WorkerHeard, ReaderHeard
<1>3. CASE UNCHANGED vars
  BY <1>3, UnheardStep DEF vars, connVars, httpVars
<1>4. QED
  BY <1>1, <1>2, <1>3 DEF Next

LEMMA WholeInductive ==
  ASSUME WholeInv, [Next]_vars
  PROVE  WholeInv'
<1>1. IInv
  BY DEF WholeInv, IInv
<1>2. closedTwice' \/ ServerInv'
  BY <1>1, Inductive DEF IInv
<1>3. closedTwice => closedTwice'
  BY Remembered DEF vars, connVars
<1>4. QED
  BY <1>2, <1>3, StepHeard DEF WholeInv

LEMMA WholeInitially ==
  ASSUME Init
  PROVE  WholeInv
<1>1. IInv
  BY Initially
<1>2. ASSUME ServerInv, NEW c \in Clients
      PROVE  Heard(c)
  <2>1. /\ inbox[c] = <<>> /\ peer[c] = "away" /\ call[c] = None /\ result[c] = None
        /\ received[c] = <<>> /\ http[c] = "idle" /\ answer[c] = None
    BY DEF Init, ConnInit, HttpInit
  <2>2. PICK r \in Seq(Byte) : r = Requests[c]
    BY ConnectionAssumption
  <2>3. Bytes(c) = <<>> /\ Held(c) = <<>>
    <3>1. PICK q \in Seq(Received) : q = received[c] /\ q = <<>>
      BY <1>2, <2>1 DEF ServerInv, TypeOK
    <3>2. ByteOf(q) \in Seq(Byte) /\ Len(ByteOf(q)) = 0
      BY <3>1, BytesOf, EmptySeq
    <3>3. ByteOf(q) = <<>>
      BY <3>2, EmptySeq
    <3>4. QED
      BY <2>1, <3>1, <3>3 DEF Bytes, ByteOf, Held
  <2>4. (<<>> \o <<>>) \o r = r
    <3>1. <<>> \o <<>> = <<>> /\ <<>> \o r = r
      BY ConcatEmptySeq
    <3>2. QED
      BY <3>1
  <2>5. PrefixOf(Bytes(c) \o Held(c), Requests[c])
    BY <2>2, <2>3, <2>4 DEF PrefixOf
  <2>6. QED
    BY <2>1, <2>5 DEF Heard, Answered
<1>3. QED
  BY <1>1, <1>2 DEF IInv, WholeInv, HeardAll

\* However a request line arrives, and wherever the deadline of a byte cuts it: what is
\* answered is its method and its whole path (HttpServer::Run, read_line, SplitString).
THEOREM PathAnswered == FairSpec => []PathIsWhole
<1>1. Init => WholeInv
  BY WholeInitially
<1>2. WholeInv /\ [Next]_vars => WholeInv'
  BY WholeInductive
<1>3. WholeInv => PathIsWhole
  <2> SUFFICES ASSUME WholeInv, NEW c \in Clients, answer[c] # None, ~closedTwice
               PROVE  /\ answer[c].method = Parts(Requests[c])[1]
                      /\ answer[c].path = Parts(Requests[c])[2]
                      /\ answer[c].status = 200 => Rooted(c)
    BY DEF PathIsWhole, Rooted
  <2>1. PICK m, p : m = Parts(Requests[c])[1] /\ p = Parts(Requests[c])[2]
    OBVIOUS
  <2>0. Answered(c)
    BY DEF WholeInv, HeardAll, Heard
  <2>2. PICK status : /\ answer[c] = [status |-> status, method |-> m, path |-> p]
                      /\ status = 200 => Rooted(c)
    BY <2>1, <2>0 DEF Answered
  <2>3. QED
    BY <2>1, <2>2
<1>4. QED
  BY <1>1, <1>2, <1>3, PTL DEF FairSpec

=============================================================================
