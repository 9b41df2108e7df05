------------------------- MODULE ConfigurationProofs -------------------------
(***************************************************************************)
(* Theorems about Configuration, for any tree of commands, any arguments,  *)
(* any words and any INI file: each word of the command line is consumed   *)
(* once, what was given on it beats the defaults, and what is written into *)
(* an INI file is found in it.                                             *)
(*                                                                         *)
(* The words of the root that count as given are those its loop has come   *)
(* past, as long as it met no command and nothing positional; from there   *)
(* on it goes over no word again, since every command it was given has as  *)
(* many words as itself.                                                   *)
(*                                                                         *)
(* Of an INI file that was written as entries, some have been read when a  *)
(* line is, and of one more some lines: the section is that of the last    *)
(* header among them, the values are those of the last setting of each     *)
(* key, and a value of several lines is the text that its lines make so    *)
(* far.  That needs what the parser makes of each kind of line, which is   *)
(* shown by going over the places in the line.                             *)
(***************************************************************************)
EXTENDS Configuration, TLAPS, SequenceTheorems, FiniteSetTheorems, WellFoundedInduction

Call == [command : Commands, i : Nat]
W == raw[Root]
N == Len(raw[Root])

TypeOK ==
  /\ state \in {"building", "parsing", "parsed", "failed"}
  /\ DOMAIN raw = Commands /\ N \in Nat /\ \A c \in Commands : Len(raw[c]) \in Nat
  /\ children \in [Commands -> SUBSET (Commands \ {Root})]
  /\ \A c \in Commands : \A d \in children[c] : Parent[d] = c
  /\ DOMAIN args = Commands /\ DOMAIN args[Root] = Keys
  /\ allowed \in [Commands -> SUBSET Keys]
  /\ frames \in Seq(Call) /\ (frames # <<>> <=> state = "parsing")
  /\ uses \in Seq(Nat) /\ (state = "building" => uses = <<>>)

\* What defaults are taken from stays as it is from then on.
Settled ==
  /\ ini \in {"reading", "read", "missing"}
  /\ ini = "missing" => data = <<>>
  /\ ini = "reading" => replaced = {}
  /\ replaced \subseteq allowed[Root]

Stops(x) == x.form \in {"word", "dashes"}

\* The calls of Parse: the root's, and those of commands below it.
Calls ==
  /\ \A c \in children[Root] : raw[c] = W
  /\ \A k \in DOMAIN frames : frames[k].i >= 2 /\ (frames[k].command = Root <=> k = 1)
  /\ Len(frames) > 1 => /\ frames[2].command \in children[Root] /\ frames[1].i <= N
                        /\ Stops(W[frames[1].i])
  /\ frames # <<>> /\ frames[1].i <= N => \A j \in 2 .. frames[1].i - 1 : ~Stops(W[j])

\* How far the root's loop has come, and what it has been given
Reached == CASE state = "building" -> 2 [] state = "parsing" -> frames[1].i [] OTHER -> N + 1
GivenYet(key) == {g \in Given(key) : g < Reached}

FileValue(key) ==
  IF key \in Booleans THEN (IF IsTrue(Value(key)) THEN <<"true">> ELSE <<"false">>) ELSE Value(key)

ArgOK(key) ==
  LET a == args[Root][key] IN
  IF GivenYet(key) # {}
  THEN a = [value |-> Stored(key, W[Max(GivenYet(key))].value), default |-> FALSE]
  ELSE IF key \in replaced /\ ini = "read" /\ Holding(key) # {}
  THEN a.value = FileValue(key)
  ELSE a.value \in {Initially[key], Stored(key, Initially[key])}

Defaults ==
  /\ state # "failed" => \A key \in allowed[Root] : ArgOK(key)
  /\ \A key \in Keys \ allowed[Root] : args[Root][key] = Nothing

\* How far the loop that runs has come; all words up to there, and no other, were
\* consumed, each once.
Far == CASE state = "building" -> 2 [] state = "parsing" -> frames[Len(frames)].i [] OTHER -> N + 1
UsedOnce ==
  /\ \A u \in DOMAIN uses : uses[u] \in 2 .. N /\ uses[u] < Far
  /\ \A u, v \in DOMAIN uses : uses[u] = uses[v] => u = v
  /\ \A i \in 2 .. N : i < Far => W[i].form = "empty" \/ \E u \in DOMAIN uses : uses[u] = i

InStep ==
  TopDown => /\ \A k \in DOMAIN frames : raw[frames[k].command] = W
             /\ state # "failed" => UsedOnce

ConfigInv == TypeOK /\ Settled /\ Calls /\ Defaults /\ InStep

-----------------------------------------------------------------------------
(* Sets and calls *)

LEMMA MaxIs ==
  ASSUME NEW S \in SUBSET Nat, NEW x \in S, \A y \in S : y <= x
  PROVE  Max(S) = x
<1>1. \A z \in S : (\A y \in S : z >= y) => z = x
  OBVIOUS
<1>2. x \in S /\ \A y \in S : x >= y
  OBVIOUS
<1>3. QED
  BY <1>1, <1>2 DEF Max

LEMMA CallsAre ==
  ASSUME frames \in Seq(Call), frames # <<>>
  PROVE  /\ Len(frames) \in Nat \ {0} /\ DOMAIN frames = 1 .. Len(frames)
         /\ \A k \in 1 .. Len(frames) : frames[k].command \in Commands /\ frames[k].i \in Nat
         /\ Frame.command \in Commands /\ Frame.i \in Nat
<1>1. Len(frames) \in Nat /\ DOMAIN frames = 1 .. Len(frames)
  BY LenProperties
<1>2. Len(frames) # 0
  BY EmptySeq
<1>3. \A k \in 1 .. Len(frames) : frames[k] \in Call
  BY ElementOfSeq
<1>4. \A k \in 1 .. Len(frames) : frames[k].command \in Commands /\ frames[k].i \in Nat
  BY <1>3 DEF Call
<1>5. QED
  BY <1>1, <1>2, <1>4 DEF Frame

LEMMA GoneOn ==
  ASSUME frames \in Seq(Call), frames # <<>>, NEW j \in Nat, GoOn(j)
  PROVE  /\ frames' \in Seq(Call) /\ frames' # <<>> /\ Len(frames') = Len(frames)
         /\ DOMAIN frames' = DOMAIN frames
         /\ \A k \in DOMAIN frames : frames'[k].command = frames[k].command
         /\ \A k \in DOMAIN frames : frames'[k].i = IF k = Len(frames) THEN j ELSE frames[k].i
<1>1. PICK d \in Nat \ {0} : d = Len(frames) /\ DOMAIN frames = 1 .. d
  BY CallsAre
<1>2. frames \in [1 .. d -> Call]
  BY <1>1, SeqDef
<1>3. PICK t : t = [frames[d] EXCEPT !.i = j]
  OBVIOUS
<1>4. t \in Call /\ t.i = j /\ t.command = frames[d].command
  BY <1>1, <1>2, <1>3 DEF Call
<1>5. frames' = [frames EXCEPT ![d] = t]
  BY <1>1, <1>3 DEF GoOn
<1>6. frames' \in [1 .. d -> Call]
  BY <1>2, <1>4, <1>5
<1>7. frames' \in Seq(Call) /\ Len(frames') = d /\ DOMAIN frames' = 1 .. d
  BY <1>6, SeqDef, LenProperties
<1>8. \A k \in 1 .. d : frames'[k] = IF k = d THEN t ELSE frames[k]
  BY <1>2, <1>5
<1>9. frames' # <<>>
  BY <1>7, EmptySeq
<1>10. QED
  BY <1>1, <1>4, <1>7, <1>8, <1>9

-----------------------------------------------------------------------------
(* What the command line gives to the root's arguments *)

Names(x, key) ==
  \/ x.form = "long" /\ x.key = key
  \/ x.form = "short" /\ x.key = key /\ key \in Lettered
  \/ x.form = "dot" /\ DotKey = key

LEMMA GivenIs ==
  ASSUME NEW key, NEW i
  PROVE  i \in Given(key) <=> /\ i \in 2 .. N /\ Names(W[i], key)
                             /\ \A j \in 2 .. i : ~Stops(W[j])
BY DEF Given, Names, Stops, W, N

LEMMA GivenNumbers ==
  ASSUME N \in Nat, NEW key
  PROVE  Given(key) \subseteq 2 .. N /\ GivenYet(key) \subseteq 2 .. N
BY GivenIs DEF GivenYet

LEMMA GivenStays ==
  ASSUME raw'[Root] = raw[Root], NEW key
  PROVE  W' = W /\ N' = N /\ Given(key)' = Given(key)
BY DEF W, N, Given

\* Behind a command or something positional nothing is given.
LEMMA PastAll ==
  ASSUME N \in Nat, NEW i \in 2 .. N, Stops(W[i]), NEW key, NEW g \in Given(key)
  PROVE  g \in Nat /\ g < i
<1>1. g \in 2 .. N /\ \A j \in 2 .. g : ~Stops(W[j])
  BY GivenIs
<1>2. QED
  BY <1>1

\* A step in which nothing that is given to an argument is passed
LEMMA NothingPassed ==
  ASSUME raw'[Root] = raw[Root], NEW key,
         \A g \in Given(key) : g < Reached' <=> g < Reached
  PROVE  GivenYet(key)' = GivenYet(key)
<1>1. Given(key)' = Given(key)
  BY GivenStays
<1>2. GivenYet(key)' = {g \in Given(key)' : g < Reached'}
  BY DEF GivenYet
<1>3. QED
  BY <1>1, <1>2 DEF GivenYet

LEMMA ArgStays ==
  ASSUME raw'[Root] = raw[Root], NEW key, args'[Root][key] = args[Root][key],
         GivenYet(key)' = GivenYet(key), UNCHANGED iniVars, ArgOK(key),
         key \in replaced' <=> key \in replaced
  PROVE  ArgOK(key)'
<1>1. Holding(key)' = Holding(key) /\ Value(key)' = Value(key) /\ ini' = ini
  BY DEF iniVars, Holding, Value
<1>2. FileValue(key)' = FileValue(key)
  BY <1>1 DEF FileValue
<1>3. W' = W
  BY DEF W
<1>4. ArgOK(key)' =
        (LET a == args'[Root][key] IN
         IF GivenYet(key)' # {}
         THEN a = [value |-> Stored(key, W'[Max(GivenYet(key)')].value), default |-> FALSE]
         ELSE IF key \in replaced' /\ ini' = "read" /\ Holding(key)' # {}
         THEN a.value = FileValue(key)'
         ELSE a.value \in {Initially[key], Stored(key, Initially[key])})
  BY DEF ArgOK
<1>5. QED
  BY <1>1, <1>2, <1>3, <1>4 DEF ArgOK

\* A step in which the argument is given its value
LEMMA ArgGiven ==
  ASSUME raw'[Root] = raw[Root], N \in Nat, NEW key, NEW i \in Given(key), Reached = i,
         Reached' = i + 1,
         args'[Root][key] = [value |-> Stored(key, W[i].value), default |-> FALSE]
  PROVE  ArgOK(key)'
<1>1. i \in Nat /\ Given(key) \subseteq Nat
  BY GivenNumbers
<1>2. Given(key)' = Given(key) /\ W' = W
  BY GivenStays
<1>3. PICK G : G = GivenYet(key)'
  OBVIOUS
<1>4. G = {g \in Given(key) : g < i + 1}
  BY <1>2, <1>3 DEF GivenYet
<1>5. i \in G /\ G \subseteq Nat /\ \A g \in G : g <= i
  BY <1>1, <1>4
<1>6. Max(G) = i
  BY <1>5, MaxIs
<1>7. ArgOK(key)' <=>
        (LET a == args'[Root][key] IN
         IF GivenYet(key)' # {}
         THEN a = [value |-> Stored(key, W'[Max(GivenYet(key)')].value), default |-> FALSE]
         ELSE IF key \in replaced' /\ ini' = "read" /\ Holding(key)' # {}
         THEN a.value = FileValue(key)'
         ELSE a.value \in {Initially[key], Stored(key, Initially[key])})
  BY DEF ArgOK
<1>8. QED
  BY <1>2, <1>3, <1>5, <1>6, <1>7

LEMMA SetIs ==
  ASSUME TypeOK, NEW c \in Commands, NEW key, NEW value, NEW default, Set(c, key, value, default)
  PROVE  /\ DOMAIN args' = Commands /\ DOMAIN args'[Root] = Keys
         /\ c # Root => args'[Root] = args[Root]
         /\ c = Root => \A k \in Keys : args'[Root][k] =
              IF k = key
              THEN IF key \in allowed[Root] THEN [value |-> Stored(key, value), default |-> default]
                   ELSE Nothing
              ELSE args[Root][k]
<1>1. PICK new : new = IF key \in allowed[c] THEN [value |-> Stored(key, value), default |-> default]
                       ELSE Nothing
  OBVIOUS
<1>2. args' = [args EXCEPT ![c] = [args[c] EXCEPT ![key] = new]]
  BY <1>1 DEF Set
<1>3. Root \in Commands /\ DOMAIN args = Commands /\ DOMAIN args[Root] = Keys
  BY CommandLineAssumption DEF TypeOK
<1>4. QED
  BY <1>1, <1>2, <1>3

\* A step consumes some words in turn.
LEMMA Takes ==
  ASSUME uses \in Seq(Nat), NEW p \in Nat, NEW m \in Nat, uses' = uses \o [k \in 1 .. m |-> p + k - 1]
  PROVE  /\ uses' \in Seq(Nat)
         /\ DOMAIN uses \subseteq DOMAIN uses' /\ \A u \in DOMAIN uses : uses'[u] = uses[u]
         /\ \A u \in DOMAIN uses' \ DOMAIN uses : uses'[u] \in p .. p + m - 1
         /\ \A u, v \in DOMAIN uses' \ DOMAIN uses : uses'[u] = uses'[v] => u = v
         /\ \A i \in p .. p + m - 1 : \E u \in DOMAIN uses' : uses'[u] = i
<1> DEFINE t == [k \in 1 .. m |-> p + k - 1]
<1>1. t \in [1 .. m -> Nat]
  OBVIOUS
<1>2. t \in Seq(Nat) /\ Len(t) = m
  BY <1>1, SeqDef, LenProperties
<1>3. PICK n \in Nat : n = Len(uses) /\ DOMAIN uses = 1 .. n
  BY LenProperties
<1>4. \A k \in 1 .. m : t[k] = p + k - 1
  OBVIOUS
<1> HIDE DEF t
<1>5. uses' \in Seq(Nat) /\ Len(uses') = n + m
      /\ \A u \in 1 .. n + m : uses'[u] = IF u <= n THEN uses[u] ELSE t[u - n]
  <2>1. uses' = uses \o t
    BY DEF t
  <2>2. Len(uses) = n /\ Len(t) = m
    BY <1>2, <1>3
  <2>3. /\ uses \o t \in Seq(Nat) /\ Len(uses \o t) = Len(uses) + Len(t)
        /\ \A u \in 1 .. Len(uses) + Len(t) :
             (uses \o t)[u] = IF u <= Len(uses) THEN uses[u] ELSE t[u - Len(uses)]
    <3>1. t \in Seq(Nat)
      BY <1>2
    <3>2. QED
      BY <3>1, ConcatProperties, Zenon
  <2>4. QED
    BY <2>1, <2>2, <2>3, Zenon
<1>6. DOMAIN uses' = 1 .. n + m
  BY <1>3, <1>5, LenProperties
<1>7. \A u \in DOMAIN uses' \ DOMAIN uses : u \in n + 1 .. n + m /\ uses'[u] = p + (u - n) - 1
  BY <1>3, <1>4, <1>5, <1>6
<1>8. \A u \in DOMAIN uses : uses'[u] = uses[u]
  BY <1>3, <1>5, <1>6
<1>9. DOMAIN uses \subseteq DOMAIN uses'
  BY <1>3, <1>6
<1>10. ASSUME NEW u \in DOMAIN uses' \ DOMAIN uses
       PROVE  uses'[u] \in p .. p + m - 1
  <2>1. u \in n + 1 .. n + m /\ uses'[u] = p + (u - n) - 1
    BY <1>7
  <2>2. p + (u - n) - 1 \in p .. p + m - 1
    BY <2>1, SMTT(30)
  <2>3. QED
    BY <2>1, <2>2
<1>11. ASSUME NEW u \in DOMAIN uses' \ DOMAIN uses, NEW v \in DOMAIN uses' \ DOMAIN uses,
              uses'[u] = uses'[v]
       PROVE  u = v
  <2>1. u \in n + 1 .. n + m /\ uses'[u] = p + (u - n) - 1
    BY <1>7
  <2>2. v \in n + 1 .. n + m /\ uses'[v] = p + (v - n) - 1
    BY <1>7
  <2>3. p + (u - n) - 1 = p + (v - n) - 1
    BY <1>11, <2>1, <2>2
  <2>4. QED
    BY <2>1, <2>2, <2>3
<1>12. ASSUME NEW i \in p .. p + m - 1
       PROVE  \E u \in DOMAIN uses' : uses'[u] = i
  <2>1. PICK u \in Int : u = n + (i - p) + 1
    OBVIOUS
  <2>2. u \in n + 1 .. n + m
    BY <2>1
  <2>3. u \in DOMAIN uses' \ DOMAIN uses
    BY <2>2, <1>3, <1>6
  <2>4. uses'[u] = p + (u - n) - 1
    BY <2>3, <1>7
  <2>5. p + (u - n) - 1 = i
    BY <2>1
  <2>6. QED
    BY <2>3, <2>4, <2>5
<1>13. QED
  BY <1>5, <1>8, <1>9, <1>10, <1>11, <1>12

-----------------------------------------------------------------------------
(* What steps of Parse have in common *)

\* The call that runs
LEMMA Here ==
  ASSUME TypeOK, Calls, frames # <<>>
  PROVE  /\ Len(frames) \in Nat \ {0} /\ DOMAIN frames = 1 .. Len(frames)
         /\ state = "parsing" /\ C \in Commands /\ Frame.i \in Nat /\ Frame.i >= 2
         /\ Frame = frames[Len(frames)] /\ C = Frame.command
         /\ (C = Root <=> Len(frames) = 1) /\ (C = Root => raw[C] = W /\ Len(raw[C]) = N)
         /\ Reached = frames[1].i /\ Reached \in Nat /\ Reached >= 2 /\ Far = Frame.i
<1>1. /\ Len(frames) \in Nat \ {0} /\ DOMAIN frames = 1 .. Len(frames)
      /\ \A k \in 1 .. Len(frames) : frames[k].command \in Commands /\ frames[k].i \in Nat
      /\ Frame.command \in Commands /\ Frame.i \in Nat
  BY CallsAre DEF TypeOK
<1>2. 1 \in DOMAIN frames /\ Len(frames) \in DOMAIN frames
  BY <1>1
<1>3. state = "parsing"
  BY DEF TypeOK
<1>4. \A k \in DOMAIN frames : frames[k].i >= 2 /\ (frames[k].command = Root <=> k = 1)
  BY DEF Calls
<1>5. Reached = frames[1].i /\ Far = frames[Len(frames)].i
  BY <1>3 DEF Reached, Far
<1>6. QED
  BY <1>1, <1>2, <1>3, <1>4, <1>5 DEF Frame, C, W, N

\* The call goes on in its words.
LEMMA Advance ==
  ASSUME TypeOK, Calls, Parsing, NEW j \in Nat, j > Frame.i, GoOn(j), UNCHANGED <<raw, children, state>>,
         C = Root => j = N + 1 \/ (~Stops(W[Frame.i]) /\ j = Frame.i + 1)
  PROVE  /\ Calls' /\ frames' \in Seq(Call) /\ frames' # <<>> /\ Far' = j
         /\ Reached' = (IF C = Root THEN j ELSE Reached)
         /\ DOMAIN frames' = DOMAIN frames
         /\ \A k \in DOMAIN frames : frames'[k].command = frames[k].command
<1>1. frames # <<>> /\ Frame.i <= Len(raw[C])
  BY DEF Parsing
<1>2. PICK d \in Nat \ {0} : d = Len(frames) /\ DOMAIN frames = 1 .. d
  BY <1>1, Here
<1>3. /\ state = "parsing" /\ Frame.i \in Nat /\ Frame.i >= 2 /\ Frame = frames[d]
      /\ (C = Root <=> d = 1) /\ (C = Root => Len(raw[C]) = N)
      /\ Reached = frames[1].i
  BY <1>1, <1>2, Here
<1>4. /\ frames' \in Seq(Call) /\ frames' # <<>> /\ Len(frames') = d
      /\ DOMAIN frames' = 1 .. d
      /\ \A k \in 1 .. d : frames'[k].command = frames[k].command
      /\ \A k \in 1 .. d : frames'[k].i = IF k = d THEN j ELSE frames[k].i
  BY <1>1, <1>2, GoneOn DEF TypeOK
<1>5. W' = W /\ N' = N
  BY DEF W, N
<1>6. N \in Nat
  BY DEF TypeOK
<1>7. Far' = j /\ Reached' = (IF C = Root THEN j ELSE Reached)
  <2>1. state' = "parsing"
    BY <1>3
  <2>2. Far' = frames'[Len(frames')].i /\ Reached' = frames'[1].i
    BY <2>1 DEF Far, Reached
  <2>3. 1 \in 1 .. d /\ d \in 1 .. d
    OBVIOUS
  <2>4. QED
    BY <2>2, <2>3, <1>3, <1>4
<1>8. \A c \in children'[Root] : raw'[c] = W'
  BY <1>5 DEF Calls
<1>9. \A k \in 1 .. d : frames'[k].i >= 2 /\ (frames'[k].command = Root <=> k = 1)
  <2>1. \A k \in 1 .. d : frames[k].i >= 2 /\ (frames[k].command = Root <=> k = 1)
    BY <1>2 DEF Calls
  <2>2. j >= 2
    BY <1>3
  <2>3. QED
    BY <2>1, <2>2, <1>4
<1>10. ASSUME d > 1
       PROVE  /\ frames'[2].command \in children'[Root] /\ frames'[1].i <= N'
              /\ Stops(W'[frames'[1].i])
  <2>1. /\ frames[2].command \in children[Root] /\ frames[1].i <= N
        /\ Stops(W[frames[1].i])
    BY <1>2, <1>10 DEF Calls
  <2>2. 1 \in 1 .. d /\ 2 \in 1 .. d /\ 1 # d
    BY <1>10
  <2>3. frames'[1].i = frames[1].i /\ frames'[2].command = frames[2].command
    BY <2>2, <1>4
  <2>4. QED
    BY <2>1, <2>3, <1>5
<1>11. ASSUME frames'[1].i <= N'
       PROVE  \A k \in 2 .. frames'[1].i - 1 : ~Stops(W'[k])
  <2>1. 1 \in 1 .. d
    OBVIOUS
  <2>2. CASE d = 1
    <3>1. frames'[1].i = j /\ Frame.i = frames[1].i
      BY <2>1, <2>2, <1>3, <1>4
    <3>2. j # N + 1
      BY <3>1, <1>5, <1>6, <1>11
    <3>3. ~Stops(W[Frame.i]) /\ j = Frame.i + 1
      BY <2>2, <3>2, <1>3
    <3>4. Frame.i <= N
      BY <2>2, <1>1, <1>3
    <3>5. \A k \in 2 .. Frame.i - 1 : ~Stops(W[k])
      BY <1>1, <3>1, <3>4 DEF Calls
    <3>6. QED
      BY <3>1, <3>3, <3>5, <1>3, <1>5
  <2>3. CASE d # 1
    <3>1. frames'[1].i = frames[1].i
      BY <2>1, <2>3, <1>4
    <3>2. QED
      BY <1>1, <1>5, <1>11, <3>1 DEF Calls
  <2>4. QED
    BY <2>2, <2>3
<1>12. Calls'
  BY <1>4, <1>8, <1>9, <1>10, <1>11 DEF Calls
<1>13. QED
  BY <1>2, <1>4, <1>7, <1>12

\* A step that is not seen by the root's arguments
LEMMA DefaultsStay ==
  ASSUME Defaults, raw'[Root] = raw[Root], args'[Root] = args[Root], allowed'[Root] = allowed[Root],
         UNCHANGED <<iniVars, replaced>>,
         state' # "failed" =>
           /\ state # "failed"
           /\ \A key \in allowed[Root] : \A g \in Given(key) : g < Reached' <=> g < Reached
  PROVE  Defaults'
<1>1. ASSUME state' # "failed", NEW key \in allowed[Root]
      PROVE  ArgOK(key)'
  <2>1. GivenYet(key)' = GivenYet(key)
    BY <1>1, NothingPassed
  <2>2. ArgOK(key)
    BY <1>1 DEF Defaults
  <2>3. QED
    BY <2>1, <2>2, ArgStays
<1>2. state' # "failed" => \A key \in allowed'[Root] : ArgOK(key)'
  BY <1>1
<1>3. \A key \in Keys \ allowed'[Root] : args'[Root][key] = Nothing
  BY DEF Defaults
<1>4. QED
  BY <1>2, <1>3 DEF Defaults

LEMMA SettledStays ==
  ASSUME Settled, UNCHANGED <<iniVars, replaced>>, allowed[Root] \subseteq allowed'[Root]
  PROVE  Settled'
BY DEF Settled, iniVars

\* Words are consumed, and the loop has come past them.
LEMMA UsedOn ==
  ASSUME UsedOnce, N \in Nat, uses \in Seq(Nat), raw'[Root] = raw[Root],
         NEW p \in Nat, NEW m \in Nat, p >= 2, p + m <= N + 1, Far = p, Far' = p + m,
         uses' = uses \o [k \in 1 .. m |-> p + k - 1]
  PROVE  UsedOnce' /\ uses' \in Seq(Nat)
<1>1. W' = W /\ N' = N
  BY DEF W, N
<1>2. /\ uses' \in Seq(Nat)
      /\ DOMAIN uses \subseteq DOMAIN uses' /\ \A u \in DOMAIN uses : uses'[u] = uses[u]
      /\ \A u \in DOMAIN uses' \ DOMAIN uses : uses'[u] \in p .. p + m - 1
      /\ \A u, v \in DOMAIN uses' \ DOMAIN uses : uses'[u] = uses'[v] => u = v
      /\ \A i \in p .. p + m - 1 : \E u \in DOMAIN uses' : uses'[u] = i
  BY Takes
<1>3. /\ \A u \in DOMAIN uses : uses[u] \in 2 .. N /\ uses[u] < p
      /\ \A u, v \in DOMAIN uses : uses[u] = uses[v] => u = v
      /\ \A i \in 2 .. N : i < p => W[i].form = "empty" \/ \E u \in DOMAIN uses : uses[u] = i
  BY DEF UsedOnce
<1>4. \A u \in DOMAIN uses' : uses'[u] \in 2 .. N /\ uses'[u] < p + m
  BY <1>2, <1>3
<1>5. \A u, v \in DOMAIN uses' : uses'[u] = uses'[v] => u = v
  <2>1. TAKE u, v \in DOMAIN uses'
  <2>2. CASE u \in DOMAIN uses /\ v \in DOMAIN uses
    BY <2>2, <1>2, <1>3
  <2>3. CASE u \in DOMAIN uses /\ v \notin DOMAIN uses
    BY <2>3, <1>2, <1>3, SMTT(30)
  <2>4. CASE u \notin DOMAIN uses /\ v \in DOMAIN uses
    BY <2>4, <1>2, <1>3, SMTT(30)
  <2>5. CASE u \notin DOMAIN uses /\ v \notin DOMAIN uses
    BY <2>5, <1>2
  <2>6. QED
    BY <2>2, <2>3, <2>4, <2>5
<1>6. \A i \in 2 .. N : i < p + m => W[i].form = "empty" \/ \E u \in DOMAIN uses' : uses'[u] = i
  <2>1. SUFFICES ASSUME NEW i \in 2 .. N, i < p + m
                 PROVE  W[i].form = "empty" \/ \E u \in DOMAIN uses' : uses'[u] = i
    OBVIOUS
  <2>2. CASE i < p
    <3>1. W[i].form = "empty" \/ \E u \in DOMAIN uses : uses[u] = i
      BY <2>2, <1>3
    <3>2. QED
      BY <3>1, <1>2
  <2>3. CASE i >= p
    <3>1. i \in p .. p + m - 1
      BY <2>1, <2>3
    <3>2. QED
      BY <3>1, <1>2
  <2>4. i < p \/ i >= p
    OBVIOUS
  <2>5. QED
    BY <2>2, <2>3, <2>4
<1>7. QED
  BY <1>1, <1>2, <1>4, <1>5, <1>6 DEF UsedOnce

\* The call goes on, and what it came past was empty or is consumed.
LEMMA GoesOn ==
  ASSUME ConfigInv, Parsing, NEW m \in Nat \ {0}, Frame.i + m <= Len(raw[C]) + 1, GoOn(Frame.i + m),
         UNCHANGED <<raw, allowed, children, state, iniVars, replaced>>,
         C = Root => Frame.i + m = N + 1 \/ (~Stops(W[Frame.i]) /\ m = 1),
         (Word.form = "empty" /\ m = 1 /\ uses' = uses) \/ Taking(m),
         DOMAIN args' = Commands, DOMAIN args'[Root] = Keys, Defaults'
  PROVE  ConfigInv'
<1>1. frames # <<>> /\ Frame.i <= Len(raw[C]) /\ TypeOK /\ Calls
  BY DEF Parsing, ConfigInv
<1>2. PICK p \in Nat : p = Frame.i /\ p >= 2
  BY <1>1, Here
<1>3. /\ Calls' /\ frames' \in Seq(Call) /\ frames' # <<>> /\ Far' = p + m
      /\ DOMAIN frames' = DOMAIN frames
      /\ \A k \in DOMAIN frames : frames'[k].command = frames[k].command
  <2>1. p + m \in Nat /\ p + m > Frame.i
    BY <1>2
  <2>2. QED
    BY <2>1, <1>1, <1>2, Advance
<1>4. state = "parsing" /\ Far = p /\ Len(frames) \in DOMAIN frames /\ C = frames[Len(frames)].command
  <2>1. Len(frames) \in Nat \ {0} /\ DOMAIN frames = 1 .. Len(frames)
    BY <1>1, Here
  <2>2. QED
    BY <2>1, <1>1, <1>2, Here
<1>5. uses \in Seq(Nat) /\ N \in Nat
  BY <1>1 DEF TypeOK
<1>6. (Word.form = "empty" /\ m = 1 /\ uses' = uses) \/ uses' = uses \o [k \in 1 .. m |-> p + k - 1]
  BY <1>2 DEF Taking
<1>7. uses' \in Seq(Nat)
  BY <1>5, <1>6, Takes
<1>8. TypeOK'
  BY <1>1, <1>3, <1>4, <1>7 DEF TypeOK, N
<1>9. Settled'
  BY SettledStays DEF ConfigInv
<1>10. InStep'
  <2>1. SUFFICES ASSUME TopDown
                 PROVE  /\ \A k \in DOMAIN frames' : raw'[frames'[k].command] = W'
                        /\ UsedOnce'
    BY DEF InStep, TopDown
  <2>2. (\A k \in DOMAIN frames : raw[frames[k].command] = W) /\ UsedOnce
    BY <2>1, <1>4 DEF ConfigInv, InStep
  <2>3. W' = W /\ N' = N
    BY DEF W, N
  <2>4. \A k \in DOMAIN frames' : raw'[frames'[k].command] = W'
    BY <2>2, <2>3, <1>3
  <2>5. raw[C] = W /\ Len(raw[C]) = N
    BY <2>2, <1>4 DEF W, N
  <2>6. UsedOnce'
    <3>1. CASE uses' = uses \o [k \in 1 .. m |-> p + k - 1]
      <4>1. p + m <= N + 1
        BY <2>5, <1>2
      <4>2. QED
        BY <3>1, <4>1, <2>2, <1>2, <1>3, <1>4, <1>5, UsedOn
    <3>2. CASE Word.form = "empty" /\ m = 1 /\ uses' = uses
      <4>1. W[p].form = "empty"
        BY <3>2, <2>5, <1>2 DEF Word
      <4>2. /\ \A u \in DOMAIN uses : uses[u] \in 2 .. N /\ uses[u] < p
            /\ \A u, v \in DOMAIN uses : uses[u] = uses[v] => u = v
            /\ \A i \in 2 .. N : i < p => W[i].form = "empty" \/ \E u \in DOMAIN uses : uses[u] = i
        BY <2>2, <1>4 DEF UsedOnce
      <4>3. Far' = p + 1
        BY <3>2, <1>3
      <4>4. \A u \in DOMAIN uses : uses[u] \in 2 .. N /\ uses[u] < p + 1
        BY <4>2, <1>2
      <4>5. \A i \in 2 .. N : i < p + 1 => W[i].form = "empty" \/ \E u \in DOMAIN uses : uses[u] = i
        <5>1. SUFFICES ASSUME NEW i \in 2 .. N, i < p + 1
                       PROVE  W[i].form = "empty" \/ \E u \in DOMAIN uses : uses[u] = i
          OBVIOUS
        <5>2. i = p \/ i < p
          BY <5>1
        <5>3. QED
          BY <5>2, <4>1, <4>2
      <4>6. QED
        BY <3>2, <4>2, <4>3, <4>4, <4>5, <2>3 DEF UsedOnce
    <3>3. QED
      BY <3>1, <3>2, <1>6
  <2>7. QED
    BY <2>4, <2>6
<1>11. QED
  BY <1>3, <1>8, <1>9, <1>10 DEF ConfigInv

\* Parse fails, and all its calls end.
LEMMA Fails ==
  ASSUME ConfigInv, frames' = <<>>, state' = "failed", uses' \in Seq(Nat),
         UNCHANGED <<raw, allowed, children, args, iniVars, replaced>>
  PROVE  ConfigInv'
<1>1. TypeOK'
  BY DEF ConfigInv, TypeOK, N
<1>2. Settled'
  BY SettledStays DEF ConfigInv
<1>3. DOMAIN frames' = {}
  OBVIOUS
<1>4. Len(frames') = 0
  OBVIOUS
<1>5. Calls'
  <2>1. \A c \in children'[Root] : raw'[c] = W'
    BY DEF ConfigInv, Calls, W
  <2>2. QED
    BY <2>1, <1>3, <1>4 DEF Calls
<1>6. Defaults'
  BY DEF ConfigInv, Defaults
<1>7. InStep'
  BY <1>3 DEF InStep
<1>8. QED
  BY <1>1, <1>2, <1>5, <1>6, <1>7 DEF ConfigInv

\* A word is passed that gives none of the root's arguments a value.
LEMMA DefaultsPassed ==
  ASSUME TypeOK, Calls, Defaults, Parsing, GoOn(Frame.i + 1), ~Stops(Word),
         UNCHANGED <<raw, allowed, children, args, state, iniVars, replaced>>,
         C = Root => \A key \in allowed[Root] : ~Names(Word, key)
  PROVE  Defaults'
<1>1. frames # <<>>
  BY DEF Parsing
<1>2. PICK p \in Nat : p = Frame.i
  BY <1>1, Here
<1>3. state = "parsing" /\ (C = Root => Word = W[p] /\ Reached = p)
  <2>1. C = Root => raw[C] = W /\ Frame = frames[1] /\ Reached = frames[1].i
    BY <1>1, Here
  <2>2. state = "parsing"
    BY <1>1, Here
  <2>3. QED
    BY <2>1, <2>2, <1>2 DEF Word
<1>4. Reached' = IF C = Root THEN p + 1 ELSE Reached
  <2>1. p + 1 \in Nat /\ p + 1 > p
    OBVIOUS
  <2>2. QED
    BY <2>1, <1>2, <1>3, Advance
<1>5. ASSUME NEW key \in allowed[Root], NEW g \in Given(key)
      PROVE  g < Reached' <=> g < Reached
  <2>1. CASE C # Root
    BY <2>1, <1>4
  <2>2. CASE C = Root
    <3>1. g # p
      BY <2>2, <1>3, GivenIs
    <3>2. g \in Nat
      BY GivenIs DEF TypeOK
    <3>3. QED
      BY <2>2, <3>1, <3>2, <1>3, <1>4
  <2>3. QED
    BY <2>1, <2>2
<1>6. QED
  BY <1>3, <1>5, DefaultsStay

\* A word is taken that gives one argument its value.
LEMMA DefaultsTaken ==
  ASSUME TypeOK, Calls, Defaults, Parsing, GoOn(Frame.i + 1), ~Stops(Word),
         UNCHANGED <<raw, allowed, children, state, iniVars, replaced>>,
         NEW given, Set(C, given, Word.value, FALSE),
         C = Root => \A key \in allowed[Root] : Names(Word, key) <=> key = given
  PROVE  /\ DOMAIN args' = Commands /\ DOMAIN args'[Root] = Keys
         /\ Defaults'
<1>1. frames # <<>> /\ Frame.i <= Len(raw[C])
  BY DEF Parsing
<1>2. PICK p \in Nat : p = Frame.i /\ p >= 2
  BY <1>1, Here
<1>3. /\ state = "parsing" /\ C \in Commands
      /\ C = Root => /\ Word = W[p] /\ Reached = p /\ p \in 2 .. N
                     /\ \A j \in 2 .. p : ~Stops(W[j])
  <2>1. C = Root => raw[C] = W /\ Frame = frames[1] /\ Reached = frames[1].i
    BY <1>1, Here
  <2>2. state = "parsing" /\ C \in Commands
    BY <1>1, Here
  <2>3. C = Root => p <= N /\ frames[1].i = p /\ Word = W[p]
    BY <2>1, <1>1, <1>2 DEF Word, N, W
  <2>4. C = Root => \A j \in 2 .. p - 1 : ~Stops(W[j])
    BY <2>3, <1>1 DEF Calls
  <2>5. N \in Nat
    BY DEF TypeOK
  <2>6. ASSUME C = Root PROVE \A j \in 2 .. p : ~Stops(W[j])
    BY <2>3, <2>4, <2>6, <1>2
  <2>7. QED
    BY <2>1, <2>2, <2>3, <2>5, <2>6, <1>2
<1>4. Reached' = IF C = Root THEN p + 1 ELSE Reached
  <2>1. p + 1 \in Nat /\ p + 1 > p
    OBVIOUS
  <2>2. ~Stops(W[Frame.i]) \/ C # Root
    BY <1>2, <1>3
  <2>3. QED
    BY <2>1, <2>2, <1>2, Advance
<1>5. PICK value, c : value = Word.value /\ c = C
  OBVIOUS
<1>6. /\ DOMAIN args' = Commands /\ DOMAIN args'[Root] = Keys
      /\ C # Root => args'[Root] = args[Root]
      /\ C = Root => \A k \in Keys : args'[Root][k] =
           IF k = given
           THEN IF given \in allowed[Root] THEN [value |-> Stored(given, value), default |-> FALSE]
                ELSE Nothing
           ELSE args[Root][k]
  <2>1. Set(c, given, value, FALSE)
    BY <1>5 DEF Set
  <2>2. c \in Commands
    BY <1>3, <1>5
  <2>3. /\ DOMAIN args' = Commands /\ DOMAIN args'[Root] = Keys
        /\ c # Root => args'[Root] = args[Root]
        /\ c = Root => \A k \in Keys : args'[Root][k] =
             IF k = given
             THEN IF given \in allowed[Root] THEN [value |-> Stored(given, value), default |-> FALSE]
                  ELSE Nothing
             ELSE args[Root][k]
    BY <2>1, <2>2, SetIs
  <2>4. QED
    BY <2>3, <1>5
<1>7. CASE C # Root
  <2>1. Reached' = Reached /\ args'[Root] = args[Root]
    BY <1>4, <1>6, <1>7
  <2>2. QED
    BY <2>1, <1>3, <1>6, DefaultsStay
<1>8. CASE C = Root
  <2>1. allowed[Root] \subseteq Keys /\ N \in Nat
    BY CommandLineAssumption DEF TypeOK
  <2>2. ASSUME NEW key \in allowed[Root], key = given
        PROVE  ArgOK(key)'
    <3>1. p \in Given(key)
      BY <1>3, <1>8, <2>2, GivenIs
    <3>2. args'[Root][key] = [value |-> Stored(key, W[p].value), default |-> FALSE]
      BY <1>3, <1>5, <1>6, <1>8, <2>1, <2>2
    <3>3. QED
      BY <3>1, <3>2, <1>3, <1>4, <1>8, <2>1, ArgGiven
  <2>3. ASSUME NEW key \in allowed[Root], key # given
        PROVE  ArgOK(key)'
    <3>1. args'[Root][key] = args[Root][key]
      BY <1>6, <1>8, <2>1, <2>3
    <3>2. ASSUME NEW g \in Given(key) PROVE g < Reached' <=> g < Reached
      <4>1. g # p
        BY <1>3, <1>8, <2>3, GivenIs
      <4>2. g \in Nat
        BY <2>1, GivenIs
      <4>3. QED
        BY <4>1, <4>2, <1>3, <1>4, <1>8
    <3>3. GivenYet(key)' = GivenYet(key)
      BY <3>2, NothingPassed
    <3>4. ArgOK(key)
      BY <1>3 DEF Defaults
    <3>5. QED
      BY <3>1, <3>3, <3>4, ArgStays
  <2>4. \A key \in Keys \ allowed[Root] : args'[Root][key] = Nothing
    <3>1. \A key \in Keys \ allowed[Root] : args[Root][key] = Nothing
      BY DEF Defaults
    <3>2. QED
      BY <3>1, <1>6, <1>8
  <2>5. QED
    BY <2>2, <2>3, <2>4, <1>6 DEF Defaults
<1>9. QED
  BY <1>6, <1>7, <1>8

-----------------------------------------------------------------------------
(* The steps of Parse *)

LEMMA EmptyStep ==
  ASSUME ConfigInv, ParseEmpty, UNCHANGED <<iniVars, replaced>>
  PROVE  ConfigInv'
<1>1. TypeOK /\ Calls /\ Defaults
  BY DEF ConfigInv
<1>2. /\ Parsing /\ Word.form = "empty" /\ GoOn(Frame.i + 1)
      /\ UNCHANGED <<raw, allowed, children, args, state, uses>>
  BY DEF ParseEmpty
<1>3. frames # <<>> /\ Frame.i <= Len(raw[C])
  BY <1>2 DEF Parsing
<1>4. ~Stops(Word) /\ \A key \in allowed[Root] : ~Names(Word, key)
  BY <1>2 DEF Stops, Names
<1>5. Defaults'
  BY <1>1, <1>2, <1>4, DefaultsPassed
<1>6. C = Root => Word = W[Frame.i]
  BY <1>1, <1>3, Here DEF Word
<1>7. Frame.i \in Nat
  BY <1>1, <1>3, Here
<1>8. Frame.i + 1 <= Len(raw[C]) + 1
  <2>1. Len(raw[C]) \in Nat
    BY <1>1, <1>3, Here DEF TypeOK
  <2>2. QED
    BY <2>1, <1>3, <1>7
<1>9. DOMAIN args' = Commands /\ DOMAIN args'[Root] = Keys
  BY <1>1, <1>2 DEF TypeOK
<1>10. QED
  BY <1>2, <1>4, <1>5, <1>6, <1>8, <1>9, GoesOn

LEMMA ArgumentStep ==
  ASSUME ConfigInv, ParseArgument, UNCHANGED <<iniVars, replaced>>
  PROVE  ConfigInv'
<1>1. TypeOK /\ Calls /\ Defaults
  BY DEF ConfigInv
<1>2. /\ Parsing /\ Word.form \in {"long", "short"} /\ Taking(1)
      /\ UNCHANGED <<raw, allowed, children>>
  BY DEF ParseArgument
<1>3. frames # <<>> /\ Frame.i <= Len(raw[C])
  BY <1>2 DEF Parsing
<1>4. ~Stops(Word)
  BY <1>2 DEF Stops
<1>5. C = Root => Word = W[Frame.i]
  BY <1>1, <1>3, Here DEF Word
<1>6. Frame.i \in Nat /\ C \in Commands
  BY <1>1, <1>3, Here
<1>7. Frame.i + 1 <= Len(raw[C]) + 1
  <2>1. Len(raw[C]) \in Nat
    BY <1>1, <1>6 DEF TypeOK
  <2>2. QED
    BY <2>1, <1>3, <1>6
<1>8. CASE Word.key \in allowed[C] /\ (Word.form = "long" \/ Word.key \in Lettered)
  <2>1. Set(C, Word.key, Word.value, FALSE) /\ GoOn(Frame.i + 1) /\ UNCHANGED state
    BY <1>8 DEF ParseArgument
  <2>2. PICK given : given = Word.key
    OBVIOUS
  <2>3. Set(C, given, Word.value, FALSE)
    BY <2>1, <2>2 DEF Set
  <2>4. \A key : Names(Word, key) <=> key = given
    BY <1>2, <1>8, <2>2 DEF Names
  <2>5. DOMAIN args' = Commands /\ DOMAIN args'[Root] = Keys /\ Defaults'
    BY <2>1, <2>3, <2>4, <1>1, <1>2, <1>4, DefaultsTaken
  <2>6. QED
    BY <2>1, <2>5, <1>2, <1>4, <1>5, <1>7, GoesOn
<1>9. CASE ~(Word.key \in allowed[C] /\ (Word.form = "long" \/ Word.key \in Lettered))
  <2>1. Unknown
    BY <1>9 DEF ParseArgument
  <2>2. CASE C \in Lenient
    <3>1. GoOn(Frame.i + 1) /\ UNCHANGED <<state, args>>
      BY <2>1, <2>2 DEF Unknown
    <3>2. C = Root => \A key \in allowed[Root] : ~Names(Word, key)
      BY <1>2, <1>9 DEF Names
    <3>3. Defaults'
      BY <3>1, <3>2, <1>1, <1>2, <1>4, DefaultsPassed
    <3>4. DOMAIN args' = Commands /\ DOMAIN args'[Root] = Keys
      BY <3>1, <1>1 DEF TypeOK
    <3>5. QED
      BY <3>1, <3>3, <3>4, <1>2, <1>4, <1>5, <1>7, GoesOn
  <2>3. CASE C \notin Lenient
    <3>1. frames' = <<>> /\ state' = "failed" /\ UNCHANGED args
      BY <2>1, <2>3 DEF Unknown
    <3>2. PICK p \in Nat : p = Frame.i
      BY <1>6
    <3>3. uses' = uses \o [k \in 1 .. 1 |-> p + k - 1] /\ uses \in Seq(Nat)
      BY <3>2, <1>1, <1>2 DEF Taking, TypeOK
    <3>4. uses' \in Seq(Nat)
      BY <3>3, Takes
    <3>5. QED
      BY <3>1, <3>4, <1>2, Fails
  <2>4. QED
    BY <2>2, <2>3
<1>10. QED
  BY <1>8, <1>9

LEMMA DotStep ==
  ASSUME ConfigInv, ParseDot, UNCHANGED <<iniVars, replaced>>
  PROVE  ConfigInv'
<1>1. TypeOK /\ Calls /\ Defaults
  BY DEF ConfigInv
<1>2. /\ Parsing /\ Word.form = "dot" /\ Taking(1) /\ GoOn(Frame.i + 1)
      /\ IF DotKey # Nothing THEN Set(C, DotKey, Word.value, FALSE) ELSE UNCHANGED args
      /\ UNCHANGED <<raw, allowed, children, state>>
  BY DEF ParseDot
<1>3. frames # <<>> /\ Frame.i <= Len(raw[C])
  BY <1>2 DEF Parsing
<1>4. ~Stops(Word) /\ \A key : Names(Word, key) <=> key = DotKey
  BY <1>2 DEF Stops, Names
<1>5. C = Root => Word = W[Frame.i]
  BY <1>1, <1>3, Here DEF Word
<1>6. Frame.i \in Nat /\ C \in Commands
  BY <1>1, <1>3, Here
<1>7. Frame.i + 1 <= Len(raw[C]) + 1
  <2>1. Len(raw[C]) \in Nat
    BY <1>1, <1>6 DEF TypeOK
  <2>2. QED
    BY <2>1, <1>3, <1>6
<1>8. DOMAIN args' = Commands /\ DOMAIN args'[Root] = Keys /\ Defaults'
  <2>1. CASE DotKey # Nothing
    <3>1. Set(C, DotKey, Word.value, FALSE)
      BY <1>2, <2>1
    <3>2. PICK given : given = DotKey
      OBVIOUS
    <3>3. Set(C, given, Word.value, FALSE)
      BY <3>1, <3>2 DEF Set
    <3>4. QED
      BY <3>2, <3>3, <1>1, <1>2, <1>4, DefaultsTaken
  <2>2. CASE DotKey = Nothing
    <3>1. UNCHANGED args
      BY <1>2, <2>2
    <3>2. allowed[Root] \subseteq Keys /\ Nothing \notin Keys
      BY <1>1, CommandLineAssumption DEF TypeOK
    <3>3. \A key \in allowed[Root] : ~Names(Word, key)
      BY <3>2, <1>4, <2>2
    <3>4. Defaults'
      BY <3>1, <3>3, <1>1, <1>2, <1>4, DefaultsPassed
    <3>5. QED
      BY <3>1, <3>4, <1>1 DEF TypeOK
  <2>3. QED
    BY <2>1, <2>2
<1>9. QED
  BY <1>2, <1>4, <1>5, <1>7, <1>8, GoesOn

LEMMA BareStep ==
  ASSUME ConfigInv, ParseBare, UNCHANGED <<iniVars, replaced>>
  PROVE  ConfigInv'
<1>1. /\ frames' = <<>> /\ state' = "failed"
      /\ UNCHANGED <<raw, allowed, children, args, uses>>
  BY DEF ParseBare
<1>2. uses' \in Seq(Nat)
  BY <1>1 DEF ConfigInv, TypeOK
<1>3. QED
  BY <1>1, <1>2, Fails

LEMMA PositionalStep ==
  ASSUME ConfigInv, ParsePositional, UNCHANGED <<iniVars, replaced>>
  PROVE  ConfigInv'
<1>1. TypeOK /\ Calls /\ Defaults
  BY DEF ConfigInv
<1>2. /\ Parsing /\ Word.form \in {"word", "dashes"} /\ GoOn(Len(raw[C]) + 1)
      /\ Taking(Len(raw[C]) - Frame.i + 1)
      /\ UNCHANGED <<raw, allowed, children, args, state>>
  BY DEF ParsePositional
<1>3. frames # <<>> /\ Frame.i <= Len(raw[C])
  BY <1>2 DEF Parsing
<1>4. /\ Frame.i \in Nat /\ Frame.i >= 2 /\ C \in Commands /\ state = "parsing"
      /\ C = Root => raw[C] = W /\ Len(raw[C]) = N /\ Word = W[Frame.i] /\ Reached = Frame.i
  <2>1. C = Root => raw[C] = W /\ Len(raw[C]) = N /\ Frame = frames[1] /\ Reached = frames[1].i
    BY <1>1, <1>3, Here
  <2>2. Frame.i \in Nat /\ Frame.i >= 2 /\ C \in Commands /\ state = "parsing"
    BY <1>1, <1>3, Here
  <2>3. QED
    BY <2>1, <2>2 DEF Word
<1>5. PICK p \in Nat, n \in Nat : p = Frame.i /\ n = Len(raw[C]) /\ p >= 2 /\ p <= n
  <2>1. Len(raw[C]) \in Nat
    BY <1>1, <1>4 DEF TypeOK
  <2>2. QED
    BY <2>1, <1>3, <1>4
<1>6. PICK m \in Nat \ {0} : m = n - p + 1
  BY <1>5
<1>7. n + 1 = p + m /\ n - p + 1 = m
  BY <1>6
<1>8. GoOn(Frame.i + m)
  BY <1>2, <1>5, <1>7
<1>9. Taking(m)
  BY <1>2, <1>5, <1>7
<1>10. C = Root => Frame.i + m = N + 1
  BY <1>4, <1>5, <1>7
<1>11. Frame.i + m <= Len(raw[C]) + 1
  BY <1>5, <1>7
<1>12. Reached' = IF C = Root THEN p + m ELSE Reached
  <2>1. p + m \in Nat /\ p + m > Frame.i
    BY <1>5
  <2>2. GoOn(p + m)
    BY <1>5, <1>8
  <2>3. C = Root => p + m = N + 1
    BY <1>5, <1>10
  <2>4. QED
    BY <2>1, <2>2, <2>3, <1>1, <1>2, Advance
<1>13. Defaults'
  <2>1. ASSUME NEW key \in allowed[Root], NEW g \in Given(key)
        PROVE  g < Reached' <=> g < Reached
    <3>1. CASE C # Root
      BY <3>1, <1>12
    <3>2. CASE C = Root
      <4>1. Stops(W[p]) /\ p \in 2 .. N /\ N \in Nat /\ Reached = p
        BY <3>2, <1>2, <1>4, <1>5 DEF Stops
      <4>2. g \in Nat /\ g < p
        BY <4>1, PastAll
      <4>3. QED
        BY <3>2, <4>1, <4>2, <1>12
    <3>3. QED
      BY <3>1, <3>2
  <2>2. QED
    BY <2>1, <1>1, <1>2, <1>4, DefaultsStay
<1>14. DOMAIN args' = Commands /\ DOMAIN args'[Root] = Keys
  BY <1>1, <1>2 DEF TypeOK
<1>15. QED
  BY <1>2, <1>8, <1>9, <1>10, <1>11, <1>13, <1>14, GoesOn

LEMMA CommandStep ==
  ASSUME ConfigInv, ParseCommand, UNCHANGED <<iniVars, replaced>>
  PROVE  ConfigInv'
<1>1. TypeOK /\ Calls /\ Defaults
  BY DEF ConfigInv
<1>2. /\ Parsing /\ Word.form = "word" /\ Word.name \in children[C] /\ Taking(1)
      /\ frames' = Append(frames, [command |-> Word.name, i |-> Frame.i + 1])
      /\ UNCHANGED <<raw, allowed, children, args, state>>
  BY DEF ParseCommand
<1>3. frames # <<>> /\ Frame.i <= Len(raw[C])
  BY <1>2 DEF Parsing
<1>4. PICK d \in Nat \ {0}, p \in Nat :
        /\ d = Len(frames) /\ DOMAIN frames = 1 .. d /\ p = Frame.i /\ p >= 2
        /\ state = "parsing" /\ C \in Commands /\ C = frames[d].command
        /\ Frame = frames[d] /\ Reached = frames[1].i /\ Far = p
        /\ (C = Root <=> d = 1) /\ (C = Root => raw[C] = W /\ Len(raw[C]) = N)
  BY <1>1, <1>3, Here
<1>5. PICK name : name = Word.name
  OBVIOUS
<1>6. name \in Commands \ {Root} /\ Parent[name] = C
  BY <1>1, <1>2, <1>4, <1>5 DEF TypeOK
<1>7. PICK call : call = [command |-> name, i |-> p + 1]
  OBVIOUS
<1>8. call \in Call /\ call.command = name /\ call.i = p + 1
  BY <1>6, <1>7 DEF Call
<1>9. /\ frames' \in Seq(Call) /\ Len(frames') = d + 1 /\ DOMAIN frames' = 1 .. d + 1
      /\ \A k \in 1 .. d : frames'[k] = frames[k]
      /\ frames'[d + 1] = call
  <2>1. frames \in Seq(Call) /\ frames' = Append(frames, call)
    BY <1>1, <1>2, <1>4, <1>5, <1>7 DEF TypeOK
  <2>2. /\ frames' \in Seq(Call) /\ Len(frames') = Len(frames) + 1
        /\ \A k \in 1 .. Len(frames) : frames'[k] = frames[k]
        /\ frames'[Len(frames) + 1] = call
    BY <2>1, <1>8, AppendProperties
  <2>3. DOMAIN frames' = 1 .. Len(frames')
    BY <2>2, LenProperties
  <2>4. QED
    BY <2>2, <2>3, <1>4
<1>10. frames' # <<>>
  BY <1>9, EmptySeq
<1>11. W' = W /\ N' = N /\ N \in Nat
  BY <1>1, <1>2 DEF W, N, TypeOK
<1>12. Reached' = Reached /\ Far' = p + 1
  <2>1. Reached' = frames'[1].i /\ Far' = frames'[Len(frames')].i
    BY <1>2, <1>4 DEF Reached, Far
  <2>2. 1 \in 1 .. d
    OBVIOUS
  <2>3. QED
    BY <2>1, <2>2, <1>4, <1>8, <1>9
<1>13. uses \in Seq(Nat) /\ uses' = uses \o [k \in 1 .. 1 |-> p + k - 1]
  BY <1>1, <1>2, <1>4 DEF TypeOK, Taking
<1>14. uses' \in Seq(Nat)
  BY <1>13, Takes
<1>15. TypeOK'
  BY <1>1, <1>2, <1>4, <1>9, <1>10, <1>14 DEF TypeOK, N
<1>16. Settled'
  BY <1>2, SettledStays DEF ConfigInv
<1>17. Calls'
  <2>1. \A c \in children'[Root] : raw'[c] = W'
    BY <1>1, <1>2, <1>11 DEF Calls
  <2>2. \A k \in 1 .. d + 1 : frames'[k].i >= 2 /\ (frames'[k].command = Root <=> k = 1)
    <3>1. \A k \in 1 .. d : frames[k].i >= 2 /\ (frames[k].command = Root <=> k = 1)
      BY <1>1, <1>4 DEF Calls
    <3>2. TAKE k \in 1 .. d + 1
    <3>3. CASE k \in 1 .. d
      BY <3>1, <3>3, <1>9
    <3>4. CASE k = d + 1
      BY <3>4, <1>4, <1>6, <1>8, <1>9
    <3>5. QED
      BY <3>3, <3>4
  <2>3. 1 \in 1 .. d /\ frames'[1] = frames[1]
    BY <1>9
  <2>4. /\ frames'[2].command \in children'[Root] /\ frames'[1].i <= N'
        /\ Stops(W'[frames'[1].i])
    <3>1. CASE d = 1
      <4>0. d + 1 = 2
        BY <3>1
      <4>1. frames'[2].command = name
        BY <4>0, <1>8, <1>9
      <4>2. C = Root /\ frames[1].i = p
        BY <3>1, <1>4
      <4>3. name \in children[Root] /\ p <= N /\ Stops(W[p])
        BY <4>2, <1>2, <1>3, <1>4, <1>5 DEF Stops, Word
      <4>4. QED
        BY <4>1, <4>2, <4>3, <2>3, <1>2, <1>11
    <3>2. CASE d # 1
      <4>1. d > 1 /\ 2 \in 1 .. d /\ frames'[2] = frames[2]
        BY <3>2, <1>9
      <4>2. /\ frames[2].command \in children[Root] /\ frames[1].i <= N
            /\ Stops(W[frames[1].i])
        BY <4>1, <1>1, <1>4 DEF Calls
      <4>3. QED
        BY <4>1, <4>2, <2>3, <1>2, <1>11
    <3>3. QED
      BY <3>1, <3>2
  <2>5. frames'[1].i <= N' => \A j \in 2 .. frames'[1].i - 1 : ~Stops(W'[j])
    BY <2>3, <1>1, <1>3, <1>11 DEF Calls
  <2>6. QED
    BY <2>1, <2>2, <2>4, <2>5, <1>9 DEF Calls
<1>18. Defaults'
  BY <1>1, <1>2, <1>4, <1>12, DefaultsStay
<1>19. InStep'
  <2>1. SUFFICES ASSUME TopDown
                 PROVE  /\ \A k \in DOMAIN frames' : raw'[frames'[k].command] = W'
                        /\ UsedOnce'
    BY <1>2 DEF InStep, TopDown
  <2>2. (\A k \in DOMAIN frames : raw[frames[k].command] = W) /\ UsedOnce
    BY <2>1, <1>4 DEF ConfigInv, InStep
  <2>3. raw[C] = W /\ Len(raw[C]) = N
    BY <2>2, <1>4 DEF W, N
  <2>4. raw[name] = W
    BY <2>1, <2>3, <1>2, <1>4, <1>5 DEF TopDown
  <2>5. \A k \in DOMAIN frames' : raw'[frames'[k].command] = W'
    <3>1. TAKE k \in DOMAIN frames'
    <3>2. CASE k \in 1 .. d
      BY <3>2, <2>2, <1>2, <1>4, <1>9, <1>11
    <3>3. CASE k = d + 1
      BY <3>3, <2>4, <1>2, <1>8, <1>9, <1>11
    <3>4. QED
      BY <3>2, <3>3, <1>9
  <2>6. p + 1 <= N + 1
    BY <2>3, <1>3, <1>4
  <2>7. UsedOnce'
    BY <2>2, <2>6, <1>2, <1>4, <1>11, <1>12, <1>13, UsedOn
  <2>8. QED
    BY <2>5, <2>7
<1>20. QED
  BY <1>15, <1>16, <1>17, <1>18, <1>19 DEF ConfigInv

LEMMA ReturnStep ==
  ASSUME ConfigInv, ParseReturn, UNCHANGED <<iniVars, replaced>>
  PROVE  ConfigInv'
<1>1. TypeOK /\ Calls /\ Defaults /\ N \in Nat /\ uses \in Seq(Nat)
  BY DEF ConfigInv, TypeOK
<1>2. /\ Len(frames) > 1 /\ ~Parsing
      /\ UNCHANGED <<raw, allowed, children, args, state, uses>>
  BY DEF ParseReturn
<1>3. frames # <<>>
  BY <1>1, <1>2, EmptySeq DEF TypeOK
<1>4. PICK d \in Nat \ {0}, p \in Nat :
        /\ d = Len(frames) /\ DOMAIN frames = 1 .. d /\ p = Frame.i /\ p >= 2
        /\ state = "parsing" /\ C \in Commands /\ C = frames[d].command
        /\ Frame = frames[d] /\ Reached = frames[1].i /\ Far = p
  BY <1>1, <1>3, Here
<1>5. d > 1 /\ Frame.i > Len(raw[C])
  <2>1. Len(raw[C]) \in Nat
    BY <1>1, <1>4 DEF TypeOK
  <2>2. QED
    BY <2>1, <1>2, <1>3, <1>4 DEF Parsing
<1>6. PICK e \in Nat \ {0}, j \in Nat : e = d - 1 /\ j = Len(raw[C]) + 2 /\ j >= 2
  <2>1. PICK n \in Nat : n = Len(raw[C])
    BY <1>1, <1>4 DEF TypeOK
  <2>2. d - 1 \in Nat \ {0}
    BY <1>5
  <2>3. n + 2 \in Nat /\ n + 2 >= 2
    OBVIOUS
  <2>4. QED
    BY <2>1, <2>2, <2>3
<1>7. PICK outer : outer = SubSeq(frames, 1, e)
  OBVIOUS
<1>8. /\ outer \in [1 .. e -> Call] /\ Len(outer) = e
      /\ \A k \in 1 .. e : outer[k] = frames[k]
  <2>1. frames \in Seq(Call) /\ 1 \in Nat /\ e \in 0 .. Len(frames)
    BY <1>1, <1>4, <1>6 DEF TypeOK
  <2>2. frames \in Seq(Call) /\ 1 \in 1 .. Len(frames) + 1 /\ e \in 1 - 1 .. Len(frames)
    BY <2>1
  <2>3. /\ outer \in Seq(Call) /\ Len(outer) = e - 1 + 1
        /\ \A k \in 1 .. e - 1 + 1 : outer[k] = frames[1 + k - 1]
    BY <2>2, <1>7, SubSeqProperties
  <2>4. Len(outer) = e /\ \A k \in 1 .. e : outer[k] = frames[k]
    BY <2>3
  <2>5. QED
    BY <2>3, <2>4, SeqDef
<1>9. PICK t : t = [outer[e] EXCEPT !.i = j]
  OBVIOUS
<1>10. t \in Call /\ t.i = j /\ t.command = frames[e].command
  <2>1. outer[e] \in Call /\ outer[e] = frames[e]
    BY <1>8
  <2>2. QED
    BY <2>1, <1>9 DEF Call
<1>11. frames' = [outer EXCEPT ![e] = t]
  <2>1. Len(frames) - 1 = e
    BY <1>4, <1>6
  <2>2. SubSeq(frames, 1, Len(frames) - 1) = outer
    BY <2>1, <1>7
  <2>3. frames' = [outer EXCEPT ![Len(outer)].i = Len(raw[C]) + 2]
    BY <2>2 DEF ParseReturn
  <2>4. QED
    BY <2>3, <1>6, <1>8, <1>9
<1>12. /\ frames' \in Seq(Call) /\ Len(frames') = e /\ DOMAIN frames' = 1 .. e
       /\ \A k \in 1 .. e : frames'[k].command = frames[k].command
       /\ \A k \in 1 .. e : frames'[k].i = IF k = e THEN j ELSE frames[k].i
  <2>1. frames' \in [1 .. e -> Call]
    BY <1>8, <1>10, <1>11
  <2>2. frames' \in Seq(Call) /\ Len(frames') = e /\ DOMAIN frames' = 1 .. e
    BY <2>1, SeqDef, LenProperties
  <2>3. \A k \in 1 .. e : frames'[k] = IF k = e THEN t ELSE frames[k]
    BY <1>8, <1>11
  <2>4. QED
    BY <2>2, <2>3, <1>10
<1>13. frames' # <<>>
  BY <1>12, EmptySeq
<1>14. W' = W /\ N' = N
  BY <1>2 DEF W, N
<1>15. /\ frames[2].command \in children[Root] /\ frames[1].i <= N /\ Stops(W[frames[1].i])
       /\ frames[1].i \in Nat /\ frames[1].i >= 2
  <2>1. frames[2].command \in children[Root] /\ frames[1].i <= N /\ Stops(W[frames[1].i])
    BY <1>1, <1>2 DEF Calls
  <2>2. 1 \in DOMAIN frames
    BY <1>4
  <2>3. frames[1].i \in Nat
    BY <1>1, <1>3, Here
  <2>4. QED
    BY <2>1, <2>2, <2>3, <1>1 DEF Calls
<1>16. Reached' = frames'[1].i /\ Far' = j
  <2>1. Reached' = frames'[1].i /\ Far' = frames'[Len(frames')].i
    BY <1>2, <1>4 DEF Reached, Far
  <2>2. e \in 1 .. e
    OBVIOUS
  <2>3. QED
    BY <2>1, <2>2, <1>12
<1>17. e = 1 => frames'[1].i = j /\ j = N + 2
  <2>1. SUFFICES ASSUME e = 1
                 PROVE  frames'[1].i = j /\ j = N + 2
    OBVIOUS
  <2>2. 1 \in 1 .. e /\ d = 2
    BY <2>1, <1>6
  <2>3. C = frames[2].command
    BY <2>2, <1>4
  <2>4. raw[C] = W
    BY <2>3, <1>1, <1>15 DEF Calls
  <2>5. QED
    BY <2>1, <2>2, <2>4, <1>6, <1>12 DEF N, W
<1>18. e # 1 => frames'[1].i = frames[1].i /\ frames'[2].command = frames[2].command
  <2>1. SUFFICES ASSUME e # 1
                 PROVE  frames'[1].i = frames[1].i /\ frames'[2].command = frames[2].command
    OBVIOUS
  <2>2. 1 \in 1 .. e /\ 2 \in 1 .. e
    BY <2>1
  <2>3. QED
    BY <2>1, <2>2, <1>12
<1>19. TypeOK'
  BY <1>1, <1>2, <1>4, <1>12, <1>13 DEF TypeOK, N
<1>20. Settled'
  BY <1>2, SettledStays DEF ConfigInv
<1>21. Calls'
  <2>1. \A c \in children'[Root] : raw'[c] = W'
    BY <1>1, <1>2, <1>14 DEF Calls
  <2>2. \A k \in 1 .. e : frames'[k].i >= 2 /\ (frames'[k].command = Root <=> k = 1)
    <3>1. \A k \in 1 .. d : frames[k].i >= 2 /\ (frames[k].command = Root <=> k = 1)
      BY <1>1, <1>4 DEF Calls
    <3>2. \A k \in 1 .. e : k \in 1 .. d
      BY <1>6
    <3>3. QED
      BY <3>1, <3>2, <1>6, <1>12
  <2>3. e > 1 => /\ frames'[2].command \in children'[Root] /\ frames'[1].i <= N'
                 /\ Stops(W'[frames'[1].i])
    BY <1>2, <1>14, <1>15, <1>18
  <2>4. frames'[1].i <= N' => \A k \in 2 .. frames'[1].i - 1 : ~Stops(W'[k])
    <3>1. CASE e = 1
      BY <3>1, <1>1, <1>14, <1>17
    <3>2. CASE e # 1
      BY <3>2, <1>1, <1>3, <1>14, <1>15, <1>18 DEF Calls
    <3>3. QED
      BY <3>1, <3>2
  <2>5. QED
    BY <2>1, <2>2, <2>3, <2>4, <1>12 DEF Calls
<1>22. Defaults'
  <2>1. ASSUME NEW key \in allowed[Root], NEW g \in Given(key)
        PROVE  g < Reached' <=> g < Reached
    <3>1. CASE e # 1
      BY <3>1, <1>4, <1>16, <1>18
    <3>2. CASE e = 1
      <4>1. frames[1].i \in 2 .. N
        BY <1>1, <1>15
      <4>2. g \in Nat /\ g < frames[1].i
        BY <4>1, <1>1, <1>15, PastAll
      <4>3. g < N + 2
        BY <4>1, <4>2, <1>1
      <4>4. QED
        BY <3>2, <4>2, <4>3, <1>4, <1>16, <1>17
    <3>3. QED
      BY <3>1, <3>2
  <2>2. QED
    BY <2>1, <1>1, <1>2, <1>4, DefaultsStay
<1>23. InStep'
  <2>1. SUFFICES ASSUME TopDown
                 PROVE  /\ \A k \in DOMAIN frames' : raw'[frames'[k].command] = W'
                        /\ UsedOnce'
    BY <1>2 DEF InStep, TopDown
  <2>2. (\A k \in DOMAIN frames : raw[frames[k].command] = W) /\ UsedOnce
    BY <2>1, <1>4 DEF ConfigInv, InStep
  <2>3. Len(raw[C]) = N
    BY <2>2, <1>4 DEF W, N
  <2>4. \A k \in DOMAIN frames' : raw'[frames'[k].command] = W'
    <3>1. \A k \in 1 .. e : k \in 1 .. d
      BY <1>6
    <3>2. QED
      BY <3>1, <2>2, <1>2, <1>4, <1>12, <1>14
  <2>5. j = N + 2 /\ p > N
    BY <2>3, <1>4, <1>5, <1>6
  <2>6. /\ \A u \in DOMAIN uses : uses[u] \in 2 .. N
        /\ \A u, v \in DOMAIN uses : uses[u] = uses[v] => u = v
        /\ \A i \in 2 .. N : i < p => W[i].form = "empty" \/ \E u \in DOMAIN uses : uses[u] = i
    BY <2>2, <1>4 DEF UsedOnce
  <2>7. \A i \in 2 .. N : i < p
    BY <2>5, <1>1
  <2>8. \A u \in DOMAIN uses : uses[u] < j
    BY <2>5, <2>6, <1>1
  <2>9. UsedOnce'
    BY <2>6, <2>7, <2>8, <1>2, <1>14, <1>16 DEF UsedOnce
  <2>10. QED
    BY <2>4, <2>9
<1>24. QED
  BY <1>19, <1>20, <1>21, <1>22, <1>23 DEF ConfigInv

LEMMA EndStep ==
  ASSUME ConfigInv, ParseEnd, UNCHANGED <<iniVars, replaced>>
  PROVE  ConfigInv'
<1>1. TypeOK /\ Calls /\ Defaults /\ N \in Nat /\ uses \in Seq(Nat)
  BY DEF ConfigInv, TypeOK
<1>2. /\ Len(frames) = 1 /\ ~Parsing /\ frames' = <<>> /\ state' \in {"failed", "parsed"}
      /\ UNCHANGED <<raw, allowed, children, args, uses>>
  BY DEF ParseEnd
<1>3. CASE state' = "failed"
  BY <1>1, <1>2, <1>3, Fails
<1>4. CASE state' = "parsed"
  <2>1. frames # <<>>
    BY <1>2
  <2>2. PICK p \in Nat : p = Frame.i /\ Reached = p /\ Far = p /\ state = "parsing"
                       /\ C = Root /\ Len(raw[C]) = N
    BY <1>1, <1>2, <2>1, Here
  <2>3. p > N
    BY <1>1, <1>2, <2>1, <2>2 DEF Parsing
  <2>4. Reached' = N + 1 /\ Far' = N + 1
    BY <1>2, <1>4 DEF Reached, Far, N
  <2>5. W' = W /\ N' = N
    BY <1>2 DEF W, N
  <2>6. TypeOK'
    BY <1>1, <1>2, <1>4 DEF TypeOK, N
  <2>7. Settled'
    BY <1>2, SettledStays DEF ConfigInv
  <2>8. DOMAIN frames' = {} /\ Len(frames') = 0
    BY <1>2
  <2>9. Calls'
    <3>1. \A c \in children'[Root] : raw'[c] = W'
      BY <1>1, <1>2, <2>5 DEF Calls
    <3>2. QED
      BY <3>1, <2>8, <1>2 DEF Calls
  <2>10. Defaults'
    <3>1. ASSUME NEW key \in allowed[Root], NEW g \in Given(key)
          PROVE  g < Reached' <=> g < Reached
      BY <1>1, <2>2, <2>3, <2>4, GivenIs
    <3>2. QED
      BY <3>1, <1>1, <1>2, <2>2, DefaultsStay
  <2>11. InStep'
    <3>1. SUFFICES ASSUME TopDown PROVE UsedOnce'
      BY <1>2, <2>8 DEF InStep, TopDown
    <3>2. UsedOnce
      BY <3>1, <2>2 DEF ConfigInv, InStep
    <3>3. /\ \A u \in DOMAIN uses : uses[u] \in 2 .. N
          /\ \A u, v \in DOMAIN uses : uses[u] = uses[v] => u = v
          /\ \A i \in 2 .. N : i < p => W[i].form = "empty" \/ \E u \in DOMAIN uses : uses[u] = i
      BY <3>2, <2>2 DEF UsedOnce
    <3>4. \A i \in 2 .. N : i < p
      BY <2>3, <1>1
    <3>5. \A u \in DOMAIN uses : uses[u] < N + 1
      BY <3>3, <1>1
    <3>6. QED
      BY <3>3, <3>4, <3>5, <2>4, <2>5, <1>2 DEF UsedOnce
  <2>12. QED
    BY <2>6, <2>7, <2>9, <2>10, <2>11 DEF ConfigInv
<1>5. QED
  BY <1>2, <1>3, <1>4

LEMMA StartStep ==
  ASSUME ConfigInv, StartParse, UNCHANGED <<iniVars, replaced>>
  PROVE  ConfigInv'
<1>1. TypeOK /\ Calls /\ Defaults /\ N \in Nat
  BY DEF ConfigInv, TypeOK
<1>2. /\ state = "building" /\ state' = "parsing"
      /\ frames' = <<[command |-> Root, i |-> 2]>>
      /\ UNCHANGED <<raw, allowed, children, args, uses>>
  BY DEF StartParse
<1>3. PICK call : call = [command |-> Root, i |-> 2]
  OBVIOUS
<1>4. call \in Call /\ call.command = Root /\ call.i = 2
  BY <1>3, CommandLineAssumption DEF Call
<1>5. /\ frames' \in Seq(Call) /\ frames' # <<>> /\ Len(frames') = 1 /\ DOMAIN frames' = {1}
      /\ frames'[1] = call
  <2>1. frames' = <<call>>
    BY <1>2, <1>3
  <2>2. QED
    BY <2>1, <1>4
<1>6. Reached = 2 /\ Far = 2 /\ Reached' = 2 /\ Far' = 2
  BY <1>2, <1>4, <1>5 DEF Reached, Far
<1>7. W' = W /\ N' = N
  BY <1>2 DEF W, N
<1>8. TypeOK'
  BY <1>1, <1>2, <1>5 DEF TypeOK, N
<1>9. Settled'
  BY <1>2, SettledStays DEF ConfigInv
<1>10. Calls'
  <2>1. \A c \in children'[Root] : raw'[c] = W'
    BY <1>1, <1>2, <1>7 DEF Calls
  <2>2. \A k \in DOMAIN frames' : frames'[k].i >= 2 /\ (frames'[k].command = Root <=> k = 1)
    BY <1>4, <1>5
  <2>3. \A j \in 2 .. frames'[1].i - 1 : ~Stops(W'[j])
    BY <1>4, <1>5
  <2>4. QED
    BY <2>1, <2>2, <2>3, <1>5 DEF Calls
<1>11. Defaults'
  BY <1>1, <1>2, <1>6, DefaultsStay
<1>12. InStep'
  <2>1. SUFFICES ASSUME TopDown
                 PROVE  /\ \A k \in DOMAIN frames' : raw'[frames'[k].command] = W'
                        /\ UsedOnce'
    BY <1>2 DEF InStep, TopDown
  <2>2. UsedOnce
    BY <2>1, <1>2 DEF ConfigInv, InStep
  <2>3. UsedOnce'
    BY <2>2, <1>2, <1>6, <1>7 DEF UsedOnce
  <2>4. QED
    BY <2>3, <1>2, <1>4, <1>5 DEF W
<1>13. QED
  BY <1>8, <1>9, <1>10, <1>11, <1>12 DEF ConfigInv

-----------------------------------------------------------------------------
(* The steps before and after Parse *)

\* While the tree is built, nothing was given and nothing consumed.
LEMMA Building ==
  ASSUME TypeOK, state = "building"
  PROVE  /\ frames = <<>> /\ DOMAIN frames = {} /\ Len(frames) = 0 /\ uses = <<>>
         /\ Reached = 2 /\ Far = 2 /\ UsedOnce /\ \A key : GivenYet(key) = {}
<1>1. frames = <<>> /\ uses = <<>> /\ Reached = 2 /\ Far = 2 /\ N \in Nat
  BY DEF TypeOK, Reached, Far
<1>2. DOMAIN uses = {} /\ DOMAIN frames = {} /\ Len(frames) = 0
  BY <1>1
<1>3. \A i \in 2 .. N : ~(i < 2)
  BY <1>1
<1>4. UsedOnce
  BY <1>1, <1>2, <1>3 DEF UsedOnce
<1>5. \A key : GivenYet(key) = {}
  <2>1. TAKE key
  <2>2. \A g \in GivenYet(key) : g < 2 /\ g \in 2 .. N
    BY <1>1, GivenNumbers DEF GivenYet
  <2>3. QED
    BY <2>2, <1>1
<1>6. QED
  BY <1>1, <1>2, <1>4, <1>5

LEMMA AddStep ==
  ASSUME ConfigInv, NEW c \in Commands, Add(c), UNCHANGED <<iniVars, replaced>>
  PROVE  ConfigInv'
<1>1. TypeOK /\ Calls /\ Defaults /\ N \in Nat
  BY DEF ConfigInv, TypeOK
<1>2. PICK p : p = Parent[c]
  OBVIOUS
<1>3. /\ state = "building" /\ state' = "building" /\ c # Root /\ c \notin children[p]
      /\ p \in Commands
      /\ raw' = [raw EXCEPT ![c] = raw[p]] /\ children' = [children EXCEPT ![p] = @ \cup {c}]
      /\ UNCHANGED <<allowed, args, frames, uses>>
  BY <1>2, CommandLineAssumption DEF Add
<1>4. Root \in Commands /\ raw'[Root] = raw[Root] /\ raw'[c] = raw[p]
      /\ \A d \in Commands \ {c} : raw'[d] = raw[d]
  BY <1>1, <1>3, CommandLineAssumption DEF TypeOK
<1>5. W' = W /\ N' = N
  BY <1>4 DEF W, N
<1>6. /\ children' \in [Commands -> SUBSET (Commands \ {Root})]
      /\ \A x \in Commands : children'[x] = IF x = p THEN children[x] \cup {c} ELSE children[x]
  BY <1>1, <1>3 DEF TypeOK
<1>7. \A x \in Commands : \A d \in children'[x] : Parent[d] = x
  BY <1>1, <1>2, <1>6 DEF TypeOK
<1>8. TypeOK'
  <2>1. \A x \in Commands : Len(raw'[x]) \in Nat
    BY <1>1, <1>3, <1>4 DEF TypeOK
  <2>2. DOMAIN raw' = Commands
    BY <1>1, <1>3 DEF TypeOK
  <2>3. QED
    BY <2>1, <2>2, <1>1, <1>3, <1>5, <1>6, <1>7 DEF TypeOK
<1>9. Settled'
  BY <1>3, SettledStays DEF ConfigInv
<1>10. DOMAIN frames' = {} /\ Len(frames') = 0 /\ frames' = <<>> /\ UsedOnce' /\ Reached' = 2
       /\ Reached = 2
  <2>1. frames = <<>> /\ uses = <<>> /\ Reached = 2 /\ Far = 2 /\ DOMAIN frames = {} /\ Len(frames) = 0
        /\ UsedOnce
    BY <1>1, <1>3, Building
  <2>2. Reached' = 2 /\ Far' = 2
    BY <1>3 DEF Reached, Far
  <2>3. UsedOnce'
    BY <2>1, <2>2, <1>3, <1>5 DEF UsedOnce
  <2>4. QED
    BY <2>1, <2>2, <2>3, <1>3
<1>11. Calls'
  <2>1. ASSUME NEW d \in children'[Root]
        PROVE  raw'[d] = W'
    <3>1. CASE d = c
      <4>1. p = Root
        BY <3>1, <2>1, <1>2, <1>4, <1>7
      <4>2. QED
        BY <3>1, <4>1, <1>4, <1>5 DEF W
    <3>2. CASE d # c
      <4>1. d \in children[Root] /\ d \in Commands
        BY <3>2, <2>1, <1>4, <1>6
      <4>2. QED
        BY <3>2, <4>1, <1>1, <1>4, <1>5 DEF Calls
    <3>3. QED
      BY <3>1, <3>2
  <2>2. QED
    BY <2>1, <1>10 DEF Calls
<1>12. Defaults'
  BY <1>1, <1>3, <1>4, <1>10, DefaultsStay
<1>13. InStep'
  BY <1>10 DEF InStep
<1>14. QED
  BY <1>8, <1>9, <1>11, <1>12, <1>13 DEF ConfigInv

\* A step that leaves the words, the calls and what was consumed as they are
LEMMA RestStays ==
  ASSUME TypeOK, Calls, InStep, UNCHANGED <<raw, children, frames, state, uses>>,
         DOMAIN args' = Commands, DOMAIN args'[Root] = Keys, allowed' \in [Commands -> SUBSET Keys]
  PROVE  TypeOK' /\ Calls' /\ InStep' /\ Reached' = Reached
<1>1. W' = W /\ N' = N
  BY DEF W, N
<1>2. Reached' = Reached /\ Far' = Far
  BY DEF Reached, Far, N
<1>3. TypeOK'
  BY DEF TypeOK, N
<1>4. Calls'
  BY <1>1 DEF Calls
<1>5. UsedOnce' <=> UsedOnce
  BY <1>1, <1>2 DEF UsedOnce
<1>6. InStep'
  BY <1>1, <1>5 DEF InStep, TopDown
<1>7. QED
  BY <1>2, <1>3, <1>4, <1>6

LEMMA AddArgumentStep ==
  ASSUME ConfigInv, NEW c \in Commands, NEW key \in Arguments[c], AddArgument(c, key),
         UNCHANGED <<iniVars, replaced>>
  PROVE  ConfigInv'
<1>1. TypeOK /\ Calls /\ Defaults /\ Settled /\ InStep
  BY DEF ConfigInv
<1>2. key \in Keys /\ Root \in Commands
  BY CommandLineAssumption DEF Keys
<1>3. PICK new : new = IF args[c][key] = Nothing THEN [value |-> Initially[key], default |-> TRUE]
                       ELSE args[c][key]
  OBVIOUS
<1>4. /\ state = "building" /\ key \notin allowed[c]
      /\ allowed' = [allowed EXCEPT ![c] = @ \cup {key}]
      /\ args' = [args EXCEPT ![c] = [args[c] EXCEPT ![key] = new]]
      /\ UNCHANGED <<raw, children, frames, state, uses>>
  BY <1>3 DEF AddArgument
<1>5. /\ DOMAIN args' = Commands /\ DOMAIN args'[Root] = Keys
      /\ allowed' \in [Commands -> SUBSET Keys] /\ allowed[Root] \subseteq allowed'[Root]
      /\ allowed'[Root] = IF c = Root THEN allowed[Root] \cup {key} ELSE allowed[Root]
      /\ \A k \in Keys : args'[Root][k] = IF c = Root /\ k = key THEN new ELSE args[Root][k]
      /\ c # Root => args'[Root] = args[Root]
  BY <1>1, <1>2, <1>4 DEF TypeOK
<1>6. TypeOK' /\ Calls' /\ InStep' /\ Reached' = Reached
  BY <1>1, <1>4, <1>5, RestStays
<1>7. Settled'
  BY <1>1, <1>5, SettledStays
<1>8. \A k : GivenYet(k)' = GivenYet(k) /\ GivenYet(k)' = {}
  <2>1. TAKE k
  <2>2. GivenYet(k) = {}
    BY <1>1, <1>4, Building
  <2>3. GivenYet(k)' = GivenYet(k)
    BY <1>4, <1>6, NothingPassed
  <2>4. QED
    BY <2>2, <2>3
<1>9. Defaults'
  <2>1. CASE c # Root
    BY <2>1, <1>1, <1>4, <1>5, <1>6, DefaultsStay
  <2>2. CASE c = Root
    <3>1. ASSUME NEW k \in allowed[Root]
          PROVE  ArgOK(k)'
      <4>1. k \in Keys /\ k # key
        BY <2>2, <1>1, <1>2, <1>4 DEF TypeOK
      <4>2. args'[Root][k] = args[Root][k]
        BY <4>1, <1>5
      <4>3. ArgOK(k)
        BY <1>1, <1>4 DEF Defaults
      <4>4. QED
        BY <4>2, <4>3, <1>4, <1>8, ArgStays
    <3>2. ArgOK(key)'
      <4>1. args[Root][key] = Nothing
        BY <2>2, <1>1, <1>2, <1>4 DEF Defaults
      <4>2. args'[Root][key] = [value |-> Initially[key], default |-> TRUE]
        BY <4>1, <2>2, <1>2, <1>3, <1>5
      <4>3. key \notin replaced'
        BY <2>2, <1>1, <1>4 DEF Settled
      <4>4. args'[Root][key].value \in {Initially[key], Stored(key, Initially[key])}
        BY <4>2
      <4>5. QED
        BY <4>3, <4>4, <1>8 DEF ArgOK
    <3>3. \A k \in allowed'[Root] : ArgOK(k)'
      BY <3>1, <3>2, <2>2, <1>5
    <3>4. \A k \in Keys \ allowed'[Root] : args'[Root][k] = Nothing
      BY <2>2, <1>1, <1>5 DEF Defaults
    <3>5. QED
      BY <3>3, <3>4 DEF Defaults
  <2>3. QED
    BY <2>1, <2>2
<1>10. QED
  BY <1>6, <1>7, <1>9 DEF ConfigInv

LEMMA ExecuteStep ==
  ASSUME ConfigInv, Execute \/ UNCHANGED clVars, UNCHANGED <<iniVars, replaced>>
  PROVE  ConfigInv'
<1>1. UNCHANGED <<raw, allowed, children, args, frames, state, uses>>
  BY DEF Execute, clVars
<1>2. TypeOK /\ Calls /\ Defaults /\ Settled /\ InStep
  BY DEF ConfigInv
<1>3. DOMAIN args' = Commands /\ DOMAIN args'[Root] = Keys /\ allowed' \in [Commands -> SUBSET Keys]
  BY <1>1, <1>2 DEF TypeOK
<1>4. TypeOK' /\ Calls' /\ InStep' /\ Reached' = Reached
  BY <1>1, <1>2, <1>3, RestStays
<1>5. Settled'
  BY <1>1, <1>2, SettledStays
<1>6. Defaults'
  BY <1>1, <1>2, <1>4, DefaultsStay
<1>7. QED
  BY <1>4, <1>5, <1>6 DEF ConfigInv

\* What an argument has when its default was replaced
LEMMA DefaultTaken ==
  ASSUME Settled, NEW key \in Keys, ini # "reading", args[Root][key] # Nothing,
         args[Root][key].value \in {Initially[key], Stored(key, Initially[key])}
  PROVE  IF ini = "read" /\ Holding(key) # {}
         THEN Stored(key, FromFile(key)) = FileValue(key)
         ELSE Stored(key, FromFile(key)) \in {Initially[key], Stored(key, Initially[key])}
<1>1. Holding(key) # {} => ini = "read"
  <2>1. data = <<>> => DOMAIN data = {}
    OBVIOUS
  <2>2. data = <<>> => Holding(key) = {}
    BY <2>1 DEF Holding
  <2>3. QED
    BY <2>2 DEF Settled
<1>2. CASE key \notin Booleans
  <2>1. FromFile(key) = IF Holding(key) = {} THEN args[Root][key].value ELSE Value(key)
    BY <1>2 DEF FromFile, GetStringValue, Text
  <2>2. \A value : Stored(key, value) = value
    BY <1>2 DEF Stored
  <2>3. FileValue(key) = Value(key)
    BY <1>2 DEF FileValue
  <2>4. CASE Holding(key) = {}
    BY <2>1, <2>2, <2>4
  <2>5. CASE Holding(key) # {}
    BY <2>1, <2>2, <2>3, <2>5, <1>1
  <2>6. QED
    BY <2>4, <2>5
<1>3. CASE key \in Booleans
  <2>1. PICK found : found = GetBooleanValue(key, Bool(Root, key))
    OBVIOUS
  <2>2. FromFile(key) = IF found THEN <<"Y">> ELSE <<"N">>
    BY <1>3, <2>1 DEF FromFile
  <2>3. Stored(key, <<"Y">>) = <<"true">> /\ Stored(key, <<"N">>) = <<"false">>
        /\ Stored(key, <<"true">>) = <<"true">> /\ Stored(key, <<"false">>) = <<"false">>
    BY <1>3 DEF Stored
  <2>4. Stored(key, FromFile(key)) = IF found THEN <<"true">> ELSE <<"false">>
    BY <2>2, <2>3
  <2>5. CASE Holding(key) # {}
    <3>1. found <=> IsTrue(Value(key))
      BY <2>1, <2>5 DEF GetBooleanValue
    <3>2. FileValue(key) = IF IsTrue(Value(key)) THEN <<"true">> ELSE <<"false">>
      BY <1>3 DEF FileValue
    <3>3. QED
      BY <3>1, <3>2, <2>4, <2>5, <1>1
  <2>6. CASE Holding(key) = {}
    <3>1. found <=> args[Root][key].value = <<"true">>
      BY <2>1, <2>6 DEF GetBooleanValue, Bool
    <3>2. Initially[key] \in {<<"true">>, <<"false">>}
      BY <1>3, CommandLineAssumption
    <3>3. args[Root][key].value = Initially[key] /\ Stored(key, Initially[key]) = Initially[key]
      BY <3>2, <2>3
    <3>4. (IF found THEN <<"true">> ELSE <<"false">>) = Initially[key]
      BY <3>1, <3>2, <3>3
    <3>5. QED
      BY <3>4, <2>4, <2>6
  <2>7. QED
    BY <2>5, <2>6
<1>4. QED
  BY <1>2, <1>3

LEMMA TakeDefaultStep ==
  ASSUME ConfigInv, NEW key \in Keys, TakeDefault(key)
  PROVE  ConfigInv'
<1>1. TypeOK /\ Calls /\ Defaults /\ Settled /\ InStep
  BY DEF ConfigInv
<1>2. PICK value : value = FromFile(key)
  OBVIOUS
<1>3. /\ ini # "reading" /\ key \notin replaced /\ replaced' = replaced \cup {key}
      /\ args[Root][key] # Nothing /\ args[Root][key].default
      /\ Set(Root, key, value, TRUE)
      /\ UNCHANGED <<iniVars, raw, allowed, children, frames, state, uses>>
  BY <1>2 DEF TakeDefault, SetNewDefault, Set
<1>4. key \in allowed[Root]
  BY <1>1, <1>3 DEF Defaults
<1>5. /\ DOMAIN args' = Commands /\ DOMAIN args'[Root] = Keys
      /\ \A k \in Keys : k # key => args'[Root][k] = args[Root][k]
      /\ args'[Root][key] = [value |-> Stored(key, value), default |-> TRUE]
  <2>1. Root \in Commands
    BY CommandLineAssumption
  <2>2. key \in Keys /\ TypeOK /\ Set(Root, key, value, TRUE)
    BY <1>1, <1>3
  <2>3. /\ DOMAIN args' = Commands /\ DOMAIN args'[Root] = Keys
        /\ \A k \in Keys : args'[Root][k] =
             IF k = key
             THEN IF key \in allowed[Root] THEN [value |-> Stored(key, value), default |-> TRUE]
                  ELSE Nothing
             ELSE args[Root][k]
    BY <2>1, <2>2, SetIs
  <2>4. QED
    BY <2>3, <1>4
<1>6. TypeOK' /\ Calls' /\ InStep' /\ Reached' = Reached
  BY <1>1, <1>3, <1>5, RestStays DEF TypeOK
<1>7. Settled'
  BY <1>1, <1>3, <1>4 DEF Settled, iniVars
<1>8. \A k : GivenYet(k)' = GivenYet(k)
  BY <1>3, <1>6, NothingPassed
<1>9. ASSUME state' # "failed", NEW k \in allowed[Root], k # key
      PROVE  ArgOK(k)'
  <2>1. k \in Keys /\ ArgOK(k)
    <3>1. allowed[Root] \subseteq Keys
      BY <1>1, CommandLineAssumption DEF TypeOK
    <3>2. QED
      BY <3>1, <1>1, <1>3, <1>9 DEF Defaults
  <2>2. args'[Root][k] = args[Root][k] /\ (k \in replaced' <=> k \in replaced)
    BY <2>1, <1>3, <1>5, <1>9
  <2>3. QED
    BY <2>1, <2>2, <1>3, <1>8, ArgStays
<1>10. ASSUME state' # "failed"
       PROVE  ArgOK(key)'
  <2>1. ArgOK(key)
    BY <1>1, <1>3, <1>4, <1>10 DEF Defaults
  <2>2. GivenYet(key) = {}
    <3>1. SUFFICES ASSUME GivenYet(key) # {} PROVE FALSE
      OBVIOUS
    <3>2. args[Root][key] = [value |-> Stored(key, W[Max(GivenYet(key))].value), default |-> FALSE]
      BY <2>1, <3>1 DEF ArgOK
    <3>3. args[Root][key].default = FALSE
      BY <3>2
    <3>4. QED
      BY <3>3, <1>3
  <2>3. args[Root][key].value \in {Initially[key], Stored(key, Initially[key])}
    BY <2>1, <2>2, <1>3 DEF ArgOK
  <2>4. IF ini = "read" /\ Holding(key) # {}
        THEN Stored(key, value) = FileValue(key)
        ELSE Stored(key, value) \in {Initially[key], Stored(key, Initially[key])}
    BY <2>3, <1>1, <1>2, <1>3, DefaultTaken
  <2>5. ini' = ini /\ Holding(key)' = Holding(key) /\ FileValue(key)' = FileValue(key)
    BY <1>3 DEF iniVars, Holding, Value, FileValue
  <2>6. args'[Root][key].value = Stored(key, value) /\ key \in replaced'
    BY <1>3, <1>5
  <2>7. GivenYet(key)' = {}
    BY <2>2, <1>8
  <2>8. QED
    BY <2>4, <2>5, <2>6, <2>7 DEF ArgOK
<1>11. Defaults'
  <2>1. state' # "failed" => \A k \in allowed'[Root] : ArgOK(k)'
    BY <1>3, <1>9, <1>10
  <2>2. \A k \in Keys \ allowed'[Root] : args'[Root][k] = Nothing
    BY <1>1, <1>3, <1>4, <1>5 DEF Defaults
  <2>3. QED
    BY <2>1, <2>2 DEF Defaults
<1>12. QED
  BY <1>6, <1>7, <1>11 DEF ConfigInv

\* While the file is read, no default was replaced yet.
LEMMA ReadStep ==
  ASSUME ConfigInv, ReadFile
  PROVE  ConfigInv'
<1>1. TypeOK /\ Calls /\ Defaults /\ Settled /\ InStep
  BY DEF ConfigInv
<1>2. UNCHANGED <<raw, allowed, children, args, frames, state, uses, replaced>>
  BY DEF ReadFile, clVars
<1>3. ini = "reading" /\ ini' \in {"reading", "read"}
  <2>1. ReadIni
    BY DEF ReadFile
  <2>2. ReadIni => (ini = "reading" /\ ini' = ini) \/ IniEnd
    BY DEF ReadIni, BlankLine, ValueLine, HeaderLine, SettingLine, Reading, Proceed
  <2>3. QED
    BY <2>1, <2>2 DEF IniEnd
<1>4. DOMAIN args' = Commands /\ DOMAIN args'[Root] = Keys /\ allowed' \in [Commands -> SUBSET Keys]
  BY <1>1, <1>2 DEF TypeOK
<1>5. TypeOK' /\ Calls' /\ InStep' /\ Reached' = Reached
  BY <1>1, <1>2, <1>4, RestStays
<1>6. Settled' /\ replaced = {}
  BY <1>1, <1>2, <1>3 DEF Settled
<1>7. Defaults'
  <2>1. ASSUME NEW key \in allowed[Root], ArgOK(key)
        PROVE  ArgOK(key)'
    <3>1. GivenYet(key)' = GivenYet(key) /\ W' = W
      BY <1>2, <1>5, NothingPassed DEF W
    <3>2. args'[Root][key] = args[Root][key] /\ key \notin replaced /\ key \notin replaced'
      BY <1>2, <1>6
    <3>3. IF GivenYet(key) # {}
          THEN args[Root][key] =
                 [value |-> Stored(key, W[Max(GivenYet(key))].value), default |-> FALSE]
          ELSE args[Root][key].value \in {Initially[key], Stored(key, Initially[key])}
      BY <2>1, <3>2 DEF ArgOK
    <3>4. PICK G : G = GivenYet(key)
      OBVIOUS
    <3>5. ArgOK(key)' <=>
            (LET a == args'[Root][key] IN
             IF GivenYet(key)' # {}
             THEN a = [value |-> Stored(key, W'[Max(GivenYet(key)')].value), default |-> FALSE]
             ELSE IF key \in replaced' /\ ini' = "read" /\ Holding(key)' # {}
             THEN a.value = FileValue(key)'
             ELSE a.value \in {Initially[key], Stored(key, Initially[key])})
      BY DEF ArgOK
    <3>6. QED
      BY <3>1, <3>2, <3>3, <3>4, <3>5
  <2>2. QED
    BY <2>1, <1>1, <1>2 DEF Defaults
<1>8. QED
  BY <1>5, <1>6, <1>7 DEF ConfigInv

-----------------------------------------------------------------------------
(* The theorems *)

LEMMA ConfigInitially == Init => ConfigInv
<1> SUFFICES ASSUME Init PROVE ConfigInv
  OBVIOUS
<1>1. PICK case \in Cases : IniInit(case.file) /\ CommandLineInit(case.words) /\ replaced = {}
  BY DEF Init
<1>2. /\ raw = [c \in Commands |-> IF c = Root THEN case.words ELSE <<>>]
      /\ allowed = [c \in Commands |-> {}] /\ children = [c \in Commands |-> {}]
      /\ args = [c \in Commands |-> [k \in Keys |-> Nothing]]
      /\ frames = <<>> /\ state = "building" /\ uses = <<>>
  BY <1>1 DEF CommandLineInit
<1>3. Root \in Commands /\ Len(case.words) \in Nat
  BY CommandLineAssumption, CasesAssumption
<1>4. DOMAIN raw = Commands /\ N \in Nat /\ \A c \in Commands : Len(raw[c]) \in Nat
  BY <1>2, <1>3 DEF N
<1>5. TypeOK
  BY <1>2, <1>3, <1>4 DEF TypeOK
<1>6. Settled
  BY <1>1 DEF Settled, IniInit
<1>7. Calls
  BY <1>2, <1>3 DEF Calls
<1>8. Defaults
  BY <1>2, <1>3 DEF Defaults
<1>9. InStep
  BY <1>2, <1>5, Building DEF InStep
<1>10. QED
  BY <1>5, <1>6, <1>7, <1>8, <1>9 DEF ConfigInv

LEMMA ConfigInductive == ConfigInv /\ [Next]_vars => ConfigInv'
<1> SUFFICES ASSUME ConfigInv, [Next]_vars PROVE ConfigInv'
  OBVIOUS
<1>1. CASE ReadFile
  BY <1>1, ReadStep
<1>2. CASE CommandLineStep
  <2>1. UNCHANGED <<iniVars, replaced>> /\ (BuildTree \/ ParseArgs \/ Execute)
    BY <1>2 DEF CommandLineStep
  <2>2. CASE BuildTree
    BY <2>1, <2>2, AddStep, AddArgumentStep DEF BuildTree
  <2>3. CASE ParseArgs
    BY <2>1, <2>3, StartStep, EmptyStep, BareStep, ArgumentStep, DotStep, PositionalStep,
       CommandStep, ReturnStep, EndStep DEF ParseArgs
  <2>4. CASE Execute
    BY <2>1, <2>4, ExecuteStep
  <2>5. QED
    BY <2>1, <2>2, <2>3, <2>4
<1>3. CASE \E key \in Keys : TakeDefault(key)
  BY <1>3, TakeDefaultStep
<1>4. CASE UNCHANGED vars
  BY <1>4, ExecuteStep DEF vars
<1>5. QED
  BY <1>1, <1>2, <1>3, <1>4 DEF Next

\* In a tree of commands that was built from the top, each word of the command line
\* is consumed exactly once, though several calls of Parse go over the same words
\* (CommandLineCommand::Parse).
THEOREM WordsConsumed == Spec => []EveryWordOnce
<1>1. ConfigInv => EveryWordOnce
  <2>1. SUFFICES ASSUME ConfigInv, state = "parsed", TopDown, NEW i \in 2 .. Len(raw[Root])
                 PROVE  \/ raw[Root][i].form = "empty"
                        \/ Cardinality({u \in DOMAIN uses : uses[u] = i}) = 1
    BY DEF EveryWordOnce
  <2>2. UsedOnce /\ Far = N + 1 /\ i \in 2 .. N /\ N \in Nat
    BY <2>1 DEF ConfigInv, InStep, Far, N, TypeOK
  <2>3. W[i].form = "empty" \/ \E u \in DOMAIN uses : uses[u] = i
    BY <2>2 DEF UsedOnce
  <2>4. CASE W[i].form = "empty"
    BY <2>4 DEF W
  <2>5. ASSUME NEW u \in DOMAIN uses, uses[u] = i
        PROVE  Cardinality({v \in DOMAIN uses : uses[v] = i}) = 1
    <3>1. {v \in DOMAIN uses : uses[v] = i} = {u}
      BY <2>2, <2>5 DEF UsedOnce
    <3>2. QED
      BY <3>1, FS_Singleton
  <2>6. QED
    BY <2>3, <2>4, <2>5
<1>2. QED
  BY <1>1, ConfigInitially, ConfigInductive, PTL DEF Spec

\* What is given on the command line comes before the INI file, and this before the
\* default, in whatever order they are read (SetNewStringDefault, SetNewBooleanDefault).
THEOREM GivenFirst == Spec => []GivenBeatsDefaults
<1>1. ConfigInv => GivenBeatsDefaults
  <2>1. SUFFICES ASSUME ConfigInv, state = "parsed", NEW key \in allowed[Root]
                 PROVE  LET value == args[Root][key].value
                            found == IF ini = "read" THEN Holding(key) ELSE {}
                            given == Given(key)
                        IN IF given # {} THEN value = Stored(key, raw[Root][Max(given)].value)
                           ELSE IF key \in replaced /\ found # {}
                           THEN value = (IF key \in Booleans
                                         THEN (IF IsTrue(Value(key)) THEN <<"true">> ELSE <<"false">>)
                                         ELSE Value(key))
                           ELSE value \in {Initially[key], Stored(key, Initially[key])}
    BY DEF GivenBeatsDefaults
  <2>2. ArgOK(key)
    BY <2>1 DEF ConfigInv, Defaults
  <2>3. GivenYet(key) = Given(key)
    <3>1. Reached = N + 1 /\ N \in Nat
      BY <2>1 DEF Reached, ConfigInv, TypeOK
    <3>2. \A g \in Given(key) : g < N + 1
      BY <3>1, GivenIs
    <3>3. QED
      BY <3>1, <3>2 DEF GivenYet
  <2>4. CASE Given(key) # {}
    <3>1. args[Root][key] = [value |-> Stored(key, W[Max(GivenYet(key))].value), default |-> FALSE]
      BY <2>2, <2>3, <2>4 DEF ArgOK
    <3>2. args[Root][key].value = Stored(key, W[Max(Given(key))].value)
      BY <3>1, <2>3
    <3>3. QED
      BY <3>2, <2>4 DEF W
  <2>5. CASE Given(key) = {}
    <3>1. IF key \in replaced /\ ini = "read" /\ Holding(key) # {}
          THEN args[Root][key].value = FileValue(key)
          ELSE args[Root][key].value \in {Initially[key], Stored(key, Initially[key])}
      BY <2>2, <2>3, <2>5 DEF ArgOK
    <3>2. QED
      BY <3>1, <2>5 DEF FileValue
  <2>6. QED
    BY <2>4, <2>5
<1>2. QED
  BY <1>1, ConfigInitially, ConfigInductive, PTL DEF Spec

-----------------------------------------------------------------------------
(* Lines and their parts *)

\* That a text is in a line, behind a and up to b
Part(t, l, a, b) ==
  /\ a \in Nat /\ b \in Nat /\ a <= b /\ t \in Seq(Symbols) /\ Len(t) = b - a
  /\ \A i \in 1 .. b - a : t[i] = l[a + i]

LEMMA PlaceIn ==
  ASSUME NEW a \in Nat, NEW b \in Nat
  PROVE  \A i \in 1 .. b - a : a + i \in a + 1 .. b /\ i \in Nat /\ a + i \in Nat
OBVIOUS

LEMMA PartDomain ==
  ASSUME NEW t, NEW l, NEW a \in Nat, NEW b \in Nat, Part(t, l, a, b)
  PROVE  a \in Nat /\ b \in Nat /\ a <= b /\ t \in Seq(Symbols) /\ Len(t) = b - a /\ DOMAIN t = 1 .. b - a
<1>1. a \in Nat /\ b \in Nat /\ a <= b /\ t \in Seq(Symbols) /\ Len(t) = b - a
  BY DEF Part
<1>2. DOMAIN t = 1 .. Len(t)
  BY <1>1
<1>3. QED
  BY <1>1, <1>2

LEMMA PartIs ==
  ASSUME NEW t, NEW l, NEW a \in Nat, NEW b \in Nat, Part(t, l, a, b)
  PROVE  \A i \in 1 .. b - a : t[i] = l[a + i]
BY DEF Part

LEMMA PartAtPlace ==
  ASSUME NEW t, NEW l, NEW a \in Nat, NEW b \in Nat, Part(t, l, a, b), NEW p \in a + 1 .. b
  PROVE  p \in Nat /\ p - a \in 1 .. b - a /\ p - a \in 1 .. Len(t) /\ a + (p - a) = p /\ t[p - a] = l[p]
<1>1. a \in Nat /\ b \in Nat /\ Len(t) = b - a /\ \A i \in 1 .. b - a : t[i] = l[a + i]
  BY DEF Part
<1>2. p \in Nat /\ p - a \in 1 .. b - a /\ a + (p - a) = p
  BY <1>1
<1>3. QED
  BY <1>1, <1>2

LEMMA WholeLine ==
  ASSUME NEW l \in Seq(Symbols)
  PROVE  Part(l, l, 0, Len(l))
BY DEF Part

LEMMA PartsEqual ==
  ASSUME NEW t, NEW u, NEW l, NEW a \in Nat, NEW b \in Nat, Part(t, l, a, b), Part(u, l, a, b)
  PROVE  t = u
<1>1. PICK n \in Nat : n = b - a
  BY DEF Part
<1>2. t \in Seq(Symbols) /\ u \in Seq(Symbols) /\ Len(t) = n /\ Len(u) = n
  BY <1>1 DEF Part
<1>3. \A i \in 1 .. n : t[i] = u[i]
  BY <1>1 DEF Part
<1>4. QED
  BY <1>2, <1>3, SeqEqual

\* What is behind x and up to y in a part
LEMMA PartOfPart ==
  ASSUME NEW t, NEW l, NEW a \in Nat, NEW b \in Nat, Part(t, l, a, b), NEW p \in a .. b, NEW q \in p .. b
  PROVE  Part(SubSeq(t, p - a + 1, q - a), l, p, q)
<1>1. /\ a \in Nat /\ b \in Nat /\ a <= b /\ t \in Seq(Symbols) /\ Len(t) = b - a
      /\ \A i \in 1 .. b - a : t[i] = l[a + i]
  BY DEF Part
<1>2. PICK x \in Nat, y \in Nat : x = p - a /\ y = q - a /\ x <= y /\ y <= Len(t) /\ p \in Nat /\ q \in Nat /\ p <= q
  <2>1. p - a \in Nat /\ q - a \in Nat /\ p - a <= q - a /\ q - a <= Len(t) /\ p \in Nat /\ q \in Nat /\ p <= q
    BY <1>1
  <2>2. QED
    BY <2>1
<1>3. \A i \in x + 1 .. y : t[i] \in Symbols
  BY <1>1, <1>2
<1>4. PICK u : u = SubSeq(t, x + 1, y)
  OBVIOUS
<1>5. x + 1 \in Int /\ y \in Int /\ y - (x + 1) + 1 = y - x /\ y - x = q - p
  BY <1>1, <1>2
<1>6. /\ u \in Seq(Symbols) /\ Len(u) = IF x + 1 <= y THEN y - (x + 1) + 1 ELSE 0
      /\ \A i \in 1 .. y - (x + 1) + 1 : u[i] = t[x + 1 + i - 1]
  BY <1>3, <1>4, <1>5, SubSeqProperties
<1>7. Len(u) = q - p
  <2>1. CASE x < y
    BY <1>2, <1>5, <1>6, <2>1
  <2>2. CASE x = y
    <3>1. ~(x + 1 <= y) /\ q - p = 0
      BY <1>5, <2>2
    <3>2. Len(u) = 0
      BY <1>6, <3>1, Zenon
    <3>3. QED
      BY <3>1, <3>2
  <2>3. QED
    BY <1>2, <2>1, <2>2
<1>8. ASSUME NEW i \in 1 .. q - p PROVE u[i] = l[p + i]
  <2>1. x + 1 + i - 1 = x + i /\ x + i \in 1 .. b - a /\ a + (x + i) = p + i
    BY <1>1, <1>2, <1>5
  <2>2. u[i] = t[x + i]
    BY <1>5, <1>6, <2>1
  <2>3. QED
    BY <1>1, <2>1, <2>2
<1>9. Part(u, l, p, q)
  BY <1>2, <1>6, <1>7, <1>8 DEF Part
<1>10. QED
  BY <1>2, <1>4, <1>9

LEMMA LeastIs ==
  ASSUME NEW S \in SUBSET Int, NEW m \in S, \A i \in S : m <= i
  PROVE  Min(S) = m
<1>1. \A x \in S : (\A y \in S : x <= y) => x = m
  OBVIOUS
<1>2. QED
  BY <1>1 DEF Min

LEMMA GreatestIs ==
  ASSUME NEW S \in SUBSET Int, NEW m \in S, \A i \in S : m >= i
  PROVE  Max(S) = m
<1>1. \A x \in S : (\A y \in S : x >= y) => x = m
  OBVIOUS
<1>2. QED
  BY <1>1 DEF Max

\* Trimming leaves what is between the first and the last that is not blank.
Inked(l, a, b, p, q) ==
  /\ p \in a + 1 .. b /\ q \in p .. b /\ l[p] # " " /\ l[q] # " "
  /\ \A i \in a + 1 .. b : i \in p .. q \/ l[i] = " "

LEMMA TrimPart ==
  ASSUME NEW t, NEW l, NEW a \in Nat, NEW b \in Nat, Part(t, l, a, b), NEW p \in Nat, NEW q \in Nat, Inked(l, a, b, p, q)
  PROVE  Part(Trim(t), l, p - 1, q)
<1>1. a \in Nat /\ b \in Nat /\ a <= b /\ t \in Seq(Symbols) /\ Len(t) = b - a
  BY DEF Part
<1>2. p \in a + 1 .. b /\ q \in p .. b /\ p \in Nat /\ q \in Nat
  <2>1. p \in a + 1 .. b /\ q \in p .. b
    BY Zenon DEF Inked
  <2>2. QED
    BY <1>1, <2>1
<1>3. PICK kept : kept = {i \in DOMAIN t : t[i] # " "}
  OBVIOUS
<1>4. PICK x \in Nat, y \in Nat : x = p - a /\ y = q - a /\ x \in 1 .. b - a /\ y \in x .. b - a
  BY <1>1, <1>2
<1>5. x \in kept /\ y \in kept
  <2>1. q \in a + 1 .. b
    BY <1>1, <1>2
  <2>2. t[p - a] = l[p] /\ t[q - a] = l[q] /\ p - a \in 1 .. Len(t) /\ q - a \in 1 .. Len(t)
    BY <1>2, <2>1, PartAtPlace
  <2>3. DOMAIN t = 1 .. Len(t)
    BY <1>1
  <2>4. QED
    BY <1>3, <1>4, <2>2, <2>3 DEF Inked
<1>6. ASSUME NEW i \in kept PROVE i \in Int /\ x <= i /\ i <= y
  <2>1. i \in 1 .. b - a /\ t[i] # " "
    BY <1>3, PartDomain
  <2>2. a + i \in a + 1 .. b /\ t[i] = l[a + i]
    <3>1. a + i \in a + 1 .. b
      BY <2>1, PlaceIn
    <3>2. t[i] = l[a + i]
      <4>1. \A j \in 1 .. b - a : t[j] = l[a + j]
        BY PartIs
      <4>2. QED
        BY <2>1, <4>1
    <3>3. QED
      BY <3>1, <3>2
  <2>3. a + i \in p .. q
    BY <2>1, <2>2, Zenon DEF Inked
  <2>4. i \in Int /\ a + i >= p /\ a + i <= q
    <3>1. i \in Int /\ a + i \in Int
      <4>1. i \in 1 .. b - a
        BY <2>1
      <4>2. QED
        BY <1>1, <4>1
    <3>2. QED
      BY <1>2, <2>3, <3>1
  <2>5. QED
    BY <1>1, <1>2, <1>4, <2>4
<1>7. kept \in SUBSET Int /\ kept # {}
  BY <1>5, <1>6
<1>8. Min(kept) = x /\ Max(kept) = y
  <2>1. \A i \in kept : x <= i /\ y >= i
    BY <1>6
  <2>2. Min(kept) = x
    BY <1>5, <1>7, <2>1, LeastIs
  <2>3. Max(kept) = y
    BY <1>5, <1>7, <2>1, GreatestIs
  <2>4. QED
    BY <2>2, <2>3
<1>9. Trim(t) = SubSeq(t, x, y)
  BY <1>3, <1>7, <1>8, Zenon DEF Trim
<1>10. PICK r \in Nat : r = p - 1 /\ r \in a .. b /\ q \in r .. b /\ r - a + 1 = x
  <2>1. p - 1 \in Nat /\ p - 1 \in a .. b /\ q \in p - 1 .. b /\ p - 1 - a + 1 = x
    BY <1>1, <1>2, <1>4
  <2>2. QED
    BY <2>1
<1>11. Part(SubSeq(t, r - a + 1, q - a), l, r, q)
  BY <1>10, PartOfPart
<1>12. QED
  BY <1>4, <1>9, <1>10, <1>11

Blanks(l, a, b) == \A i \in a + 1 .. b : l[i] = " "

LEMMA TrimBlank ==
  ASSUME NEW t, NEW l, NEW a \in Nat, NEW b \in Nat, Part(t, l, a, b), Blanks(l, a, b)
  PROVE  Trim(t) = <<>>
<1>1. t \in Seq(Symbols) /\ Len(t) = b - a
  BY DEF Part
<1>2. \A i \in DOMAIN t : t[i] = " "
  <2>1. DOMAIN t = 1 .. b - a
    BY PartDomain
  <2>2. ASSUME NEW i \in 1 .. b - a PROVE t[i] = " "
    <3>1. a \in Nat /\ b \in Nat
      BY PartDomain
    <3>2. a + i \in a + 1 .. b
      BY PlaceIn
    <3>3. t[i] = l[a + i]
      BY PartIs
    <3>4. QED
      BY <3>2, <3>3 DEF Blanks
  <2>3. QED
    BY <2>1, <2>2
<1>3. {i \in DOMAIN t : t[i] # " "} = {}
  BY <1>2
<1>4. QED
  BY <1>3, Zenon DEF Trim

LEMMA OneAt ==
  ASSUME NEW s \in Seq(Symbols), NEW i \in 1 .. Len(s), NEW ch
  PROVE  SubSeq(s, i, i) = <<ch>> <=> s[i] = ch
<1>1. PICK u : u = SubSeq(s, i, i)
  OBVIOUS
<1>2. u \in Seq(Symbols) /\ Len(u) = 1 /\ u[1] = s[i]
  <2>1. i \in Int /\ i - i + 1 = 1 /\ i <= i /\ i + 1 - 1 = i /\ s[i] \in Symbols
    OBVIOUS
  <2>2. \A j \in i .. i : s[j] \in Symbols
    BY <2>1
  <2>3. /\ u \in Seq(Symbols) /\ Len(u) = IF i <= i THEN i - i + 1 ELSE 0
        /\ \A j \in 1 .. i - i + 1 : u[j] = s[i + j - 1]
    BY <1>1, <2>1, <2>2, SubSeqProperties
  <2>4. 1 \in 1 .. i - i + 1
    OBVIOUS
  <2>5. QED
    BY <2>1, <2>3, <2>4
<1>3. u = <<s[i]>>
  <2>1. <<s[i]>> \in Seq(Symbols) /\ Len(<<s[i]>>) = 1 /\ <<s[i]>>[1] = s[i]
    OBVIOUS
  <2>2. Len(u) = Len(<<s[i]>>) /\ \A j \in 1 .. Len(u) : u[j] = <<s[i]>>[j]
    BY <1>2, <2>1
  <2>3. QED
    BY <1>2, <2>1, <2>2, SeqEqual
<1>4. QED
  BY <1>1, <1>3

LEMMA ThreeAt ==
  ASSUME NEW s \in Seq(Symbols), NEW i \in Nat, i # 0, i + 2 <= Len(s)
  PROVE  SubSeq(s, i, i + 2) = ThreeQuotes <=> s[i] = Quote /\ s[i + 1] = Quote /\ s[i + 2] = Quote
<1>1. PICK u : u = SubSeq(s, i, i + 2)
  OBVIOUS
<1>2. u \in Seq(Symbols) /\ Len(u) = 3 /\ u[1] = s[i] /\ u[2] = s[i + 1] /\ u[3] = s[i + 2]
  <2>1. /\ i \in Int /\ i + 2 \in Int /\ i + 2 - i + 1 = 3 /\ i <= i + 2
        /\ i + 1 - 1 = i /\ i + 2 - 1 = i + 1 /\ i + 3 - 1 = i + 2
    OBVIOUS
  <2>2. \A j \in i .. i + 2 : s[j] \in Symbols
    OBVIOUS
  <2>3. /\ u \in Seq(Symbols) /\ Len(u) = IF i <= i + 2 THEN i + 2 - i + 1 ELSE 0
        /\ \A j \in 1 .. i + 2 - i + 1 : u[j] = s[i + j - 1]
    BY <1>1, <2>1, <2>2, SubSeqProperties
  <2>4. Len(u) = 3 /\ \A j \in 1 .. 3 : u[j] = s[i + j - 1]
    BY <2>1, <2>3
  <2>5. 1 \in 1 .. 3 /\ 2 \in 1 .. 3 /\ 3 \in 1 .. 3
    OBVIOUS
  <2>6. QED
    BY <2>1, <2>3, <2>4, <2>5
<1>3. SUFFICES u = ThreeQuotes <=> u[1] = Quote /\ u[2] = Quote /\ u[3] = Quote
  BY <1>1, <1>2
<1>4. ASSUME u = ThreeQuotes PROVE u[1] = Quote /\ u[2] = Quote /\ u[3] = Quote
  BY <1>4 DEF ThreeQuotes
<1>5. ASSUME u[1] = Quote, u[2] = Quote, u[3] = Quote PROVE u = ThreeQuotes
  <2>1. Quote \in Symbols
    <3>1. 1 \in 1 .. Len(u)
      BY <1>2
    <3>2. u[1] \in Symbols
      BY <1>2, <3>1
    <3>3. QED
      BY <1>5, <3>2
  <2>2. PICK v : v = <<Quote, Quote, Quote>>
    OBVIOUS
  <2>3. v \in Seq(Symbols) /\ Len(v) = 3 /\ v[1] = Quote /\ v[2] = Quote /\ v[3] = Quote
    BY <2>1, <2>2
  <2>4. \A j \in 1 .. 3 : j = 1 \/ j = 2 \/ j = 3
    OBVIOUS
  <2>5. Len(u) = Len(v) /\ \A j \in 1 .. Len(u) : u[j] = v[j]
    BY <1>2, <1>5, <2>3, <2>4
  <2>6. u = v
    BY <1>2, <2>3, <2>5, SeqEqual
  <2>7. QED
    BY <2>2, <2>6 DEF ThreeQuotes
<1>6. QED
  BY <1>4, <1>5

\* That a character is not in a line, behind a and up to b
Lacks(l, a, b, ch) == \A i \in a + 1 .. b : l[i] # ch

\* That p is its first place
FirstAt(l, a, b, ch, p) == p \in a + 1 .. b /\ l[p] = ch /\ Lacks(l, a, p - 1, ch)

\* Where find finds a character, or the three quotes
FindsChar(t, l, a, b, ch) ==
  /\ Lacks(l, a, b, ch) => Find(t, <<ch>>) = 0
  /\ \A p : FirstAt(l, a, b, ch, p) => Find(t, <<ch>>) = p - a

LEMMA FindChar ==
  ASSUME NEW t, NEW l, NEW a \in Nat, NEW b \in Nat, Part(t, l, a, b), NEW ch
  PROVE  FindsChar(t, l, a, b, ch)
<1>1. t \in Seq(Symbols) /\ Len(t) = b - a /\ \A i \in 1 .. b - a : t[i] = l[a + i]
  <2>1. t \in Seq(Symbols) /\ Len(t) = b - a
    BY PartDomain
  <2>2. \A i \in 1 .. b - a : t[i] = l[a + i]
    BY PartIs
  <2>3. QED
    BY <2>1, <2>2
<1>2. PICK n \in Nat : n = b - a /\ n = Len(t)
  BY <1>1
<1>3. PICK found : found = {i \in 1 .. n : t[i] = ch}
  OBVIOUS
<1>4. Find(t, <<ch>>) = IF found = {} THEN 0 ELSE Min(found)
  <2>1. PICK w, k : w = <<ch>> /\ k = Len(w)
    OBVIOUS
  <2>2. k = 1
    BY <2>1
  <2>3. {i \in 1 .. Len(t) - k + 1 : SubSeq(t, i, i + k - 1) = w} = found
    <3>1. Len(t) - k + 1 = n
      BY <1>2, <2>2
    <3>2. \A i \in 1 .. n : i + k - 1 = i
      BY <2>2
    <3>3. \A i \in 1 .. n : SubSeq(t, i, i) = w <=> t[i] = ch
      <4>1. t \in Seq(Symbols)
        BY <1>1
      <4>2. ASSUME NEW i \in 1 .. Len(t) PROVE SubSeq(t, i, i) = <<ch>> <=> t[i] = ch
        BY <4>1, OneAt
      <4>3. QED
        BY <1>2, <2>1, <4>2
    <3>4. QED
      BY <1>3, <3>1, <3>2, <3>3
  <2>4. Find(t, w) = IF {i \in 1 .. Len(t) - k + 1 : SubSeq(t, i, i + k - 1) = w} = {} THEN 0
                     ELSE Min({i \in 1 .. Len(t) - k + 1 : SubSeq(t, i, i + k - 1) = w})
    BY <2>1, Zenon DEF Find
  <2>5. QED
    BY <2>1, <2>3, <2>4
<1>5. ASSUME \A i \in a + 1 .. b : l[i] # ch PROVE Find(t, <<ch>>) = 0
  <2>1. \A i \in 1 .. n : a + i \in a + 1 .. b
    BY <1>2, PlaceIn
  <2>2. found = {}
    BY <1>1, <1>2, <1>3, <1>5, <2>1
  <2>3. QED
    BY <1>4, <2>2
<1>6. ASSUME NEW p \in a + 1 .. b, l[p] = ch, \A i \in a + 1 .. p - 1 : l[i] # ch
      PROVE  Find(t, <<ch>>) = p - a
  <2>1. PICK m \in Nat : m = p - a /\ a + m = p /\ m \in 1 .. n
    <3>1. p - a \in Nat /\ a + (p - a) = p /\ p - a \in 1 .. n
      BY <1>2
    <3>2. QED
      BY <3>1
  <2>2. m \in found
    BY <1>1, <1>2, <1>3, <1>6, <2>1
  <2>3. ASSUME NEW i \in found PROVE m <= i
    <3>1. i \in 1 .. n /\ t[i] = ch /\ l[a + i] = ch
      BY <1>1, <1>2, <1>3
    <3>2. ~(a + i \in a + 1 .. p - 1)
      BY <1>6, <3>1
    <3>3. QED
      BY <2>1, <3>1, <3>2
  <2>4. found \in SUBSET Int
    BY <1>3
  <2>5. Min(found) = m
    BY <2>2, <2>3, <2>4, LeastIs
  <2>6. QED
    BY <1>4, <2>1, <2>2, <2>5
<1>7. QED
  BY <1>5, <1>6, Zenon DEF FindsChar, FirstAt, Lacks

LEMMA LacksIn ==
  ASSUME NEW l, NEW a \in Nat, NEW b \in Nat, NEW ch, Lacks(l, a, b, ch), NEW c \in Nat, NEW d \in Nat, a <= c, d <= b
  PROVE  Lacks(l, c, d, ch)
<1>1. \A i \in c + 1 .. d : i \in a + 1 .. b
  OBVIOUS
<1>2. QED
  BY <1>1, Zenon DEF Lacks

LEMMA FindNone ==
  ASSUME NEW t, NEW l, NEW a \in Nat, NEW b \in Nat, Part(t, l, a, b), NEW ch, Lacks(l, a, b, ch)
  PROVE  Find(t, <<ch>>) = 0
<1>1. FindsChar(t, l, a, b, ch)
  BY FindChar
<1>2. QED
  BY <1>1, Zenon DEF FindsChar

LEMMA FindFirst ==
  ASSUME NEW t, NEW l, NEW a \in Nat, NEW b \in Nat, Part(t, l, a, b), NEW ch, NEW p, FirstAt(l, a, b, ch, p)
  PROVE  Find(t, <<ch>>) = p - a
<1>1. FindsChar(t, l, a, b, ch)
  BY FindChar
<1>2. QED
  BY <1>1, Zenon DEF FindsChar

LEMMA FindQuotes ==
  ASSUME NEW t, NEW l \in Seq(Symbols), NEW a \in Nat, NEW b \in Nat, Part(t, l, a, b), b <= Len(l)
  PROVE  /\ (\A i \in a + 1 .. b - 2 : ~QuotesAt(l, i)) => Find(t, ThreeQuotes) = 0
         /\ \A p \in a + 1 .. b - 2 :
              QuotesAt(l, p) /\ (\A i \in a + 1 .. p - 1 : ~QuotesAt(l, i)) => Find(t, ThreeQuotes) = p - a
<1>1. t \in Seq(Symbols) /\ Len(t) = b - a /\ \A i \in 1 .. b - a : t[i] = l[a + i]
  <2>1. t \in Seq(Symbols) /\ Len(t) = b - a
    BY PartDomain
  <2>2. \A i \in 1 .. b - a : t[i] = l[a + i]
    BY PartIs
  <2>3. QED
    BY <2>1, <2>2
<1>2. PICK n \in Nat : n = b - a /\ n = Len(t)
  BY <1>1
<1>3. PICK found : found = {i \in 1 .. n - 2 : QuotesAt(l, a + i)}
  OBVIOUS
<1>4. ASSUME NEW i \in 1 .. n - 2
      PROVE  SubSeq(t, i, i + 2) = ThreeQuotes <=> QuotesAt(l, a + i)
  <2>1. i \in Nat /\ i # 0 /\ i + 2 <= Len(t) /\ i \in 1 .. n /\ i + 1 \in 1 .. n /\ i + 2 \in 1 .. n
    BY <1>2
  <2>2. SubSeq(t, i, i + 2) = ThreeQuotes <=> t[i] = Quote /\ t[i + 1] = Quote /\ t[i + 2] = Quote
    BY <1>1, <2>1, ThreeAt
  <2>3. t[i] = l[a + i] /\ t[i + 1] = l[a + i + 1] /\ t[i + 2] = l[a + i + 2]
    <3>1. t[i] = l[a + i] /\ t[i + 1] = l[a + (i + 1)] /\ t[i + 2] = l[a + (i + 2)]
      BY <1>1, <1>2, <2>1
    <3>2. a + (i + 1) = a + i + 1 /\ a + (i + 2) = a + i + 2
      OBVIOUS
    <3>3. QED
      BY <3>1, <3>2
  <2>4. PICK q \in Nat : q = a + i /\ q + 2 <= Len(l)
    <3>1. Len(l) \in Nat
      OBVIOUS
    <3>2. a + i \in Nat /\ a + i + 2 <= Len(l)
      BY <1>2, <2>1, <3>1
    <3>3. QED
      BY <3>2
  <2>5. QuotesAt(l, q) <=> l[q] = Quote /\ l[q + 1] = Quote /\ l[q + 2] = Quote
    <3>1. \A j \in q .. q + 2 : j = q \/ j = q + 1 \/ j = q + 2
      OBVIOUS
    <3>2. q \in q .. q + 2 /\ q + 1 \in q .. q + 2 /\ q + 2 \in q .. q + 2
      OBVIOUS
    <3>3. QuotesAt(l, q) <=> \A j \in q .. q + 2 : l[j] = Quote
      BY <2>4, Zenon DEF QuotesAt
    <3>4. QED
      BY <3>1, <3>2, <3>3
  <2>6. QED
    BY <2>2, <2>3, <2>4, <2>5
<1>5. Find(t, ThreeQuotes) = IF found = {} THEN 0 ELSE Min(found)
  <2>1. PICK w, k : w = ThreeQuotes /\ k = Len(w)
    OBVIOUS
  <2>2. k = 3
    BY <2>1 DEF ThreeQuotes
  <2>3. {i \in 1 .. Len(t) - k + 1 : SubSeq(t, i, i + k - 1) = w} = found
    <3>1. Len(t) - k + 1 = n - 2
      BY <1>2, <2>2
    <3>2. \A i \in 1 .. n - 2 : i + k - 1 = i + 2
      BY <2>2
    <3>3. \A i \in 1 .. n - 2 : SubSeq(t, i, i + 2) = w <=> QuotesAt(l, a + i)
      BY <1>4, <2>1
    <3>4. QED
      BY <1>3, <3>1, <3>2, <3>3
  <2>4. Find(t, w) = IF {i \in 1 .. Len(t) - k + 1 : SubSeq(t, i, i + k - 1) = w} = {} THEN 0
                     ELSE Min({i \in 1 .. Len(t) - k + 1 : SubSeq(t, i, i + k - 1) = w})
    BY <2>1, Zenon DEF Find
  <2>5. QED
    BY <2>1, <2>3, <2>4
<1>6. ASSUME \A i \in a + 1 .. b - 2 : ~QuotesAt(l, i) PROVE Find(t, ThreeQuotes) = 0
  <2>1. \A i \in 1 .. n - 2 : a + i \in a + 1 .. b - 2
    BY <1>2
  <2>2. found = {}
    BY <1>3, <1>6, <2>1
  <2>3. QED
    BY <1>5, <2>2
<1>7. ASSUME NEW p \in a + 1 .. b - 2, QuotesAt(l, p), \A i \in a + 1 .. p - 1 : ~QuotesAt(l, i)
      PROVE  Find(t, ThreeQuotes) = p - a
  <2>1. PICK m \in Nat : m = p - a /\ a + m = p /\ m \in 1 .. n - 2
    <3>1. p - a \in Nat /\ a + (p - a) = p /\ p - a \in 1 .. n - 2
      BY <1>2
    <3>2. QED
      BY <3>1
  <2>2. m \in found
    BY <1>3, <1>7, <2>1
  <2>3. ASSUME NEW i \in found PROVE m <= i
    <3>1. i \in 1 .. n - 2 /\ QuotesAt(l, a + i)
      BY <1>3
    <3>2. ~(a + i \in a + 1 .. p - 1)
      BY <1>7, <3>1
    <3>3. QED
      BY <2>1, <3>1, <3>2
  <2>4. found \in SUBSET Int
    BY <1>3
  <2>5. Min(found) = m
    BY <2>2, <2>3, <2>4, LeastIs
  <2>6. QED
    BY <1>5, <2>1, <2>2, <2>5
<1>8. QED
  BY <1>6, <1>7

\* A set of positions that is not empty has a smallest and, if bounded, a greatest element.
LEMMA LeastPosition ==
  ASSUME NEW S \in SUBSET Nat, S # {}
  PROVE  \E x \in S : \A y \in S : x <= y
<1>1. PICK x \in S : \A y \in S : ~ (<<y, x>> \in OpToRel(<, Nat))
  BY NatLessThanWellFounded, WFMin
<1>2. \A y \in S : ~ (y < x)
  BY <1>1 DEF OpToRel
<1>3. \A y \in S : x <= y
  BY <1>2
<1>4. QED
  BY <1>3

LEMMA GreatestPosition ==
  ASSUME NEW n \in Nat, NEW S \in SUBSET (0 .. n), S # {}
  PROVE  \E x \in S : \A y \in S : y <= x
<1>1. PICK T : T = {n - i : i \in S}
  OBVIOUS
<1>2. T \in SUBSET Nat /\ T # {}
  <2>1. \A i \in S : n - i \in Nat
    OBVIOUS
  <2>2. QED
    BY <1>1, <2>1
<1>3. PICK z \in T : \A y \in T : z <= y
  BY <1>2, LeastPosition
<1>4. PICK x \in S : z = n - x
  BY <1>1, <1>3
<1>5. ASSUME NEW y \in S PROVE y <= x
  <2>1. n - y \in T
    BY <1>1
  <2>2. n - x <= n - y
    BY <1>3, <1>4, <2>1
  <2>3. QED
    BY <2>2
<1>6. QED
  BY <1>5

FirstInk(l, a, p) == l[p] # " " /\ \A i \in a + 1 .. p - 1 : l[i] = " "

LEMMA InkedIs ==
  ASSUME NEW l, NEW a \in Nat, NEW b \in Nat, NEW p \in a + 1 .. b, FirstInk(l, a, p)
  PROVE  \E q \in p .. b : Inked(l, a, b, p, q) /\ (\A i \in p .. b : l[i] # " " => i <= q)
<1>1. PICK S : S = {i \in p .. b : l[i] # " "}
  OBVIOUS
<1>2. p \in S /\ S \in SUBSET (0 .. b)
  <2>1. p \in p .. b /\ p .. b \subseteq 0 .. b
    OBVIOUS
  <2>2. l[p] # " "
    BY DEF FirstInk
  <2>3. QED
    BY <1>1, <2>1, <2>2
<1>3. PICK q \in S : \A y \in S : y <= q
  BY <1>2, GreatestPosition
<1>4. q \in p .. b /\ l[q] # " "
  BY <1>1
<1>5. ASSUME NEW i \in Nat, i >= a + 1, i <= b PROVE i \in p .. q \/ l[i] = " "
  <2>1. CASE i < p
    <3>1. i \in a + 1 .. p - 1
      BY <1>5, <2>1
    <3>2. QED
      BY <3>1 DEF FirstInk
  <2>2. q \in p .. b
    BY <1>4
  <2>3. CASE i >= p /\ i <= q
    <3>1. i \in p .. q
      BY <2>2, <2>3
    <3>2. QED
      BY <3>1, Zenon
  <2>4. CASE i >= p /\ i > q
    <3>1. i \in p .. b
      BY <1>5, <2>4
    <3>2. ~(i <= q)
      BY <2>2, <2>4
    <3>3. i \notin S
      BY <1>3, <3>2
    <3>4. QED
      BY <1>1, <3>1, <3>3
  <2>5. i < p \/ (i >= p /\ i <= q) \/ (i >= p /\ i > q)
    BY <2>2
  <2>6. QED
    BY <2>1, <2>3, <2>4, <2>5, Zenon
<1>6. Inked(l, a, b, p, q)
  <2>1. \A i \in a + 1 .. b : i \in Nat /\ i >= a + 1 /\ i <= b
    OBVIOUS
  <2>2. \A i \in a + 1 .. b : i \in p .. q \/ l[i] = " "
    BY <1>5, <2>1
  <2>3. p \in a + 1 .. b
    OBVIOUS
  <2>4. l[p] # " "
    BY DEF FirstInk
  <2>5. QED
    BY <1>4, <2>2, <2>3, <2>4, Zenon DEF Inked
<1>7. \A i \in p .. b : l[i] # " " => i <= q
  BY <1>1, <1>3
<1>8. QED
  BY <1>4, <1>6, <1>7

LEMMA BeforePart ==
  ASSUME NEW t, NEW l, NEW a \in Nat, NEW b \in Nat, Part(t, l, a, b), NEW p \in a + 1 .. b
  PROVE  Part(Before(t, p - a), l, a, p - 1)
<1>1. PICK r \in Nat : r = p - 1 /\ r \in a .. b /\ a \in a .. b /\ r - a = p - a - 1 /\ a - a + 1 = 1 /\ p - a # 0
  <2>1. p - 1 \in Nat /\ p - 1 \in a .. b /\ a \in a .. b /\ p - 1 - a = p - a - 1 /\ a - a + 1 = 1 /\ p - a # 0
    OBVIOUS
  <2>2. QED
    BY <2>1
<1>2. Part(SubSeq(t, a - a + 1, r - a), l, a, r)
  BY <1>1, PartOfPart
<1>3. Before(t, p - a) = SubSeq(t, 1, p - a - 1)
  BY <1>1, Zenon DEF Before
<1>4. QED
  BY <1>1, <1>2, <1>3

LEMMA AfterPart ==
  ASSUME NEW t, NEW l, NEW a \in Nat, NEW b \in Nat, Part(t, l, a, b), NEW p \in a .. b
  PROVE  Part(After(t, p - a), l, p, b)
<1>1. Len(t) = b - a
  BY PartDomain
<1>2. b \in p .. b
  OBVIOUS
<1>3. Part(SubSeq(t, p - a + 1, b - a), l, p, b)
  BY <1>2, PartOfPart
<1>4. QED
  BY <1>1, <1>3 DEF After

LEMMA NotBefore ==
  ASSUME NEW t
  PROVE  Before(t, 0) = t
BY DEF Before

\* What ParseIniFile makes of a line with a setting
Said(line) == Before(Trim(line), Find(Trim(line), <<";">>))
Equals(line) == Find(Said(line), <<"=">>)
Named(line) == Trim(Before(Said(line), Equals(line)))
Valued(line) == Trim(After(Said(line), Equals(line)))

Layout(l, n, key, from, to, k, e, end) ==
  /\ k \in 1 .. n /\ e \in 1 .. n /\ end \in 1 .. n + 1
  /\ k < e /\ e < from /\ from <= to + 1 /\ to < end
  /\ l[k] = key /\ l[e] = "=" /\ (end <= n => l[end] = ";")
  /\ \A i \in 1 .. end - 1 : i \in {k, e} \cup (from .. to) \/ l[i] = " "
  /\ \A i \in from .. to : l[i] # ";"
  /\ from <= to => l[from] # " " /\ l[to] # " "

KeySymbol(key) == key \notin {" ", "=", ";", "["}

LEMMA LaidOut ==
  ASSUME NEW l \in Seq(Symbols), NEW key, NEW from, NEW to, SettingLineOf(l, key, from, to)
  PROVE  \E k, e, end : Layout(l, Len(l), key, from, to, k, e, end)
<1>1. DOMAIN l = 1 .. Len(l)
  OBVIOUS
<1>2. QED
  BY <1>1, Zenon DEF SettingLineOf, Layout

LEMMA LayoutOrder ==
  ASSUME NEW l, NEW n \in Nat, NEW key, NEW from \in Nat, NEW to \in Nat, NEW k, NEW e, NEW end,
         Layout(l, n, key, from, to, k, e, end)
  PROVE  /\ k \in Nat /\ e \in Nat /\ end \in Nat /\ 1 <= k /\ k < e /\ e <= n /\ end <= n + 1
         /\ e < from /\ from <= to + 1 /\ to < end
<1>1. k \in 1 .. n /\ e \in 1 .. n /\ end \in 1 .. n + 1 /\ k < e /\ e < from /\ from <= to + 1 /\ to < end
  BY Zenon DEF Layout
<1>2. QED
  BY <1>1

LEMMA LayoutSymbols ==
  ASSUME NEW l, NEW n \in Nat, NEW key, KeySymbol(key), NEW from \in Nat, NEW to \in Nat, NEW k, NEW e, NEW end,
         Layout(l, n, key, from, to, k, e, end)
  PROVE  /\ FirstInk(l, 0, k) /\ l[e] # " " /\ (from <= to => l[to] # " ") /\ (end <= n => l[end] # " ")
         /\ Lacks(l, 0, end - 1, ";") /\ Lacks(l, 0, e - 1, "=")
         /\ Inked(l, k - 1, e - 1, k, k)
<1>1. /\ k \in Nat /\ e \in Nat /\ end \in Nat /\ 1 <= k /\ k < e /\ e <= n /\ end <= n + 1
      /\ e < from /\ from <= to + 1 /\ to < end
  BY LayoutOrder
<1>2. /\ l[k] = key /\ l[e] = "=" /\ (end <= n => l[end] = ";")
      /\ \A i \in 1 .. end - 1 : i \in {k, e} \cup (from .. to) \/ l[i] = " "
      /\ \A i \in from .. to : l[i] # ";"
      /\ from <= to => l[from] # " " /\ l[to] # " "
  BY Zenon DEF Layout
<1>3. key # " " /\ key # "=" /\ key # ";" /\ " " # "=" /\ " " # ";" /\ "=" # ";"
  BY DEF KeySymbol
<1>4. \A i \in 1 .. e - 1 : i \in 1 .. end - 1 /\ i # e /\ i \notin from .. to
  BY <1>1
<1>5. \A i \in 1 .. e - 1 : i = k \/ l[i] = " "
  BY <1>2, <1>4, Zenon
<1>6. FirstInk(l, 0, k)
  <2>1. \A i \in 0 + 1 .. k - 1 : i \in 1 .. e - 1 /\ i # k
    BY <1>1
  <2>2. QED
    BY <1>2, <1>3, <1>5, <2>1, Zenon DEF FirstInk
<1>7. \A i \in 1 .. end - 1 : l[i] # ";"
  BY <1>2, <1>3, Zenon
<1>8. \A i \in 1 .. e - 1 : l[i] # "="
  BY <1>2, <1>3, <1>5, Zenon
<1>9. Inked(l, k - 1, e - 1, k, k)
  <2>1. k \in k - 1 + 1 .. e - 1 /\ k \in k .. e - 1 /\ k \in k .. k
    BY <1>1
  <2>2. \A i \in k - 1 + 1 .. e - 1 : i \in 1 .. e - 1
    BY <1>1
  <2>3. \A i \in k - 1 + 1 .. e - 1 : i \in k .. k \/ l[i] = " "
    BY <1>5, <2>1, <2>2, Zenon
  <2>4. QED
    BY <1>2, <1>3, <2>1, <2>3, Zenon DEF Inked
<1>10. Lacks(l, 0, end - 1, ";") /\ Lacks(l, 0, e - 1, "=")
  <2>1. 0 + 1 = 1
    OBVIOUS
  <2>2. QED
    BY <1>7, <1>8, <2>1 DEF Lacks
<1>11. QED
  BY <1>2, <1>3, <1>6, <1>9, <1>10, Zenon

\* The lines of settings are taken apart at their "=".
LEMMA SettingIs ==
  ASSUME NEW l \in Seq(Symbols), NEW key, KeySymbol(key), NEW from \in Nat, NEW to \in Nat,
         SettingLineOf(l, key, from, to)
  PROVE  /\ Trim(l) # <<>> /\ ~IsHeader(Trim(l)) /\ Equals(l) # 0 /\ Named(l) = <<key>>
         /\ from # 0 /\ Part(Valued(l), l, from - 1, to)
<1>1. PICK n \in Nat : n = Len(l)
  OBVIOUS
<1>2. PICK k, e, end : Layout(l, n, key, from, to, k, e, end)
  BY <1>1, LaidOut
<1>3. /\ k \in Nat /\ e \in Nat /\ end \in Nat /\ 1 <= k /\ k < e /\ e <= n /\ end <= n + 1
      /\ e < from /\ from <= to + 1 /\ to < end
  BY <1>2, LayoutOrder
<1>4. /\ FirstInk(l, 0, k) /\ l[e] # " " /\ (from <= to => l[to] # " ") /\ (end <= n => l[end] # " ")
      /\ Lacks(l, 0, end - 1, ";") /\ Lacks(l, 0, e - 1, "=")
      /\ Inked(l, k - 1, e - 1, k, k)
  BY <1>2, LayoutSymbols
<1>5. PICK q \in k .. n : Inked(l, 0, n, k, q) /\ (\A i \in k .. n : l[i] # " " => i <= q)
  <2>1. k \in 0 + 1 .. n
    BY <1>3
  <2>2. FirstInk(l, 0, k)
    BY <1>4
  <2>3. QED
    BY <2>1, <2>2, InkedIs
<1>6. q \in Nat /\ k <= q /\ q <= n
  <2>1. q \in k .. n
    BY <1>5
  <2>2. QED
    BY <1>3, <2>1
<1>7. PICK a \in Nat : a = k - 1 /\ a + 1 = k
  <2>1. k - 1 \in Nat /\ k - 1 + 1 = k
    BY <1>3
  <2>2. QED
    BY <2>1
<1>8. PICK L : L = Trim(l)
  OBVIOUS
<1>9. Part(L, l, a, q)
  <2>1. Part(l, l, 0, n)
    BY <1>1, WholeLine
  <2>2. Part(Trim(l), l, k - 1, q)
    BY <1>3, <1>5, <1>6, <2>1, TrimPart
  <2>3. QED
    BY <1>7, <1>8, <2>2
<1>10. e <= q /\ (end <= n => end <= q) /\ (from <= to => to <= q)
  <2>1. e \in k .. n /\ (end <= n => end \in k .. n) /\ (from <= to => to \in k .. n)
    BY <1>3
  <2>2. QED
    BY <1>4, <1>5, <2>1, Zenon
<1>11. PICK m \in Nat : e <= m /\ m < end /\ m <= n /\ (from <= to => to <= m) /\ Part(Said(l), l, a, m)
  <2>1. CASE end <= n
    <3>1. end \in a + 1 .. q
      BY <1>3, <1>7, <1>10, <2>1
    <3>2. l[end] = ";"
      BY <1>2, <2>1, Zenon DEF Layout
    <3>3. end - 1 \in Nat /\ 0 <= a /\ end - 1 <= end - 1
      BY <1>3
    <3>4. Lacks(l, a, end - 1, ";")
      BY <1>4, <3>3, LacksIn
    <3>5. Find(L, <<";">>) = end - a
      <4>1. FirstAt(l, a, q, ";", end)
        BY <3>1, <3>2, <3>4, Zenon DEF FirstAt
      <4>2. QED
        <5>1. q \in Nat
          BY <1>6
        <5>2. PICK ch : ch = ";"
          OBVIOUS
        <5>3. FirstAt(l, a, q, ch, end)
          BY <4>1, <5>2, Zenon
        <5>4. Find(L, <<ch>>) = end - a
          BY <1>9, <5>1, <5>3, FindFirst
        <5>5. QED
          BY <5>2, <5>4, Zenon
    <3>6. Part(Before(L, end - a), l, a, end - 1)
      BY <1>6, <1>9, <3>1, BeforePart
    <3>7. PICK m \in Nat : m = end - 1
      BY <1>3
    <3>8. Part(Said(l), l, a, m)
      BY <1>8, <3>5, <3>6, <3>7, Zenon DEF Said
    <3>9. e <= m /\ m < end /\ m <= n /\ (from <= to => to <= m)
      BY <1>3, <1>6, <1>10, <2>1, <3>7
    <3>10. QED
      BY <3>8, <3>9
  <2>2. CASE end > n
    <3>1. end - 1 \in Nat /\ 0 <= a /\ q <= end - 1
      BY <1>3, <1>6, <2>2
    <3>2. Lacks(l, a, q, ";")
      BY <1>4, <1>6, <3>1, LacksIn
    <3>3. Find(L, <<";">>) = 0
      BY <1>6, <1>9, <3>2, FindNone
    <3>4. Part(Said(l), l, a, q)
      BY <1>8, <1>9, <3>3, NotBefore, Zenon DEF Said
    <3>5. e <= q /\ q < end /\ q <= n /\ (from <= to => to <= q)
      BY <1>3, <1>6, <1>10, <2>2
    <3>6. QED
      BY <1>6, <3>4, <3>5
  <2>3. end <= n \/ end > n
    BY <1>3
  <2>4. QED
    BY <2>1, <2>2, <2>3
<1>12. Equals(l) = e - a
  <2>1. e \in a + 1 .. m
    BY <1>3, <1>7, <1>11
  <2>2. l[e] = "="
    BY <1>2, Zenon DEF Layout
  <2>3. e - 1 \in Nat /\ 0 <= a /\ e - 1 <= e - 1
    BY <1>3
  <2>4. Lacks(l, a, e - 1, "=")
    BY <1>4, <2>3, LacksIn
  <2>5. Find(Said(l), <<"=">>) = e - a
    <3>1. FirstAt(l, a, m, "=", e)
      BY <2>1, <2>2, <2>4, Zenon DEF FirstAt
    <3>2. Part(Said(l), l, a, m)
      BY <1>11
    <3>3. QED
      BY <3>1, <3>2, FindFirst
  <2>6. QED
    BY <2>5 DEF Equals
<1>13. Equals(l) # 0
  BY <1>3, <1>7, <1>12
<1>14. Named(l) = <<key>>
  <2>1. e \in a + 1 .. m
    BY <1>3, <1>7, <1>11
  <2>2. Part(Before(Said(l), e - a), l, a, e - 1)
    BY <1>11, <2>1, BeforePart
  <2>3. PICK d \in Nat : d = e - 1
    BY <1>3
  <2>4. PICK t : t = Before(Said(l), e - a)
    OBVIOUS
  <2>5. Part(t, l, a, d)
    BY <2>2, <2>3, <2>4
  <2>6. Inked(l, a, d, k, k)
    BY <1>4, <1>7, <2>3
  <2>7. Part(Trim(t), l, k - 1, k)
    BY <1>3, <2>5, <2>6, TrimPart
  <2>8. Part(<<key>>, l, k - 1, k)
    <3>1. l[k] = key
      BY <1>2, Zenon DEF Layout
    <3>2. key \in Symbols
      <4>1. k \in 1 .. Len(l)
        BY <1>1, <1>3
      <4>2. l[k] \in Symbols
        BY <4>1
      <4>3. QED
        BY <3>1, <4>2
    <3>3. k - 1 \in Nat /\ k - 1 <= k /\ k - (k - 1) = 1 /\ k - 1 + 1 = k
      BY <1>3
    <3>4. <<key>> \in Seq(Symbols) /\ Len(<<key>>) = 1 /\ <<key>>[1] = key
      BY <3>2
    <3>5. \A i \in 1 .. 1 : i = 1
      OBVIOUS
    <3>6. \A i \in 1 .. k - (k - 1) : <<key>>[i] = l[k - 1 + i]
      BY <3>1, <3>3, <3>4, <3>5
    <3>7. QED
      BY <1>3, <3>3, <3>4, <3>6 DEF Part
  <2>9. k - 1 \in Nat
    BY <1>3
  <2>10. Trim(t) = <<key>>
    BY <1>3, <2>7, <2>8, <2>9, PartsEqual
  <2>11. QED
    BY <1>12, <2>4, <2>10, Zenon DEF Named
<1>15. from # 0 /\ Part(Valued(l), l, from - 1, to)
  <2>1. e \in a .. m
    BY <1>3, <1>7, <1>11
  <2>2. PICK t : t = After(Said(l), e - a)
    OBVIOUS
  <2>3. Part(t, l, e, m)
    BY <1>11, <2>1, <2>2, AfterPart
  <2>4. Valued(l) = Trim(t)
    BY <1>12, <2>2, Zenon DEF Valued
  <2>5. \A i \in e + 1 .. m : i \in 1 .. end - 1 /\ i # k /\ i # e
    BY <1>3, <1>11
  <2>6. \A i \in e + 1 .. m : i \in from .. to \/ l[i] = " "
    BY <1>2, <2>5, Zenon DEF Layout
  <2>7. CASE from <= to
    <3>1. from \in e + 1 .. m /\ to \in from .. m
      BY <1>3, <1>11, <2>7
    <3>2. Inked(l, e, m, from, to)
      BY <1>2, <2>6, <2>7, <3>1, Zenon DEF Inked, Layout
    <3>3. Part(Trim(t), l, from - 1, to)
      BY <1>3, <1>11, <2>3, <3>2, TrimPart
    <3>4. QED
      BY <1>3, <2>4, <3>3
  <2>8. CASE ~(from <= to)
    <3>1. \A i \in e + 1 .. m : i \notin from .. to
      BY <2>8
    <3>2. Blanks(l, e, m)
      BY <2>6, <3>1, Zenon DEF Blanks
    <3>3. Trim(t) = <<>>
      BY <1>3, <1>11, <2>3, <3>2, TrimBlank
    <3>4. from - 1 = to /\ to <= to /\ to - to = 0
      BY <1>3, <2>8
    <3>5. Part(<<>>, l, to, to)
      BY <3>4 DEF Part
    <3>6. QED
      BY <1>3, <2>4, <3>3, <3>4, <3>5
  <2>9. QED
    BY <2>7, <2>8
<1>16. L # <<>> /\ ~IsHeader(L)
  <2>1. Len(L) = q - a /\ L \in Seq(Symbols)
    BY <1>6, <1>9, PartDomain
  <2>2. L # <<>>
    BY <1>6, <1>7, <2>1
  <2>3. k \in a + 1 .. q
    BY <1>6, <1>7
  <2>4. L[k - a] = l[k] /\ k - a = 1
    <3>1. L[k - a] = l[k]
      BY <1>6, <1>9, <2>3, PartAtPlace
    <3>2. k - a = 1
      BY <1>7
    <3>3. QED
      BY <3>1, <3>2
  <2>5. l[k] # "["
    BY <1>2, Zenon DEF Layout, KeySymbol
  <2>6. QED
    BY <2>2, <2>4, <2>5 DEF IsHeader
<1>17. QED
  BY <1>8, <1>13, <1>14, <1>15, <1>16

LEMMA PartOfLine ==
  ASSUME NEW l \in Seq(Symbols), NEW from \in Nat, NEW to \in Nat, from # 0, from <= to + 1, to <= Len(l)
  PROVE  Part(SubSeq(l, from, to), l, from - 1, to) /\ SubSeq(l, from, to) \in Seq(Symbols)
<1>1. PICK n \in Nat : n = Len(l)
  OBVIOUS
<1>2. PICK p \in Nat : p = from - 1 /\ p \in 0 .. n /\ to \in p .. n /\ p - 0 + 1 = from /\ to - 0 = to
  <2>1. /\ from - 1 \in Nat /\ from - 1 \in 0 .. n /\ to \in from - 1 .. n
        /\ from - 1 - 0 + 1 = from /\ to - 0 = to
    BY <1>1
  <2>2. QED
    BY <2>1
<1>3. Part(l, l, 0, n)
  BY <1>1, WholeLine
<1>4. Part(SubSeq(l, p - 0 + 1, to - 0), l, p, to)
  BY <1>2, <1>3, PartOfPart
<1>5. Part(SubSeq(l, from, to), l, p, to)
  BY <1>2, <1>4
<1>6. QED
  BY <1>2, <1>5, PartDomain

\* The first and the last of a part
LEMMA PartEnds ==
  ASSUME NEW t, NEW l, NEW a \in Nat, NEW b \in Nat, Part(t, l, a, b), a < b
  PROVE  Len(t) = b - a /\ t # <<>> /\ t[1] = l[a + 1] /\ t[Len(t)] = l[b]
<1>1. a + 1 \in a + 1 .. b /\ b \in a + 1 .. b /\ a + 1 - a = 1
  OBVIOUS
<1>2. t[a + 1 - a] = l[a + 1] /\ t[b - a] = l[b]
  BY <1>1, PartAtPlace
<1>3. Len(t) = b - a
  BY PartDomain
<1>4. b - a # 0 /\ Len(<<>>) = 0
  OBVIOUS
<1>5. QED
  BY <1>1, <1>2, <1>3, <1>4

\* What the lines of a value on one line mean
Holds(l, key, text) ==
  /\ Trim(l) # <<>> /\ ~IsHeader(Trim(l)) /\ Equals(l) # 0 /\ Named(l) = <<key>>
  /\ Find(Valued(l), ThreeQuotes) = 0 /\ Unquoted(Valued(l)) = text /\ text \in Seq(Symbols)

LEMMA PlainIs ==
  ASSUME NEW l \in Seq(Symbols), NEW key, KeySymbol(key), NEW text, PlainLineOf(l, key, text)
  PROVE  Holds(l, key, text)
<1>1. PICK from \in 0 .. Len(l) + 1, to \in 0 .. Len(l) + 1 :
        /\ SettingLineOf(l, key, from, to) /\ NoQuotes(l, from, to)
        /\ ~(from < to /\ l[from] = Quote /\ l[to] = Quote)
        /\ text = SubSeq(l, from, to)
  BY Zenon DEF PlainLineOf
<1>2. PICK n \in Nat : n = Len(l)
  OBVIOUS
<1>3. from \in Nat /\ to \in Nat
  BY <1>2
<1>4. PICK k, e, end : Layout(l, n, key, from, to, k, e, end)
  BY <1>1, <1>2, LaidOut
<1>5. from # 0 /\ from <= to + 1 /\ to <= n
  <2>1. /\ k \in Nat /\ e \in Nat /\ end \in Nat /\ 1 <= k /\ k < e /\ e <= n /\ end <= n + 1
        /\ e < from /\ from <= to + 1 /\ to < end
    BY <1>3, <1>4, LayoutOrder
  <2>2. QED
    BY <1>3, <2>1
<1>6. PICK a \in Nat : a = from - 1 /\ a + 1 = from /\ a <= to
  <2>1. from - 1 \in Nat /\ from - 1 + 1 = from /\ from - 1 <= to
    BY <1>3, <1>5
  <2>2. QED
    BY <2>1
<1>7. /\ Trim(l) # <<>> /\ ~IsHeader(Trim(l)) /\ Equals(l) # 0 /\ Named(l) = <<key>>
      /\ Part(Valued(l), l, a, to)
  BY <1>1, <1>3, <1>6, SettingIs
<1>8. Valued(l) = text /\ text \in Seq(Symbols)
  <2>1. Part(text, l, a, to) /\ text \in Seq(Symbols)
    BY <1>1, <1>2, <1>3, <1>5, <1>6, PartOfLine
  <2>2. QED
    BY <1>3, <1>7, <2>1, PartsEqual
<1>9. Find(Valued(l), ThreeQuotes) = 0
  <2>1. \A i \in a + 1 .. to - 2 : ~QuotesAt(l, i)
    BY <1>1, <1>6 DEF NoQuotes
  <2>2. (\A i \in a + 1 .. to - 2 : ~QuotesAt(l, i)) => Find(Valued(l), ThreeQuotes) = 0
    BY <1>2, <1>3, <1>5, <1>7, FindQuotes
  <2>3. QED
    BY <2>1, <2>2
<1>10. Unquoted(Valued(l)) = Valued(l)
  <2>1. PICK v : v = Valued(l)
    OBVIOUS
  <2>2. Len(v) = to - a
    BY <1>3, <1>7, <2>1, PartDomain
  <2>3. ASSUME Len(v) >= 2, v[1] = Quote, v[Len(v)] = Quote PROVE FALSE
    <3>1. a < to /\ from < to
      BY <1>3, <1>6, <2>2, <2>3
    <3>2. v[1] = l[a + 1] /\ v[Len(v)] = l[to]
      BY <1>3, <1>7, <2>1, <3>1, PartEnds
    <3>3. QED
      BY <1>1, <1>6, <2>3, <3>1, <3>2, Zenon
  <2>4. Unquoted(v) = v
    BY <2>3, Zenon DEF Unquoted
  <2>5. QED
    BY <2>1, <2>4
<1>11. QED
  BY <1>7, <1>8, <1>9, <1>10, Zenon DEF Holds

LEMMA QuotedIs ==
  ASSUME NEW l \in Seq(Symbols), NEW key, KeySymbol(key), NEW text, QuotedLineOf(l, key, text)
  PROVE  Holds(l, key, text)
<1>1. PICK from, to :
        /\ from \in DOMAIN l /\ to \in DOMAIN l /\ from < to
        /\ SettingLineOf(l, key, from, to) /\ NoQuotes(l, from, to)
        /\ l[from] = Quote /\ l[to] = Quote
        /\ text = SubSeq(l, from + 1, to - 1)
  BY Zenon DEF QuotedLineOf
<1>2. PICK n \in Nat : n = Len(l) /\ DOMAIN l = 1 .. n
  OBVIOUS
<1>3. from \in Nat /\ to \in Nat /\ from # 0 /\ from < to /\ to <= n
  <2>1. from \in 1 .. n /\ to \in 1 .. n /\ from < to
    BY <1>1, <1>2, Zenon
  <2>2. QED
    BY <2>1
<1>4. PICK a \in Nat : a = from - 1 /\ a + 1 = from /\ a <= to /\ a < to
  <2>1. from - 1 \in Nat /\ from - 1 + 1 = from /\ from - 1 <= to /\ from - 1 < to
    BY <1>3
  <2>2. QED
    BY <2>1
<1>5. /\ Trim(l) # <<>> /\ ~IsHeader(Trim(l)) /\ Equals(l) # 0 /\ Named(l) = <<key>>
      /\ Part(Valued(l), l, a, to)
  BY <1>1, <1>3, <1>4, SettingIs
<1>6. Find(Valued(l), ThreeQuotes) = 0
  <2>1. \A i \in a + 1 .. to - 2 : ~QuotesAt(l, i)
    BY <1>1, <1>4 DEF NoQuotes
  <2>2. (\A i \in a + 1 .. to - 2 : ~QuotesAt(l, i)) => Find(Valued(l), ThreeQuotes) = 0
    BY <1>2, <1>3, <1>5, FindQuotes
  <2>3. QED
    BY <2>1, <2>2
<1>7. PICK v : v = Valued(l)
  OBVIOUS
<1>8. Len(v) = to - a /\ v[1] = Quote /\ v[Len(v)] = Quote
  <2>1. Part(v, l, a, to)
    BY <1>5, <1>7
  <2>2. Len(v) = to - a /\ v[1] = l[a + 1] /\ v[Len(v)] = l[to]
    <3>1. to \in Nat /\ a < to
      BY <1>3, <1>4, Zenon
    <3>2. QED
      BY <2>1, <3>1, PartEnds
  <2>3. QED
    BY <1>1, <1>4, <2>2, Zenon
<1>9. Len(v) >= 2
  BY <1>3, <1>4, <1>8
<1>10. Unquoted(v) = SubSeq(v, 2, Len(v) - 1)
  BY <1>8, <1>9, Zenon DEF Unquoted
<1>11. PICK c \in Nat : c = to - 1 /\ from \in a .. to /\ c \in from .. to /\ from - a + 1 = 2 /\ c - a = to - a - 1
  <2>1. /\ to - 1 \in Nat /\ from \in a .. to /\ to - 1 \in from .. to
        /\ from - a + 1 = 2 /\ to - 1 - a = to - a - 1
    BY <1>3, <1>4
  <2>2. QED
    BY <2>1
<1>12. Part(SubSeq(v, from - a + 1, c - a), l, from, c)
  BY <1>3, <1>5, <1>7, <1>11, PartOfPart
<1>13. Part(Unquoted(v), l, from, c)
  BY <1>8, <1>10, <1>11, <1>12
<1>14. Part(text, l, from, c) /\ text \in Seq(Symbols)
  <2>1. PICK d \in Nat : d = from + 1 /\ d - 1 = from /\ d # 0 /\ d <= c + 1 /\ c <= Len(l)
    <3>1. from + 1 \in Nat /\ from + 1 - 1 = from /\ from + 1 # 0 /\ from + 1 <= c + 1 /\ c <= n /\ n = Len(l)
      BY <1>2, <1>3, <1>11
    <3>2. QED
      BY <1>3, <3>1
  <2>2. Part(SubSeq(l, d, c), l, d - 1, c) /\ SubSeq(l, d, c) \in Seq(Symbols)
    BY <2>1, PartOfLine
  <2>3. QED
    BY <1>1, <1>11, <2>1, <2>2
<1>15. Unquoted(v) = text
  BY <1>3, <1>13, <1>14, PartsEqual
<1>16. QED
  BY <1>5, <1>6, <1>7, <1>14, <1>15, Zenon DEF Holds

\* What the first line of a long value means
Opens(l, key, text) ==
  /\ Trim(l) # <<>> /\ ~IsHeader(Trim(l)) /\ Equals(l) # 0 /\ Named(l) = <<key>>
  /\ Find(Valued(l), ThreeQuotes) = 1 /\ After(Valued(l), 3) = text /\ text \in Seq(Symbols)

LEMMA OpeningIs ==
  ASSUME NEW l \in Seq(Symbols), NEW key, KeySymbol(key), NEW text, OpeningLineOf(l, key, text)
  PROVE  Opens(l, key, text)
<1>1. PICK from, to :
        /\ from \in DOMAIN l /\ to \in DOMAIN l /\ from + 2 <= to
        /\ SettingLineOf(l, key, from, to) /\ QuotesAt(l, from)
        /\ text = SubSeq(l, from + 3, to)
  BY Zenon DEF OpeningLineOf
<1>2. PICK n \in Nat : n = Len(l) /\ DOMAIN l = 1 .. n
  OBVIOUS
<1>3. from \in Nat /\ to \in Nat /\ from # 0 /\ from + 2 <= to /\ to <= n
  <2>1. from \in 1 .. n /\ to \in 1 .. n /\ from + 2 <= to
    BY <1>1, <1>2, Zenon
  <2>2. QED
    BY <2>1
<1>4. PICK a \in Nat : a = from - 1 /\ a + 1 = from /\ a <= to /\ from - a = 1
  <2>1. from - 1 \in Nat /\ from - 1 + 1 = from /\ from - 1 <= to /\ from - (from - 1) = 1
    BY <1>3
  <2>2. QED
    BY <2>1
<1>5. /\ Trim(l) # <<>> /\ ~IsHeader(Trim(l)) /\ Equals(l) # 0 /\ Named(l) = <<key>>
      /\ Part(Valued(l), l, a, to)
  BY <1>1, <1>3, <1>4, SettingIs
<1>6. Find(Valued(l), ThreeQuotes) = 1
  <2>1. from \in a + 1 .. to - 2 /\ \A i \in a + 1 .. from - 1 : FALSE
    BY <1>3, <1>4
  <2>2. \A p \in a + 1 .. to - 2 :
          QuotesAt(l, p) /\ (\A i \in a + 1 .. p - 1 : ~QuotesAt(l, i)) => Find(Valued(l), ThreeQuotes) = p - a
    BY <1>2, <1>3, <1>5, FindQuotes
  <2>3. QED
    BY <1>1, <1>4, <2>1, <2>2
<1>7. PICK c \in Nat : c = from + 2 /\ c - a = 3 /\ c \in a .. to
  <2>1. from + 2 \in Nat /\ from + 2 - a = 3 /\ from + 2 \in a .. to
    BY <1>3, <1>4
  <2>2. QED
    BY <1>3, <2>1
<1>8. Part(After(Valued(l), 3), l, c, to)
  <2>1. Part(After(Valued(l), c - a), l, c, to)
    BY <1>3, <1>5, <1>7, AfterPart
  <2>2. QED
    BY <1>7, <2>1
<1>9. Part(text, l, c, to) /\ text \in Seq(Symbols)
  <2>1. PICK d \in Nat : d = from + 3 /\ d - 1 = c /\ d # 0 /\ d <= to + 1 /\ to <= Len(l)
    <3>1. from + 3 \in Nat /\ from + 3 - 1 = c /\ from + 3 # 0 /\ from + 3 <= to + 1 /\ to <= Len(l)
      BY <1>2, <1>3, <1>7
    <3>2. QED
      BY <1>3, <3>1
  <2>2. Part(SubSeq(l, d, to), l, d - 1, to) /\ SubSeq(l, d, to) \in Seq(Symbols)
    BY <1>3, <2>1, PartOfLine
  <2>3. QED
    BY <1>1, <2>1, <2>2
<1>10. After(Valued(l), 3) = text
  BY <1>3, <1>8, <1>9, PartsEqual
<1>11. QED
  BY <1>5, <1>6, <1>9, <1>10, Zenon DEF Opens

\* The blanks before and behind are trimmed.
Framed(l, from, to) == BlankBut(l, from, to) /\ l[from] # " " /\ l[to] # " "

LEMMA TrimLine ==
  ASSUME NEW l \in Seq(Symbols), NEW from \in Nat, NEW to \in Nat, from # 0, from <= to, to <= Len(l),
         Framed(l, from, to)
  PROVE  Part(Trim(l), l, from - 1, to) /\ Trim(l) = SubSeq(l, from, to)
<1>1. PICK n \in Nat : n = Len(l) /\ DOMAIN l = 1 .. n
  OBVIOUS
<1>2. (\A i \in 1 .. n : i \in from .. to \/ l[i] = " ") /\ l[from] # " " /\ l[to] # " "
  BY <1>1, Zenon DEF BlankBut, Framed
<1>3. from \in 0 + 1 .. n /\ to \in from .. n /\ 0 + 1 = 1
  BY <1>1
<1>4. Inked(l, 0, n, from, to)
  <2>1. 0 + 1 = 1
    OBVIOUS
  <2>2. QED
    BY <1>2, <1>3, <2>1, Zenon DEF Inked
<1>5. Part(l, l, 0, n)
  BY <1>1, WholeLine
<1>6. Part(Trim(l), l, from - 1, to)
  BY <1>4, <1>5, TrimPart
<1>7. Part(SubSeq(l, from, to), l, from - 1, to)
  <2>1. from <= to + 1
    OBVIOUS
  <2>2. QED
    BY <2>1, PartOfLine
<1>8. PICK p \in Nat : p = from - 1
  <2>1. from - 1 \in Nat
    OBVIOUS
  <2>2. QED
    BY <2>1
<1>9. QED
  BY <1>6, <1>7, <1>8, PartsEqual

LEMMA BlankLineIs ==
  ASSUME NEW l \in Seq(Symbols), BlankBut(l, 1, 0)
  PROVE  Trim(l) = <<>>
<1>1. PICK n \in Nat : n = Len(l) /\ DOMAIN l = 1 .. n
  OBVIOUS
<1>2. \A i \in 1 .. n : i \notin 1 .. 0
  OBVIOUS
<1>3. \A i \in 1 .. n : l[i] = " "
  BY <1>1, <1>2, Zenon DEF BlankBut
<1>4. 0 + 1 = 1
  OBVIOUS
<1>5. Blanks(l, 0, n)
  BY <1>3, <1>4 DEF Blanks
<1>6. Part(l, l, 0, n)
  BY <1>1, WholeLine
<1>7. QED
  BY <1>5, <1>6, TrimBlank

LEMMA HeaderIs ==
  ASSUME NEW l \in Seq(Symbols), NEW name, HeaderLineOf(l, name)
  PROVE  Trim(l) # <<>> /\ IsHeader(Trim(l)) /\ SubSeq(Trim(l), 2, Len(Trim(l)) - 1) = name
<1>1. PICK from, to :
        /\ from \in DOMAIN l /\ to \in DOMAIN l /\ from < to /\ BlankBut(l, from, to)
        /\ l[from] = "[" /\ l[to] = "]" /\ name = SubSeq(l, from + 1, to - 1)
  BY Zenon DEF HeaderLineOf
<1>2. from \in Nat /\ to \in Nat /\ from # 0 /\ from < to /\ from <= to /\ to <= Len(l)
  <2>1. from \in DOMAIN l /\ to \in DOMAIN l /\ from < to
    BY <1>1, Zenon
  <2>2. QED
    BY <2>1
<1>3. Framed(l, from, to)
  <2>1. "[" # " " /\ "]" # " "
    OBVIOUS
  <2>2. QED
    BY <1>1, <2>1, Zenon DEF Framed
<1>4. PICK v : v = Trim(l)
  OBVIOUS
<1>5. PICK a \in Nat : a = from - 1 /\ a + 1 = from /\ a <= to /\ a < to
  <2>1. from - 1 \in Nat /\ from - 1 + 1 = from /\ from - 1 <= to /\ from - 1 < to
    BY <1>2
  <2>2. QED
    BY <2>1
<1>6. Part(v, l, a, to)
  BY <1>2, <1>3, <1>4, <1>5, TrimLine
<1>7. Len(v) = to - a /\ v # <<>> /\ v[1] = "[" /\ v[Len(v)] = "]"
  <2>1. Len(v) = to - a /\ v # <<>> /\ v[1] = l[a + 1] /\ v[Len(v)] = l[to]
    <3>1. to \in Nat /\ a < to
      BY <1>2, <1>5, Zenon
    <3>2. QED
      BY <1>6, <3>1, PartEnds
  <2>2. QED
    BY <1>1, <1>5, <2>1
<1>8. PICK c \in Nat : c = to - 1 /\ from \in a .. to /\ c \in from .. to /\ from - a + 1 = 2 /\ c - a = to - a - 1
  <2>1. /\ to - 1 \in Nat /\ from \in a .. to /\ to - 1 \in from .. to
        /\ from - a + 1 = 2 /\ to - 1 - a = to - a - 1
    BY <1>2, <1>5
  <2>2. QED
    BY <2>1
<1>9. Part(SubSeq(v, from - a + 1, c - a), l, from, c)
  BY <1>2, <1>5, <1>6, <1>8, PartOfPart
<1>10. Part(SubSeq(v, 2, Len(v) - 1), l, from, c)
  BY <1>7, <1>8, <1>9
<1>11. Part(name, l, from, c)
  <2>1. PICK d \in Nat : d = from + 1 /\ d - 1 = from /\ d # 0 /\ d <= c + 1 /\ c <= Len(l)
    <3>1. from + 1 \in Nat /\ from + 1 - 1 = from /\ from + 1 # 0 /\ from + 1 <= c + 1 /\ c <= to
      BY <1>2, <1>8
    <3>2. Len(l) \in Nat /\ to <= Len(l)
      BY <1>2
    <3>3. c <= Len(l)
      BY <1>2, <3>1, <3>2
    <3>4. QED
      BY <1>2, <3>1, <3>3
  <2>2. Part(SubSeq(l, d, c), l, d - 1, c)
    BY <2>1, PartOfLine
  <2>3. QED
    BY <1>1, <1>8, <2>1, <2>2
<1>12. SubSeq(v, 2, Len(v) - 1) = name
  BY <1>2, <1>10, <1>11, PartsEqual
<1>13. QED
  BY <1>4, <1>7, <1>12 DEF IsHeader

LEMMA InnerIs ==
  ASSUME NEW l \in Seq(Symbols), NEW text, InnerLineOf(l, text)
  PROVE  Trim(l) = text /\ text \in Seq(Symbols) /\ (text # <<>> => Find(text, ThreeQuotes) = 0)
<1>1. CASE BlankBut(l, 1, 0) /\ text = <<>>
  BY <1>1, BlankLineIs
<1>2. CASE \E from, to \in DOMAIN l :
             /\ from <= to /\ BlankBut(l, from, to) /\ NoQuotes(l, from, to)
             /\ l[from] # " " /\ l[to] # " " /\ text = SubSeq(l, from, to)
  <2>1. PICK from, to :
          /\ from \in DOMAIN l /\ to \in DOMAIN l /\ from <= to
          /\ Framed(l, from, to) /\ NoQuotes(l, from, to) /\ text = SubSeq(l, from, to)
    BY <1>2, Zenon DEF Framed
  <2>2. from \in Nat /\ to \in Nat /\ from # 0 /\ from <= to /\ to <= Len(l)
    <3>1. from \in DOMAIN l /\ to \in DOMAIN l /\ from <= to
      BY <2>1, Zenon
    <3>2. QED
      BY <3>1
  <2>3. PICK a \in Nat : a = from - 1 /\ a + 1 = from
    <3>1. from - 1 \in Nat /\ from - 1 + 1 = from
      BY <2>2
    <3>2. QED
      BY <3>1
  <2>4. Part(Trim(l), l, a, to) /\ Trim(l) = text
    BY <2>1, <2>2, <2>3, TrimLine
  <2>5. \A i \in a + 1 .. to - 2 : ~QuotesAt(l, i)
    BY <2>1, <2>3 DEF NoQuotes
  <2>6. (\A i \in a + 1 .. to - 2 : ~QuotesAt(l, i)) => Find(Trim(l), ThreeQuotes) = 0
    BY <2>2, <2>4, FindQuotes
  <2>7. text \in Seq(Symbols)
    BY <2>2, <2>4, PartDomain
  <2>8. QED
    BY <2>4, <2>5, <2>6, <2>7
<1>3. QED
  BY <1>1, <1>2, Zenon DEF InnerLineOf

LEMMA ClosingIs ==
  ASSUME NEW l \in Seq(Symbols), NEW text, ClosingLineOf(l, text)
  PROVE  /\ Trim(l) # <<>> /\ Find(Trim(l), ThreeQuotes) # 0
         /\ Before(Trim(l), Find(Trim(l), ThreeQuotes)) = text /\ text \in Seq(Symbols)
<1>1. PICK from, close :
        /\ from \in DOMAIN l /\ close \in DOMAIN l /\ from <= close
        /\ QuotesAt(l, close) /\ (\A i \in 1 .. close - 1 : ~QuotesAt(l, i))
        /\ l[from] # " " /\ (\A i \in 1 .. from - 1 : l[i] = " ")
        /\ text = SubSeq(l, from, close - 1)
  BY Zenon DEF ClosingLineOf
<1>2. PICK n \in Nat : n = Len(l) /\ DOMAIN l = 1 .. n
  OBVIOUS
<1>3. from \in Nat /\ close \in Nat /\ from # 0 /\ from <= close /\ from \in 0 + 1 .. n
  <2>1. from \in 1 .. n /\ close \in 1 .. n /\ from <= close
    BY <1>1, <1>2, Zenon
  <2>2. QED
    BY <2>1
<1>4. close + 2 <= n /\ l[close + 2] = Quote
  <2>1. close + 2 \in close .. close + 2
    BY <1>3
  <2>2. QED
    BY <1>1, <1>2, <2>1, Zenon DEF QuotesAt
<1>5. l[close + 2] # " "
  BY <1>4 DEF Quote
<1>6. FirstInk(l, 0, from)
  <2>1. \A i \in 0 + 1 .. from - 1 : i \in 1 .. from - 1
    OBVIOUS
  <2>2. QED
    BY <1>1, <2>1, Zenon DEF FirstInk
<1>7. PICK q \in from .. n : Inked(l, 0, n, from, q) /\ (\A i \in from .. n : l[i] # " " => i <= q)
  <2>1. from \in 0 + 1 .. n
    BY <1>3
  <2>2. QED
    BY <1>6, <2>1, InkedIs
<1>8. q \in Nat /\ q <= n /\ close + 2 <= q
  <2>1. q \in from .. n
    BY <1>7
  <2>2. close + 2 \in from .. n
    BY <1>3, <1>4
  <2>3. close + 2 <= q
    BY <1>5, <1>7, <2>2, Zenon
  <2>4. QED
    BY <1>3, <2>1, <2>3
<1>9. PICK a \in Nat : a = from - 1 /\ a + 1 = from /\ a < q
  <2>1. from - 1 \in Nat /\ from - 1 + 1 = from /\ from - 1 < q
    BY <1>3, <1>8
  <2>2. QED
    BY <2>1
<1>10. PICK v : v = Trim(l)
  OBVIOUS
<1>11. Part(v, l, a, q)
  <2>1. Part(l, l, 0, n)
    BY <1>2, WholeLine
  <2>2. Part(Trim(l), l, from - 1, q)
    BY <1>3, <1>7, <1>8, <2>1, TrimPart
  <2>3. QED
    BY <1>9, <1>10, <2>2
<1>12. v # <<>>
  BY <1>8, <1>9, <1>11, PartEnds
<1>13. Find(v, ThreeQuotes) = close - a
  <2>1. close \in a + 1 .. q - 2 /\ \A i \in a + 1 .. close - 1 : i \in 1 .. close - 1
    BY <1>3, <1>8, <1>9
  <2>2. \A p \in a + 1 .. q - 2 :
          QuotesAt(l, p) /\ (\A i \in a + 1 .. p - 1 : ~QuotesAt(l, i)) => Find(v, ThreeQuotes) = p - a
    BY <1>2, <1>8, <1>11, FindQuotes
  <2>3. \A i \in a + 1 .. close - 1 : ~QuotesAt(l, i)
    BY <1>1, <2>1, Zenon
  <2>4. QED
    BY <1>1, <2>1, <2>2, <2>3, Zenon
<1>14. close - a # 0 /\ close \in a + 1 .. q
  BY <1>3, <1>8, <1>9
<1>15. PICK c \in Nat : c = close - 1
  <2>1. close - 1 \in Nat
    BY <1>3
  <2>2. QED
    BY <2>1
<1>16. Part(Before(v, close - a), l, a, c)
  BY <1>8, <1>11, <1>14, <1>15, BeforePart
<1>17. Part(text, l, a, c) /\ text \in Seq(Symbols)
  <2>1. from <= c + 1 /\ c <= Len(l)
    BY <1>2, <1>3, <1>4, <1>15
  <2>2. Part(SubSeq(l, from, c), l, from - 1, c) /\ SubSeq(l, from, c) \in Seq(Symbols)
    BY <1>3, <2>1, PartOfLine
  <2>3. QED
    BY <1>1, <1>9, <1>15, <2>2
<1>18. Before(v, close - a) = text
  BY <1>16, <1>17, PartsEqual
<1>19. QED
  BY <1>10, <1>12, <1>13, <1>14, <1>17, <1>18

LEMMA RemarkIs ==
  ASSUME NEW l \in Seq(Symbols), RemarkLineOf(l)
  PROVE  Trim(l) = <<>> \/ (~IsHeader(Trim(l)) /\ Equals(l) = 0)
<1>1. CASE BlankBut(l, 1, 0)
  BY <1>1, BlankLineIs
<1>2. CASE \E first \in DOMAIN l, end \in 1 .. Len(l) + 1 :
             /\ l[first] \notin {" ", "["} /\ (\A i \in 1 .. first - 1 : l[i] = " ")
             /\ (end <= Len(l) => l[end] = ";") /\ \A i \in 1 .. end - 1 : l[i] \notin {"=", ";"}
  <2>1. PICK n \in Nat : n = Len(l) /\ DOMAIN l = 1 .. n
    OBVIOUS
  <2>2. PICK first, end :
             /\ first \in 1 .. n /\ end \in 1 .. n + 1
             /\ l[first] \notin {" ", "["} /\ (\A i \in 1 .. first - 1 : l[i] = " ")
             /\ (end <= n => l[end] = ";") /\ \A i \in 1 .. end - 1 : l[i] \notin {"=", ";"}
    BY <1>2, <2>1, Zenon
  <2>3. first \in Nat /\ end \in Nat /\ first # 0 /\ first <= n /\ end # 0 /\ end <= n + 1
    <3>1. first \in 1 .. n /\ end \in 1 .. n + 1
      BY <2>2, Zenon
    <3>2. QED
      BY <3>1
  <2>4. FirstInk(l, 0, first)
    <3>1. \A i \in 0 + 1 .. first - 1 : i \in 1 .. first - 1
      OBVIOUS
    <3>2. l[first] # " " /\ \A i \in 1 .. first - 1 : l[i] = " "
      BY <2>2, Zenon
    <3>3. QED
      BY <3>1, <3>2, Zenon DEF FirstInk
  <2>5. PICK q \in first .. n : Inked(l, 0, n, first, q) /\ (\A i \in first .. n : l[i] # " " => i <= q)
    <3>1. first \in 0 + 1 .. n
      BY <2>3
    <3>2. QED
      BY <2>4, <3>1, InkedIs
  <2>6. q \in Nat /\ q <= n /\ first <= q
    <3>1. q \in first .. n
      BY <2>5
    <3>2. QED
      BY <2>3, <3>1
  <2>7. PICK a \in Nat : a = first - 1 /\ a + 1 = first /\ a < q
    <3>1. first - 1 \in Nat /\ first - 1 + 1 = first /\ first - 1 < q
      BY <2>3, <2>6
    <3>2. QED
      BY <3>1
  <2>8. PICK v : v = Trim(l)
    OBVIOUS
  <2>9. Part(v, l, a, q)
    <3>1. Part(l, l, 0, n)
      BY <2>1, WholeLine
    <3>2. Part(Trim(l), l, first - 1, q)
      BY <2>3, <2>5, <2>6, <3>1, TrimPart
    <3>3. QED
      BY <2>7, <2>8, <3>2
  <2>10. ~IsHeader(v)
    <3>1. v[1] = l[a + 1]
      BY <2>6, <2>7, <2>9, PartEnds
    <3>2. v[1] # "["
      BY <2>2, <2>7, <3>1
    <3>3. QED
      BY <3>2 DEF IsHeader
  <2>11. PICK e \in Nat : e = end - 1
    <3>1. end - 1 \in Nat
      BY <2>3
    <3>2. QED
      BY <3>1
  <2>12. Lacks(l, 0, e, "=") /\ Lacks(l, 0, e, ";")
    <3>1. 0 + 1 = 1
      OBVIOUS
    <3>2. QED
      BY <2>2, <2>11, <3>1 DEF Lacks
  <2>13. PICK m \in Nat : a <= m /\ m <= e /\ Part(Said(l), l, a, m)
    <3>1. CASE end <= n
      <4>1. l[end] = ";" /\ l[end] # " "
        BY <2>2, <3>1
      <4>2. first <= end
        <5>1. ~(end \in 1 .. first - 1)
          BY <2>2, <4>1, Zenon
        <5>2. QED
          BY <2>3, <5>1
      <4>3. end <= q
        <5>1. end \in first .. n
          BY <2>3, <3>1, <4>2
        <5>2. QED
          BY <2>5, <4>1, <5>1, Zenon
      <4>4. end \in a + 1 .. q /\ 0 <= a /\ e <= e /\ a <= e
        BY <2>3, <2>6, <2>7, <2>11, <4>2, <4>3
      <4>5. Lacks(l, a, e, ";")
        BY <2>12, <4>4, LacksIn
      <4>6. Find(v, <<";">>) = end - a
        <5>1. e = end - 1
          BY <2>11
        <5>2. FirstAt(l, a, q, ";", end)
          BY <4>1, <4>4, <4>5, <5>1, Zenon DEF FirstAt
        <5>3. QED
          <6>1. q \in Nat
            BY <2>6
          <6>2. PICK ch : ch = ";"
            OBVIOUS
          <6>3. FirstAt(l, a, q, ch, end)
            BY <5>2, <6>2, Zenon
          <6>4. Find(v, <<ch>>) = end - a
            BY <2>9, <6>1, <6>3, FindFirst
          <6>5. QED
            BY <6>2, <6>4, Zenon
      <4>7. Part(Before(v, end - a), l, a, e)
        BY <2>6, <2>9, <2>11, <4>4, BeforePart
      <4>8. Part(Said(l), l, a, e)
        BY <2>8, <4>6, <4>7, Zenon DEF Said
      <4>9. QED
        BY <4>4, <4>8
    <3>2. CASE end > n
      <4>1. 0 <= a /\ q <= e /\ a <= q
        BY <2>3, <2>6, <2>7, <2>11, <3>2
      <4>2. Lacks(l, a, q, ";")
        BY <2>6, <2>12, <4>1, LacksIn
      <4>3. Find(v, <<";">>) = 0
        BY <2>6, <2>9, <4>2, FindNone
      <4>4. Part(Said(l), l, a, q)
        BY <2>8, <2>9, <4>3, NotBefore, Zenon DEF Said
      <4>5. QED
        BY <2>6, <4>1, <4>4
    <3>3. end <= n \/ end > n
      BY <2>3
    <3>4. QED
      BY <3>1, <3>2, <3>3
  <2>14. Lacks(l, a, m, "=")
    <3>1. 0 <= a /\ m <= e
      BY <2>13
    <3>2. QED
      BY <2>12, <2>13, <3>1, LacksIn
  <2>15. Equals(l) = 0
    BY <2>13, <2>14, FindNone DEF Equals
  <2>16. QED
    BY <2>8, <2>10, <2>15
<1>3. QED
  BY <1>1, <1>2, Zenon DEF RemarkLineOf

-----------------------------------------------------------------------------
(* What is in the entries *)

\* That the functions G[1], ..., G[n] of a set to itself can be iterated
Iterable(S, n, base, G) ==
  \E f \in [0 .. n -> S] : f[0] = base /\ \A i \in 1 .. n : f[i] = G[i][f[i - 1]]

LEMMA Iterated ==
  ASSUME NEW S, NEW n \in Nat, NEW base \in S, NEW G \in [1 .. n -> [S -> S]]
  PROVE  Iterable(S, n, base, G)
<1> DEFINE Begun(m, f) == f[0] = base /\ \A i \in 1 .. m : f[i] = G[i][f[i - 1]]
           Bad == {m \in 0 .. n : ~ \E f \in [0 .. m -> S] : Begun(m, f)}
<1>1. Bad = {}
  <2> SUFFICES ASSUME Bad # {} PROVE FALSE
    OBVIOUS
  <2>1. Bad \in SUBSET Nat
    OBVIOUS
  <2>2. PICK m \in Bad : \A k \in Bad : m <= k
    BY <2>1, LeastPosition
  <2>3. m # 0
    <3>1. [k \in 0 .. 0 |-> base] \in [0 .. 0 -> S] /\ Begun(0, [k \in 0 .. 0 |-> base])
      OBVIOUS
    <3>2. QED
      BY <3>1
  <2>4. m - 1 \in 0 .. n /\ m - 1 \notin Bad
    <3>1. m \in 1 .. n
      BY <2>2, <2>3
    <3>2. m - 1 \in 0 .. n /\ ~ (m <= m - 1)
      BY <3>1
    <3> HIDE DEF Bad
    <3>3. QED
      BY <2>2, <3>2
  <2>5. PICK f \in [0 .. m - 1 -> S] : Begun(m - 1, f)
    BY <2>4
  <2> DEFINE g == [k \in 0 .. m |-> IF k = m THEN G[m][f[m - 1]] ELSE f[k]]
  <2>6. G[m][f[m - 1]] \in S
    BY <2>3
  <2>7. g \in [0 .. m -> S]
    BY <2>6
  <2>8. Begun(m, g)
    <3>1. g[0] = base
      BY <2>3, <2>5
    <3>2. ASSUME NEW i \in 1 .. m PROVE g[i] = G[i][g[i - 1]]
      <4>1. g[i - 1] = f[i - 1]
        BY <2>3
      <4>2. CASE i = m
        BY <4>1, <4>2
      <4>3. CASE i # m
        BY <4>1, <4>3, <2>5
      <4>4. QED
        BY <4>2, <4>3
    <3>3. QED
      BY <3>1, <3>2
  <2>9. QED
    BY <2>7, <2>8, <2>2
<1>2. n \notin Bad
  BY <1>1
<1>3. QED
  BY <1>2 DEF Iterable

\* The text of a setting grows with its lines.
LEMMA TextGrows ==
  ASSUME NEW entry, entry.texts \in Seq(Seq(Symbols)), NEW k \in 1 .. Len(entry.texts)
  PROVE  /\ k > 1 => TextOf(entry, k) = IF k < Len(entry.texts) /\ entry.texts[k] = <<>> THEN TextOf(entry, k - 1)
                                        ELSE WithLine(TextOf(entry, k - 1), entry.texts[k])
         /\ k = 1 => TextOf(entry, k) = entry.texts[1]
<1>0. PICK texts : texts = entry.texts
  OBVIOUS
<1>1. PICK n \in Nat : texts = entry.texts /\ n = Len(texts) /\ texts \in Seq(Seq(Symbols)) /\ k \in 1 .. n
  <2>1. Len(entry.texts) \in Nat
    OBVIOUS
  <2>2. QED
    BY <1>0, <2>1, Zenon
<1>2. PICK S : S = Seq(Symbols \cup {NewLine})
  OBVIOUS
<1> DEFINE Grown(s, j) == IF j < n /\ texts[j] = <<>> THEN s ELSE WithLine(s, texts[j])
           G == [j \in 1 .. n |-> [s \in S |-> Grown(s, j)]]
           Table(T) == [j \in 0 .. n |-> IF j = 0 THEN <<>>
                                         ELSE IF j < n /\ texts[j] = <<>> THEN T[j - 1]
                                         ELSE WithLine(T[j - 1], texts[j])]
<1>3. ASSUME NEW s \in S, NEW j \in 1 .. n PROVE Grown(s, j) \in S
  <2>1. texts[j] \in S
    <3>1. texts[j] \in Seq(Symbols)
      BY <1>1
    <3>2. QED
      BY <1>2, <3>1
  <2>2. WithLine(s, texts[j]) \in S
    <3>1. Append(s, NewLine) \in S
      BY <1>2
    <3>2. Append(s, NewLine) \o texts[j] \in S
      BY <1>2, <2>1, <3>1
    <3>3. QED
      BY <2>1, <3>2, Zenon DEF WithLine
  <2>3. QED
    BY <2>2, Zenon
<1>4. G \in [1 .. n -> [S -> S]]
  <2> HIDE DEF Grown
  <2>1. QED
    BY <1>3
<1>5. PICK f \in [0 .. n -> S] : f[0] = <<>> /\ \A j \in 1 .. n : f[j] = G[j][f[j - 1]]
  <2>1. <<>> \in S
    BY <1>2
  <2> HIDE DEF G
  <2>2. Iterable(S, n, <<>>, G)
    BY <1>4, <2>1, Iterated
  <2>3. QED
    BY <2>2, Zenon DEF Iterable
<1>6. \A j \in 1 .. n : f[j] = Grown(f[j - 1], j)
  <2>1. \A j \in 1 .. n : j - 1 \in 0 .. n
    OBVIOUS
  <2>2. \A j \in 1 .. n : f[j - 1] \in S
    BY <2>1
  <2> HIDE DEF Grown
  <2>3. QED
    BY <1>5, <2>2
<1>7. f = Table(f)
  <2>1. f = [j \in 0 .. n |-> f[j]]
    OBVIOUS
  <2>2. ASSUME NEW j \in 0 .. n
        PROVE  f[j] = IF j = 0 THEN <<>> ELSE IF j < n /\ texts[j] = <<>> THEN f[j - 1] ELSE WithLine(f[j - 1], texts[j])
    <3>1. j = 0 \/ (j \in 1 .. n /\ j # 0)
      OBVIOUS
    <3>2. CASE j = 0
      BY <1>5, <3>2, Zenon
    <3>3. CASE j \in 1 .. n /\ j # 0
      BY <1>6, <3>3, Zenon
    <3>4. QED
      BY <3>1, <3>2, <3>3
  <2>3. QED
    BY <2>1, <2>2, Zenon
<1>8. PICK h : h = CHOOSE T : T = Table(T)
  OBVIOUS
<1>9. h = Table(h)
  <2> HIDE DEF Table
  <2>1. QED
    BY <1>7, <1>8, Zenon
<1>10. \A j \in 0 .. n :
         h[j] = IF j = 0 THEN <<>> ELSE IF j < n /\ texts[j] = <<>> THEN h[j - 1] ELSE WithLine(h[j - 1], texts[j])
  BY <1>9, Zenon
<1>11. \A j : TextOf(entry, j) = h[j]
  BY <1>1, <1>8, Zenon DEF TextOf
<1>12. CASE k > 1
  <2>1. k \in 0 .. n /\ k # 0 /\ k # 1
    BY <1>1, <1>12
  <2>2. h[k] = IF k < n /\ texts[k] = <<>> THEN h[k - 1] ELSE WithLine(h[k - 1], texts[k])
    BY <1>10, <2>1, Zenon
  <2>3. QED
    BY <1>1, <1>11, <2>1, <2>2, Zenon
<1>13. CASE k = 1
  <2>1. 1 \in 0 .. n /\ 1 # 0 /\ 0 \in 0 .. n /\ 1 - 1 = 0
    BY <1>1, <1>13
  <2>2. h[0] = <<>>
    BY <1>10, <2>1, Zenon
  <2>3. h[1] = IF 1 < n /\ texts[1] = <<>> THEN h[0] ELSE WithLine(h[0], texts[1])
    BY <1>10, <2>1, Zenon
  <2>4. h[1] = texts[1]
    BY <2>2, <2>3, Zenon DEF WithLine
  <2>5. ~(k > 1)
    BY <1>13
  <2>6. QED
    BY <1>1, <1>11, <1>13, <2>4, <2>5, Zenon
<1>14. QED
  <2>1. k > 1 \/ k = 1
    BY <1>1
  <2>2. QED
    BY <1>12, <1>13, <2>1

-----------------------------------------------------------------------------
(* Entries and the lines they are *)

LEMMA EndsGrow ==
  ASSUME NEW file, NEW es, NEW ends, WrittenAs(file, es, ends)
  PROVE  /\ Len(es) \in Nat /\ ends[0] = 0 /\ ends[Len(es)] = Len(file)
         /\ \A i \in 0 .. Len(es) : ends[i] \in Nat /\ ends[i] <= ends[Len(es)]
         /\ \A i \in 1 .. Len(es) : /\ i \in DOMAIN es /\ EntryOK(es[i]) /\ Len(es[i].lines) \in Nat
                                    /\ ends[i] = ends[i - 1] + Len(es[i].lines)
<1>1. PICK n \in Nat : n = Len(es) /\ DOMAIN es = 1 .. n
  BY DEF WrittenAs
<1>2. /\ ends[0] = 0 /\ ends[n] = Len(file)
      /\ \A i \in 1 .. n : EntryOK(es[i]) /\ ends[i] = ends[i - 1] + Len(es[i].lines)
  BY <1>1, Zenon DEF WrittenAs
<1>3. \A i \in 1 .. n : Len(es[i].lines) \in Nat
  <2>1. \A i \in 1 .. n : es[i].lines \in Seq(Seq(Symbols))
    BY <1>2, Zenon DEF EntryOK
  <2>2. QED
    BY <2>1
<1>4. \A i \in 0 .. n : ends[i] \in Nat
  <2>1. PICK Bad : Bad = {i \in 0 .. n : ends[i] \notin Nat}
    OBVIOUS
  <2>2. ASSUME Bad # {} PROVE FALSE
    <3>1. Bad \in SUBSET Nat
      BY <2>1
    <3>2. PICK m \in Bad : \A k \in Bad : m <= k
      BY <2>2, <3>1, LeastPosition
    <3>3. m \in 0 .. n /\ ends[m] \notin Nat
      BY <2>1
    <3>4. m # 0
      BY <1>2, <3>3
    <3>5. m \in 1 .. n /\ m - 1 \in 0 .. n /\ ~(m <= m - 1)
      BY <3>3, <3>4
    <3>6. ends[m - 1] \in Nat
      BY <2>1, <3>2, <3>5
    <3>7. PICK x \in Nat, y \in Nat : x = ends[m - 1] /\ y = Len(es[m].lines)
      BY <1>3, <3>5, <3>6
    <3>8. ends[m] = x + y
      BY <1>2, <3>5, <3>7
    <3>9. QED
      BY <3>3, <3>8
  <2>3. QED
    BY <2>1, <2>2
<1>5. \A i \in 0 .. n : ends[i] <= ends[n]
  <2>1. PICK Bad : Bad = {i \in 0 .. n : ~(ends[i] <= ends[n])}
    OBVIOUS
  <2>2. ASSUME Bad # {} PROVE FALSE
    <3>1. Bad \in SUBSET (0 .. n)
      BY <2>1
    <3>2. PICK m \in Bad : \A k \in Bad : k <= m
      BY <2>2, <3>1, GreatestPosition
    <3>3. m \in 0 .. n /\ ~(ends[m] <= ends[n])
      BY <2>1
    <3>4. n \in 0 .. n /\ m \in 0 .. n
      BY <3>3
    <3>5. m # n
      <4>1. ends[n] \in Nat
        BY <1>4, <3>4
      <4>2. ends[n] <= ends[n]
        BY <4>1
      <4>3. QED
        BY <3>3, <4>2
    <3>6. PICK k \in Nat : k = m + 1 /\ k \in 1 .. n /\ k \in 0 .. n /\ k - 1 = m /\ ~(k <= m)
      <4>1. m + 1 \in Nat /\ m + 1 \in 1 .. n /\ m + 1 \in 0 .. n /\ m + 1 - 1 = m /\ ~(m + 1 <= m)
        BY <3>4, <3>5
      <4>2. QED
        BY <3>4, <4>1
    <3>7. ends[k] <= ends[n]
      BY <2>1, <3>2, <3>6
    <3>8. PICK x \in Nat, y \in Nat, z \in Nat : x = ends[m] /\ y = Len(es[k].lines) /\ z = ends[n]
      BY <1>3, <1>4, <3>3, <3>4, <3>6
    <3>9. x + y <= z /\ ~(x <= z)
      BY <1>2, <3>3, <3>6, <3>7, <3>8
    <3>10. QED
      BY <3>9
  <2>3. QED
    BY <2>1, <2>2
<1>6. QED
  BY <1>1, <1>2, <1>3, <1>4, <1>5

\* What an entry is, by its kind
LEMMA EntryIs ==
  ASSUME NEW entry, EntryOK(entry)
  PROVE  /\ entry.lines \in Seq(Seq(Symbols)) /\ Len(entry.lines) \in Nat \ {0}
         /\ \A k \in 1 .. Len(entry.lines) : entry.lines[k] \in Seq(Symbols)
         /\ entry.kind = "header" => Len(entry.lines) = 1 /\ HeaderLineOf(entry.lines[1], entry.name)
         /\ entry.kind \in Settings =>
              KeySymbol(entry.key) /\ entry.texts \in Seq(Seq(Symbols)) /\ Len(entry.texts) = Len(entry.lines)
         /\ entry.kind \in {"plain", "quoted"} =>
              Len(entry.lines) = 1 /\ Holds(entry.lines[1], entry.key, entry.texts[1])
         /\ entry.kind = "long" =>
              /\ Len(entry.lines) > 1 /\ Opens(entry.lines[1], entry.key, entry.texts[1])
              /\ \A k \in 2 .. Len(entry.lines) - 1 : InnerLineOf(entry.lines[k], entry.texts[k])
              /\ ClosingLineOf(entry.lines[Len(entry.lines)], entry.texts[Len(entry.lines)])
         /\ entry.kind \notin Settings \cup {"header"} =>
              \A k \in 1 .. Len(entry.lines) : RemarkLineOf(entry.lines[k])
<1>1. PICK ls, n : ls = entry.lines /\ n = Len(ls)
  OBVIOUS
<1>2. ls \in Seq(Seq(Symbols)) /\ n > 0
  BY <1>1, Zenon DEF EntryOK
<1>3. n \in Nat \ {0} /\ \A k \in 1 .. n : ls[k] \in Seq(Symbols)
  BY <1>1, <1>2
<1>4. 1 \in 1 .. n
  BY <1>3
<1>5. entry.kind \in Settings => KeySymbol(entry.key) /\ entry.texts \in Seq(Seq(Symbols)) /\ Len(entry.texts) = n
  BY <1>1, Zenon DEF EntryOK, KeySymbol
<1>6. ASSUME entry.kind = "plain" PROVE n = 1 /\ Holds(ls[1], entry.key, entry.texts[1])
  <2>1. n = 1 /\ PlainLineOf(ls[1], entry.key, entry.texts[1])
    BY <1>1, <1>6, Zenon DEF EntryOK
  <2>2. entry.kind \in Settings
    BY <1>6 DEF Settings
  <2>3. QED
    BY <1>3, <1>4, <1>5, <2>1, <2>2, PlainIs
<1>7. ASSUME entry.kind = "quoted" PROVE n = 1 /\ Holds(ls[1], entry.key, entry.texts[1])
  <2>1. n = 1 /\ QuotedLineOf(ls[1], entry.key, entry.texts[1])
    BY <1>1, <1>7, Zenon DEF EntryOK
  <2>2. entry.kind \in Settings
    BY <1>7 DEF Settings
  <2>3. QED
    BY <1>3, <1>4, <1>5, <2>1, <2>2, QuotedIs
<1>8. ASSUME entry.kind = "long"
      PROVE  /\ n > 1 /\ Opens(ls[1], entry.key, entry.texts[1])
             /\ \A k \in 2 .. n - 1 : InnerLineOf(ls[k], entry.texts[k])
             /\ ClosingLineOf(ls[n], entry.texts[n])
  <2>1. /\ n > 1 /\ OpeningLineOf(ls[1], entry.key, entry.texts[1])
        /\ \A k \in 2 .. n - 1 : InnerLineOf(ls[k], entry.texts[k])
        /\ ClosingLineOf(ls[n], entry.texts[n])
    BY <1>1, <1>8, Zenon DEF EntryOK
  <2>2. entry.kind \in Settings
    BY <1>8 DEF Settings
  <2>3. Opens(ls[1], entry.key, entry.texts[1])
    BY <1>3, <1>4, <1>5, <2>1, <2>2, OpeningIs
  <2>4. QED
    BY <2>1, <2>3
<1>9. entry.kind = "header" => n = 1 /\ HeaderLineOf(ls[1], entry.name)
  BY <1>1, Zenon DEF EntryOK
<1>10. entry.kind \notin Settings \cup {"header"} => \A k \in 1 .. n : RemarkLineOf(ls[k])
  BY <1>1, Zenon DEF EntryOK
<1>11. entry.kind \in {"plain", "quoted"} => n = 1 /\ Holds(ls[1], entry.key, entry.texts[1])
  BY <1>6, <1>7, Zenon
<1>12. QED
  BY <1>1, <1>2, <1>3, <1>5, <1>8, <1>9, <1>10, <1>11, Zenon

\* What the settings of the first m entries are, up to the k-th line of the m-th
LastOf(es, m, j) == \A i \in SettingsIn(es, m) : KeyOf(es, i) = KeyOf(es, j) => i <= j
DataIs(es, m, k, d) ==
  /\ DOMAIN d = {KeyOf(es, j) : j \in SettingsIn(es, m)}
  /\ \A j \in SettingsIn(es, m) :
       LastOf(es, m, j) => d[KeyOf(es, j)] = TextOf(es[j], IF j = m THEN k ELSE Len(es[j].texts))
Complete(es, m, k) == m = 0 \/ k = Len(es[m].lines)

LEMMA SettingsNext ==
  ASSUME NEW es, NEW m \in Nat, NEW n \in Nat, n = m + 1
  PROVE  /\ es[n].kind \in Settings => SettingsIn(es, n) = SettingsIn(es, m) \cup {n}
         /\ es[n].kind \notin Settings => SettingsIn(es, n) = SettingsIn(es, m)
         /\ SettingsIn(es, m) \subseteq 1 .. m /\ \A j \in SettingsIn(es, m) : j \in Nat /\ j <= m /\ j # 0 /\ j # n
<1>1. 1 .. n = (1 .. m) \cup {n}
  OBVIOUS
<1>2. SettingsIn(es, m) = {i \in 1 .. m : es[i].kind \in Settings}
  BY DEF SettingsIn
<1>3. SettingsIn(es, n) = {i \in 1 .. n : es[i].kind \in Settings}
  BY DEF SettingsIn
<1>4. SettingsIn(es, m) \subseteq 1 .. m
  BY <1>2
<1>5. \A j \in 1 .. m : j \in Nat /\ j <= m /\ j # 0 /\ j # n
  OBVIOUS
<1>6. QED
  BY <1>1, <1>2, <1>3, <1>4, <1>5, Zenon

LEMMA HeaderNext ==
  ASSUME NEW es, NEW m \in Nat, NEW n \in Nat, n = m + 1
  PROVE  /\ es[n].kind = "header" => HeaderOf(es, n) = es[n].name
         /\ es[n].kind # "header" => HeaderOf(es, n) = HeaderOf(es, m)
<1>1. 1 .. n = (1 .. m) \cup {n} /\ n \in 1 .. n
  OBVIOUS
<1>2. PICK H : H = {h \in 1 .. n : es[h].kind = "header"}
  OBVIOUS
<1>3. PICK G : G = {h \in 1 .. m : es[h].kind = "header"}
  OBVIOUS
<1>4. HeaderOf(es, n) = IF H = {} THEN <<>> ELSE es[Max(H)].name
  BY <1>2, Zenon DEF HeaderOf
<1>5. HeaderOf(es, m) = IF G = {} THEN <<>> ELSE es[Max(G)].name
  BY <1>3, Zenon DEF HeaderOf
<1>6. CASE es[n].kind = "header"
  <2>1. n \in H
    BY <1>1, <1>2, <1>6
  <2>2. H \in SUBSET Int /\ \A h \in H : n >= h
    BY <1>2
  <2>3. Max(H) = n
    BY <2>1, <2>2, GreatestIs
  <2>4. QED
    BY <1>4, <1>6, <2>1, <2>3, Zenon
<1>7. CASE es[n].kind # "header"
  <2>1. H = G
    BY <1>1, <1>2, <1>3, <1>7, Zenon
  <2>2. QED
    BY <1>4, <1>5, <1>7, <2>1, Zenon
<1>8. QED
  BY <1>6, <1>7

LEMMA SumsMeet ==
  ASSUME NEW x \in Nat, NEW k \in Nat
  PROVE  x + k + 1 = x + (k + 1) /\ x + k + 1 + 1 = x + (k + 1) + 1
OBVIOUS

LEMMA SumPasses ==
  ASSUME NEW x \in Nat, NEW y \in Nat, NEW z \in Nat, y # 0, x + y <= z
  PROVE  x < z
OBVIOUS

LEMMA DataSame ==
  ASSUME NEW es, NEW m \in Nat, NEW n \in Nat, n = m + 1, NEW k, NEW d,
         DataIs(es, m, k, d), Complete(es, m, k), es[n].kind \notin Settings,
         m # 0 => (es[m].kind \in Settings => Len(es[m].texts) = Len(es[m].lines))
  PROVE  DataIs(es, n, 1, d)
<1>1. /\ SettingsIn(es, n) = SettingsIn(es, m)
      /\ \A j \in SettingsIn(es, m) : j \in Nat /\ j <= m /\ j # 0 /\ j # n
  BY SettingsNext
<1>2. \A j : LastOf(es, n, j) <=> LastOf(es, m, j)
  BY <1>1, Zenon DEF LastOf
<1>3. /\ DOMAIN d = {KeyOf(es, j) : j \in SettingsIn(es, m)}
      /\ \A j \in SettingsIn(es, m) :
           LastOf(es, m, j) => d[KeyOf(es, j)] = TextOf(es[j], IF j = m THEN k ELSE Len(es[j].texts))
  BY Zenon DEF DataIs
<1>4. \A j \in SettingsIn(es, m) : es[j].kind \in Settings
  BY Zenon DEF SettingsIn
<1>5. \A j \in SettingsIn(es, m) : (IF j = m THEN k ELSE Len(es[j].texts)) = Len(es[j].texts)
  BY <1>1, <1>4, Zenon DEF Complete
<1>6. \A j \in SettingsIn(es, m) : (IF j = n THEN 1 ELSE Len(es[j].texts)) = Len(es[j].texts)
  BY <1>1, Zenon
<1>7. \A j \in SettingsIn(es, n) :
        LastOf(es, n, j) => d[KeyOf(es, j)] = TextOf(es[j], IF j = n THEN 1 ELSE Len(es[j].texts))
  BY <1>1, <1>2, <1>3, <1>5, <1>6, Zenon
<1>8. DOMAIN d = {KeyOf(es, j) : j \in SettingsIn(es, n)}
  BY <1>1, <1>3, Zenon
<1>9. QED
  BY <1>7, <1>8, Zenon DEF DataIs

\* d with one more setting of that name and text
Added(d, key, text) == [x \in DOMAIN d \cup {key} |-> IF x # key THEN d[x] ELSE text]

\* Where the settings of m entries are complete, the first line of the next one adds its text
AddsTo(es, m, n) ==
  \A k, d : DataIs(es, m, k, d) /\ Complete(es, m, k) => DataIs(es, n, 1, Added(d, KeyOf(es, n), TextOf(es[n], 1)))

LEMMA DataAdded ==
  ASSUME NEW es, NEW m \in Nat, NEW n \in Nat, n = m + 1, NEW k, NEW d,
         DataIs(es, m, k, d), Complete(es, m, k), es[n].kind \in Settings,
         m # 0 => (es[m].kind \in Settings => Len(es[m].texts) = Len(es[m].lines)),
         NEW key, key = KeyOf(es, n), NEW text, text = TextOf(es[n], 1)
  PROVE  DataIs(es, n, 1, Added(d, key, text))
<1>1. /\ SettingsIn(es, n) = SettingsIn(es, m) \cup {n}
      /\ \A j \in SettingsIn(es, m) : j \in Nat /\ j <= m /\ j # 0 /\ j # n
  BY SettingsNext
<1>2. /\ DOMAIN d = {KeyOf(es, j) : j \in SettingsIn(es, m)}
      /\ \A j \in SettingsIn(es, m) :
           LastOf(es, m, j) => d[KeyOf(es, j)] = TextOf(es[j], IF j = m THEN k ELSE Len(es[j].texts))
  BY Zenon DEF DataIs
<1>3. PICK e : e = Added(d, key, text)
  OBVIOUS
<1>4. DOMAIN e = DOMAIN d \cup {key} /\ \A x \in DOMAIN e : e[x] = IF x # key THEN d[x] ELSE text
  BY <1>3, Zenon DEF Added
<1>5. DOMAIN e = {KeyOf(es, j) : j \in SettingsIn(es, n)}
  BY <1>1, <1>2, <1>4, Zenon
<1>6. \A j \in SettingsIn(es, m) : es[j].kind \in Settings
  BY Zenon DEF SettingsIn
<1>7. \A j \in SettingsIn(es, m) : (IF j = m THEN k ELSE Len(es[j].texts)) = Len(es[j].texts)
  BY <1>1, <1>6, Zenon DEF Complete
<1>8. ASSUME NEW j \in SettingsIn(es, n), LastOf(es, n, j)
      PROVE  e[KeyOf(es, j)] = TextOf(es[j], IF j = n THEN 1 ELSE Len(es[j].texts))
  <2>1. KeyOf(es, j) \in DOMAIN e
    BY <1>5, Zenon
  <2>2. CASE j = n
    BY <1>4, <2>1, <2>2, Zenon
  <2>3. CASE j # n
    <3>1. j \in SettingsIn(es, m)
      BY <1>1, <2>3, Zenon
    <3>2. KeyOf(es, j) # key
      <4>1. j <= m /\ j \in Nat
        BY <1>1, <3>1, Zenon
      <4>2. ~(n <= j)
        BY <4>1
      <4>3. n \in SettingsIn(es, n)
        BY <1>1, Zenon
      <4>4. KeyOf(es, n) # KeyOf(es, j)
        BY <1>8, <4>2, <4>3, Zenon DEF LastOf
      <4>5. QED
        BY <4>4, Zenon
    <3>3. LastOf(es, m, j)
      BY <1>1, <1>8, Zenon DEF LastOf
    <3>4. d[KeyOf(es, j)] = TextOf(es[j], Len(es[j].texts))
      BY <1>2, <1>7, <3>1, <3>3, Zenon
    <3>5. QED
      BY <1>4, <2>1, <2>3, <3>2, <3>4, Zenon
  <2>4. QED
    BY <2>2, <2>3
<1>9. DataIs(es, n, 1, e)
  BY <1>5, <1>8, Zenon DEF DataIs
<1>10. QED
  BY <1>3, <1>9, Zenon

LEMMA DataAdds ==
  ASSUME NEW es, NEW m \in Nat, NEW n \in Nat, n = m + 1, es[n].kind \in Settings,
         m # 0 => (es[m].kind \in Settings => Len(es[m].texts) = Len(es[m].lines))
  PROVE  AddsTo(es, m, n)
<1>1. ASSUME NEW k, NEW d, DataIs(es, m, k, d), Complete(es, m, k)
      PROVE  DataIs(es, n, 1, Added(d, KeyOf(es, n), TextOf(es[n], 1)))
  <2>1. PICK key, text : key = KeyOf(es, n) /\ text = TextOf(es[n], 1)
    OBVIOUS
  <2>2. key = KeyOf(es, n) /\ text = TextOf(es[n], 1)
    BY <2>1
  <2>3. DataIs(es, n, 1, Added(d, key, text))
    BY <1>1, <2>2, DataAdded
  <2>4. QED
    BY <2>2, <2>3, Zenon
<1>2. QED
  BY <1>1, Zenon DEF AddsTo

\* Another line of an entry
LEMMA DataGrown ==
  ASSUME NEW es, NEW m \in Nat, m # 0, NEW k, NEW d, DataIs(es, m, k, d), es[m].kind \in Settings,
         NEW key, key = KeyOf(es, m), NEW next, NEW text, text = TextOf(es[m], next)
  PROVE  d[key] = TextOf(es[m], k) /\ key \in DOMAIN d /\ DataIs(es, m, next, [d EXCEPT ![key] = text])
<1>1. /\ DOMAIN d = {KeyOf(es, j) : j \in SettingsIn(es, m)}
      /\ \A j \in SettingsIn(es, m) :
           LastOf(es, m, j) => d[KeyOf(es, j)] = TextOf(es[j], IF j = m THEN k ELSE Len(es[j].texts))
  BY Zenon DEF DataIs
<1>2. m \in SettingsIn(es, m) /\ \A j \in SettingsIn(es, m) : j \in Nat /\ j <= m
  <2>1. m \in 1 .. m /\ \A j \in 1 .. m : j \in Nat /\ j <= m
    OBVIOUS
  <2>2. QED
    BY <2>1, Zenon DEF SettingsIn
<1>3. LastOf(es, m, m)
  BY <1>2, Zenon DEF LastOf
<1>4. d[key] = TextOf(es[m], k) /\ key \in DOMAIN d
  BY <1>1, <1>2, <1>3, Zenon
<1>5. PICK e : e = [d EXCEPT ![key] = text]
  OBVIOUS
<1>6. DOMAIN e = DOMAIN d /\ e[key] = text /\ \A x \in DOMAIN d : x # key => e[x] = d[x]
  BY <1>4, <1>5, Zenon
<1>7. ASSUME NEW j \in SettingsIn(es, m), LastOf(es, m, j)
      PROVE  e[KeyOf(es, j)] = TextOf(es[j], IF j = m THEN next ELSE Len(es[j].texts))
  <2>1. KeyOf(es, j) \in DOMAIN d
    BY <1>1, Zenon
  <2>2. CASE j = m
    BY <1>6, <2>2, Zenon
  <2>3. CASE j # m
    <3>1. j \in Nat /\ j <= m
      BY <1>2, Zenon
    <3>2. ~(m <= j)
      BY <2>3, <3>1
    <3>3. KeyOf(es, j) # key
      BY <1>2, <1>7, <3>2, Zenon DEF LastOf
    <3>4. d[KeyOf(es, j)] = TextOf(es[j], Len(es[j].texts))
      BY <1>1, <1>7, <2>3, Zenon
    <3>5. QED
      BY <1>6, <2>1, <2>3, <3>3, <3>4, Zenon
  <2>4. QED
    BY <2>2, <2>3
<1>8. DataIs(es, m, next, e)
  BY <1>1, <1>6, <1>7, Zenon DEF DataIs
<1>9. QED
  BY <1>4, <1>5, <1>8, Zenon

LEMMA DataStays ==
  ASSUME NEW es, NEW m \in Nat, NEW k, NEW d, DataIs(es, m, k, d), es[m].kind \notin Settings, NEW next
  PROVE  DataIs(es, m, next, d)
<1>1. \A j \in SettingsIn(es, m) : j # m
  BY Zenon DEF SettingsIn
<1>2. QED
  BY <1>1, Zenon DEF DataIs

LEMMA DataSaid ==
  ASSUME NEW es, NEW m, NEW k, NEW d, DataIs(es, m, k, d), NEW next, TextOf(es[m], next) = TextOf(es[m], k)
  PROVE  DataIs(es, m, next, d)
<1>1. \A j : TextOf(es[j], IF j = m THEN next ELSE Len(es[j].texts)) = TextOf(es[j], IF j = m THEN k ELSE Len(es[j].texts))
  OBVIOUS
<1>2. QED
  BY <1>1, Zenon DEF DataIs

-----------------------------------------------------------------------------
(* Reading what was written *)

\* That all of m - 1 entries was read, and k lines of the m-th
Within(es, m, k) == m # 0 /\ es[m].kind = "long" /\ k < Len(es[m].lines)
At(es, ends, m, k) ==
  \/ m = 0 /\ k = 0 /\ row = 1
  \/ m \in 1 .. Len(es) /\ k \in 1 .. Len(es[m].lines) /\ row = ends[m - 1] + k + 1

Standing(es, ends, m, k) ==
  /\ At(es, ends, m, k)
  /\ section = HeaderOf(es, m) /\ multiline = Within(es, m, k)
  /\ multiline => fullKey = KeyOf(es, m)
  /\ DataIs(es, m, k, data)

\* A line is read that is blank or a comment, part of a value, a header or a setting.
ReadLine == BlankLine \/ ValueLine \/ HeaderLine \/ SettingLine

LEMMA NextLine ==
  ASSUME NEW es, NEW ends, WrittenAs(lines, es, ends), NEW m, NEW k, Standing(es, ends, m, k), Reading
  PROVE  \/ /\ m \in 1 .. Len(es) /\ m \in Nat /\ k \in Nat
            /\ k + 1 \in 2 .. Len(es[m].lines) /\ k + 1 \in 1 .. Len(es[m].lines)
            /\ lines[row] = es[m].lines[k + 1] /\ row + 1 = ends[m - 1] + (k + 1) + 1
         \/ /\ m \in Nat /\ m + 1 \in 1 .. Len(es) /\ Complete(es, m, k) /\ (m # 0 => m \in 1 .. Len(es))
            /\ lines[row] = es[m + 1].lines[1] /\ row + 1 = ends[m] + 1 + 1
<1>1. PICK n \in Nat : n = Len(es)
  BY EndsGrow
<1>2. PICK z \in Nat : z = Len(lines) /\ z = ends[n] /\ ends[0] = 0
  <2>1. ends[n] \in Nat
    <3>1. n \in 0 .. n
      OBVIOUS
    <3>2. QED
      BY <1>1, <3>1, EndsGrow
  <2>2. ends[0] = 0 /\ ends[n] = Len(lines)
    BY <1>1, EndsGrow
  <2>3. QED
    BY <2>1, <2>2
<1>3. \A i \in 1 .. n : i \in DOMAIN es /\ Len(es[i].lines) \in Nat /\ ends[i] = ends[i - 1] + Len(es[i].lines)
  BY <1>1, EndsGrow
<1>4. \A i \in 0 .. n : ends[i] \in Nat
  BY <1>1, EndsGrow
<1>5. \A i \in 1 .. n : \A j \in 1 .. Len(es[i].lines) : lines[ends[i - 1] + j] = es[i].lines[j]
  <2>1. \A i \in DOMAIN es : \A j \in DOMAIN es[i].lines : lines[ends[i - 1] + j] = es[i].lines[j]
    BY Zenon DEF WrittenAs
  <2>2. \A i \in 1 .. n : EntryOK(es[i])
    BY <1>1, EndsGrow
  <2>3. \A i \in 1 .. n : DOMAIN es[i].lines = 1 .. Len(es[i].lines)
    <3>1. ASSUME NEW i \in 1 .. n PROVE DOMAIN es[i].lines = 1 .. Len(es[i].lines)
      <4>1. es[i].lines \in Seq(Seq(Symbols))
        BY <2>2, Zenon DEF EntryOK
      <4>2. QED
        BY <4>1
    <3>2. QED
      BY <3>1
  <2>4. QED
    BY <1>3, <2>1, <2>3, Zenon
<1>6. row <= z
  BY <1>2 DEF Reading
<1>7. At(es, ends, m, k)
  BY DEF Standing
<1>8. CASE m \in 1 .. n /\ k \in 1 .. Len(es[m].lines) /\ k # Len(es[m].lines) /\ row = ends[m - 1] + k + 1
  <2>1. PICK x \in Nat, y \in Nat : x = ends[m - 1] /\ y = Len(es[m].lines)
    <3>1. m - 1 \in 0 .. n
      BY <1>8
    <3>2. QED
      BY <1>3, <1>4, <1>8, <3>1
  <2>2. m \in Nat /\ k \in Nat /\ k + 1 \in 2 .. y /\ k + 1 \in 1 .. y
    BY <1>8, <2>1
  <2>3. x + k + 1 = x + (k + 1) /\ x + k + 1 + 1 = x + (k + 1) + 1
    <3>1. k \in Nat
      BY <2>2
    <3>2. QED
      BY <3>1, SumsMeet
  <2>4. row = x + (k + 1) /\ row + 1 = x + (k + 1) + 1
    BY <1>8, <2>1, <2>3
  <2>5. lines[row] = es[m].lines[k + 1]
    BY <1>5, <1>8, <2>1, <2>2, <2>4
  <2>6. QED
    BY <1>1, <1>8, <2>1, <2>2, <2>4, <2>5
<1>9. CASE m \in Nat /\ m <= n /\ Complete(es, m, k) /\ row = ends[m] + 1
  <2>1. PICK x \in Nat : x = ends[m]
    <3>1. m \in 0 .. n
      BY <1>9
    <3>2. QED
      BY <1>4, <3>1
  <2>2. m # n
    BY <1>2, <1>6, <1>9, <2>1
  <2>3. m + 1 \in 1 .. n /\ m + 1 - 1 = m /\ (m # 0 => m \in 1 .. n)
    BY <1>9, <2>2
  <2>4. 1 \in 1 .. Len(es[m + 1].lines)
    <3>1. EntryOK(es[m + 1])
      BY <1>1, <2>3, EndsGrow
    <3>2. Len(es[m + 1].lines) \in Nat \ {0}
      BY <3>1, EntryIs
    <3>3. QED
      BY <3>2
  <2>5. lines[row] = es[m + 1].lines[1]
    BY <1>5, <1>9, <2>3, <2>4
  <2>6. QED
    BY <1>1, <1>9, <2>3, <2>5
<1>10. CASE m = 0 /\ k = 0 /\ row = 1
  <2>1. Complete(es, m, k) /\ row = ends[m] + 1 /\ m \in Nat /\ m <= n
    BY <1>2, <1>10 DEF Complete
  <2>2. QED
    BY <1>9, <2>1
<1>11. CASE m \in 1 .. n /\ k \in 1 .. Len(es[m].lines) /\ k = Len(es[m].lines) /\ row = ends[m - 1] + k + 1
  <2>1. Complete(es, m, k)
    BY <1>11 DEF Complete
  <2>2. row = ends[m] + 1
    BY <1>3, <1>11
  <2>3. m \in Nat /\ m <= n
    BY <1>11
  <2>4. QED
    BY <1>9, <2>1, <2>2, <2>3
<1>12. QED
  BY <1>1, <1>7, <1>8, <1>10, <1>11, Zenon DEF At

\* What each kind of line does
LEMMA BlankDone ==
  ASSUME BlankLine
  PROVE  /\ Trim(lines[row]) = <<>> /\ row' = row + 1 /\ lines' = lines /\ ini' = ini
         /\ section' = section /\ multiline' = multiline /\ fullKey' = fullKey /\ data' = data
BY DEF BlankLine, Line, Proceed

LEMMA HeaderDone ==
  ASSUME HeaderLine
  PROVE  /\ Trim(lines[row]) # <<>> /\ ~multiline /\ IsHeader(Trim(lines[row]))
         /\ row' = row + 1 /\ lines' = lines /\ ini' = ini
         /\ section' = SubSeq(Trim(lines[row]), 2, Len(Trim(lines[row])) - 1)
         /\ multiline' = multiline /\ fullKey' = fullKey /\ data' = data
BY DEF HeaderLine, Line, Proceed

ValueRead(line, close, old) ==
  /\ line # <<>> /\ multiline /\ row' = row + 1 /\ lines' = lines /\ ini' = ini
  /\ section' = section /\ multiline' = (close = 0) /\ fullKey' = fullKey
  /\ data' = [data EXCEPT ![fullKey] =
                (IF old = <<>> THEN old ELSE Append(old, NewLine)) \o Before(line, close)]

LEMMA ValueDone ==
  ASSUME ValueLine, NEW line, line = Trim(lines[row]), NEW close, close = Find(line, ThreeQuotes),
         NEW old, old = data[fullKey]
  PROVE  ValueRead(line, close, old)
<1>1. Line = line
  BY DEF Line
<1>2. QED
  BY <1>1, Zenon DEF ValueLine, Proceed, ValueRead

SettingRead(l, equals, key, open) ==
  /\ row' = row + 1 /\ lines' = lines /\ ini' = ini /\ section' = section
  /\ equals = 0 => multiline' = multiline /\ fullKey' = fullKey /\ data' = data
  /\ equals # 0 =>
       /\ multiline' = (open # 0)
       /\ fullKey' = key
       /\ data' = [k \in DOMAIN data \cup {key} |->
                     IF k # key THEN data[k]
                     ELSE IF open # 0 THEN After(Valued(l), open + 2) ELSE Unquoted(Valued(l))]

LEMMA SettingDone ==
  ASSUME SettingLine, NEW l, l = lines[row], NEW equals, equals = Equals(l),
         NEW key, key = <<section, Named(l)>>, NEW open, open = Find(Valued(l), ThreeQuotes)
  PROVE  /\ Trim(l) # <<>> /\ ~multiline /\ ~IsHeader(Trim(l))
         /\ SettingRead(l, equals, key, open)
<1>1. Line = Trim(l)
  BY DEF Line
<1>2. /\ Trim(l) # <<>> /\ ~multiline /\ ~IsHeader(Trim(l))
      /\ row' = row + 1 /\ lines' = lines /\ ini' = ini /\ section' = section
  BY <1>1, Zenon DEF SettingLine, Proceed
<1>3. PICK said, value : said = Said(l) /\ value = Valued(l)
  OBVIOUS
<1>4. /\ said = Before(Line, Find(Line, <<";">>)) /\ equals = Find(said, <<"=">>)
      /\ value = Trim(After(said, equals)) /\ key = <<section, Trim(Before(said, equals))>>
      /\ open = Find(value, ThreeQuotes)
  BY <1>1, <1>3, Zenon DEF Said, Equals, Named, Valued
<1>5. IF equals = 0 THEN UNCHANGED <<multiline, fullKey, data>>
      ELSE /\ multiline' = (open # 0)
           /\ fullKey' = key
           /\ data' = [k \in DOMAIN data \cup {key} |->
                         IF k # key THEN data[k]
                         ELSE IF open # 0 THEN After(value, open + 2) ELSE Unquoted(value)]
  BY <1>4, Zenon DEF SettingLine
<1>6. UNCHANGED <<multiline, fullKey, data>> => multiline' = multiline /\ fullKey' = fullKey /\ data' = data
  OBVIOUS
<1>7. SettingRead(l, equals, key, open)
  BY <1>2, <1>3, <1>5, <1>6, Zenon DEF SettingRead
<1>8. QED
  BY <1>2, <1>7

\* A line of an entry that has begun
LEMMA ReadOn ==
  ASSUME ReadLine, NEW es, NEW ends, NEW m \in Nat, NEW k \in Nat, NEW n \in Nat, n = k + 1,
         Standing(es, ends, m, k), m \in 1 .. Len(es), EntryOK(es[m]),
         n \in 2 .. Len(es[m].lines), lines[row] = es[m].lines[n], row + 1 = ends[m - 1] + n + 1
  PROVE  Standing(es, ends, m, n)'
<1>0. PICK l : l = lines[row]
  OBVIOUS
<1>1. PICK len \in Nat : l = lines[row] /\ len = Len(es[m].lines)
  <2>1. Len(es[m].lines) \in Nat
    BY EntryIs
  <2>2. QED
    BY <1>0, <2>1, Zenon
<1>2. n \in 1 .. len /\ n \in 2 .. len /\ len # 1 /\ n > 1 /\ k < len /\ m # 0 /\ n - 1 = k
  BY <1>1
<1>3. l \in Seq(Symbols)
  BY <1>1, <1>2, EntryIs
<1>4. /\ section = HeaderOf(es, m) /\ multiline = Within(es, m, k)
      /\ multiline => fullKey = KeyOf(es, m)
      /\ DataIs(es, m, k, data)
  BY Zenon DEF Standing
<1>5. es[m].kind # "header" /\ es[m].kind \notin {"plain", "quoted"}
  BY <1>1, <1>2, EntryIs
<1>6. SUFFICES /\ row' = row + 1 /\ section' = section /\ multiline' = Within(es, m, n)
               /\ multiline' => fullKey' = KeyOf(es, m)
               /\ DataIs(es, m, n, data')
  <2>1. row' = row + 1 => At(es, ends, m, n)'
    BY <1>1, <1>2 DEF At
  <2>2. QED
    BY <1>4, <2>1, Zenon DEF Standing
<1>7. CASE es[m].kind = "long"
  <2>1. multiline /\ fullKey = KeyOf(es, m)
    BY <1>1, <1>2, <1>4, <1>7, Zenon DEF Within
  <2>2. es[m].kind \in Settings
    BY <1>7 DEF Settings
  <2>3. es[m].texts \in Seq(Seq(Symbols)) /\ Len(es[m].texts) = len
    BY <1>1, <2>2, EntryIs
  <2>4. PICK text, old, said : text = es[m].texts[n] /\ old = TextOf(es[m], k) /\ said = TextOf(es[m], n)
    OBVIOUS
  <2>5. said = IF n < len /\ text = <<>> THEN old ELSE WithLine(old, text)
    <3>1. n \in 1 .. Len(es[m].texts)
      BY <1>2, <2>3
    <3>2. TextOf(es[m], n) = IF n < Len(es[m].texts) /\ es[m].texts[n] = <<>> THEN TextOf(es[m], n - 1)
                             ELSE WithLine(TextOf(es[m], n - 1), es[m].texts[n])
      BY <1>2, <2>3, <3>1, TextGrows
    <3>3. QED
      BY <1>2, <2>3, <2>4, <3>2
  <2>6. data[fullKey] = old /\ DataIs(es, m, n, [data EXCEPT ![fullKey] = said])
    <3>1. m # 0 /\ DataIs(es, m, k, data)
      BY <1>2, <1>4, Zenon
    <3>2. fullKey = KeyOf(es, m) /\ said = TextOf(es[m], n) /\ old = TextOf(es[m], k)
      BY <2>1, <2>4, Zenon
    <3>3. /\ data[fullKey] = TextOf(es[m], k)
          /\ DataIs(es, m, n, [data EXCEPT ![fullKey] = said])
      BY <2>2, <3>1, <3>2, DataGrown
    <3>4. QED
      BY <3>2, <3>3, Zenon
  <2>7. ~HeaderLine /\ ~SettingLine
    BY <2>1, Zenon DEF HeaderLine, SettingLine
  <2>8. ASSUME NEW line, line = Trim(l), NEW close, close = Find(line, ThreeQuotes), line # <<>>,
               Before(line, close) = text, text \in Seq(Symbols), close = 0 <=> n < len, said = WithLine(old, text)
        PROVE  /\ row' = row + 1 /\ section' = section /\ multiline' = Within(es, m, n)
               /\ multiline' => fullKey' = KeyOf(es, m)
               /\ DataIs(es, m, n, data')
    <3>1. ~BlankLine
      BY <1>1, <2>8, BlankDone
    <3>2. ValueLine
      BY <2>7, <3>1, Zenon DEF ReadLine
    <3>3. /\ row' = row + 1 /\ section' = section /\ multiline' = (close = 0) /\ fullKey' = fullKey
          /\ data' = [data EXCEPT ![fullKey] =
                        (IF old = <<>> THEN old ELSE Append(old, NewLine)) \o Before(line, close)]
      <4>1. line = Trim(lines[row]) /\ close = Find(line, ThreeQuotes) /\ old = data[fullKey]
        BY <1>1, <2>6, <2>8, Zenon
      <4>2. ValueRead(line, close, old)
        BY <3>2, <4>1, ValueDone
      <4>3. QED
        BY <4>2, Zenon DEF ValueRead
    <3>4. (IF old = <<>> THEN old ELSE Append(old, NewLine)) \o Before(line, close) = said
      <4>1. CASE old = <<>>
        <5>1. <<>> \o text = text
          BY <2>8
        <5>2. QED
          BY <2>8, <4>1, <5>1, Zenon DEF WithLine
      <4>2. CASE old # <<>>
        BY <2>8, <4>2, Zenon DEF WithLine
      <4>3. QED
        BY <4>1, <4>2
    <3>5. data' = [data EXCEPT ![fullKey] = said]
      BY <3>3, <3>4, Zenon
    <3>6. DataIs(es, m, n, [data EXCEPT ![fullKey] = said])
      BY <2>6
    <3>7. multiline' = Within(es, m, n)
      <4>1. Within(es, m, n) <=> n < len
        BY <1>1, <1>2, <1>7, Zenon DEF Within
      <4>2. Within(es, m, n) \in BOOLEAN
        BY Zenon DEF Within
      <4>3. QED
        BY <2>8, <3>3, <4>1, <4>2
    <3>8. QED
      BY <2>1, <3>3, <3>5, <3>6, <3>7, Zenon
  <2>9. CASE n < len
    <3>1. InnerLineOf(l, text)
      <4>1. n \in 2 .. len - 1
        BY <1>2, <2>9
      <4>2. \A i \in 2 .. len - 1 : InnerLineOf(es[m].lines[i], es[m].texts[i])
        BY <1>1, <1>7, EntryIs
      <4>3. QED
        BY <1>1, <2>4, <4>1, <4>2
    <3>2. Trim(l) = text /\ text \in Seq(Symbols) /\ (text # <<>> => Find(text, ThreeQuotes) = 0)
      BY <1>3, <3>1, InnerIs
    <3>3. CASE text = <<>>
      <4>1. BlankLine
        <5>1. ~ValueLine
          <6>1. Line = <<>>
            BY <1>1, <3>2, <3>3 DEF Line
          <6>2. QED
            BY <6>1, Zenon DEF ValueLine
        <5>2. QED
          BY <2>7, <5>1, Zenon DEF ReadLine
      <4>2. /\ row' = row + 1 /\ section' = section /\ multiline' = multiline /\ fullKey' = fullKey /\ data' = data
        BY <4>1, BlankDone
      <4>3. TextOf(es[m], n) = TextOf(es[m], k)
        BY <2>4, <2>5, <2>9, <3>3, Zenon
      <4>4. DataIs(es, m, n, data)
        BY <1>4, <4>3, DataSaid
      <4>5. multiline = Within(es, m, n)
        BY <1>1, <1>2, <1>4, <1>7, <2>9, Zenon DEF Within
      <4>6. QED
        BY <2>1, <4>2, <4>4, <4>5, Zenon
    <3>4. CASE text # <<>>
      <4>1. PICK line, close : line = Trim(l) /\ close = Find(line, ThreeQuotes)
        OBVIOUS
      <4>2. close = 0 /\ line # <<>> /\ line = text
        BY <3>2, <3>4, <4>1
      <4>3. Before(line, close) = text
        BY <4>2, NotBefore
      <4>4. said = WithLine(old, text)
        BY <2>5, <3>4, Zenon
      <4>5. QED
        BY <2>8, <2>9, <3>2, <4>1, <4>2, <4>3, <4>4
    <3>5. QED
      BY <3>3, <3>4
  <2>10. CASE ~(n < len)
    <3>1. n = len
      BY <1>2, <2>10
    <3>2. ClosingLineOf(l, text)
      BY <1>1, <1>7, <2>4, <3>1, EntryIs
    <3>3. PICK line, close : line = Trim(l) /\ close = Find(line, ThreeQuotes)
      OBVIOUS
    <3>4. line # <<>> /\ close # 0 /\ Before(line, close) = text /\ text \in Seq(Symbols)
      BY <1>3, <3>2, <3>3, ClosingIs
    <3>5. said = WithLine(old, text)
      BY <2>5, <2>10, Zenon
    <3>6. QED
      BY <2>8, <2>10, <3>3, <3>4, <3>5
  <2>11. QED
    BY <2>9, <2>10
<1>8. CASE es[m].kind # "long"
  <2>1. es[m].kind \notin Settings /\ es[m].kind \notin Settings \cup {"header"}
    BY <1>5, <1>8 DEF Settings
  <2>2. ~multiline
    BY <1>4, <1>8, Zenon DEF Within
  <2>3. RemarkLineOf(l)
    BY <1>1, <1>2, <2>1, EntryIs
  <2>4. Trim(l) = <<>> \/ (~IsHeader(Trim(l)) /\ Equals(l) = 0)
    BY <1>3, <2>3, RemarkIs
  <2>5. /\ row' = row + 1 /\ section' = section /\ multiline' = multiline /\ data' = data
    <3>1. CASE BlankLine
      BY <3>1, BlankDone
    <3>2. CASE ValueLine
      BY <2>2, <3>2, Zenon DEF ValueLine
    <3>3. CASE HeaderLine
      BY <1>1, <2>4, <3>3, HeaderDone
    <3>4. CASE SettingLine
      <4>1. PICK equals, key, open :
              equals = Equals(l) /\ key = <<section, Named(l)>> /\ open = Find(Valued(l), ThreeQuotes)
        OBVIOUS
      <4>2. Trim(l) # <<>> /\ SettingRead(l, equals, key, open)
        BY <1>1, <3>4, <4>1, SettingDone
      <4>3. QED
        BY <2>4, <4>1, <4>2, Zenon DEF SettingRead
    <3>5. QED
      BY <3>1, <3>2, <3>3, <3>4, Zenon DEF ReadLine
  <2>6. DataIs(es, m, n, data)
    BY <1>4, <2>1, DataStays
  <2>7. multiline = Within(es, m, n)
    BY <1>4, <1>8, Zenon DEF Within
  <2>8. QED
    BY <2>2, <2>5, <2>6, <2>7, Zenon
<1>9. QED
  BY <1>7, <1>8

\* The first line of an entry
LEMMA ReadFirst ==
  ASSUME ReadLine, NEW es, NEW ends, NEW m \in Nat, NEW k, NEW n \in Nat, n = m + 1,
         Standing(es, ends, m, k), Complete(es, m, k), m # 0 => EntryOK(es[m]),
         n \in 1 .. Len(es), EntryOK(es[n]),
         lines[row] = es[n].lines[1], row + 1 = ends[m] + 1 + 1
  PROVE  Standing(es, ends, n, 1)'
<1>0. PICK l : l = lines[row]
  OBVIOUS
<1>1. PICK len \in Nat : l = lines[row] /\ len = Len(es[n].lines)
  <2>1. Len(es[n].lines) \in Nat
    BY EntryIs
  <2>2. QED
    BY <1>0, <2>1, Zenon
<1>2. 1 \in 1 .. len /\ n - 1 = m /\ n # 0 /\ len # 0
  BY <1>1, EntryIs
<1>3. l \in Seq(Symbols)
  BY <1>1, <1>2, EntryIs
<1>4. /\ section = HeaderOf(es, m) /\ multiline = Within(es, m, k)
      /\ DataIs(es, m, k, data)
  BY Zenon DEF Standing
<1>5. ~multiline
  <2>1. m # 0 => Len(es[m].lines) \in Nat
    BY EntryIs
  <2>2. ASSUME m # 0, k = Len(es[m].lines) PROVE ~(k < Len(es[m].lines))
    BY <2>1, <2>2
  <2>3. QED
    BY <1>4, <2>2, Zenon DEF Within, Complete
<1>6. ~ValueLine
  BY <1>5, Zenon DEF ValueLine
<1>7. m # 0 => (es[m].kind \in Settings => Len(es[m].texts) = Len(es[m].lines))
  BY EntryIs
<1>8. SUFFICES /\ row' = row + 1 /\ section' = HeaderOf(es, n) /\ multiline' = Within(es, n, 1)
               /\ multiline' => fullKey' = KeyOf(es, n)
               /\ DataIs(es, n, 1, data')
  <2>1. row' = row + 1 => At(es, ends, n, 1)'
    BY <1>1, <1>2 DEF At
  <2>2. QED
    BY <1>8, <2>1, Zenon DEF Standing
<1>9. CASE es[n].kind = "header"
  <2>1. len = 1 /\ HeaderLineOf(l, es[n].name)
    BY <1>1, <1>9, EntryIs
  <2>2. Trim(l) # <<>> /\ IsHeader(Trim(l)) /\ SubSeq(Trim(l), 2, Len(Trim(l)) - 1) = es[n].name
    BY <1>3, <2>1, HeaderIs
  <2>3. HeaderLine
    <3>1. ~BlankLine
      BY <1>1, <2>2, BlankDone
    <3>2. ~SettingLine
      <4>1. IsHeader(Line)
        BY <1>1, <2>2 DEF Line
      <4>2. QED
        BY <4>1, Zenon DEF SettingLine
    <3>3. QED
      BY <1>6, <3>1, <3>2, Zenon DEF ReadLine
  <2>4. row' = row + 1 /\ section' = es[n].name /\ multiline' = multiline /\ data' = data
    BY <1>1, <2>2, <2>3, HeaderDone
  <2>5. HeaderOf(es, n) = es[n].name
    BY <1>9, HeaderNext
  <2>6. DataIs(es, n, 1, data)
    <3>1. es[n].kind \notin Settings
      BY <1>9 DEF Settings
    <3>2. QED
      BY <1>4, <1>7, <3>1, DataSame
  <2>7. multiline = Within(es, n, 1)
    <3>1. es[n].kind # "long"
      BY <1>9
    <3>2. QED
      BY <1>4, <1>5, <3>1, Zenon DEF Within
  <2>8. QED
    BY <1>5, <2>4, <2>5, <2>6, <2>7, Zenon
<1>10. ASSUME es[n].kind \in Settings
       PROVE  /\ es[n].kind # "header" /\ es[n].texts \in Seq(Seq(Symbols)) /\ Len(es[n].texts) = len
              /\ HeaderOf(es, n) = section /\ KeyOf(es, n) = <<section, <<es[n].key>>>>
              /\ TextOf(es[n], 1) = es[n].texts[1]
  <2>1. es[n].kind # "header" /\ es[n].texts \in Seq(Seq(Symbols)) /\ Len(es[n].texts) = len
    <3>1. es[n].texts \in Seq(Seq(Symbols)) /\ Len(es[n].texts) = len
      BY <1>1, <1>10, EntryIs
    <3>2. QED
      BY <1>10, <3>1 DEF Settings
  <2>2. HeaderOf(es, n) = section
    BY <1>4, <2>1, HeaderNext
  <2>3. TextOf(es[n], 1) = es[n].texts[1]
    BY <1>2, <2>1, TextGrows
  <2>4. QED
    BY <2>1, <2>2, <2>3, Zenon DEF KeyOf
<1>11. ASSUME Trim(l) # <<>>, ~IsHeader(Trim(l)) PROVE SettingLine
  <2>1. ~BlankLine
    BY <1>1, <1>11, BlankDone
  <2>2. ~HeaderLine
    BY <1>1, <1>11, HeaderDone
  <2>3. QED
    BY <1>6, <2>1, <2>2, Zenon DEF ReadLine
<1>12. CASE es[n].kind \in {"plain", "quoted"}
  <2>1. es[n].kind \in Settings /\ es[n].kind # "long"
    BY <1>12 DEF Settings
  <2>2. Holds(l, es[n].key, es[n].texts[1])
    BY <1>1, <1>12, EntryIs
  <2>3. /\ Trim(l) # <<>> /\ ~IsHeader(Trim(l)) /\ Equals(l) # 0 /\ Named(l) = <<es[n].key>>
        /\ Find(Valued(l), ThreeQuotes) = 0 /\ Unquoted(Valued(l)) = es[n].texts[1]
    BY <2>2, Zenon DEF Holds
  <2>4. PICK equals, key, open :
          equals = Equals(l) /\ key = <<section, Named(l)>> /\ open = Find(Valued(l), ThreeQuotes)
    OBVIOUS
  <2>5. PICK text : text = TextOf(es[n], 1)
    OBVIOUS
  <2>6. key = KeyOf(es, n) /\ text = Unquoted(Valued(l)) /\ equals # 0 /\ open = 0
    BY <1>10, <2>1, <2>3, <2>4, <2>5, Zenon
  <2>7. SettingRead(l, equals, key, open)
    <3>1. SettingLine /\ l = lines[row]
      BY <1>1, <1>11, <2>3
    <3>2. QED
      BY <2>4, <3>1, SettingDone
  <2>8. row' = row + 1 /\ section' = section /\ multiline' = (open # 0)
    BY <2>6, <2>7, Zenon DEF SettingRead
  <2>9. data' = Added(data, key, text)
    BY <2>6, <2>7, Zenon DEF SettingRead, Added
  <2>10. DataIs(es, n, 1, Added(data, key, text))
    <3>1. AddsTo(es, m, n)
      <4>1. es[n].kind \in Settings
        BY <2>1
      <4>2. QED
        BY <1>7, <4>1, DataAdds
    <3>2. QED
      BY <1>4, <2>5, <2>6, <3>1, Zenon DEF AddsTo
  <2>11. multiline' = FALSE
    BY <2>6, <2>8
  <2>12. Within(es, n, 1) = FALSE
    BY <2>1, Zenon DEF Within
  <2>13. QED
    BY <1>10, <2>1, <2>8, <2>9, <2>10, <2>11, <2>12, Zenon
<1>13. CASE es[n].kind = "long"
  <2>1. es[n].kind \in Settings
    BY <1>13 DEF Settings
  <2>2. len > 1 /\ Opens(l, es[n].key, es[n].texts[1])
    BY <1>1, <1>13, EntryIs
  <2>3. /\ Trim(l) # <<>> /\ ~IsHeader(Trim(l)) /\ Equals(l) # 0 /\ Named(l) = <<es[n].key>>
        /\ Find(Valued(l), ThreeQuotes) = 1 /\ After(Valued(l), 3) = es[n].texts[1]
    BY <2>2, Zenon DEF Opens
  <2>4. PICK equals, key, open :
          equals = Equals(l) /\ key = <<section, Named(l)>> /\ open = Find(Valued(l), ThreeQuotes)
    OBVIOUS
  <2>5. PICK text : text = TextOf(es[n], 1)
    OBVIOUS
  <2>6. key = KeyOf(es, n) /\ text = After(Valued(l), 3) /\ equals # 0 /\ open = 1
    BY <1>10, <2>1, <2>3, <2>4, <2>5, Zenon
  <2>7. SettingRead(l, equals, key, open)
    <3>1. SettingLine /\ l = lines[row]
      BY <1>1, <1>11, <2>3
    <3>2. QED
      BY <2>4, <3>1, SettingDone
  <2>8. row' = row + 1 /\ section' = section /\ multiline' = (open # 0) /\ fullKey' = key
    BY <2>6, <2>7, Zenon DEF SettingRead
  <2>9. data' = Added(data, key, text)
    <3>1. open # 0 /\ open + 2 = 3
      BY <2>6
    <3>2. text = After(Valued(l), open + 2)
      BY <2>6, <3>1
    <3>3. QED
      BY <2>6, <2>7, <3>1, <3>2, Zenon DEF SettingRead, Added
  <2>10. DataIs(es, n, 1, Added(data, key, text))
    <3>1. AddsTo(es, m, n)
      BY <1>7, <2>1, DataAdds
    <3>2. QED
      BY <1>4, <2>5, <2>6, <3>1, Zenon DEF AddsTo
  <2>11. multiline' = TRUE
    <3>1. open # 0
      BY <2>6
    <3>2. multiline' = (open # 0)
      BY <2>8, Zenon
    <3>3. QED
      BY <3>1, <3>2, Zenon
  <2>12. Within(es, n, 1) = TRUE
    <3>1. 1 < len
      BY <2>2
    <3>2. QED
      BY <1>1, <1>2, <1>13, <3>1, Zenon DEF Within
  <2>13. QED
    BY <2>6, <2>8, <2>9, <2>10, <2>11, <2>12, <1>10, <2>1, Zenon
<1>14. CASE es[n].kind \notin Settings \cup {"header"}
  <2>1. RemarkLineOf(l)
    BY <1>1, <1>2, <1>14, EntryIs
  <2>2. Trim(l) = <<>> \/ (~IsHeader(Trim(l)) /\ Equals(l) = 0)
    BY <1>3, <2>1, RemarkIs
  <2>3. row' = row + 1 /\ section' = section /\ multiline' = multiline /\ data' = data
    <3>1. CASE BlankLine
      BY <3>1, BlankDone
    <3>2. CASE HeaderLine
      BY <1>1, <2>2, <3>2, HeaderDone
    <3>3. CASE SettingLine
      <4>1. PICK equals, key, open :
              equals = Equals(l) /\ key = <<section, Named(l)>> /\ open = Find(Valued(l), ThreeQuotes)
        OBVIOUS
      <4>2. Trim(l) # <<>> /\ SettingRead(l, equals, key, open)
        BY <1>1, <3>3, <4>1, SettingDone
      <4>3. QED
        BY <2>2, <4>1, <4>2, Zenon DEF SettingRead
    <3>4. QED
      BY <1>6, <3>1, <3>2, <3>3, Zenon DEF ReadLine
  <2>4. es[n].kind \notin Settings /\ es[n].kind # "header" /\ es[n].kind # "long"
    BY <1>14 DEF Settings
  <2>5. HeaderOf(es, n) = section
    BY <1>4, <2>4, HeaderNext
  <2>6. DataIs(es, n, 1, data)
    BY <1>4, <1>7, <2>4, DataSame
  <2>7. multiline = Within(es, n, 1)
    BY <1>4, <1>5, <2>4, Zenon DEF Within
  <2>8. QED
    BY <1>5, <2>3, <2>5, <2>6, <2>7, Zenon
<1>15. QED
  BY <1>9, <1>12, <1>13, <1>14, Zenon DEF Settings

IniInv ==
  /\ ini \in {"reading", "read", "missing"}
  /\ meant # Nothing =>
       /\ WrittenAs(lines, meant.entries, meant.ends)
       /\ ini # "missing" => \E m, k : Standing(meant.entries, meant.ends, m, k)
       /\ ini = "read" => row > Len(lines)

LEMMA IniStart == Init => IniInv
<1> SUFFICES ASSUME Init PROVE IniInv
  OBVIOUS
<1>1. PICK case \in Cases : IniInit(case.file) /\ meant = case.meant
  BY DEF Init
<1>2. /\ lines = case.file.lines /\ row = 1 /\ multiline = FALSE /\ section = <<>> /\ data = <<>>
      /\ ini \in {"reading", "missing"}
  BY <1>1 DEF IniInit
<1>3. ASSUME meant # Nothing
      PROVE  WrittenAs(lines, meant.entries, meant.ends) /\ Standing(meant.entries, meant.ends, 0, 0)
  <2>1. WrittenAs(lines, meant.entries, meant.ends)
    BY <1>1, <1>2, <1>3, CasesAssumption
  <2>2. PICK es, ends : es = meant.entries /\ ends = meant.ends
    OBVIOUS
  <2>3. At(es, ends, 0, 0)
    BY <1>2 DEF At
  <2>4. 1 .. 0 = {}
    OBVIOUS
  <2>5. HeaderOf(es, 0) = <<>>
    <3>1. {h \in 1 .. 0 : es[h].kind = "header"} = {}
      BY <2>4, Zenon
    <3>2. QED
      BY <3>1, Zenon DEF HeaderOf
  <2>6. Within(es, 0, 0) = FALSE
    BY Zenon DEF Within
  <2>7. DataIs(es, 0, 0, data)
    <3>1. SettingsIn(es, 0) = {}
      BY <2>4, Zenon DEF SettingsIn
    <3>2. DOMAIN data = {}
      BY <1>2
    <3>3. QED
      BY <3>1, <3>2, Zenon DEF DataIs
  <2>8. Standing(es, ends, 0, 0)
    BY <1>2, <2>3, <2>5, <2>6, <2>7, Zenon DEF Standing
  <2>9. QED
    BY <2>1, <2>2, <2>8
<1>4. QED
  BY <1>2, <1>3 DEF IniInv

LEMMA StandingStays ==
  ASSUME UNCHANGED <<row, multiline, fullKey, section, data>>,
         NEW es, NEW ends, NEW m, NEW k, Standing(es, ends, m, k)
  PROVE  Standing(es, ends, m, k)'
<1>1. row' = row /\ multiline' = multiline /\ fullKey' = fullKey /\ section' = section /\ data' = data
  OBVIOUS
<1>2. At(es, ends, m, k)'
  BY <1>1 DEF Standing, At
<1>3. section' = HeaderOf(es, m) /\ multiline' = Within(es, m, k) /\ (multiline' => fullKey' = KeyOf(es, m))
  BY <1>1 DEF Standing
<1>4. DataIs(es, m, k, data')
  BY <1>1 DEF Standing
<1>5. QED
  BY <1>2, <1>3, <1>4 DEF Standing

LEMMA IniStays == IniInv /\ UNCHANGED <<iniVars, meant>> => IniInv'
<1> SUFFICES ASSUME IniInv, UNCHANGED <<iniVars, meant>> PROVE IniInv'
  OBVIOUS
<1>1. UNCHANGED <<row, multiline, fullKey, section, data>> /\ lines' = lines /\ ini' = ini /\ meant' = meant
  BY DEF iniVars
<1>2. \A es, ends, m, k : Standing(es, ends, m, k) => Standing(es, ends, m, k)'
  BY <1>1, StandingStays
<1>3. ini' \in {"reading", "read", "missing"}
  BY <1>1 DEF IniInv
<1>4. ASSUME meant # Nothing
      PROVE  /\ WrittenAs(lines, meant.entries, meant.ends)
             /\ ini # "missing" => \E m, k : Standing(meant.entries, meant.ends, m, k)'
             /\ ini = "read" => row > Len(lines)
  <2>1. /\ WrittenAs(lines, meant.entries, meant.ends)
        /\ ini # "missing" => \E m, k : Standing(meant.entries, meant.ends, m, k)
        /\ ini = "read" => row > Len(lines)
    BY <1>4, Zenon DEF IniInv
  <2>2. PICK es, ends : es = meant.entries /\ ends = meant.ends
    OBVIOUS
  <2>3. ini # "missing" => \E m, k : Standing(es, ends, m, k)'
    BY <1>2, <2>1, <2>2, Zenon
  <2>4. es = meant.entries' /\ ends = meant.ends'
    BY <1>1, <2>2
  <2>5. QED
    BY <2>1, <2>3, <2>4, Zenon
<1>5. QED
  BY <1>1, <1>3, <1>4, Zenon DEF IniInv

LEMMA IniRead == IniInv /\ ReadFile => IniInv'
<1> SUFFICES ASSUME IniInv, ReadFile PROVE IniInv'
  OBVIOUS
<1>1. meant' = meant
  BY Zenon DEF ReadFile
<1>2. CASE IniEnd
  <2>1. ini' = "read" /\ ini = "reading" /\ row > Len(lines)
    BY <1>2 DEF IniEnd
  <2>2. UNCHANGED <<lines, row, multiline, fullKey, section, data, meant>>
    BY <1>1, <1>2, Zenon DEF IniEnd
  <2>3. ASSUME meant # Nothing
        PROVE  WrittenAs(lines, meant.entries, meant.ends) /\ \E m, k : Standing(meant.entries, meant.ends, m, k)
    BY <2>1, <2>3 DEF IniInv
  <2>4. \A es, ends, m, k : Standing(es, ends, m, k) => Standing(es, ends, m, k)'
    BY <2>2, StandingStays
  <2>5. QED
    <3>1. (meant # Nothing)' => /\ WrittenAs(lines, meant.entries, meant.ends)'
                                /\ \E m, k : Standing(meant.entries, meant.ends, m, k)'
      BY <2>2, <2>3, <2>4, Zenon
    <3>2. row' > Len(lines')
      BY <2>1, <2>2
    <3>3. QED
      BY <2>1, <3>1, <3>2, Zenon DEF IniInv
<1>3. CASE ReadLine
  <2>1. Reading /\ lines' = lines /\ ini' = ini
    BY <1>3, Zenon DEF ReadLine, BlankLine, ValueLine, HeaderLine, SettingLine, Proceed
  <2>2. ini = "reading"
    BY <2>1 DEF Reading
  <2>3. ASSUME meant # Nothing
        PROVE  /\ WrittenAs(lines, meant.entries, meant.ends)
               /\ \E m, k : Standing(meant.entries, meant.ends, m, k)'
    <3>1. PICK es, ends : es = meant.entries /\ ends = meant.ends
      OBVIOUS
    <3>2. WrittenAs(lines, es, ends)
      BY <2>3, <3>1 DEF IniInv
    <3>3. PICK m, k : Standing(es, ends, m, k)
      BY <2>2, <2>3, <3>1 DEF IniInv
    <3>4. CASE /\ m \in 1 .. Len(es) /\ m \in Nat /\ k \in Nat
               /\ k + 1 \in 2 .. Len(es[m].lines) /\ k + 1 \in 1 .. Len(es[m].lines)
               /\ lines[row] = es[m].lines[k + 1] /\ row + 1 = ends[m - 1] + (k + 1) + 1
      <4>1. PICK n \in Nat : n = k + 1
        BY <3>4
      <4>2. EntryOK(es[m])
        BY <3>2, <3>4, EndsGrow
      <4>3. /\ n \in 2 .. Len(es[m].lines) /\ lines[row] = es[m].lines[n] /\ row + 1 = ends[m - 1] + n + 1
        BY <3>4, <4>1
      <4>4. Standing(es, ends, m, n)'
        BY <1>3, <3>3, <3>4, <4>1, <4>2, <4>3, ReadOn
      <4>5. QED
        BY <1>1, <3>1, <3>2, <4>4, Zenon
    <3>5. CASE /\ m \in Nat /\ m + 1 \in 1 .. Len(es) /\ Complete(es, m, k) /\ (m # 0 => m \in 1 .. Len(es))
               /\ lines[row] = es[m + 1].lines[1] /\ row + 1 = ends[m] + 1 + 1
      <4>1. PICK n \in Nat : n = m + 1
        BY <3>5
      <4>2. EntryOK(es[n]) /\ (m # 0 => EntryOK(es[m]))
        BY <3>2, <3>5, <4>1, EndsGrow
      <4>3. n \in 1 .. Len(es) /\ lines[row] = es[n].lines[1]
        BY <3>5, <4>1
      <4>4. Standing(es, ends, n, 1)'
        BY <1>3, <3>3, <3>5, <4>1, <4>2, <4>3, ReadFirst
      <4>5. QED
        BY <1>1, <3>1, <3>2, <4>4, Zenon
    <3>6. QED
      BY <2>1, <3>2, <3>3, <3>4, <3>5, NextLine
  <2>4. (meant # Nothing)' => WrittenAs(lines, meant.entries, meant.ends)'
    BY <1>1, <2>1, <2>3, Zenon
  <2>5. ini' # "read" /\ ini' \in {"reading", "read", "missing"}
    BY <2>1, <2>2
  <2>6. (meant # Nothing)' => \E m, k : Standing(meant.entries, meant.ends, m, k)'
    BY <1>1, <2>3, Zenon
  <2>7. QED
    BY <2>4, <2>5, <2>6, Zenon DEF IniInv
<1>4. ReadLine \/ IniEnd
  BY Zenon DEF ReadFile, ReadIni, ReadLine
<1>5. QED
  BY <1>2, <1>3, <1>4

\* Behind the last line all entries were read, and read to their end.
LEMMA AllRead ==
  ASSUME NEW es, NEW ends, WrittenAs(lines, es, ends), NEW m, NEW k, Standing(es, ends, m, k), row > Len(lines)
  PROVE  m = Len(es) /\ m \in Nat /\ Complete(es, m, k) /\ (m # 0 => EntryOK(es[m]))
<1>1. PICK n \in Nat : n = Len(es)
  BY EndsGrow
<1>2. /\ ends[0] = 0 /\ ends[n] = Len(lines)
      /\ \A i \in 0 .. n : ends[i] \in Nat /\ ends[i] <= ends[n]
      /\ \A i \in 1 .. n : EntryOK(es[i]) /\ ends[i] = ends[i - 1] + Len(es[i].lines)
  BY <1>1, EndsGrow
<1>3. \A i \in 1 .. n : Len(es[i].lines) \in Nat \ {0}
  BY <1>2, EntryIs
<1>4. ASSUME NEW i \in 0 .. n, i # n PROVE ends[i] < ends[n]
  <2>1. PICK j \in Nat : j = i + 1 /\ j \in 1 .. n /\ j \in 0 .. n /\ j - 1 = i
    <3>1. i + 1 \in Nat /\ i + 1 \in 1 .. n /\ i + 1 \in 0 .. n /\ i + 1 - 1 = i
      BY <1>4
    <3>2. QED
      BY <3>1
  <2>2. n \in 0 .. n
    OBVIOUS
  <2>3. PICK x \in Nat, y \in Nat, z \in Nat : x = ends[i] /\ y = Len(es[j].lines) /\ z = ends[n] /\ y # 0
    BY <1>2, <1>3, <2>1, <2>2
  <2>4. x + y <= z
    BY <1>2, <2>1, <2>3
  <2>5. x < z
    <3>1. y # 0
      BY <2>3
    <3>2. QED
      BY <2>4, <3>1, SumPasses
  <2>6. QED
    BY <2>3, <2>5
<1>5. n \in 0 .. n /\ 0 \in 0 .. n
  OBVIOUS
<1>6. At(es, ends, m, k)
  BY DEF Standing
<1>7. CASE m = 0 /\ k = 0 /\ row = 1
  <2>1. PICK z \in Nat : z = ends[n]
    BY <1>2, <1>5
  <2>2. ~(0 < z)
    BY <1>2, <1>7, <2>1
  <2>3. n = 0
    BY <1>2, <1>4, <1>5, <2>1, <2>2
  <2>4. QED
    BY <1>1, <1>7, <2>3 DEF Complete
<1>8. CASE m \in 1 .. n /\ k \in 1 .. Len(es[m].lines) /\ row = ends[m - 1] + k + 1
  <2>1. m \in 0 .. n /\ m - 1 \in 0 .. n /\ m \in Nat
    BY <1>8
  <2>2. PICK x \in Nat, y \in Nat, v \in Nat, z \in Nat :
          x = ends[m - 1] /\ y = Len(es[m].lines) /\ v = ends[m] /\ z = ends[n]
    BY <1>2, <1>3, <1>5, <1>8, <2>1
  <2>3. v = x + y /\ v <= z /\ k \in 1 .. y /\ x + k + 1 > z
    BY <1>2, <1>8, <2>1, <2>2
  <2>4. k = y /\ v = z
    BY <2>3
  <2>5. m = n
    <3>1. ~(v < z)
      BY <2>4
    <3>2. QED
      BY <1>4, <2>1, <2>2, <3>1
  <2>6. QED
    BY <1>1, <1>2, <1>8, <2>1, <2>2, <2>4, <2>5 DEF Complete
<1>9. QED
  BY <1>1, <1>6, <1>7, <1>8, Zenon DEF At

LEMMA IniHolds == IniInv => SettingsReadBack
<1> SUFFICES ASSUME IniInv, ini = "read", meant # Nothing, NEW key \in Keys,
                    NEW in, in = {i \in DOMAIN Sections : SettingsOf(meant.entries, Sections[i], key) # {}}
             PROVE  /\ Holding(key) = in
                    /\ in # {} => Value(key) = SaidIn(meant.entries, Sections[Min(in)], key)
  BY Zenon DEF SettingsReadBack
<1>1. PICK es, ends : es = meant.entries /\ ends = meant.ends
  OBVIOUS
<1>2. WrittenAs(lines, es, ends) /\ row > Len(lines) /\ \E m, k : Standing(es, ends, m, k)
  BY <1>1 DEF IniInv
<1>3. PICK m, k : Standing(es, ends, m, k)
  BY <1>2
<1>4. m = Len(es) /\ m \in Nat /\ Complete(es, m, k) /\ (m # 0 => EntryOK(es[m]))
  BY <1>2, <1>3, AllRead
<1>5. /\ DOMAIN data = {KeyOf(es, j) : j \in SettingsIn(es, m)}
      /\ \A j \in SettingsIn(es, m) :
           LastOf(es, m, j) => data[KeyOf(es, j)] = TextOf(es[j], IF j = m THEN k ELSE Len(es[j].texts))
  BY <1>3, Zenon DEF Standing, DataIs
<1>6. SettingsIn(es, m) \in SUBSET (0 .. m) /\ \A j \in SettingsIn(es, m) : j # 0 /\ es[j].kind \in Settings
  <2>1. SettingsIn(es, m) = {i \in 1 .. m : es[i].kind \in Settings}
    BY DEF SettingsIn
  <2>2. QED
    BY <1>4, <2>1
<1>7. ASSUME NEW j \in SettingsIn(es, m) PROVE (IF j = m THEN k ELSE Len(es[j].texts)) = Len(es[j].texts)
  <2>1. j = m => Len(es[m].texts) = Len(es[m].lines)
    BY <1>4, <1>6, EntryIs
  <2>2. QED
    BY <1>4, <1>6, <2>1, Zenon DEF Complete
<1>8. \A i : SettingsOf(es, Sections[i], key) = {j \in SettingsIn(es, m) : KeyOf(es, j) = <<Sections[i], <<key>>>>}
  BY <1>4, Zenon DEF SettingsOf
<1>9. Holding(key) = in
  <2>1. Holding(key) = {i \in DOMAIN Sections : <<Sections[i], <<key>>>> \in DOMAIN data}
    BY DEF Holding
  <2>2. \A i \in DOMAIN Sections : <<Sections[i], <<key>>>> \in DOMAIN data <=> SettingsOf(es, Sections[i], key) # {}
    BY <1>5, <1>8, Zenon
  <2>3. QED
    BY <1>1, <2>1, <2>2, Zenon
<1>10. ASSUME in # {} PROVE Value(key) = SaidIn(es, Sections[Min(in)], key)
  <2>1. in \in SUBSET Nat
    BY SectionsAssumption
  <2>2. PICK i \in in : \A y \in in : i <= y
    BY <1>10, <2>1, LeastPosition
  <2>3. Min(in) = i
    <3>1. in \in SUBSET Int
      BY <2>1
    <3>2. QED
      BY <2>2, <3>1, LeastIs
  <2>4. PICK S : S = SettingsOf(es, Sections[i], key)
    OBVIOUS
  <2>5. S # {} /\ S \in SUBSET (0 .. m)
    BY <1>1, <1>6, <1>8, <2>2, <2>4, Zenon
  <2>6. PICK j \in S : \A y \in S : y <= j
    BY <1>4, <2>5, GreatestPosition
  <2>7. Max(S) = j
    <3>1. S \in SUBSET Int /\ \A y \in S : j >= y
      BY <1>4, <2>5, <2>6
    <3>2. QED
      BY <2>6, <3>1, GreatestIs
  <2>8. j \in SettingsIn(es, m) /\ KeyOf(es, j) = <<Sections[i], <<key>>>>
    BY <1>8, <2>4, Zenon
  <2>9. LastOf(es, m, j)
    BY <1>8, <2>4, <2>6, <2>8, Zenon DEF LastOf
  <2>10. data[KeyOf(es, j)] = TextOf(es[j], Len(es[j].texts))
    BY <1>5, <1>7, <2>8, <2>9, Zenon
  <2>11. SaidIn(es, Sections[i], key) = TextOf(es[j], Len(es[j].texts))
    BY <2>4, <2>7, Zenon DEF SaidIn
  <2>12. Value(key) = data[<<Sections[i], <<key>>>>]
    BY <1>9, <2>3, Zenon DEF Value
  <2>13. QED
    BY <2>3, <2>8, <2>10, <2>11, <2>12, Zenon
<1>11. QED
  BY <1>1, <1>9, <1>10

\* What is written into an INI file is found in it (ParseIniFile and IniFile::GetValue),
\* whatever entries it was written as.
THEOREM SettingsAreRead == Spec => []SettingsReadBack
<1>1. IniInv /\ [Next]_vars => IniInv'
  <2> SUFFICES ASSUME IniInv, [Next]_vars PROVE IniInv'
    OBVIOUS
  <2>1. CASE ReadFile
    BY <2>1, IniRead
  <2>2. CASE CommandLineStep
    <3>1. UNCHANGED <<iniVars, meant>>
      BY <2>2, Zenon DEF CommandLineStep
    <3>2. QED
      BY <3>1, IniStays
  <2>3. CASE \E key \in Keys : TakeDefault(key)
    <3>1. UNCHANGED <<iniVars, meant>>
      BY <2>3, Zenon DEF TakeDefault
    <3>2. QED
      BY <3>1, IniStays
  <2>4. CASE UNCHANGED vars
    <3>1. UNCHANGED <<iniVars, meant>>
      BY <2>4, Zenon DEF vars
    <3>2. QED
      BY <3>1, IniStays
  <2>5. QED
    BY <2>1, <2>2, <2>3, <2>4, Zenon DEF Next
<1>2. QED
  BY <1>1, IniStart, IniHolds, PTL DEF Spec

=============================================================================
