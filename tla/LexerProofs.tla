----------------------------- MODULE LexerProofs -----------------------------
(***************************************************************************)
(* Theorems about Lexer and Ast, for sources of any length: each character *)
(* is in one token, or begins none; and the parser fails, or loses nothing *)
(* that the tokens say.                                                    *)
(*                                                                         *)
(* Every turn of the lexer's loop begins at a character that no token has  *)
(* yet.  It takes the characters from there to where the iterator then     *)
(* stands; or it passes over one that begins no token; or it ends at the   *)
(* end of the source with what is open there; or it throws.                *)
(*                                                                         *)
(* The nodes on the parser's stacks stand, one after the other, for the    *)
(* tokens that have been read: each says what its tokens say, or has a     *)
(* hole in it.  A reduction makes one node of three that are neighbours.   *)
(***************************************************************************)
EXTENDS Ast, TLAPS, SequenceTheorems, FiniteSetTheorems, WellFoundedInduction

\* "end" stands for what is behind the source, and is no character of it.
Char == STRING \ {"end"}

TypeOK ==
  /\ source \in Seq(Char) /\ it \in 1 .. Len(source) + 1
  /\ tokens = [i \in 1 .. Len(tokens) |-> tokens[i]] /\ Len(tokens) \in Nat
  /\ \A i \in DOMAIN tokens : tokens[i].from \in Nat /\ tokens[i].to \in Nat

\* Tokens take their characters one after the other, up to the iterator at most.
InTurn ==
  /\ \A i \in DOMAIN tokens :
       1 <= tokens[i].from /\ tokens[i].from <= tokens[i].to /\ tokens[i].to < it
  /\ \A i, j \in DOMAIN tokens : i < j => tokens[i].to < tokens[j].from

Taken(k) == \E i \in DOMAIN tokens : tokens[i].from <= k /\ k <= tokens[i].to
Told(k) == Taken(k) \/ Passes(At(k))

\* What is open at the end of the source
Quotes == {"\"", "'"}
Open(o) == (At(o) = "/" /\ At(o + 1) = "*") \/ (At(o) \in Quotes /\ o = Len(source))

\* All that lies behind the iterator was told, or all up to what is open at the end.
AllTold ==
  \E o \in 1 .. it :
    /\ \A k \in 1 .. o - 1 : Told(k)
    /\ \A k \in o .. it - 1 : ~Taken(k)
    /\ o < it => Open(o) /\ it = Len(source) + 1

LexInv == TypeOK /\ InTurn /\ AllTold

-----------------------------------------------------------------------------
(* Operators *)

\* The first of some places of the source
LEMMA FirstIn ==
  ASSUME NEW ends \in SUBSET Nat, ends # {}
  PROVE  First(ends) \in ends /\ \A j \in ends : First(ends) <= j
<1>1. PICK x \in ends : \A y \in ends : ~ (<<y, x>> \in OpToRel(<, Nat))
  BY NatLessThanWellFounded, WFMin
<1>2. \A y \in ends : ~ (y < x)
  BY <1>1 DEF OpToRel
<1>3. \A y \in ends : x <= y
  BY <1>2
<1>4. QED
  BY <1>3 DEF First

LEMMA SourceIs ==
  ASSUME TypeOK
  PROVE  /\ Len(source) \in Nat /\ it \in Nat
         /\ \A k \in 1 .. Len(source) : At(k) # "end"
         /\ \A k \in Int : At(k) # "end" => k \in 1 .. Len(source)
<1>1. Len(source) \in Nat /\ \A k \in 1 .. Len(source) : source[k] \in Char
  BY LenProperties, ElementOfSeq DEF TypeOK
<1>2. QED
  BY <1>1 DEF At, Char, TypeOK

-----------------------------------------------------------------------------
(* The turns of the loop *)

\* A turn that makes a token of all from the iterator to a place in the source
Takes(to) ==
  /\ \E type, lexeme : Emit(type, lexeme, it, to)
  /\ it' = to + 1
  /\ UNCHANGED <<source, lexing>>

Passing == Passes(At(it)) /\ it' = it + 1 /\ UNCHANGED <<tokens, source, lexing>>

\* A turn that finds no end of what begins at the iterator
RunsOut ==
  /\ Open(it)
  /\ it' = Len(source) + 1 /\ UNCHANGED <<tokens, source, lexing>>

Turn ==
  \/ \E to \in it .. Len(source) : Takes(to)
  \/ Passing
  \/ RunsOut
  \/ UNCHANGED <<source, it, tokens>>

LEMMA Advanced ==
  ASSUME TypeOK, NEW i \in Nat, AdvanceFrom(i)
  PROVE  /\ it' = IF i > Len(source) THEN i ELSE i + 1
         /\ UNCHANGED <<source, lexing>>
  BY DEF AdvanceFrom

LEMMA TakesOf ==
  ASSUME TypeOK, it <= Len(source), NEW to \in it .. Len(source), NEW type, NEW lexeme,
         Emit(type, lexeme, it, to), it' = to + 1, UNCHANGED <<source, lexing>>
  PROVE  Turn
  BY DEF Turn, Takes

LEMMA SymbolTurn ==
  ASSUME TypeOK, it <= Len(source), NEW c, c = At(it), Symbol(c)
  PROVE  Turn
<1>1. Len(source) \in Nat /\ it \in Nat
  BY SourceIs
<1>2. it' = it + 1 /\ UNCHANGED <<source, lexing>> /\ it \in it .. Len(source)
  BY <1>1, Advanced DEF Symbol
<1>3. QED
  BY <1>2, TakesOf DEF Symbol

LEMMA PairTurn ==
  ASSUME TypeOK, it <= Len(source), NEW c, c = At(it), Pair(c)
  PROVE  Turn
<1>1. Len(source) \in Nat /\ it \in Nat
  BY SourceIs
<1>2. CASE At(it + 1) = TwoChars[c][1]
  <2>1. TwoChars[c][1] # "end"
    BY DEF Pair, TwoChars
  <2>2. it + 1 \in 1 .. Len(source)
    BY <1>1, <1>2, <2>1, SourceIs
  <2>3. Emit(TwoChars[c][2], <<>>, it, it + 1) /\ AdvanceFrom(it + 1)
    BY <1>2 DEF Pair
  <2>4. it' = it + 1 + 1 /\ UNCHANGED <<source, lexing>> /\ it + 1 \in it .. Len(source)
    BY <1>1, <2>2, <2>3, Advanced
  <2>5. QED
    BY <2>3, <2>4, TakesOf
<1>3. CASE At(it + 1) # TwoChars[c][1]
  <2>1. Emit(TwoChars[c][3], <<>>, it, it) /\ AdvanceFrom(it)
    BY <1>3 DEF Pair
  <2>2. it' = it + 1 /\ UNCHANGED <<source, lexing>> /\ it \in it .. Len(source)
    BY <1>1, <2>1, Advanced
  <2>3. QED
    BY <2>1, <2>2, TakesOf
<1>4. QED
  BY <1>2, <1>3

LEMMA SlashTurn ==
  ASSUME TypeOK, it <= Len(source), NEW c, c = At(it), Slash(c)
  PROVE  Turn
<1> DEFINE ends == {k \in it + 2 .. Len(source) : At(k) = "*" /\ At(k + 1) = "/"}
<1>1. Len(source) \in Nat /\ it \in Nat /\ ends \in SUBSET Nat
  BY SourceIs
<1>2. PICK close : close = First(ends)
  OBVIOUS
<1>3. /\ c = "/"
      /\ IF At(it + 1) # "*" THEN Emit("div", <<>>, it, it) /\ AdvanceFrom(it)
         ELSE IF close > Len(source) THEN UNCHANGED tokens /\ AdvanceFrom(close)
         ELSE Emit("comment", Lexeme(it + 2, close - 1), it, close + 1) /\ AdvanceFrom(close + 1)
  BY <1>2 DEF Slash
<1>4. \/ close = Len(source) + 1
      \/ close \in it + 2 .. Len(source) /\ At(close + 1) = "/"
  BY <1>1, <1>2, FirstIn DEF First
<1>5. CASE At(it + 1) # "*"
  <2>1. Emit("div", <<>>, it, it) /\ AdvanceFrom(it)
    BY <1>3, <1>5
  <2>2. it' = it + 1 /\ UNCHANGED <<source, lexing>> /\ it \in it .. Len(source)
    BY <1>1, <2>1, Advanced
  <2>3. QED
    BY <2>1, <2>2, TakesOf
<1>6. CASE At(it + 1) = "*" /\ close = Len(source) + 1
  <2>1. close > Len(source) /\ close \in Nat
    BY <1>1, <1>6
  <2>2. UNCHANGED tokens /\ AdvanceFrom(close)
    BY <1>3, <1>6, <2>1
  <2>3. it' = Len(source) + 1 /\ UNCHANGED <<source, lexing>>
    BY <1>6, <2>1, <2>2, Advanced
  <2>4. QED
    BY <1>3, <1>6, <2>2, <2>3 DEF Turn, RunsOut, Open
<1>7. CASE At(it + 1) = "*" /\ close # Len(source) + 1
  <2>1. close \in it + 2 .. Len(source) /\ At(close + 1) = "/"
    BY <1>4, <1>7
  <2>2. close + 1 \in 1 .. Len(source)
    BY <1>1, <2>1, SourceIs
  <2>3. Emit("comment", Lexeme(it + 2, close - 1), it, close + 1) /\ AdvanceFrom(close + 1)
    BY <1>1, <1>3, <1>7, <2>1
  <2>4. it' = close + 1 + 1 /\ UNCHANGED <<source, lexing>> /\ close + 1 \in it .. Len(source)
    BY <1>1, <2>1, <2>2, <2>3, Advanced
  <2>5. QED
    BY <2>3, <2>4, TakesOf
<1>8. QED
  BY <1>5, <1>6, <1>7

\* A string, or a character literal that does not throw: what is quoted, up to the
\* end of the source if the quote is not closed
LEMMA QuotedTurn ==
  ASSUME TypeOK, it <= Len(source), NEW close, NEW ends \in SUBSET (it + 1 .. Len(source)),
         close = First(ends), At(it) \in Quotes, NEW type, NEW lexeme,
         IF close <= Len(source) THEN Emit(type, lexeme, it, close)
         ELSE IF it < Len(source) THEN Error(it, Len(source)) ELSE UNCHANGED tokens,
         AdvanceFrom(close)
  PROVE  Turn
<1>1. Len(source) \in Nat /\ it \in Nat /\ ends \in SUBSET Nat
  BY SourceIs
<1>2. close = Len(source) + 1 \/ close \in it + 1 .. Len(source)
  BY <1>1, FirstIn DEF First
<1>3. CASE close \in it + 1 .. Len(source)
  <2>1. close <= Len(source) /\ close \in it .. Len(source) /\ close \in Nat
    BY <1>1, <1>3
  <2>2. it' = close + 1 /\ UNCHANGED <<source, lexing>>
    BY <1>1, <2>1, Advanced
  <2>3. QED
    BY <2>1, <2>2, TakesOf
<1>4. CASE close = Len(source) + 1
  <2>1. close > Len(source) /\ ~(close <= Len(source)) /\ close \in Nat
    BY <1>1, <1>4
  <2>2. it' = Len(source) + 1 /\ UNCHANGED <<source, lexing>>
    BY <1>4, <2>1, Advanced
  <2>3. CASE it < Len(source)
    <3>1. Emit("error", <<>>, it, Len(source)) /\ Len(source) \in it .. Len(source)
      BY <1>1, <2>1, <2>3 DEF Error
    <3>2. QED
      BY <2>2, <3>1, TakesOf
  <2>4. CASE it = Len(source)
    <3>1. UNCHANGED tokens
      BY <1>1, <2>1, <2>4
    <3>2. QED
      BY <2>2, <2>4, <3>1 DEF Turn, RunsOut, Open
  <2>5. QED
    BY <1>1, <2>3, <2>4
<1>5. QED
  BY <1>2, <1>3, <1>4

LEMMA StringTurn ==
  ASSUME TypeOK, it <= Len(source), NEW c, c = At(it), String(c)
  PROVE  Turn
<1> DEFINE ends == {k \in it + 1 .. Len(source) : At(k) = "\""}
<1>1. PICK close : close = First(ends)
  OBVIOUS
<1>2. /\ c = "\"" /\ AdvanceFrom(close)
      /\ IF close <= Len(source) THEN Emit("string", Lexeme(it + 1, close - 1), it, close)
         ELSE IF it < Len(source) THEN Error(it, Len(source)) ELSE UNCHANGED tokens
  BY <1>1 DEF String
<1>3. ends \in SUBSET (it + 1 .. Len(source)) /\ c \in Quotes
  BY <1>2 DEF Quotes
<1> HIDE DEF ends
<1>4. QED
  BY <1>1, <1>2, <1>3, QuotedTurn

LEMMA CharacterTurn ==
  ASSUME TypeOK, it <= Len(source), NEW c, c = At(it), Character(c)
  PROVE  Turn
<1> DEFINE ends == {k \in it + 1 .. Len(source) : At(k) = "'"}
<1>1. PICK close : close = First(ends)
  OBVIOUS
<1>2. ends \in SUBSET (it + 1 .. Len(source)) /\ c \in Quotes
  BY DEF Character, Quotes
<1>3. CASE UNCHANGED <<source, it, tokens>>
  BY <1>3 DEF Turn
<1>4. CASE /\ IF close <= Len(source) THEN Emit("character", Lexeme(it + 1, close - 1), it, close)
              ELSE IF it < Len(source) THEN Error(it, Len(source)) ELSE UNCHANGED tokens
           /\ AdvanceFrom(close)
  <2> HIDE DEF ends
  <2>1. QED
    BY <1>1, <1>2, <1>4, QuotedTurn
<1>5. QED
  BY <1>1, <1>3, <1>4 DEF Character

LEMMA WordTurn ==
  ASSUME TypeOK, it <= Len(source), NEW c, c = At(it), Word(c)
  PROVE  Turn
<1> DEFINE InWord(k) == IF c \in Letters THEN At(k) \in Letters \cup Digits \cup {".", "_", "-"}
                        ELSE At(k) \in Digits
           ends == {k \in it .. Len(source) : ~InWord(k)}
<1>1. PICK past : past = First(ends)
  OBVIOUS
<1>2. PICK type, lexeme : /\ Emit(type, lexeme, it, past - 1)
                          /\ AdvanceFrom(IF past > Len(source) THEN past ELSE past - 1)
  BY <1>1 DEF Word
<1>3. InWord(it)
  BY DEF Word
<1> HIDE DEF InWord
<1>4. Len(source) \in Nat /\ it \in Nat /\ ends \in SUBSET Nat /\ it \notin ends
  BY <1>3, SourceIs
<1>5. past = Len(source) + 1 \/ past \in it + 1 .. Len(source)
  <2>1. CASE ends = {}
    BY <1>1, <2>1 DEF First
  <2>2. CASE ends # {}
    <3>1. past \in ends
      BY <1>1, <1>4, <2>2, FirstIn
    <3>2. past \in it .. Len(source) /\ past # it
      BY <1>4, <3>1
    <3>3. QED
      BY <1>4, <3>2
  <2>3. QED
    BY <2>1, <2>2
<1> HIDE DEF ends
<1>6. past - 1 \in it .. Len(source) /\ past - 1 \in Nat /\ past \in Nat
  BY <1>4, <1>5
<1>7. it' = (past - 1) + 1 /\ UNCHANGED <<source, lexing>>
  <2>1. CASE past > Len(source)
    BY <1>2, <1>4, <1>5, <1>6, <2>1, Advanced
  <2>2. CASE ~(past > Len(source))
    BY <1>2, <1>4, <1>6, <2>2, Advanced
  <2>3. QED
    BY <2>1, <2>2
<1>8. QED
  BY <1>2, <1>6, <1>7, TakesOf

LEMMA PassTurn ==
  ASSUME TypeOK, it <= Len(source), NEW c, c = At(it), Pass(c)
  PROVE  Turn
<1>1. Len(source) \in Nat /\ it \in Nat
  BY SourceIs
<1>2. it' = it + 1 /\ UNCHANGED <<source, lexing>>
  BY <1>1, Advanced DEF Pass
<1>3. QED
  BY <1>2 DEF Turn, Passing, Pass

LEMMA EveryTurn ==
  ASSUME TypeOK, Scan \/ LexEnd
  PROVE  Turn /\ (it > Len(source) => UNCHANGED <<source, it, tokens>>)
<1>1. CASE LexEnd
  BY <1>1 DEF LexEnd, Turn
<1>2. CASE Scan
  <2>1. it <= Len(source) /\ Len(source) \in Nat /\ it \in Nat
    BY <1>2, SourceIs DEF Scan
  <2>2. PICK c : c = At(it)
    OBVIOUS
  <2>3. Symbol(c) \/ Pair(c) \/ Slash(c) \/ String(c) \/ Character(c) \/ Word(c) \/ Pass(c)
    BY <1>2, <2>2 DEF Scan
  <2>4. Turn
    BY <2>1, <2>2, <2>3, SymbolTurn, PairTurn, SlashTurn, StringTurn, CharacterTurn, WordTurn, PassTurn
  <2>5. QED
    BY <2>1, <2>4
<1>3. QED
  BY <1>1, <1>2

-----------------------------------------------------------------------------
(* The invariant *)

\* A token more
LEMMA Emitted ==
  ASSUME TypeOK, NEW type, NEW lexeme, NEW to \in Nat, Emit(type, lexeme, it, to)
  PROVE  LET n == Len(tokens) + 1
         IN /\ DOMAIN tokens' = 1 .. n /\ Len(tokens') = n
            /\ tokens' = [i \in 1 .. n |-> tokens'[i]]
            /\ \A i \in DOMAIN tokens : tokens'[i] = tokens[i]
            /\ tokens'[n].from = it /\ tokens'[n].to = to
<1>1. PICK t : t = Token(type, lexeme, it, to)
  OBVIOUS
<1>2. t.from = it /\ t.to = to
  BY <1>1 DEF Token
<1>3. PICK S : tokens \in Seq(S) /\ t \in S
  <2> DEFINE R == {tokens[i] : i \in DOMAIN tokens} \cup {t}
  <2>1. PICK n \in Nat : n = Len(tokens)
    BY DEF TypeOK
  <2>2. tokens = [i \in 1 .. n |-> tokens[i]]
    BY <2>1 DEF TypeOK
  <2>3. DOMAIN tokens = 1 .. n
    BY <2>2
  <2>4. tokens \in [1 .. n -> R]
    BY <2>2, <2>3
  <2> HIDE DEF R
  <2>5. tokens \in Seq(R)
    BY <2>4, SeqDef
  <2> USE DEF R
  <2>6. QED
    BY <2>5
<1>4. tokens' = Append(tokens, t)
  BY <1>1 DEF Emit
<1>5. PICK n \in Nat : n = Len(tokens) /\ DOMAIN tokens = 1 .. n
  BY <1>3, LenProperties
<1>6. PICK q \in Seq(S) : q = tokens' /\ Len(q) = n + 1 /\ DOMAIN q = 1 .. n + 1
  BY <1>3, <1>4, <1>5, AppendProperties, LenProperties
<1>7. q = [i \in 1 .. n + 1 |-> q[i]]
  BY <1>6, SeqDef
<1>8. (\A i \in 1 .. n : q[i] = tokens[i]) /\ q[n + 1] = t
  BY <1>3, <1>4, <1>5, <1>6, AppendProperties
<1>9. QED
  BY <1>2, <1>5, <1>6, <1>7, <1>8

LEMMA TokensAre ==
  ASSUME TypeOK
  PROVE  DOMAIN tokens = 1 .. Len(tokens) /\ Len(tokens) \in Nat
<1>1. PICK n \in Nat : n = Len(tokens)
  BY DEF TypeOK
<1>2. tokens = [i \in 1 .. n |-> tokens[i]]
  BY <1>1 DEF TypeOK
<1>3. QED
  BY <1>1, <1>2

\* What a character begins does not change, nor what is told of those before.
LEMMA AtStays ==
  ASSUME UNCHANGED source
  PROVE  \A k : At(k)' = At(k)
  BY DEF At

LEMMA TakesKeeps ==
  ASSUME LexInv, it <= Len(source), NEW to \in it .. Len(source), Takes(to)
  PROVE  LexInv'
<1>1. TypeOK /\ InTurn /\ AllTold /\ Len(source) \in Nat /\ it \in Nat /\ it >= 1 /\ to \in Nat
  BY SourceIs DEF LexInv, TypeOK
<1>2. PICK n \in Nat : n = Len(tokens) /\ DOMAIN tokens = 1 .. n
  BY <1>1, TokensAre
<1>3. PICK type, lexeme : Emit(type, lexeme, it, to)
  BY DEF Takes
<1>4. /\ DOMAIN tokens' = 1 .. n + 1 /\ Len(tokens') = n + 1
      /\ \A i \in 1 .. n : tokens'[i] = tokens[i]
      /\ tokens'[n + 1].from = it /\ tokens'[n + 1].to = to
      /\ tokens' = [i \in 1 .. n + 1 |-> tokens'[i]]
  BY <1>1, <1>2, <1>3, Emitted
<1>5. it' = to + 1 /\ source' = source
  BY DEF Takes
<1>7. \A i \in 1 .. n + 1 : i \in 1 .. n \/ i = n + 1
  BY <1>2
<1>8. TypeOK'
  BY <1>1, <1>2, <1>4, <1>5, <1>7 DEF TypeOK
<1>9. InTurn'
  <2>1. \A i \in 1 .. n : 1 <= tokens[i].from /\ tokens[i].from <= tokens[i].to /\ tokens[i].to < it
                         /\ tokens[i].to \in Nat
    BY <1>1, <1>2 DEF InTurn, TypeOK
  <2>2. \A i \in 1 .. n + 1 :
          1 <= tokens'[i].from /\ tokens'[i].from <= tokens'[i].to /\ tokens'[i].to < to + 1
    BY <1>1, <1>2, <1>4, <1>7, <2>1
  <2>3. ASSUME NEW i \in 1 .. n + 1, NEW j \in 1 .. n + 1, i < j
        PROVE  tokens'[i].to < tokens'[j].from
    <3>1. i \in 1 .. n
      BY <1>2, <2>3
    <3>2. CASE j \in 1 .. n
      BY <1>1, <1>2, <1>4, <2>3, <3>1, <3>2 DEF InTurn
    <3>3. CASE j = n + 1
      BY <1>4, <2>1, <3>1, <3>3
    <3>4. QED
      BY <1>7, <3>2, <3>3
  <2>4. QED
    BY <1>4, <1>5, <2>2, <2>3 DEF InTurn
<1>10. AllTold'
  <2>1. PICK o \in 1 .. it : /\ \A k \in 1 .. o - 1 : Told(k)
                             /\ o < it => it = Len(source) + 1
    BY <1>1 DEF AllTold
  <2>2. o = it
    BY <1>1, <2>1
  <2>3. \A k \in 1 .. it - 1 : Told(k)'
    <3> SUFFICES ASSUME NEW k \in 1 .. it - 1 PROVE Told(k)'
      OBVIOUS
    <3>1. CASE Taken(k)
      BY <1>2, <1>4, <3>1 DEF Told, Taken
    <3>2. CASE Passes(At(k))
      BY <1>5, <3>2, AtStays DEF Told, Passes
    <3>3. QED
      BY <2>1, <2>2, <3>1, <3>2 DEF Told
  <2>4. \A k \in it .. to : Told(k)'
    BY <1>2, <1>4 DEF Told, Taken
  <2>5. \A k \in 1 .. it' - 1 : Told(k)'
    BY <1>1, <1>5, <2>3, <2>4
  <2>6. it' \in 1 .. it' /\ (\A k \in it' .. it' - 1 : ~Taken(k)') /\ ~(it' < it')
    BY <1>1, <1>5
  <2>7. QED
    BY <2>5, <2>6 DEF AllTold
<1>11. QED
  BY <1>8, <1>9, <1>10 DEF LexInv

LEMMA PassingKeeps ==
  ASSUME LexInv, it <= Len(source), Passing
  PROVE  LexInv'
<1>1. TypeOK /\ InTurn /\ AllTold /\ Len(source) \in Nat /\ it \in Nat /\ it >= 1
  BY SourceIs DEF LexInv, TypeOK
<1>2. it' = it + 1 /\ source' = source /\ tokens' = tokens /\ Passes(At(it))
  BY DEF Passing
<1>3. TypeOK'
  BY <1>1, <1>2 DEF TypeOK
<1>4. InTurn'
  BY <1>1, <1>2, TokensAre DEF InTurn, TypeOK
<1>5. AllTold'
  <2>1. PICK o \in 1 .. it : /\ \A k \in 1 .. o - 1 : Told(k)
                             /\ o < it => it = Len(source) + 1
    BY <1>1 DEF AllTold
  <2>2. o = it
    BY <1>1, <2>1
  <2>3. \A k \in 1 .. it : Told(k)'
    <3> SUFFICES ASSUME NEW k \in 1 .. it PROVE Told(k)'
      OBVIOUS
    <3>1. Taken(k) \/ Passes(At(k))
      BY <1>1, <1>2, <2>1, <2>2 DEF Told
    <3>2. At(k)' = At(k) /\ (Taken(k) => Taken(k)')
      BY <1>2, AtStays DEF Taken
    <3>3. QED
      BY <3>1, <3>2 DEF Told, Passes
  <2>4. it' \in 1 .. it' /\ (\A k \in it' .. it' - 1 : ~Taken(k)') /\ ~(it' < it')
    BY <1>1, <1>2
  <2>5. QED
    BY <1>1, <1>2, <2>3, <2>4 DEF AllTold
<1>6. QED
  BY <1>3, <1>4, <1>5 DEF LexInv

LEMMA RunsOutKeeps ==
  ASSUME LexInv, it <= Len(source), RunsOut
  PROVE  LexInv'
<1>1. TypeOK /\ InTurn /\ AllTold /\ Len(source) \in Nat /\ it \in Nat /\ it >= 1
  BY SourceIs DEF LexInv, TypeOK
<1>2. it' = Len(source) + 1 /\ source' = source /\ tokens' = tokens /\ Open(it)
  BY DEF RunsOut
<1>3. TypeOK'
  BY <1>1, <1>2 DEF TypeOK
<1>4. InTurn'
  BY <1>1, <1>2, TokensAre DEF InTurn, TypeOK
<1>5. AllTold'
  <2>1. PICK o \in 1 .. it : /\ \A k \in 1 .. o - 1 : Told(k)
                             /\ o < it => it = Len(source) + 1
    BY <1>1 DEF AllTold
  <2>2. o = it
    BY <1>1, <2>1
  <2>3. \A k : At(k)' = At(k) /\ Taken(k)' = Taken(k)
    BY <1>2, AtStays DEF Taken
  <2>4. \A k \in 1 .. it - 1 : Told(k)'
    BY <2>1, <2>2, <2>3 DEF Told, Passes
  <2>5. \A k \in o .. it' - 1 : ~Taken(k)'
    <3> SUFFICES ASSUME NEW k \in o .. it' - 1, NEW i \in DOMAIN tokens,
                        tokens[i].from <= k, k <= tokens[i].to
                 PROVE  FALSE
      BY <2>3 DEF Taken
    <3>1. tokens[i].to < it /\ tokens[i].to \in Nat
      BY <1>1 DEF InTurn, TypeOK
    <3>2. QED
      BY <1>1, <1>2, <2>2, <3>1
  <2>6. Open(o)'
    <3>1. At(o)' = At(o) /\ At(o + 1)' = At(o + 1)
      BY <2>3
    <3>2. QED
      BY <1>2, <2>2, <3>1 DEF Open
  <2>7. \A k \in 1 .. o - 1 : Told(k)'
    BY <2>2, <2>4
  <2>8. o \in 1 .. it' /\ it' = Len(source') + 1
    BY <1>1, <1>2, <2>2
  <2>9. QED
    BY <2>5, <2>6, <2>7, <2>8 DEF AllTold
<1>6. QED
  BY <1>3, <1>4, <1>5 DEF LexInv

LEMMA Inductive ==
  ASSUME LexInv, [Scan \/ LexEnd]_lexVars
  PROVE  LexInv'
<1>1. TypeOK
  BY DEF LexInv
<1>2. CASE UNCHANGED <<source, it, tokens>>
  <2>1. TypeOK' /\ InTurn'
    BY <1>2 DEF LexInv, TypeOK, InTurn
  <2>2. \A k : Told(k)' = Told(k) /\ Taken(k)' = Taken(k) /\ Open(k)' = Open(k)
    BY <1>2 DEF Told, Taken, Open, Passes, At
  <2>3. AllTold'
    BY <1>2, <2>2 DEF LexInv, AllTold
  <2>4. QED
    BY <2>1, <2>3 DEF LexInv
<1>3. CASE Scan \/ LexEnd
  <2>1. Turn /\ (it > Len(source) => UNCHANGED <<source, it, tokens>>) /\ Len(source) \in Nat /\ it \in Nat
    BY <1>1, <1>3, EveryTurn, SourceIs
  <2>2. CASE it > Len(source)
    BY <1>2, <2>1, <2>2
  <2>3. CASE it <= Len(source)
    BY <1>2, <2>1, <2>3, TakesKeeps, PassingKeeps, RunsOutKeeps DEF Turn
  <2>4. QED
    BY <2>1, <2>2, <2>3
<1>4. QED
  BY <1>2, <1>3 DEF lexVars

LEMMA Initially ==
  ASSUME NEW sources \in SUBSET Seq(Char), LexInit(sources)
  PROVE  LexInv
<1>1. source \in Seq(Char) /\ it = 1 /\ tokens = <<>>
  BY DEF LexInit
<1>2. Len(source) \in Nat /\ Len(tokens) = 0 /\ DOMAIN tokens = {}
  BY <1>1, LenProperties
<1>3. TypeOK
  BY <1>1, <1>2 DEF TypeOK
<1>4. InTurn /\ AllTold
  BY <1>1, <1>2 DEF InTurn, AllTold
<1>5. QED
  BY <1>3, <1>4 DEF LexInv

-----------------------------------------------------------------------------
(* The theorem *)

LEMMA OnceHolds ==
  ASSUME LexInv
  PROVE  NothingLostOrTwice
<1> DEFINE TakenBy(k) == {i \in DOMAIN tokens : k \in tokens[i].from .. tokens[i].to}
           lost == {k \in 1 .. it - 1 : TakenBy(k) = {} /\ ~Passes(At(k))}
           first == CHOOSE j \in lost : \A i \in lost : j <= i
<1>1. TypeOK /\ InTurn /\ AllTold /\ Len(source) \in Nat /\ it \in Nat /\ it <= Len(source) + 1
  BY SourceIs DEF LexInv, TypeOK
<1>2. PICK n \in Nat : DOMAIN tokens = 1 .. n
  BY <1>1, TokensAre
<1>3. \A i \in 1 .. n : /\ tokens[i].from \in Nat /\ tokens[i].to \in Nat /\ tokens[i].to < it
                        /\ 1 <= tokens[i].from
  BY <1>1, <1>2 DEF TypeOK, InTurn
<1>3a. \A i, j \in 1 .. n : i < j => tokens[i].to < tokens[j].from
  BY <1>1, <1>2 DEF InTurn
<1>4. ASSUME NEW k \in 1 .. Len(source)
      PROVE  Cardinality(TakenBy(k)) <= (IF k < it THEN 1 ELSE 0)
  <2>1. CASE TakenBy(k) = {}
    <3>1. Cardinality(TakenBy(k)) = 0
      BY <2>1, FS_EmptySet
    <3>2. QED
      BY <1>1, <3>1
  <2>2. CASE TakenBy(k) # {}
    <3>1. PICK i \in 1 .. n : k \in tokens[i].from .. tokens[i].to
      BY <1>2, <2>2
    <3>2. \A j \in TakenBy(k) : j = i
      <4> SUFFICES ASSUME NEW j \in 1 .. n, k \in tokens[j].from .. tokens[j].to
                   PROVE  j = i
        BY <1>2
      <4>1. k <= tokens[i].to /\ tokens[i].from <= k /\ k <= tokens[j].to /\ tokens[j].from <= k
        BY <3>1
      <4>2. ~(i < j) /\ ~(j < i)
        BY <1>3, <1>3a, <4>1, SMTT(30)
      <4>3. QED
        BY <1>2, <4>2
    <3>3. TakenBy(k) = {i}
      BY <2>2, <3>2
    <3>4. Cardinality(TakenBy(k)) = 1
      <4> HIDE DEF TakenBy
      <4>1. QED
        BY <3>3, FS_Singleton
    <3>5. k < it
      BY <1>1, <1>3, <3>1
    <3>6. QED
      BY <3>4, <3>5
  <2>3. QED
    BY <2>1, <2>2
<1>5. \A k \in 1 .. it - 1 : Taken(k) <=> TakenBy(k) # {}
  BY <1>1, <1>2, <1>3 DEF Taken
<1>6. PICK o \in 1 .. it : /\ \A k \in 1 .. o - 1 : Told(k)
                           /\ \A k \in o .. it - 1 : ~Taken(k)
                           /\ o < it => Open(o) /\ it = Len(source) + 1
  BY <1>1 DEF AllTold
<1>7. lost \in SUBSET (o .. it - 1)
  <2> SUFFICES ASSUME NEW k \in 1 .. it - 1, TakenBy(k) = {}, ~Passes(At(k)), ~(k >= o)
               PROVE  FALSE
    BY <1>1
  <2>1. k \in 1 .. o - 1
    BY <1>1
  <2>2. Told(k) /\ ~Taken(k)
    BY <1>5, <1>6, <2>1
  <2>3. QED
    BY <2>2 DEF Told
<1>8. ASSUME NEW k \in lost
      PROVE  \/ At(first) = "/" /\ At(first + 1) = "*" /\ it > Len(source)
             \/ At(first) \in Quotes /\ first = Len(source)
  <2>1. o < it /\ o \in 1 .. it - 1 /\ Open(o) /\ it > Len(source)
    <3>1. k \in o .. it - 1
      BY <1>7
    <3>2. o < it
      BY <1>1, <3>1
    <3>3. QED
      BY <1>1, <1>6, <3>2
  <2>2. ~Passes(At(o))
    BY <2>1 DEF Open, Passes, Quotes
  <2>3. o \in lost
    BY <1>5, <1>6, <2>1, <2>2
  <2> HIDE DEF lost
  <2>4. \A i \in lost : o <= i /\ i \in Int
    BY <1>1, <1>7
  <2>5. first \in lost /\ \A i \in lost : first <= i
    BY <2>3, <2>4
  <2> HIDE DEF first
  <2>6. first = o
    BY <2>1, <2>3, <2>4, <2>5
  <2>7. QED
    BY <2>1, <2>6 DEF Open
<1> HIDE DEF lost, TakenBy
<1>9. \A k \in lost :
        LET open == first IN
        \/ At(open) = "/" /\ At(open + 1) = "*" /\ it > Len(source)
        \/ At(open) \in {"\"", "'"} /\ open = Len(source)
  BY <1>8, Zenon DEF Quotes
<1>10. QED
  BY <1>1, <1>4, <1>9, Zenon DEF NothingLostOrTwice, lost, TakenBy, first

\* For sources of any length, of any characters: each character is in one token or
\* begins none, and nothing is lost but a comment, or a quote at the very end, that is
\* not closed (the Lexer's constructor, and all that moves its iterator).
THEOREM NothingLost ==
  ASSUME NEW CONSTANT sources \in SUBSET Seq(Char)
  PROVE  LexSpec(sources) => []NothingLostOrTwice
<1>1. LexInit(sources) => LexInv
  BY Initially
<1>2. LexInv /\ [Scan \/ LexEnd]_lexVars => LexInv'
  BY Inductive
<1>3. LexInv => NothingLostOrTwice
  BY OnceHolds
<1>4. QED
  BY <1>1, <1>2, <1>3, PTL DEF LexSpec

-----------------------------------------------------------------------------
(* The parser: what its stacks hold is all that was said *)

Ops == Binary \cup Logical
Deeper(below) ==
  [node \in Leaves \cup [kind : {"expression"}, left : DOMAIN below, op : Ops, right : DOMAIN below] |->
     IF node.kind = "expression"
     THEN below[node.left] \o << <<node.op>> >> \o below[node.right]
     ELSE <<Label(node)>>]

\* Both tables are there, whatever the tokens are.
SaidTable(n, S) == S = [i \in 0 .. n |-> IF i = 0 THEN <<>> ELSE S[i - 1] \o Says(tokens[i])]
YieldTable(n, Y) == Y = [i \in 0 .. n |-> IF i = 0 THEN [leaf \in Leaves |-> <<Label(leaf)>>]
                                          ELSE Deeper(Y[i - 1])]

\* The first number that is bad, where 0 is not
LEMMA LeastBad ==
  ASSUME NEW Bad \in SUBSET Nat, Bad # {}, 0 \notin Bad
  PROVE  \E m \in Bad : m - 1 \in Nat /\ m - 1 \notin Bad /\ \A k \in Bad : m <= k
<1>1. PICK m \in Bad : \A y \in Bad : ~ (<<y, m>> \in OpToRel(<, Nat))
  BY NatLessThanWellFounded, WFMin
<1>2. \A y \in Bad : ~ (y < m)
  BY <1>1 DEF OpToRel
<1>3. \A y \in Bad : m <= y
  BY <1>2
<1>4. m # 0 /\ m \in Nat
  OBVIOUS
<1>5. m - 1 \in Nat /\ ~ (m <= m - 1)
  BY <1>4
<1>6. QED
  BY <1>3, <1>5

LEMMA SaidUpTo ==
  ASSUME NEW n \in Nat
  PROVE  \E S : SaidTable(n, S)
<1> DEFINE Bad == {m \in Nat : ~ \E S : SaidTable(m, S)}
<1>1. SaidTable(0, [i \in 0 .. 0 |-> <<>>])
  BY DEF SaidTable
<1>2. Bad \in SUBSET Nat /\ 0 \notin Bad
  BY <1>1
<1>3. ASSUME NEW m \in Nat, m # 0, NEW S, SaidTable(m - 1, S)
      PROVE  \E R : SaidTable(m, R)
  <2> DEFINE R == [i \in 0 .. m |-> IF i = m THEN S[m - 1] \o Says(tokens[m]) ELSE S[i]]
  <2>1. ASSUME NEW i \in 0 .. m
        PROVE  R[i] = IF i = 0 THEN <<>> ELSE R[i - 1] \o Says(tokens[i])
    <3>1. CASE i = 0
      BY <3>1, <1>3 DEF SaidTable
    <3>2. CASE i # 0
      <4>1. i - 1 \in 0 .. m - 1 /\ i - 1 # m /\ i - 1 \in 0 .. m
        BY <3>2, <1>3
      <4>2. R[i - 1] = S[i - 1]
        BY <4>1
      <4>3. CASE i = m
        BY <4>2, <4>3, <3>2
      <4>4. CASE i # m
        <5>1. i \in 0 .. m - 1
          BY <4>4, <1>3
        <5>2. S[i] = S[i - 1] \o Says(tokens[i])
          BY <5>1, <3>2, <1>3 DEF SaidTable
        <5>3. QED
          BY <5>2, <4>2, <4>4, <3>2
      <4>5. QED
        BY <4>3, <4>4
    <3>3. QED
      BY <3>1, <3>2
  <2>2. R = [i \in 0 .. m |-> R[i]]
    OBVIOUS
  <2> HIDE DEF R
  <2>3. SaidTable(m, R)
    BY <2>1, <2>2 DEF SaidTable
  <2>4. QED
    BY <2>3
<1>4. SUFFICES ASSUME Bad # {} PROVE FALSE
  OBVIOUS
<1> HIDE DEF Bad
<1>5. PICK m \in Bad : m - 1 \in Nat /\ m - 1 \notin Bad
  BY <1>2, <1>4, LeastBad
<1> USE DEF Bad
<1>6. PICK S : SaidTable(m - 1, S)
  BY <1>5
<1>7. m \in Nat /\ m # 0
  BY <1>5
<1>8. QED
  BY <1>3, <1>6, <1>7, <1>5

LEMMA YieldsUpTo ==
  ASSUME NEW n \in Nat
  PROVE  \E Y : YieldTable(n, Y)
<1> DEFINE Bad == {m \in Nat : ~ \E Y : YieldTable(m, Y)}
<1>1. YieldTable(0, [i \in 0 .. 0 |-> [leaf \in Leaves |-> <<Label(leaf)>>]])
  BY DEF YieldTable
<1>2. Bad \in SUBSET Nat /\ 0 \notin Bad
  BY <1>1
<1>3. ASSUME NEW m \in Nat, m # 0, NEW Y, YieldTable(m - 1, Y)
      PROVE  \E R : YieldTable(m, R)
  <2> DEFINE R == [i \in 0 .. m |-> IF i = m THEN Deeper(Y[m - 1]) ELSE Y[i]]
  <2>1. ASSUME NEW i \in 0 .. m
        PROVE  R[i] = IF i = 0 THEN [leaf \in Leaves |-> <<Label(leaf)>>] ELSE Deeper(R[i - 1])
    <3>1. CASE i = 0
      BY <3>1, <1>3 DEF YieldTable
    <3>2. CASE i # 0
      <4>1. i - 1 \in 0 .. m - 1 /\ i - 1 # m /\ i - 1 \in 0 .. m
        BY <3>2, <1>3
      <4>2. R[i - 1] = Y[i - 1]
        BY <4>1
      <4>3. CASE i = m
        BY <4>2, <4>3, <3>2
      <4>4. CASE i # m
        <5>1. i \in 0 .. m - 1
          BY <4>4, <1>3
        <5>2. Y[i] = Deeper(Y[i - 1])
          BY <5>1, <3>2, <1>3 DEF YieldTable
        <5>3. QED
          BY <5>2, <4>2, <4>4, <3>2
      <4>5. QED
        BY <4>3, <4>4
    <3>3. QED
      BY <3>1, <3>2
  <2>2. R = [i \in 0 .. m |-> R[i]]
    OBVIOUS
  <2> HIDE DEF R
  <2>3. YieldTable(m, R)
    BY <2>1, <2>2 DEF YieldTable
  <2>4. QED
    BY <2>3
<1>4. SUFFICES ASSUME Bad # {} PROVE FALSE
  OBVIOUS
<1> HIDE DEF Bad
<1>5. PICK m \in Bad : m - 1 \in Nat /\ m - 1 \notin Bad
  BY <1>2, <1>4, LeastBad
<1> USE DEF Bad
<1>6. PICK Y : YieldTable(m - 1, Y)
  BY <1>5
<1>7. m \in Nat /\ m # 0
  BY <1>5
<1>8. QED
  BY <1>3, <1>6, <1>7, <1>5

LEMMA SaidIs ==
  ASSUME TypeOK
  PROVE  SaidTable(Len(tokens), Said)
<1>1. PICK S : SaidTable(Len(tokens), S)
  BY SaidUpTo, TokensAre
<1>2. QED
  BY <1>1 DEF SaidTable, Said

LEMMA YieldsIs ==
  ASSUME TypeOK
  PROVE  YieldTable(Len(tokens), Yields)
<1>1. PICK Y : YieldTable(Len(tokens), Y)
  BY YieldsUpTo, TokensAre
<1>2. QED
  BY <1>1 DEF YieldTable, Yields, Deeper, Ops

\* All that a token or a tree may say
Sayings == {tokens[i].lexeme : i \in DOMAIN tokens} \cup {<<op>> : op \in Ops} \cup {<<>>}

\* The table of the trees: who is in it stays in it, and is read as before; two
\* trees make one that is deeper.
Lasting(Y, N) ==
  \A m, n \in 0 .. N : m <= n => \A x \in DOMAIN Y[m] : x \in DOMAIN Y[n] /\ Y[n][x] = Y[m][x]
Joining(Y, N) ==
  \A n \in 1 .. N : \A l, r \in DOMAIN Y[n - 1], op \in Ops :
    /\ Expression(l, op, r) \in DOMAIN Y[n]
    /\ Y[n][Expression(l, op, r)] = Y[n - 1][l] \o << <<op>> >> \o Y[n - 1][r]
Reading(Y, N, T) ==
  \A n \in 0 .. N :
    /\ \A x \in DOMAIN Y[n] : Y[n][x] \in Seq(T)
    /\ \A x \in DOMAIN Y[n] : x.kind = "operator" => x.op \in Ops /\ Y[n][x] = << <<x.op>> >>
    /\ Null \in DOMAIN Y[n] /\ Y[n][Null] = << <<>> >>
    /\ ErrorNode \in DOMAIN Y[n] /\ Y[n][ErrorNode] = << <<>> >>
    /\ \A op \in Ops : OperatorNode(op) \in DOMAIN Y[n] /\ Y[n][OperatorNode(op)] = << <<op>> >>
    /\ \A i \in DOMAIN tokens :
         Factor(tokens[i]) \in DOMAIN Y[n] /\ Y[n][Factor(tokens[i])] = << tokens[i].lexeme >>
Talking(S, N, T) ==
  /\ S[0] = <<>>
  /\ \A i \in 0 .. N : S[i] \in Seq(T)
  /\ \A i \in 1 .. N : S[i] = S[i - 1] \o Says(tokens[i])

LEMMA OneSaying ==
  ASSUME NEW T, NEW x \in T
  PROVE  <<x>> \in Seq(T)
  OBVIOUS

LEMMA SaysIs ==
  ASSUME NEW i \in DOMAIN tokens
  PROVE  Says(tokens[i]) \in Seq(Sayings)
<1>1. <<>> \in Seq(Sayings) /\ << tokens[i].lexeme >> \in Seq(Sayings)
  BY OneSaying DEF Sayings
<1>2. \A op \in Ops : << <<op>> >> \in Seq(Sayings)
  BY OneSaying DEF Sayings
<1>3. QED
  BY <1>1, <1>2 DEF Says, Ops

LEMMA LeafIs ==
  ASSUME NEW x \in Leaves
  PROVE  /\ x.kind # "expression"
         /\ <<Label(x)>> \in Seq(Sayings)
         /\ x.kind = "operator" => x.op \in Ops /\ Label(x) = <<x.op>>
<1>1. CASE x \in {Factor(tokens[i]) : i \in DOMAIN tokens}
  <2>1. PICK i \in DOMAIN tokens : x = Factor(tokens[i])
    BY <1>1
  <2>2. x.kind = "factor" /\ x.text = tokens[i].lexeme
    BY <2>1 DEF Factor
  <2>3. Label(x) = tokens[i].lexeme
    BY <2>2 DEF Label
  <2>4. QED
    BY <2>2, <2>3, OneSaying DEF Sayings
<1>2. CASE x \in {OperatorNode(op) : op \in Ops}
  <2>1. PICK op \in Ops : x = OperatorNode(op)
    BY <1>2
  <2>2. x.kind = "operator" /\ x.op = op
    BY <2>1 DEF OperatorNode
  <2>3. Label(x) = <<op>>
    BY <2>2 DEF Label
  <2>4. QED
    BY <2>2, <2>3, OneSaying DEF Sayings
<1>3. CASE x \in {Null, ErrorNode}
  <2>1. x.kind = "null" \/ x.kind = "error"
    BY <1>3 DEF Null, ErrorNode
  <2>2. Label(x) = <<>>
    BY <2>1 DEF Label
  <2>3. QED
    BY <2>1, <2>2, OneSaying DEF Sayings
<1>4. QED
  BY <1>1, <1>2, <1>3 DEF Leaves, Ops

LEMMA DeeperIs ==
  ASSUME NEW below
  PROVE  /\ DOMAIN Deeper(below) = Leaves \cup [kind : {"expression"}, left : DOMAIN below,
                                               op : Ops, right : DOMAIN below]
         /\ \A x \in Leaves : x \in DOMAIN Deeper(below) /\ Deeper(below)[x] = <<Label(x)>>
         /\ \A l, r \in DOMAIN below, op \in Ops :
              /\ Expression(l, op, r) \in DOMAIN Deeper(below)
              /\ Deeper(below)[Expression(l, op, r)] = below[l] \o << <<op>> >> \o below[r]
         /\ \A x \in DOMAIN Deeper(below) : x \notin Leaves =>
              \E l, r \in DOMAIN below, op \in Ops : x = Expression(l, op, r)
<1>1. DOMAIN Deeper(below) = Leaves \cup [kind : {"expression"}, left : DOMAIN below,
                                          op : Ops, right : DOMAIN below]
  BY DEF Deeper
<1>2. \A x \in Leaves : x \in DOMAIN Deeper(below) /\ Deeper(below)[x] = <<Label(x)>>
  BY LeafIs DEF Deeper
<1>3. ASSUME NEW l \in DOMAIN below, NEW r \in DOMAIN below, NEW op \in Ops
      PROVE  /\ Expression(l, op, r) \in DOMAIN Deeper(below)
             /\ Deeper(below)[Expression(l, op, r)] = below[l] \o << <<op>> >> \o below[r]
  <2>1. PICK e : e = Expression(l, op, r)
    OBVIOUS
  <2>2. e.kind = "expression" /\ e.left = l /\ e.op = op /\ e.right = r
    BY <2>1 DEF Expression
  <2>3. e \in [kind : {"expression"}, left : DOMAIN below, op : Ops, right : DOMAIN below]
    BY <2>1 DEF Expression
  <2>4. e \in DOMAIN Deeper(below)
    BY <1>1, <2>3
  <2>5. Deeper(below)[e] = below[l] \o << <<op>> >> \o below[r]
    BY <2>2, <2>3 DEF Deeper
  <2>6. QED
    BY <2>1, <2>4, <2>5
<1>4. ASSUME NEW x \in DOMAIN Deeper(below), x \notin Leaves
      PROVE  \E l, r \in DOMAIN below, op \in Ops : x = Expression(l, op, r)
  <2>1. x \in [kind : {"expression"}, left : DOMAIN below, op : Ops, right : DOMAIN below]
    BY <1>1, <1>4
  <2>2. x = Expression(x.left, x.op, x.right) /\ x.left \in DOMAIN below /\ x.op \in Ops
          /\ x.right \in DOMAIN below
    BY <2>1 DEF Expression
  <2>3. QED
    BY <2>2
<1>5. QED
  BY <1>1, <1>2, <1>3, <1>4

LEMMA TalkingHolds ==
  ASSUME TypeOK, NEW S, SaidTable(Len(tokens), S)
  PROVE  Talking(S, Len(tokens), Sayings)
<1>1. PICK n \in Nat : n = Len(tokens) /\ DOMAIN tokens = 1 .. n
  BY TokensAre
<1>1a. PICK R : R = [i \in 0 .. n |-> IF i = 0 THEN <<>> ELSE S[i - 1] \o Says(tokens[i])]
  OBVIOUS
<1>1b. R[0] = <<>> /\ \A i \in 1 .. n : R[i] = S[i - 1] \o Says(tokens[i])
  <2>1. ASSUME NEW i \in 0 .. n
        PROVE  R[i] = IF i = 0 THEN <<>> ELSE S[i - 1] \o Says(tokens[i])
    BY <1>1a, Zenon
  <2>2. 0 \in 0 .. n /\ \A i \in 1 .. n : i \in 0 .. n /\ i # 0
    OBVIOUS
  <2>3. R[0] = <<>>
    BY <2>1, <2>2, Zenon
  <2>4. ASSUME NEW i \in 1 .. n
        PROVE  R[i] = S[i - 1] \o Says(tokens[i])
    BY <2>1, <2>2, Zenon
  <2>5. QED
    BY <2>3, <2>4, Zenon
<1>1c. S = R
  BY <1>1, <1>1a DEF SaidTable
<1>2. S[0] = <<>> /\ \A i \in 1 .. n : S[i] = S[i - 1] \o Says(tokens[i])
  BY <1>1b, <1>1c
<1> DEFINE Bad == {i \in 0 .. n : S[i] \notin Seq(Sayings)}
<1>3. ASSUME Bad # {} PROVE FALSE
  <2>0. S[0] \in Seq(Sayings)
    BY <1>2, EmptySeq
  <2>1. Bad \in SUBSET Nat /\ 0 \notin Bad
    BY <2>0
  <2> HIDE DEF Bad
  <2>2. PICK i \in Bad : i - 1 \in Nat /\ i - 1 \notin Bad
    BY <1>3, <2>1, LeastBad
  <2> USE DEF Bad
  <2>3. i \in 1 .. n /\ i - 1 \in 0 .. n
    BY <2>2
  <2>4. S[i - 1] \in Seq(Sayings) /\ Says(tokens[i]) \in Seq(Sayings)
    BY <1>1, <2>2, <2>3, SaysIs
  <2>5. S[i - 1] \o Says(tokens[i]) \in Seq(Sayings)
    BY <2>4, ConcatProperties
  <2>6. QED
    BY <1>2, <2>2, <2>3, <2>5
<1>4. QED
  BY <1>1, <1>2, <1>3 DEF Talking

LEMMA TableIs ==
  ASSUME NEW N \in Nat, NEW Y, YieldTable(N, Y)
  PROVE  /\ \A n \in 0 .. N : \A x \in Leaves : x \in DOMAIN Y[n] /\ Y[n][x] = <<Label(x)>>
         /\ Joining(Y, N)
         /\ \A n \in 0 .. N : \A x \in DOMAIN Y[n] : x \notin Leaves =>
              n \in 1 .. N /\ \E l, r \in DOMAIN Y[n - 1], op \in Ops : x = Expression(l, op, r)
<1>1. Y[0] = [leaf \in Leaves |-> <<Label(leaf)>>]
  BY DEF YieldTable
<1>2. ASSUME NEW n \in 0 .. N, n # 0
      PROVE  /\ \A x \in Leaves : x \in DOMAIN Y[n] /\ Y[n][x] = <<Label(x)>>
             /\ \A l, r \in DOMAIN Y[n - 1], op \in Ops :
                  /\ Expression(l, op, r) \in DOMAIN Y[n]
                  /\ Y[n][Expression(l, op, r)] = Y[n - 1][l] \o << <<op>> >> \o Y[n - 1][r]
             /\ \A x \in DOMAIN Y[n] : x \notin Leaves =>
                  \E l, r \in DOMAIN Y[n - 1], op \in Ops : x = Expression(l, op, r)
  <2>1. PICK B : B = Y[n - 1]
    OBVIOUS
  <2>2. PICK D : D = Deeper(B)
    OBVIOUS
  <2>3. Y[n] = D
    BY <1>2, <2>1, <2>2 DEF YieldTable
  <2>4. /\ \A x \in Leaves : x \in DOMAIN D /\ D[x] = <<Label(x)>>
        /\ \A l, r \in DOMAIN B, op \in Ops :
             /\ Expression(l, op, r) \in DOMAIN D
             /\ D[Expression(l, op, r)] = B[l] \o << <<op>> >> \o B[r]
        /\ \A x \in DOMAIN D : x \notin Leaves =>
             \E l, r \in DOMAIN B, op \in Ops : x = Expression(l, op, r)
    <3>1. /\ \A x \in Leaves : x \in DOMAIN Deeper(B) /\ Deeper(B)[x] = <<Label(x)>>
          /\ \A l, r \in DOMAIN B, op \in Ops :
               /\ Expression(l, op, r) \in DOMAIN Deeper(B)
               /\ Deeper(B)[Expression(l, op, r)] = B[l] \o << <<op>> >> \o B[r]
          /\ \A x \in DOMAIN Deeper(B) : x \notin Leaves =>
               \E l, r \in DOMAIN B, op \in Ops : x = Expression(l, op, r)
      BY DeeperIs, Zenon
    <3>2. QED
      BY <2>2, <3>1, Zenon
  <2>5. \A x \in Leaves : x \in DOMAIN Y[n] /\ Y[n][x] = <<Label(x)>>
    BY <2>3, <2>4, Zenon
  <2>6. \A l, r \in DOMAIN Y[n - 1], op \in Ops :
          /\ Expression(l, op, r) \in DOMAIN Y[n]
          /\ Y[n][Expression(l, op, r)] = Y[n - 1][l] \o << <<op>> >> \o Y[n - 1][r]
    BY <2>1, <2>3, <2>4, ZenonT(60)
  <2>7. \A x \in DOMAIN Y[n] : x \notin Leaves =>
          \E l, r \in DOMAIN Y[n - 1], op \in Ops : x = Expression(l, op, r)
    BY <2>1, <2>3, <2>4, ZenonT(60)
  <2>8. QED
    BY <2>5, <2>6, <2>7, Zenon
<1>3. ASSUME NEW n \in 0 .. N, NEW x \in Leaves
      PROVE  x \in DOMAIN Y[n] /\ Y[n][x] = <<Label(x)>>
  <2>1. CASE n = 0
    BY <1>1, <2>1
  <2>2. CASE n # 0
    BY <1>2, <2>2
  <2>3. QED
    BY <2>1, <2>2
<1>4. \A n \in 1 .. N : n \in 0 .. N /\ n # 0
  OBVIOUS
<1>5. Joining(Y, N)
  BY <1>2, <1>4, Zenon DEF Joining
<1>6. ASSUME NEW n \in 0 .. N, NEW x \in DOMAIN Y[n], x \notin Leaves
      PROVE  n \in 1 .. N /\ \E l, r \in DOMAIN Y[n - 1], op \in Ops : x = Expression(l, op, r)
  <2>1. n # 0
    BY <1>1, <1>6
  <2>2. n \in 1 .. N
    BY <2>1
  <2>3. QED
    BY <1>2, <1>6, <2>1, <2>2, Zenon
<1>7. QED
  BY <1>3, <1>5, <1>6

LEMMA LastingHolds ==
  ASSUME NEW N \in Nat, NEW Y, YieldTable(N, Y)
  PROVE  Lasting(Y, N)
<1> DEFINE Next1(n) == \A x \in DOMAIN Y[n] : x \in DOMAIN Y[n + 1] /\ Y[n + 1][x] = Y[n][x]
           Bad == {n \in 0 .. N - 1 : ~Next1(n)}
<1>1. Joining(Y, N)
  BY TableIs
<1>2. N > 0 => Next1(0)
  BY TableIs
<1>3. ASSUME NEW n \in 1 .. N - 1, Next1(n - 1)
      PROVE  Next1(n)
  <2>1. n \in 1 .. N /\ n + 1 \in 1 .. N /\ n + 1 - 1 = n /\ n - 1 + 1 = n
    OBVIOUS
  <2>2. n \in 0 .. N /\ n + 1 \in 0 .. N
    BY <2>1
  <2>3. ASSUME NEW x \in DOMAIN Y[n]
        PROVE  x \in DOMAIN Y[n + 1] /\ Y[n + 1][x] = Y[n][x]
    <3>1. CASE x \in Leaves
      BY <3>1, <2>1, TableIs
    <3>2. CASE x \notin Leaves
      <4>1. PICK l \in DOMAIN Y[n - 1], r \in DOMAIN Y[n - 1], op \in Ops : x = Expression(l, op, r)
        <5>1. PICK k \in 0 .. N : k = n
          BY <2>2
        <5>2. x \in DOMAIN Y[k]
          BY <5>1
        <5>3. \E l, r \in DOMAIN Y[k - 1], op \in Ops : x = Expression(l, op, r)
          BY <5>2, <3>2, TableIs
        <5>4. QED
          BY <5>1, <5>3
      <4>2. l \in DOMAIN Y[n] /\ r \in DOMAIN Y[n] /\ Y[n][l] = Y[n - 1][l] /\ Y[n][r] = Y[n - 1][r]
        BY <1>3, <2>1
      <4>3. Y[n][x] = Y[n - 1][l] \o << <<op>> >> \o Y[n - 1][r]
        BY <4>1, <2>1, <1>1 DEF Joining
      <4>4. x \in DOMAIN Y[n + 1] /\ Y[n + 1][x] = Y[n][l] \o << <<op>> >> \o Y[n][r]
        <5>1. PICK k : k = n + 1 /\ k \in 1 .. N /\ k - 1 = n
          BY <2>1
        <5>2. x \in DOMAIN Y[k] /\ Y[k][x] = Y[k - 1][l] \o << <<op>> >> \o Y[k - 1][r]
          <6>1. l \in DOMAIN Y[k - 1] /\ r \in DOMAIN Y[k - 1] /\ op \in Ops
            BY <4>2, <5>1
          <6>2. QED
            BY <4>1, <5>1, <6>1, <1>1 DEF Joining
        <5>3. QED
          BY <5>1, <5>2
      <4>5. QED
        BY <4>2, <4>3, <4>4
    <3>3. QED
      BY <3>1, <3>2
  <2>4. QED
    BY <2>3
<1>4. Bad = {}
  <2>1. SUFFICES ASSUME Bad # {} PROVE FALSE
    OBVIOUS
  <2>2. Bad \in SUBSET Nat /\ 0 \notin Bad
    BY <1>2
  <2> HIDE DEF Bad
  <2>3. PICK n \in Bad : n - 1 \in Nat /\ n - 1 \notin Bad
    BY <2>1, <2>2, LeastBad
  <2> USE DEF Bad
  <2> HIDE DEF Next1
  <2>4. n \in 1 .. N - 1 /\ n - 1 \in 0 .. N - 1
    BY <2>3
  <2>5. Next1(n - 1) /\ ~Next1(n)
    BY <2>3, <2>4
  <2>6. QED
    BY <1>3, <2>4, <2>5
<1>5. \A n \in 0 .. N - 1 : Next1(n)
  BY <1>4
<1>6. ASSUME NEW m \in 0 .. N
      PROVE  \A n \in m .. N : \A x \in DOMAIN Y[m] : x \in DOMAIN Y[n] /\ Y[n][x] = Y[m][x]
  <2> DEFINE Upto(k) == \A x \in DOMAIN Y[m] : x \in DOMAIN Y[m + k] /\ Y[m + k][x] = Y[m][x]
             Worse == {k \in 0 .. N - m : ~Upto(k)}
  <2>1. Upto(0) /\ \A k \in 0 .. N - m : m + k \in 0 .. N
    OBVIOUS
  <2>2. Worse = {}
    <3>1. SUFFICES ASSUME Worse # {} PROVE FALSE
      OBVIOUS
    <3>2. Worse \in SUBSET Nat /\ 0 \notin Worse
      BY <2>1
    <3> HIDE DEF Worse
    <3>3. PICK k \in Worse : k - 1 \in Nat /\ k - 1 \notin Worse
      BY <3>1, <3>2, LeastBad
    <3> USE DEF Worse
    <3> HIDE DEF Upto
    <3>4. k \in 0 .. N - m /\ k - 1 \in 0 .. N - m
      BY <3>3
    <3>5. Upto(k - 1) /\ ~Upto(k)
      BY <3>3, <3>4
    <3>6. PICK a : a = m + (k - 1) /\ a \in 0 .. N - 1 /\ a + 1 = m + k
      BY <3>4
    <3>7. Next1(a)
      BY <1>5, <3>6
    <3> HIDE DEF Worse
    <3> USE DEF Upto
    <3>8. Upto(k)
      BY <3>5, <3>6, <3>7
    <3>9. QED
      BY <3>5, <3>8
  <2>3. ASSUME NEW n \in m .. N PROVE Upto(n - m)
    <3>1. n - m \in 0 .. N - m
      OBVIOUS
    <3> HIDE DEF Upto
    <3>2. QED
      BY <2>2, <3>1
  <2>4. \A n \in m .. N : m + (n - m) = n
    OBVIOUS
  <2>5. QED
    BY <2>3, <2>4
<1>7. QED
  BY <1>6 DEF Lasting

LEMMA ReadingHolds ==
  ASSUME NEW N \in Nat, NEW Y, YieldTable(N, Y)
  PROVE  Reading(Y, N, Sayings)
<1> DEFINE Read(n) == \A x \in DOMAIN Y[n] : Y[n][x] \in Seq(Sayings)
           Bad == {n \in 0 .. N : ~Read(n)}
<1>1. Read(0)
  <2>1. SUFFICES ASSUME NEW x \in DOMAIN Y[0] PROVE Y[0][x] \in Seq(Sayings)
    OBVIOUS
  <2>2. x \in Leaves
    BY TableIs
  <2>3. Y[0][x] = <<Label(x)>>
    BY <2>2, TableIs
  <2>4. QED
    BY <2>2, <2>3, LeafIs
<1>2. ASSUME NEW n \in 1 .. N, Read(n - 1) PROVE Read(n)
  <2>1. Joining(Y, N) /\ n \in 0 .. N
    BY TableIs
  <2>2. SUFFICES ASSUME NEW x \in DOMAIN Y[n] PROVE Y[n][x] \in Seq(Sayings)
    OBVIOUS
  <2>3. CASE x \in Leaves
    <3>1. Y[n][x] = <<Label(x)>>
      BY <2>1, <2>3, TableIs
    <3>2. QED
      BY <2>3, <3>1, LeafIs
  <2>4. CASE x \notin Leaves
    <3>1. PICK l \in DOMAIN Y[n - 1], r \in DOMAIN Y[n - 1], op \in Ops : x = Expression(l, op, r)
      <4>1. PICK k \in 0 .. N : k = n
        BY <2>1
      <4>2. x \in DOMAIN Y[k]
        BY <4>1
      <4>3. \E l, r \in DOMAIN Y[k - 1], op \in Ops : x = Expression(l, op, r)
        BY <4>2, <2>4, TableIs
      <4>4. QED
        BY <4>1, <4>3
    <3>2. Y[n][x] = Y[n - 1][l] \o << <<op>> >> \o Y[n - 1][r]
      BY <2>1, <3>1 DEF Joining
    <3>3. << <<op>> >> \in Seq(Sayings)
      BY OneSaying DEF Sayings
    <3>4. PICK a, b \in Seq(Sayings) : a = Y[n - 1][l] /\ b = Y[n - 1][r]
      BY <1>2
    <3>5. a \o << <<op>> >> \o b \in Seq(Sayings)
      BY <3>3, <3>4, ConcatProperties
    <3>6. QED
      BY <3>2, <3>4, <3>5
  <2>5. QED
    BY <2>3, <2>4
<1>3. Bad = {}
  <2>1. SUFFICES ASSUME Bad # {} PROVE FALSE
    OBVIOUS
  <2>2. Bad \in SUBSET Nat /\ 0 \notin Bad
    BY <1>1
  <2> HIDE DEF Bad
  <2>3. PICK n \in Bad : n - 1 \in Nat /\ n - 1 \notin Bad
    BY <2>1, <2>2, LeastBad
  <2> USE DEF Bad
  <2> HIDE DEF Read
  <2>4. n \in 1 .. N /\ Read(n - 1) /\ ~Read(n)
    BY <2>3
  <2>5. QED
    BY <1>2, <2>4
<1>4. \A n \in 0 .. N : Read(n)
  BY <1>3
<1>5. ASSUME NEW n \in 0 .. N, NEW x \in DOMAIN Y[n], x.kind = "operator"
      PROVE  x.op \in Ops /\ Y[n][x] = << <<x.op>> >>
  <2>1. CASE x \in Leaves
    BY <1>5, <2>1, TableIs, LeafIs
  <2>2. CASE x \notin Leaves
    <3>2. PICK l, r, op : x = Expression(l, op, r)
      BY <2>2, TableIs
    <3>3. x.kind = "expression"
      BY <3>2 DEF Expression
    <3>4. QED
      BY <1>5, <3>3
  <2>3. QED
    BY <2>1, <2>2
<1>6. /\ Null \in Leaves /\ Label(Null) = <<>>
      /\ ErrorNode \in Leaves /\ Label(ErrorNode) = <<>>
  BY DEF Leaves, Label, Null, ErrorNode
<1>7. \A op \in Ops : OperatorNode(op) \in Leaves /\ Label(OperatorNode(op)) = <<op>>
  BY DEF Leaves, Label, OperatorNode, Ops
<1>8. \A i \in DOMAIN tokens :
        Factor(tokens[i]) \in Leaves /\ Label(Factor(tokens[i])) = tokens[i].lexeme
  BY DEF Leaves, Label, Factor
<1>9. \A n \in 0 .. N : \A x \in Leaves : x \in DOMAIN Y[n] /\ Y[n][x] = <<Label(x)>>
  BY TableIs
<1> HIDE DEF Bad
<1>10. QED
  BY <1>4, <1>5, <1>6, <1>7, <1>8, <1>9 DEF Reading

\* A node of a stack stands for the tokens after the first a, up to the b-th: it has
\* a hole, or it says what they say.  An operator stands for one token at least.
Holed(yield) == \E i \in DOMAIN yield : yield[i] = <<>>
Stands(Y, S, node, a, b) ==
  /\ a <= b /\ node \in DOMAIN Y[b - a]
  /\ node.kind = "operator" => a < b
  /\ Holed(Y[b - a][node]) \/ S[b] = S[a] \o Y[b - a][node]

\* The nodes of a stack stand for the tokens after the first a, up to the b-th, in
\* turn; what follows says nothing.
Cuts(Y, S, s, a, b, cut) ==
  /\ cut \in [0 .. Len(s) -> Nat]
  /\ cut[0] = a /\ cut[Len(s)] <= b /\ S[cut[Len(s)]] = S[b]
  /\ \A i \in 1 .. Len(s) : Stands(Y, S, s[i], cut[i - 1], cut[i])
Covers(Y, S, N, s, a, b) ==
  /\ s \in Seq(DOMAIN Y[N]) /\ a \in 0 .. N /\ b \in 0 .. N
  /\ \E cut : Cuts(Y, S, s, a, b, cut)

\* What the proofs of the stacks know of the two tables
Tables(Y, S, N) ==
  /\ N \in Nat /\ N = Len(tokens) /\ DOMAIN tokens = 1 .. N
  /\ Lasting(Y, N) /\ Joining(Y, N)
  /\ Reading(Y, N, Sayings) /\ Talking(S, N, Sayings)

LEMMA TablesHold ==
  ASSUME TypeOK
  PROVE  Tables(Yields, Said, Len(tokens))
<1>1. PICK N \in Nat : N = Len(tokens) /\ DOMAIN tokens = 1 .. N
  BY TokensAre
<1>2. PICK Y, S : Y = Yields /\ S = Said
  OBVIOUS
<1>3. YieldTable(N, Y) /\ SaidTable(Len(tokens), S)
  BY <1>1, <1>2, SaidIs, YieldsIs
<1>4. Lasting(Y, N) /\ Joining(Y, N) /\ Reading(Y, N, Sayings)
  BY <1>1, <1>3, LastingHolds, TableIs, ReadingHolds
<1>5. Talking(S, Len(tokens), Sayings)
  BY <1>3, TalkingHolds
<1>6. QED
  BY <1>1, <1>2, <1>4, <1>5 DEF Tables

LEMMA Within ==
  ASSUME NEW N \in Nat, NEW a \in 0 .. N, NEW b \in 0 .. N, a <= b
  PROVE  b - a \in 0 .. N
  OBVIOUS

\* Tokens that say nothing may follow, and may come first.
LEMMA StandsWider ==
  ASSUME NEW Y, NEW S, NEW N, Tables(Y, S, N), NEW node,
         NEW a \in 0 .. N, NEW b \in 0 .. N, NEW c \in 0 .. N, NEW d \in 0 .. N,
         c <= a, b <= d, S[c] = S[a], S[b] = S[d], Stands(Y, S, node, a, b)
  PROVE  Stands(Y, S, node, c, d) /\ Y[d - c][node] = Y[b - a][node]
<1>1. N \in Nat /\ a <= b
  BY DEF Tables, Stands
<1>2. PICK k \in 0 .. N : k = b - a
  BY <1>1
<1>3. PICK m \in 0 .. N : m = d - c /\ k <= m /\ c <= d
  BY <1>1, <1>2
<1>4. node \in DOMAIN Y[k]
  BY <1>2 DEF Stands
<1>5. node \in DOMAIN Y[m] /\ Y[m][node] = Y[k][node]
  BY <1>1, <1>3, <1>4 DEF Tables, Lasting
<1>6. Holed(Y[k][node]) \/ S[b] = S[a] \o Y[k][node]
  BY <1>2 DEF Stands
<1>7. node.kind = "operator" => c < d
  BY <1>1 DEF Stands
<1>8. QED
  BY <1>2, <1>3, <1>5, <1>6, <1>7 DEF Stands

\* Where the cuts are
LEMMA CutsRise ==
  ASSUME NEW Y, NEW S, NEW s, NEW n \in Nat, n = Len(s), NEW a, NEW b, NEW cut,
         Cuts(Y, S, s, a, b, cut)
  PROVE  \A i, j \in 0 .. n : i <= j => cut[i] <= cut[j]
<1>1. cut \in [0 .. n -> Nat] /\ \A i \in 1 .. n : cut[i - 1] <= cut[i]
  BY DEF Cuts, Stands
<1>2. SUFFICES ASSUME NEW i \in 0 .. n PROVE \A j \in i .. n : cut[i] <= cut[j]
  OBVIOUS
<1> DEFINE Bad == {k \in 0 .. n - i : ~ (cut[i] <= cut[i + k])}
<1>3. Bad = {}
  <2>1. SUFFICES ASSUME Bad # {} PROVE FALSE
    OBVIOUS
  <2>2. Bad \in SUBSET Nat /\ 0 \notin Bad
    BY <1>1
  <2> HIDE DEF Bad
  <2>3. PICK k \in Bad : k - 1 \in Nat /\ k - 1 \notin Bad
    BY <2>1, <2>2, LeastBad
  <2> USE DEF Bad
  <2>4. PICK j : j = i + k /\ j \in 1 .. n /\ j - 1 = i + (k - 1) /\ k - 1 \in 0 .. n - i
    BY <2>3
  <2>5. cut[i] <= cut[j - 1] /\ cut[j - 1] <= cut[j] /\ ~ (cut[i] <= cut[j])
    BY <1>1, <2>3, <2>4
  <2>6. cut[i] \in Nat /\ cut[j - 1] \in Nat /\ cut[j] \in Nat
    <3>1. i \in 0 .. n /\ j - 1 \in 0 .. n /\ j \in 0 .. n
      BY <2>4
    <3>2. QED
      BY <1>1, <3>1, Zenon
  <2>7. QED
    BY <2>5, <2>6
<1>4. ASSUME NEW j \in i .. n PROVE cut[i] <= cut[j]
  <2>1. j - i \in 0 .. n - i /\ i + (j - i) = j
    OBVIOUS
  <2>2. QED
    BY <1>3, <2>1
<1>5. QED
  BY <1>4

LEMMA CutsIn ==
  ASSUME NEW Y, NEW S, NEW N \in Nat, NEW s, NEW n \in Nat, n = Len(s),
         NEW a \in 0 .. N, NEW b \in 0 .. N, NEW cut, Cuts(Y, S, s, a, b, cut)
  PROVE  \A i \in 0 .. n : cut[i] \in 0 .. N
<1>1. cut \in [0 .. n -> Nat] /\ cut[n] <= b
  BY DEF Cuts
<1>2. \A i \in 0 .. n : cut[i] <= cut[n]
  BY CutsRise
<1>3. QED
  BY <1>1, <1>2

LEMMA CoversEmpty ==
  ASSUME NEW Y, NEW S, NEW N, Tables(Y, S, N), NEW a \in 0 .. N
  PROVE  Covers(Y, S, N, <<>>, a, a)
<1>1. N \in Nat /\ Len(<<>>) = 0 /\ <<>> \in Seq(DOMAIN Y[N])
  BY EmptySeq DEF Tables
<1>2. PICK cut : cut = [i \in 0 .. 0 |-> a]
  OBVIOUS
<1>3. cut \in [0 .. 0 -> Nat] /\ cut[0] = a
  BY <1>1, <1>2
<1>4. Cuts(Y, S, <<>>, a, a, cut)
  BY <1>1, <1>3 DEF Cuts
<1>5. QED
  BY <1>1, <1>4 DEF Covers

LEMMA CoversWider ==
  ASSUME NEW Y, NEW S, NEW N, Tables(Y, S, N), NEW s, NEW a, NEW b, NEW c \in 0 .. N,
         Covers(Y, S, N, s, a, b), b <= c, S[b] = S[c]
  PROVE  Covers(Y, S, N, s, a, c)
<1>1. PICK cut : Cuts(Y, S, s, a, b, cut)
  BY DEF Covers
<1>2. Len(s) \in Nat /\ s \in Seq(DOMAIN Y[N]) /\ a \in 0 .. N /\ b \in 0 .. N
  BY LenProperties DEF Covers
<1>3. cut[Len(s)] \in Nat
  BY <1>1, <1>2 DEF Cuts
<1>4. cut[Len(s)] <= c
  BY <1>1, <1>2, <1>3 DEF Cuts, Tables
<1>5. Cuts(Y, S, s, a, c, cut)
  BY <1>1, <1>4 DEF Cuts
<1>6. QED
  BY <1>2, <1>5 DEF Covers

LEMMA CoversOneMore ==
  ASSUME NEW Y, NEW S, NEW N, Tables(Y, S, N), NEW s, NEW node, NEW a, NEW b, NEW c \in 0 .. N,
         Covers(Y, S, N, s, a, b), Stands(Y, S, node, b, c)
  PROVE  Covers(Y, S, N, Append(s, node), a, c)
<1>1. PICK cut : Cuts(Y, S, s, a, b, cut)
  BY DEF Covers
<1>2. N \in Nat /\ s \in Seq(DOMAIN Y[N]) /\ a \in 0 .. N /\ b \in 0 .. N
  BY DEF Covers, Tables
<1>3. PICK n \in Nat : n = Len(s)
  BY <1>2, LenProperties
<1>4. cut \in [0 .. n -> Nat] /\ \A i \in 0 .. n : cut[i] \in 0 .. N
  BY <1>1, <1>2, <1>3, CutsIn DEF Cuts
<1>5. PICK e \in 0 .. N : e = cut[n] /\ e <= b /\ S[e] = S[b]
  BY <1>1, <1>3, <1>4 DEF Cuts
<1>6. Stands(Y, S, node, e, c)
  BY <1>2, <1>5, StandsWider
<1>7. node \in DOMAIN Y[N]
  <2>1. c - e \in 0 .. N /\ c - e <= N /\ N \in 0 .. N
    BY <1>2, <1>6 DEF Stands
  <2>2. node \in DOMAIN Y[c - e]
    BY <1>6 DEF Stands
  <2>3. QED
    BY <2>1, <2>2 DEF Tables, Lasting
<1>8. PICK t : t = Append(s, node)
  OBVIOUS
<1>9. t \in Seq(DOMAIN Y[N]) /\ Len(t) = n + 1 /\ t[n + 1] = node /\ \A i \in 1 .. n : t[i] = s[i]
  BY <1>2, <1>3, <1>7, <1>8, AppendProperties
<1>10. PICK more : more = [i \in 0 .. n + 1 |-> IF i = n + 1 THEN c ELSE cut[i]]
  OBVIOUS
<1>11. /\ more \in [0 .. n + 1 -> Nat] /\ more[n + 1] = c
       /\ \A i \in 0 .. n : more[i] = cut[i]
  BY <1>2, <1>4, <1>10
<1>12. ASSUME NEW i \in 1 .. n + 1
       PROVE  Stands(Y, S, t[i], more[i - 1], more[i])
  <2>1. CASE i = n + 1
    <3>1. more[i - 1] = e
      BY <2>1, <1>5, <1>11
    <3>2. QED
      BY <2>1, <3>1, <1>6, <1>9, <1>11
  <2>2. CASE i # n + 1
    <3>1. i \in 1 .. n /\ i - 1 \in 0 .. n /\ i \in 0 .. n
      BY <2>2
    <3>2. more[i - 1] = cut[i - 1] /\ more[i] = cut[i] /\ t[i] = s[i]
      BY <3>1, <1>9, <1>11
    <3>3. Stands(Y, S, s[i], cut[i - 1], cut[i])
      BY <3>1, <1>1, <1>3 DEF Cuts
    <3>4. QED
      BY <3>2, <3>3
  <2>3. QED
    BY <2>1, <2>2
<1>13. more[0] = a
  BY <1>1, <1>11 DEF Cuts
<1>14. Cuts(Y, S, t, a, c, more)
  BY <1>2, <1>9, <1>11, <1>12, <1>13 DEF Cuts
<1>15. QED
  BY <1>2, <1>8, <1>9, <1>14 DEF Covers

LEMMA CoversOne ==
  ASSUME NEW Y, NEW S, NEW N, Tables(Y, S, N), NEW s, NEW a, NEW b,
         Covers(Y, S, N, s, a, b), Len(s) = 1
  PROVE  Stands(Y, S, s[1], a, b)
<1>1. PICK cut : Cuts(Y, S, s, a, b, cut)
  BY DEF Covers
<1>2. N \in Nat /\ a \in 0 .. N /\ b \in 0 .. N
  BY DEF Covers, Tables
<1>3. \A i \in 0 .. 1 : cut[i] \in 0 .. N
  BY <1>1, <1>2, CutsIn
<1>4. PICK c \in 0 .. N : c = cut[1] /\ c <= b /\ S[c] = S[b]
  BY <1>1, <1>3 DEF Cuts
<1>5. Stands(Y, S, s[1], cut[0], cut[1]) /\ cut[0] = a
  BY <1>1 DEF Cuts
<1>6. Stands(Y, S, s[1], a, c)
  BY <1>4, <1>5
<1>7. QED
  BY <1>2, <1>4, <1>6, StandsWider

\* Concatenation: where a hole goes, and that brackets do not matter
LEMMA HoleGoes ==
  ASSUME NEW T, NEW p \in Seq(T), NEW q \in Seq(T), Holed(p) \/ Holed(q)
  PROVE  Holed(p \o q)
<1>1. PICK m, n \in Nat : m = Len(p) /\ n = Len(q) /\ DOMAIN p = 1 .. m /\ DOMAIN q = 1 .. n
  BY LenProperties
<1>2. PICK h : h = p \o q
  OBVIOUS
<1>3. /\ h \in Seq(T) /\ Len(h) = m + n
      /\ \A i \in 1 .. m + n : h[i] = IF i <= m THEN p[i] ELSE q[i - m]
  BY <1>1, <1>2, ConcatProperties
<1>4. DOMAIN h = 1 .. m + n
  BY <1>3, LenProperties
<1>5. CASE Holed(p)
  <2>1. PICK i \in 1 .. m : p[i] = <<>>
    BY <1>1, <1>5 DEF Holed
  <2>2. i \in 1 .. m + n /\ h[i] = <<>>
    BY <1>3, <2>1
  <2>3. QED
    BY <1>2, <1>4, <2>2 DEF Holed
<1>6. CASE Holed(q)
  <2>1. PICK i \in 1 .. n : q[i] = <<>>
    BY <1>1, <1>6 DEF Holed
  <2>2. m + i \in 1 .. m + n /\ ~ (m + i <= m) /\ m + i - m = i
    OBVIOUS
  <2>3. h[m + i] = <<>>
    BY <1>3, <2>1, <2>2
  <2>4. QED
    BY <1>2, <1>4, <2>2, <2>3 DEF Holed
<1>7. QED
  BY <1>5, <1>6

LEMMA HoleStays ==
  ASSUME NEW T, NEW p \in Seq(T), NEW w \in Seq(T), NEW q \in Seq(T)
  PROVE  Holed(p) \/ Holed(q) => Holed(p \o w \o q)
<1>1. PICK t \in Seq(T) : t = p \o w
  <2>1. p \o w \in Seq(T)
    BY ConcatProperties
  <2>2. QED
    BY <2>1
<1>2. Holed(p) => Holed(t)
  BY <1>1, HoleGoes
<1>3. Holed(t) \/ Holed(q) => Holed(t \o q)
  BY HoleGoes
<1>4. QED
  BY <1>1, <1>2, <1>3

Then(x, y) == x \o y

LEMMA ThenAgain ==
  ASSUME NEW T, NEW x \in Seq(T), NEW y \in Seq(T), NEW z \in Seq(T)
  PROVE  Then(Then(x, y), z) = Then(x, Then(y, z)) /\ Then(x, y) \in Seq(T)
<1>1. (x \o y) \o z = x \o (y \o z)
  BY ConcatAssociative
<1>2. x \o y \in Seq(T)
  BY ConcatProperties
<1>3. QED
  BY <1>1, <1>2 DEF Then

LEMMA FourJoined ==
  ASSUME NEW T, NEW g \in Seq(T), NEW p \in Seq(T), NEW w \in Seq(T), NEW q \in Seq(T),
         NEW b, NEW c, NEW d, b = Then(g, p), c = Then(b, w), d = Then(c, q)
  PROVE  d = Then(g, Then(Then(p, w), q))
<1>1. PICK t \in Seq(T) : t = Then(p, w)
  BY ThenAgain
<1>2. Then(Then(g, p), w) = Then(g, t)
  BY <1>1, ThenAgain
<1>3. Then(Then(g, t), q) = Then(g, Then(t, q))
  BY <1>1, ThenAgain
<1>4. QED
  BY <1>1, <1>2, <1>3

\* Two nodes, and an operator between them, make one that stands for all three.
LEMMA JoinedStands ==
  ASSUME NEW Y, NEW S, NEW N, Tables(Y, S, N), NEW l, NEW o, NEW r,
         NEW a \in 0 .. N, NEW b \in 0 .. N, NEW c \in 0 .. N, NEW d \in 0 .. N,
         Stands(Y, S, l, a, b), Stands(Y, S, o, b, c), Stands(Y, S, r, c, d),
         o.kind = "operator"
  PROVE  Stands(Y, S, Expression(Operand(l), o.op, Operand(r)), a, d)
<1>1. N \in Nat /\ a <= b /\ b < c /\ c <= d
  BY DEF Tables, Stands
<1>2. PICK m \in 1 .. N : m = d - a
  BY <1>1
<1>3. PICK k \in 0 .. N : k = m - 1
  BY <1>1, <1>2
<1>4. PICK x \in 0 .. N : x = b - a /\ x <= k
  BY <1>1, <1>2, <1>3
<1>5. PICK y \in 0 .. N : y = c - b
  BY <1>1
<1>6. PICK z \in 0 .. N : z = d - c /\ z <= k
  BY <1>1, <1>2, <1>3
<1>7. l \in DOMAIN Y[k] /\ Y[k][l] = Y[x][l]
  <2>1. l \in DOMAIN Y[x]
    BY <1>4 DEF Stands
  <2>2. QED
    BY <2>1, <1>4 DEF Tables, Lasting
<1>8. r \in DOMAIN Y[k] /\ Y[k][r] = Y[z][r]
  <2>1. r \in DOMAIN Y[z]
    BY <1>6 DEF Stands
  <2>2. QED
    BY <2>1, <1>6 DEF Tables, Lasting
<1>9. o \in DOMAIN Y[y] /\ o.op \in Ops /\ Y[y][o] = << <<o.op>> >>
  <2>1. o \in DOMAIN Y[y]
    BY <1>5 DEF Stands
  <2>2. Reading(Y, N, Sayings)
    BY DEF Tables
  <2>3. \A x1 \in DOMAIN Y[y] : x1.kind = "operator" => x1.op \in Ops /\ Y[y][x1] = << <<x1.op>> >>
    BY <1>5, <2>2, SMTT(30) DEF Reading
  <2>4. QED
    BY <2>1, <2>3
<1>10. PICK op \in Ops : op = o.op
  BY <1>9
<1>11. PICK u, v : u = Operand(l) /\ v = Operand(r)
  OBVIOUS
<1>12. /\ Null \in DOMAIN Y[k] /\ Y[k][Null] = << <<>> >>
       /\ Y[k][l] \in Seq(Sayings) /\ Y[k][r] \in Seq(Sayings)
  BY <1>7, <1>8 DEF Tables, Reading
<1>13. /\ u \in DOMAIN Y[k] /\ (Y[k][u] = Y[k][l] \/ Holed(Y[k][u]))
       /\ v \in DOMAIN Y[k] /\ (Y[k][v] = Y[k][r] \/ Holed(Y[k][v]))
       /\ Y[k][u] \in Seq(Sayings) /\ Y[k][v] \in Seq(Sayings)
  <2>1. Holed(<< <<>> >>) /\ << <<>> >> \in Seq(Sayings)
    <3>1. <<>> \in Sayings
      BY DEF Sayings
    <3>2. << <<>> >>[1] = <<>> /\ 1 \in DOMAIN << <<>> >>
      OBVIOUS
    <3>3. QED
      BY <3>1, <3>2, OneSaying DEF Holed
  <2>2. (u = l \/ u = Null) /\ (v = r \/ v = Null)
    BY <1>11 DEF Operand
  <2>3. QED
    BY <1>7, <1>8, <1>12, <2>1, <2>2
<1>14. PICK e : e = Expression(u, op, v)
  OBVIOUS
<1>15. e.kind = "expression"
  BY <1>14 DEF Expression
<1>0. PICK T : T = Sayings
  OBVIOUS
<1>16. PICK p, q, w \in Seq(T) : p = Y[k][u] /\ q = Y[k][v] /\ w = << <<op>> >>
  <2>1. << <<op>> >> \in Seq(Sayings)
    BY OneSaying DEF Sayings
  <2>2. QED
    BY <1>0, <1>13, <2>1
<1>17. e \in DOMAIN Y[m] /\ Y[m][e] = p \o w \o q
  <2>1. k = m - 1 /\ u \in DOMAIN Y[m - 1] /\ v \in DOMAIN Y[m - 1]
    BY <1>3, <1>13
  <2>2. Joining(Y, N)
    BY DEF Tables
  <2>3. Expression(u, op, v) \in DOMAIN Y[m]
          /\ Y[m][Expression(u, op, v)] = Y[m - 1][u] \o << <<op>> >> \o Y[m - 1][v]
    BY <2>1, <2>2 DEF Joining
  <2>4. QED
    BY <1>3, <1>14, <1>16, <2>3
<1>18. Holed(p) \/ Holed(q) => Holed(p \o w \o q)
  BY HoleStays
<1>19. Holed(w) = FALSE
  <2>1. DOMAIN w = {1} /\ w[1] = <<op>> /\ <<op>> # <<>>
    BY <1>16
  <2>2. QED
    BY <2>1 DEF Holed
<1>20. ASSUME ~Holed(p), ~Holed(q)
       PROVE  S[d] = S[a] \o (p \o w \o q)
  <2>1. p = Y[x][l] /\ q = Y[z][r] /\ w = Y[y][o]
    BY <1>7, <1>8, <1>9, <1>10, <1>13, <1>16, <1>20
  <2>2. S[b] = Then(S[a], p)
    BY <1>4, <1>20, <2>1 DEF Stands, Then
  <2>3. S[c] = Then(S[b], w)
    BY <1>5, <1>19, <2>1 DEF Stands, Then
  <2>4. S[d] = Then(S[c], q)
    BY <1>6, <1>20, <2>1 DEF Stands, Then
  <2>5. PICK g \in Seq(T) : g = S[a]
    BY <1>0 DEF Tables, Talking
  <2>6. PICK f, h : f = S[b] /\ h = S[c]
    OBVIOUS
  <2>7. S[d] = Then(S[a], Then(Then(p, w), q))
    <3>1. PICK i : i = S[d]
      OBVIOUS
    <3>2. f = Then(g, p) /\ h = Then(f, w) /\ i = Then(h, q)
      BY <2>2, <2>3, <2>4, <2>5, <2>6, <3>1
    <3>3. i = Then(g, Then(Then(p, w), q))
      BY <3>2, FourJoined
    <3>4. QED
      BY <2>5, <3>1, <3>3
  <2>8. QED
    BY <2>7 DEF Then
<1>21. Stands(Y, S, e, a, d)
  <2>1. PICK y0 : y0 = p \o w \o q
    OBVIOUS
  <2>2. Holed(y0) \/ S[d] = S[a] \o y0
    BY <1>18, <1>20, <2>1
  <2>3. e \in DOMAIN Y[d - a] /\ Y[d - a][e] = y0
    BY <1>2, <1>17, <2>1
  <2>4. a <= d /\ e.kind # "operator"
    BY <1>1, <1>15
  <2>5. QED
    BY <2>2, <2>3, <2>4 DEF Stands
<1>22. QED
  BY <1>10, <1>11, <1>14, <1>21

LEMMA BeginningIs ==
  ASSUME NEW D, NEW s \in Seq(D), NEW k \in Nat, k <= Len(s)
  PROVE  /\ SubSeq(s, 1, k) \in Seq(D) /\ Len(SubSeq(s, 1, k)) = k
         /\ \A i \in 1 .. k : SubSeq(s, 1, k)[i] = s[i]
<1>1. Len(s) \in Nat
  BY LenProperties
<1>2. \A i \in 1 .. k : s[i] \in D
  BY <1>1, ElementOfSeq
<1>3. Len(SubSeq(s, 1, k)) = k /\ \A i \in 1 .. k : SubSeq(s, 1, k)[i] = s[i]
  BY <1>1, <1>2, SubSeqProperties
<1>4. SubSeq(s, 1, k) \in Seq(D)
  BY <1>1, <1>2, <1>3, SubSeqProperties
<1>5. QED
  BY <1>3, <1>4

LEMMA CoversReduced ==
  ASSUME NEW Y, NEW S, NEW N, Tables(Y, S, N), NEW s, NEW a, NEW b,
         Covers(Y, S, N, s, a, b), CanReduce(s)
  PROVE  Covers(Y, S, N, Reduced(s), a, b)
<1>1. PICK cut : Cuts(Y, S, s, a, b, cut)
  BY DEF Covers
<1>2. N \in Nat /\ s \in Seq(DOMAIN Y[N]) /\ a \in 0 .. N /\ b \in 0 .. N
  BY DEF Covers, Tables
<1>3. PICK n \in Nat : n = Len(s) /\ DOMAIN s = 1 .. n
  BY <1>2, LenProperties
<1>4. n >= 3 /\ s[n - 1].kind = "operator"
  BY <1>3 DEF CanReduce
<1>5. PICK k \in Nat : k = n - 3 /\ k + 1 = n - 2 /\ k + 2 = n - 1 /\ k + 3 = n
  BY <1>4
<1>6. cut \in [0 .. n -> Nat] /\ \A i \in 0 .. n : cut[i] \in 0 .. N
  BY <1>1, <1>2, <1>3, CutsIn DEF Cuts
<1>7. /\ k \in 0 .. n /\ k + 1 \in 1 .. n /\ k + 2 \in 1 .. n /\ k + 3 \in 1 .. n
      /\ k + 1 - 1 = k /\ k + 2 - 1 = k + 1 /\ k + 3 - 1 = k + 2
  BY <1>3, <1>5
<1>8. PICK c0, c1, c2, c3 \in 0 .. N :
        c0 = cut[k] /\ c1 = cut[k + 1] /\ c2 = cut[k + 2] /\ c3 = cut[k + 3]
  <2>1. k \in 0 .. n /\ k + 1 \in 0 .. n /\ k + 2 \in 0 .. n /\ k + 3 \in 0 .. n
    BY <1>7
  <2>2. cut[k] \in 0 .. N /\ cut[k + 1] \in 0 .. N /\ cut[k + 2] \in 0 .. N /\ cut[k + 3] \in 0 .. N
    BY <1>6, <2>1
  <2>3. QED
    BY <2>2, Zenon
<1>9. PICK l, o, r : l = s[k + 1] /\ o = s[k + 2] /\ r = s[k + 3]
  OBVIOUS
<1>10. Stands(Y, S, l, c0, c1) /\ Stands(Y, S, o, c1, c2) /\ Stands(Y, S, r, c2, c3)
  <2>1. \A i \in 1 .. n : Stands(Y, S, s[i], cut[i - 1], cut[i])
    BY <1>1, <1>3 DEF Cuts
  <2>2. /\ Stands(Y, S, s[k + 1], cut[k + 1 - 1], cut[k + 1])
        /\ Stands(Y, S, s[k + 2], cut[k + 2 - 1], cut[k + 2])
        /\ Stands(Y, S, s[k + 3], cut[k + 3 - 1], cut[k + 3])
    BY <1>7, <2>1
  <2>3. QED
    BY <1>7, <1>8, <1>9, <2>2
<1>11. PICK e : e = Expression(Operand(l), o.op, Operand(r))
  OBVIOUS
<1>12. Stands(Y, S, e, c0, c3)
  <2>1. o.kind = "operator"
    BY <1>4, <1>5, <1>9
  <2>2. QED
    BY <1>10, <1>11, <2>1, JoinedStands
<1>13. e \in DOMAIN Y[N]
  <2>1. c3 - c0 \in 0 .. N /\ c3 - c0 <= N /\ N \in 0 .. N
    BY <1>2, <1>12 DEF Stands
  <2>2. e \in DOMAIN Y[c3 - c0]
    BY <1>12 DEF Stands
  <2>3. QED
    BY <2>1, <2>2 DEF Tables, Lasting
<1>14. PICK h : h = SubSeq(s, 1, k)
  OBVIOUS
<1>15. h \in Seq(DOMAIN Y[N]) /\ Len(h) = k /\ \A i \in 1 .. k : h[i] = s[i]
  <2>1. PICK D : D = DOMAIN Y[N]
    OBVIOUS
  <2>2. s \in Seq(D) /\ k <= Len(s)
    BY <1>2, <1>3, <1>5, <2>1
  <2>3. h \in Seq(D) /\ Len(h) = k /\ \A i \in 1 .. k : h[i] = s[i]
    BY <1>14, <2>2, BeginningIs
  <2>4. QED
    BY <2>1, <2>3
<1>16. PICK t : t = Append(h, e)
  OBVIOUS
<1>17. t \in Seq(DOMAIN Y[N]) /\ Len(t) = k + 1 /\ t[k + 1] = e /\ \A i \in 1 .. k : t[i] = s[i]
  BY <1>13, <1>15, <1>16, AppendProperties
<1>18. t = Reduced(s)
  <2>1. n - 3 = k /\ s[n - 2] = l /\ s[n - 1] = o /\ s[n] = r
    BY <1>5, <1>9
  <2>2. QED
    BY <2>1, <1>3, <1>11, <1>14, <1>16 DEF Reduced
<1>19. PICK less : less = [i \in 0 .. k + 1 |-> IF i = k + 1 THEN c3 ELSE cut[i]]
  OBVIOUS
<1>20. /\ less \in [0 .. k + 1 -> Nat] /\ less[k + 1] = c3
       /\ \A i \in 0 .. k : less[i] = cut[i]
  <2>1. \A i \in 0 .. k : i \in 0 .. n
    BY <1>5
  <2>2. c3 \in Nat
    BY <1>2
  <2>3. QED
    BY <1>6, <1>19, <2>1, <2>2
<1>21. ASSUME NEW i \in 1 .. k + 1
       PROVE  Stands(Y, S, t[i], less[i - 1], less[i])
  <2>1. CASE i = k + 1
    <3>1. less[i - 1] = c0
      BY <2>1, <1>8, <1>20
    <3>2. QED
      BY <2>1, <3>1, <1>12, <1>17, <1>20
  <2>2. CASE i # k + 1
    <3>1. i \in 1 .. k /\ i - 1 \in 0 .. k /\ i \in 0 .. k /\ i \in 1 .. n
      BY <2>2, <1>5
    <3>2. less[i - 1] = cut[i - 1] /\ less[i] = cut[i] /\ t[i] = s[i]
      BY <3>1, <1>17, <1>20
    <3>3. Stands(Y, S, s[i], cut[i - 1], cut[i])
      BY <3>1, <1>1, <1>3 DEF Cuts
    <3>4. QED
      BY <3>2, <3>3
  <2>3. QED
    BY <2>1, <2>2
<1>22. less[0] = a
  BY <1>1, <1>20 DEF Cuts
<1>23. c3 <= b /\ S[c3] = S[b]
  BY <1>1, <1>3, <1>5, <1>8 DEF Cuts
<1>24. Cuts(Y, S, t, a, b, less)
  BY <1>17, <1>20, <1>21, <1>22, <1>23 DEF Cuts
<1>25. QED
  BY <1>2, <1>17, <1>18, <1>24 DEF Covers

-----------------------------------------------------------------------------
(* What holds between the steps of the parser *)

\* The stack of parse, and behind it the one of parseExpression, stand for all the
\* tokens that have been read; no stack is in use before there are tokens.
Standing(Y, S, N) ==
  /\ at \in 1 .. N + 1
  /\ where \in {"idle", "parse", "group", "expression", "flatten", "done"}
  /\ where # "idle" => lexing = "over"
  /\ where = "idle" => at = 1 /\ stack = <<>> /\ inner = <<>>
  /\ where \in {"parse", "group"} => inner = <<>> /\ Covers(Y, S, N, stack, 0, at - 1)
  /\ where \in {"expression", "flatten"} =>
       \E mid \in 0 .. N :
         Covers(Y, S, N, stack, 0, mid) /\ Covers(Y, S, N, inner, mid, at - 1)
  /\ where = "flatten" => Ended \/ Says(tokens[at]) = <<>>
  /\ where = "done" => root.kind = "error" \/ Stands(Y, S, root, 0, N)

AstInv == Standing(Yields, Said, Len(tokens))

LEMMA Silent ==
  ASSUME NEW Y, NEW S, NEW N, Tables(Y, S, N), NEW i \in 1 .. N, Says(tokens[i]) = <<>>
  PROVE  S[i] = S[i - 1]
<1>1. PICK T : T = Sayings
  OBVIOUS
<1>2. PICK p \in Seq(T) : p = S[i - 1]
  BY <1>1 DEF Tables, Talking
<1>3. S[i] = p \o <<>>
  BY <1>2 DEF Tables, Talking
<1>4. p \o <<>> = p
  BY <1>2, ConcatEmptySeq
<1>5. QED
  BY <1>2, <1>3, <1>4

\* Nodes for one token, and one for any number
LEMMA ErrorStands ==
  ASSUME NEW Y, NEW S, NEW N, Tables(Y, S, N), NEW a \in 0 .. N, NEW b \in 0 .. N, a <= b
  PROVE  Stands(Y, S, ErrorNode, a, b)
<1>1. PICK k \in 0 .. N : k = b - a
  BY DEF Tables
<1>2. ErrorNode \in DOMAIN Y[k] /\ Y[k][ErrorNode] = << <<>> >>
  BY <1>1 DEF Tables, Reading
<1>3. Holed(Y[k][ErrorNode])
  <2>1. << <<>> >>[1] = <<>> /\ 1 \in DOMAIN << <<>> >>
    OBVIOUS
  <2>2. QED
    BY <1>2, <2>1 DEF Holed
<1>4. ErrorNode.kind # "operator"
  BY DEF ErrorNode
<1>5. QED
  BY <1>1, <1>2, <1>3, <1>4 DEF Stands

LEMMA LeafStands ==
  ASSUME NEW Y, NEW S, NEW N, Tables(Y, S, N), NEW i \in 1 .. N, NEW node,
         \/ node = Factor(tokens[i]) /\ tokens[i].type \in Factors
         \/ node = OperatorNode(tokens[i].type) /\ tokens[i].type \in Ops
  PROVE  Stands(Y, S, node, i - 1, i)
<1>1. PICK t : t = tokens[i]
  OBVIOUS
<1>2. N \in Nat /\ 1 \in 0 .. N /\ i - (i - 1) = 1 /\ i - 1 < i /\ i \in DOMAIN tokens
  BY DEF Tables
<1>3. S[i] = S[i - 1] \o Says(t)
  BY <1>1 DEF Tables, Talking
<1>4. CASE node = Factor(t) /\ t.type \in Factors
  <2>1. Says(t) = << t.lexeme >>
    BY <1>4 DEF Says
  <2>2. node \in DOMAIN Y[1] /\ Y[1][node] = << t.lexeme >>
    BY <1>1, <1>2, <1>4 DEF Tables, Reading
  <2>3. QED
    <3>1. node \in DOMAIN Y[i - (i - 1)] /\ Y[i - (i - 1)][node] = Says(t)
      BY <1>2, <2>1, <2>2
    <3>2. i - 1 <= i /\ i - 1 < i
      BY <1>2
    <3>3. S[i] = S[i - 1] \o Y[i - (i - 1)][node]
      BY <1>3, <3>1
    <3>4. QED
      BY <3>1, <3>2, <3>3 DEF Stands
<1>5. CASE node = OperatorNode(t.type) /\ t.type \in Ops
  <2>1. t.type \notin Factors
    BY <1>5 DEF Ops, Binary, Logical, Factors
  <2>2. Says(t) = << <<t.type>> >>
    BY <1>5, <2>1 DEF Says, Ops
  <2>3. node \in DOMAIN Y[1] /\ Y[1][node] = << <<t.type>> >>
    BY <1>2, <1>5 DEF Tables, Reading
  <2>4. QED
    <3>1. node \in DOMAIN Y[i - (i - 1)] /\ Y[i - (i - 1)][node] = Says(t)
      BY <1>2, <2>2, <2>3
    <3>2. i - 1 <= i /\ i - 1 < i
      BY <1>2
    <3>3. S[i] = S[i - 1] \o Y[i - (i - 1)][node]
      BY <1>3, <3>1
    <3>4. QED
      BY <3>1, <3>2, <3>3 DEF Stands
<1>6. QED
  BY <1>1, <1>4, <1>5

LEMMA CoversRises ==
  ASSUME NEW Y, NEW S, NEW N, Tables(Y, S, N), NEW s, NEW a, NEW b, Covers(Y, S, N, s, a, b)
  PROVE  a <= b
<1>1. PICK cut : Cuts(Y, S, s, a, b, cut)
  BY DEF Covers
<1>2. PICK n \in Nat : n = Len(s)
  BY LenProperties DEF Covers
<1>3. cut \in [0 .. n -> Nat] /\ cut[0] = a /\ cut[n] <= b
  BY <1>1, <1>2 DEF Cuts
<1>4. cut[0] <= cut[n]
  <2>1. \A i, j \in 0 .. n : i <= j => cut[i] <= cut[j]
    BY <1>1, <1>2, CutsRise
  <2>2. 0 \in 0 .. n /\ n \in 0 .. n /\ 0 <= n
    OBVIOUS
  <2>3. QED
    BY <2>1, <2>2
<1>5. cut[n] \in Nat /\ a \in Nat /\ b \in Nat
  BY <1>3 DEF Covers, Tables
<1>6. QED
  BY <1>3, <1>4, <1>5

-----------------------------------------------------------------------------
(* The steps *)

LEMMA Stopped ==
  ASSUME NEW Y, NEW S, NEW N, Standing(Y, S, N), lexing = "over", UNCHANGED lexVars,
         NEW tree, Stop(tree), tree.kind = "error" \/ Stands(Y, S, tree, 0, N)
  PROVE  Standing(Y, S, N)'
  BY DEF Standing, Stop, lexVars

LEMMA Thrown ==
  ASSUME NEW Y, NEW S, NEW N, Standing(Y, S, N), lexing = "over", UNCHANGED lexVars, Throw
  PROVE  Standing(Y, S, N)'
<1>1. ErrorNode.kind = "error"
  BY DEF ErrorNode
<1>2. QED
  BY <1>1, Stopped DEF Throw

LEMMA Continued ==
  ASSUME NEW Y, NEW S, NEW N, Tables(Y, S, N), Standing(Y, S, N), lexing = "over", UNCHANGED lexVars,
         NEW s, Continue(s), Covers(Y, S, N, s, 0, IF Ended THEN at - 1 ELSE at)
  PROVE  Standing(Y, S, N)'
<1>1. N \in Nat /\ N = Len(tokens) /\ at \in 1 .. N + 1
  BY DEF Tables, Standing
<1>2. at' = (IF Ended THEN at ELSE at + 1) /\ stack' = s /\ inner' = <<>> /\ where' = "parse"
        /\ lexing' = "over"
  BY DEF Continue, lexVars
<1>3. at' \in 1 .. N + 1 /\ at' - 1 = IF Ended THEN at - 1 ELSE at
  BY <1>1, <1>2 DEF Ended
<1>4. Covers(Y, S, N, s, 0, at' - 1)
  BY <1>3
<1>5. QED
  BY <1>2, <1>3, <1>4 DEF Standing

LEMMA Pushed ==
  ASSUME NEW Y, NEW S, NEW N, Tables(Y, S, N), Standing(Y, S, N), lexing = "over", UNCHANGED lexVars,
         where = "expression", ~Ended, NEW s, Push(s), NEW mid \in 0 .. N,
         Covers(Y, S, N, stack, 0, mid), Covers(Y, S, N, s, mid, at)
  PROVE  Standing(Y, S, N)'
<1>1. N \in Nat /\ N = Len(tokens) /\ at \in 1 .. N + 1
  BY DEF Tables, Standing
<1>2. /\ at' = at + 1 /\ inner' = s /\ lexing' = "over"
      /\ UNCHANGED <<where, stack>>
  BY DEF Push, lexVars
<1>3. at' \in 1 .. N + 1 /\ at' - 1 = at
  BY <1>1, <1>2 DEF Ended
<1>4. Covers(Y, S, N, stack', 0, mid) /\ Covers(Y, S, N, inner', mid, at' - 1)
  BY <1>2, <1>3
<1>5. QED
  BY <1>2, <1>3, <1>4 DEF Standing

\* The caller of parseExpression gets a node that stands for all that it read.
LEMMA Returned ==
  ASSUME NEW Y, NEW S, NEW N, Tables(Y, S, N), Standing(Y, S, N), lexing = "over", UNCHANGED lexVars,
         NEW node, NEW mid \in 0 .. N, Covers(Y, S, N, stack, 0, mid),
         NEW end \in 0 .. N, end = (IF Ended THEN at - 1 ELSE at), mid <= end,
         Stands(Y, S, node, mid, end), Return(node)
  PROVE  Standing(Y, S, N)'
<1>1. PICK st : st = stack
  OBVIOUS
<1>2. Covers(Y, S, N, st, 0, mid)
  BY <1>1
<1>3. Covers(Y, S, N, Append(st, node), 0, end)
  BY <1>2, CoversOneMore
<1>4. CASE group
  <2>1. CASE Ended
    <3>1. Stop(ErrorNode) /\ ErrorNode.kind = "error"
      BY <1>4, <2>1 DEF Return, ErrorNode
    <3>2. QED
      BY <3>1, Stopped
  <2>2. CASE ~Ended
    <3>1. Continue(Append(st, node)) \/ Continue(Append(st, ErrorNode))
      BY <1>1, <1>4, <2>2 DEF Return
    <3>2. Stands(Y, S, ErrorNode, mid, end)
      BY ErrorStands
    <3>3. Covers(Y, S, N, Append(st, ErrorNode), 0, end)
      BY <1>2, <3>2, CoversOneMore
    <3>4. QED
      BY <1>3, <3>1, <3>3, Continued
  <2>3. QED
    BY <2>1, <2>2
<1>5. CASE ~group
  <2>1. PICK s : s = Append(st, node)
    OBVIOUS
  <2>2. Continue(s) \/ (CanReduce(s) /\ Continue(Reduced(s))) \/ Throw
    BY <1>1, <1>5, <2>1 DEF Return
  <2>3. CASE Continue(s)
    BY <1>3, <2>1, <2>3, Continued
  <2>4. CASE CanReduce(s) /\ Continue(Reduced(s))
    <3>1. Covers(Y, S, N, Reduced(s), 0, end)
      BY <1>3, <2>1, <2>4, CoversReduced
    <3>2. PICK t : t = Reduced(s)
      OBVIOUS
    <3>3. QED
      BY <2>4, <3>1, <3>2, Continued
  <2>5. CASE Throw
    BY <2>5, Thrown
  <2>6. QED
    BY <2>2, <2>3, <2>4, <2>5
<1>6. QED
  BY <1>4, <1>5

LEMMA ParseKeeps ==
  ASSUME NEW Y, NEW S, NEW N, Tables(Y, S, N), Standing(Y, S, N), UNCHANGED lexVars,
         ParseStart \/ ParseGroup \/ ParseLogical \/ ParseOther \/ ParseEnd \/ GroupBody \/ GroupEmpty
  PROVE  Standing(Y, S, N)'
<1>1. N \in Nat /\ N = Len(tokens) /\ at \in 1 .. N + 1 /\ DOMAIN tokens = 1 .. N
  BY DEF Tables, Standing
<1>2. PICK st : st = stack
  OBVIOUS
<1>3. CASE ParseStart
  <2>1. /\ at = 1 /\ stack = <<>> /\ inner = <<>> /\ where' = "parse" /\ lexing' = "over"
        /\ UNCHANGED <<at, stack, inner>>
    BY <1>3 DEF ParseStart, Standing, lexVars
  <2>2. Covers(Y, S, N, <<>>, 0, 0)
    BY <1>1, CoversEmpty
  <2>3. Covers(Y, S, N, stack', 0, at' - 1)
    BY <2>1, <2>2
  <2>4. QED
    BY <1>1, <2>1, <2>3 DEF Standing
<1>4. CASE ParseGroup
  <2>1. /\ where = "parse" /\ Type = "lparen" /\ lexing = "over"
        /\ inner = <<>> /\ Covers(Y, S, N, st, 0, at - 1)
    BY <1>2, <1>4 DEF ParseGroup, Standing
  <2>2. ~Ended /\ at \in 1 .. N /\ at - 1 \in 0 .. N
    BY <1>1, <2>1 DEF Type, Ended
  <2>3. PICK i \in 1 .. N : i = at
    BY <2>2
  <2>4. S[i] = S[i - 1]
    <3>1. tokens[i].type = "lparen"
      BY <2>1, <2>2, <2>3 DEF Type
    <3>2. Says(tokens[i]) = <<>>
      BY <3>1 DEF Says, Factors, Binary, Logical
    <3>3. QED
      BY <3>2, Silent
  <2>5. CASE at = Len(tokens)
    <3>1. Continue(Append(st, ErrorNode))
      BY <1>2, <1>4, <2>5 DEF ParseGroup
    <3>2. Stands(Y, S, ErrorNode, i - 1, i)
      BY <1>1, ErrorStands
    <3>3. Covers(Y, S, N, st, 0, i - 1) /\ i \in 0 .. N
      BY <2>1, <2>3
    <3>4. Covers(Y, S, N, Append(st, ErrorNode), 0, i)
      BY <3>2, <3>3, CoversOneMore
    <3>5. QED
      BY <2>1, <2>2, <2>3, <3>1, <3>4, Continued
  <2>6. CASE at # Len(tokens)
    <3>1. at' = at + 1 /\ where' = "group" /\ UNCHANGED <<stack, inner>> /\ lexing' = "over"
      BY <1>4, <2>1, <2>6 DEF ParseGroup, lexVars
    <3>2. Covers(Y, S, N, st, 0, i - 1) /\ i \in 0 .. N /\ i - 1 <= i
      BY <2>1, <2>3
    <3>3. Covers(Y, S, N, st, 0, i)
      BY <2>4, <3>2, CoversWider
    <3>4. at' \in 1 .. N + 1 /\ at' - 1 = i
      BY <1>1, <2>2, <2>3, <3>1
    <3>5. Covers(Y, S, N, stack', 0, at' - 1)
      BY <1>2, <3>1, <3>3, <3>4
    <3>6. QED
      BY <2>1, <3>1, <3>4, <3>5 DEF Standing
  <2>7. QED
    BY <2>5, <2>6
<1>5. CASE ParseLogical
  <2>1. /\ where = "parse" /\ Type \in Logical /\ lexing = "over"
        /\ Covers(Y, S, N, st, 0, at - 1) /\ Continue(Append(st, OperatorNode(Type)))
    BY <1>2, <1>5 DEF ParseLogical, Standing
  <2>2. ~Ended /\ at \in 1 .. N
    BY <1>1, <2>1 DEF Type, Ended, Logical
  <2>3. PICK i \in 1 .. N : i = at
    BY <2>2
  <2>4. tokens[i].type \in Ops /\ Type = tokens[i].type
    BY <2>1, <2>2, <2>3 DEF Type, Ops
  <2>5. PICK node : node = OperatorNode(tokens[i].type)
    OBVIOUS
  <2>6. Stands(Y, S, node, i - 1, i)
    BY <2>4, <2>5, LeafStands
  <2>7. Covers(Y, S, N, st, 0, i - 1) /\ i \in 0 .. N
    BY <2>1, <2>3
  <2>8. Covers(Y, S, N, Append(st, node), 0, i)
    BY <2>6, <2>7, CoversOneMore
  <2>9. Continue(Append(st, node))
    BY <2>1, <2>4, <2>5
  <2>10. QED
    BY <2>1, <2>2, <2>3, <2>8, <2>9, Continued
<1>6. CASE ParseOther \/ GroupBody
  <2>1. /\ where \in {"parse", "group"} /\ where' = "expression" /\ lexing = "over" /\ lexing' = "over"
        /\ inner = <<>> /\ Covers(Y, S, N, stack, 0, at - 1)
        /\ UNCHANGED <<at, stack, inner>>
    BY <1>6 DEF ParseOther, GroupBody, Standing, lexVars
  <2>2. PICK mid \in 0 .. N : mid = at - 1
    BY <1>1
  <2>3. Covers(Y, S, N, <<>>, mid, mid)
    BY CoversEmpty
  <2>4. Covers(Y, S, N, stack', 0, mid) /\ Covers(Y, S, N, inner', mid, at' - 1)
    BY <2>1, <2>2, <2>3
  <2>5. QED
    BY <1>1, <2>1, <2>4 DEF Standing
<1>7. CASE ParseEnd
  <2>1. /\ where = "parse" /\ Ended /\ lexing = "over" /\ Covers(Y, S, N, st, 0, at - 1)
        /\ (Len(st) = 1 /\ Stop(st[1])) \/ Throw
    BY <1>2, <1>7 DEF ParseEnd, Standing
  <2>2. CASE Throw
    BY <2>1, <2>2, Thrown
  <2>3. CASE Len(st) = 1 /\ Stop(st[1])
    <3>1. at - 1 = N
      BY <1>1, <2>1 DEF Ended
    <3>2. Covers(Y, S, N, st, 0, N)
      BY <2>1, <3>1
    <3>3. Stands(Y, S, st[1], 0, N)
      BY <2>3, <3>2, CoversOne
    <3>4. PICK tree : tree = st[1]
      OBVIOUS
    <3>5. QED
      BY <2>1, <2>3, <3>3, <3>4, Stopped
  <2>4. QED
    BY <2>1, <2>2, <2>3
<1>8. CASE GroupEmpty
  <2>1. where = "group" /\ Throw /\ lexing = "over"
    BY <1>8 DEF GroupEmpty, Standing
  <2>2. QED
    BY <2>1, Thrown
<1>9. QED
  BY <1>3, <1>4, <1>5, <1>6, <1>7, <1>8

LEMMA ReadKeeps ==
  ASSUME NEW Y, NEW S, NEW N, Tables(Y, S, N), Standing(Y, S, N), UNCHANGED lexVars,
         ReadFactor \/ ReadOperator \/ ReadAssign \/ ReadOther \/ ReadEnd
  PROVE  Standing(Y, S, N)'
<1>1. N \in Nat /\ N = Len(tokens) /\ at \in 1 .. N + 1 /\ DOMAIN tokens = 1 .. N
  BY DEF Tables, Standing
<1>2. where = "expression" /\ lexing = "over" /\ lexing' = "over"
  BY DEF ReadFactor, ReadOperator, ReadAssign, ReadOther, ReadEnd, Standing, lexVars
<1>3. PICK mid \in 0 .. N : Covers(Y, S, N, stack, 0, mid) /\ Covers(Y, S, N, inner, mid, at - 1)
  BY <1>2 DEF Standing
<1>4. PICK in : in = inner
  OBVIOUS
<1>5. CASE ReadFactor
  <2>1. Type \in Factors
    BY <1>5 DEF ReadFactor
  <2>2. ~Ended /\ at \in 1 .. N
    BY <1>1, <2>1 DEF Type, Ended, Factors
  <2>3. PICK i \in 1 .. N : i = at
    BY <2>2
  <2>4. tokens[i].type \in Factors
    BY <2>1, <2>2, <2>3 DEF Type
  <2>5. PICK node : node = Factor(tokens[i])
    OBVIOUS
  <2>6. PICK s : s = Append(in, node)
    OBVIOUS
  <2>7. Covers(Y, S, N, in, mid, i - 1) /\ i \in 0 .. N
    BY <1>3, <1>4, <2>3
  <2>8. Stands(Y, S, node, i - 1, i)
    BY <2>4, <2>5, LeafStands
  <2>9. Covers(Y, S, N, s, mid, i)
    BY <2>6, <2>7, <2>8, CoversOneMore
  <2>10. Return(ErrorNode) \/ Push(s) \/ (CanReduce(s) /\ Push(Reduced(s))) \/ Throw
    BY <1>4, <1>5, <2>3, <2>5, <2>6 DEF ReadFactor
  <2>11. CASE Return(ErrorNode)
    <3>1. mid <= i
      BY <1>1, <2>3, <2>9, CoversRises
    <3>2. Stands(Y, S, ErrorNode, mid, i)
      BY <2>7, <3>1, ErrorStands
    <3>3. PICK node2 : node2 = ErrorNode
      OBVIOUS
    <3>4. QED
      BY <1>2, <1>3, <2>2, <2>3, <2>7, <2>11, <3>1, <3>2, <3>3, Returned
  <2>12. CASE Push(s)
    BY <1>2, <1>3, <2>2, <2>3, <2>9, <2>12, Pushed
  <2>13. CASE CanReduce(s) /\ Push(Reduced(s))
    <3>1. PICK t : t = Reduced(s)
      OBVIOUS
    <3>2. Covers(Y, S, N, t, mid, i)
      BY <2>9, <2>13, <3>1, CoversReduced
    <3>3. QED
      BY <1>2, <1>3, <2>2, <2>3, <2>13, <3>1, <3>2, Pushed
  <2>14. CASE Throw
    BY <1>2, <2>14, Thrown
  <2>15. QED
    BY <2>10, <2>11, <2>12, <2>13, <2>14
<1>6. CASE ReadOperator
  <2>1. Type \in Ops /\ Push(Append(in, OperatorNode(Type)))
    BY <1>4, <1>6 DEF ReadOperator, Ops
  <2>2. ~Ended /\ at \in 1 .. N
    BY <1>1, <2>1 DEF Type, Ended, Ops, Binary, Logical
  <2>3. PICK i \in 1 .. N : i = at
    BY <2>2
  <2>4. tokens[i].type \in Ops /\ Type = tokens[i].type
    BY <2>1, <2>2, <2>3 DEF Type
  <2>5. PICK node : node = OperatorNode(tokens[i].type)
    OBVIOUS
  <2>6. PICK s : s = Append(in, node)
    OBVIOUS
  <2>7. Covers(Y, S, N, in, mid, i - 1) /\ i \in 0 .. N
    BY <1>3, <1>4, <2>3
  <2>8. Stands(Y, S, node, i - 1, i)
    BY <2>4, <2>5, LeafStands
  <2>9. Covers(Y, S, N, s, mid, i)
    BY <2>6, <2>7, <2>8, CoversOneMore
  <2>10. Push(s)
    BY <2>1, <2>4, <2>5, <2>6
  <2>11. QED
    BY <1>2, <1>3, <2>2, <2>3, <2>9, <2>10, Pushed
<1>7. CASE ReadAssign
  <2>1. Throw
    BY <1>7 DEF ReadAssign
  <2>2. QED
    BY <1>2, <2>1, Thrown
<1>8. CASE ReadOther
  <2>1. Type \notin Ops /\ Type \notin Factors /\ Type # "end" /\ Push(in)
    BY <1>4, <1>8 DEF ReadOther, Ops
  <2>2. ~Ended /\ at \in 1 .. N
    BY <1>1, <2>1 DEF Type, Ended
  <2>3. PICK i \in 1 .. N : i = at
    BY <2>2
  <2>4. Type = tokens[i].type
    BY <2>2, <2>3 DEF Type
  <2>5. Says(tokens[i]) = <<>>
    BY <2>1, <2>4 DEF Says, Ops
  <2>6. Covers(Y, S, N, in, mid, i - 1) /\ i \in 0 .. N /\ i - 1 <= i
    BY <1>3, <1>4, <2>3
  <2>7. S[i - 1] = S[i]
    BY <2>5, Silent
  <2>8. Covers(Y, S, N, in, mid, i)
    BY <2>6, <2>7, CoversWider
  <2>9. QED
    BY <1>2, <1>3, <2>1, <2>2, <2>3, <2>8, Pushed
<1>9. CASE ReadEnd
  <2>1. /\ where' = "flatten" /\ UNCHANGED <<at, stack, inner, tokens>> /\ Type \in {"end", "rparen"}
    BY <1>9 DEF ReadEnd, lexVars
  <2>2. Ended \/ Says(tokens[at]) = <<>>
    <3>1. ~Ended => tokens[at].type \in {"end", "rparen"}
      BY <2>1 DEF Type
    <3>2. QED
      BY <3>1 DEF Says, Factors, Binary, Logical
  <2>3. (Ended \/ Says(tokens[at]) = <<>>)'
    BY <2>1, <2>2 DEF Ended, Says
  <2>4. Covers(Y, S, N, stack', 0, mid) /\ Covers(Y, S, N, inner', mid, at' - 1)
    BY <1>3, <2>1
  <2>5. QED
    BY <1>1, <1>2, <2>1, <2>3, <2>4 DEF Standing
<1>10. QED
  BY <1>5, <1>6, <1>7, <1>8, <1>9

LEMMA FlattenKeeps ==
  ASSUME NEW Y, NEW S, NEW N, Tables(Y, S, N), Standing(Y, S, N), UNCHANGED lexVars, Flatten
  PROVE  Standing(Y, S, N)'
<1>1. N \in Nat /\ N = Len(tokens) /\ at \in 1 .. N + 1 /\ DOMAIN tokens = 1 .. N
  BY DEF Tables, Standing
<1>2. /\ where = "flatten" /\ lexing = "over" /\ lexing' = "over"
      /\ Ended \/ Says(tokens[at]) = <<>>
  BY DEF Flatten, Standing, lexVars
<1>3. PICK mid \in 0 .. N : Covers(Y, S, N, stack, 0, mid) /\ Covers(Y, S, N, inner, mid, at - 1)
  BY <1>2 DEF Standing
<1>4. PICK in : in = inner
  OBVIOUS
<1>5. CASE Len(in) = 1 /\ Return(in[1])
  <2>1. PICK end \in 0 .. N : end = (IF Ended THEN at - 1 ELSE at)
    BY <1>1 DEF Ended
  <2>2. PICK b \in 0 .. N : b = at - 1
    BY <1>1
  <2>3. b <= end /\ S[b] = S[end]
    <3>1. CASE Ended
      BY <2>1, <2>2, <3>1
    <3>2. CASE ~Ended
      <4>1. PICK i \in 1 .. N : i = at
        BY <1>1, <3>2 DEF Ended
      <4>2. S[i] = S[i - 1]
        BY <1>2, <3>2, <4>1, Silent
      <4>3. QED
        BY <2>1, <2>2, <3>2, <4>1, <4>2
    <3>3. QED
      BY <3>1, <3>2
  <2>4. Covers(Y, S, N, in, mid, b)
    BY <1>3, <1>4, <2>2
  <2>5. Covers(Y, S, N, in, mid, end)
    BY <2>3, <2>4, CoversWider
  <2>6. PICK node : node = in[1]
    OBVIOUS
  <2>7. Stands(Y, S, node, mid, end)
    BY <1>5, <2>5, <2>6, CoversOne
  <2>8. mid <= end
    BY <2>7 DEF Stands
  <2>9. QED
    BY <1>2, <1>3, <1>5, <2>1, <2>6, <2>7, <2>8, Returned
<1>6. CASE CanReduce(in) /\ inner' = Reduced(in) /\ UNCHANGED <<at, where, group, nr, stack, root>>
  <2>1. PICK b : b = at - 1
    OBVIOUS
  <2>2. Covers(Y, S, N, in, mid, b)
    BY <1>3, <1>4, <2>1
  <2>3. Covers(Y, S, N, Reduced(in), mid, b)
    BY <1>6, <2>2, CoversReduced
  <2>4. Covers(Y, S, N, stack', 0, mid) /\ Covers(Y, S, N, inner', mid, at' - 1)
    BY <1>3, <1>6, <2>1, <2>3
  <2>5. UNCHANGED tokens
    BY DEF lexVars
  <2>6. (Ended \/ Says(tokens[at]) = <<>>)'
    BY <1>2, <1>6, <2>5 DEF Ended, Says
  <2>7. QED
    BY <1>1, <1>2, <1>6, <2>4, <2>6 DEF Standing
<1>7. CASE Throw
  BY <1>2, <1>7, Thrown
<1>8. QED
  BY <1>4, <1>5, <1>6, <1>7 DEF Flatten

LEMMA TablesStay ==
  ASSUME tokens' = tokens
  PROVE  Yields' = Yields /\ Said' = Said /\ Len(tokens)' = Len(tokens)
<1>1. Leaves' = Leaves
  BY DEF Leaves
<1>2. Yields' = Yields
  BY <1>1, SMTT(30) DEF Yields
<1>4. Said' = Said
  BY SMTT(30) DEF Said, Says
<1>5. QED
  BY <1>2, <1>4

LEMMA ParserInductive ==
  ASSUME LexInv, AstInv, Parse, UNCHANGED lexVars
  PROVE  AstInv'
<1>1. PICK Y, S, N : Y = Yields /\ S = Said /\ N = Len(tokens)
  OBVIOUS
<1>2. Tables(Y, S, N) /\ Standing(Y, S, N)
  BY <1>1, TablesHold DEF LexInv, AstInv
<1>3. Standing(Y, S, N)'
  BY <1>2, ParseKeeps, ReadKeeps, FlattenKeeps DEF Parse
<1>4. tokens' = tokens
  BY DEF lexVars
<1>5. Yields' = Y /\ Said' = S /\ Len(tokens)' = N
  BY <1>1, <1>4, TablesStay
<1>6. QED
  BY <1>3, <1>5 DEF AstInv

\* The parser waits for the lexer, and the lexer is then over.
LEMMA LexerStepsFirst ==
  ASSUME LexInv', AstInv, Scan \/ LexEnd, UNCHANGED astVars
  PROVE  AstInv'
<1>1. lexing = "running"
  BY DEF Scan, LexEnd
<1>2. where = "idle" /\ at = 1 /\ stack = <<>> /\ inner = <<>>
  BY <1>1 DEF AstInv, Standing
<1>3. where' = "idle" /\ at' = 1 /\ stack' = <<>> /\ inner' = <<>>
  BY <1>2 DEF astVars
<1>4. Len(tokens') \in Nat
  BY DEF LexInv, TypeOK
<1>5. at' \in 1 .. Len(tokens') + 1
  BY <1>3, <1>4
<1>6. QED
  BY <1>3, <1>5 DEF AstInv, Standing

LEMMA ParserStutters ==
  ASSUME AstInv, UNCHANGED <<lexVars, astVars>>
  PROVE  AstInv'
<1>1. /\ UNCHANGED <<source, it, tokens, lexing>>
      /\ UNCHANGED <<at, where, group, nr, stack, inner, root>>
  BY DEF lexVars, astVars
<1>2. Yields' = Yields /\ Said' = Said
  BY <1>1, TablesStay
<1>3. QED
  BY <1>1, <1>2 DEF AstInv, Standing, Ended, Says

LEMMA ParserInitially ==
  ASSUME LexInv, AstInit
  PROVE  AstInv
<1>1. at = 1 /\ where = "idle" /\ stack = <<>> /\ inner = <<>> /\ Len(tokens) \in Nat
  BY DEF AstInit, LexInv, TypeOK
<1>2. QED
  BY <1>1 DEF AstInv, Standing

LEMMA NothingIsDropped ==
  ASSUME LexInv, AstInv
  PROVE  NothingDropped
<1>1. PICK Y, S, N : Y = Yields /\ S = Said /\ N = Len(tokens)
  OBVIOUS
<1>2. Tables(Y, S, N) /\ Standing(Y, S, N)
  BY <1>1, TablesHold DEF LexInv, AstInv
<1>3. SUFFICES ASSUME where = "done", root.kind # "error",
                      \A i \in DOMAIN Y[N][root] : Y[N][root][i] # <<>>
               PROVE  Y[N][root] = S[N]
  BY <1>1 DEF NothingDropped
<1>4. PICK node : node = root
  OBVIOUS
<1>5. Stands(Y, S, node, 0, N) /\ N - 0 = N /\ N \in Nat
  BY <1>2, <1>3, <1>4 DEF Standing, Tables
<1>6. node \in DOMAIN Y[N] /\ (Holed(Y[N][node]) \/ S[N] = S[0] \o Y[N][node])
  BY <1>5 DEF Stands
<1>7. ~Holed(Y[N][node])
  BY <1>3, <1>4 DEF Holed
<1>8. PICK T : T = Sayings
  OBVIOUS
<1>9. N \in 0 .. N
  BY <1>5
<1>10. PICK y \in Seq(T) : y = Y[N][node]
  BY <1>2, <1>6, <1>8, <1>9 DEF Tables, Reading
<1>11. S[0] = <<>>
  BY <1>2 DEF Tables, Talking
<1>12. <<>> \o y = y
  BY <1>10, ConcatEmptySeq
<1>13. S[N] = y
  BY <1>6, <1>7, <1>10, <1>11, <1>12
<1>14. QED
  BY <1>4, <1>10, <1>13

\* For every source, of any length: the parser fails, or the leaves and operators of
\* its tree, from left to right, are the operands and operators that the lexer found,
\* unless an operand is missing (Ast::parse, parseGroup, parseExpression, reduce).
THEOREM ParserDropsNothing ==
  ASSUME NEW CONSTANT sources \in SUBSET Seq(Char)
  PROVE  AstSpec(sources) => []NothingDropped
<1> DEFINE Next == ((Scan \/ LexEnd) /\ UNCHANGED astVars) \/ (Parse /\ UNCHANGED lexVars)
<1>1. LexInit(sources) /\ AstInit => LexInv /\ AstInv
  BY Initially, ParserInitially
<1>2. LexInv /\ AstInv /\ [Next]_<<lexVars, astVars>> => LexInv' /\ AstInv'
  <2> SUFFICES ASSUME LexInv, AstInv, [Next]_<<lexVars, astVars>> PROVE LexInv' /\ AstInv'
    OBVIOUS
  <2>1. [Scan \/ LexEnd]_lexVars
    OBVIOUS
  <2>2. LexInv'
    BY <2>1, Inductive
  <2>3. AstInv'
    BY <2>2, LexerStepsFirst, ParserInductive, ParserStutters
  <2>4. QED
    BY <2>2, <2>3
<1>3. LexInv /\ AstInv => NothingDropped
  BY NothingIsDropped
<1>4. QED
  BY <1>1, <1>2, <1>3, PTL DEF AstSpec

=============================================================================
