-------------------------------- MODULE Lexer --------------------------------
(***************************************************************************)
(* The lexer of WWIV's expressions (src/core/parser/lexer.cpp): one pass   *)
(* over a source with an iterator that is moved in many places, once more  *)
(* after each token.                                                       *)
(*                                                                         *)
(* A source is a sequence of characters, each a string of length one.  A   *)
(* step is one turn of the constructor's loop.  Where the code records one *)
(* position of a token, the model has the span of characters it took, from *)
(* which a property can see what was skipped or taken twice.               *)
(***************************************************************************)
EXTENDS Integers, Sequences, FiniteSets, TLC

VARIABLES
  source,  \* the characters
  it,      \* the iterator; one past the last character at the end
  tokens,  \* Lexer::tokens_
  lexing   \* "running", "over", or "thrown" by the constructor

lexVars == <<source, it, tokens, lexing>>

Letters == {"a", "b", "c"}
Digits == {"1", "2"}
Blanks == {" ", "\t"}

\* What one character, or one and the next, make; "error" where the first alone
\* is no token.
OneChar ==
  "(" :> "lparen" @@ ")" :> "rparen" @@ "+" :> "add" @@ "-" :> "sub"
    @@ "*" :> "mul" @@ ";" :> "semicolon"
TwoChars ==
  [c \in {"=", "!", ">", "<", "&", "|"} |->
     CASE c = "=" -> <<"=", "eq", "assign">>      [] c = "!" -> <<"=", "ne", "negate">>
       [] c = ">" -> <<"=", "ge", "gt">>          [] c = "<" -> <<"=", "le", "lt">>
       [] c = "&" -> <<"&", "logical_and", "error">> [] c = "|" -> <<"|", "logical_or", "error">>]

At(i) == IF i \in 1..Len(source) THEN source[i] ELSE "end"

Token(type, lexeme, from, to) == [type |-> type, lexeme |-> lexeme, from |-> from, to |-> to]
Emit(type, lexeme, from, to) == tokens' = Append(tokens, Token(type, lexeme, from, to))
Error(from, to) == Emit("error", <<>>, from, to)

\* The loop's `if (it_ == end) break; ++it_`, with the iterator at i
AdvanceFrom(i) ==
  /\ it' = IF i > Len(source) THEN i ELSE i + 1
  /\ UNCHANGED <<source, lexing>>

\* The first of the places where a token may end, or the end of the source
First(ends) ==
  IF ends = {} THEN Len(source) + 1 ELSE CHOOSE k \in ends : \A j \in ends : k <= j

Lexeme(from, to) == SubSeq(source, from, to)

-----------------------------------------------------------------------------
Symbol(c) ==
  /\ c \in DOMAIN OneChar
  /\ Emit(OneChar[c], <<>>, it, it)
  /\ AdvanceFrom(it)

\* Mutation: the second character is left for the next turn.
PairKeepingSecond(c) ==
  /\ c \in DOMAIN TwoChars
  /\ IF At(it + 1) = TwoChars[c][1]
     THEN Emit(TwoChars[c][2], <<>>, it, it + 1) /\ AdvanceFrom(it)
     ELSE Emit(TwoChars[c][3], <<>>, it, it) /\ AdvanceFrom(it)

Pair(c) ==
  /\ c \in DOMAIN TwoChars
  /\ IF At(it + 1) = TwoChars[c][1]
     THEN Emit(TwoChars[c][2], <<>>, it, it + 1) /\ AdvanceFrom(it + 1)
     ELSE Emit(TwoChars[c][3], <<>>, it, it) /\ AdvanceFrom(it)

\* A comment that is not closed takes the rest of the source and is no token.
Slash(c) ==
  /\ c = "/"
  /\ LET close == First({k \in it + 2 .. Len(source) : At(k) = "*" /\ At(k + 1) = "/"}) IN
     IF At(it + 1) # "*" THEN Emit("div", <<>>, it, it) /\ AdvanceFrom(it)
     ELSE IF close > Len(source) THEN UNCHANGED tokens /\ AdvanceFrom(close)
     ELSE Emit("comment", Lexeme(it + 2, close - 1), it, close + 1) /\ AdvanceFrom(close + 1)

\* A string that is not closed is an error, unless nothing follows its quote.
String(c) ==
  /\ c = "\""
  /\ LET close == First({k \in it + 1 .. Len(source) : At(k) = "\""}) IN
     /\ IF close <= Len(source) THEN Emit("string", Lexeme(it + 1, close - 1), it, close)
        ELSE IF it < Len(source) THEN Error(it, Len(source)) ELSE UNCHANGED tokens
     /\ AdvanceFrom(close)

\* A character literal of any other length should be an error; but the message is
\* formatted without the argument it asks for, and format throws.
Character(c) ==
  /\ c = "'"
  /\ LET close == First({k \in it + 1 .. Len(source) : At(k) = "'"}) IN
     IF close <= Len(source) /\ close - it - 1 # 1
     THEN lexing' = "thrown" /\ UNCHANGED <<source, it, tokens>>
     ELSE /\ IF close <= Len(source) THEN Emit("character", Lexeme(it + 1, close - 1), it, close)
             ELSE IF it < Len(source) THEN Error(it, Len(source)) ELSE UNCHANGED tokens
          /\ AdvanceFrom(close)

\* identifier() and number() run one character too far and step back, except at the
\* end of the source.  A '-' goes on with an identifier.
Word(c) ==
  LET InWord(k) == IF c \in Letters THEN At(k) \in Letters \cup Digits \cup {".", "_", "-"}
                   ELSE At(k) \in Digits
      past == First({k \in it .. Len(source) : ~InWord(k)})
  IN /\ c \in Letters \cup Digits
     /\ Emit(IF c \in Letters THEN "identifier" ELSE "number", Lexeme(it, past - 1), it, past - 1)
     /\ AdvanceFrom(IF past > Len(source) THEN past ELSE past - 1)

\* Blanks, and all characters that begin no token, are passed over in silence.
Passes(c) ==
  c \notin DOMAIN OneChar \cup DOMAIN TwoChars \cup {"/", "\"", "'"} \cup Letters \cup Digits
Pass(c) == Passes(c) /\ UNCHANGED tokens /\ AdvanceFrom(it)

Scan ==
  /\ lexing = "running" /\ it <= Len(source)
  /\ LET c == At(it) IN
     Symbol(c) \/ Pair(c) \/ Slash(c) \/ String(c) \/ Character(c) \/ Word(c) \/ Pass(c)

LexEnd ==
  /\ lexing = "running" /\ it > Len(source)
  /\ lexing' = "over"
  /\ UNCHANGED <<source, it, tokens>>

LexInit(sources) ==
  /\ source \in sources
  /\ it = 1
  /\ tokens = <<>>
  /\ lexing = "running"

LexSpec(sources) == LexInit(sources) /\ [][Scan \/ LexEnd]_lexVars

\* Lexer::ok
LexOk == \A i \in DOMAIN tokens : tokens[i].type # "error"

-----------------------------------------------------------------------------
(* Properties *)

\* Each character is in one token, or begins none: the places where the iterator
\* is moved twice, or put back, neither lose a character nor give it to two
\* tokens, at the end of the source either.  The one thing that may be lost is a
\* comment, or a quote at the very end, that is not closed.  The iterator is never
\* moved past the end.
NothingLostOrTwice ==
  LET TakenBy(k) == {i \in DOMAIN tokens : k \in tokens[i].from .. tokens[i].to}
      lost == {k \in 1 .. it - 1 : TakenBy(k) = {} /\ ~Passes(At(k))}
  IN lexing # "thrown" =>
       /\ it <= Len(source) + 1
       /\ \A k \in 1..Len(source) : Cardinality(TakenBy(k)) <= (IF k < it THEN 1 ELSE 0)
       /\ \A k \in lost :
            LET open == CHOOSE j \in lost : \A i \in lost : j <= i IN
            \/ At(open) = "/" /\ At(open + 1) = "*" /\ it > Len(source)
            \/ At(open) \in {"\"", "'"} /\ open = Len(source)

=============================================================================
