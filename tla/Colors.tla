------------------------------- MODULE Colors -------------------------------
(***************************************************************************)
(* Texts with colors in them: stripcolors and the functions that measure,  *)
(* cut and pad a text by what is seen of it (src/core/strings.cpp).        *)
(*                                                                         *)
(* There are three kinds of codes: a pipe and two color characters, the    *)
(* character 3 and a digit, and an escape sequence of a terminal.          *)
(***************************************************************************)
EXTENDS Integers, Sequences, FiniteSetsExt, SequencesExt

CONSTANTS
  Chars,      \* the characters that texts are made of
  MaxText,    \* bound: how long they are
  MaxColumns  \* bound: how many columns they are to have

VARIABLE colored  \* the text

ASSUME ColumnsAssumption == MaxColumns \in Nat

Escape == "esc"
Heart == "3"      \* the character 3
Blank == "blank"
IsDigit(c) == c = "0"
IsAlpha(c) == c = "m"
IsColorCode(c) == c = "#" \/ IsDigit(c)

-----------------------------------------------------------------------------
\* The character at i, which may be past the end
CharAt(s, i) == IF i \in DOMAIN s THEN s[i] ELSE "end"

\* is_ansi_seq_start, at an escape; any m further on will do
IsAnsiStart(s, i) ==
  CharAt(s, i + 1) = "[" /\ \E k \in i + 2 .. Len(s) : s[k] = "m"

\* Mutation: the letter that ends an escape sequence is kept.
AtLetter(s, i) == Min({k \in i .. Len(s) : IsAlpha(s[k])})

\* The place after the first letter from i on, which must be there
AfterLetter(s, i) == Min({k \in i .. Len(s) : IsAlpha(s[k])}) + 1

\* One turn of stripcolors' loop at i: where the next begins, and what is put out
Turn(s, i) ==
  LET escape == s[i] = Escape /\ i < Len(s)
      at == IF escape /\ IsAnsiStart(s, i) THEN AfterLetter(s, i) ELSE i
      c == CharAt(s, at)
  IN CASE escape /\ ~IsAnsiStart(s, i) -> [next |-> i + 1, out |-> <<s[i]>>]
       [] at > Len(s) -> [next |-> at, out |-> <<>>]
       [] c = "|" /\ IsColorCode(CharAt(s, at + 1)) /\ IsColorCode(CharAt(s, at + 2)) ->
            [next |-> at + 3, out |-> <<>>]
       [] c = Heart /\ IsDigit(CharAt(s, at + 1)) -> [next |-> at + 2, out |-> <<>>]
       [] OTHER -> [next |-> at + 1, out |-> <<c>>]

stripcolors(s) ==
  LET from[i \in 1 .. Len(s) + 1] ==
        IF i > Len(s) THEN <<>> ELSE LET turn == Turn(s, i) IN turn.out \o from[turn.next]
  IN from[1]

size_without_colors(s) == Len(stripcolors(s))

\* Characters are taken from the end, one by one, until the rest has the size.
trim_to_size_ignore_colors(s, size) ==
  SubSeq(s, 1, Max({n \in 0 .. Len(s) : size_without_colors(SubSeq(s, 1, n)) <= size}))

pad_to_ignore_colors(s, size) ==
  s \o [i \in 1 .. Max({0, size - size_without_colors(s)}) |-> Blank]

\* A text is any sequence of characters.
TypeChar ==
  /\ Len(colored) < MaxText
  /\ \E c \in Chars : colored' = Append(colored, c)

ColorInit == colored = <<>>
ColorNext == TypeChar

-----------------------------------------------------------------------------
\* The places of the codes in a text, each from its first character to its last
PipeCodes(s) ==
  {i .. i + 2 : i \in {i \in DOMAIN s : /\ s[i] = "|"
                                        /\ IsColorCode(CharAt(s, i + 1))
                                        /\ IsColorCode(CharAt(s, i + 2))}}
HeartCodes(s) ==
  {i .. i + 1 : i \in {i \in DOMAIN s : s[i] = Heart /\ IsDigit(CharAt(s, i + 1))}}
AnsiStarts(s) == {i \in DOMAIN s : s[i] = Escape /\ IsAnsiStart(s, i)}
AnsiCodes(s) ==
  {i .. Min({k \in i .. Len(s) : IsAlpha(s[k])}) : i \in AnsiStarts(s)}

\* What is left when every code is taken out
Seen(s) ==
  LET codes == UNION (PipeCodes(s) \cup HeartCodes(s) \cup AnsiCodes(s))
      seen[i \in 1 .. Len(s) + 1] ==
        IF i > Len(s) THEN <<>>
        ELSE (IF i \in codes THEN <<>> ELSE <<s[i]>>) \o seen[i + 1]
  IN seen[1]

\* stripcolors looks for a pipe, but for no escape, behind an escape sequence.
AnsiSideBySide(s) == \E code \in AnsiCodes(s) : Max(code) + 1 \in AnsiStarts(s)

\* Codes are taken out, and nothing else is, however they touch or lie in each other,
\* unless one escape sequence follows another directly: the second is then left in
\* the text.  A text can be cut and padded to any number of columns, though a code
\* that is cut is seen, and one may be cut in two to make the text short enough.
ColorsStripped ==
  /\ ~AnsiSideBySide(colored) => stripcolors(colored) = Seen(colored)
  /\ \A n \in 0..MaxColumns :
       LET cut == trim_to_size_ignore_colors(colored, n)
           wide == pad_to_ignore_colors(colored, n)
           size == size_without_colors(colored)
       IN /\ size_without_colors(cut) <= n
          /\ size <= n => cut = colored
          /\ size_without_colors(wide) = Max({n, size})

=============================================================================
