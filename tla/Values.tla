------------------------------- MODULE Values -------------------------------
(***************************************************************************)
(* The value domain of the interpreter: class Value of src/src/value.h and *)
(* value.cpp, and the std::any a visitor method returns.                   *)
(*                                                                         *)
(* A Value holds a variant and, beside it, a type tag.  Its constructor    *)
(* from an empty std::any leaves the tag unset and the variant holding     *)
(* false.  What is then read as the tag is one of three things:            *)
(*   BOOLEAN         the tag agrees with the variant: the value is false;  *)
(*   INTEGER, STRING the tag disagrees: std::get throws (Mistyped);        *)
(*   anything else   no case of any switch applies (Untyped).              *)
(* Strings are sequences of bytes.                                         *)
(***************************************************************************)
EXTENDS Integers, Sequences, FiniteSets, SequencesExt

CONSTANT IntMax   \* INT_MAX: int holds -IntMax - 1 .. IntMax

ASSUME IntMaxAssumption == IntMax \in Nat \ {0}

Byte == 0 .. 255
Text == Seq(Byte)
MachineInt == (-IntMax - 1) .. IntMax

Bool(b) == <<"BOOLEAN", b>>
Num(i)  == <<"INTEGER", i>>
Str(s)  == <<"STRING", s>>

Mistyped == <<"MISTYPED", FALSE>>
Untyped  == <<"UNTYPED", FALSE>>

\* A std::any without a value.
Empty == <<"EMPTY", FALSE>>

\* What an operation does instead of returning: an exception that nothing
\* catches, or behaviour the language leaves undefined.
Throws    == <<"THROWS", FALSE>>
Undefined == <<"UNDEFINED", FALSE>>

Typed == ({"BOOLEAN"} \X BOOLEAN) \cup ({"INTEGER"} \X MachineInt)
           \cup ({"STRING"} \X Text)
Value == Typed \cup {Mistyped, Untyped}
Result == Typed \cup {Empty}   \* what a visitor method can return

Type(v) == v[1]

-----------------------------------------------------------------------------
(* Conversions.  None of them is applied to Mistyped: every caller prints  *)
(* the value, which throws.                                                *)

IsDigit(b) == b \in 48 .. 57
IsBlank(b) == b = 32 \/ b \in 9 .. 13

Decimal(digits) == FoldLeft(LAMBDA n, b : 10 * n + (b - 48), 0, digits)

\* std::stoi with the handler around it: leading blanks, a sign, then the
\* longest run of digits; no digit or a number out of range gives 0.
Stoi(s) ==
  LET start  == SelectInSeq(s, LAMBDA b : ~IsBlank(b))
      signed == start > 0 /\ s[start] \in {43, 45}
      from   == IF signed THEN start + 1 ELSE start
      run    == {j \in from .. Len(s) : \A k \in from .. j : IsDigit(s[k])}
      n      == IF start = 0 \/ run = {} THEN 0
                ELSE Decimal(SubSeq(s, from, Max(run)))
                     * (IF s[start] = 45 THEN -1 ELSE 1)
  IN IF n \in MachineInt THEN n ELSE 0

\* std::to_string of an int of at most ten digits.
PowersOfTen == <<1, 10, 100, 1000, 10000, 100000, 1000000, 10000000,
                 100000000, 1000000000>>
Render(i) ==
  LET n      == IF i < 0 THEN -i ELSE i
      width  == 1 + Cardinality({k \in 2 .. 10 : n >= PowersOfTen[k]})
      digits == [k \in 1 .. width |-> 48 + ((n \div PowersOfTen[width - k + 1]) % 10)]
  IN IF i < 0 THEN <<45>> \o digits ELSE digits

TrueText  == <<84, 82, 85, 69>>
FalseText == <<70, 65, 76, 83, 69>>

ToBool(v) == CASE Type(v) = "BOOLEAN" -> v[2]
               [] Type(v) = "INTEGER" -> v[2] # 0
               [] Type(v) = "STRING"  -> v[2] = TrueText
               [] OTHER -> FALSE

ToInt(v) == CASE Type(v) = "BOOLEAN" -> IF v[2] THEN 1 ELSE 0
              [] Type(v) = "INTEGER" -> v[2]
              [] Type(v) = "STRING"  -> Stoi(v[2])
              [] OTHER -> 0

ToText(v) == CASE Type(v) = "BOOLEAN" -> IF v[2] THEN TrueText ELSE FalseText
               [] Type(v) = "INTEGER" -> Render(v[2])
               [] Type(v) = "STRING"  -> v[2]
               [] OTHER -> <<>>

\* Value(const std::any&): the Values that may come out.
FromAny(a) == IF a = Empty THEN {Bool(FALSE), Mistyped, Untyped} ELSE {a}

ToAny(v) == IF v = Untyped THEN Empty ELSE v

-----------------------------------------------------------------------------
(* Operators.  The left operand's type chooses what an operator does.      *)

Arithmetic == {"+", "-", "*", "/", "MOD", "AND", "OR"}
Relations  == {"=", "<>", "<", "<=", ">", ">="}

Fits(i) == IF i \in MachineInt THEN Num(i) ELSE Undefined

\* C++ division truncates towards zero.
Magnitude(i) == IF i < 0 THEN -i ELSE i
Quotient(a, b) == LET q == Magnitude(a) \div Magnitude(b)
                  IN IF (a < 0) = (b < 0) THEN q ELSE -q

BoolArithmetic(sym, l, r) ==
  CASE sym \in {"+", "OR"}  -> Bool(l \/ r)
    [] sym = "-"            -> Bool(~(l /\ r))
    [] sym = "*"            -> Num(IF l /\ r THEN 1 ELSE 0)
    [] sym = "AND"          -> Bool(l /\ r)
    [] sym \in {"/", "MOD"} -> Bool(FALSE)

IntArithmetic(sym, l, r) ==
  CASE sym = "AND" -> Bool(l # 0 /\ r # 0)
    [] sym = "OR"  -> Bool(l # 0 \/ r # 0)
    [] sym \in {"/", "MOD"} ->
         IF r = 0 THEN Undefined
         ELSE LET q == Quotient(l, r)   \* % takes the sign of the dividend
              IN IF sym = "MOD" /\ q \in MachineInt THEN Fits(l - r * q) ELSE Fits(q)
    [] OTHER -> Fits(CASE sym = "+" -> l + r [] sym = "-" -> l - r [] sym = "*" -> l * r)

Precedes(s, t) ==   \* of strings
  \E k \in 1 .. Len(t) :
    /\ k <= Len(s) => s[k] < t[k]
    /\ \A j \in 1 .. (k - 1) : j <= Len(s) /\ s[j] = t[j]

\* v converted to the type t, and the order of two values of that type
As(t, v) == CASE t = "BOOLEAN" -> ToBool(v)
              [] t = "INTEGER" -> ToInt(v)
              [] t = "STRING"  -> ToText(v)
Less(t, x, y) == CASE t = "BOOLEAN" -> ~x /\ y
                   [] t = "INTEGER" -> x < y
                   [] t = "STRING"  -> Precedes(x, y)

\* operator==, <, > and what the visitor makes of them for <>, <=, >=
Holds(sym, t, x, y) ==
  \/ sym \in {"=", "<=", ">="} /\ x = y
  \/ sym = "<>" /\ x # y
  \/ sym \in {"<", "<="} /\ Less(t, x, y)
  \/ sym \in {">", ">="} /\ Less(t, y, x)

\* visitRelation, visitMulDiv, visitAddSub: the result, or what happens instead
\* of one.  Both operands are printed with the result, so a Mistyped one throws.
Binary(sym, l, r) ==
  IF Mistyped \in {l, r} THEN Throws
  ELSE IF l = Untyped THEN Bool(sym = "<>")
  ELSE LET t == Type(l)
           x == As(t, l)
           y == As(t, r)
       IN IF sym \in Relations THEN Bool(Holds(sym, t, x, y))
          ELSE CASE t = "BOOLEAN" -> BoolArithmetic(sym, x, y)
                 [] t = "INTEGER" -> IntArithmetic(sym, x, y)
                 [] t = "STRING"  -> Str(x \o y)

=============================================================================
