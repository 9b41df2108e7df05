----------------------------- MODULE Expressions -----------------------------
(***************************************************************************)
(* A source is lexed, and then its tokens are parsed                       *)
(* (src/core/parser/lexer.cpp, ast.cpp).                                   *)
(*                                                                         *)
(* What an expression means is defined here without the parser, as a set   *)
(* of sentences, each the text and the tree that was written down as it.   *)
(***************************************************************************)
EXTENDS Ast

CONSTANT Texts  \* the sentences that are parsed; a text that is none has the tree Null

VARIABLE meant  \* the tree that the source was written down from

vars == <<source, it, tokens, lexing, at, where, group, nr, stack, inner, root, meant>>

Init ==
  /\ \E t \in Texts : LexInit({t.text}) /\ meant = t.tree
  /\ AstInit

Lex == (Scan \/ LexEnd) /\ UNCHANGED <<astVars, meant>>
Build == Parse /\ UNCHANGED <<lexVars, meant>>
Finished == (where = "done" \/ lexing = "thrown") /\ UNCHANGED vars

Next == Lex \/ Build \/ Finished
Spec == Init /\ [][Next]_vars
FairSpec == Spec /\ WF_vars(Lex \/ Build)

-----------------------------------------------------------------------------
(* Sentences with the operands Names[i], ..., Names[j], in this order *)

Names == <<"a", "1", "b", "2", "c">>
Sign == "add" :> <<"+">> @@ "eq" :> <<"=", "=">> @@ "logical_or" :> <<"|", "|">>

Name(i) ==
  [text |-> <<Names[i]>>, tree |-> [kind |-> "factor", text |-> <<Names[i]>>]]
Joined(l, op, r) ==
  [text |-> l.text \o <<" ">> \o Sign[op] \o <<" ">> \o r.text,
   tree |-> Expression(l.tree, op, r.tree)]
Paren(s) == [s EXCEPT !.text = <<"(">> \o @ \o <<")">>]

Written(Ls, ops, Rs) == {Joined(l, op, r) : l \in Ls, op \in DOMAIN Sign \cap ops, r \in Rs}

\* Comparisons and arithmetic group from the left, whatever the operators are.
RECURSIVE Chains(_, _)
Chains(i, j) ==
  IF i = j THEN {Name(i)} ELSE Written(Chains(i, j - 1), Binary, {Name(j)})

\* Logical operators bind weaker, and group from the right.
RECURSIVE Clauses(_, _)
Clauses(i, j) ==
  Chains(i, j) \cup
    UNION {Written(Chains(i, k), Logical, Clauses(k + 1, j)) : k \in i .. j - 1}

\* The last of the operands of a clause may stand in parentheses, for all they do.
RECURSIVE EndGrouped(_, _)
EndGrouped(i, j) ==
  UNION {Written(Chains(i, k), Logical,
                 {Paren(c) : c \in Clauses(k + 1, j)} \cup EndGrouped(k + 1, j))
           : k \in i .. j - 1}

\* To group from the left, all to the left stands in parentheses.
RECURSIVE Grouped(_, _)
Grouped(i, j) ==
  Clauses(i, j) \cup
    UNION {Written({Paren(g) : g \in Grouped(i, k)}, Logical, Clauses(k + 1, j))
             : k \in i .. j - 1}

Sentences(n) ==
  Grouped(1, n) \cup EndGrouped(1, n) \cup {Paren(c) : c \in Clauses(1, n)} \cup
    UNION {Written({Paren(g) : g \in Grouped(1, k)}, Logical, EndGrouped(k + 1, n))
             : k \in 1 .. n - 1}

\* Two groups side by side
TwoGroups(n) ==
  UNION {Written({Paren(c) : c \in Clauses(1, k)}, Logical, {Paren(c) : c \in Clauses(k + 1, n)})
           : k \in 1 .. n - 1}

-----------------------------------------------------------------------------
(* Properties *)

\* The sentence a tree is written down as is parsed to that tree: three stacks,
\* one reduced while it is read and one afterwards, tell the grouping of every
\* operator, and where parentheses that are passed over do no harm.
MeansAsWritten == where = "done" /\ meant # Null => root = meant

\* Lexing and parsing come to an end on every source, though their loops leave the
\* iterator to be moved by what they call.
ParserEnds == <>(where = "done" \/ lexing = "thrown")

\* "We should end with one single tree node at the root": of two groups joined by
\* a logical operator parse makes none, since it reduces after an expression and
\* not after a group.
OneTreeAtRoot == where = "done" /\ meant # Null => root.kind = "expression"

=============================================================================
