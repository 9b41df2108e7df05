--------------------------------- MODULE Ast ---------------------------------
(***************************************************************************)
(* The parser of WWIV's expressions (src/core/parser/ast.cpp): Ast::parse, *)
(* which keeps a stack of nodes, calls parseGroup at a parenthesis and     *)
(* parseExpression elsewhere, and reduces three nodes of a stack to one.   *)
(* A step is one turn of one of their loops.                               *)
(*                                                                         *)
(* parseExpression does not call parseGroup: a parenthesis inside an       *)
(* expression is a token it does not expect and passes over, as it does    *)
(* with negations and with the lexer's error tokens.                       *)
(***************************************************************************)
EXTENDS Lexer

VARIABLES
  at,     \* index of the token the iterator points to
  where,  \* which loop is running: "parse", "group", "expression", "flatten"; or "done"
  group,  \* parseExpression was called by parseGroup, not by parse
  nr,     \* parse's local nr, kept across its call of parseExpression
  stack,  \* the stack of parse
  inner,  \* the stack of parseExpression
  root    \* the tree that comes out

astVars == <<at, where, group, nr, stack, inner, root>>

Null == [kind |-> "null"]        \* a null pointer
ErrorNode == [kind |-> "error"]
Factor(token) == [kind |-> "factor", text |-> token.lexeme]
OperatorNode(type) == [kind |-> "operator", op |-> type]
Expression(l, op, r) == [kind |-> "expression", left |-> l, op |-> op, right |-> r]

Factors == {"string", "character", "number", "identifier"}
Logical == {"logical_or", "logical_and"}
Binary == {"add", "div", "eq", "ge", "gt", "le", "lt", "mul", "ne", "sub"}

Ended == at > Len(tokens)
Type == IF Ended THEN "end" ELSE tokens[at].type
Top(s) == s[Len(s)]

-----------------------------------------------------------------------------
(* Ast::reduce and Ast::need_reduce *)

CanReduce(s) == Len(s) >= 3 /\ s[Len(s) - 1].kind = "operator"

\* Any node that is not an expression becomes a null operand.
Operand(node) == IF node.kind \in {"factor", "expression"} THEN node ELSE Null

\* Mutation: the operands are taken off the stack in the wrong order.
ReducedSwapped(s) ==
  LET n == Len(s)
  IN Append(SubSeq(s, 1, n - 3), Expression(Operand(s[n]), s[n - 1].op, Operand(s[n - 2])))

Reduced(s) ==
  LET n == Len(s)
  IN Append(SubSeq(s, 1, n - 3), Expression(Operand(s[n - 2]), s[n - 1].op, Operand(s[n])))

NeedReduce(s, allowLogical) ==
  /\ s # <<>> /\ Top(s).kind = "operator"
  /\ Top(s).op \in Binary \/ (allowLogical /\ Top(s).op \in Logical)

-----------------------------------------------------------------------------
Stop(tree) ==
  /\ where' = "done"
  /\ root' = tree
  /\ UNCHANGED <<at, group, nr, stack, inner>>

\* parse catches parse_error and makes it the tree.
Throw == Stop(ErrorNode)

\* The loop of parse goes on, after the token at `at`, with another stack.
Continue(s) ==
  /\ stack' = s
  /\ at' = IF Ended THEN at ELSE at + 1
  /\ where' = "parse"
  /\ inner' = <<>>
  /\ UNCHANGED <<group, nr, root>>

ParseStart ==
  /\ lexing = "over" /\ where = "idle"
  /\ where' = "parse"
  /\ UNCHANGED <<at, group, nr, stack, inner, root>>

\* A group cannot start with the last token.
ParseGroup ==
  /\ where = "parse" /\ Type = "lparen"
  /\ IF at = Len(tokens) THEN Continue(Append(stack, ErrorNode))
     ELSE /\ at' = at + 1
          /\ where' = "group"
          /\ UNCHANGED <<group, nr, stack, inner, root>>

ParseLogical ==
  /\ where = "parse" /\ Type \in Logical
  /\ Continue(Append(stack, OperatorNode(Type)))

ParseOther ==
  /\ where = "parse" /\ ~Ended /\ Type \notin Logical \cup {"lparen"}
  /\ nr' = NeedReduce(stack, TRUE)
  /\ group' = FALSE
  /\ where' = "expression"
  /\ UNCHANGED <<at, stack, inner, root>>

ParseEnd ==
  /\ where = "parse" /\ Ended
  /\ IF Len(stack) = 1 THEN Stop(stack[1]) ELSE Throw

-----------------------------------------------------------------------------
(* Ast::parseGroup: one expression, if there is one *)

GroupBody ==
  /\ where = "group" /\ Type # "rparen"
  /\ group' = TRUE
  /\ where' = "expression"
  /\ UNCHANGED <<at, nr, stack, inner, root>>

GroupEmpty == where = "group" /\ Type = "rparen" /\ Throw

-----------------------------------------------------------------------------
(* Ast::parseExpression *)

\* Its caller gets the node.  A group that does not end in a parenthesis is an
\* error node instead, and parse gives up if the tokens have ended with it.
Return(node) ==
  IF group
  THEN IF Ended THEN Stop(ErrorNode)
       ELSE Continue(Append(stack, IF Type = "rparen" THEN node ELSE ErrorNode))
  ELSE LET s == Append(stack, node) IN
       IF ~nr THEN Continue(s) ELSE IF CanReduce(s) THEN Continue(Reduced(s)) ELSE Throw

Push(s) ==
  /\ inner' = s
  /\ at' = at + 1
  /\ UNCHANGED <<where, group, nr, stack, root>>

ReadFactor ==
  /\ where = "expression" /\ Type \in Factors
  /\ LET s == Append(inner, Factor(tokens[at])) IN
     IF tokens[at].lexeme = <<>> THEN Return(ErrorNode)
     ELSE IF ~NeedReduce(inner, FALSE) THEN Push(s)
     ELSE IF CanReduce(s) THEN Push(Reduced(s)) ELSE Throw

ReadOperator ==
  /\ where = "expression" /\ Type \in Binary \cup Logical
  /\ Push(Append(inner, OperatorNode(Type)))

ReadAssign == where = "expression" /\ Type = "assign" /\ Throw

\* Mutation: a token that is passed over is not taken.
ReadOtherAgain ==
  /\ where = "expression"
  /\ Type \notin Factors \cup Binary \cup Logical \cup {"assign", "rparen", "end"}
  /\ UNCHANGED astVars

\* comment, lparen, negate, semicolon and error tokens
ReadOther ==
  /\ where = "expression"
  /\ Type \notin Factors \cup Binary \cup Logical \cup {"assign", "rparen", "end"}
  /\ Push(inner)

\* The expression is over; the parenthesis is left for the caller.
ReadEnd ==
  /\ where = "expression" /\ Type \in {"end", "rparen"}
  /\ where' = "flatten"
  /\ UNCHANGED <<at, group, nr, stack, inner, root>>

\* Mutation: one reduction is taken to be enough.
FlattenOnce ==
  /\ where = "flatten"
  /\ IF inner = <<>> \/ (Len(inner) > 1 /\ ~CanReduce(inner)) THEN Throw
     ELSE Return(IF Len(inner) = 1 THEN inner[1] ELSE Top(Reduced(inner)))

\* What is left on the stack is reduced from its top, so that the operators of
\* one expression group from the right.
Flatten ==
  /\ where = "flatten"
  /\ IF Len(inner) = 1 THEN Return(inner[1])
     ELSE IF CanReduce(inner)
          THEN inner' = Reduced(inner) /\ UNCHANGED <<at, where, group, nr, stack, root>>
          ELSE Throw

Parse ==
  \/ ParseStart \/ ParseGroup \/ ParseLogical \/ ParseOther \/ ParseEnd
  \/ GroupBody \/ GroupEmpty
  \/ ReadFactor \/ ReadOperator \/ ReadAssign \/ ReadOther \/ ReadEnd \/ Flatten

AstInit ==
  /\ at = 1
  /\ where = "idle"
  /\ group = FALSE /\ nr = FALSE
  /\ stack = <<>> /\ inner = <<>>
  /\ root = Null

AstSpec(sources) ==
  /\ LexInit(sources) /\ AstInit
  /\ [][((Scan \/ LexEnd) /\ UNCHANGED astVars) \/ (Parse /\ UNCHANGED lexVars)]_<<lexVars, astVars>>

-----------------------------------------------------------------------------
(* Properties *)

\* What a token and a leaf of a tree say: the text of an operand, or an operator
Says(token) ==
  IF token.type \in Factors THEN <<token.lexeme>>
  ELSE IF token.type \in Binary \cup Logical THEN << <<token.type>> >> ELSE <<>>

Label(leaf) ==
  CASE leaf.kind = "factor" -> leaf.text
    [] leaf.kind = "operator" -> <<leaf.op>>
    [] OTHER -> <<>>

\* What the first i tokens say
Said[i \in 0 .. Len(tokens)] == IF i = 0 THEN <<>> ELSE Said[i - 1] \o Says(tokens[i])

Leaves ==
  {Factor(tokens[i]) : i \in DOMAIN tokens} \cup {OperatorNode(op) : op \in Binary \cup Logical}
    \cup {Null, ErrorNode}

\* The labels of a tree's leaves and operators from left to right, for the trees
\* that are no deeper than n
Yields[n \in 0 .. Len(tokens)] ==
  IF n = 0 THEN [leaf \in Leaves |-> <<Label(leaf)>>]
  ELSE LET below == Yields[n - 1] IN
       [node \in Leaves \cup [kind : {"expression"}, left : DOMAIN below,
                             op : Binary \cup Logical, right : DOMAIN below] |->
          IF node.kind = "expression"
          THEN below[node.left] \o << <<node.op>> >> \o below[node.right]
          ELSE <<Label(node)>>]

\* Whatever the source is, the parser fails, or loses nothing: the leaves and
\* operators of its tree, from left to right, are the operands and operators of
\* the source.  A tree with a missing operand is the parser's third way out.
NothingDropped ==
  where = "done" /\ root.kind # "error" =>
    LET yield == Yields[Len(tokens)][root]
    IN (\A i \in DOMAIN yield : yield[i] # <<>>) => yield = Said[Len(tokens)]

=============================================================================
