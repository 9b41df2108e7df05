----------------------------- MODULE Reference -----------------------------
(***************************************************************************)
(* What a BASIC program means, defined by recursion over its parse tree    *)
(* and without a stack of visitors or a return flag: the definition the    *)
(* interpreter is compared with.  It speaks of programs of one module.     *)
(*                                                                         *)
(* An outcome [val, env] is a value and the variables of every scope; the  *)
(* operators give sets of outcomes, which are empty where the language     *)
(* gives the program no meaning (an unset variable, a function that ends   *)
(* without RETURN, overflow) or where it runs for more than fuel nested    *)
(* calls and iterations.                                                   *)
(***************************************************************************)
EXTENDS Executor

Ok(val, env) == [val |-> val, env |-> env]

\* A value of the machine, unless it is none.
Known(v, env) == {Ok(w, env) : w \in {v} \ {Throws, Undefined}}

Bound(env, x) == {i \in DOMAIN env : env[i][x] # Absent}
Assigned(env, x, v) ==
  LET i == IF Bound(env, x) = {} THEN Len(env) ELSE Max(Bound(env, x))
  IN [env EXCEPT ![i][x] = v]

RECURSIVE Exec(_, _, _), Repeat(_, _, _, _, _)

\* A call: its value is that of the RETURN statement its body comes to.
Apply(q, args, env, fuel) ==
  LET f == IF HasFn(Root, q) THEN functions[Root][q] ELSE NoFunction
  IN IF q.pkg # Root \/ fuel = 0 THEN {}
     ELSE IF f.type = "NATIVE" THEN Known(NativeResult(f.body, args), env)
     ELSE IF f.type = "NONE" \/ Len(f.params) # Len(args) THEN {Ok(Bool(FALSE), env)}
     ELSE   {Ok(r.val, Front(r.env)) :
               r \in {s \in Exec(Tree.code[f.body], Append(env, Bindings(f.params, args)),
                                 fuel - 1) : s.val # Absent}}

\* An expression: the values of its nodes, at last of its root.
Eval(code, env, fuel) ==
  LET Visited(r, o) ==
        CASE o.op = "literal" -> {Ok(o.value, r.env)}
          [] o.op = "load" ->
               IF o.name.pkg # Root \/ Bound(r.env, o.name.id) = {} THEN {}
               ELSE {Ok(r.env[Max(Bound(r.env, o.name.id))][o.name.id], r.env)}
          [] o.op = "binary" ->
               Known(Binary(o.sym, r.val[o.args[1]], r.val[o.args[2]]), r.env)
          [] o.op = "call" ->
               Apply(o.name, [i \in DOMAIN o.args |-> r.val[o.args[i]]], r.env, fuel)
          [] OTHER -> {}
      Another(r, o) == {Ok(Append(r.val, v.val), v.env) : v \in Visited(r, o)}
  IN {Ok(Last(r.val), r.env) :
        r \in FoldLeft(LAMBDA R, o : UNION {Another(r, o) : r \in R}, {Ok(<<>>, env)}, code)}

\* The values of a statement's expressions, of an IF's conditions as far as the
\* first that is not false.
Evaluated(s, env, fuel) ==
  LET Another(r, code) ==
        IF s.op = "if" /\ r.val # <<>> /\ Last(r.val) # Bool(FALSE) THEN {r}
        ELSE {Ok(Append(r.val, e.val), e.env) : e \in Eval(code, r.env, fuel)}
  IN FoldLeft(LAMBDA R, code : UNION {Another(r, code) : r \in R}, {Ok(<<>>, env)}, s.exprs)

\* The statement list an IF chooses.
Chosen(s, vals) == IF Last(vals) = Bool(TRUE) THEN s.thens[Len(vals)] ELSE s.else

\* A statement: val is the value it returns, or Absent when it returns none.
Perform(s, env, fuel) ==
  UNION {
    CASE s.op = "assign" ->
           IF s.name.pkg # Root THEN {}
           ELSE {Ok(Absent, Assigned(r.env, s.name.id, r.val[1]))}
      [] s.op = "copy" ->
           LET b == Bound(env, s.from.id)
           IN {Ok(Absent, IF b = {} THEN env
                          ELSE Assigned(env, s.name.id, env[Max(b)][s.from.id]))}
      [] s.op = "call"   -> {Ok(Absent, r.env)}
      [] s.op = "return" -> {Ok(r.val[1], r.env)}
      [] s.op = "if" ->
           IF Type(Last(r.val)) # "BOOLEAN" THEN {}
           ELSE IF Chosen(s, r.val) = NoBlock THEN {Ok(Absent, r.env)}
           ELSE Exec(Tree.code[Chosen(s, r.val)], r.env, fuel)
      [] s.op = "for" ->
           Repeat(s, ToInt(r.val[1]), ToInt(r.val[2]),
                  Append(r.env, [NoVars EXCEPT ![s.id] = r.val[1]]), fuel)
    : r \in Evaluated(s, env, fuel)}

\* The body with the variable at i; then from the variable's value by step
\* until a pass began at end.  A RETURN in the body leaves the loop.
Repeat(s, i, end, env, fuel) ==
  IF fuel = 0 THEN {}
  ELSE UNION {LET n == ToInt(r.env[Len(env)][s.id]) + s.step
              IN IF r.val # Absent \/ i = end THEN {Ok(r.val, Front(r.env))}
                 ELSE IF n \in MachineInt THEN Repeat(s, n, end, r.env, fuel - 1)
                 ELSE {}
              : r \in Exec(Tree.code[s.body], [env EXCEPT ![Len(env)][s.id] = Num(i)], fuel)}

\* Statements up to the first that returns a value.
Exec(stmts, env, fuel) ==
  FoldLeft(LAMBDA R, s : UNION {IF r.val # Absent THEN {r} ELSE Perform(s, r.env, fuel)
                                : r \in R},
           {Ok(Absent, env)}, stmts)

\* The program's top-level statements, with no variable set.
Meaning(fuel) ==
  LET stmts == SelectSeq(Tree.main, LAMBDA i : i.op = "statement")
  IN Exec([i \in DOMAIN stmts |-> stmts[i].stmt], <<NoVars>>, fuel)

CONSTANT Fuel   \* bounds the nested calls and iterations of a reference run

\* Run to its end, the interpreter leaves the global variables the program
\* means to leave, for every program that RETURNs only where it may and gives
\* its functions parameters: nested and recursive calls, loops, early returns
\* and the sharing of variables between a function and its callers included.
MeansTheSame ==
  Stopped /\ Structured(Tree) /\ Parameterised(Tree) =>
    \A m \in Meaning(Fuel) : phase = "done" /\ scopes[Root][1].vars = m.env[1]

=============================================================================
