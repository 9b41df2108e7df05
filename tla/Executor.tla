------------------------------ MODULE Executor ------------------------------
(***************************************************************************)
(* One run of the interpreter (src/src/basicrun.cpp): FunctionDefVisitor   *)
(* walks the program and fills the Context, then ExecutionVisitor          *)
(* (src/src/executor.cpp) walks it again and executes it.                  *)
(*                                                                         *)
(* The visitor is recursive C++; frames is its call stack, one frame per   *)
(* visitor method that is waiting for another, and result is the std::any  *)
(* the last one returned.  An expression is given by the visits its tree   *)
(* makes, in the order in which they complete: operands before operators.  *)
(***************************************************************************)
EXTENDS Context

CONSTANTS
  ProgramIds,
  Programs,  \* the parse trees considered, [ProgramIds -> Program]
  MaxFrames  \* how many frames the native stack holds

VARIABLES
  program,   \* which one this process was given
  phase,     \* what the process is doing
  frames,    \* the native stack of visitor methods, innermost last
  result,    \* what the last visitor method returned
  return_    \* ExecutionVisitor::return_

runVars == <<phase, frames, result, return_>>
vars == <<contextVars, program, runVars>>

-----------------------------------------------------------------------------
(* Parse trees (src/BasicParser.g4) *)

\* A node of an expression's tree; args are the positions of its operands.
Node ==
       [op : {"literal"}, value : Typed, args : {<<>>}]
  \cup [op : {"load"}, name : QName, args : {<<>>}]
  \cup [op : {"parens"}, args : {<<>>}]
  \cup [op : {"binary"}, sym : Arithmetic \cup Relations, args : [1 .. 2 -> Nat]]
  \cup [op : {"call"}, name : QName, args : Seq(Nat)]

\* An expression: its nodes, operands before operators, the root last.
Code == {c \in Seq(Node) :
           /\ c # <<>>
           /\ \A i \in DOMAIN c : \A k \in DOMAIN c[i].args : c[i].args[k] \in 1 .. (i - 1)}

Exprs(n) == {e \in Seq(Code) : Len(e) = n}
Statement ==
       [op : {"assign"}, name : QName, exprs : Exprs(1)]
  \cup [op : {"copy"}, name : QName, from : QName, exprs : Exprs(0)]
  \cup [op : {"call", "return"}, exprs : Exprs(1)]
  \cup {s \in [op : {"if"}, exprs : Seq(Code) \ {<<>>}, thens : Seq(Blocks),
               else : Blocks \cup {NoBlock}] : Len(s.thens) = Len(s.exprs)}
  \cup [op : {"for"}, id : Ids, exprs : Exprs(2), step : Nat, body : Blocks]

Item ==
       [op : {"statement"}, stmt : Statement]
  \cup [op : {"def"}, name : QName, params : Seq(Ids), body : Blocks]
  \cup [op : {"module"}, name : Packages]
  \cup [op : {"import"}, name : Packages]

Program == [main : Seq(Item), code : [Blocks -> Seq(Statement)]]

ASSUME ProgramsAssumption == Programs \in [ProgramIds -> Program] /\ MaxFrames \in Nat

-----------------------------------------------------------------------------
(* The native stack *)

Main(pos)            == [k |-> "main", pos |-> pos]
Statements(blk, pos) == [k |-> "statements", blk |-> blk, pos |-> pos]
Stmt(s, vals)        == [k |-> "stmt", stmt |-> s, vals |-> vals]
Expr(code, vals)     == [k |-> "expr", code |-> code, vals |-> vals]
Fn(mod, id, at)      == [k |-> "fn", mod |-> mod, id |-> id, at |-> at]

\* visitForStatement; at is where in its module's scopes the loop's scope is,
\* to which the C++ reference `var` points
For(mod, id, at, cur, end, step, body, pc) ==
  [k |-> "for", mod |-> mod, id |-> id, at |-> at, cur |-> cur, end |-> end,
   step |-> step, body |-> body, pc |-> pc]

Frame ==
       [k : {"main"}, pos : Nat]
  \cup [k : {"statements"}, blk : Blocks, pos : Nat]
  \cup [k : {"stmt"}, stmt : Statement, vals : Seq(Result)]
  \cup [k : {"expr"}, code : Code, vals : Seq(Result)]
  \cup [k : {"fn"}, mod : Packages, id : Ids, at : Nat]
  \cup [k : {"for"}, mod : Packages, id : Ids, at : Nat, cur : MachineInt, end : MachineInt,
        step : Nat, body : Blocks, pc : {"test", "body", "last"}]

Phases == {"load", "run", "done", "terminated", "undefined"}

TypeOK ==
  /\ ContextTypeOK
  /\ program \in ProgramIds
  /\ phase \in Phases
  /\ frames \in Seq(Frame)
  /\ result \in Result
  /\ return_ \in BOOLEAN

Tree == Programs[program]
Top == frames[Len(frames)]
Below == frames[Len(frames) - 1]
AtTop(kind) == phase = "run" /\ frames # <<>> /\ Top.k = kind

Push(f)        == frames' = Append(frames, f)
Replace(f)     == frames' = [frames EXCEPT ![Len(frames)] = f]
Step(f, g)     == frames' = Append([frames EXCEPT ![Len(frames)] = f], g)
\* the top frame returns a
Return(a)      == frames' = Front(frames) /\ result' = a
\* the top frame returns into its caller, which becomes f
ReturnTo(f)    == frames' = [Front(frames) EXCEPT ![Len(frames) - 1] = f]

\* An exception nobody catches ends the process; after undefined behaviour
\* nothing is said of it.
Stop(ph) == phase' = ph /\ UNCHANGED <<contextVars, program, frames, result, return_>>
Throw    == Stop("terminated")
Undefine == Stop("undefined")

\* What no step of the execution changes but where it says so.
Rest == UNCHANGED <<modules, module, functions, program, phase>>

-----------------------------------------------------------------------------
Init ==
  /\ ContextInit
  /\ program \in ProgramIds
  /\ phase = "load"
  /\ frames = <<Main(0)>>
  /\ result = Empty
  /\ return_ = FALSE

(* Loading: FunctionDefVisitor over the whole program *)

Loading(op) ==
  /\ phase = "load" /\ Top.pos < Len(Tree.main)
  /\ Tree.main[Top.pos + 1].op = op
Loaded == Replace(Main(Top.pos + 1)) /\ UNCHANGED <<program, phase, result, return_>>

\* A definition without parameters has no parameterDefinitionList, and the
\* visitor dereferences the null pointer.
LoadDefinition ==
  /\ Loading("def")
  /\ LET d == Tree.main[Top.pos + 1]
     IN IF d.params = <<>> THEN Undefine
        ELSE Define(d.name, d.params, d.body) /\ Loaded
             /\ UNCHANGED <<modules, module, imported, scopes>>

LoadModule ==
  /\ Loading("module")
  /\ OpenModule(Tree.main[Top.pos + 1].name) /\ Loaded
  /\ UNCHANGED <<functions, imported, scopes>>

LoadOther ==
  /\ Loading("statement") \/ Loading("import")
  /\ Loaded /\ UNCHANGED contextVars

\* main() after the first walk, and visitMain's reset of the current module.
Execute ==
  /\ phase = "load" /\ Top.pos = Len(Tree.main)
  /\ RegisterNatives
  /\ module' = Root
  /\ phase' = "run"
  /\ frames' = <<Main(0)>>
  /\ UNCHANGED <<imported, scopes, program, result, return_>>

-----------------------------------------------------------------------------
(* visitMain, visitStatements *)

VisitItem ==
  /\ AtTop("main") /\ Top.pos < Len(Tree.main)
  /\ LET item == Tree.main[Top.pos + 1]
     IN IF item.op = "statement"
        THEN Step(Main(Top.pos + 1), Stmt(item.stmt, <<>>)) /\ UNCHANGED imported
        ELSE /\ Replace(Main(Top.pos + 1))
             /\ imported' = IF item.op = "import"
                            THEN [imported EXCEPT ![module] = @ \cup {item.name}]
                            ELSE imported
  /\ UNCHANGED <<scopes, result, return_>> /\ Rest

EndMain ==
  /\ AtTop("main") /\ Top.pos = Len(Tree.main)
  /\ phase' = "done"
  /\ UNCHANGED <<contextVars, program, frames, result, return_>>

\* Mutation: the list is visited to its end even after a RETURN.
GoesOnAfterReturn(f) == f.pos < Len(Tree.code[f.blk])

\* Whether visitStatements goes on to another statement.
GoesOn(f) == f.pos < Len(Tree.code[f.blk]) /\ (f.pos = 0 \/ ~return_)

VisitStatement ==
  /\ AtTop("statements") /\ GoesOn(Top)
  /\ Step(Statements(Top.blk, Top.pos + 1),
          Stmt(Tree.code[Top.blk][Top.pos + 1], <<>>))
  /\ UNCHANGED <<scopes, imported, result, return_>> /\ Rest

EndStatements ==
  /\ AtTop("statements") /\ ~GoesOn(Top)
  /\ Return(IF Top.pos = 0 THEN Empty ELSE result)
  /\ UNCHANGED <<scopes, imported, return_>> /\ Rest

-----------------------------------------------------------------------------
(* Expressions *)

\* Whether a statement's visitor evaluates another of its expressions: every
\* one, in order, but an IF only up to the first condition that is true.
WantsExpr(f) ==
  /\ Len(f.vals) < Len(f.stmt.exprs)
  /\ f.stmt.op = "if" => \A i \in DOMAIN f.vals : f.vals[i] = Bool(FALSE)

BeginExpr ==
  /\ AtTop("stmt") /\ WantsExpr(Top)
  /\ Push(Expr(Top.stmt.exprs[Len(Top.vals) + 1], <<>>))
  /\ UNCHANGED <<scopes, imported, result, return_>> /\ Rest

EndExpr ==
  /\ AtTop("expr") /\ Len(Top.vals) = Len(Top.code)
  /\ ReturnTo(Stmt(Below.stmt, Append(Below.vals, Last(Top.vals))))
  /\ UNCHANGED <<scopes, imported, result, return_>> /\ Rest

\* The node whose visit is due, and what its operands came to.
Visit == Top.code[Len(Top.vals) + 1]
Visiting(op) ==
  /\ AtTop("expr") /\ Len(Top.vals) < Len(Top.code)
  /\ Visit.op = op
Operands == [i \in DOMAIN Visit.args |-> Top.vals[Visit.args[i]]]
Valued(f, a) == Expr(f.code, Append(f.vals, a))
Yields(a) == Replace(Valued(Top, a)) /\ Rest

\* The visit comes to v: a value, or what happens instead of one.
ComesTo(v, flag) ==
  \/ v = Throws /\ Throw
  \/ v = Undefined /\ Undefine
  \/ /\ v \in Typed /\ Yields(v)
     /\ return_' = flag
     /\ UNCHANGED <<scopes, imported, result>>

VisitLiteral ==
  /\ Visiting("literal")
  /\ Yields(Visit.value)
  /\ UNCHANGED <<scopes, imported, result, return_>>

\* visitParens visits its first child, the parenthesis: the expression
\* between the parentheses is never visited.
VisitParens ==
  /\ Visiting("parens")
  /\ Yields(Empty)
  /\ UNCHANGED <<scopes, imported, result, return_>>

\* visitRvalue
VisitVariable ==
  /\ Visiting("load")
  /\ LET v == Var(Visit.name)
     IN IF v = Mistyped THEN Throw
        ELSE /\ Yields(IF v = Absent THEN Empty ELSE ToAny(v))
             /\ UNCHANGED <<scopes, imported, result, return_>>

\* visitRelation, visitMulDiv, visitAddSub
VisitBinary ==
  /\ Visiting("binary")
  /\ \E l \in FromAny(Operands[1]), r \in FromAny(Operands[2]) :
       ComesTo(Binary(Visit.sym, l, r), return_)

-----------------------------------------------------------------------------
(* visitProcedureCall, Context::call, Module::call *)

\* The arguments as Values: visitParameterList.
Arguments ==
  {[i \in DOMAIN Operands |-> IF Operands[i] = Empty THEN c[i] ELSE Operands[i]]
     : c \in [DOMAIN Operands -> FromAny(Empty)]}

CallFails ==
  /\ Visiting("call")
  /\ LET f == Resolve(Visit.name)
     IN f.type = "NONE" \/ (f.type = "BASIC" /\ Len(f.params) # Len(Visit.args))
  /\ Yields(Bool(FALSE))
  /\ return_' = FALSE
  /\ UNCHANGED <<scopes, imported, result>>

CallNative ==
  /\ Visiting("call") /\ Resolve(Visit.name).type = "NATIVE"
  /\ \E args \in Arguments :
       ComesTo(NativeResult(Resolve(Visit.name).body, args), FALSE)

\* The scope goes on the stack of the module the function was found in.  The
\* native stack is finite: a call too deep ends the process.
CallBasic ==
  /\ Visiting("call")
  /\ LET f == Resolve(Visit.name)
         m == Callee(Visit.name)
     IN /\ f.type = "BASIC" /\ Len(f.params) = Len(Visit.args)
        /\ IF Len(frames) >= MaxFrames THEN Throw
           ELSE /\ \E args \in Arguments :
                     PushScope(m, <<"DEF", Visit.name.id>>, Bindings(f.params, args))
                /\ frames' = frames \o <<Fn(m, Visit.name.id, Len(scopes[m]) + 1),
                                         Statements(f.body, 0)>>
                /\ UNCHANGED <<imported, result, return_>> /\ Rest

\* Mutation: Context::call leaves return_ set.
EndCallKeepsReturn ==
  /\ AtTop("fn")
  /\ \E v \in FromAny(result) :
       IF v = Mistyped THEN Throw
       ELSE /\ PopScope(Top.mod)
            /\ ReturnTo(Valued(Below, ToAny(v)))
            /\ UNCHANGED <<imported, result, return_>> /\ Rest

\* The body has returned result; its Value is printed.
EndCall ==
  /\ AtTop("fn")
  /\ \E v \in FromAny(result) :
       IF v = Mistyped THEN Throw
       ELSE /\ PopScope(Top.mod)
            /\ return_' = FALSE
            /\ ReturnTo(Valued(Below, ToAny(v)))
            /\ UNCHANGED <<imported, result>> /\ Rest

-----------------------------------------------------------------------------
(* Statements *)

Finishing(op) == AtTop("stmt") /\ Top.stmt.op = op /\ ~WantsExpr(Top)

Store(q, v) ==
  IF UpsertDefined(q)
  THEN Upsert(q, v) /\ Return(Empty) /\ UNCHANGED <<imported, return_>> /\ Rest
  ELSE Undefine

\* visitAssignmentStatement, its alternative with an expression
Assign ==
  /\ Finishing("assign")
  /\ \E v \in FromAny(Top.vals[1]) :
       IF v = Mistyped THEN Throw ELSE Store(Top.stmt.name, v)

\* and its alternative with a single identifier on the right
CopyVariable ==
  /\ Finishing("copy")
  /\ LET v == Var(Top.stmt.from)
     IN \/ v = Mistyped /\ Throw
        \/ v = Absent /\ Return(Empty) /\ UNCHANGED <<scopes, imported, return_>> /\ Rest
        \/ v \notin {Mistyped, Absent} /\ Store(Top.stmt.name, v)

\* procedureCall NEWLINE: the last child visited is the NEWLINE
CallStatement ==
  /\ Finishing("call")
  /\ Return(Empty)
  /\ UNCHANGED <<scopes, imported, return_>> /\ Rest

\* visitReturnStatement prints the value before it sets the flag.
ReturnStatement ==
  /\ Finishing("return")
  /\ \E v \in FromAny(Top.vals[1]) :
       IF v = Mistyped THEN Throw
       ELSE /\ return_' = TRUE
            /\ Return(Top.vals[1])
            /\ UNCHANGED <<scopes, imported>> /\ Rest

\* visitIfThenStatement, visitIfThenElseStatement,
\* visitIfThenElseIfElseStatement; any_cast<bool> throws on anything else.
IfStatement ==
  /\ Finishing("if")
  /\ LET s == Top.stmt
         last == Last(Top.vals)
     IN \/ Type(last) # "BOOLEAN" /\ Throw
        \/ /\ last = Bool(TRUE)
           /\ Replace(Statements(s.thens[Len(Top.vals)], 0))
           /\ UNCHANGED <<scopes, imported, result, return_>> /\ Rest
        \/ /\ last = Bool(FALSE)
           /\ IF s.else # NoBlock
              THEN Replace(Statements(s.else, 0)) /\ UNCHANGED result
              ELSE Return(Empty)
           /\ UNCHANGED <<scopes, imported, return_>> /\ Rest

-----------------------------------------------------------------------------
(* visitForStatement *)

EnterFor ==
  /\ Finishing("for")
  /\ \E start \in FromAny(Top.vals[1]), end \in FromAny(Top.vals[2]) :
       IF Mistyped \in {start, end} THEN Throw
       ELSE /\ PushScope(module, <<"FOR", Top.stmt.id>>,
                         [NoVars EXCEPT ![Top.stmt.id] = start])
            /\ Replace(For(module, Top.stmt.id, Len(scopes[module]) + 1,
                           ToInt(start), ToInt(end), Top.stmt.step, Top.stmt.body,
                           "test"))
            /\ UNCHANGED <<imported, result, return_>> /\ Rest

\* Mutation: the visit at end is left out.
ForBodyStopsEarly ==
  /\ AtTop("for") /\ Top.pc = "test"
  /\ scopes' = [scopes EXCEPT ![Top.mod][Top.at].vars[Top.id] = Num(Top.cur)]
  /\ Step([Top EXCEPT !.pc = IF Top.cur + Top.step >= Top.end THEN "last" ELSE "body"],
          Statements(Top.body, 0))
  /\ UNCHANGED <<imported, result, return_>> /\ Rest

\* Another visit of the body, the last one when current == end.
ForBody ==
  /\ AtTop("for") /\ Top.pc = "test"
  /\ scopes' = [scopes EXCEPT ![Top.mod][Top.at].vars[Top.id] = Num(Top.cur)]
  /\ Step([Top EXCEPT !.pc = IF Top.cur = Top.end THEN "last" ELSE "body"],
          Statements(Top.body, 0))
  /\ UNCHANGED <<imported, result, return_>> /\ Rest

\* Mutation: STEP is ignored.
ForNextWithoutStep ==
  /\ AtTop("for") /\ Top.pc = "body"
  /\ Replace([Top EXCEPT !.pc = "test"])
  /\ UNCHANGED <<scopes, imported, result, return_>> /\ Rest

\* Mutation: the sum is kept in an integer without bounds.
ForNextUnbounded ==
  /\ AtTop("for") /\ Top.pc = "body"
  /\ LET v == scopes[Top.mod][Top.at].vars[Top.id]
     IN \/ v = Mistyped /\ Throw
        \/ /\ v # Mistyped
           /\ Replace([Top EXCEPT !.cur = ToInt(v) + Top.step, !.pc = "test"])
           /\ UNCHANGED <<scopes, imported, result, return_>> /\ Rest

\* current = var.value().toInt(); current += step
ForNext ==
  /\ AtTop("for") /\ Top.pc = "body"
  /\ LET v == scopes[Top.mod][Top.at].vars[Top.id]
         n == ToInt(v) + Top.step
     IN \/ v = Mistyped /\ Throw
        \/ v # Mistyped /\ n \notin MachineInt /\ Undefine
        \/ /\ v # Mistyped /\ n \in MachineInt
           /\ Replace([Top EXCEPT !.cur = n, !.pc = "test"])
           /\ UNCHANGED <<scopes, imported, result, return_>> /\ Rest

\* Mutation: the loop's scope is not popped.
EndForLeaksScope ==
  /\ AtTop("for") /\ Top.pc = "last"
  /\ Return(Empty)
  /\ UNCHANGED <<scopes, imported, return_>> /\ Rest

EndFor ==
  /\ AtTop("for") /\ Top.pc = "last"
  /\ PopScope(module)
  /\ Return(Empty)
  /\ UNCHANGED <<imported, return_>> /\ Rest

-----------------------------------------------------------------------------
Stopped == phase \in {"done", "terminated", "undefined"}
Ended == Stopped /\ UNCHANGED vars

Load == LoadDefinition \/ LoadModule \/ LoadOther \/ Execute
Run == \/ VisitItem \/ EndMain \/ VisitStatement \/ EndStatements
       \/ BeginExpr \/ EndExpr
       \/ VisitLiteral \/ VisitParens \/ VisitVariable \/ VisitBinary
       \/ CallFails \/ CallNative \/ CallBasic \/ EndCall
       \/ Assign \/ CopyVariable \/ CallStatement \/ ReturnStatement \/ IfStatement
       \/ EnterFor \/ ForBody \/ ForNext \/ EndFor

Next == Load \/ Run \/ Ended

Spec == Init /\ [][Next]_vars

\* One thread, which the operating system keeps running.
FairSpec == Spec /\ WF_vars(Load \/ Run)

-----------------------------------------------------------------------------
(* Properties *)

\* The frames of visitor methods that pushed a scope and have yet to pop it.
Owns(f) == f.k \in {"fn", "for"}
OwnScope(f) == <<IF f.k = "fn" THEN "DEF" ELSE "FOR", f.id>>
Owners == {i \in 1 .. Len(frames) : Owns(frames[i])}
Floor(m) == IF m = Root THEN 1 ELSE 0

\* Every scope above the global one was pushed by exactly one call or FOR loop
\* still on the native stack, scopes are stacked in the order of those, and
\* nothing else is left on any module's stack: no path through calls, loops,
\* RETURN and module-qualified calls leaks a scope or pops another's, and the
\* reference visitForStatement keeps into its scope stays valid while the body
\* is visited.
EachOwnerHasItsScope ==
  \A i \in Owners :
    LET f == frames[i]
    IN /\ f.at \in (Floor(f.mod) + 1) .. Len(scopes[f.mod])
       /\ scopes[f.mod][f.at].name = OwnScope(f)
OwnersAreStacked ==
  \A i, j \in Owners : i < j /\ frames[i].mod = frames[j].mod
                         => frames[i].at < frames[j].at
EachScopeHasAnOwner ==
  \A m \in Packages : \A d \in (Floor(m) + 1) .. Len(scopes[m]) :
    \E i \in Owners : frames[i].mod = m /\ frames[i].at = d
ScopeDiscipline ==
  EachOwnerHasItsScope /\ OwnersAreStacked /\ EachScopeHasAnOwner

\* A variable that a variable of an inner scope hides is never changed: a
\* function's parameters and a loop's variable shield those of its callers.
HiddenVariablesKept ==
  [][\A m \in Packages : \A i, j \in 1 .. Len(scopes[m]) : \A x \in Ids :
       (i < j /\ scopes[m][j].vars[x] # Absent)
         => scopes'[m][i].vars[x] = scopes[m][i].vars[x]]_vars

\* The statement lists a statement contains.
Lists(s) == CASE s.op = "if"  -> Range(s.thens) \cup ({s.else} \cap Blocks)
              [] s.op = "for" -> {s.body}
              [] OTHER -> {}

\* RETURN only where the visitor supports it: not at the top level and not
\* inside a FOR ("Need to figure out how to add RETURN and BREAK support").
Structured(t) ==
  \E quiet \in SUBSET Blocks :
    /\ \A i \in DOMAIN t.main : t.main[i].op = "statement" =>
         t.main[i].stmt.op # "return" /\ Lists(t.main[i].stmt) \subseteq quiet
    /\ \A b \in Blocks : \A i \in DOMAIN t.code[b] :
         LET s == t.code[b][i]
         IN /\ s.op = "for" => s.body \in quiet
            /\ b \in quiet => s.op # "return" /\ Lists(s) \subseteq quiet

\* Every definition has a parameter.
Parameterised(t) == \A i \in DOMAIN t.main : t.main[i].op = "def" => t.main[i].params # <<>>

\* return_ is only ever set between a RETURN and the end of the call it
\* returns from, with no loop left open in between.
ReturnBelongsToCall ==
  return_ /\ Structured(Tree) =>
    \E i \in 1 .. Len(frames) :
      frames[i].k = "fn" /\ \A j \in (i + 1) .. Len(frames) : frames[j].k = "statements"

\* While it is set the visitor only returns: no statement, expression or loop
\* iteration is begun until the call has ended.
ReturnUnwinds ==
  [][return_ /\ Structured(Tree) /\ phase' = "run" => Len(frames') < Len(frames)]_vars

\* After loading, a function is in the module under whose MODULE line it
\* stands and is the last definition of its name there (when the program opens
\* each module once, and none is called wwiv.io); a native of the same name
\* replaces it in the root.
Section(i) ==
  LET before == {j \in 1 .. i : Tree.main[j].op = "module"}
  IN IF before = {} THEN Root ELSE Tree.main[Max(before)].name
Sections == {i \in DOMAIN Tree.main : Tree.main[i].op = "module"}
OpensOnce ==
  /\ \A i \in Sections : Tree.main[i].name \notin {Root, IoModule}
  /\ \A i, j \in Sections : Tree.main[i].name = Tree.main[j].name => i = j
DefinitionsLand ==
  phase = "run" /\ frames = <<Main(0)>> /\ OpensOnce =>
    \A m \in Packages : \A q \in QName :
      LET defs == {i \in DOMAIN Tree.main :
                     Tree.main[i].op = "def" /\ Tree.main[i].name = q /\ Section(i) = m}
      IN /\ HasFn(m, q) => functions[m][q] \in Natives \/ defs # {}
         /\ defs # {} /\ m # IoModule =>
              /\ HasFn(m, q)
              /\ \/ functions[m][q] = Native(q.id) /\ m = Root
                 \/ /\ functions[m][q].params = Tree.main[Max(defs)].params
                    /\ functions[m][q].body = Tree.main[Max(defs)].body

\* A program the grammar accepts is loaded: a procedureDefinition may leave out
\* its parameterDefinitionList.
ProgramsLoad == [][phase = "load" => phase' \in {"load", "run"}]_vars

\* No loop stands still or steps away from its variable.
Written(t) == {t.main[i].stmt : i \in {j \in DOMAIN t.main : t.main[j].op = "statement"}}
                \cup UNION {Range(t.code[b]) : b \in Blocks}
Steps(t) ==
  \A s \in Written(t) : s.op = "for" =>
    /\ s.step > 0
    /\ \A a \in Written(t) : a.op \in {"assign", "copy"} => a.name # Plain(s.id)

\* Such a program comes to an end, if only because an int overflows or the
\* native stack is exhausted.
Terminates == Steps(Tree) => <>Stopped

=============================================================================
