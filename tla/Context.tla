------------------------------ MODULE Context ------------------------------
(***************************************************************************)
(* The interpreter's Context (src/src/context.h, context.cpp): the loaded  *)
(* modules, each with its functions and its stack of scopes, and the       *)
(* resolution of variable and function names.                              *)
(*                                                                         *)
(* A name is a record [pkg, id]: what split_package_from_id makes of the   *)
(* text at its last dot, pkg = Root ("") when there is none.  Names differ *)
(* when they differ beyond case, as the maps compare with ci_less.         *)
(***************************************************************************)
EXTENDS Values

CONSTANTS
  Ids,       \* unqualified identifiers, those of the native functions included
  Packages,  \* module names a program can write
  Root,      \* the name of the root module, the empty string
  IoModule,  \* "wwiv.io"
  Blocks     \* names of statement lists of the program text

ASSUME NamesAssumption ==
  /\ {"PRINT", "EASY", "EASY2", "EASY3"} \subseteq Ids
  /\ Root \in Packages /\ IoModule \in Packages /\ Root # IoModule

VARIABLES
  modules,    \* Context::modules: the names registered so far
  module,     \* Context::module: the current one
  functions,  \* Module::functions: for each module a map from QName
  imported,   \* Module::imported_modules
  scopes      \* Module::scopes, bottom first

contextVars == <<modules, module, functions, imported, scopes>>

QName == [pkg : Packages, id : Ids]
Plain(x) == [pkg |-> Root, id |-> x]

\* A BasicFunction, or none under that name.
NoBlock == "none"
Function == [type : {"BASIC"}, params : Seq(Ids), body : Blocks]
NoFunction == [type |-> "NONE", params |-> <<>>, body |-> NoBlock]
Native(name) == [type |-> "NATIVE", params |-> <<>>, body |-> name]
Natives == {Native(n) : n \in {"PRINT", "IO.PRINT", "EASY", "EASY2", "EASY3"}}

\* A Scope: every identifier's Value, or none.
Absent == <<"ABSENT", FALSE>>
ScopeName == {<<"GLOBAL">>} \cup ({"DEF", "FOR"} \X Ids)
Scope == [name : ScopeName, vars : [Ids -> Value \cup {Absent}]]
NoVars == [x \in Ids |-> Absent]
Global == [name |-> <<"GLOBAL">>, vars |-> NoVars]

NoFunctions == [q \in {} |-> NoFunction]

ContextTypeOK ==
  /\ modules \subseteq Packages /\ Root \in modules
  /\ module \in modules
  /\ DOMAIN functions = Packages
  /\ \A m \in Packages :
       /\ DOMAIN functions[m] \subseteq QName
       /\ \A q \in DOMAIN functions[m] : functions[m][q] \in Function \cup Natives
  /\ imported \in [Packages -> SUBSET Packages]
  /\ scopes \in [Packages -> Seq(Scope)]

\* Context::Context.  The natives it registers are named "stdlib::abs" and so
\* on, which no identifier of the language can spell, and are left out.
ContextInit ==
  /\ modules = {Root}
  /\ module = Root
  /\ functions = [m \in Packages |-> NoFunctions]
  /\ imported = [m \in Packages |-> {}]
  /\ scopes = [m \in Packages |-> IF m = Root THEN <<Global>> ELSE <<>>]

-----------------------------------------------------------------------------
(* Variables *)

Binds(m, x) == {i \in 1 .. Len(scopes[m]) : scopes[m][i].vars[x] # Absent}

\* Module::has_var, Module::has_fn
HasVar(m, x) == Binds(m, x) # {}
HasFn(m, q)  == q \in DOMAIN functions[m]

\* The module a variable is looked up in: the one it is qualified with, or else
\* the current module unless only the root has it.
Where(q) == IF q.pkg # Root THEN q.pkg
            ELSE IF ~HasVar(module, q.id) /\ HasVar(Root, q.id) THEN Root ELSE module

\* Context::var: the Value of the innermost binding
Var(q) ==
  LET m == Where(q)
  IN IF m \in modules /\ HasVar(m, q.id)
     THEN scopes[m][Max(Binds(m, q.id))].vars[q.id]
     ELSE Absent

\* Context::upsert: assign to the innermost binding, or bind in the top scope.
\* UpsertDefined is false where scopes.back() is called on an empty deque.
UpsertDefined(q) ==
  LET m == Where(q) IN m \in modules => scopes[m] # <<>>

\* Mutation: the outermost binding is assigned to.
UpsertOutermost(q, v) ==
  LET m == Where(q)
      i == IF HasVar(m, q.id) THEN Min(Binds(m, q.id)) ELSE Len(scopes[m])
  IN scopes' = IF m \in modules THEN [scopes EXCEPT ![m][i].vars[q.id] = v]
               ELSE scopes

Upsert(q, v) ==
  LET m == Where(q)
      i == IF HasVar(m, q.id) THEN Max(Binds(m, q.id)) ELSE Len(scopes[m])
  IN scopes' = IF m \in modules THEN [scopes EXCEPT ![m][i].vars[q.id] = v]
               ELSE scopes

PushScope(m, name, vars) ==
  scopes' = [scopes EXCEPT ![m] = Append(@, [name |-> name, vars |-> vars])]
PopScope(m) == scopes' = [scopes EXCEPT ![m] = Front(@)]

-----------------------------------------------------------------------------
(* Functions *)

Callee(q) == IF q.pkg # Root THEN q.pkg
             ELSE IF ~HasFn(module, q) /\ HasFn(Root, q) THEN Root ELSE module

\* The function a call reaches.  Module::functions is keyed by the id that is
\* left of a qualified name.
Resolve(q) ==
  IF Callee(q) \in modules /\ HasFn(Callee(q), Plain(q.id))
  THEN functions[Callee(q)][Plain(q.id)]
  ELSE NoFunction

\* Module::call's bindings of the parameters; of two that share a name the last
Bindings(params, args) ==
  [x \in Ids |->
     LET at == {i \in 1 .. Len(params) : params[i] = x}
     IN IF at = {} THEN Absent ELSE args[Max(at)]]

\* The native functions a program can reach (src/src/basicrun.cpp and the
\* adapters make_basic_fn_): too few arguments give FALSE, an argument whose
\* variant holds another type throws.
WantsText(v) == IF Type(v) = "STRING" THEN Str(<<>>) ELSE Throws
NativeResult(name, args) ==
  CASE name = "PRINT" ->
         IF \E i \in 1 .. Len(args) : args[i] = Mistyped THEN Throws ELSE Str(<<>>)
    [] name = "IO.PRINT" ->
         IF args # <<>> /\ args[1] = Mistyped THEN Throws ELSE Str(<<>>)
    [] name = "EASY" ->
         IF Len(args) < 1 THEN Bool(FALSE) ELSE WantsText(args[1])
    [] name = "EASY2" ->
         IF Len(args) < 2 THEN Bool(FALSE)
         ELSE IF WantsText(args[1]) = Throws THEN Throws ELSE WantsText(args[2])
    [] name = "EASY3" ->
         IF Len(args) < 2 THEN Bool(FALSE)
         ELSE IF Type(args[1]) # "INTEGER" \/ Type(args[2]) # "INTEGER" THEN Throws
         ELSE Fits(args[1][2] + args[2][2])

-----------------------------------------------------------------------------
(* Loading *)

\* The map f with q mapped to fn, and with every name in Q to its native.
With(f, q, fn) == [x \in DOMAIN f \cup {q} |-> IF x = q THEN fn ELSE f[x]]
WithNatives(f, Q) ==
  [x \in DOMAIN f \cup Q |-> IF x \in Q THEN Native(x.id) ELSE f[x]]

\* FunctionDefVisitor::visitProcedureDefinition
Define(q, params, body) ==
  functions' = [functions EXCEPT ![module] =
                  With(@, q, [type |-> "BASIC", params |-> params, body |-> body])]

\* Mutation: the new module does not become the current one.
OpenModuleStays(m) ==
  /\ modules' = modules \cup {m}
  /\ module' = module

\* FunctionDefVisitor::visitModuleDefinition: a module that exists already
\* does not become the current one.
OpenModule(m) ==
  /\ modules' = modules \cup {m}
  /\ module' = IF m \in modules THEN module ELSE m

\* basicrun.cpp: wwiv.io replaces a module of that name, and the natives
\* replace functions of their names in the root.
RegisterNatives ==
  /\ modules' = modules \cup {IoModule}
  /\ functions' =
       [functions EXCEPT
          ![IoModule] = With(NoFunctions, Plain("PRINT"), Native("IO.PRINT")),
          ![Root] = WithNatives(@, {Plain(x) : x \in {"PRINT", "EASY", "EASY2", "EASY3"}})]

=============================================================================
