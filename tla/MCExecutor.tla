----------------------------- MODULE MCExecutor -----------------------------
(***************************************************************************)
(* Program families for model-checking Executor.                           *)
(***************************************************************************)
EXTENDS Reference

MCIds == {"PRINT", "EASY", "EASY2", "EASY3", "F", "G", "A", "B", "I", "X", "U"}
MCPackages == {"", "wwiv.io", "M"}
MCBlocks == {"f", "inner", "g", "top"}

Const(v)     == [op |-> "literal", value |-> v, args |-> <<>>]
Lit(i)       == Const(Num(i))
Ld(x)        == [op |-> "load", name |-> Plain(x), args |-> <<>>]
Parens       == [op |-> "parens", args |-> <<>>]
Bin(sym)     == [op |-> "binary", sym |-> sym, args |-> <<1, 2>>]
Do(f, args)  == [op |-> "call", name |-> Plain(f), args |-> args]
In(m, x)     == [pkg |-> m, id |-> x]

Set(x, e)   == [op |-> "assign", name |-> Plain(x), exprs |-> <<e>>]
CopyTo(x, y)   == [op |-> "copy", name |-> Plain(x), from |-> Plain(y), exprs |-> <<>>]
Invoke(e)      == [op |-> "call", exprs |-> <<e>>]
Ret(e)    == [op |-> "return", exprs |-> <<e>>]
If(e, b)    == [op |-> "if", exprs |-> <<e>>, thens |-> <<b>>, else |-> NoBlock]
Loop(x, e1, e2, st, b) ==
  [op |-> "for", id |-> x, exprs |-> <<e1, e2>>, step |-> st, body |-> b]
Sub(f, ps, b) == [op |-> "def", name |-> Plain(f), params |-> ps, body |-> b]
Line(s)         == [op |-> "statement", stmt |-> s]


\* All sequences of one or two statements of the pool S.
UpTo2(S) == {<<i>> : i \in DOMAIN S} \cup {<<i, j>> : i, j \in DOMAIN S}
Pick(S, is) == [k \in DOMAIN is |-> S[is[k]]]

FPool == <<
  Set("A", <<Ld("A"), Lit(1), Bin("+")>>),
  CopyTo("X", "A"),
  Ret(<<Ld("A")>>),
  If(<<Ld("A"), Lit(1), Bin(">")>>, "inner"),
  Loop("I", <<Lit(1)>>, <<Ld("A")>>, 1, "inner"),
  Set("X", <<Ld("A"), Do("G", <<1>>)>>) >>

InnerPool == <<
  Set("X", <<Ld("A"), Ld("I"), Bin("+")>>),
  Ret(<<Ld("A"), Ld("A"), Bin("+")>>),
  Invoke(<<Ld("A"), Do("PRINT", <<1>>)>>),
  Set("X", <<Ld("A"), Lit(1), Bin("-"), Do("F", <<3>>)>>) >>

GBody == <<Set("A", <<Ld("B"), Lit(1), Bin("+")>>), Ret(<<Ld("A")>>)>>

\* Calls, loops and returns: every function F(A) of one or two statements of
\* FPool whose nested list is one or two statements of InnerPool.
CallIds == {"calls"} \X UpTo2(FPool) \X UpTo2(InnerPool)
CallProgram(p) ==
    [main |-> <<Sub("F", <<"A">>, "f"), Sub("G", <<"B">>, "g"),
                Line(Set("X", <<Lit(2), Do("F", <<1>>)>>)), Line(CopyTo("A", "X"))>>,
     code |-> [b \in MCBlocks |-> CASE b = "f" -> Pick(FPool, p[2])
                                    [] b = "inner" -> Pick(InnerPool, p[3])
                                    [] b = "g" -> GBody [] OTHER -> <<>>]]

\* Modules: every order of up to three of these lines, a definition without
\* parameters among them, then two calls.
ModulePool == <<
  [op |-> "module", name |-> "M"],
  [op |-> "module", name |-> "wwiv.io"],
  [op |-> "import", name |-> "M"],
  Sub("F", <<"A">>, "f"),
  Sub("F", <<"A", "A">>, "g"),
  Sub("PRINT", <<"A">>, "f"),
  Sub("G", <<>>, "f") >>

ModuleIds == {"modules"} \X UNION {[1 .. n -> DOMAIN ModulePool] : n \in 0 .. 3}
ModuleProgram(p) ==
    [main |-> Pick(ModulePool, p[2]) \o
              <<Line(Set("X", <<Lit(1), Do("F", <<1>>)>>)),
                Line(Invoke(<<Lit(1), [op |-> "call", name |-> In("M", "F"), args |-> <<1>>],
                              Do("PRINT", <<2>>)>>))>>,
     code |-> [b \in MCBlocks |-> IF b = "f" THEN <<Ret(<<Ld("A")>>)>> ELSE <<>>]]

\* Single lines at the top level, in twos: values of every type where the
\* program may put them, and the loops that miss their end.
LinePool == <<
  Line(Ret(<<Lit(1)>>)),
  Line(Set("X", <<Lit(1), Lit(2), Bin("<=")>>)),
  Line(Set("X", <<Const(Str(<<49>>)), Lit(2), Bin("+")>>)),
  Line(Set("X", <<Parens>>)),
  Line(Set("X", <<Ld("X"), Ld("U"), Bin("*")>>)),
  Line(Set("X", <<Lit(3), Ld("X"), Bin("/")>>)),
  Line(CopyTo("X", "U")),
  Line([op |-> "assign", name |-> In("M", "X"), exprs |-> << <<Lit(1)>> >>]),
  Line([op |-> "assign", name |-> In("wwiv.io", "X"), exprs |-> << <<Lit(1)>> >>]),
  Line([op |-> "if", exprs |-> << <<Ld("X")>>, <<Ld("X"), Lit(1), Bin("=")>> >>,
        thens |-> <<"f", "g">>, else |-> "inner"]),
  Line(Loop("I", <<Lit(1)>>, <<Lit(4)>>, 2, "inner")),
  Line(Loop("I", <<Lit(1)>>, <<Lit(3)>>, 2, "f")),
  Line(Loop("I", <<Lit(1)>>, <<Lit(2)>>, 0, "f")),
  Line(Loop("I", <<Lit(1)>>, <<Ld("U")>>, 1, "g")),
  Line(Invoke(<<Ld("U"), Ld("X"), Do("PRINT", <<1, 2>>)>>)),
  Line(Invoke(<<Ld("X"), Do("EASY", <<1>>)>>)),
  Line(Invoke(<<Ld("X"), Lit(4), Do("EASY2", <<1, 2>>)>>)),
  Line(Set("X", <<Ld("X"), Lit(4), Do("EASY3", <<1, 2>>)>>)),
  Line(Invoke(<<Ld("U"), [op |-> "call", name |-> In("wwiv.io", "PRINT"), args |-> <<1>>]>>)),
  Line(Set("X", <<Lit(1), Do("F", <<1>>)>>)) >>

LineIds == {"lines"} \X ((DOMAIN LinePool) \X (DOMAIN LinePool))
LineProgram(p) ==
    [main |-> <<Sub("F", <<"A">>, "f")>> \o Pick(LinePool, p[2]),
     code |-> [b \in MCBlocks |->
                 CASE b = "f" -> <<Set("X", <<Ld("I"), Lit(1), Bin("-")>>),
                                   CopyTo("U", "X")>>
                   [] b = "g" -> <<Set("I", <<Lit(2)>>)>>
                   [] OTHER -> <<>>]]

MCProgramIds == CallIds \cup ModuleIds \cup LineIds
MCPrograms == [p \in MCProgramIds |-> CASE p[1] = "calls"   -> CallProgram(p)
                                        [] p[1] = "modules" -> ModuleProgram(p)
                                        [] p[1] = "lines"   -> LineProgram(p)]

=============================================================================
