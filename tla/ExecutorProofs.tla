-------------------------- MODULE ExecutorProofs --------------------------
(***************************************************************************)
(* The interpreter keeps its state well-typed, its scopes matched with its *)
(* native stack and RETURN within its call, and loading puts definitions   *)
(* where they stand: for every set of programs, every int width and every  *)
(* stack size.                                                             *)
(*                                                                         *)
(* TypeOK is not inductive by itself: what a visitor takes from the stack  *)
(* is there because of who called whom (StackOK).  ScopeDiscipline needs   *)
(* both: the scope a call or a loop pops is the one on top only because    *)
(* owners are stacked in the order of their scopes.  That a RETURN finds   *)
(* its call rests on where its list may stand (Link).                      *)
(*                                                                         *)
(* First, what these proofs need of the modules below: every operation on  *)
(* Values yields a Value, an exception or undefined behaviour; those on a  *)
(* well-typed Context keep it so, and find what they say they find.        *)
(***************************************************************************)
EXTENDS Executor, TLAPS, FiniteSetTheorems, SequenceTheorems, WellFoundedInduction

-----------------------------------------------------------------------------
(* Values *)

\* A set of positions that is not empty has a largest element.
LEMMA MaxInSet ==
  ASSUME NEW n \in Nat, NEW S \in SUBSET (1 .. n), S # {}
  PROVE  Max(S) \in S /\ \A j \in S : j <= Max(S)
<1> DEFINE T == {n - j : j \in S}
<1>1. T \subseteq Nat /\ T # {}
  <2>1. \A j \in S : n - j \in Nat
    OBVIOUS
  <2>2. PICK j \in S : TRUE
    OBVIOUS
  <2>3. n - j \in T
    OBVIOUS
  <2>4. QED
    BY <2>1, <2>3
<1>2. PICK t \in T : \A u \in T : ~ (<<u, t>> \in OpToRel(<, Nat))
  <2> HIDE DEF T
  <2> QED BY <1>1, NatLessThanWellFounded, WFMin
<1>3. \A u \in T : ~ (u < t)
  BY <1>1, <1>2 DEF OpToRel
<1>4. \E x \in S : \A y \in S : x >= y
  <2>1. PICK x \in S : t = n - x
    OBVIOUS
  <2>2. \A y \in S : n - y \in T
    OBVIOUS
  <2>3. \A y \in S : x >= y
    BY <2>1, <2>2, <1>3
  <2> QED BY <2>3
<1>5. Max(S) \in S /\ \A y \in S : Max(S) >= y
  BY <1>4 DEF Max
<1>6. QED
  BY <1>5

\* What a Value is made of.
LEMMA ValueParts ==
  \A v \in Value :
    /\ Type(v) \in {"BOOLEAN", "INTEGER", "STRING", "MISTYPED", "UNTYPED"}
    /\ Type(v) = "BOOLEAN" => v[2] \in BOOLEAN
    /\ Type(v) = "INTEGER" => v[2] \in MachineInt
    /\ Type(v) = "STRING" => v[2] \in Text
<1> SUFFICES ASSUME NEW v \in Value
             PROVE  /\ Type(v) \in {"BOOLEAN", "INTEGER", "STRING", "MISTYPED", "UNTYPED"}
                    /\ Type(v) = "BOOLEAN" => v[2] \in BOOLEAN
                    /\ Type(v) = "INTEGER" => v[2] \in MachineInt
                    /\ Type(v) = "STRING" => v[2] \in Text
  OBVIOUS
<1>1. CASE v \in {"BOOLEAN"} \X BOOLEAN
  BY <1>1 DEF Type
<1>2. CASE v \in {"INTEGER"} \X MachineInt
  BY <1>2 DEF Type
<1>3. CASE v \in {"STRING"} \X Text
  BY <1>3 DEF Type
<1>4. CASE v \in {Mistyped, Untyped}
  <2>1. Type(Mistyped) = "MISTYPED" /\ Type(Untyped) = "UNTYPED"
    BY DEF Type, Mistyped, Untyped
  <2>2. QED
    BY <1>4, <2>1
<1>5. QED
  BY <1>1, <1>2, <1>3, <1>4 DEF Value, Typed

LEMMA ToBoolType == \A v \in Value : ToBool(v) \in BOOLEAN
<1> SUFFICES ASSUME NEW v \in Value PROVE ToBool(v) \in BOOLEAN
  OBVIOUS
<1>1. Type(v) = "BOOLEAN" => ToBool(v) = v[2]
  BY Zenon DEF ToBool
<1>2. Type(v) = "INTEGER" => ToBool(v) = (v[2] # 0)
  BY Zenon DEF ToBool
<1>3. Type(v) = "STRING" => ToBool(v) = (v[2] = TrueText)
  BY Zenon DEF ToBool
<1>4. Type(v) \notin {"BOOLEAN", "INTEGER", "STRING"} => ToBool(v) = FALSE
  BY Zenon DEF ToBool
<1>5. QED
  BY <1>1, <1>2, <1>3, <1>4, ValueParts

LEMMA ToIntType == \A v \in Value : ToInt(v) \in MachineInt
<1> SUFFICES ASSUME NEW v \in Value PROVE ToInt(v) \in MachineInt
  OBVIOUS
<1>0. 0 \in MachineInt /\ 1 \in MachineInt
  BY IntMaxAssumption DEF MachineInt
<1>1. \A s : Stoi(s) \in MachineInt
  BY <1>0 DEF Stoi
<1>2. Type(v) = "BOOLEAN" => ToInt(v) = IF v[2] THEN 1 ELSE 0
  BY Zenon DEF ToInt
<1>3. Type(v) = "INTEGER" => ToInt(v) = v[2]
  BY Zenon DEF ToInt
<1>4. Type(v) = "STRING" => ToInt(v) = Stoi(v[2])
  BY Zenon DEF ToInt
<1>5. Type(v) \notin {"BOOLEAN", "INTEGER", "STRING"} => ToInt(v) = 0
  BY Zenon DEF ToInt
<1>6. QED
  BY <1>0, <1>1, <1>2, <1>3, <1>4, <1>5, ValueParts

\* A decimal rendering has one to ten digits.
LEMMA RenderType == \A i \in Int : Render(i) \in Text
<1> SUFFICES ASSUME NEW i \in Int PROVE Render(i) \in Text
  OBVIOUS
<1> DEFINE n == IF i < 0 THEN -i ELSE i
           K == {k \in 2 .. 10 : n >= PowersOfTen[k]}
           width == 1 + Cardinality(K)
           digits == [k \in 1 .. width |->
                        48 + ((n \div PowersOfTen[width - k + 1]) % 10)]
<1>1. IsFiniteSet(K) /\ Cardinality(K) \in Nat /\ Cardinality(K) <= 9
  <2>1. IsFiniteSet(2 .. 10) /\ Cardinality(2 .. 10) = 9
    <3>1. \A a, b \in Int : /\ IsFiniteSet(a .. b)
                            /\ Cardinality(a .. b) = IF a > b THEN 0 ELSE b - a + 1
      BY FS_Interval
    <3>2. PICK a \in Int, b \in Int : a = 2 /\ b = 10
      OBVIOUS
    <3>3. IsFiniteSet(a .. b) /\ Cardinality(a .. b) = IF a > b THEN 0 ELSE b - a + 1
      BY <3>1, Zenon
    <3>4. PICK c : c = Cardinality(a .. b)
      OBVIOUS
    <3>5. c = 9
      <4>1. c = IF a > b THEN 0 ELSE b - a + 1
        BY <3>3, <3>4, Zenon
      <4>2. QED
        BY <3>2, <4>1
    <3>6. QED
      BY <3>2, <3>3, <3>4, <3>5, Zenon
  <2>2. K \in SUBSET (2 .. 10)
    OBVIOUS
  <2> HIDE DEF K
  <2>3. QED
    BY <2>1, <2>2, FS_Subset, FS_CardinalityType
<1>2. width \in 1 .. 10
  BY <1>1
<1>3. \A j \in 1 .. 10 : PowersOfTen[j] \in Nat \ {0}
  BY DEF PowersOfTen
<1> HIDE DEF K, width
<1>4. \A k \in 1 .. width : 48 + ((n \div PowersOfTen[width - k + 1]) % 10) \in Byte
  <2> SUFFICES ASSUME NEW k \in 1 .. width
               PROVE  48 + ((n \div PowersOfTen[width - k + 1]) % 10) \in Byte
    OBVIOUS
  <2>1. PowersOfTen[width - k + 1] \in Nat \ {0}
    BY <1>2, <1>3
  <2>2. PICK p \in Nat \ {0} : p = PowersOfTen[width - k + 1]
    BY <2>1
  <2>3. n \div p \in Int
    OBVIOUS
  <2>4. (n \div p) % 10 \in 0 .. 9
    BY <2>3
  <2>5. QED
    BY <2>2, <2>4 DEF Byte
<1>5. digits \in Text
  BY <1>2, <1>4 DEF Text
<1>6. <<45>> \in Text
  BY DEF Text, Byte
<1>7. <<45>> \o digits \in Text
  BY <1>5, <1>6 DEF Text
<1>8. Render(i) = IF i < 0 THEN <<45>> \o digits ELSE digits
  BY DEF Render, width, K
<1>9. QED
  BY <1>5, <1>7, <1>8

LEMMA ToTextType == \A v \in Value : ToText(v) \in Text
<1>1. TrueText \in Text /\ FalseText \in Text /\ <<>> \in Text
  BY DEF TrueText, FalseText, Text, Byte
<1>2. \A i \in MachineInt : Render(i) \in Text
  BY RenderType, IntMaxAssumption DEF MachineInt
<1> SUFFICES ASSUME NEW v \in Value PROVE ToText(v) \in Text
  OBVIOUS
<1>3. Type(v) = "BOOLEAN" => ToText(v) = IF v[2] THEN TrueText ELSE FalseText
  BY Zenon DEF ToText
<1>4. Type(v) = "INTEGER" => ToText(v) = Render(v[2])
  BY Zenon DEF ToText
<1>5. Type(v) = "STRING" => ToText(v) = v[2]
  BY Zenon DEF ToText
<1>6. Type(v) \notin {"BOOLEAN", "INTEGER", "STRING"} => ToText(v) = <<>>
  BY Zenon DEF ToText
<1>7. QED
  BY <1>1, <1>2, <1>3, <1>4, <1>5, <1>6, ValueParts

Outcome == Typed \cup {Throws, Undefined}

LEMMA FitsType == \A i : Fits(i) \in Outcome
BY DEF Fits, Outcome, Typed, Num

LEMMA FromAnyType == \A a \in Result : FromAny(a) \subseteq Value
<1> SUFFICES ASSUME NEW a \in Result PROVE FromAny(a) \subseteq Value
  OBVIOUS
<1>1. CASE a = Empty
  <2>1. Bool(FALSE) \in Value
    BY DEF Bool, Value, Typed
  <2>2. QED
    BY <1>1, <2>1 DEF FromAny, Value
<1>2. CASE a # Empty
  BY <1>2 DEF FromAny, Result, Value
<1>3. QED
  BY <1>1, <1>2

LEMMA ToAnyType == \A v \in Value : v # Mistyped => ToAny(v) \in Result
BY DEF ToAny, Result, Value, Typed, Untyped

\* The operators of the language.
LEMMA BinaryType ==
  \A sym \in Arithmetic \cup Relations, l, r \in Value : Binary(sym, l, r) \in Outcome
<1> SUFFICES ASSUME NEW sym \in Arithmetic \cup Relations, NEW l \in Value, NEW r \in Value
             PROVE  Binary(sym, l, r) \in Outcome
  OBVIOUS
<1>0. \A b \in BOOLEAN : Bool(b) \in Outcome
  BY DEF Bool, Outcome, Typed
<1>1. CASE Mistyped \in {l, r}
  BY <1>1 DEF Binary, Outcome
<1>2. CASE l = Untyped /\ Mistyped \notin {l, r}
  <2>1. Binary(sym, l, r) = Bool(sym = "<>")
    BY <1>2 DEF Binary
  <2>2. (sym = "<>") \in BOOLEAN
    OBVIOUS
  <2>3. QED BY <2>1, <2>2, <1>0
<1>3. CASE l # Untyped /\ Mistyped \notin {l, r}
  <2> DEFINE t == Type(l)
             x == As(t, l)
             y == As(t, r)
  <2>1. t \in {"BOOLEAN", "INTEGER", "STRING"}
    BY <1>3 DEF Value, Typed, Type
  <2>2. Binary(sym, l, r) =
          IF sym \in Relations THEN Bool(Holds(sym, t, x, y))
          ELSE CASE t = "BOOLEAN" -> BoolArithmetic(sym, x, y)
                 [] t = "INTEGER" -> IntArithmetic(sym, x, y)
                 [] t = "STRING"  -> Str(x \o y)
    BY <1>3 DEF Binary
  <2>3. CASE sym \in Relations
    <3>1. Holds(sym, t, x, y) \in BOOLEAN
      BY DEF Holds
    <3>2. Binary(sym, l, r) = Bool(Holds(sym, t, x, y))
      BY <2>2, <2>3
    <3>3. QED
      BY <3>1, <3>2, <1>0
  <2>4. CASE sym \notin Relations /\ t = "BOOLEAN"
    <3>1. x \in BOOLEAN /\ y \in BOOLEAN
      BY <2>4, ToBoolType DEF As
    <3>2. sym \in Arithmetic
      BY <2>4
    <3>3. BoolArithmetic(sym, x, y) \in Outcome
      <4>1. 0 \in MachineInt /\ 1 \in MachineInt
        BY IntMaxAssumption DEF MachineInt
      <4> HIDE DEF x, y
      <4>2. (x \/ y) \in BOOLEAN /\ (~(x /\ y)) \in BOOLEAN /\ (x /\ y) \in BOOLEAN
        BY <3>1
      <4>3. Num(IF x /\ y THEN 1 ELSE 0) \in Outcome
        BY <3>1, <4>1 DEF Num, Outcome, Typed
      <4>4. QED
        BY <3>2, <4>2, <4>3, <1>0 DEF BoolArithmetic, Arithmetic
    <3>4. QED
      BY <2>2, <2>4, <3>3
  <2>5. CASE sym \notin Relations /\ t = "INTEGER"
    <3>1. sym \in Arithmetic
      BY <2>5
    <3>2. IntArithmetic(sym, x, y) \in Outcome
      <4>1. Bool(x # 0 /\ y # 0) \in Outcome /\ Bool(x # 0 \/ y # 0) \in Outcome
        BY <1>0
      <4>2. Undefined \in Outcome
        BY DEF Outcome
      <4> HIDE DEF x, y
      <4>3. QED
        BY <3>1, <4>1, <4>2, FitsType DEF IntArithmetic, Arithmetic
    <3>3. QED
      BY <2>2, <2>5, <3>2
  <2>6. CASE sym \notin Relations /\ t = "STRING"
    <3>1. x \in Text /\ y \in Text
      BY <2>6, ToTextType DEF As
    <3>2. x \o y \in Text
      BY <3>1 DEF Text
    <3>3. Str(x \o y) \in Outcome
      BY <3>2 DEF Str, Outcome, Typed
    <3>4. QED
      BY <2>2, <2>6, <3>3
  <2>7. QED
    BY <2>1, <2>3, <2>4, <2>5, <2>6
<1>4. QED
  BY <1>1, <1>2, <1>3

-----------------------------------------------------------------------------
(* Contexts *)

\* The innermost binding, if there is one, is one of the scopes.
LEMMA InnermostBinding ==
  ASSUME ContextTypeOK, NEW m \in Packages, NEW x \in Ids, HasVar(m, x)
  PROVE  Max(Binds(m, x)) \in 1 .. Len(scopes[m])
<1>1. Len(scopes[m]) \in Nat
  BY DEF ContextTypeOK
<1>2. Binds(m, x) \in SUBSET (1 .. Len(scopes[m])) /\ Binds(m, x) # {}
  BY DEF Binds, HasVar
<1>3. Max(Binds(m, x)) \in Binds(m, x)
  BY <1>1, <1>2, MaxInSet
<1>4. QED
  BY <1>2, <1>3

LEMMA WhereType ==
  ASSUME ContextTypeOK, NEW q \in QName
  PROVE  Where(q) \in Packages /\ q.id \in Ids /\ q.pkg \in Packages
BY NamesAssumption DEF ContextTypeOK, QName, Where

LEMMA ScopeParts ==
  ASSUME ContextTypeOK, NEW m \in Packages, NEW i \in 1 .. Len(scopes[m])
  PROVE  /\ scopes[m][i] \in Scope
         /\ \A x \in Ids : scopes[m][i].vars[x] \in Value \cup {Absent}
<1>1. scopes[m] \in Seq(Scope)
  BY DEF ContextTypeOK
<1>2. scopes[m][i] \in Scope
  BY <1>1
<1>3. QED
  BY <1>2 DEF Scope

LEMMA VarType ==
  ASSUME ContextTypeOK, NEW q \in QName
  PROVE  Var(q) \in Value \cup {Absent}
<1>1. Where(q) \in Packages /\ q.id \in Ids
  BY WhereType
<1>2. CASE Where(q) \in modules /\ HasVar(Where(q), q.id)
  <2>1. PICK i \in 1 .. Len(scopes[Where(q)]) : i = Max(Binds(Where(q), q.id))
    BY <1>1, <1>2, InnermostBinding
  <2>2. Var(q) = scopes[Where(q)][i].vars[q.id]
    BY <1>2, <2>1 DEF Var
  <2>3. QED
    BY <1>1, <2>2, ScopeParts
<1>3. CASE ~(Where(q) \in modules /\ HasVar(Where(q), q.id))
  BY <1>3 DEF Var
<1>4. QED
  BY <1>2, <1>3

\* Scopes with the same names at the same depths.
SameShape(new, old) ==
  \A m \in Packages :
    /\ Len(new[m]) = Len(old[m])
    /\ \A i \in 1 .. Len(old[m]) : new[m][i].name = old[m][i].name

\* Assigning to one variable of one scope.
LEMMA AssignInScope ==
  ASSUME NEW S \in [Packages -> Seq(Scope)], NEW m \in Packages,
         NEW i \in 1 .. Len(S[m]), NEW x \in Ids, NEW v \in Value
  PROVE  /\ [S EXCEPT ![m][i].vars[x] = v] \in [Packages -> Seq(Scope)]
         /\ SameShape([S EXCEPT ![m][i].vars[x] = v], S)
<1> DEFINE sc == S[m][i]
           new == [sc EXCEPT !.vars[x] = v]
           st == [S[m] EXCEPT ![i] = new]
           T == [S EXCEPT ![m] = st]
<1>1. sc \in Scope
  OBVIOUS
<1>2. new \in Scope /\ new.name = sc.name
  <2> HIDE DEF sc
  <2>1. sc.name \in ScopeName /\ sc.vars \in [Ids -> Value \cup {Absent}]
    BY <1>1 DEF Scope
  <2>2. [sc.vars EXCEPT ![x] = v] \in [Ids -> Value \cup {Absent}]
    BY <2>1
  <2>3. new = [name |-> sc.name, vars |-> [sc.vars EXCEPT ![x] = v]]
    <3>1. new = [sc EXCEPT !.vars = [sc.vars EXCEPT ![x] = v]]
      OBVIOUS
    <3>2. \A w : [sc EXCEPT !.vars = w] = [name |-> sc.name, vars |-> w]
      BY <1>1 DEF Scope
    <3> HIDE DEF new
    <3>3. QED
      BY <3>1, <3>2
  <2>4. QED
    BY <2>1, <2>2, <2>3 DEF Scope
<1> HIDE DEF new
<1>3. /\ st \in Seq(Scope) /\ Len(st) = Len(S[m])
      /\ \A d \in 1 .. Len(S[m]) : st[d].name = S[m][d].name
  BY <1>1, <1>2
<1> HIDE DEF st
<1>4. T \in [Packages -> Seq(Scope)] /\ SameShape(T, S)
  BY <1>3 DEF SameShape
<1>5. [S EXCEPT ![m][i].vars[x] = v] = T
  BY DEF new, st
<1>6. QED
  BY <1>4, <1>5

LEMMA UpsertType ==
  ASSUME ContextTypeOK, NEW q \in QName, NEW v \in Value, UpsertDefined(q), Upsert(q, v)
  PROVE  scopes' \in [Packages -> Seq(Scope)] /\ SameShape(scopes', scopes)
<1> DEFINE m == Where(q)
           i == IF HasVar(m, q.id) THEN Max(Binds(m, q.id)) ELSE Len(scopes[m])
<1>1. m \in Packages /\ q.id \in Ids /\ scopes \in [Packages -> Seq(Scope)]
  BY WhereType DEF ContextTypeOK
<1>2. CASE m \in modules
  <2>1. Len(scopes[m]) \in Nat \ {0}
    BY <1>1, <1>2 DEF UpsertDefined
  <2>2. i \in 1 .. Len(scopes[m])
    BY <1>1, <2>1, InnermostBinding
  <2>3. scopes' = [scopes EXCEPT ![m][i].vars[q.id] = v]
    BY <1>2 DEF Upsert
  <2> HIDE DEF m, i
  <2>4. QED
    BY <1>1, <2>2, <2>3, AssignInScope
<1>3. CASE m \notin modules
  BY <1>1, <1>3 DEF Upsert, SameShape
<1>4. QED
  BY <1>2, <1>3

LEMMA PushScopeType ==
  ASSUME NEW S \in [Packages -> Seq(Scope)], NEW m \in Packages,
         NEW name \in ScopeName, NEW w \in [Ids -> Value \cup {Absent}]
  PROVE  [S EXCEPT ![m] = Append(@, [name |-> name, vars |-> w])] \in [Packages -> Seq(Scope)]
<1>1. [name |-> name, vars |-> w] \in Scope
  BY DEF Scope
<1>2. Append(S[m], [name |-> name, vars |-> w]) \in Seq(Scope)
  BY <1>1
<1>3. QED
  BY <1>2

LEMMA FrontOf ==
  ASSUME NEW D, NEW s \in Seq(D), s # <<>>
  PROVE  /\ Front(s) \in Seq(D) /\ Len(Front(s)) = Len(s) - 1
         /\ \A i \in 1 .. Len(s) - 1 : Front(s)[i] = s[i]
<1>1. PICK n \in Nat : n = Len(s) - 1
  OBVIOUS
<1>2. Front(s) = SubSeq(s, 1, n)
  BY <1>1 DEF Front
<1>3. \A i \in 1 .. n : s[i] \in D
  BY <1>1
<1>4. Len(SubSeq(s, 1, n)) = n /\ \A i \in 1 .. n : SubSeq(s, 1, n)[i] = s[i]
  BY <1>1, SubSeqProperties
<1>5. SubSeq(s, 1, n) \in Seq(D)
  BY <1>1, <1>3, <1>4, SubSeqProperties
<1>6. QED
  BY <1>1, <1>2, <1>4, <1>5

LEMMA PopScopeType ==
  ASSUME NEW S \in [Packages -> Seq(Scope)], NEW m \in Packages, S[m] # <<>>
  PROVE  /\ [S EXCEPT ![m] = Front(@)] \in [Packages -> Seq(Scope)]
         /\ Len(Front(S[m])) = Len(S[m]) - 1
         /\ \A i \in 1 .. Len(S[m]) - 1 : Front(S[m])[i] = S[m][i]
<1>1. S[m] \in Seq(Scope)
  OBVIOUS
<1>2. /\ Front(S[m]) \in Seq(Scope) /\ Len(Front(S[m])) = Len(S[m]) - 1
      /\ \A i \in 1 .. Len(S[m]) - 1 : Front(S[m])[i] = S[m][i]
  BY <1>1, FrontOf
<1>3. QED
  BY <1>2

LEMMA ResolveType ==
  ASSUME ContextTypeOK, NEW q \in QName
  PROVE  /\ Callee(q) \in Packages
         /\ Resolve(q) \in Function \cup Natives \cup {NoFunction}
<1>1. Callee(q) \in Packages /\ q.id \in Ids
  BY NamesAssumption DEF ContextTypeOK, QName, Callee
<1>2. CASE Resolve(q) = NoFunction
  BY <1>1, <1>2
<1>3. CASE Resolve(q) # NoFunction
  BY <1>1, <1>3 DEF Resolve, HasFn, ContextTypeOK
<1>4. QED
  BY <1>1, <1>2, <1>3

LEMMA BindingsType ==
  ASSUME NEW ps \in Seq(Ids), NEW args \in Seq(Value), Len(ps) = Len(args)
  PROVE  Bindings(ps, args) \in [Ids -> Value \cup {Absent}]
<1> SUFFICES ASSUME NEW x \in Ids PROVE Bindings(ps, args)[x] \in Value \cup {Absent}
  BY DEF Bindings
<1> DEFINE at == {i \in 1 .. Len(ps) : ps[i] = x}
<1>1. Bindings(ps, args)[x] = IF at = {} THEN Absent ELSE args[Max(at)]
  BY DEF Bindings
<1>2. at # {} => Max(at) \in at
  <2>1. Len(ps) \in Nat /\ at \in SUBSET (1 .. Len(ps))
    OBVIOUS
  <2> HIDE DEF at
  <2>2. QED
    BY <2>1, MaxInSet
<1>3. at # {} => args[Max(at)] \in Value
  BY <1>2
<1>4. QED
  BY <1>1, <1>3

LEMMA NativeResultType ==
  ASSUME NEW f \in Natives, NEW args \in Seq(Value)
  PROVE  NativeResult(f.body, args) \in Outcome
<1>1. f.body \in {"PRINT", "IO.PRINT", "EASY", "EASY2", "EASY3"}
  BY DEF Natives, Native
<1>2. Str(<<>>) \in Outcome /\ Bool(FALSE) \in Outcome /\ Throws \in Outcome
  <2>1. Str(<<>>) \in Outcome
    <3>1. <<>> \in Text
      BY DEF Text
    <3>2. \A s \in Text : Str(s) \in Typed
      BY DEF Str, Typed
    <3>3. QED
      BY <3>1, <3>2 DEF Outcome
  <2>2. Bool(FALSE) \in Outcome
    BY DEF Bool, Outcome, Typed
  <2>3. QED
    BY <2>1, <2>2 DEF Outcome
<1>3. \A v : WantsText(v) \in Outcome
  BY <1>2 DEF WantsText
<1>4. CASE f.body = "PRINT"
  <2>1. NativeResult(f.body, args) =
          IF \E i \in 1 .. Len(args) : args[i] = Mistyped THEN Throws ELSE Str(<<>>)
    BY <1>4, Zenon DEF NativeResult
  <2>2. QED
    BY <1>2, <2>1
<1>5. CASE f.body = "IO.PRINT"
  <2>1. NativeResult(f.body, args) =
          IF args # <<>> /\ args[1] = Mistyped THEN Throws ELSE Str(<<>>)
    BY <1>5 DEF NativeResult
  <2>2. QED
    BY <1>2, <2>1
<1>6. CASE f.body = "EASY"
  <2>1. NativeResult(f.body, args) = IF Len(args) < 1 THEN Bool(FALSE) ELSE WantsText(args[1])
    BY <1>6 DEF NativeResult
  <2>2. QED
    BY <1>2, <1>3, <2>1
<1>7. CASE f.body = "EASY2"
  <2>1. NativeResult(f.body, args) =
          IF Len(args) < 2 THEN Bool(FALSE)
          ELSE IF WantsText(args[1]) = Throws THEN Throws ELSE WantsText(args[2])
    BY <1>7 DEF NativeResult
  <2>2. QED
    BY <1>2, <1>3, <2>1
<1>8. CASE f.body = "EASY3"
  <2>1. NativeResult(f.body, args) =
         IF Len(args) < 2 THEN Bool(FALSE)
         ELSE IF Type(args[1]) # "INTEGER" \/ Type(args[2]) # "INTEGER" THEN Throws
         ELSE Fits(args[1][2] + args[2][2])
    BY <1>8 DEF NativeResult
  <2>2. Fits(args[1][2] + args[2][2]) \in Outcome
    BY FitsType
  <2>3. QED
    BY <1>2, <2>1, <2>2
<1>9. QED
  BY <1>1, <1>4, <1>5, <1>6, <1>7, <1>8

LEMMA NoVarsType == NoVars \in [Ids -> Value \cup {Absent}]
BY DEF NoVars

LEMMA ContextInitType == ContextInit => ContextTypeOK
<1> SUFFICES ASSUME ContextInit PROVE ContextTypeOK
  OBVIOUS
<1>1. Global \in Scope
  BY NoVarsType DEF Global, Scope, ScopeName
<1>2. scopes \in [Packages -> Seq(Scope)]
  <2>1. <<Global>> \in Seq(Scope) /\ <<>> \in Seq(Scope)
    BY <1>1
  <2>2. QED
    BY <2>1 DEF ContextInit
<1>3. QED
  BY <1>2, NamesAssumption DEF ContextInit, ContextTypeOK, NoFunctions

-----------------------------------------------------------------------------
(* The inductive invariant *)

\* How far a visitor method can have come.
FrameOK(f) ==
  /\ f.k = "stmt" => Len(f.vals) <= Len(f.stmt.exprs)
  /\ f.k = "expr" => Len(f.vals) <= Len(f.code)
  /\ f.k = "for" => f.mod = Root

\* f called g and waits for it: an expression is evaluated for a statement,
\* a function's body is executed for a call in an expression.
Waits(f, g) ==
  /\ g.k = "expr" => f.k = "stmt" /\ Len(f.vals) < Len(f.stmt.exprs)
  /\ g.k = "fn" => f.k = "expr" /\ Len(f.vals) < Len(f.code)

Stack(fr) ==
  /\ fr # <<>> /\ fr[1].k = "main"
  /\ \A i \in 1 .. Len(fr) : FrameOK(fr[i])
  /\ \A i \in 2 .. Len(fr) : Waits(fr[i - 1], fr[i])

StackOK ==
  /\ Stack(frames)
  /\ phase = "load" => Len(frames) = 1
  /\ phase = "run" => module = Root

\* The frames of fr that own a scope; frames that own the same.
Own(fr) == {i \in 1 .. Len(fr) : Owns(fr[i])}
Alike(g, f) ==
  /\ Owns(g) = Owns(f)
  /\ Owns(f) => g.k = f.k /\ g.mod = f.mod /\ g.id = f.id /\ g.at = f.at
SameOwners(new, old) ==
  Own(new) = Own(old) /\ \A i \in Own(old) : Alike(new[i], old[i])

\* ScopeDiscipline of any stack and scopes, the global scope being there.
Discipline(fr, S) ==
  /\ \A i \in Own(fr) :
       /\ fr[i].at \in (Floor(fr[i].mod) + 1) .. Len(S[fr[i].mod])
       /\ S[fr[i].mod][fr[i].at].name = OwnScope(fr[i])
  /\ \A i, j \in Own(fr) : i < j /\ fr[i].mod = fr[j].mod => fr[i].at < fr[j].at
  /\ \A m \in Packages : \A d \in (Floor(m) + 1) .. Len(S[m]) :
       \E i \in Own(fr) : fr[i].mod = m /\ fr[i].at = d
  /\ S[Root] # <<>>

IInv == TypeOK /\ StackOK /\ Discipline(frames, scopes)

-----------------------------------------------------------------------------
(* Stacks *)

LEMMA LastFrame ==
  ASSUME NEW fr \in Seq(Frame), Stack(fr)
  PROVE  /\ Len(fr) \in Nat \ {0} /\ fr[Len(fr)] \in Frame /\ FrameOK(fr[Len(fr)])
         /\ fr[Len(fr)].k # "main" => Len(fr) > 1
BY DEF Stack

LEMMA PushFrame ==
  ASSUME NEW fr \in Seq(Frame), Stack(fr),
         NEW g \in Frame, FrameOK(g), Waits(fr[Len(fr)], g)
  PROVE  Append(fr, g) \in Seq(Frame) /\ Stack(Append(fr, g))
<1> DEFINE h == Append(fr, g)
<1>1. /\ h \in Seq(Frame) /\ Len(h) = Len(fr) + 1 /\ h[Len(fr) + 1] = g
      /\ \A i \in 1 .. Len(fr) : h[i] = fr[i]
  OBVIOUS
<1>2. Len(fr) \in Nat \ {0}
  BY DEF Stack
<1> HIDE DEF h
<1>3. Stack(h)
  BY <1>1, <1>2 DEF Stack
<1>4. QED
  BY <1>1, <1>3 DEF h

LEMMA ReplaceFrame ==
  ASSUME NEW fr \in Seq(Frame), Stack(fr), NEW g \in Frame, FrameOK(g),
         Len(fr) = 1 => g.k = "main",
         Len(fr) > 1 => Waits(fr[Len(fr) - 1], g)
  PROVE  /\ [fr EXCEPT ![Len(fr)] = g] \in Seq(Frame)
         /\ Stack([fr EXCEPT ![Len(fr)] = g])
<1> DEFINE h == [fr EXCEPT ![Len(fr)] = g]
<1>1. Len(fr) \in Nat \ {0}
  BY DEF Stack
<1>2. /\ h \in Seq(Frame) /\ Len(h) = Len(fr) /\ h[Len(fr)] = g
      /\ \A i \in 1 .. Len(fr) : i # Len(fr) => h[i] = fr[i]
  BY <1>1
<1> HIDE DEF h
<1>3. h # <<>> /\ h[1].k = "main" /\ \A i \in 1 .. Len(h) : FrameOK(h[i])
  BY <1>1, <1>2 DEF Stack
<1>4. \A i \in 2 .. Len(h) : Waits(h[i - 1], h[i])
  <2> SUFFICES ASSUME NEW i \in 2 .. Len(h) PROVE Waits(h[i - 1], h[i])
    OBVIOUS
  <2>1. h[i - 1] = fr[i - 1]
    BY <1>1, <1>2
  <2>2. CASE i = Len(fr)
    BY <1>1, <1>2, <2>1, <2>2
  <2>3. CASE i # Len(fr)
    BY <1>1, <1>2, <2>1, <2>3 DEF Stack
  <2>4. QED
    BY <2>2, <2>3
<1>5. QED
  BY <1>2, <1>3, <1>4 DEF Stack, h

LEMMA PopFrame ==
  ASSUME NEW fr \in Seq(Frame), Stack(fr), Len(fr) > 1
  PROVE  /\ Front(fr) \in Seq(Frame) /\ Stack(Front(fr))
         /\ Len(Front(fr)) = Len(fr) - 1
         /\ \A i \in 1 .. Len(fr) - 1 : Front(fr)[i] = fr[i]
<1> DEFINE h == Front(fr)
<1>1. Len(fr) \in Nat /\ Len(fr) > 1
  OBVIOUS
<1>2. /\ h \in Seq(Frame) /\ Len(h) = Len(fr) - 1
      /\ \A i \in 1 .. Len(fr) - 1 : h[i] = fr[i]
  BY <1>1, SubSeqProperties DEF Front
<1> HIDE DEF h
<1>3. Stack(h)
  BY <1>1, <1>2 DEF Stack
<1>4. QED
  BY <1>2, <1>3 DEF h

\* What a frame holds, by its kind.
LEMMA StmtParts ==
  \A f \in Frame : f.k = "stmt" => f.stmt \in Statement /\ f.vals \in Seq(Result)
                                     /\ f = Stmt(f.stmt, f.vals)
BY DEF Frame, Stmt
LEMMA ExprParts ==
  \A f \in Frame : f.k = "expr" => f.code \in Code /\ f.vals \in Seq(Result)
BY DEF Frame
LEMMA FnParts ==
  \A f \in Frame : f.k = "fn" => f.mod \in Packages /\ f.id \in Ids /\ f.at \in Nat
BY DEF Frame
LEMMA ForParts ==
  \A f \in Frame : f.k = "for" =>
    /\ f.mod \in Packages /\ f.id \in Ids /\ f.at \in Nat /\ f.cur \in MachineInt
    /\ f.end \in MachineInt /\ f.step \in Nat /\ f.body \in Blocks
BY DEF Frame
LEMMA ListParts ==
  \A f \in Frame : f.k = "statements" => f.blk \in Blocks /\ f.pos \in Nat
BY DEF Frame
LEMMA MainParts == \A f \in Frame : f.k = "main" => f.pos \in Nat
BY DEF Frame

\* What the visitor methods' frames are made from.
LEMMA Frames ==
  /\ \A n \in Nat : Main(n) \in Frame /\ FrameOK(Main(n))
  /\ \A b \in Blocks, n \in Nat : Statements(b, n) \in Frame /\ FrameOK(Statements(b, n))
  /\ \A s \in Statement, v \in Seq(Result) : Stmt(s, v) \in Frame
  /\ \A c \in Code, v \in Seq(Result) : Expr(c, v) \in Frame
  /\ \A m \in Packages, x \in Ids, n \in Nat : Fn(m, x, n) \in Frame /\ FrameOK(Fn(m, x, n))
BY DEF Main, Statements, Stmt, Expr, Fn, Frame, FrameOK

\* Every statement has its expressions.
LEMMA StatementParts ==
  \A s \in Statement :
    /\ s.exprs \in Seq(Code) /\ Len(s.exprs) \in Nat
    /\ s.op \in {"assign", "call", "return"} => Len(s.exprs) = 1
    /\ s.op = "for" => Len(s.exprs) = 2 /\ s.id \in Ids /\ s.step \in Nat /\ s.body \in Blocks
    /\ s.op \in {"assign", "copy"} => s.name \in QName
    /\ s.op = "copy" => s.from \in QName
    /\ s.op = "if" => /\ s.exprs # <<>> /\ s.thens \in Seq(Blocks)
                      /\ Len(s.thens) = Len(s.exprs) /\ s.else \in Blocks \cup {NoBlock}
<1> SUFFICES ASSUME NEW s \in Statement
    PROVE /\ s.exprs \in Seq(Code) /\ Len(s.exprs) \in Nat
          /\ s.op \in {"assign", "call", "return"} => Len(s.exprs) = 1
          /\ s.op = "for" => Len(s.exprs) = 2 /\ s.id \in Ids /\ s.step \in Nat /\ s.body \in Blocks
          /\ s.op \in {"assign", "copy"} => s.name \in QName
          /\ s.op = "copy" => s.from \in QName
          /\ s.op = "if" => /\ s.exprs # <<>> /\ s.thens \in Seq(Blocks)
                            /\ Len(s.thens) = Len(s.exprs) /\ s.else \in Blocks \cup {NoBlock}
  OBVIOUS
<1>0. /\ \A e \in Exprs(0) : e \in Seq(Code) /\ Len(e) = 0
      /\ \A e \in Exprs(1) : e \in Seq(Code) /\ Len(e) = 1
      /\ \A e \in Exprs(2) : e \in Seq(Code) /\ Len(e) = 2
  BY DEF Exprs
<1>1. CASE s \in [op : {"assign"}, name : QName, exprs : Exprs(1)]
  <2>1. s.op = "assign" /\ s.name \in QName /\ s.exprs \in Exprs(1)
    BY <1>1
  <2>2. QED
    BY <1>0, <2>1
<1>2. CASE s \in [op : {"copy"}, name : QName, from : QName, exprs : Exprs(0)]
  <2>1. s.op = "copy" /\ s.name \in QName /\ s.from \in QName /\ s.exprs \in Exprs(0)
    BY <1>2
  <2>2. QED
    BY <1>0, <2>1
<1>3. CASE s \in [op : {"call", "return"}, exprs : Exprs(1)]
  <2>1. s.op \in {"call", "return"} /\ s.exprs \in Exprs(1)
    BY <1>3
  <2>2. QED
    BY <1>0, <2>1
<1>4. CASE s \in {t \in [op : {"if"}, exprs : Seq(Code) \ {<<>>}, thens : Seq(Blocks),
                         else : Blocks \cup {NoBlock}] : Len(t.thens) = Len(t.exprs)}
  BY <1>4
<1>5. CASE s \in [op : {"for"}, id : Ids, exprs : Exprs(2), step : Nat, body : Blocks]
  <2>1. s.op = "for" /\ s.id \in Ids /\ s.exprs \in Exprs(2) /\ s.step \in Nat
        /\ s.body \in Blocks
    BY <1>5
  <2>2. QED
    BY <1>0, <2>1
<1>6. QED
  BY <1>1, <1>2, <1>3, <1>4, <1>5 DEF Statement

LEMMA NodeParts ==
  \A c \in Code : \A i \in 1 .. Len(c) :
    /\ c[i].op = "literal" => c[i].value \in Typed
    /\ c[i].op = "load" => c[i].name \in QName
    /\ c[i].op = "binary" => c[i].sym \in Arithmetic \cup Relations /\ DOMAIN c[i].args = 1 .. 2
    /\ c[i].op = "call" => c[i].name \in QName /\ c[i].args \in Seq(Nat)
    /\ \A k \in DOMAIN c[i].args : c[i].args[k] \in 1 .. (i - 1)
<1> SUFFICES ASSUME NEW c \in Code, NEW i \in 1 .. Len(c)
    PROVE /\ c[i].op = "literal" => c[i].value \in Typed
          /\ c[i].op = "load" => c[i].name \in QName
          /\ c[i].op = "binary" => c[i].sym \in Arithmetic \cup Relations
                                   /\ DOMAIN c[i].args = 1 .. 2
          /\ c[i].op = "call" => c[i].name \in QName /\ c[i].args \in Seq(Nat)
          /\ \A k \in DOMAIN c[i].args : c[i].args[k] \in 1 .. (i - 1)
  OBVIOUS
<1>1. c \in Seq(Node) /\ \A k \in DOMAIN c[i].args : c[i].args[k] \in 1 .. (i - 1)
  BY DEF Code
<1>2. c[i] \in Node
  BY <1>1
<1>3. QED
  BY <1>1, <1>2 DEF Node

-----------------------------------------------------------------------------
(* Owners and their scopes *)

LEMMA OwnerParts ==
  ASSUME NEW fr \in Seq(Frame), NEW i \in Own(fr)
  PROVE  /\ i \in 1 .. Len(fr) /\ fr[i] \in Frame /\ fr[i].k \in {"fn", "for"}
         /\ fr[i].mod \in Packages /\ fr[i].id \in Ids /\ fr[i].at \in Nat
BY FnParts, ForParts DEF Own, Owns

LEMMA FloorType == \A m \in Packages : Floor(m) \in Nat /\ Floor(m) <= 1
BY DEF Floor

\* Visitors that own no scope come and go, variables are assigned.
LEMMA KeepOwners ==
  ASSUME NEW fr \in Seq(Frame), NEW new \in Seq(Frame), SameOwners(new, fr),
         NEW S \in [Packages -> Seq(Scope)], NEW T \in [Packages -> Seq(Scope)],
         SameShape(T, S), Discipline(fr, S)
  PROVE  Discipline(new, T)
<1>1. \A i \in Own(new) : /\ i \in Own(fr) /\ new[i].mod = fr[i].mod /\ new[i].at = fr[i].at
                          /\ OwnScope(new[i]) = OwnScope(fr[i]) /\ fr[i].mod \in Packages
  BY OwnerParts DEF SameOwners, Alike, Own, OwnScope
<1>2. \A m \in Packages : Len(T[m]) = Len(S[m]) /\ Len(S[m]) \in Nat
  BY DEF SameShape
<1>3. \A i \in Own(new) : /\ new[i].at \in (Floor(new[i].mod) + 1) .. Len(T[new[i].mod])
                          /\ T[new[i].mod][new[i].at].name = OwnScope(new[i])
  <2> SUFFICES ASSUME NEW i \in Own(new)
               PROVE  /\ new[i].at \in (Floor(new[i].mod) + 1) .. Len(T[new[i].mod])
                      /\ T[new[i].mod][new[i].at].name = OwnScope(new[i])
    OBVIOUS
  <2>1. /\ fr[i].at \in (Floor(fr[i].mod) + 1) .. Len(S[fr[i].mod])
        /\ S[fr[i].mod][fr[i].at].name = OwnScope(fr[i])
    BY <1>1 DEF Discipline
  <2>2. fr[i].at \in 1 .. Len(S[fr[i].mod])
    BY <1>1, <2>1, FloorType
  <2>3. QED
    BY <1>1, <1>2, <2>1, <2>2 DEF SameShape
<1>4. \A i, j \in Own(new) : i < j /\ new[i].mod = new[j].mod => new[i].at < new[j].at
  BY <1>1 DEF Discipline
<1>5. \A m \in Packages : \A d \in (Floor(m) + 1) .. Len(T[m]) :
        \E i \in Own(new) : new[i].mod = m /\ new[i].at = d
  <2> SUFFICES ASSUME NEW m \in Packages, NEW d \in (Floor(m) + 1) .. Len(T[m])
               PROVE  \E i \in Own(new) : new[i].mod = m /\ new[i].at = d
    OBVIOUS
  <2>1. PICK i \in Own(fr) : fr[i].mod = m /\ fr[i].at = d
    BY <1>2 DEF Discipline
  <2>2. i \in Own(new)
    BY DEF SameOwners
  <2>3. QED
    BY <1>1, <2>1, <2>2
<1>6. T[Root] # <<>>
  BY <1>2, NamesAssumption DEF Discipline
<1>7. QED
  BY <1>3, <1>4, <1>5, <1>6 DEF Discipline

\* A call or a loop begins: a new innermost owner n with a scope on top.
LEMMA PushOwner ==
  ASSUME NEW fr \in Seq(Frame), NEW new \in Seq(Frame), NEW n \in 1 .. Len(new),
         Own(new) = Own(fr) \cup {n},
         \A i \in Own(fr) : i < n /\ Alike(new[i], fr[i]),
         NEW S \in [Packages -> Seq(Scope)], NEW sc \in Scope,
         new[n].at = Len(S[new[n].mod]) + 1, sc.name = OwnScope(new[n]),
         Discipline(fr, S)
  PROVE  Discipline(new, [S EXCEPT ![new[n].mod] = Append(@, sc)])
<1> DEFINE m == new[n].mod
           T == [S EXCEPT ![m] = Append(@, sc)]
<1>0. m \in Packages /\ n \in Own(new)
  BY OwnerParts
<1>1. \A i \in Own(fr) : /\ i \in Own(new) /\ i < n
                         /\ new[i].mod = fr[i].mod /\ new[i].at = fr[i].at
                         /\ OwnScope(new[i]) = OwnScope(fr[i]) /\ fr[i].mod \in Packages
                         /\ fr[i].at \in Nat
  BY OwnerParts DEF Alike, Own, OwnScope
<1>2. /\ T[m] = Append(S[m], sc) /\ S[m] \in Seq(Scope)
      /\ \A p \in Packages : p # m => T[p] = S[p]
  BY <1>0
<1>3. /\ Len(S[m]) \in Nat /\ Len(T[m]) = Len(S[m]) + 1 /\ T[m][Len(S[m]) + 1] = sc
      /\ \A d \in 1 .. Len(S[m]) : T[m][d] = S[m][d]
  BY <1>2
<1>4. \A p \in Packages : Len(S[p]) \in Nat
  OBVIOUS
<1>5. new[n].at = Len(S[m]) + 1 /\ sc.name = OwnScope(new[n])
  OBVIOUS
<1> HIDE DEF T
<1>6. Len(S[m]) >= Floor(m)
  <2>1. S[Root] # <<>> /\ Len(S[Root]) \in Nat
    BY <1>4, NamesAssumption DEF Discipline
  <2>2. Len(S[Root]) >= 1
    BY <2>1, NamesAssumption
  <2>3. QED
    BY <1>3, <2>2 DEF Floor
<1> HIDE DEF m
<1>7. \A i \in Own(fr) : /\ fr[i].at \in (Floor(fr[i].mod) + 1) .. Len(S[fr[i].mod])
                         /\ fr[i].at \in 1 .. Len(S[fr[i].mod])
                         /\ S[fr[i].mod][fr[i].at].name = OwnScope(fr[i])
  BY <1>1, <1>4, FloorType DEF Discipline
<1>8. \A i \in Own(new) : /\ new[i].at \in (Floor(new[i].mod) + 1) .. Len(T[new[i].mod])
                          /\ T[new[i].mod][new[i].at].name = OwnScope(new[i])
  <2> SUFFICES ASSUME NEW i \in Own(new)
               PROVE  /\ new[i].at \in (Floor(new[i].mod) + 1) .. Len(T[new[i].mod])
                      /\ T[new[i].mod][new[i].at].name = OwnScope(new[i])
    OBVIOUS
  <2>1. CASE i = n
    <3>1. new[i].mod = m /\ new[i].at = Len(S[m]) + 1
      BY <1>5, <2>1 DEF m
    <3>2. Len(S[m]) + 1 \in (Floor(m) + 1) .. Len(T[m])
      BY <1>0, <1>3, <1>6, FloorType
    <3>3. T[m][Len(S[m]) + 1].name = OwnScope(new[n])
      BY <1>3, <1>5
    <3>4. QED
      BY <2>1, <3>1, <3>2, <3>3, Zenon
  <2>2. CASE i # n /\ new[i].mod = m
    <3>1. i \in Own(fr)
      BY <2>2
    <3>2. /\ new[i].mod = m /\ fr[i].mod = m /\ new[i].at = fr[i].at
          /\ OwnScope(new[i]) = OwnScope(fr[i])
      BY <1>1, <2>2, <3>1
    <3>3. /\ fr[i].at \in (Floor(m) + 1) .. Len(S[m]) /\ fr[i].at \in 1 .. Len(S[m])
          /\ S[m][fr[i].at].name = OwnScope(fr[i])
      BY <1>7, <3>1, <3>2, Zenon
    <3>4. fr[i].at \in (Floor(m) + 1) .. Len(T[m])
      BY <1>0, <1>3, <3>3, FloorType
    <3>5. T[m][fr[i].at] = S[m][fr[i].at]
      BY <1>3, <3>3
    <3>6. QED
      BY <3>2, <3>3, <3>4, <3>5, Zenon
  <2>3. CASE i # n /\ new[i].mod # m
    <3>1. i \in Own(fr)
      BY <2>3
    <3>2. QED
      <4>1. /\ new[i].mod = fr[i].mod /\ new[i].at = fr[i].at
            /\ OwnScope(new[i]) = OwnScope(fr[i]) /\ fr[i].mod \in Packages
        BY <1>1, <3>1
      <4>2. T[fr[i].mod] = S[fr[i].mod]
        BY <1>2, <2>3, <4>1
      <4>3. /\ fr[i].at \in (Floor(fr[i].mod) + 1) .. Len(S[fr[i].mod])
            /\ S[fr[i].mod][fr[i].at].name = OwnScope(fr[i])
        BY <1>7, <3>1
      <4>4. QED
        BY <4>1, <4>2, <4>3, Zenon
  <2>4. QED
    BY <2>1, <2>2, <2>3
<1>9. \A i, j \in Own(new) : i < j /\ new[i].mod = new[j].mod => new[i].at < new[j].at
  <2> SUFFICES ASSUME NEW i \in Own(new), NEW j \in Own(new), i < j, new[i].mod = new[j].mod
               PROVE  new[i].at < new[j].at
    OBVIOUS
  <2>1. i \in Nat /\ j \in Nat /\ n \in Nat
    BY DEF Own
  <2>2. i # n
    BY <1>1, <2>1
  <2>3. i \in Own(fr)
    BY <2>2
  <2>4. CASE j = n
    <3>1. new[j].mod = m /\ new[j].at = Len(S[m]) + 1
      BY <1>5, <2>4 DEF m
    <3>2. fr[i].mod = m /\ new[i].at = fr[i].at
      BY <1>1, <2>3, <3>1
    <3>3. fr[i].at \in 1 .. Len(S[m])
      BY <1>7, <2>3, <3>2, Zenon
    <3>4. Len(S[m]) \in Nat
      BY <1>0
    <3>5. QED
      BY <3>1, <3>2, <3>3, <3>4
  <2>5. CASE j # n
    <3>1. j \in Own(fr)
      BY <2>5
    <3>2. QED
      BY <1>1, <2>3, <3>1 DEF Discipline
  <2>6. QED
    BY <2>4, <2>5
<1>10. \A p \in Packages : \A d \in (Floor(p) + 1) .. Len(T[p]) :
         \E i \in Own(new) : new[i].mod = p /\ new[i].at = d
  <2> SUFFICES ASSUME NEW p \in Packages, NEW d \in (Floor(p) + 1) .. Len(T[p])
               PROVE  \E i \in Own(new) : new[i].mod = p /\ new[i].at = d
    OBVIOUS
  <2>1. CASE p = m /\ d = Len(S[m]) + 1
    BY <1>0, <1>5, <2>1 DEF m
  <2>2. CASE ~(p = m /\ d = Len(S[m]) + 1)
    <3>1. d \in (Floor(p) + 1) .. Len(S[p])
      BY <1>2, <1>3, <1>4, <2>2, FloorType
    <3>2. PICK i \in Own(fr) : fr[i].mod = p /\ fr[i].at = d
      BY <3>1 DEF Discipline
    <3>3. QED
      BY <1>1, <3>2
  <2>3. QED
    BY <2>1, <2>2
<1>11. T[Root] # <<>>
  <2>1. S[Root] # <<>>
    BY DEF Discipline
  <2>2. QED
    BY <1>2, <1>3, <2>1, NamesAssumption
<1>12. Discipline(new, T)
  BY <1>8, <1>9, <1>10, <1>11 DEF Discipline
<1>13. QED
  BY <1>12 DEF T, m

\* A call or a loop ends: its scope is the one on top of its module's.
LEMMA PopOwner ==
  ASSUME NEW fr \in Seq(Frame), Len(fr) \in Own(fr), NEW new \in Seq(Frame),
         Own(new) = Own(fr) \ {Len(fr)}, \A i \in Own(new) : Alike(new[i], fr[i]),
         NEW S \in [Packages -> Seq(Scope)], Discipline(fr, S)
  PROVE  /\ S[fr[Len(fr)].mod] # <<>>
         /\ Discipline(new, [S EXCEPT ![fr[Len(fr)].mod] = Front(@)])
<1> DEFINE n == Len(fr)
           m == fr[n].mod
           T == [S EXCEPT ![m] = Front(@)]
<1>0. m \in Packages /\ S[m] \in Seq(Scope) /\ Len(S[m]) \in Nat /\ n \in Nat
  BY OwnerParts
<1>1. /\ fr[n].at \in (Floor(m) + 1) .. Len(S[m]) /\ fr[n].at \in Nat
  BY OwnerParts DEF Discipline
<1>2. S[m] # <<>> /\ Len(S[m]) >= Floor(m) + 1
  BY <1>0, <1>1, FloorType
<1>3. \A i \in Own(fr) : /\ i \in 1 .. n /\ fr[i].mod \in Packages /\ fr[i].at \in Nat
                         /\ fr[i].at \in (Floor(fr[i].mod) + 1) .. Len(S[fr[i].mod])
                         /\ fr[i].at \in 1 .. Len(S[fr[i].mod])
                         /\ S[fr[i].mod][fr[i].at].name = OwnScope(fr[i])
  BY OwnerParts, FloorType DEF Discipline
<1>4. fr[n].at = Len(S[m])
  <2>1. Len(S[m]) \in (Floor(m) + 1) .. Len(S[m])
    BY <1>0, <1>2, FloorType
  <2>2. PICK i \in Own(fr) : fr[i].mod = m /\ fr[i].at = Len(S[m])
    BY <1>0, <2>1 DEF Discipline
  <2>3. i < n => fr[i].at < fr[n].at
    BY <2>2 DEF Discipline
  <2>4. QED
    BY <1>0, <1>1, <1>3, <2>2, <2>3
<1>5. \A i \in Own(new) : /\ i \in Own(fr) /\ i # n /\ new[i].mod = fr[i].mod
                          /\ new[i].at = fr[i].at /\ OwnScope(new[i]) = OwnScope(fr[i])
  BY DEF Alike, Own, OwnScope
<1>6. \A i \in Own(new) : fr[i].mod = m => fr[i].at < Len(S[m])
  <2> SUFFICES ASSUME NEW i \in Own(new), fr[i].mod = m PROVE fr[i].at < Len(S[m])
    OBVIOUS
  <2>1. i \in Own(fr) /\ i < n
    BY <1>0, <1>3, <1>5
  <2>2. QED
    BY <1>4, <2>1 DEF Discipline
<1>7. /\ T[m] = Front(S[m]) /\ Len(Front(S[m])) = Len(S[m]) - 1
      /\ \A d \in 1 .. Len(S[m]) - 1 : Front(S[m])[d] = S[m][d]
      /\ \A p \in Packages : p # m => T[p] = S[p]
  BY <1>0, <1>2, PopScopeType
<1> HIDE DEF T, m, n
<1>8. \A i \in Own(new) : /\ new[i].at \in (Floor(new[i].mod) + 1) .. Len(T[new[i].mod])
                          /\ T[new[i].mod][new[i].at].name = OwnScope(new[i])
  <2> SUFFICES ASSUME NEW i \in Own(new)
               PROVE  /\ new[i].at \in (Floor(new[i].mod) + 1) .. Len(T[new[i].mod])
                      /\ T[new[i].mod][new[i].at].name = OwnScope(new[i])
    OBVIOUS
  <2>1. CASE fr[i].mod = m
    <3>1. /\ i \in Own(fr) /\ new[i].mod = m /\ new[i].at = fr[i].at
          /\ OwnScope(new[i]) = OwnScope(fr[i]) /\ fr[i].at < Len(S[m])
      BY <1>5, <1>6, <2>1
    <3>2. /\ fr[i].at \in (Floor(m) + 1) .. Len(S[m]) /\ fr[i].at \in 1 .. Len(S[m])
          /\ S[m][fr[i].at].name = OwnScope(fr[i])
      BY <1>3, <2>1, <3>1, Zenon
    <3>3. fr[i].at \in (Floor(m) + 1) .. Len(T[m])
      BY <1>0, <1>7, <3>1, <3>2, FloorType
    <3>4. T[m][fr[i].at] = S[m][fr[i].at]
      BY <1>0, <1>7, <3>1, <3>2
    <3>5. QED
      BY <3>1, <3>2, <3>3, <3>4, Zenon
  <2>2. CASE fr[i].mod # m
    BY <1>3, <1>5, <1>7, <2>2, SMTT(30)
  <2>3. QED
    BY <2>1, <2>2
<1>9. \A i, j \in Own(new) : i < j /\ new[i].mod = new[j].mod => new[i].at < new[j].at
  BY <1>5 DEF Discipline
<1>10. \A p \in Packages : \A d \in (Floor(p) + 1) .. Len(T[p]) :
         \E i \in Own(new) : new[i].mod = p /\ new[i].at = d
  <2> SUFFICES ASSUME NEW p \in Packages, NEW d \in (Floor(p) + 1) .. Len(T[p])
               PROVE  \E i \in Own(new) : new[i].mod = p /\ new[i].at = d
    OBVIOUS
  <2>1. Len(S[p]) \in Nat /\ d \in (Floor(p) + 1) .. Len(S[p]) /\ ~(p = m /\ d = Len(S[m]))
    BY <1>0, <1>7, FloorType
  <2>2. PICK i \in Own(fr) : fr[i].mod = p /\ fr[i].at = d
    BY <2>1 DEF Discipline
  <2>3. i # n
    BY <1>4, <2>1, <2>2 DEF m
  <2>4. QED
    BY <1>5, <2>2, <2>3 DEF n
<1>11. T[Root] # <<>>
  <2>1. S[Root] # <<>>
    BY DEF Discipline
  <2>2. CASE m = Root
    BY <1>0, <1>2, <1>7, <2>2 DEF Floor
  <2>3. QED
    BY <1>7, <2>1, <2>2, NamesAssumption
<1>12. Discipline(new, T)
  BY <1>8, <1>9, <1>10, <1>11 DEF Discipline
<1>13. QED
  BY <1>2, <1>12 DEF T, m, n

-----------------------------------------------------------------------------
(* What the operations on the stack do to its frames and owners *)

CanReplace(g, f) ==
  /\ FrameOK(g)
  /\ g.k = f.k \/ (f.k = "stmt" /\ g.k \in {"statements", "for"})

LEMMA SameOwnersTransitive ==
  \A a, b, c : SameOwners(a, b) /\ SameOwners(b, c) => SameOwners(a, c)
BY DEF SameOwners, Alike, Own

LEMMA QuietPush ==
  ASSUME NEW fr \in Seq(Frame), NEW g \in Frame, ~Owns(g)
  PROVE  SameOwners(Append(fr, g), fr)
<1> DEFINE h == Append(fr, g)
<1>1. /\ Len(fr) \in Nat /\ Len(h) = Len(fr) + 1 /\ h[Len(fr) + 1] = g
      /\ \A i \in 1 .. Len(fr) : h[i] = fr[i]
  OBVIOUS
<1> HIDE DEF h
<1>2. Own(h) = Own(fr)
  BY <1>1 DEF Own
<1>3. \A i \in Own(fr) : h[i] = fr[i]
  BY <1>1 DEF Own
<1>4. QED
  BY <1>2, <1>3 DEF SameOwners, Alike, h

LEMMA QuietReplace ==
  ASSUME NEW fr \in Seq(Frame), fr # <<>>, NEW g \in Frame, Alike(g, fr[Len(fr)])
  PROVE  SameOwners([fr EXCEPT ![Len(fr)] = g], fr)
<1> DEFINE h == [fr EXCEPT ![Len(fr)] = g]
<1>1. /\ Len(fr) \in Nat \ {0} /\ Len(h) = Len(fr) /\ h[Len(fr)] = g
      /\ \A i \in 1 .. Len(fr) : i # Len(fr) => h[i] = fr[i]
  OBVIOUS
<1> HIDE DEF h
<1>2. \A i \in 1 .. Len(fr) : Alike(h[i], fr[i])
  BY <1>1 DEF Alike
<1>3. Own(h) = Own(fr)
  BY <1>1, <1>2 DEF Own, Alike
<1>4. QED
  BY <1>2, <1>3 DEF SameOwners, h, Own

LEMMA OwnersOfFront ==
  ASSUME NEW fr \in Seq(Frame), fr # <<>>
  PROVE  /\ Own(Front(fr)) = Own(fr) \ {Len(fr)}
         /\ \A i \in Own(Front(fr)) : Front(fr)[i] = fr[i]
<1>1. /\ Len(fr) \in Nat \ {0} /\ Len(Front(fr)) = Len(fr) - 1
      /\ \A i \in 1 .. Len(fr) - 1 : Front(fr)[i] = fr[i]
  BY FrontOf
<1>2. QED
  BY <1>1 DEF Own

LEMMA QuietPop ==
  ASSUME NEW fr \in Seq(Frame), fr # <<>>, ~Owns(fr[Len(fr)])
  PROVE  SameOwners(Front(fr), fr)
<1>1. Own(Front(fr)) = Own(fr)
  BY OwnersOfFront DEF Own
<1>2. QED
  BY <1>1, OwnersOfFront DEF SameOwners, Alike

LEMMA ReplaceOK ==
  ASSUME NEW fr \in Seq(Frame), Stack(fr), NEW g \in Frame, CanReplace(g, fr[Len(fr)])
  PROVE  LET h == [fr EXCEPT ![Len(fr)] = g]
         IN /\ h \in Seq(Frame) /\ Stack(h)
            /\ Alike(g, fr[Len(fr)]) => SameOwners(h, fr)
<1>1. Len(fr) \in Nat \ {0} /\ fr # <<>>
  BY LastFrame DEF Stack
<1>2. Len(fr) = 1 => g.k = "main"
  BY <1>1 DEF Stack, CanReplace
<1>3. Len(fr) > 1 => Waits(fr[Len(fr) - 1], g)
  <2>1. Len(fr) > 1 => Waits(fr[Len(fr) - 1], fr[Len(fr)])
    BY <1>1 DEF Stack
  <2>2. QED
    BY <2>1 DEF Waits, CanReplace
<1>4. QED
  BY <1>1, <1>2, <1>3, ReplaceFrame, QuietReplace DEF CanReplace

LEMMA PushOK ==
  ASSUME NEW fr \in Seq(Frame), Stack(fr), NEW g \in Frame, FrameOK(g),
         Waits(fr[Len(fr)], g), ~Owns(g)
  PROVE  Append(fr, g) \in Seq(Frame) /\ Stack(Append(fr, g)) /\ SameOwners(Append(fr, g), fr)
BY PushFrame, QuietPush

LEMMA StepOK ==
  ASSUME NEW fr \in Seq(Frame), Stack(fr), NEW f \in Frame, CanReplace(f, fr[Len(fr)]),
         Alike(f, fr[Len(fr)]), NEW g \in Frame, FrameOK(g), g.k \notin {"expr", "fn", "for"}
  PROVE  LET h == Append([fr EXCEPT ![Len(fr)] = f], g)
         IN h \in Seq(Frame) /\ Stack(h) /\ SameOwners(h, fr)
<1> DEFINE e == [fr EXCEPT ![Len(fr)] = f]
<1>1. e \in Seq(Frame) /\ Stack(e) /\ SameOwners(e, fr)
  BY ReplaceOK
<1> HIDE DEF e
<1>2. Append(e, g) \in Seq(Frame) /\ Stack(Append(e, g)) /\ SameOwners(Append(e, g), e)
  BY <1>1, PushOK DEF Waits, Owns
<1>3. QED
  BY <1>1, <1>2, SameOwnersTransitive DEF e

LEMMA PopOK ==
  ASSUME NEW fr \in Seq(Frame), Stack(fr), fr[Len(fr)].k # "main"
  PROVE  /\ Front(fr) \in Seq(Frame) /\ Stack(Front(fr)) /\ fr # <<>>
         /\ ~Owns(fr[Len(fr)]) => SameOwners(Front(fr), fr)
<1>1. Len(fr) > 1 /\ fr # <<>>
  BY LastFrame DEF Stack
<1>2. QED
  BY <1>1, PopFrame, QuietPop

LEMMA ReturnToOK ==
  ASSUME NEW fr \in Seq(Frame), Stack(fr), fr[Len(fr)].k # "main",
         NEW f \in Frame, CanReplace(f, fr[Len(fr) - 1]), Alike(f, fr[Len(fr) - 1])
  PROVE  LET h == [Front(fr) EXCEPT ![Len(fr) - 1] = f]
         IN h \in Seq(Frame) /\ Stack(h) /\ SameOwners(h, Front(fr))
<1> DEFINE e == Front(fr)
<1>1. Len(fr) > 1 /\ Len(fr) \in Nat
  BY LastFrame
<1>2. /\ e \in Seq(Frame) /\ Stack(e) /\ Len(e) = Len(fr) - 1 /\ e[Len(fr) - 1] = fr[Len(fr) - 1]
  BY <1>1, PopFrame
<1> HIDE DEF e
<1>3. QED
  BY <1>2, ReplaceOK DEF e

-----------------------------------------------------------------------------
(* The state a step finds *)

LEMMA TopParts ==
  ASSUME IInv, NEW kind, AtTop(kind)
  PROVE  /\ frames \in Seq(Frame) /\ Stack(frames) /\ Len(frames) \in Nat \ {0}
         /\ Top \in Frame /\ Top.k = kind /\ FrameOK(Top)
         /\ phase = "run" /\ module = Root
         /\ kind # "main" => Len(frames) > 1 /\ Below \in Frame /\ FrameOK(Below)
                             /\ Waits(Below, Top)
<1>1. frames \in Seq(Frame) /\ Stack(frames) /\ phase = "run" /\ module = Root /\ Top.k = kind
  BY DEF IInv, TypeOK, StackOK, AtTop
<1>2. /\ Len(frames) \in Nat \ {0} /\ Top \in Frame /\ FrameOK(Top)
      /\ kind # "main" => Len(frames) > 1
  BY <1>1, LastFrame DEF Top
<1>3. kind # "main" => Below \in Frame /\ FrameOK(Below) /\ Waits(Below, Top)
  BY <1>1, <1>2 DEF Stack, Below, Top
<1>4. QED
  BY <1>1, <1>2, <1>3

LEMMA TreeParts ==
  ASSUME IInv
  PROVE  /\ Tree.main \in Seq(Item)
         /\ \A b \in Blocks : Tree.code[b] \in Seq(Statement)
BY ProgramsAssumption DEF IInv, TypeOK, Tree, Program

\* A step of the execution that leaves every scope with its owner.
LEMMA Quietly ==
  ASSUME IInv, phase = "run", Rest, imported' \in [Packages -> SUBSET Packages],
         result' \in Result, return_' \in BOOLEAN,
         frames' \in Seq(Frame), Stack(frames'), SameOwners(frames', frames),
         scopes' \in [Packages -> Seq(Scope)], SameShape(scopes', scopes)
  PROVE  IInv'
<1>1. Discipline(frames', scopes')
  <2>1. frames \in Seq(Frame) /\ scopes \in [Packages -> Seq(Scope)] /\ Discipline(frames, scopes)
    BY DEF IInv, TypeOK, ContextTypeOK
  <2>2. QED
    BY <2>1, KeepOwners
<1>2. TypeOK'
  BY DEF IInv, TypeOK, ContextTypeOK, Rest
<1>3. StackOK'
  BY DEF IInv, StackOK, Rest
<1>4. QED
  BY <1>1, <1>2, <1>3 DEF IInv

\* A step that leaves the scopes alone.
LEMMA Untouched ==
  ASSUME IInv
  PROVE  /\ scopes \in [Packages -> Seq(Scope)] /\ SameShape(scopes, scopes)
         /\ imported \in [Packages -> SUBSET Packages]
         /\ result \in Result /\ return_ \in BOOLEAN /\ frames \in Seq(Frame)
         /\ ContextTypeOK
BY DEF IInv, TypeOK, ContextTypeOK, SameShape

\* The process stops, or stays as it is.
LEMMA Stopping ==
  ASSUME IInv,
         \/ Throw \/ Undefine \/ UNCHANGED vars
         \/ phase' = "done" /\ UNCHANGED <<contextVars, program, frames, result, return_>>
  PROVE  IInv'
<1>1. /\ UNCHANGED <<contextVars, program, frames, result, return_>>
      /\ phase' = phase \/ phase' \in {"done", "terminated", "undefined"}
  BY DEF Throw, Undefine, Stop, vars, runVars
<1>2. TypeOK'
  BY <1>1 DEF IInv, TypeOK, ContextTypeOK, contextVars, Phases
<1>3. StackOK'
  BY <1>1 DEF IInv, StackOK, contextVars
<1>4. Discipline(frames', scopes')
  BY <1>1 DEF IInv, contextVars
<1>5. QED
  BY <1>2, <1>3, <1>4 DEF IInv

LEMMA Items ==
  ASSUME NEW item \in Item
  PROVE  /\ item.op = "statement" => item.stmt \in Statement
         /\ item.op = "def" => /\ item.name \in QName /\ item.params \in Seq(Ids)
                               /\ item.body \in Blocks
         /\ item.op \in {"module", "import"} => item.name \in Packages
BY DEF Item

-----------------------------------------------------------------------------
(* Loading *)

LEMMA LoadingOK ==
  ASSUME IInv, Load
  PROVE  IInv'
<1>0. /\ frames \in Seq(Frame) /\ Stack(frames) /\ phase = "load" /\ Len(frames) = 1
      /\ Top = frames[1] /\ Top.k = "main" /\ Top.pos \in Nat
  <2>1. phase = "load" /\ frames \in Seq(Frame) /\ Stack(frames) /\ Len(frames) = 1
    BY DEF Load, LoadDefinition, LoadModule, LoadOther, Execute, Loading, IInv, TypeOK, StackOK
  <2>2. Top = frames[1] /\ Top.k = "main" /\ Top \in Frame
    BY <2>1 DEF Top, Stack
  <2>3. QED
    BY <2>1, <2>2, MainParts
<1> DEFINE fr == [frames EXCEPT ![Len(frames)] = Main(Top.pos + 1)]
<1>1. fr \in Seq(Frame) /\ Stack(fr) /\ SameOwners(fr, frames) /\ Len(fr) = 1
  <2>1. Main(Top.pos + 1) \in Frame /\ FrameOK(Main(Top.pos + 1)) /\ Main(Top.pos + 1).k = "main"
    BY <1>0, Frames DEF Main
  <2>2. CanReplace(Main(Top.pos + 1), Top) /\ Alike(Main(Top.pos + 1), Top)
    BY <1>0, <2>1 DEF CanReplace, Alike, Owns
  <2> DEFINE g == Main(Top.pos + 1)
  <2> HIDE DEF g
  <2>3. LET h == [frames EXCEPT ![Len(frames)] = g]
        IN h \in Seq(Frame) /\ Stack(h) /\ SameOwners(h, frames)
    BY <1>0, <2>1, <2>2, ReplaceOK DEF Top, g
  <2>4. Len(fr) = Len(frames)
    BY <1>0
  <2>5. QED
    BY <1>0, <2>3, <2>4 DEF g
<1>2. ASSUME NEW op, Loading(op)
      PROVE  Tree.main[Top.pos + 1] \in Item /\ Tree.main[Top.pos + 1].op = op
  BY <1>0, <1>2, TreeParts DEF Loading
<1>3. ASSUME frames' = fr, UNCHANGED <<program, phase, result, return_, scopes, imported>>,
             modules' \subseteq Packages, Root \in modules', module' \in modules',
             DOMAIN functions' = Packages,
             \A m \in Packages :
               /\ DOMAIN functions'[m] \subseteq QName
               /\ \A q \in DOMAIN functions'[m] : functions'[m][q] \in Function \cup Natives
      PROVE  IInv'
  <2>1. Discipline(frames', scopes')
    BY <1>0, <1>1, <1>3, KeepOwners, Untouched DEF IInv
  <2>2. TypeOK'
    BY <1>1, <1>3 DEF IInv, TypeOK, ContextTypeOK
  <2>3. StackOK'
    BY <1>0, <1>1, <1>3 DEF IInv, StackOK
  <2>4. QED
    BY <2>1, <2>2, <2>3 DEF IInv
<1>4. CASE LoadDefinition
  <2> DEFINE d == Tree.main[Top.pos + 1]
  <2>1. d.name \in QName /\ d.params \in Seq(Ids) /\ d.body \in Blocks
    BY <1>2, <1>4, Items DEF LoadDefinition
  <2>2. CASE d.params = <<>>
    BY <1>4, <2>2, Stopping DEF LoadDefinition
  <2>3. CASE d.params # <<>>
    <3> DEFINE fn == [type |-> "BASIC", params |-> d.params, body |-> d.body]
    <3>1. /\ functions' = [functions EXCEPT ![module] = With(@, d.name, fn)]
          /\ UNCHANGED <<modules, module, imported, scopes>> /\ Loaded
      BY <1>4, <2>3 DEF LoadDefinition, Define
    <3>2. fn \in Function
      BY <2>1 DEF Function
    <3>3. DOMAIN functions = Packages /\ module \in modules /\ module \in Packages
          /\ modules \subseteq Packages /\ Root \in modules
      BY DEF IInv, TypeOK, ContextTypeOK
    <3> HIDE DEF fn, d
    <3>4. DOMAIN functions' = Packages
      BY <3>1, <3>3
    <3>5. ASSUME NEW m \in Packages
          PROVE  /\ DOMAIN functions'[m] \subseteq QName
                 /\ \A q \in DOMAIN functions'[m] : functions'[m][q] \in Function \cup Natives
      <4>1. /\ DOMAIN functions[m] \subseteq QName
            /\ \A q \in DOMAIN functions[m] : functions[m][q] \in Function \cup Natives
        BY <3>5 DEF IInv, TypeOK, ContextTypeOK
      <4>2. functions'[m] = IF m = module THEN With(functions[m], d.name, fn) ELSE functions[m]
        BY <3>1, <3>3, <3>5
      <4>3. QED
        BY <2>1, <3>2, <4>1, <4>2 DEF With
    <3>6. QED
      BY <1>3, <3>1, <3>3, <3>4, <3>5 DEF Loaded, Replace
  <2>4. QED
    BY <2>2, <2>3
<1>5. CASE LoadModule
  <2>1. Tree.main[Top.pos + 1].name \in Packages
    BY <1>2, <1>5, Items DEF LoadModule
  <2>2. QED
    BY <1>3, <1>5, <2>1
       DEF LoadModule, OpenModule, Loaded, Replace, IInv, TypeOK, ContextTypeOK
<1>6. CASE LoadOther
  BY <1>3, <1>6 DEF LoadOther, Loaded, Replace, contextVars, IInv, TypeOK, ContextTypeOK
<1>7. CASE Execute
  <2>1. frames' = <<Main(0)>> /\ frames' \in Seq(Frame) /\ Stack(frames')
        /\ SameOwners(frames', frames)
    <3>1. frames' = <<Main(0)>> /\ Main(0) \in Frame /\ FrameOK(Main(0)) /\ Main(0).k = "main"
      BY <1>7, Frames DEF Execute, Main
    <3>2. frames' \in Seq(Frame) /\ Stack(frames')
      BY <3>1 DEF Stack
    <3>3. Own(frames') = {} /\ Own(frames) = {}
      BY <1>0, <3>1 DEF Own, Owns
    <3>4. QED
      BY <3>1, <3>2, <3>3 DEF SameOwners
  <2>2. Discipline(frames', scopes')
    BY <1>0, <1>7, <2>1, KeepOwners, Untouched DEF IInv, Execute
  <2>3. modules' \subseteq Packages /\ Root \in modules' /\ module' \in modules'
    BY <1>7, NamesAssumption DEF Execute, RegisterNatives, IInv, TypeOK, ContextTypeOK
  <2>4. DOMAIN functions' = Packages
    BY <1>7 DEF Execute, RegisterNatives, IInv, TypeOK, ContextTypeOK
  <2>5. ASSUME NEW m \in Packages
        PROVE  /\ DOMAIN functions'[m] \subseteq QName
               /\ \A q \in DOMAIN functions'[m] : functions'[m][q] \in Function \cup Natives
    <3> DEFINE Q == {Plain(x) : x \in {"PRINT", "EASY", "EASY2", "EASY3"}}
    <3>1. /\ DOMAIN functions[m] \subseteq QName
          /\ \A q \in DOMAIN functions[m] : functions[m][q] \in Function \cup Natives
          /\ DOMAIN functions = Packages
      BY <2>5 DEF IInv, TypeOK, ContextTypeOK
    <3>2. functions'[m] = IF m = Root THEN WithNatives(functions[m], Q)
                          ELSE IF m = IoModule
                               THEN With(NoFunctions, Plain("PRINT"), Native("IO.PRINT"))
                               ELSE functions[m]
      BY <1>7, <2>5, <3>1, NamesAssumption DEF Execute, RegisterNatives
    <3>3. /\ Q \subseteq QName /\ Plain("PRINT") \in QName
          /\ \A q \in Q : q.id \in {"PRINT", "EASY", "EASY2", "EASY3"}
      BY NamesAssumption DEF Plain, QName
    <3>4. \A n \in {"PRINT", "IO.PRINT", "EASY", "EASY2", "EASY3"} : Native(n) \in Natives
      BY DEF Natives
    <3> HIDE DEF Q
    <3>5. CASE m = Root
      BY <3>1, <3>2, <3>3, <3>4, <3>5 DEF WithNatives
    <3>6. CASE m # Root /\ m = IoModule
      BY <3>2, <3>3, <3>4, <3>6 DEF With, NoFunctions
    <3>7. CASE m # Root /\ m # IoModule
      BY <3>1, <3>2, <3>7
    <3>8. QED
      BY <3>5, <3>6, <3>7
  <2>6. ContextTypeOK'
    <3>1. imported' \in [Packages -> SUBSET Packages] /\ scopes' \in [Packages -> Seq(Scope)]
      BY <1>7, Untouched DEF Execute
    <3>2. QED
      BY <2>3, <2>4, <2>5, <3>1 DEF ContextTypeOK
  <2>7. TypeOK'
    BY <1>7, <2>1, <2>6 DEF Execute, IInv, TypeOK, Phases
  <2>8. StackOK'
    BY <1>7, <2>1 DEF Execute, StackOK
  <2>9. QED
    BY <2>2, <2>7, <2>8 DEF IInv
<1>8. QED
  BY <1>4, <1>5, <1>6, <1>7 DEF Load

-----------------------------------------------------------------------------
(* visitMain, visitStatements, and the expressions of a statement *)

LEMMA VisitItemOK ==
  ASSUME IInv, VisitItem
  PROVE  IInv'
<1> DEFINE item == Tree.main[Top.pos + 1]
           m == Main(Top.pos + 1)
<1>1. /\ frames \in Seq(Frame) /\ Stack(frames) /\ Top.k = "main" /\ Top \in Frame
      /\ phase = "run" /\ Top.pos \in Nat
  BY TopParts, MainParts DEF VisitItem
<1>2. item \in Item
  BY <1>1, TreeParts DEF VisitItem
<1>3. m \in Frame /\ CanReplace(m, Top) /\ Alike(m, Top)
  BY <1>1, Frames DEF CanReplace, Alike, Owns, Main
<1>4. CASE item.op = "statement"
  <2> DEFINE g == Stmt(item.stmt, <<>>)
  <2>1. g \in Frame /\ FrameOK(g) /\ g.k = "stmt"
    <3>1. item.stmt \in Statement /\ <<>> \in Seq(Result)
      BY <1>2, <1>4, Items
    <3>2. Stmt(item.stmt, <<>>) \in Frame
      BY <3>1, Frames
    <3>3. FrameOK(Stmt(item.stmt, <<>>))
      BY <3>1, StatementParts DEF FrameOK, Stmt
    <3>4. QED
      BY <3>2, <3>3 DEF Stmt
  <2>2. frames' = Append([frames EXCEPT ![Len(frames)] = m], g)
        /\ UNCHANGED <<scopes, imported, result, return_>> /\ Rest
    BY <1>4 DEF VisitItem, Step
  <2> HIDE DEF g, m
  <2>3. frames' \in Seq(Frame) /\ Stack(frames') /\ SameOwners(frames', frames)
    BY <1>1, <1>3, <2>1, <2>2, StepOK DEF Top
  <2>4. QED
    BY <1>1, <2>2, <2>3, Quietly, Untouched
<1>5. CASE item.op # "statement"
  <2>1. frames' = [frames EXCEPT ![Len(frames)] = m]
        /\ UNCHANGED <<scopes, result, return_>> /\ Rest
        /\ imported' = IF item.op = "import"
                       THEN [imported EXCEPT ![module] = @ \cup {item.name}] ELSE imported
    BY <1>5 DEF VisitItem, Replace
  <2>2. imported' \in [Packages -> SUBSET Packages]
    <3>1. item.op = "import" => item.name \in Packages
      BY <1>2, Items
    <3> HIDE DEF item
    <3>2. QED
      BY <2>1, <3>1, Untouched
  <2> HIDE DEF m
  <2>3. frames' \in Seq(Frame) /\ Stack(frames') /\ SameOwners(frames', frames)
    BY <1>1, <1>3, <2>1, ReplaceOK DEF Top
  <2>4. QED
    BY <1>1, <2>1, <2>2, <2>3, Quietly, Untouched
<1>6. QED
  BY <1>4, <1>5

LEMMA VisitStatementOK ==
  ASSUME IInv, VisitStatement
  PROVE  IInv'
<1> DEFINE s == Tree.code[Top.blk][Top.pos + 1]
           f == Statements(Top.blk, Top.pos + 1)
           g == Stmt(s, <<>>)
<1>1. /\ frames \in Seq(Frame) /\ Stack(frames) /\ Top.k = "statements" /\ Top \in Frame
      /\ phase = "run" /\ Top.blk \in Blocks /\ Top.pos \in Nat
  BY TopParts, ListParts DEF VisitStatement
<1>2. s \in Statement
  BY <1>1, TreeParts DEF VisitStatement, GoesOn
<1>3. f \in Frame /\ CanReplace(f, Top) /\ Alike(f, Top)
  BY <1>1, Frames DEF CanReplace, Alike, Owns, Statements
<1>4. g \in Frame /\ FrameOK(g) /\ g.k = "stmt"
  <2> HIDE DEF s
  <2>1. Stmt(s, <<>>) \in Frame
    <3>1. <<>> \in Seq(Result)
      OBVIOUS
    <3>2. QED
      BY <1>2, <3>1, Frames, Zenon
  <2>2. FrameOK(Stmt(s, <<>>))
    BY <1>2, StatementParts DEF FrameOK, Stmt
  <2>3. QED
    BY <2>1, <2>2 DEF Stmt
<1>5. frames' = Append([frames EXCEPT ![Len(frames)] = f], g)
      /\ UNCHANGED <<scopes, imported, result, return_>> /\ Rest
  BY DEF VisitStatement, Step
<1> HIDE DEF f, g
<1>6. frames' \in Seq(Frame) /\ Stack(frames') /\ SameOwners(frames', frames)
  BY <1>1, <1>3, <1>4, <1>5, StepOK DEF Top
<1>7. QED
  BY <1>1, <1>5, <1>6, Quietly, Untouched

\* A visitor that owns no scope returns.
LEMMA ReturnOK ==
  ASSUME IInv, NEW kind \in {"statements", "stmt"}, AtTop(kind), NEW a \in Result, Return(a),
         Rest, imported' = imported, return_' \in BOOLEAN,
         scopes' \in [Packages -> Seq(Scope)], SameShape(scopes', scopes)
  PROVE  IInv'
<1>1. frames \in Seq(Frame) /\ Stack(frames) /\ phase = "run" /\ Top.k = kind
  BY TopParts
<1>2. frames' = Front(frames) /\ result' = a
  BY DEF Return
<1>3. frames' \in Seq(Frame) /\ Stack(frames') /\ SameOwners(frames', frames)
  BY <1>1, <1>2, PopOK DEF Owns, Top
<1>4. QED
  BY <1>1, <1>2, <1>3, Quietly, Untouched

LEMMA EndStatementsOK ==
  ASSUME IInv, EndStatements
  PROVE  IInv'
<1> DEFINE a == IF Top.pos = 0 THEN Empty ELSE result
<1>1. a \in Result
  BY Untouched DEF Result
<1>2. AtTop("statements") /\ Return(a) /\ UNCHANGED <<scopes, imported, return_>> /\ Rest
  BY DEF EndStatements
<1> HIDE DEF a
<1>3. QED
  BY <1>1, <1>2, ReturnOK, Untouched

LEMMA BeginExprOK ==
  ASSUME IInv, BeginExpr
  PROVE  IInv'
<1> DEFINE c == Top.stmt.exprs[Len(Top.vals) + 1]
           g == Expr(c, <<>>)
<1>1. /\ frames \in Seq(Frame) /\ Stack(frames) /\ Top.k = "stmt" /\ Top \in Frame
      /\ phase = "run" /\ Top.stmt \in Statement /\ Top.vals \in Seq(Result)
  BY TopParts, StmtParts DEF BeginExpr
<1>2. Len(Top.vals) < Len(Top.stmt.exprs) /\ Top.stmt.exprs \in Seq(Code)
  BY <1>1, StatementParts DEF BeginExpr, WantsExpr
<1>3. c \in Code
  BY <1>1, <1>2
<1>4. g \in Frame /\ FrameOK(g) /\ g.k = "expr"
  <2> HIDE DEF c
  <2>1. Expr(c, <<>>) \in Frame
    <3>1. <<>> \in Seq(Result)
      OBVIOUS
    <3>2. QED
      BY <1>3, <3>1, Frames, Zenon
  <2>2. Len(c) \in Nat
    BY <1>3 DEF Code
  <2>3. FrameOK(Expr(c, <<>>)) /\ Expr(c, <<>>).k = "expr"
    BY <2>2 DEF FrameOK, Expr
  <2>4. QED
    BY <2>1, <2>3
<1>5. frames' = Append(frames, g) /\ UNCHANGED <<scopes, imported, result, return_>> /\ Rest
  BY DEF BeginExpr, Push
<1> HIDE DEF g
<1>6. Waits(Top, g)
  BY <1>1, <1>2, <1>4 DEF Waits
<1>7. frames' \in Seq(Frame) /\ Stack(frames') /\ SameOwners(frames', frames)
  BY <1>1, <1>4, <1>5, <1>6, PushOK DEF Top, Owns
<1>8. QED
  BY <1>1, <1>5, <1>7, Quietly, Untouched

LEMMA EndExprOK ==
  ASSUME IInv, EndExpr
  PROVE  IInv'
<1> DEFINE f == Stmt(Below.stmt, Append(Below.vals, Last(Top.vals)))
<1>1. /\ frames \in Seq(Frame) /\ Stack(frames) /\ Top.k = "expr" /\ Top \in Frame
      /\ phase = "run" /\ Top.code \in Code /\ Top.vals \in Seq(Result)
      /\ Below \in Frame /\ Below.k = "stmt" /\ Len(Below.vals) < Len(Below.stmt.exprs)
  BY TopParts, ExprParts DEF EndExpr, Waits
<1>2. Below.stmt \in Statement /\ Below.vals \in Seq(Result)
  BY <1>1, StmtParts
<1>3. Last(Top.vals) \in Result
  <2>1. Len(Top.vals) = Len(Top.code) /\ Len(Top.code) \in Nat \ {0}
    BY <1>1 DEF EndExpr, Code
  <2>2. QED
    BY <1>1, <2>1 DEF Last
<1>4. f \in Frame /\ CanReplace(f, Below) /\ Alike(f, Below)
  <2> DEFINE v == Append(Below.vals, Last(Top.vals))
  <2>1. v \in Seq(Result) /\ Len(v) = Len(Below.vals) + 1 /\ Len(Below.vals) \in Nat
    BY <1>2, <1>3
  <2>2. Len(Below.stmt.exprs) \in Nat
    BY <1>2, StatementParts
  <2> HIDE DEF v
  <2>3. Stmt(Below.stmt, v) \in Frame
    BY <1>2, <2>1, Frames
  <2>4. FrameOK(Stmt(Below.stmt, v)) /\ Stmt(Below.stmt, v).k = "stmt"
    BY <1>1, <2>1, <2>2 DEF FrameOK, Stmt
  <2>5. QED
    BY <1>1, <2>3, <2>4 DEF v, CanReplace, Alike, Owns
<1>5. frames' = [Front(frames) EXCEPT ![Len(frames) - 1] = f]
      /\ UNCHANGED <<scopes, imported, result, return_>> /\ Rest
  BY DEF EndExpr, ReturnTo
<1> HIDE DEF f
<1>6. frames' \in Seq(Frame) /\ Stack(frames') /\ SameOwners(frames', Front(frames))
  BY <1>1, <1>4, <1>5, ReturnToOK DEF Top, Below
<1>7. SameOwners(frames', frames)
  BY <1>1, <1>6, PopOK, SameOwnersTransitive DEF Top, Owns
<1>8. QED
  BY <1>1, <1>5, <1>6, <1>7, Quietly, Untouched

-----------------------------------------------------------------------------
(* The nodes of an expression *)

LEMMA VisitingParts ==
  ASSUME IInv, NEW op, Visiting(op)
  PROVE  /\ AtTop("expr") /\ Top \in Frame /\ Top.k = "expr" /\ phase = "run"
         /\ Top.code \in Code /\ Top.vals \in Seq(Result) /\ Len(Top.vals) < Len(Top.code)
         /\ Visit.op = op
         /\ op = "literal" => Visit.value \in Typed
         /\ op \in {"load", "call"} => Visit.name \in QName
         /\ op = "binary" => /\ Visit.sym \in Arithmetic \cup Relations
                             /\ DOMAIN Visit.args = 1 .. 2
         /\ op = "call" => Visit.args \in Seq(Nat)
         /\ DOMAIN Operands = DOMAIN Visit.args
         /\ \A i \in DOMAIN Visit.args : Operands[i] \in Result
<1>1. /\ AtTop("expr") /\ Top \in Frame /\ Top.k = "expr" /\ phase = "run"
      /\ Top.code \in Code /\ Top.vals \in Seq(Result) /\ Len(Top.vals) < Len(Top.code)
      /\ Visit.op = op
  BY TopParts, ExprParts DEF Visiting
<1>2. PICK i : i = Len(Top.vals) + 1
  OBVIOUS
<1>3. /\ Len(Top.vals) \in Nat /\ i \in 1 .. Len(Top.code) /\ Visit = Top.code[i]
  BY <1>1, <1>2 DEF Visit, Code
<1>4. /\ Visit.op = "literal" => Visit.value \in Typed
      /\ Visit.op = "load" => Visit.name \in QName
      /\ Visit.op = "binary" => /\ Visit.sym \in Arithmetic \cup Relations
                                /\ DOMAIN Visit.args = 1 .. 2
      /\ Visit.op = "call" => Visit.name \in QName /\ Visit.args \in Seq(Nat)
      /\ \A k \in DOMAIN Visit.args : Visit.args[k] \in 1 .. (i - 1)
  BY <1>1, <1>3, NodeParts, Zenon
<1>5. \A k \in DOMAIN Visit.args : Top.vals[Visit.args[k]] \in Result
  BY <1>1, <1>2, <1>3, <1>4
<1>6. DOMAIN Operands = DOMAIN Visit.args
      /\ \A k \in DOMAIN Visit.args : Operands[k] \in Result
  BY <1>5 DEF Operands
<1>7. QED
  BY <1>1, <1>4, <1>6

\* The node's value is kept for the node it is an operand of.
LEMMA ValuedOK ==
  ASSUME NEW f \in Frame, f.k = "expr", FrameOK(f), Len(f.vals) < Len(f.code), NEW a \in Result
  PROVE  Valued(f, a) \in Frame /\ CanReplace(Valued(f, a), f) /\ Alike(Valued(f, a), f)
<1>1. f.code \in Code /\ f.vals \in Seq(Result) /\ Len(f.code) \in Nat
  BY ExprParts DEF Code
<1> DEFINE v == Append(f.vals, a)
<1>2. v \in Seq(Result) /\ Len(v) = Len(f.vals) + 1 /\ Len(f.vals) \in Nat
  BY <1>1
<1> HIDE DEF v
<1>3. Expr(f.code, v) \in Frame
  BY <1>1, <1>2, Frames, Zenon
<1>4. FrameOK(Expr(f.code, v)) /\ Expr(f.code, v).k = "expr"
  BY <1>1, <1>2 DEF FrameOK, Expr
<1>5. QED
  BY <1>3, <1>4 DEF v, Valued, CanReplace, Alike, Owns

LEMMA YieldsOK ==
  ASSUME IInv, NEW op, Visiting(op), NEW a \in Result, Yields(a), return_' \in BOOLEAN,
         UNCHANGED <<scopes, imported, result>>
  PROVE  IInv'
<1>1. /\ frames \in Seq(Frame) /\ Stack(frames) /\ Top \in Frame /\ Top.k = "expr"
      /\ phase = "run" /\ FrameOK(Top) /\ Len(Top.vals) < Len(Top.code)
  BY VisitingParts, TopParts
<1> DEFINE g == Valued(Top, a)
<1>2. g \in Frame /\ CanReplace(g, Top) /\ Alike(g, Top)
  BY <1>1, ValuedOK
<1>3. frames' = [frames EXCEPT ![Len(frames)] = g] /\ Rest
  BY DEF Yields, Replace
<1> HIDE DEF g
<1>4. frames' \in Seq(Frame) /\ Stack(frames') /\ SameOwners(frames', frames)
  BY <1>1, <1>2, <1>3, ReplaceOK DEF Top
<1>5. QED
  BY <1>1, <1>3, <1>4, Quietly, Untouched

LEMMA VisitLeafOK ==
  ASSUME IInv, VisitLiteral \/ VisitParens \/ VisitVariable
  PROVE  IInv'
<1>1. CASE VisitLiteral
  <2>1. Visit.value \in Result
    BY <1>1, VisitingParts DEF VisitLiteral, Result
  <2>2. QED
    BY <1>1, <2>1, YieldsOK, Untouched DEF VisitLiteral
<1>2. CASE VisitParens
  <2>1. Empty \in Result
    BY DEF Result
  <2>2. QED
    BY <1>2, <2>1, YieldsOK, Untouched DEF VisitParens
<1>3. CASE VisitVariable
  <2>1. Var(Visit.name) \in Value \cup {Absent}
    BY <1>3, VisitingParts, VarType, Untouched DEF VisitVariable
  <2>2. CASE Var(Visit.name) = Mistyped
    BY <1>3, <2>2, Stopping DEF VisitVariable
  <2>3. CASE Var(Visit.name) # Mistyped
    <3> DEFINE a == IF Var(Visit.name) = Absent THEN Empty ELSE ToAny(Var(Visit.name))
    <3>1. a \in Result
      BY <2>1, <2>3, ToAnyType DEF Result
    <3>2. Visiting("load") /\ Yields(a) /\ UNCHANGED <<scopes, imported, result, return_>>
      BY <1>3, <2>3 DEF VisitVariable
    <3> HIDE DEF a
    <3>3. QED
      BY <3>1, <3>2, YieldsOK, Untouched
  <2>4. QED
    BY <2>2, <2>3
<1>4. QED
  BY <1>1, <1>2, <1>3

\* An operator or a native function comes to v, or to the end.
LEMMA OutcomeOK ==
  ASSUME IInv, NEW op, Visiting(op), NEW v \in Outcome, NEW flag \in BOOLEAN, ComesTo(v, flag)
  PROVE  IInv'
<1>1. CASE v = Throws /\ Throw
  BY <1>1, Stopping
<1>2. CASE v = Undefined /\ Undefine
  BY <1>2, Stopping
<1>3. CASE v \in Typed /\ Yields(v) /\ return_' = flag /\ UNCHANGED <<scopes, imported, result>>
  BY <1>3, YieldsOK DEF Result
<1>4. QED
  BY <1>1, <1>2, <1>3 DEF ComesTo

LEMMA VisitBinaryOK ==
  ASSUME IInv, VisitBinary
  PROVE  IInv'
<1>1. /\ Operands[1] \in Result /\ Operands[2] \in Result
      /\ Visit.sym \in Arithmetic \cup Relations
  BY VisitingParts DEF VisitBinary
<1>2. PICK l \in FromAny(Operands[1]), r \in FromAny(Operands[2]) :
        ComesTo(Binary(Visit.sym, l, r), return_)
  BY DEF VisitBinary
<1>3. l \in Value /\ r \in Value
  BY <1>1, FromAnyType
<1>4. Binary(Visit.sym, l, r) \in Outcome
  BY <1>1, <1>3, BinaryType
<1>5. return_ \in BOOLEAN /\ Visiting("binary")
  BY Untouched DEF VisitBinary
<1>6. QED
  BY <1>2, <1>4, <1>5, OutcomeOK

-----------------------------------------------------------------------------
(* Calls *)

LEMMA ArgumentsType ==
  ASSUME IInv, Visiting("call"), NEW args \in Arguments
  PROVE  args \in Seq(Value) /\ Len(args) = Len(Visit.args)
<1>1. PICK c \in [DOMAIN Operands -> FromAny(Empty)] :
        args = [i \in DOMAIN Operands |-> IF Operands[i] = Empty THEN c[i] ELSE Operands[i]]
  BY DEF Arguments
<1>2. /\ Visit.args \in Seq(Nat) /\ DOMAIN Operands = DOMAIN Visit.args
      /\ \A i \in DOMAIN Operands : Operands[i] \in Result
  BY VisitingParts
<1>3. FromAny(Empty) \subseteq Value
  BY FromAnyType DEF Result
<1>4. Result \subseteq Value \cup {Empty}
  BY DEF Result, Value
<1>5. DOMAIN Operands = 1 .. Len(Visit.args) /\ Len(Visit.args) \in Nat
  BY <1>2
<1>6. \A i \in 1 .. Len(Visit.args) : args[i] \in Value
  BY <1>1, <1>2, <1>3, <1>4, <1>5
<1>7. args = [i \in 1 .. Len(Visit.args) |-> args[i]]
  BY <1>1, <1>5
<1>8. PICK n \in Nat : n = Len(Visit.args)
  BY <1>5
<1>9. [i \in 1 .. n |-> args[i]] \in Seq(Value) /\ Len([i \in 1 .. n |-> args[i]]) = n
  BY <1>6, <1>8
<1>10. QED
  BY <1>7, <1>8, <1>9, Zenon

LEMMA CallFailsOK ==
  ASSUME IInv, CallFails
  PROVE  IInv'
<1>1. Bool(FALSE) \in Result
  BY DEF Bool, Result, Typed
<1>2. /\ Visiting("call") /\ Yields(Bool(FALSE)) /\ return_' \in BOOLEAN
      /\ UNCHANGED <<scopes, imported, result>>
  BY DEF CallFails
<1>3. QED
  BY <1>1, <1>2, YieldsOK

LEMMA CallNativeOK ==
  ASSUME IInv, CallNative
  PROVE  IInv'
<1>1. Visiting("call") /\ Visit.name \in QName /\ Resolve(Visit.name).type = "NATIVE"
  BY VisitingParts DEF CallNative
<1>2. Resolve(Visit.name) \in Natives
  <2>1. Resolve(Visit.name) \in Function \cup Natives \cup {NoFunction}
    BY <1>1, ResolveType, Untouched
  <2>2. QED
    BY <1>1, <2>1 DEF Function, NoFunction
<1>3. PICK args \in Arguments : ComesTo(NativeResult(Resolve(Visit.name).body, args), FALSE)
  BY DEF CallNative
<1>4. NativeResult(Resolve(Visit.name).body, args) \in Outcome
  BY <1>1, <1>2, ArgumentsType, NativeResultType
<1>5. QED
  BY <1>1, <1>3, <1>4, OutcomeOK

LEMMA CallBasicOK ==
  ASSUME IInv, CallBasic
  PROVE  IInv'
<1> DEFINE f == Resolve(Visit.name)
           m == Callee(Visit.name)
           x == Visit.name.id
<1>1. /\ Visiting("call") /\ Visit.name \in QName /\ phase = "run"
      /\ Top \in Frame /\ Top.k = "expr" /\ Len(Top.vals) < Len(Top.code)
      /\ f.type = "BASIC" /\ Len(f.params) = Len(Visit.args)
  BY VisitingParts DEF CallBasic
<1>2. CASE Len(frames) >= MaxFrames
  BY <1>2, Stopping DEF CallBasic
<1>3. CASE ~(Len(frames) >= MaxFrames)
  <2>1. m \in Packages /\ f \in Function /\ x \in Ids
    <3>1. m \in Packages /\ f \in Function \cup Natives \cup {NoFunction}
      BY <1>1, ResolveType, Untouched
    <3>2. QED
      BY <1>1, <3>1 DEF Natives, Native, NoFunction, QName
  <2>2. f.params \in Seq(Ids) /\ f.body \in Blocks
    BY <2>1 DEF Function
  <2>3. PICK args \in Arguments :
          PushScope(m, <<"DEF", x>>, Bindings(f.params, args))
    BY <1>3 DEF CallBasic
  <2>4. frames' = frames \o <<Fn(m, x, Len(scopes[m]) + 1), Statements(f.body, 0)>>
        /\ UNCHANGED <<imported, result, return_>> /\ Rest
    BY <1>3 DEF CallBasic
  <2> DEFINE w == Bindings(f.params, args)
             n == Len(frames) + 1
             g == Fn(m, x, Len(scopes[m]) + 1)
             b == Statements(f.body, 0)
  <2>5. w \in [Ids -> Value \cup {Absent}]
    BY <1>1, <2>2, ArgumentsType, BindingsType
  <2>6. <<"DEF", x>> \in ScopeName
    BY <2>1 DEF ScopeName
  <2>7. /\ frames \in Seq(Frame) /\ Stack(frames) /\ Len(frames) \in Nat
        /\ Len(scopes[m]) \in Nat /\ scopes \in [Packages -> Seq(Scope)]
        /\ Discipline(frames, scopes)
    BY <1>1, <2>1, TopParts, VisitingParts, Untouched DEF IInv
  <2>8. g \in Frame /\ FrameOK(g) /\ b \in Frame /\ FrameOK(b)
    BY <2>1, <2>2, <2>7, Frames
  <2>9. /\ g.k = "fn" /\ g.mod = m /\ g.id = x /\ g.at = Len(scopes[m]) + 1
        /\ OwnScope(g) = <<"DEF", x>> /\ b.k = "statements"
    BY DEF Fn, Statements, OwnScope
  <2> DEFINE sc == [name |-> <<"DEF", x>>, vars |-> w]
  <2>10. sc \in Scope /\ sc.name = <<"DEF", x>>
    BY <2>5, <2>6 DEF Scope
  <2>11. scopes' = [scopes EXCEPT ![m] = Append(@, sc)]
    BY <2>3 DEF PushScope
  <2> HIDE DEF f, m, x, w, g, b, sc
  <2>12. frames' = Append(Append(frames, g), b)
    <3>1. frames' = frames \o <<g, b>>
      BY <2>4 DEF f, m, x, g, b
    <3>2. QED
      BY <2>7, <2>8, <3>1
  <2>13. frames' \in Seq(Frame) /\ Stack(frames')
    <3>1. Waits(frames[Len(frames)], g)
      BY <1>1, <2>9 DEF Waits, Top
    <3>2. Append(frames, g) \in Seq(Frame) /\ Stack(Append(frames, g))
      BY <2>7, <2>8, <3>1, PushFrame
    <3>3. PICK h \in Seq(Frame) : h = Append(frames, g) /\ Stack(h)
      BY <3>2
    <3>4. Waits(h[Len(h)], b)
      BY <2>9 DEF Waits
    <3>5. Append(h, b) \in Seq(Frame) /\ Stack(Append(h, b))
      BY <2>8, <3>3, <3>4, PushFrame
    <3>6. QED
      BY <2>12, <3>3, <3>5
  <2>14. /\ Len(frames') = n + 1 /\ frames'[n] = g /\ frames'[n + 1] = b
         /\ \A i \in 1 .. Len(frames) : frames'[i] = frames[i]
    BY <2>7, <2>8, <2>12
  <2>15. /\ n \in 1 .. Len(frames') /\ Own(frames') = Own(frames) \cup {n}
         /\ \A i \in Own(frames) : i < n /\ Alike(frames'[i], frames[i])
    <3>1. Own(frames') = Own(frames) \cup {n}
      BY <2>7, <2>9, <2>14 DEF Own, Owns
    <3>2. QED
      BY <2>7, <2>14, <3>1 DEF Own, Alike
  <2>16. Discipline(frames', scopes')
    <3>1. PICK new \in Seq(Frame) : new = frames'
      BY <2>13
    <3>2. /\ n \in 1 .. Len(new) /\ Own(new) = Own(frames) \cup {n}
          /\ \A i \in Own(frames) : i < n /\ Alike(new[i], frames[i])
          /\ new[n] = g
      BY <2>14, <2>15, <3>1
    <3>3. new[n].mod = m /\ new[n].at = Len(scopes[m]) + 1 /\ sc.name = OwnScope(new[n])
      BY <2>9, <2>10, <3>2
    <3> HIDE DEF n
    <3>4. Discipline(new, [scopes EXCEPT ![new[n].mod] = Append(@, sc)])
      BY <2>7, <2>10, <3>2, <3>3, PushOwner
    <3>5. QED
      BY <2>11, <3>1, <3>3, <3>4
  <2>17. scopes' \in [Packages -> Seq(Scope)]
    BY <2>1, <2>7, <2>10, <2>11 DEF m
  <2>18. TypeOK'
    BY <2>4, <2>13, <2>17 DEF IInv, TypeOK, ContextTypeOK, Rest
  <2>19. StackOK'
    BY <1>1, <2>4, <2>13 DEF IInv, StackOK, Rest
  <2>20. QED
    BY <2>16, <2>18, <2>19 DEF IInv
<1>4. QED
  BY <1>2, <1>3

LEMMA EndCallOK ==
  ASSUME IInv, EndCall
  PROVE  IInv'
<1>1. PICK v \in FromAny(result) :
        IF v = Mistyped THEN Throw
        ELSE /\ PopScope(Top.mod)
             /\ return_' = FALSE
             /\ ReturnTo(Valued(Below, ToAny(v)))
             /\ UNCHANGED <<imported, result>> /\ Rest
  BY DEF EndCall
<1>2. CASE v = Mistyped
  BY <1>1, <1>2, Stopping
<1>3. CASE v # Mistyped
  <2> DEFINE g == Valued(Below, ToAny(v))
  <2>1. /\ frames \in Seq(Frame) /\ Stack(frames) /\ Len(frames) \in Nat /\ phase = "run"
        /\ Top \in Frame /\ Top.k = "fn" /\ Below \in Frame /\ FrameOK(Below)
        /\ Below.k = "expr" /\ Len(Below.vals) < Len(Below.code) /\ Len(frames) > 1
    BY TopParts DEF EndCall, Waits
  <2>2. ToAny(v) \in Result
    BY <1>3, FromAnyType, ToAnyType, Untouched
  <2>3. g \in Frame /\ CanReplace(g, Below) /\ Alike(g, Below)
    BY <2>1, <2>2, ValuedOK
  <2>4. /\ frames' = [Front(frames) EXCEPT ![Len(frames) - 1] = g]
        /\ scopes' = [scopes EXCEPT ![Top.mod] = Front(@)]
        /\ return_' = FALSE /\ UNCHANGED <<imported, result>> /\ Rest
    BY <1>1, <1>3 DEF ReturnTo, PopScope
  <2> HIDE DEF g
  <2>5. frames' \in Seq(Frame) /\ Stack(frames') /\ SameOwners(frames', Front(frames))
    BY <2>1, <2>3, <2>4, ReturnToOK DEF Top, Below
  <2>6. /\ Len(frames) \in Own(frames)
        /\ Own(frames') = Own(frames) \ {Len(frames)}
        /\ \A i \in Own(frames') : Alike(frames'[i], frames[i])
    <3>1. Len(frames) \in Own(frames)
      BY <2>1 DEF Own, Owns, Top
    <3>2. frames # <<>>
      BY <2>1
    <3>3. /\ Own(Front(frames)) = Own(frames) \ {Len(frames)}
          /\ \A i \in Own(Front(frames)) : Front(frames)[i] = frames[i]
      BY <2>1, <3>2, OwnersOfFront
    <3>4. QED
      BY <2>5, <3>1, <3>3 DEF SameOwners
  <2>7. scopes \in [Packages -> Seq(Scope)] /\ Discipline(frames, scopes) /\ Top.mod \in Packages
    BY <2>1, FnParts, Untouched DEF IInv
  <2>8. scopes[Top.mod] # <<>> /\ Discipline(frames', scopes')
    <3>1. PICK new \in Seq(Frame) : new = frames'
      BY <2>5
    <3>2. /\ scopes[Top.mod] # <<>>
          /\ Discipline(new, [scopes EXCEPT ![Top.mod] = Front(@)])
      BY <2>1, <2>6, <2>7, <3>1, PopOwner DEF Top
    <3>3. QED
      BY <2>4, <3>1, <3>2
  <2>9. scopes' \in [Packages -> Seq(Scope)]
    BY <2>4, <2>7, <2>8, PopScopeType
  <2>10. TypeOK'
    BY <2>4, <2>5, <2>9 DEF IInv, TypeOK, ContextTypeOK, Rest
  <2>11. StackOK'
    BY <2>1, <2>4, <2>5 DEF IInv, StackOK, Rest
  <2>12. QED
    BY <2>8, <2>10, <2>11 DEF IInv
<1>4. QED
  BY <1>2, <1>3

-----------------------------------------------------------------------------
(* Statements *)

\* A statement's visitor that has all the values it wants.
LEMMA FinishingParts ==
  ASSUME IInv, NEW op, Finishing(op)
  PROVE  /\ AtTop("stmt") /\ Top \in Frame /\ Top.k = "stmt" /\ phase = "run"
         /\ frames \in Seq(Frame) /\ Stack(frames) /\ module = Root
         /\ Top.stmt \in Statement /\ Top.stmt.op = op
         /\ Top.vals \in Seq(Result) /\ Len(Top.vals) \in Nat
         /\ Len(Top.vals) <= Len(Top.stmt.exprs)
         /\ op # "if" => Len(Top.vals) = Len(Top.stmt.exprs)
<1>1. /\ AtTop("stmt") /\ Top \in Frame /\ Top.k = "stmt" /\ phase = "run"
      /\ frames \in Seq(Frame) /\ Stack(frames) /\ module = Root /\ FrameOK(Top)
      /\ Top.stmt.op = op /\ ~WantsExpr(Top)
  BY TopParts DEF Finishing
<1>2. Top.stmt \in Statement /\ Top.vals \in Seq(Result) /\ Len(Top.vals) \in Nat
  BY <1>1, StmtParts
<1>3. Len(Top.stmt.exprs) \in Nat /\ Len(Top.vals) <= Len(Top.stmt.exprs)
  BY <1>1, <1>2, StatementParts DEF FrameOK
<1>4. op # "if" => Len(Top.vals) = Len(Top.stmt.exprs)
  <2>1. op # "if" => ~(Len(Top.vals) < Len(Top.stmt.exprs))
    BY <1>1, Zenon DEF WantsExpr
  <2>2. QED
    BY <1>2, <1>3, <2>1
<1>5. QED
  BY <1>1, <1>2, <1>3, <1>4

LEMMA StoreOK ==
  ASSUME IInv, AtTop("stmt"), NEW q \in QName, NEW v \in Value, Store(q, v)
  PROVE  IInv'
<1>1. CASE UpsertDefined(q)
  <2>1. Upsert(q, v) /\ Return(Empty) /\ UNCHANGED <<imported, return_>> /\ Rest
    BY <1>1 DEF Store
  <2>2. scopes' \in [Packages -> Seq(Scope)] /\ SameShape(scopes', scopes)
    BY <1>1, <2>1, UpsertType, Untouched
  <2>3. Empty \in Result
    BY DEF Result
  <2>4. QED
    BY <2>1, <2>2, <2>3, ReturnOK, Untouched
<1>2. CASE ~UpsertDefined(q)
  BY <1>2, Stopping DEF Store
<1>3. QED
  BY <1>1, <1>2

LEMMA AssignOK ==
  ASSUME IInv, Assign
  PROVE  IInv'
<1>1. AtTop("stmt") /\ Top.stmt.name \in QName /\ Top.vals[1] \in Result
  <2>1. /\ AtTop("stmt") /\ Top.stmt \in Statement /\ Top.stmt.op = "assign"
        /\ Top.vals \in Seq(Result) /\ Len(Top.vals) = Len(Top.stmt.exprs)
    BY FinishingParts DEF Assign
  <2>2. Top.stmt.name \in QName /\ Len(Top.stmt.exprs) = 1
    BY <2>1, StatementParts
  <2>3. QED
    BY <2>1, <2>2
<1>2. PICK v \in FromAny(Top.vals[1]) :
        IF v = Mistyped THEN Throw ELSE Store(Top.stmt.name, v)
  BY DEF Assign
<1>3. v \in Value
  BY <1>1, FromAnyType
<1>4. QED
  BY <1>1, <1>2, <1>3, Stopping, StoreOK

LEMMA CopyVariableOK ==
  ASSUME IInv, CopyVariable
  PROVE  IInv'
<1>1. AtTop("stmt") /\ Top.stmt.name \in QName /\ Top.stmt.from \in QName
  BY FinishingParts, StatementParts DEF CopyVariable
<1>2. Var(Top.stmt.from) \in Value \cup {Absent}
  BY <1>1, VarType, Untouched
<1>3. PICK v : v = Var(Top.stmt.from)
  OBVIOUS
<1>4. CASE v = Mistyped /\ Throw
  BY <1>4, Stopping
<1>5. CASE v = Absent /\ Return(Empty) /\ UNCHANGED <<scopes, imported, return_>> /\ Rest
  <2>1. Empty \in Result
    BY DEF Result
  <2>2. QED
    BY <1>1, <1>5, <2>1, ReturnOK, Untouched
<1>6. CASE v \notin {Mistyped, Absent} /\ Store(Top.stmt.name, v)
  BY <1>1, <1>2, <1>3, <1>6, StoreOK
<1>7. QED
  BY <1>3, <1>4, <1>5, <1>6 DEF CopyVariable

LEMMA CallStatementOK ==
  ASSUME IInv, CallStatement
  PROVE  IInv'
<1>1. Empty \in Result /\ AtTop("stmt")
  BY DEF Result, CallStatement, Finishing
<1>2. QED
  BY <1>1, ReturnOK, Untouched DEF CallStatement

LEMMA ReturnStatementOK ==
  ASSUME IInv, ReturnStatement
  PROVE  IInv'
<1>1. AtTop("stmt") /\ Top.vals[1] \in Result
  <2>1. /\ AtTop("stmt") /\ Top.stmt \in Statement /\ Top.stmt.op = "return"
        /\ Top.vals \in Seq(Result) /\ Len(Top.vals) = Len(Top.stmt.exprs)
    BY FinishingParts DEF ReturnStatement
  <2>2. Len(Top.stmt.exprs) = 1
    BY <2>1, StatementParts
  <2>3. QED
    BY <2>1, <2>2
<1>2. PICK v \in FromAny(Top.vals[1]) :
        IF v = Mistyped THEN Throw
        ELSE /\ return_' = TRUE
             /\ Return(Top.vals[1])
             /\ UNCHANGED <<scopes, imported>> /\ Rest
  BY DEF ReturnStatement
<1>3. CASE v = Mistyped
  BY <1>2, <1>3, Stopping
<1>4. CASE v # Mistyped
  BY <1>1, <1>2, <1>4, ReturnOK, Untouched
<1>5. QED
  BY <1>3, <1>4

\* The statement's visitor goes on to visit a list of statements.
LEMMA ListOK ==
  ASSUME IInv, AtTop("stmt"), NEW b \in Blocks, Replace(Statements(b, 0)),
         UNCHANGED <<scopes, imported, result, return_>>, Rest
  PROVE  IInv'
<1> DEFINE g == Statements(b, 0)
<1>1. /\ frames \in Seq(Frame) /\ Stack(frames) /\ Top.k = "stmt" /\ phase = "run"
  BY TopParts
<1>2. g \in Frame /\ CanReplace(g, Top) /\ Alike(g, Top)
  <2>1. g \in Frame /\ FrameOK(g) /\ g.k = "statements"
    BY Frames DEF Statements
  <2> HIDE DEF g
  <2>2. QED
    BY <1>1, <2>1 DEF CanReplace, Alike, Owns
<1>3. frames' = [frames EXCEPT ![Len(frames)] = g]
  BY DEF Replace
<1> HIDE DEF g
<1>4. frames' \in Seq(Frame) /\ Stack(frames') /\ SameOwners(frames', frames)
  BY <1>1, <1>2, <1>3, ReplaceOK DEF Top
<1>5. QED
  BY <1>1, <1>4, Quietly, Untouched

LEMMA IfStatementOK ==
  ASSUME IInv, IfStatement
  PROVE  IInv'
<1> DEFINE s == Top.stmt
           last == Last(Top.vals)
<1>1. /\ AtTop("stmt") /\ s \in Statement /\ s.op = "if" /\ Len(Top.vals) \in Nat
      /\ Len(Top.vals) <= Len(s.exprs) /\ ~WantsExpr(Top) /\ Top.vals \in Seq(Result)
  BY FinishingParts DEF IfStatement, Finishing
<1>2. /\ s.exprs # <<>> /\ s.thens \in Seq(Blocks) /\ Len(s.thens) = Len(s.exprs)
      /\ s.else \in Blocks \cup {NoBlock} /\ s.exprs \in Seq(Code)
  BY <1>1, StatementParts
<1>3. Len(Top.vals) >= 1
  <2>1. Len(s.exprs) \in Nat \ {0}
    BY <1>2
  <2>2. ASSUME Len(Top.vals) = 0 PROVE FALSE
    <3>1. Len(Top.vals) < Len(Top.stmt.exprs) /\ DOMAIN Top.vals = {}
      BY <1>1, <2>1, <2>2
    <3>2. WantsExpr(Top)
      BY <3>1, Zenon DEF WantsExpr
    <3>3. QED
      BY <1>1, <3>2
  <2>3. QED
    BY <1>1, <2>2
<1>4. s.thens[Len(Top.vals)] \in Blocks
  BY <1>1, <1>2, <1>3
<1>5. CASE Type(last) # "BOOLEAN" /\ Throw
  BY <1>5, Stopping
<1>6. CASE /\ Replace(Statements(s.thens[Len(Top.vals)], 0))
           /\ UNCHANGED <<scopes, imported, result, return_>> /\ Rest
  BY <1>1, <1>4, <1>6, ListOK
<1>7. CASE /\ IF s.else # NoBlock
              THEN Replace(Statements(s.else, 0)) /\ UNCHANGED result
              ELSE Return(Empty)
           /\ UNCHANGED <<scopes, imported, return_>> /\ Rest
  <2>1. CASE s.else # NoBlock
    <3>1. s.else \in Blocks
      BY <1>2, <2>1
    <3>2. QED
      BY <1>1, <1>7, <2>1, <3>1, ListOK
  <2>2. CASE s.else = NoBlock
    <3>1. Empty \in Result
      BY DEF Result
    <3>2. QED
      BY <1>1, <1>7, <2>2, <3>1, ReturnOK, Untouched
  <2>3. QED
    BY <2>1, <2>2
<1>8. QED
  BY <1>5, <1>6, <1>7 DEF IfStatement

-----------------------------------------------------------------------------
(* FOR *)

LEMMA EnterForOK ==
  ASSUME IInv, EnterFor
  PROVE  IInv'
<1> DEFINE s == Top.stmt
           n == Len(frames)
<1>1. /\ frames \in Seq(Frame) /\ Stack(frames) /\ phase = "run" /\ module = Root
      /\ Top.k = "stmt" /\ n \in Nat \ {0}
  BY FinishingParts, LastFrame DEF EnterFor
<1>2. /\ s.id \in Ids /\ s.step \in Nat /\ s.body \in Blocks
      /\ Top.vals[1] \in Result /\ Top.vals[2] \in Result
  <2>1. /\ s \in Statement /\ s.op = "for"
        /\ Top.vals \in Seq(Result) /\ Len(Top.vals) = Len(s.exprs)
    BY FinishingParts DEF EnterFor
  <2>2. s.id \in Ids /\ s.step \in Nat /\ s.body \in Blocks /\ Len(s.exprs) = 2
    BY <2>1, StatementParts
  <2>3. QED
    BY <2>1, <2>2
<1>3. PICK start \in FromAny(Top.vals[1]), end \in FromAny(Top.vals[2]) :
        IF Mistyped \in {start, end} THEN Throw
        ELSE /\ PushScope(module, <<"FOR", s.id>>, [NoVars EXCEPT ![s.id] = start])
             /\ Replace(For(module, s.id, Len(scopes[module]) + 1,
                            ToInt(start), ToInt(end), s.step, s.body, "test"))
             /\ UNCHANGED <<imported, result, return_>> /\ Rest
  BY DEF EnterFor
<1>4. start \in Value /\ end \in Value
  BY <1>2, FromAnyType
<1>5. CASE Mistyped \in {start, end}
  BY <1>3, <1>5, Stopping
<1>6. CASE Mistyped \notin {start, end}
  <2> DEFINE at == Len(scopes[Root]) + 1
             g == For(Root, s.id, at, ToInt(start), ToInt(end), s.step, s.body, "test")
             w == [NoVars EXCEPT ![s.id] = start]
             sc == [name |-> <<"FOR", s.id>>, vars |-> w]
  <2>1. /\ scopes' = [scopes EXCEPT ![Root] = Append(@, sc)]
        /\ frames' = [frames EXCEPT ![n] = g]
        /\ UNCHANGED <<imported, result, return_>> /\ Rest
    BY <1>1, <1>3, <1>6 DEF PushScope, Replace
  <2>2. /\ scopes \in [Packages -> Seq(Scope)] /\ Discipline(frames, scopes)
        /\ Root \in Packages /\ at \in Nat
    BY Untouched, NamesAssumption DEF IInv
  <2>3. sc \in Scope /\ sc.name = <<"FOR", s.id>>
    <3>1. w \in [Ids -> Value \cup {Absent}]
      BY <1>2, <1>4, NoVarsType
    <3>2. <<"FOR", s.id>> \in ScopeName
      BY <1>2 DEF ScopeName
    <3>3. QED
      BY <3>1, <3>2 DEF Scope
  <2>4. g \in Frame /\ g.k = "for" /\ g.mod = Root /\ g.id = s.id /\ g.at = at
    <3>1. ToInt(start) \in MachineInt /\ ToInt(end) \in MachineInt
      BY <1>4, ToIntType
    <3>2. QED
      BY <1>2, <2>2, <3>1 DEF For, Frame
  <2>5. CanReplace(g, Top) /\ OwnScope(g) = <<"FOR", s.id>>
    <3> HIDE DEF g
    <3>1. QED
      BY <1>1, <2>4 DEF CanReplace, FrameOK, OwnScope
  <2> HIDE DEF g, sc, at, s
  <2>6. frames' \in Seq(Frame) /\ Stack(frames')
    BY <1>1, <2>1, <2>4, <2>5, ReplaceOK DEF Top
  <2>7. /\ Len(frames') = n /\ frames'[n] = g
        /\ \A i \in 1 .. n : i # n => frames'[i] = frames[i]
    BY <1>1, <2>1, <2>4
  <2>8. /\ n \in 1 .. Len(frames') /\ Own(frames') = Own(frames) \cup {n}
        /\ \A i \in Own(frames) : i < n /\ Alike(frames'[i], frames[i])
    <3>1. ~Owns(frames[n])
      BY <1>1 DEF Owns, Top
    <3>2. Own(frames') = Own(frames) \cup {n}
      BY <1>1, <2>4, <2>7, <3>1 DEF Own, Owns
    <3>3. QED
      BY <1>1, <2>7, <3>1, <3>2 DEF Own, Alike
  <2>9. Discipline(frames', scopes')
    <3>1. PICK new \in Seq(Frame) : new = frames'
      BY <2>6
    <3>2. /\ n \in 1 .. Len(new) /\ Own(new) = Own(frames) \cup {n}
          /\ \A i \in Own(frames) : i < n /\ Alike(new[i], frames[i])
          /\ new[n] = g
      BY <2>7, <2>8, <3>1
    <3>3. new[n].mod = Root /\ new[n].at = Len(scopes[Root]) + 1 /\ sc.name = OwnScope(new[n])
      BY <2>3, <2>4, <2>5, <3>2 DEF at
    <3> HIDE DEF n
    <3>4. Discipline(new, [scopes EXCEPT ![new[n].mod] = Append(@, sc)])
      BY <1>1, <2>2, <2>3, <3>2, <3>3, PushOwner
    <3>5. QED
      BY <2>1, <3>1, <3>3, <3>4
  <2>10. scopes' \in [Packages -> Seq(Scope)]
    BY <2>1, <2>2, <2>3
  <2>11. TypeOK'
    BY <2>1, <2>6, <2>10 DEF IInv, TypeOK, ContextTypeOK, Rest
  <2>12. StackOK'
    BY <1>1, <2>1, <2>6 DEF IInv, StackOK, Rest
  <2>13. QED
    BY <2>9, <2>11, <2>12 DEF IInv
<1>7. QED
  BY <1>5, <1>6

\* The loop on top of the stack, and the loop as the body or the test leaves it.
LEMMA LoopParts ==
  ASSUME IInv, AtTop("for")
  PROVE  /\ frames \in Seq(Frame) /\ Stack(frames) /\ phase = "run" /\ module = Root
         /\ Top \in Frame /\ Top.k = "for" /\ Top.mod = Root /\ Root \in Packages
         /\ Top.id \in Ids /\ Top.cur \in MachineInt /\ Top.step \in Nat /\ Top.body \in Blocks
         /\ Len(frames) \in Own(frames) /\ Top.at \in 1 .. Len(scopes[Root])
         /\ scopes \in [Packages -> Seq(Scope)]
<1>1. /\ frames \in Seq(Frame) /\ Stack(frames) /\ phase = "run" /\ module = Root
      /\ Top \in Frame /\ Top.k = "for" /\ Top.mod = Root /\ Root \in Packages
      /\ Len(frames) \in Nat \ {0}
  BY TopParts, NamesAssumption DEF FrameOK
<1>2. /\ Top.id \in Ids /\ Top.cur \in MachineInt /\ Top.step \in Nat /\ Top.body \in Blocks
  BY <1>1, ForParts
<1>3. Len(frames) \in Own(frames)
  BY <1>1 DEF Own, Owns, Top
<1>4. Top.at \in (Floor(Root) + 1) .. Len(scopes[Root])
  BY <1>1, <1>3 DEF IInv, Discipline, Top
<1>5. Top.at \in 1 .. Len(scopes[Root])
  BY <1>1, <1>4, FloorType
<1>6. QED
  BY <1>1, <1>2, <1>3, <1>5, Untouched

LEMMA LoopReplaced ==
  \A f \in Frame : f.k = "for" /\ FrameOK(f) =>
    \A pc \in {"test", "body", "last"}, c \in MachineInt :
      LET g == [f EXCEPT !.cur = c, !.pc = pc]
      IN g \in Frame /\ CanReplace(g, f) /\ Alike(g, f)
<1> SUFFICES ASSUME NEW f \in Frame, f.k = "for", FrameOK(f),
                    NEW pc \in {"test", "body", "last"}, NEW c \in MachineInt
             PROVE  LET g == [f EXCEPT !.cur = c, !.pc = pc]
                    IN g \in Frame /\ CanReplace(g, f) /\ Alike(g, f)
  OBVIOUS
<1> DEFINE R == [k : {"for"}, mod : Packages, id : Ids, at : Nat, cur : MachineInt,
                 end : MachineInt, step : Nat, body : Blocks, pc : {"test", "body", "last"}]
           g == [f EXCEPT !.cur = c, !.pc = pc]
<1>1. f \in R
  BY DEF Frame
<1>2. g \in R /\ g.k = f.k /\ g.mod = f.mod /\ g.id = f.id /\ g.at = f.at
  BY <1>1
<1>3. R \subseteq Frame
  BY DEF Frame
<1> HIDE DEF R, g
<1>4. FrameOK(g)
  BY <1>2 DEF FrameOK
<1>5. QED
  BY <1>2, <1>3, <1>4 DEF CanReplace, Alike, Owns, g

LEMMA ForBodyOK ==
  ASSUME IInv, ForBody
  PROVE  IInv'
<1> DEFINE pc == IF Top.cur = Top.end THEN "last" ELSE "body"
           f == [Top EXCEPT !.pc = pc]
           g == Statements(Top.body, 0)
<1>1. /\ frames \in Seq(Frame) /\ Stack(frames) /\ phase = "run" /\ Top \in Frame
      /\ Top.k = "for" /\ Top.mod = Root /\ Root \in Packages /\ FrameOK(Top)
      /\ Top.id \in Ids /\ Top.cur \in MachineInt /\ Top.body \in Blocks
      /\ Top.at \in 1 .. Len(scopes[Root]) /\ scopes \in [Packages -> Seq(Scope)]
  BY LoopParts, TopParts DEF ForBody
<1>2. f \in Frame /\ CanReplace(f, Top) /\ Alike(f, Top)
  <2>1. pc \in {"test", "body", "last"}
    OBVIOUS
  <2> HIDE DEF pc
  <2>2. [Top EXCEPT !.pc = pc] = [Top EXCEPT !.cur = Top.cur, !.pc = pc]
    BY <1>1 DEF Frame
  <2>3. QED
    BY <1>1, <2>1, <2>2, LoopReplaced
<1>3. g \in Frame /\ FrameOK(g) /\ g.k = "statements"
  BY <1>1, Frames DEF Statements
<1>4. /\ frames' = Append([frames EXCEPT ![Len(frames)] = f], g)
      /\ scopes' = [scopes EXCEPT ![Root][Top.at].vars[Top.id] = Num(Top.cur)]
      /\ UNCHANGED <<imported, result, return_>> /\ Rest
  BY <1>1 DEF ForBody, Step
<1> HIDE DEF f, g
<1>5. frames' \in Seq(Frame) /\ Stack(frames') /\ SameOwners(frames', frames)
  BY <1>1, <1>2, <1>3, <1>4, StepOK DEF Top
<1>6. scopes' \in [Packages -> Seq(Scope)] /\ SameShape(scopes', scopes)
  <2>1. Num(Top.cur) \in Value
    BY <1>1 DEF Num, Value, Typed
  <2>2. QED
    BY <1>1, <1>4, <2>1, AssignInScope
<1>7. QED
  BY <1>1, <1>4, <1>5, <1>6, Quietly, Untouched

LEMMA ForNextOK ==
  ASSUME IInv, ForNext
  PROVE  IInv'
<1> DEFINE v == scopes[Top.mod][Top.at].vars[Top.id]
           n == ToInt(v) + Top.step
           f == [Top EXCEPT !.cur = n, !.pc = "test"]
<1>1. CASE Throw \/ Undefine
  BY <1>1, Stopping
<1>2. CASE n \in MachineInt /\ Replace(f)
           /\ UNCHANGED <<scopes, imported, result, return_>> /\ Rest
  <2>1. /\ frames \in Seq(Frame) /\ Stack(frames) /\ phase = "run" /\ Top \in Frame
        /\ Top.k = "for" /\ FrameOK(Top)
    BY LoopParts, TopParts DEF ForNext
  <2> HIDE DEF n
  <2>2. f \in Frame /\ CanReplace(f, Top) /\ Alike(f, Top)
    BY <1>2, <2>1, LoopReplaced
  <2>3. frames' = [frames EXCEPT ![Len(frames)] = f]
    BY <1>2 DEF Replace
  <2> HIDE DEF f
  <2>4. frames' \in Seq(Frame) /\ Stack(frames') /\ SameOwners(frames', frames)
    BY <2>1, <2>2, <2>3, ReplaceOK DEF Top
  <2>5. QED
    BY <1>2, <2>1, <2>4, Quietly, Untouched
<1>3. QED
  BY <1>1, <1>2 DEF ForNext

LEMMA EndForOK ==
  ASSUME IInv, EndFor
  PROVE  IInv'
<1>1. /\ frames \in Seq(Frame) /\ Stack(frames) /\ phase = "run" /\ module = Root
      /\ Top.k = "for" /\ Top.mod = Root /\ Root \in Packages
      /\ Len(frames) \in Own(frames) /\ scopes \in [Packages -> Seq(Scope)]
      /\ Discipline(frames, scopes)
  BY LoopParts DEF EndFor, IInv
<1>2. /\ frames' = Front(frames) /\ result' = Empty
      /\ scopes' = [scopes EXCEPT ![Root] = Front(@)]
      /\ UNCHANGED <<imported, return_>> /\ Rest
  BY <1>1 DEF EndFor, PopScope, Return
<1>3. frames' \in Seq(Frame) /\ Stack(frames') /\ frames # <<>>
  BY <1>1, <1>2, PopOK DEF Top
<1>4. /\ Own(frames') = Own(frames) \ {Len(frames)}
      /\ \A i \in Own(frames') : Alike(frames'[i], frames[i])
  BY <1>1, <1>2, <1>3, OwnersOfFront DEF Alike
<1>5. scopes[Root] # <<>> /\ Discipline(frames', scopes')
  <2>1. PICK new \in Seq(Frame) : new = frames'
    BY <1>3
  <2>2. /\ scopes[Root] # <<>> /\ Discipline(new, [scopes EXCEPT ![Root] = Front(@)])
    BY <1>1, <1>4, <2>1, PopOwner DEF Top
  <2>3. QED
    BY <1>2, <2>1, <2>2
<1>6. scopes' \in [Packages -> Seq(Scope)]
  BY <1>1, <1>2, <1>5, PopScopeType
<1>7. result' \in Result
  BY <1>2 DEF Result
<1>8. TypeOK'
  BY <1>2, <1>3, <1>6, <1>7 DEF IInv, TypeOK, ContextTypeOK, Rest
<1>9. StackOK'
  BY <1>1, <1>2, <1>3 DEF IInv, StackOK, Rest
<1>10. QED
  BY <1>5, <1>8, <1>9 DEF IInv

-----------------------------------------------------------------------------
(* The theorems *)

LEMMA Initially == Init => IInv
<1> SUFFICES ASSUME Init PROVE IInv
  OBVIOUS
<1>1. frames = <<Main(0)>> /\ Main(0) \in Frame /\ FrameOK(Main(0)) /\ Main(0).k = "main"
  BY Frames DEF Init, Main
<1>2. TypeOK
  <2>1. frames \in Seq(Frame)
    BY <1>1
  <2>2. QED
    BY <2>1, ContextInitType DEF Init, TypeOK, Phases, Result
<1>3. StackOK
  BY <1>1 DEF Init, StackOK, Stack
<1>4. Own(frames) = {}
  BY <1>1 DEF Own, Owns
<1>5. \A m \in Packages : Len(scopes[m]) = Floor(m)
  BY DEF Init, ContextInit, Floor
<1>6. scopes[Root] # <<>>
  BY NamesAssumption DEF Init, ContextInit
<1>7. Discipline(frames, scopes)
  BY <1>4, <1>5, <1>6, FloorType DEF Discipline
<1>8. QED
  BY <1>2, <1>3, <1>7 DEF IInv

LEMMA Preserved == IInv /\ [Next]_vars => IInv'
<1> SUFFICES ASSUME IInv, [Next]_vars PROVE IInv'
  OBVIOUS
<1>1. CASE Load
  BY <1>1, LoadingOK
<1>2. CASE VisitItem \/ VisitStatement \/ EndStatements \/ BeginExpr \/ EndExpr
  BY <1>2, VisitItemOK, VisitStatementOK, EndStatementsOK, BeginExprOK, EndExprOK
<1>3. CASE VisitLiteral \/ VisitParens \/ VisitVariable \/ VisitBinary
  BY <1>3, VisitLeafOK, VisitBinaryOK
<1>4. CASE CallFails \/ CallNative \/ CallBasic \/ EndCall
  BY <1>4, CallFailsOK, CallNativeOK, CallBasicOK, EndCallOK
<1>5. CASE Assign \/ CopyVariable \/ CallStatement \/ ReturnStatement \/ IfStatement
  BY <1>5, AssignOK, CopyVariableOK, CallStatementOK, ReturnStatementOK, IfStatementOK
<1>6. CASE EnterFor \/ ForBody \/ ForNext \/ EndFor
  BY <1>6, EnterForOK, ForBodyOK, ForNextOK, EndForOK
<1>7. CASE EndMain \/ Ended \/ UNCHANGED vars
  BY <1>7, Stopping DEF EndMain, Ended
<1>8. QED
  BY <1>1, <1>2, <1>3, <1>4, <1>5, <1>6, <1>7 DEF Next, Run

LEMMA Always == Spec => []IInv
BY Initially, Preserved, PTL DEF Spec

LEMMA DisciplineOfScopes == IInv => ScopeDiscipline
BY DEF IInv, Discipline, ScopeDiscipline, EachOwnerHasItsScope, OwnersAreStacked,
       EachScopeHasAnOwner, Owners, Own

\* Every program keeps the interpreter's state well-typed: int arithmetic stays
\* within the machine's width, a visitor's result is one a caller can use, a
\* value is on the stack wherever a visitor takes one.
THEOREM TypeCorrect == Spec => []TypeOK
<1>1. IInv => TypeOK
  BY DEF IInv
<1>2. QED
  BY <1>1, Always, PTL

\* Whatever a program calls, loops over and returns from, the scopes on every
\* module's stack are exactly those of the calls and loops still open, in order.
THEOREM ScopesMatchStack == Spec => []ScopeDiscipline
BY Always, DisciplineOfScopes, PTL

-----------------------------------------------------------------------------
(* Hidden variables *)

\* No step changes a variable that one of an inner scope hides.
Shielded ==
  \A m \in Packages : \A i, j \in 1 .. Len(scopes[m]) : \A x \in Ids :
    (i < j /\ scopes[m][j].vars[x] # Absent)
      => scopes'[m][i].vars[x] = scopes[m][i].vars[x]

\* An assignment shields what is hidden if it is to the innermost binding.
LEMMA AssignShields ==
  ASSUME NEW S \in [Packages -> Seq(Scope)], NEW p \in Packages,
         NEW d \in 1 .. Len(S[p]), NEW y \in Ids, NEW v \in Value,
         \A j \in 1 .. Len(S[p]) : S[p][j].vars[y] # Absent => j <= d
  PROVE  LET T == [S EXCEPT ![p][d].vars[y] = v]
         IN \A m \in Packages : \A i, j \in 1 .. Len(S[m]) : \A x \in Ids :
              (i < j /\ S[m][j].vars[x] # Absent) => T[m][i].vars[x] = S[m][i].vars[x]
<1> DEFINE T == [S EXCEPT ![p][d].vars[y] = v]
<1> SUFFICES ASSUME NEW m \in Packages, NEW i \in 1 .. Len(S[m]), NEW j \in 1 .. Len(S[m]),
                    NEW x \in Ids, i < j, S[m][j].vars[x] # Absent
             PROVE  T[m][i].vars[x] = S[m][i].vars[x]
  OBVIOUS
<1> DEFINE sc == S[p][d]
           new == [sc EXCEPT !.vars[y] = v]
           st == [S[p] EXCEPT ![d] = new]
<1>1. T = [S EXCEPT ![p] = st]
  OBVIOUS
<1> HIDE DEF T
<1>2. CASE m # p
  BY <1>1, <1>2
<1>3. CASE m = p /\ i # d
  <2>1. S[p] \in Seq(Scope) /\ i \in 1 .. Len(S[p])
    BY <1>3
  <2> HIDE DEF new
  <2>2. st[i] = S[p][i]
    BY <2>1, <1>3
  <2> HIDE DEF st
  <2>3. T[m] = st
    BY <1>1, <1>3
  <2>4. QED
    BY <1>3, <2>2, <2>3
<1>4. CASE m = p /\ i = d
  <2>1. x # y
    BY <1>4
  <2>2. sc \in Scope
    OBVIOUS
  <2>3. new.vars[x] = sc.vars[x]
    BY <2>1, <2>2 DEF Scope
  <2>4. S[p] \in Seq(Scope)
    OBVIOUS
  <2> HIDE DEF new
  <2>5. st[d] = new
    BY <2>4
  <2> HIDE DEF st
  <2>6. T[m] = st
    BY <1>1, <1>4
  <2>7. QED
    BY <1>4, <2>3, <2>5, <2>6
<1>5. QED
  BY <1>2, <1>3, <1>4

LEMMA StoreShields ==
  ASSUME IInv, NEW q \in QName, NEW v \in Value, Store(q, v)
  PROVE  Shielded
<1> DEFINE m == Where(q)
           i == IF HasVar(m, q.id) THEN Max(Binds(m, q.id)) ELSE Len(scopes[m])
<1>1. m \in Packages /\ q.id \in Ids /\ scopes \in [Packages -> Seq(Scope)] /\ ContextTypeOK
  BY WhereType, Untouched
<1>2. CASE UpsertDefined(q) /\ m \in modules
  <2>1. Len(scopes[m]) \in Nat \ {0}
    BY <1>1, <1>2 DEF UpsertDefined
  <2>2. i \in 1 .. Len(scopes[m])
    BY <1>1, <2>1, InnermostBinding
  <2>3. \A j \in 1 .. Len(scopes[m]) : scopes[m][j].vars[q.id] # Absent => j <= i
    <3>1. Binds(m, q.id) \in SUBSET (1 .. Len(scopes[m])) /\ Len(scopes[m]) \in Nat
      BY <2>1 DEF Binds
    <3>2. HasVar(m, q.id) => \A j \in Binds(m, q.id) : j <= Max(Binds(m, q.id))
      BY <3>1, MaxInSet DEF HasVar
    <3> HIDE DEF m
    <3>3. QED
      BY <3>2 DEF Binds, HasVar
  <2>4. scopes' = [scopes EXCEPT ![m][i].vars[q.id] = v]
    BY <1>2 DEF Store, Upsert
  <2> HIDE DEF m, i
  <2>5. QED
    BY <1>1, <2>2, <2>3, <2>4, AssignShields DEF Shielded
<1>3. CASE ~(UpsertDefined(q) /\ m \in modules)
  <2>1. scopes' = scopes
    BY <1>3 DEF Store, Upsert, Undefine, Stop, contextVars
  <2>2. QED
    BY <2>1 DEF Shielded
<1>4. QED
  BY <1>2, <1>3

LEMMA ForBodyShields ==
  ASSUME IInv, ForBody
  PROVE  Shielded
<1>1. /\ Top.mod = Root /\ Root \in Packages /\ Top.id \in Ids /\ Top.cur \in MachineInt
      /\ Top.at \in 1 .. Len(scopes[Root]) /\ scopes \in [Packages -> Seq(Scope)]
      /\ Len(frames) \in Own(frames) /\ frames \in Seq(Frame)
  BY LoopParts DEF ForBody
<1>2. Num(Top.cur) \in Value
  BY <1>1 DEF Num, Value, Typed
<1>3. \A j \in 1 .. Len(scopes[Root]) : j <= Top.at
  <2> SUFFICES ASSUME NEW j \in 1 .. Len(scopes[Root]), Top.at < j PROVE FALSE
    BY <1>1
  <2>1. j \in (Floor(Root) + 1) .. Len(scopes[Root])
    <3>1. Top.at \in (Floor(Root) + 1) .. Len(scopes[Root])
      BY <1>1 DEF IInv, Discipline, Top
    <3>2. QED
      BY <1>1, <3>1, FloorType
  <2>2. PICK i \in Own(frames) : frames[i].mod = Root /\ frames[i].at = j
    BY <1>1, <2>1 DEF IInv, Discipline
  <2>3. i < Len(frames) => frames[i].at < Top.at
    BY <1>1, <2>2 DEF IInv, Discipline, Top
  <2>4. i \in 1 .. Len(frames) /\ Len(frames) \in Nat
    BY <1>1 DEF Own
  <2>5. QED
    BY <1>1, <2>2, <2>3, <2>4 DEF Top
<1>4. scopes' = [scopes EXCEPT ![Root][Top.at].vars[Top.id] = Num(Top.cur)]
  BY <1>1 DEF ForBody
<1>5. PICK d \in 1 .. Len(scopes[Root]), y \in Ids, v \in Value :
        d = Top.at /\ y = Top.id /\ v = Num(Top.cur)
  BY <1>1, <1>2
<1>6. scopes' = [scopes EXCEPT ![Root][d].vars[y] = v] /\ \A j \in 1 .. Len(scopes[Root]) : j <= d
  BY <1>3, <1>4, <1>5
<1>7. QED
  BY <1>1, <1>6, AssignShields DEF Shielded

LEMMA StepsShield ==
  ASSUME IInv, Next
  PROVE  Shielded
<1>0. scopes \in [Packages -> Seq(Scope)] /\ ContextTypeOK
  BY Untouched
<1>1. ASSUME scopes' = scopes PROVE Shielded
  BY <1>1 DEF Shielded
<1>2. ASSUME NEW p \in Packages, NEW sc \in Scope, scopes' = [scopes EXCEPT ![p] = Append(@, sc)]
      PROVE  Shielded
  <2>1. \A m \in Packages : \A i \in 1 .. Len(scopes[m]) : scopes'[m][i] = scopes[m][i]
    <3>1. \A m \in Packages : scopes'[m] = IF m = p THEN Append(scopes[m], sc) ELSE scopes[m]
      BY <1>0, <1>2
    <3>2. \A st \in Seq(Scope) : \A i \in 1 .. Len(st) : Append(st, sc)[i] = st[i]
      OBVIOUS
    <3>3. \A m \in Packages : scopes[m] \in Seq(Scope)
      BY <1>0
    <3>4. \A m \in Packages : \A i \in 1 .. Len(scopes[m]) : Append(scopes[m], sc)[i] = scopes[m][i]
      BY <3>2, <3>3, Zenon
    <3>5. SUFFICES ASSUME NEW m \in Packages, NEW i \in 1 .. Len(scopes[m])
                   PROVE  scopes'[m][i] = scopes[m][i]
      OBVIOUS
    <3>6. CASE m = p
      BY <3>1, <3>4, <3>6, Zenon
    <3>7. CASE m # p
      BY <3>1, <3>7, Zenon
    <3>8. QED
      BY <3>6, <3>7, Zenon
  <2>2. QED
    BY <2>1 DEF Shielded
<1>3. ASSUME NEW p \in Packages, scopes[p] # <<>>, scopes' = [scopes EXCEPT ![p] = Front(@)]
      PROVE  Shielded
  <2>1. \A m \in Packages : \A i, j \in 1 .. Len(scopes[m]) :
          i < j => scopes'[m][i] = scopes[m][i]
    <3>1. \A m \in Packages : scopes'[m] = IF m = p THEN Front(scopes[m]) ELSE scopes[m]
      BY <1>0, <1>3
    <3>2. \A k \in 1 .. Len(scopes[p]) - 1 : Front(scopes[p])[k] = scopes[p][k]
      BY <1>0, <1>3, PopScopeType
    <3>3. \A m \in Packages : Len(scopes[m]) \in Nat
      BY <1>0
    <3>4. QED
      BY <3>1, <3>2, <3>3
  <2>2. QED
    BY <2>1 DEF Shielded
<1>4. CASE Load
  <2>1. scopes' = scopes
    BY <1>4 DEF Load, LoadDefinition, LoadModule, LoadOther, Execute, Undefine, Stop, contextVars
  <2>2. QED
    BY <1>1, <2>1
<1>5. CASE VisitItem \/ EndMain \/ VisitStatement \/ EndStatements \/ BeginExpr \/ EndExpr
  <2>1. scopes' = scopes
    BY <1>5 DEF VisitItem, EndMain, VisitStatement, EndStatements, BeginExpr, EndExpr, contextVars
  <2>2. QED
    BY <1>1, <2>1
<1>6. CASE VisitLiteral \/ VisitParens \/ VisitVariable \/ VisitBinary \/ CallFails \/ CallNative
  <2>1. scopes' = scopes
    BY <1>6 DEF VisitLiteral, VisitParens, VisitVariable, VisitBinary, CallFails, CallNative,
                ComesTo, Throw, Undefine, Stop, contextVars
  <2>2. QED
    BY <1>1, <2>1
<1>7. CASE CallStatement \/ ReturnStatement \/ IfStatement \/ ForNext \/ Ended
  <2>1. scopes' = scopes
    BY <1>7 DEF CallStatement, ReturnStatement, IfStatement, ForNext, Ended,
                Throw, Undefine, Stop, contextVars, vars
  <2>2. QED
    BY <1>1, <2>1
<1>8. CASE CallBasic
  <2>1. CASE Throw
    BY <1>1, <2>1 DEF Throw, Stop, contextVars
  <2>2. CASE ~Throw
    <3> DEFINE f == Resolve(Visit.name)
               m == Callee(Visit.name)
    <3>1. /\ Visiting("call") /\ Visit.name \in QName
          /\ f.type = "BASIC" /\ Len(f.params) = Len(Visit.args)
      BY <1>8, VisitingParts DEF CallBasic
    <3>2. m \in Packages /\ f.params \in Seq(Ids) /\ Visit.name.id \in Ids
      <4>1. m \in Packages /\ f \in Function \cup Natives \cup {NoFunction}
        BY <3>1, <1>0, ResolveType
      <4>2. QED
        BY <3>1, <4>1 DEF Natives, Native, NoFunction, QName, Function
    <3>3. PICK args \in Arguments :
            PushScope(m, <<"DEF", Visit.name.id>>, Bindings(f.params, args))
      BY <1>8, <2>2 DEF CallBasic
    <3>4. Bindings(f.params, args) \in [Ids -> Value \cup {Absent}]
      BY <3>1, <3>2, ArgumentsType, BindingsType
    <3>5. <<"DEF", Visit.name.id>> \in ScopeName
      BY <3>2 DEF ScopeName
    <3>6. [name |-> <<"DEF", Visit.name.id>>, vars |-> Bindings(f.params, args)] \in Scope
      BY <3>4, <3>5 DEF Scope
    <3> HIDE DEF m, f
    <3>7. QED
      BY <1>2, <3>2, <3>3, <3>6 DEF PushScope, m
  <2>3. QED
    BY <2>1, <2>2
<1>9. CASE EnterFor
  <2>1. /\ module \in Packages /\ Top.stmt.id \in Ids
        /\ Top.vals[1] \in Result
    <3>1. /\ Top.stmt \in Statement /\ Top.stmt.op = "for" /\ module = Root
          /\ Top.vals \in Seq(Result) /\ Len(Top.vals) = Len(Top.stmt.exprs)
      BY <1>9, FinishingParts DEF EnterFor
    <3>2. Top.stmt.id \in Ids /\ Len(Top.stmt.exprs) = 2
      BY <3>1, StatementParts
    <3>3. QED
      BY <3>1, <3>2, NamesAssumption
  <2>2. PICK start \in FromAny(Top.vals[1]) :
          \/ Throw
          \/ PushScope(module, <<"FOR", Top.stmt.id>>, [NoVars EXCEPT ![Top.stmt.id] = start])
    BY <1>9 DEF EnterFor
  <2>3. CASE Throw
    BY <1>1, <2>3 DEF Throw, Stop, contextVars
  <2>4. CASE PushScope(module, <<"FOR", Top.stmt.id>>, [NoVars EXCEPT ![Top.stmt.id] = start])
    <3>1. [NoVars EXCEPT ![Top.stmt.id] = start] \in [Ids -> Value \cup {Absent}]
      BY <2>1, FromAnyType, NoVarsType
    <3>2. <<"FOR", Top.stmt.id>> \in ScopeName
      BY <2>1 DEF ScopeName
    <3>3. [name |-> <<"FOR", Top.stmt.id>>,
           vars |-> [NoVars EXCEPT ![Top.stmt.id] = start]] \in Scope
      BY <3>1, <3>2 DEF Scope
    <3>4. QED
      BY <1>2, <2>1, <2>4, <3>3 DEF PushScope
  <2>5. QED
    BY <2>2, <2>3, <2>4
<1>10. CASE EndCall
  <2>1. CASE Throw
    BY <1>1, <2>1 DEF Throw, Stop, contextVars
  <2>2. CASE PopScope(Top.mod)
    <3>1. frames \in Seq(Frame) /\ Top \in Frame /\ Top.k = "fn" /\ Len(frames) \in Nat \ {0}
      BY <1>10, TopParts DEF EndCall
    <3>2. Top.mod \in Packages /\ Len(frames) \in Own(frames)
      BY <3>1, FnParts DEF Own, Owns, Top
    <3>3. Top.at \in (Floor(Top.mod) + 1) .. Len(scopes[Top.mod])
      BY <3>2 DEF IInv, Discipline, Top
    <3>4. scopes[Top.mod] # <<>>
      BY <3>2, <3>3, FloorType
    <3>5. QED
      BY <1>3, <2>2, <3>2, <3>4 DEF PopScope
  <2>3. QED
    BY <1>10, <2>1, <2>2 DEF EndCall
<1>11. CASE EndFor
  <2>1. module = Root /\ Root \in Packages /\ Top.at \in 1 .. Len(scopes[Root])
    BY <1>11, LoopParts DEF EndFor
  <2>2. scopes[Root] # <<>>
    BY <2>1
  <2>3. QED
    BY <1>3, <1>11, <2>1, <2>2 DEF EndFor, PopScope
<1>12. CASE Assign
  <2>1. Top.stmt.name \in QName /\ Top.vals[1] \in Result
    <3>1. /\ Top.stmt \in Statement /\ Top.stmt.op = "assign"
          /\ Top.vals \in Seq(Result) /\ Len(Top.vals) = Len(Top.stmt.exprs)
      BY <1>12, FinishingParts DEF Assign
    <3>2. Top.stmt.name \in QName /\ Len(Top.stmt.exprs) = 1
      BY <3>1, StatementParts
    <3>3. QED
      BY <3>1, <3>2
  <2>2. PICK v \in FromAny(Top.vals[1]) : Throw \/ Store(Top.stmt.name, v)
    BY <1>12 DEF Assign
  <2>3. CASE Throw
    BY <1>1, <2>3 DEF Throw, Stop, contextVars
  <2>4. CASE Store(Top.stmt.name, v)
    BY <2>1, <2>4, FromAnyType, StoreShields
  <2>5. QED
    BY <2>2, <2>3, <2>4
<1>13. CASE CopyVariable
  <2>1. Top.stmt.name \in QName /\ Top.stmt.from \in QName
    BY <1>13, FinishingParts, StatementParts DEF CopyVariable
  <2>2. PICK v \in Value \cup {Absent} : v = Var(Top.stmt.from)
    BY <2>1, <1>0, VarType
  <2>3. CASE scopes' = scopes
    BY <1>1, <2>3
  <2>4. CASE v \notin {Mistyped, Absent} /\ Store(Top.stmt.name, v)
    BY <2>1, <2>4, StoreShields
  <2>5. QED
    BY <1>13, <2>2, <2>3, <2>4 DEF CopyVariable, Throw, Stop, contextVars
<1>14. CASE ForBody
  BY <1>14, ForBodyShields
<1>15. QED
  BY <1>4, <1>5, <1>6, <1>7, <1>8, <1>9, <1>10, <1>11, <1>12, <1>13, <1>14 DEF Next, Run

\* A variable stays as it is while one of the same name in an inner scope of
\* its module hides it, whatever is assigned, called or looped over meanwhile.
THEOREM HiddenStay == Spec => HiddenVariablesKept
<1>1. IInv /\ [Next]_vars => [Shielded]_vars
  BY StepsShield
<1>2. HiddenVariablesKept <=> [][Shielded]_vars
  BY PTL DEF HiddenVariablesKept, Shielded
<1>3. QED
  BY <1>1, <1>2, Always, PTL DEF Spec

-----------------------------------------------------------------------------
(* RETURN: the flag return_ and what is left of the native stack *)

\* The lists of quiet hold no RETURN, nor do those they contain; the top level
\* and the bodies of loops are quiet.
Quiet(t, quiet) ==
  /\ \A i \in DOMAIN t.main : t.main[i].op = "statement" =>
       t.main[i].stmt.op # "return" /\ Lists(t.main[i].stmt) \subseteq quiet
  /\ \A b \in Blocks : \A i \in DOMAIN t.code[b] :
       LET s == t.code[b][i]
       IN /\ s.op = "for" => s.body \in quiet
          /\ b \in quiet => s.op # "return" /\ Lists(s) \subseteq quiet

\* A list in which a RETURN may be executed.
Loud(quiet, f) == f.k = "statements" /\ f.blk \notin quiet

\* f called g: what may return is executed only for a function's body or for
\* another such list, and a list is left after a statement was begun.
Link(quiet, f, g) ==
  /\ f.k = "statements" => f.pos >= 1
  /\ g.k = "for" => g.body \in quiet
  /\ g.k = "stmt" =>
       /\ f.k \in {"main", "statements"}
       /\ g.stmt.op = "for" => g.stmt.body \in quiet
       /\ g.stmt.op = "return" \/ ~(Lists(g.stmt) \subseteq quiet) => Loud(quiet, f)
  /\ Loud(quiet, g) => f.k = "fn" \/ Loud(quiet, f)
Linked(quiet, fr) == \A i \in 2 .. Len(fr) : Link(quiet, fr[i - 1], fr[i])

\* A call ends: above it are only lists that have begun a statement.
Unwinding(fr) ==
  \E i \in 1 .. Len(fr) :
    /\ fr[i].k = "fn"
    /\ \A j \in (i + 1) .. Len(fr) : fr[j].k = "statements" /\ fr[j].pos >= 1

AllLinked == \A quiet \in SUBSET Blocks : Quiet(Tree, quiet) => Linked(quiet, frames)
Returning == return_ /\ Structured(Tree) => Unwinding(frames)
RInv == AllLinked /\ Returning /\ (phase = "load" => ~return_)

LEMMA StructuredIsQuiet ==
  ASSUME NEW t
  PROVE  Structured(t) <=> \E quiet \in SUBSET Blocks : Quiet(t, quiet)
BY DEF Structured, Quiet

-----------------------------------------------------------------------------
(* The links of a stack that grows and shrinks *)

LEMMA PushLinked ==
  ASSUME NEW quiet, NEW fr \in Seq(Frame), fr # <<>>, Linked(quiet, fr),
         NEW g, Link(quiet, fr[Len(fr)], g)
  PROVE  Linked(quiet, Append(fr, g))
<1>1. PICK n \in Nat \ {0} : n = Len(fr)
  OBVIOUS
<1> DEFINE h == Append(fr, g)
<1>2. Len(h) = n + 1 /\ h[n + 1] = g /\ \A i \in 1 .. n : h[i] = fr[i]
  BY <1>1
<1> HIDE DEF h
<1>3. SUFFICES ASSUME NEW i \in 2 .. n + 1 PROVE Link(quiet, h[i - 1], h[i])
  BY <1>2 DEF Linked, h
<1>4. CASE i = n + 1
  <2>1. h[i - 1] = fr[n] /\ h[i] = g
    BY <1>2, <1>4
  <2>2. QED
    BY <1>1, <2>1
<1>5. CASE i # n + 1
  <2>1. i \in 2 .. n /\ h[i - 1] = fr[i - 1] /\ h[i] = fr[i]
    BY <1>2, <1>5
  <2>2. QED
    BY <1>1, <2>1 DEF Linked
<1>6. QED
  BY <1>4, <1>5

LEMMA ReplaceLinked ==
  ASSUME NEW quiet, NEW fr \in Seq(Frame), fr # <<>>, Linked(quiet, fr),
         NEW g, Len(fr) > 1 => Link(quiet, fr[Len(fr) - 1], g)
  PROVE  Linked(quiet, [fr EXCEPT ![Len(fr)] = g])
<1>1. PICK n \in Nat \ {0} : n = Len(fr)
  OBVIOUS
<1> DEFINE h == [fr EXCEPT ![Len(fr)] = g]
<1>2. Len(h) = n /\ h[n] = g /\ \A i \in 1 .. n : i # n => h[i] = fr[i]
  BY <1>1
<1> HIDE DEF h
<1>3. SUFFICES ASSUME NEW i \in 2 .. n PROVE Link(quiet, h[i - 1], h[i])
  BY <1>2 DEF Linked, h
<1>4. h[i - 1] = fr[i - 1]
  BY <1>2
<1>5. CASE i = n
  BY <1>1, <1>2, <1>4, <1>5
<1>6. CASE i # n
  BY <1>1, <1>2, <1>4, <1>6 DEF Linked
<1>7. QED
  BY <1>5, <1>6

LEMMA FrontLinked ==
  ASSUME NEW quiet, NEW fr \in Seq(Frame), fr # <<>>, Linked(quiet, fr)
  PROVE  Linked(quiet, Front(fr))
<1>1. PICK n \in Nat \ {0} : n = Len(fr)
  OBVIOUS
<1> DEFINE h == Front(fr)
<1>2. Len(h) = n - 1 /\ \A i \in 1 .. n - 1 : h[i] = fr[i]
  BY <1>1 DEF Front
<1> HIDE DEF h
<1>3. SUFFICES ASSUME NEW i \in 2 .. n - 1 PROVE Link(quiet, h[i - 1], h[i])
  BY <1>2 DEF Linked, h
<1>4. h[i - 1] = fr[i - 1] /\ h[i] = fr[i]
  BY <1>2
<1>5. QED
  BY <1>1, <1>4 DEF Linked

\* A frame that stands where f stood is called by whom f was called.
Stands(g, f) ==
  /\ g.k = f.k
  /\ g.k = "for" => g.body = f.body
  /\ g.k = "stmt" => g.stmt = f.stmt
  /\ g.k = "statements" => g.blk = f.blk

LEMMA StandsLinked ==
  ASSUME NEW quiet, NEW e, NEW f, NEW g, Link(quiet, e, f), Stands(g, f)
  PROVE  Link(quiet, e, g)
BY DEF Link, Stands, Loud

LEMMA SteppedLinked ==
  ASSUME NEW quiet, NEW fr \in Seq(Frame), fr # <<>>, Linked(quiet, fr),
         NEW f \in Frame, Stands(f, fr[Len(fr)]), NEW g, Link(quiet, f, g)
  PROVE  Linked(quiet, Append([fr EXCEPT ![Len(fr)] = f], g))
<1> DEFINE h == [fr EXCEPT ![Len(fr)] = f]
<1>1. h \in Seq(Frame) /\ Len(h) = Len(fr) /\ h # <<>> /\ h[Len(h)] = f
  OBVIOUS
<1>2. Linked(quiet, h)
  <2>1. Len(fr) > 1 => Link(quiet, fr[Len(fr) - 1], fr[Len(fr)])
    BY DEF Linked
  <2>2. Len(fr) > 1 => Link(quiet, fr[Len(fr) - 1], f)
    BY <2>1, StandsLinked
  <2>3. QED
    BY <2>2, ReplaceLinked
<1> HIDE DEF h
<1>3. Linked(quiet, Append(h, g))
  BY <1>1, <1>2, PushLinked
<1>4. QED
  BY <1>3 DEF h

LEMMA ReturnedLinked ==
  ASSUME NEW quiet, NEW fr \in Seq(Frame), Len(fr) > 1, Linked(quiet, fr),
         NEW g, Stands(g, fr[Len(fr) - 1])
  PROVE  Linked(quiet, [Front(fr) EXCEPT ![Len(fr) - 1] = g])
<1> DEFINE h == Front(fr)
<1>1. PICK n \in Nat \ {0} : n = Len(fr) - 1
  OBVIOUS
<1>2. h \in Seq(Frame) /\ Len(h) = n /\ h # <<>> /\ \A i \in 1 .. n : h[i] = fr[i]
  BY <1>1, SubSeqProperties, SMTT(30) DEF Front
<1>3. Linked(quiet, h)
  BY FrontLinked
<1> HIDE DEF h
<1>4. n > 1 => Link(quiet, h[n - 1], g)
  <2>1. n > 1 => Link(quiet, h[n - 1], h[n])
    BY <1>1, <1>2, <1>3 DEF Linked
  <2>2. h[n] = fr[n]
    BY <1>2
  <2>3. QED
    BY <1>1, <2>1, <2>2, StandsLinked
<1>5. Linked(quiet, [h EXCEPT ![Len(h)] = g])
  BY <1>2, <1>3, <1>4, ReplaceLinked
<1>6. QED
  BY <1>1, <1>2, <1>5 DEF h

-----------------------------------------------------------------------------
(* Who has called the frame on top *)

LEMMA TopLinked ==
  ASSUME IInv, AllLinked, NEW kind, AtTop(kind), kind # "main"
  PROVE  \A quiet \in SUBSET Blocks : Quiet(Tree, quiet) => Link(quiet, Below, Top)
<1>1. frames \in Seq(Frame) /\ Len(frames) > 1 /\ Len(frames) \in Nat
  BY TopParts
<1>2. QED
  BY <1>1 DEF AllLinked, Linked, Below, Top

\* A RETURN's caller is a function, but for lists in between that were begun.
LEMMA ReturnReachesCall ==
  ASSUME NEW fr \in Seq(Frame), Stack(fr), Len(fr) > 1, NEW quiet, Linked(quiet, fr),
         Loud(quiet, fr[Len(fr) - 1])
  PROVE  Unwinding(Front(fr))
<1>1. PICK n \in Nat \ {0} : n = Len(fr) - 1
  OBVIOUS
<1> DEFINE L == {i \in 1 .. n : ~Loud(quiet, fr[i])}
<1>2. 1 \in L
  BY <1>1 DEF Stack, Loud
<1>3. PICK m \in L : \A i \in L : i <= m
  <2>1. L \in SUBSET (1 .. n) /\ L # {}
    BY <1>2
  <2> HIDE DEF L
  <2>2. QED
    BY <2>1, MaxInSet
<1>4. m \in 1 .. n - 1 /\ Loud(quiet, fr[m + 1]) /\ ~Loud(quiet, fr[m])
  <2>1. m \in 1 .. n /\ ~Loud(quiet, fr[m]) /\ m # n
    BY <1>1
  <2>2. m + 1 \in 1 .. n /\ m + 1 \notin L
    BY <1>3, <2>1
  <2>3. QED
    BY <2>1, <2>2
<1>5. fr[m].k = "fn"
  <2>1. m + 1 \in 2 .. Len(fr) /\ (m + 1) - 1 = m
    BY <1>1, <1>4
  <2>2. Link(quiet, fr[m], fr[m + 1])
    BY <2>1 DEF Linked
  <2>3. QED
    BY <1>4, <2>2 DEF Link
<1>6. \A j \in m + 1 .. n : Loud(quiet, fr[j]) /\ fr[j].pos >= 1
  <2> SUFFICES ASSUME NEW j \in m + 1 .. n PROVE Loud(quiet, fr[j]) /\ fr[j].pos >= 1
    OBVIOUS
  <2>1. j \in 1 .. n /\ j \notin L
    BY <1>3, <1>4
  <2>2. Link(quiet, fr[j], fr[j + 1])
    BY <1>1, <2>1 DEF Linked
  <2>3. QED
    BY <2>1, <2>2 DEF Link, Loud
<1>7. Len(Front(fr)) = n /\ \A i \in 1 .. n : Front(fr)[i] = fr[i]
  BY <1>1 DEF Front
<1>8. QED
  BY <1>4, <1>5, <1>6, <1>7 DEF Unwinding, Loud

-----------------------------------------------------------------------------
(* Every step keeps the links *)

LEMMA KeepLinked ==
  ASSUME AllLinked, program' = program,
         \A quiet \in SUBSET Blocks :
           Quiet(Tree, quiet) /\ Linked(quiet, frames) => Linked(quiet, frames')
  PROVE  AllLinked'
BY DEF AllLinked, Tree

LEMMA SameLinked ==
  ASSUME AllLinked, UNCHANGED <<program, frames>>
  PROVE  AllLinked'
BY DEF AllLinked, Tree

LEMMA StopLinked ==
  ASSUME AllLinked, Throw \/ Undefine
  PROVE  AllLinked' /\ UNCHANGED <<frames, return_>> /\ phase' # "run" /\ phase' # "load"
BY SameLinked DEF Throw, Undefine, Stop

\* The lists that a loop and an IF contain.
LEMMA ListsOf ==
  \A s \in Statement :
    /\ s.op = "for" => Lists(s) = {s.body}
    /\ s.op = "if" => /\ \A i \in 1 .. Len(s.thens) : s.thens[i] \in Lists(s)
                      /\ s.else # NoBlock => s.else \in Lists(s)
<1> SUFFICES ASSUME NEW s \in Statement
    PROVE /\ s.op = "for" => Lists(s) = {s.body}
          /\ s.op = "if" => /\ \A i \in 1 .. Len(s.thens) : s.thens[i] \in Lists(s)
                            /\ s.else # NoBlock => s.else \in Lists(s)
  OBVIOUS
<1>1. CASE s.op = "for"
  BY <1>1 DEF Lists
<1>2. CASE s.op = "if"
  <2>1. s.thens \in Seq(Blocks) /\ s.else \in Blocks \cup {NoBlock}
    BY <1>2, StatementParts
  <2>2. Lists(s) = Range(s.thens) \cup ({s.else} \cap Blocks)
    BY <1>2 DEF Lists
  <2>3. \A i \in 1 .. Len(s.thens) : s.thens[i] \in Range(s.thens)
    BY <2>1 DEF Range
  <2>4. QED
    BY <1>2, <2>1, <2>2, <2>3
<1>3. QED
  BY <1>1, <1>2

LEMMA LoadLinked ==
  ASSUME IInv, AllLinked, Load
  PROVE  AllLinked' /\ return_' = return_
<1>1. /\ frames \in Seq(Frame) /\ Len(frames) = 1
  BY DEF Load, LoadDefinition, LoadModule, LoadOther, Execute, Loading, IInv, TypeOK, StackOK
<1>2. CASE Undefine
  BY <1>2, StopLinked
<1>3. CASE Loaded
  <2>1. /\ frames' = [frames EXCEPT ![Len(frames)] = Main(Top.pos + 1)]
        /\ UNCHANGED <<program, return_>>
    BY <1>3 DEF Loaded, Replace
  <2>2. Len(frames') = 1
    BY <1>1, <2>1
  <2>3. QED
    BY <2>1, <2>2, KeepLinked DEF Linked
<1>4. CASE Execute
  <2>1. Len(frames') = 1 /\ UNCHANGED <<program, return_>>
    BY <1>4 DEF Execute
  <2>2. QED
    BY <2>1, KeepLinked DEF Linked
<1>5. QED
  BY <1>2, <1>3, <1>4 DEF Load, LoadDefinition, LoadModule, LoadOther

\* What a list or the top level begins.
LEMMA VisitItemLinked ==
  ASSUME IInv, AllLinked, VisitItem
  PROVE  AllLinked'
<1> DEFINE item == Tree.main[Top.pos + 1]
           m == Main(Top.pos + 1)
<1>1. /\ frames \in Seq(Frame) /\ frames # <<>> /\ Top.k = "main" /\ Top.pos \in Nat
      /\ Tree.main \in Seq(Item) /\ Top.pos + 1 \in DOMAIN Tree.main
  BY TopParts, MainParts, TreeParts DEF VisitItem
<1>2. m \in Frame /\ m.k = "main" /\ program' = program
  BY <1>1, Frames DEF Main, VisitItem, Rest
<1>3. Stands(m, Top)
  BY <1>1, <1>2 DEF Stands
<1>4. CASE item.op = "statement"
  <2> DEFINE g == Stmt(item.stmt, <<>>)
  <2>1. frames' = Append([frames EXCEPT ![Len(frames)] = m], g)
    BY <1>4 DEF VisitItem, Step
  <2>2. item.stmt \in Statement
    BY <1>1, <1>4, Items
  <2>3. g.k = "stmt" /\ g.stmt = item.stmt
    BY DEF Stmt
  <2> HIDE DEF m, g
  <2>4. ASSUME NEW quiet \in SUBSET Blocks, Quiet(Tree, quiet), Linked(quiet, frames)
        PROVE  Linked(quiet, frames')
    <3>1. item.stmt.op # "return" /\ Lists(item.stmt) \subseteq quiet
      BY <1>1, <1>4, <2>4 DEF Quiet
    <3> HIDE DEF item
    <3>2. item.stmt.op = "for" => item.stmt.body \in quiet
      BY <2>2, <3>1, ListsOf
    <3>3. Link(quiet, m, g)
      BY <1>2, <2>3, <3>1, <3>2 DEF Link, Loud
    <3>4. QED
      BY <1>1, <1>2, <1>3, <2>1, <2>4, <3>3, SteppedLinked DEF Top
  <2>5. QED
    BY <1>2, <2>4, KeepLinked
<1>5. CASE item.op # "statement"
  <2>1. frames' = [frames EXCEPT ![Len(frames)] = m]
    BY <1>5 DEF VisitItem, Replace
  <2> HIDE DEF m
  <2>2. ASSUME NEW quiet \in SUBSET Blocks, Quiet(Tree, quiet), Linked(quiet, frames)
        PROVE  Linked(quiet, frames')
    <3>1. Len(frames) > 1 => Link(quiet, frames[Len(frames) - 1], Top)
      BY <1>1, <2>2 DEF Linked, Top
    <3>2. Len(frames) > 1 => Link(quiet, frames[Len(frames) - 1], m)
      BY <3>1, <1>3, StandsLinked
    <3>3. QED
      BY <1>1, <2>1, <2>2, <3>2, ReplaceLinked
  <2>3. QED
    BY <1>2, <2>2, KeepLinked
<1>6. QED
  BY <1>4, <1>5

LEMMA VisitStatementLinked ==
  ASSUME IInv, AllLinked, VisitStatement
  PROVE  AllLinked'
<1> DEFINE b == Top.blk
           s == Tree.code[Top.blk][Top.pos + 1]
           f == Statements(Top.blk, Top.pos + 1)
           g == Stmt(s, <<>>)
<1>1. /\ frames \in Seq(Frame) /\ frames # <<>> /\ Top.k = "statements" /\ b \in Blocks
      /\ Top.pos \in Nat /\ Tree.code[b] \in Seq(Statement)
      /\ Top.pos + 1 \in DOMAIN Tree.code[b]
  BY TopParts, ListParts, TreeParts DEF VisitStatement, GoesOn
<1>2. f \in Frame /\ f.k = "statements" /\ f.blk = b /\ f.pos >= 1 /\ program' = program
  BY <1>1, Frames DEF Statements, VisitStatement, Rest
<1>3. Stands(f, Top)
  BY <1>1, <1>2 DEF Stands
<1>4. frames' = Append([frames EXCEPT ![Len(frames)] = f], g)
  BY DEF VisitStatement, Step
<1>5. g.k = "stmt" /\ g.stmt = s
  BY DEF Stmt
<1> HIDE DEF f, g
<1>6. ASSUME NEW quiet \in SUBSET Blocks, Quiet(Tree, quiet), Linked(quiet, frames)
      PROVE  Linked(quiet, frames')
  <2>1. /\ s.op = "for" => s.body \in quiet
        /\ b \in quiet => s.op # "return" /\ Lists(s) \subseteq quiet
    BY <1>1, <1>6 DEF Quiet
  <2> HIDE DEF s, b
  <2>2. Link(quiet, f, g)
    BY <1>2, <1>5, <2>1 DEF Link, Loud
  <2>3. QED
    BY <1>1, <1>2, <1>3, <1>4, <1>6, <2>2, SteppedLinked DEF Top
<1>7. QED
  BY <1>2, <1>6, KeepLinked

\* A frame returns.
LEMMA ReturnLinked ==
  ASSUME IInv, AllLinked, NEW a, Return(a), program' = program
  PROVE  AllLinked'
<1>1. frames \in Seq(Frame) /\ frames # <<>> /\ frames' = Front(frames)
  BY DEF IInv, TypeOK, StackOK, Stack, Return
<1>2. QED
  BY <1>1, FrontLinked, KeepLinked

LEMMA ReturnToLinked ==
  ASSUME IInv, AllLinked, NEW kind, AtTop(kind), kind # "main",
         NEW g, ReturnTo(g), Stands(g, Below), program' = program
  PROVE  AllLinked'
<1>1. frames \in Seq(Frame) /\ Len(frames) > 1
  BY TopParts
<1>2. frames' = [Front(frames) EXCEPT ![Len(frames) - 1] = g]
  BY DEF ReturnTo
<1>3. QED
  BY <1>1, <1>2, ReturnedLinked, KeepLinked DEF Below

\* The top frame becomes g.
LEMMA BecomesLinked ==
  ASSUME IInv, AllLinked, NEW kind, AtTop(kind), kind # "main",
         NEW g, Replace(g), program' = program,
         \A quiet \in SUBSET Blocks : Link(quiet, Below, Top) => Link(quiet, Below, g)
  PROVE  AllLinked'
<1>1. frames \in Seq(Frame) /\ frames # <<>> /\ Len(frames) > 1 /\ Len(frames) \in Nat
  BY TopParts
<1>2. frames' = [frames EXCEPT ![Len(frames)] = g]
  BY DEF Replace
<1>3. ASSUME NEW quiet \in SUBSET Blocks, Linked(quiet, frames)
      PROVE  Linked(quiet, frames')
  <2>1. Link(quiet, Below, Top)
    BY <1>1, <1>3 DEF Linked, Below, Top
  <2>2. Link(quiet, frames[Len(frames) - 1], g)
    BY <2>1 DEF Below
  <2>3. QED
    BY <1>1, <1>2, <1>3, <2>2, ReplaceLinked
<1>4. QED
  BY <1>3, KeepLinked

LEMMA ExprLinked ==
  ASSUME IInv, AllLinked, BeginExpr \/ EndExpr
  PROVE  AllLinked'
<1>1. CASE BeginExpr
  <2>1. frames \in Seq(Frame) /\ frames # <<>> /\ Top.k = "stmt" /\ program' = program
    BY <1>1, TopParts DEF BeginExpr, Rest
  <2>2. PICK g : g.k = "expr" /\ frames' = Append(frames, g)
    BY <1>1 DEF BeginExpr, Push, Expr
  <2>3. \A quiet : Link(quiet, Top, g)
    BY <2>1, <2>2 DEF Link, Loud
  <2>4. QED
    BY <2>1, <2>2, <2>3, PushLinked, KeepLinked DEF Top
<1>2. CASE EndExpr
  <2>1. AtTop("expr") /\ Below.k = "stmt" /\ program' = program
    BY <1>2, TopParts DEF EndExpr, Rest, Waits
  <2>2. PICK g : ReturnTo(g) /\ g.k = "stmt" /\ g.stmt = Below.stmt
    BY <1>2 DEF EndExpr, Stmt
  <2>3. Stands(g, Below)
    BY <2>1, <2>2 DEF Stands
  <2>4. QED
    BY <2>1, <2>2, <2>3, ReturnToLinked
<1>3. QED
  BY <1>1, <1>2

\* A node's value.
LEMMA YieldsLinked ==
  ASSUME IInv, AllLinked, AtTop("expr"), NEW a, Yields(a)
  PROVE  AllLinked'
<1> DEFINE g == Valued(Top, a)
<1>1. g.k = "expr" /\ Top.k = "expr"
  BY DEF Valued, Expr, AtTop
<1>2. Stands(g, Top)
  BY <1>1 DEF Stands
<1>3. Replace(g) /\ program' = program
  BY DEF Yields, Rest
<1> HIDE DEF g
<1>4. QED
  BY <1>2, <1>3, StandsLinked, BecomesLinked

LEMMA ComesLinked ==
  ASSUME IInv, AllLinked, AtTop("expr"), NEW v, NEW flag, ComesTo(v, flag)
  PROVE  AllLinked' /\ (return_' = return_ \/ return_' = flag)
BY StopLinked, YieldsLinked DEF ComesTo

LEMMA VisitLinked ==
  ASSUME IInv, AllLinked,
         VisitLiteral \/ VisitParens \/ VisitVariable \/ VisitBinary \/ CallFails \/ CallNative
  PROVE  AllLinked' /\ (return_' = return_ \/ return_' = FALSE)
<1>0. AtTop("expr")
  BY DEF VisitLiteral, VisitParens, VisitVariable, VisitBinary, CallFails, CallNative, Visiting
<1>1. CASE VisitLiteral
  BY <1>0, <1>1, YieldsLinked DEF VisitLiteral
<1>2. CASE VisitParens
  BY <1>0, <1>2, YieldsLinked DEF VisitParens
<1>3. CASE VisitVariable
  <2>1. Throw \/ \E a : Yields(a) /\ return_' = return_
    BY <1>3 DEF VisitVariable
  <2>2. QED
    BY <1>0, <2>1, YieldsLinked, StopLinked
<1>4. CASE VisitBinary
  <2>1. \E v : ComesTo(v, return_)
    BY <1>4 DEF VisitBinary
  <2>2. QED
    BY <1>0, <2>1, ComesLinked
<1>5. CASE CallFails
  BY <1>0, <1>5, YieldsLinked DEF CallFails
<1>6. CASE CallNative
  <2>1. \E v : ComesTo(v, FALSE)
    BY <1>6 DEF CallNative
  <2>2. QED
    BY <1>0, <2>1, ComesLinked
<1>7. QED
  BY <1>1, <1>2, <1>3, <1>4, <1>5, <1>6

LEMMA CallBasicLinked ==
  ASSUME IInv, AllLinked, CallBasic
  PROVE  AllLinked' /\ return_' = return_
<1>1. CASE Throw
  BY <1>1, StopLinked
<1>2. CASE ~Throw
  <2> DEFINE g == Fn(Callee(Visit.name), Visit.name.id, Len(scopes[Callee(Visit.name)]) + 1)
             b == Statements(Resolve(Visit.name).body, 0)
  <2>1. /\ g.k = "fn" /\ b.k = "statements"
        /\ frames' = frames \o <<g, b>>
        /\ return_' = return_ /\ program' = program
    <3>1. g.k = "fn" /\ b.k = "statements"
      BY DEF Fn, Statements
    <3>2. frames' = frames \o <<g, b>> /\ return_' = return_ /\ Rest
      BY <1>2 DEF CallBasic
    <3>3. QED
      BY <3>1, <3>2 DEF Rest
  <2>2. /\ frames \in Seq(Frame) /\ frames # <<>> /\ Top.k = "expr"
        /\ Visit.name \in QName /\ scopes \in [Packages -> Seq(Scope)]
    BY TopParts, VisitingParts, Untouched DEF CallBasic
  <2>3. g \in Frame
    <3>1. Callee(Visit.name) \in Packages /\ Visit.name.id \in Ids
      BY <2>2, ResolveType, Untouched DEF QName
    <3>2. Len(scopes[Callee(Visit.name)]) + 1 \in Nat
      BY <2>2, <3>1
    <3>3. QED
      BY <3>1, <3>2, Frames, Zenon
  <2> HIDE DEF g, b
  <2>4. frames' = Append(Append(frames, g), b)
    <3>1. \A fr \in Seq(Frame) : fr \o <<g, b>> = Append(Append(fr, g), b)
      OBVIOUS
    <3>2. QED
      BY <2>1, <2>2, <3>1
  <2>5. PICK h \in Seq(Frame) : h = Append(frames, g) /\ h # <<>> /\ h[Len(h)] = g
    <3>1. \A fr \in Seq(Frame) : LET h == Append(fr, g)
                                 IN h \in Seq(Frame) /\ h # <<>> /\ h[Len(h)] = g
      BY <2>3
    <3>2. QED
      BY <2>2, <3>1
  <2>6. ASSUME NEW quiet, Linked(quiet, frames) PROVE Linked(quiet, frames')
    <3>1. Link(quiet, Top, g) /\ Link(quiet, g, b)
      BY <2>1, <2>2 DEF Link, Loud
    <3>2. Linked(quiet, h)
      BY <2>2, <2>5, <2>6, <3>1, PushLinked DEF Top
    <3>3. QED
      BY <2>4, <2>5, <3>1, <3>2, PushLinked
  <2>7. QED
    BY <2>1, <2>6, KeepLinked
<1>3. QED
  BY <1>1, <1>2

LEMMA EndCallLinked ==
  ASSUME IInv, AllLinked, EndCall
  PROVE  AllLinked' /\ (Throw \/ return_' = FALSE)
<1>1. AtTop("fn") /\ Below.k = "expr"
  BY TopParts DEF EndCall, Waits
<1>2. CASE Throw
  BY <1>2, StopLinked
<1>3. CASE ~Throw
  <2>1. PICK a : ReturnTo(Valued(Below, a)) /\ return_' = FALSE /\ program' = program
    BY <1>3 DEF EndCall, Rest
  <2>2. Stands(Valued(Below, a), Below)
    BY <1>1 DEF Stands, Valued, Expr
  <2>3. QED
    BY <1>1, <2>1, <2>2, ReturnToLinked
<1>4. QED
  BY <1>2, <1>3

LEMMA StoreLinked ==
  ASSUME IInv, AllLinked, NEW q, NEW v, Store(q, v)
  PROVE  AllLinked' /\ return_' = return_
<1>1. CASE UpsertDefined(q)
  BY <1>1, ReturnLinked DEF Store, Rest
<1>2. CASE ~UpsertDefined(q)
  BY <1>2, StopLinked DEF Store
<1>3. QED
  BY <1>1, <1>2

LEMMA StatementLinked ==
  ASSUME IInv, AllLinked, Assign \/ CopyVariable \/ CallStatement
  PROVE  AllLinked' /\ return_' = return_
<1>1. CASE Assign
  BY <1>1, StoreLinked, StopLinked DEF Assign
<1>2. CASE CopyVariable
  <2>1. \/ Throw
        \/ Return(Empty) /\ return_' = return_ /\ program' = program
        \/ \E q, v : Store(q, v)
    BY <1>2 DEF CopyVariable, Rest
  <2>2. QED
    BY <2>1, StoreLinked, StopLinked, ReturnLinked
<1>3. CASE CallStatement
  BY <1>3, ReturnLinked DEF CallStatement, Rest
<1>4. QED
  BY <1>1, <1>2, <1>3

\* The statement has been a RETURN, so it stood in a list that may return, that one
\* in another or in a function's body.
LEMMA ReturnStatementLinked ==
  ASSUME IInv, AllLinked, ReturnStatement
  PROVE  AllLinked' /\ (Throw \/ (Structured(Tree) => Unwinding(frames')))
<1>1. CASE Throw
  BY <1>1, StopLinked
<1>2. CASE ~Throw
  <2>1. PICK a : Return(a) /\ program' = program
    BY <1>2 DEF ReturnStatement, Rest
  <2>2. frames' = Front(frames)
    BY <2>1 DEF Return
  <2>3. ASSUME NEW quiet \in SUBSET Blocks, Quiet(Tree, quiet)
        PROVE  Unwinding(frames')
    <3>1. /\ frames \in Seq(Frame) /\ Stack(frames) /\ Len(frames) > 1
          /\ AtTop("stmt") /\ Top.k = "stmt" /\ Top.stmt.op = "return"
      BY TopParts DEF ReturnStatement, Finishing
    <3>2. Link(quiet, Below, Top)
      BY <2>3, <3>1, TopLinked
    <3>3. Loud(quiet, frames[Len(frames) - 1])
      BY <3>1, <3>2 DEF Link, Below
    <3>4. Linked(quiet, frames)
      BY <2>3 DEF AllLinked
    <3>5. QED
      BY <2>2, <3>1, <3>3, <3>4, ReturnReachesCall
  <2>4. QED
    BY <2>1, <2>3, ReturnLinked, StructuredIsQuiet
<1>3. QED
  BY <1>1, <1>2

LEMMA IfLinked ==
  ASSUME IInv, AllLinked, IfStatement
  PROVE  AllLinked' /\ return_' = return_
<1> DEFINE s == Top.stmt
<1>1. /\ AtTop("stmt") /\ Top.k = "stmt" /\ s \in Statement /\ s.op = "if"
      /\ Len(Top.vals) \in Nat /\ Len(Top.vals) <= Len(s.exprs) /\ Len(s.thens) = Len(s.exprs)
  BY FinishingParts, StatementParts DEF IfStatement
<1>2. CASE Throw
  BY <1>2, StopLinked
<1>3. ASSUME NEW b \in Lists(s), Replace(Statements(b, 0)), program' = program
      PROVE  AllLinked'
  <2>0. Statements(b, 0).k = "statements" /\ Statements(b, 0).blk = b
    BY DEF Statements
  <2>1. PICK g : g = Statements(b, 0) /\ g.k = "statements" /\ g.blk = b
    BY <2>0
  <2> HIDE DEF s
  <2>2. \A quiet \in SUBSET Blocks : Link(quiet, Below, Top) => Link(quiet, Below, g)
    BY <1>1, <1>3, <2>1 DEF Link, Loud, s
  <2>3. QED
    BY <1>1, <1>3, <2>1, <2>2, BecomesLinked
<1>4. CASE /\ Last(Top.vals) = Bool(TRUE)
           /\ Replace(Statements(s.thens[Len(Top.vals)], 0))
           /\ UNCHANGED <<scopes, imported, result, return_>> /\ Rest
  <2>1. Len(Top.vals) # 0
    <3> SUFFICES ASSUME Len(Top.vals) = 0 PROVE FALSE
      OBVIOUS
    <3>1. Top.vals \in Seq(Result) /\ s.exprs # <<>> /\ s.exprs \in Seq(Code) /\ ~WantsExpr(Top)
      BY <1>1, FinishingParts, StatementParts DEF IfStatement, Finishing
    <3>2. Len(Top.vals) < Len(Top.stmt.exprs) /\ DOMAIN Top.vals = {}
      BY <3>1
    <3>3. QED
      BY <3>1, <3>2, Zenon DEF WantsExpr
  <2>2. s.thens[Len(Top.vals)] \in Lists(s)
    BY <1>1, <2>1, ListsOf
  <2>3. program' = program /\ return_' = return_
    BY <1>4 DEF Rest
  <2>4. QED
    BY <1>3, <1>4, <2>2, <2>3
<1>5. CASE /\ Last(Top.vals) = Bool(FALSE)
           /\ IF s.else # NoBlock
              THEN Replace(Statements(s.else, 0)) /\ UNCHANGED result
              ELSE Return(Empty)
           /\ UNCHANGED <<scopes, imported, return_>> /\ Rest
  <2>1. program' = program /\ return_' = return_
    BY <1>5 DEF Rest
  <2>2. CASE s.else # NoBlock
    BY <1>1, <1>3, <1>5, <2>1, <2>2, ListsOf
  <2>3. CASE s.else = NoBlock
    BY <1>5, <2>1, <2>3, ReturnLinked
  <2>4. QED
    BY <2>1, <2>2, <2>3
<1>6. QED
  BY <1>2, <1>4, <1>5, StopLinked DEF IfStatement

LEMMA EnterForLinked ==
  ASSUME IInv, AllLinked, EnterFor
  PROVE  AllLinked' /\ return_' = return_
<1>1. AtTop("stmt") /\ Top.k = "stmt" /\ Top.stmt.op = "for"
  BY FinishingParts DEF EnterFor
<1>2. CASE Throw
  BY <1>2, StopLinked
<1>3. CASE ~Throw
  <2>1. PICK g : /\ Replace(g) /\ g.k = "for" /\ g.body = Top.stmt.body
                 /\ program' = program /\ return_' = return_
    BY <1>3 DEF EnterFor, For, Rest
  <2>2. \A quiet \in SUBSET Blocks : Link(quiet, Below, Top) => Link(quiet, Below, g)
    BY <1>1, <2>1 DEF Link, Loud
  <2>3. QED
    BY <1>1, <2>1, <2>2, BecomesLinked
<1>4. QED
  BY <1>2, <1>3

LEMMA ForBodyLinked ==
  ASSUME IInv, AllLinked, ForBody
  PROVE  AllLinked' /\ return_' = return_
<1> DEFINE pc == IF Top.cur = Top.end THEN "last" ELSE "body"
           f == [Top EXCEPT !.pc = pc]
           g == Statements(Top.body, 0)
<1>1. /\ frames \in Seq(Frame) /\ frames # <<>> /\ AtTop("for") /\ Top \in Frame
      /\ Top.k = "for" /\ FrameOK(Top) /\ Top.cur \in MachineInt
  BY LoopParts, TopParts DEF ForBody
<1>2. f \in Frame
  <2>1. pc \in {"test", "body", "last"}
    OBVIOUS
  <2> HIDE DEF pc
  <2>2. [Top EXCEPT !.pc = pc] = [Top EXCEPT !.cur = Top.cur, !.pc = pc]
    BY <1>1 DEF Frame
  <2>3. QED
    BY <1>1, <2>1, <2>2, LoopReplaced
<1>3. f.k = "for" /\ f.body = Top.body
  BY <1>1 DEF Frame
<1>4. g.k = "statements" /\ g.blk = Top.body
  BY DEF Statements
<1>5. /\ frames' = Append([frames EXCEPT ![Len(frames)] = f], g)
      /\ return_' = return_ /\ program' = program
  BY DEF ForBody, Step, Rest
<1> HIDE DEF f, g
<1>6. Stands(f, Top)
  BY <1>1, <1>3 DEF Stands
<1>7. ASSUME NEW quiet \in SUBSET Blocks, Quiet(Tree, quiet), Linked(quiet, frames)
      PROVE  Linked(quiet, frames')
  <2>1. Link(quiet, Below, Top)
    BY <1>1, <1>7, TopLinked
  <2>2. Link(quiet, f, g)
    BY <1>1, <1>3, <1>4, <2>1 DEF Link, Loud
  <2>3. QED
    BY <1>1, <1>2, <1>5, <1>6, <1>7, <2>2, SteppedLinked DEF Top
<1>8. QED
  BY <1>5, <1>7, KeepLinked

LEMMA LoopLinked ==
  ASSUME IInv, AllLinked, ForNext \/ EndFor
  PROVE  AllLinked' /\ return_' = return_
<1>1. CASE EndFor
  BY <1>1, ReturnLinked DEF EndFor, Rest
<1>2. CASE ForNext
  <2>1. AtTop("for") /\ Top.k = "for" /\ Top \in Frame
    BY <1>2, TopParts DEF ForNext
  <2>2. CASE Throw \/ Undefine
    BY <2>2, StopLinked
  <2>3. CASE ~(Throw \/ Undefine)
    <3>1. PICK n : /\ Replace([Top EXCEPT !.cur = n, !.pc = "test"])
                   /\ program' = program /\ return_' = return_
      BY <1>2, <2>3 DEF ForNext, Rest
    <3>2. Stands([Top EXCEPT !.cur = n, !.pc = "test"], Top)
      BY <2>1 DEF Stands, Frame
    <3>3. PICK g : g = [Top EXCEPT !.cur = n, !.pc = "test"]
      OBVIOUS
    <3>4. QED
      BY <2>1, <3>1, <3>2, <3>3, StandsLinked, BecomesLinked
  <2>4. QED
    BY <2>2, <2>3
<1>3. QED
  BY <1>1, <1>2

-----------------------------------------------------------------------------
(* What can happen while return_ is set *)

LEMMA UnwindingTop ==
  ASSUME IInv, Unwinding(frames)
  PROVE  \/ Top.k = "fn"
         \/ Top.k = "statements" /\ Top.pos >= 1 /\ Unwinding(Front(frames))
<1>1. PICK n \in Nat \ {0} : n = Len(frames) /\ frames \in Seq(Frame)
  BY DEF IInv, TypeOK, StackOK, Stack
<1>2. PICK i \in 1 .. n :
        /\ frames[i].k = "fn"
        /\ \A j \in (i + 1) .. n : frames[j].k = "statements" /\ frames[j].pos >= 1
  BY <1>1 DEF Unwinding
<1>3. CASE i = n
  BY <1>1, <1>2, <1>3 DEF Top
<1>4. CASE i # n
  <2>1. Top.k = "statements" /\ Top.pos >= 1
    BY <1>1, <1>2, <1>4 DEF Top
  <2>2. PICK h : h = Front(frames)
    OBVIOUS
  <2>3. Len(h) = n - 1 /\ \A j \in 1 .. n - 1 : h[j] = frames[j]
    BY <1>1, <2>2 DEF Front
  <2>4. i \in 1 .. n - 1
    BY <1>4
  <2>5. Unwinding(h)
    BY <1>2, <2>3, <2>4, SMTT(30) DEF Unwinding
  <2>6. QED
    BY <2>1, <2>2, <2>5
<1>5. QED
  BY <1>3, <1>4

\* Nothing but lists and the call end; else the process does.
LEMMA OnlyReturns ==
  ASSUME IInv, return_, Unwinding(frames), Run
  PROVE  EndStatements \/ EndCall
<1>1. Top.k = "fn" \/ (Top.k = "statements" /\ Top.pos >= 1)
  BY UnwindingTop
<1>2. ~VisitStatement
  <2> SUFFICES ASSUME VisitStatement PROVE FALSE
    OBVIOUS
  <2>1. Top.k = "statements" /\ Top \in Frame /\ GoesOn(Top)
    BY TopParts DEF VisitStatement
  <2>2. Top.pos \in Nat
    BY <2>1, ListParts
  <2>3. QED
    BY <1>1, <2>1, <2>2 DEF GoesOn
<1>3. \A kind \in {"main", "stmt", "expr", "for"} : ~AtTop(kind)
  BY <1>1 DEF AtTop
<1>4. QED
  BY <1>2, <1>3 DEF Run, VisitItem, EndMain, BeginExpr, EndExpr, VisitLiteral, VisitParens,
     VisitVariable, VisitBinary, CallFails, CallNative, CallBasic, Assign, CopyVariable,
     CallStatement, ReturnStatement, IfStatement, EnterFor, ForBody, ForNext, EndFor,
     Visiting, Finishing

LEMMA RunLinked ==
  ASSUME IInv, AllLinked, Run
  PROVE  /\ AllLinked' /\ program' = program /\ phase' # "load"
         /\ \/ return_' = return_ \/ return_' = FALSE
            \/ Structured(Tree) => Unwinding(frames')
<1>1. phase = "run" /\ program' = program /\ phase' # "load"
  BY DEF Run, VisitItem, EndMain, VisitStatement, EndStatements, BeginExpr, EndExpr,
     VisitLiteral, VisitParens, VisitVariable, VisitBinary, CallFails, CallNative, CallBasic,
     EndCall, Assign, CopyVariable, CallStatement, ReturnStatement, IfStatement, EnterFor,
     ForBody, ForNext, EndFor, Visiting, Finishing, AtTop, Yields, ComesTo, Store, Rest,
     Throw, Undefine, Stop
<1>2. CASE VisitItem
  BY <1>1, <1>2, VisitItemLinked DEF VisitItem
<1>3. CASE VisitStatement
  BY <1>1, <1>3, VisitStatementLinked DEF VisitStatement
<1>4. CASE EndStatements
  BY <1>1, <1>4, ReturnLinked DEF EndStatements
<1>5. CASE EndMain
  BY <1>1, <1>5, SameLinked DEF EndMain
<1>6. CASE BeginExpr \/ EndExpr
  BY <1>1, <1>6, ExprLinked DEF BeginExpr, EndExpr
<1>7. CASE VisitLiteral \/ VisitParens \/ VisitVariable \/ VisitBinary \/ CallFails \/ CallNative
  BY <1>1, <1>7, VisitLinked
<1>8. CASE CallBasic
  BY <1>1, <1>8, CallBasicLinked
<1>9. CASE EndCall
  BY <1>1, <1>9, EndCallLinked, StopLinked
<1>10. CASE Assign \/ CopyVariable \/ CallStatement
  BY <1>1, <1>10, StatementLinked
<1>11. CASE ReturnStatement
  BY <1>1, <1>11, ReturnStatementLinked, StopLinked
<1>12. CASE IfStatement
  BY <1>1, <1>12, IfLinked
<1>13. CASE EnterFor \/ ForBody \/ ForNext \/ EndFor
  BY <1>1, <1>13, EnterForLinked, ForBodyLinked, LoopLinked
<1>14. QED
  BY <1>2, <1>3, <1>4, <1>5, <1>6, <1>7, <1>8, <1>9, <1>10, <1>11, <1>12, <1>13 DEF Run

LEMMA ReturningPreserved ==
  ASSUME IInv, RInv, Run
  PROVE  Returning'
<1>1. /\ AllLinked /\ program' = program
      /\ \/ return_' = return_ \/ return_' = FALSE \/ (Structured(Tree) => Unwinding(frames'))
  BY RunLinked DEF RInv
<1>2. Tree' = Tree
  BY <1>1 DEF Tree
<1>3. CASE return_ /\ Structured(Tree)
  <2>1. Unwinding(frames)
    BY <1>3 DEF RInv, Returning
  <2>2. EndStatements \/ EndCall
    BY <1>3, <2>1, OnlyReturns
  <2>3. CASE EndStatements
    <3>1. Top.k = "statements" /\ frames' = Front(frames)
      BY <2>3 DEF EndStatements, AtTop, Return
    <3>2. Unwinding(frames')
      BY <2>1, <3>1, UnwindingTop
    <3>3. QED
      BY <3>2 DEF Returning
  <2>4. CASE EndCall
    <3>1. return_' = FALSE \/ frames' = frames
      BY <1>1, <2>4, EndCallLinked, StopLinked
    <3>2. QED
      BY <2>1, <3>1 DEF Returning
  <2>5. QED
    BY <2>2, <2>3, <2>4
<1>4. CASE ~(return_ /\ Structured(Tree))
  <2>1. return_ \in BOOLEAN
    BY Untouched
  <2>2. QED
    BY <1>1, <1>2, <1>4, <2>1 DEF Returning
<1>5. QED
  BY <1>3, <1>4

LEMMA RInvInitially == Init => RInv
<1> SUFFICES ASSUME Init PROVE RInv
  OBVIOUS
<1>1. Len(frames) = 1 /\ return_ = FALSE
  BY DEF Init
<1>2. QED
  BY <1>1 DEF RInv, AllLinked, Returning, Linked

LEMMA RInvPreserved == IInv /\ RInv /\ [Next]_vars => RInv'
<1> SUFFICES ASSUME IInv, RInv, [Next]_vars PROVE RInv'
  OBVIOUS
<1>1. CASE Load
  <2>1. AllLinked' /\ return_' = return_ /\ return_ = FALSE
    <3>1. phase = "load"
      BY <1>1 DEF Load, LoadDefinition, LoadModule, LoadOther, Execute, Loading
    <3>2. QED
      BY <1>1, <3>1, LoadLinked, Untouched DEF RInv
  <2>2. QED
    BY <2>1 DEF RInv, Returning
<1>2. CASE Run
  BY <1>2, RunLinked, ReturningPreserved DEF RInv
<1>3. CASE UNCHANGED vars
  <2>1. UNCHANGED <<program, phase, frames, return_>>
    BY <1>3 DEF vars, runVars
  <2>2. QED
    BY <2>1, SameLinked DEF RInv, Returning, Tree
<1>4. QED
  BY <1>1, <1>2, <1>3 DEF Next, Ended

LEMMA AlwaysReturning == Spec => [](IInv /\ RInv)
BY Initially, Preserved, RInvInitially, RInvPreserved, PTL DEF Spec

\* The flag that a RETURN sets is seen only by the lists of the call it returns
\* from: at any time it is set, what is above that call on the native stack is
\* lists of statements, whatever called whom in between.
THEOREM ReturnsToItsCall == Spec => []ReturnBelongsToCall
<1>1. IInv /\ RInv => ReturnBelongsToCall
  BY DEF RInv, Returning, Unwinding, ReturnBelongsToCall
<1>2. QED
  BY <1>1, AlwaysReturning, PTL

LEMMA StepsUnwind ==
  IInv /\ RInv /\ [Next]_vars =>
    [return_ /\ Structured(Tree) /\ phase' = "run" => Len(frames') < Len(frames)]_vars
<1> SUFFICES ASSUME IInv, RInv, Next, return_, Structured(Tree), phase' = "run", vars' # vars
             PROVE  Len(frames') < Len(frames)
  OBVIOUS
<1>1. Run
  <2>1. ~Load
    BY DEF RInv, Load, LoadDefinition, LoadModule, LoadOther, Execute, Loading
  <2>2. QED
    BY <2>1 DEF Next, Ended
<1>2. EndStatements \/ EndCall
  BY <1>1, OnlyReturns DEF RInv, Returning
<1>3. frames \in Seq(Frame) /\ Len(frames) \in Nat \ {0}
  BY DEF IInv, TypeOK, StackOK, Stack
<1>4. Front(frames) \in Seq(Frame) /\ Len(Front(frames)) = Len(frames) - 1
  <2>1. PICK n \in Nat \ {0} : n = Len(frames)
    BY <1>3
  <2>2. QED
    BY <1>3, <2>1, SubSeqProperties DEF Front
<1>5. \/ frames' = Front(frames)
      \/ \E g : frames' = [Front(frames) EXCEPT ![Len(frames) - 1] = g]
  <2>1. CASE EndStatements
    BY <2>1 DEF EndStatements, Return
  <2>2. CASE EndCall
    <3>1. ~Throw
      BY StopLinked DEF RInv
    <3>2. QED
      BY <2>2, <3>1 DEF EndCall, ReturnTo
  <2>3. QED
    BY <1>2, <2>1, <2>2
<1>6. Len(frames') = Len(frames) - 1
  <2>1. PICK h \in Seq(Frame) : h = Front(frames) /\ Len(h) = Len(frames) - 1
    BY <1>4
  <2>2. QED
    BY <1>5, <2>1
<1>7. QED
  BY <1>3, <1>6

\* While the flag is set every step takes a frame off the native stack, until the
\* call has ended or the process has.
THEOREM ReturnsUnwind == Spec => ReturnUnwinds
BY AlwaysReturning, StepsUnwind, PTL DEF Spec, ReturnUnwinds

-----------------------------------------------------------------------------
(* Loading: where the first walk leaves the definitions *)

\* The definitions of q under m's MODULE line among the first p items.
DefsOf(p, m, q) ==
  {i \in 1 .. p : Tree.main[i].op = "def" /\ Tree.main[i].name = q /\ Section(i) = m}
\* The last of them is what m has.
LastStands(p, m, q) ==
  LET defs == DefsOf(p, m, q)
  IN /\ HasFn(m, q) <=> defs # {}
     /\ defs # {} => /\ functions[m][q].params = Tree.main[Max(defs)].params
                     /\ functions[m][q].body = Tree.main[Max(defs)].body

\* After p items.
Loads(p) ==
  /\ p \in 0 .. Len(Tree.main)
  /\ OpensOnce => /\ modules = {Root} \cup {Tree.main[i].name : i \in Sections \cap (1 .. p)}
                  /\ module = Section(p)
                  /\ \A m \in Packages : \A q \in QName : LastStands(p, m, q)

\* The properties of the whole program when it begins to run.
Landed ==
  OpensOnce =>
    \A m \in Packages : \A q \in QName :
      LET defs == DefsOf(Len(Tree.main), m, q)
      IN /\ HasFn(m, q) => functions[m][q] \in Natives \/ defs # {}
         /\ defs # {} /\ m # IoModule =>
              /\ HasFn(m, q)
              /\ \/ functions[m][q] = Native(q.id) /\ m = Root
                 \/ /\ functions[m][q].params = Tree.main[Max(defs)].params
                    /\ functions[m][q].body = Tree.main[Max(defs)].body

LInv ==
  /\ phase = "load" => Loads(Top.pos)
  /\ phase = "run" => Landed

LEMMA SectionSteps ==
  ASSUME IInv, NEW p \in Nat, p + 1 <= Len(Tree.main)
  PROVE  Section(p + 1) = IF Tree.main[p + 1].op = "module" THEN Tree.main[p + 1].name
                          ELSE Section(p)
<1> DEFINE S(n) == {j \in 1 .. n : Tree.main[j].op = "module"}
<1>1. CASE Tree.main[p + 1].op = "module"
  <2>1. S(p + 1) \in SUBSET (1 .. p + 1) /\ p + 1 \in S(p + 1) /\ p + 1 \in Nat
    BY <1>1
  <2> HIDE DEF S
  <2>2. PICK S1 \in SUBSET (1 .. p + 1) : S1 = S(p + 1) /\ S1 # {}
    BY <2>1
  <2>3. Max(S1) \in S1 /\ \A j \in S1 : j <= Max(S1)
    BY <2>1, <2>2, MaxInSet
  <2>4. Max(S1) = p + 1
    BY <2>1, <2>2, <2>3
  <2>5. Section(p + 1) = IF S1 = {} THEN Root ELSE Tree.main[Max(S1)].name
    BY <2>2 DEF Section, S
  <2>6. QED
    BY <1>1, <2>2, <2>4, <2>5
<1>2. CASE Tree.main[p + 1].op # "module"
  <2>1. S(p + 1) = S(p)
    BY <1>2
  <2>2. QED
    BY <1>2, <2>1 DEF Section
<1>3. QED
  BY <1>1, <1>2

LEMMA DefsStep ==
  ASSUME IInv, NEW p \in Nat, p + 1 <= Len(Tree.main), NEW m, NEW q
  PROVE  LET here == /\ Tree.main[p + 1].op = "def" /\ Tree.main[p + 1].name = q
                     /\ Section(p) = m
         IN /\ here => DefsOf(p + 1, m, q) # {} /\ Max(DefsOf(p + 1, m, q)) = p + 1
            /\ ~here => DefsOf(p + 1, m, q) = DefsOf(p, m, q)
<1> DEFINE here == /\ Tree.main[p + 1].op = "def" /\ Tree.main[p + 1].name = q
                   /\ Section(p) = m
<1>1. Tree.main[p + 1].op = "def" => Section(p + 1) = Section(p)
  BY SectionSteps
<1>2. CASE here
  <2>1. PICK S \in SUBSET (1 .. p + 1) : S = DefsOf(p + 1, m, q)
    BY DEF DefsOf
  <2>2. p + 1 \in S
    BY <1>1, <1>2, <2>1 DEF DefsOf
  <2>3. Max(S) \in S /\ \A j \in S : j <= Max(S)
    <3>1. p + 1 \in Nat /\ S # {}
      BY <2>2
    <3>2. QED
      BY <3>1, MaxInSet
  <2>4. Max(S) = p + 1
    <3>1. Max(S) \in 1 .. p + 1
      BY <2>3
    <3>2. QED
      BY <2>2, <2>3, <3>1
  <2>5. QED
    BY <1>2, <2>1, <2>2, <2>4
<1>3. CASE ~here
  <2>1. DefsOf(p + 1, m, q) = DefsOf(p, m, q)
    BY <1>1, <1>3 DEF DefsOf
  <2>2. QED
    BY <1>3, <2>1
<1>4. QED
  BY <1>2, <1>3

\* The item that is loaded next.
LEMMA LoadingParts ==
  ASSUME IInv, LInv, phase = "load"
  PROVE  /\ frames \in Seq(Frame) /\ Len(frames) = 1 /\ Top = frames[1] /\ Top.pos \in Nat
         /\ Loads(Top.pos) /\ Len(Tree.main) \in Nat
         /\ Loaded => Top.pos' = Top.pos + 1
<1>1. frames \in Seq(Frame) /\ Stack(frames) /\ Len(frames) = 1
  BY DEF IInv, TypeOK, StackOK
<1>2. Top = frames[1] /\ Top.k = "main" /\ Top \in Frame
  BY <1>1 DEF Top, Stack
<1>3. Loaded => Top.pos' = Top.pos + 1
  <2> SUFFICES ASSUME Loaded PROVE Top.pos' = Top.pos + 1
    OBVIOUS
  <2>1. frames' = [frames EXCEPT ![Len(frames)] = Main(Top.pos + 1)]
    BY DEF Loaded, Replace
  <2>2. Len(frames') = 1 /\ frames'[1] = Main(Top.pos + 1)
    BY <1>1, <2>1
  <2>3. QED
    BY <2>2 DEF Top, Main
<1>4. QED
  BY <1>1, <1>2, <1>3, MainParts, TreeParts DEF LInv

LEMMA SameTree ==
  ASSUME program' = program
  PROVE  /\ Tree' = Tree /\ OpensOnce' = OpensOnce /\ Sections' = Sections
         /\ \A i : Section(i)' = Section(i)
         /\ \A p, m, q : DefsOf(p, m, q)' = DefsOf(p, m, q)
BY DEF Tree, OpensOnce, Sections, Section, DefsOf
LEMMA LoadsItem ==
  ASSUME IInv, LInv, Loaded, phase = "load", Top.pos < Len(Tree.main),
         NEW p \in Nat, p = Top.pos,
         OpensOnce =>
           /\ modules' = {Root} \cup {Tree.main[i].name : i \in Sections \cap (1 .. p + 1)}
           /\ module' = Section(p + 1)
           /\ \A m \in Packages : \A q \in QName : LastStands(p + 1, m, q)'
  PROVE  LInv'
<1>1. p + 1 \in 0 .. Len(Tree.main) /\ Top.pos' = p + 1
  BY LoadingParts
<1>2. program' = program /\ phase' = "load"
  BY DEF Loaded
<1>3. Tree' = Tree /\ OpensOnce' = OpensOnce /\ Sections' = Sections
      /\ Section(p + 1)' = Section(p + 1)
  BY <1>2, SameTree
<1>4. Loads(p + 1)'
  BY <1>1, <1>3 DEF Loads
<1>5. QED
  BY <1>1, <1>2, <1>4 DEF LInv

\* What a step of the loading leaves of the functions that it does not define.
LEMMA HoldsOn ==
  ASSUME IInv, program' = program, NEW p \in Nat, p + 1 <= Len(Tree.main), NEW m, NEW q,
         LastStands(p, m, q), functions'[m] = functions[m],
         ~(Tree.main[p + 1].op = "def" /\ Tree.main[p + 1].name = q /\ Section(p) = m)
  PROVE  LastStands(p + 1, m, q)'
<1>1. DefsOf(p + 1, m, q)' = DefsOf(p + 1, m, q) /\ Tree' = Tree
  BY SameTree
<1>2. DefsOf(p + 1, m, q) = DefsOf(p, m, q)
  BY DefsStep
<1>3. QED
  BY <1>1, <1>2 DEF LastStands, HasFn

LEMMA LoadModuleLands ==
  ASSUME IInv, LInv, LoadModule
  PROVE  LInv'
<1> DEFINE new == Tree.main[Top.pos + 1].name
<1>1. /\ phase = "load" /\ Top.pos < Len(Tree.main) /\ Tree.main[Top.pos + 1].op = "module"
      /\ Loaded /\ functions' = functions /\ program' = program
      /\ modules' = modules \cup {new}
      /\ module' = IF new \in modules THEN module ELSE new
  BY DEF LoadModule, Loading, OpenModule, Loaded
<1>2. PICK p \in Nat : p = Top.pos /\ p + 1 <= Len(Tree.main) /\ Loads(p)
  BY <1>1, LoadingParts
<1>3. ASSUME OpensOnce
      PROVE  /\ modules' = {Root} \cup {Tree.main[i].name : i \in Sections \cap (1 .. p + 1)}
             /\ module' = Section(p + 1)
             /\ \A m \in Packages : \A q \in QName : LastStands(p + 1, m, q)'
  <2>1. p + 1 \in Sections
    BY <1>1, <1>2, LoadingParts, TreeParts DEF Sections
  <2>2. /\ modules = {Root} \cup {Tree.main[i].name : i \in Sections \cap (1 .. p)}
        /\ \A m \in Packages : \A q \in QName : LastStands(p, m, q)
    BY <1>2, <1>3 DEF Loads
  <2>3. Sections \cap (1 .. p + 1) = (Sections \cap (1 .. p)) \cup {p + 1}
    BY <1>2, <2>1
  <2>4. new \notin modules
    <3>1. new # Root
      BY <1>2, <1>3, <2>1 DEF OpensOnce
    <3>2. \A i \in Sections \cap (1 .. p) : Tree.main[i].name # new
      BY <1>2, <1>3, <2>1 DEF OpensOnce
    <3>3. QED
      BY <2>2, <3>1, <3>2
  <2>5. module' = Section(p + 1)
    BY <1>1, <1>2, <2>4, SectionSteps
  <2>6. \A m \in Packages : \A q \in QName : LastStands(p + 1, m, q)'
    BY <1>1, <1>2, <2>2, HoldsOn
  <2>7. modules' = {Root} \cup {Tree.main[i].name : i \in Sections \cap (1 .. p + 1)}
    BY <1>1, <1>2, <2>2, <2>3
  <2>8. QED
    BY <2>5, <2>6, <2>7
<1>4. QED
  BY <1>1, <1>2, <1>3, LoadsItem

LEMMA LoadOtherLands ==
  ASSUME IInv, LInv, LoadOther
  PROVE  LInv'
<1>1. /\ phase = "load" /\ Top.pos < Len(Tree.main)
      /\ Tree.main[Top.pos + 1].op \in {"statement", "import"}
      /\ Loaded /\ functions' = functions /\ program' = program
      /\ modules' = modules /\ module' = module
  BY DEF LoadOther, Loading, Loaded, contextVars
<1>2. PICK p \in Nat : p = Top.pos /\ p + 1 <= Len(Tree.main) /\ Loads(p)
  BY <1>1, LoadingParts
<1>3. ASSUME OpensOnce
      PROVE  /\ modules' = {Root} \cup {Tree.main[i].name : i \in Sections \cap (1 .. p + 1)}
             /\ module' = Section(p + 1)
             /\ \A m \in Packages : \A q \in QName : LastStands(p + 1, m, q)'
  <2>1. /\ modules = {Root} \cup {Tree.main[i].name : i \in Sections \cap (1 .. p)}
        /\ module = Section(p)
        /\ \A m \in Packages : \A q \in QName : LastStands(p, m, q)
    BY <1>2, <1>3 DEF Loads
  <2>2. p + 1 \notin Sections
    BY <1>1, <1>2 DEF Sections
  <2>3. Sections \cap (1 .. p + 1) = Sections \cap (1 .. p)
    BY <1>2, <2>2
  <2>4. Section(p + 1) = Section(p)
    BY <1>1, <1>2, SectionSteps
  <2>5. \A m \in Packages : \A q \in QName : LastStands(p + 1, m, q)'
    BY <1>1, <1>2, <2>1, HoldsOn
  <2>6. QED
    BY <1>1, <2>1, <2>3, <2>4, <2>5
<1>4. QED
  BY <1>1, <1>2, <1>3, LoadsItem

LEMMA LoadDefinitionLands ==
  ASSUME IInv, LInv, LoadDefinition
  PROVE  LInv'
<1> DEFINE d == Tree.main[Top.pos + 1]
           fn == [type |-> "BASIC", params |-> d.params, body |-> d.body]
<1>1. /\ phase = "load" /\ Top.pos < Len(Tree.main) /\ d.op = "def"
  BY DEF LoadDefinition, Loading
<1>2. PICK p \in Nat : p = Top.pos /\ p + 1 <= Len(Tree.main) /\ Loads(p)
  BY <1>1, LoadingParts
<1>3. CASE d.params = <<>>
  <2>1. phase' = "undefined"
    BY <1>3 DEF LoadDefinition, Undefine, Stop
  <2>2. QED
    BY <2>1 DEF LInv
<1>4. CASE d.params # <<>>
  <2>1. /\ functions' = [functions EXCEPT ![module] = With(@, d.name, fn)]
        /\ modules' = modules /\ module' = module /\ Loaded /\ program' = program
    BY <1>4 DEF LoadDefinition, Define, Loaded
  <2>2. DOMAIN functions = Packages /\ module \in Packages
    BY DEF IInv, TypeOK, ContextTypeOK
  <2>3. ASSUME OpensOnce
        PROVE  /\ modules' = {Root} \cup {Tree.main[i].name : i \in Sections \cap (1 .. p + 1)}
               /\ module' = Section(p + 1)
               /\ \A m \in Packages : \A q \in QName : LastStands(p + 1, m, q)'
    <3>1. /\ modules = {Root} \cup {Tree.main[i].name : i \in Sections \cap (1 .. p)}
          /\ module = Section(p)
          /\ \A m \in Packages : \A q \in QName : LastStands(p, m, q)
      BY <1>2, <2>3 DEF Loads
    <3>2. p + 1 \notin Sections
      BY <1>1, <1>2 DEF Sections
    <3>3. Sections \cap (1 .. p + 1) = Sections \cap (1 .. p)
      BY <1>2, <3>2
    <3>4. Section(p + 1) = Section(p)
      BY <1>1, <1>2, SectionSteps
    <3>5. ASSUME NEW m \in Packages, NEW q \in QName PROVE LastStands(p + 1, m, q)'
      <4>1. CASE m = module /\ q = d.name
        <5>1. /\ DefsOf(p + 1, m, q)' = DefsOf(p + 1, m, q) /\ Tree' = Tree
          BY <2>1, SameTree
        <5>2. DefsOf(p + 1, m, q) # {} /\ Max(DefsOf(p + 1, m, q)) = p + 1
          BY <1>1, <1>2, <3>1, <4>1, DefsStep
        <5>3. functions'[m] = With(functions[m], q, fn)
          BY <2>1, <2>2, <4>1
        <5>4. q \in DOMAIN functions'[m] /\ functions'[m][q] = fn
          BY <5>3 DEF With
        <5>5. QED
          BY <1>2, <5>1, <5>2, <5>4 DEF LastStands, HasFn
      <4>2. CASE m = module /\ q # d.name
        <5>1. /\ DefsOf(p + 1, m, q)' = DefsOf(p + 1, m, q) /\ Tree' = Tree
          BY <2>1, SameTree
        <5>2. DefsOf(p + 1, m, q) = DefsOf(p, m, q)
          BY <1>2, <4>2, DefsStep
        <5>3. functions'[m] = With(functions[m], d.name, fn)
          BY <2>1, <2>2, <4>2
        <5> HIDE DEF d, fn
        <5>4. /\ q \in DOMAIN functions'[m] <=> q \in DOMAIN functions[m]
              /\ q \in DOMAIN functions[m] => functions'[m][q] = functions[m][q]
          BY <4>2, <5>3 DEF With
        <5>5. QED
          BY <3>1, <5>1, <5>2, <5>4 DEF LastStands, HasFn
      <4>3. CASE m # module
        <5>1. functions'[m] = functions[m]
          BY <2>1, <2>2, <4>3
        <5>2. QED
          BY <1>2, <2>1, <3>1, <4>3, <5>1, HoldsOn
      <4>4. QED
        BY <4>1, <4>2, <4>3
    <3>6. QED
      BY <2>1, <3>1, <3>3, <3>4, <3>5
  <2>4. QED
    BY <1>1, <1>2, <2>1, <2>3, LoadsItem
<1>5. QED
  BY <1>3, <1>4

LEMMA ExecuteLands ==
  ASSUME IInv, LInv, Execute
  PROVE  LInv'
<1> DEFINE Q == {Plain(x) : x \in {"PRINT", "EASY", "EASY2", "EASY3"}}
<1>1. /\ phase = "load" /\ Top.pos = Len(Tree.main) /\ program' = program /\ phase' = "run"
      /\ functions' = [functions EXCEPT
           ![IoModule] = With(NoFunctions, Plain("PRINT"), Native("IO.PRINT")),
           ![Root] = WithNatives(@, Q)]
  BY DEF Execute, RegisterNatives
<1>2. PICK p \in Nat : p = Len(Tree.main) /\ Loads(p)
  BY <1>1, LoadingParts
<1>3. Tree' = Tree /\ OpensOnce' = OpensOnce /\ DOMAIN functions = Packages
  BY <1>1, SameTree DEF IInv, TypeOK, ContextTypeOK
<1>4. \A q \in Q : Native(q.id) \in Natives
  BY DEF Plain, Natives
<1>5. Native("IO.PRINT") \in Natives
  BY DEF Natives
<1> HIDE DEF Q
<1>6. ASSUME OpensOnce, NEW m \in Packages, NEW q \in QName
      PROVE  LET defs == DefsOf(p, m, q)
             IN /\ HasFn(m, q)' => functions'[m][q] \in Natives \/ defs # {}
                /\ defs # {} /\ m # IoModule =>
                     /\ HasFn(m, q)'
                     /\ \/ functions'[m][q] = Native(q.id) /\ m = Root
                        \/ /\ functions'[m][q].params = Tree.main[Max(defs)].params
                           /\ functions'[m][q].body = Tree.main[Max(defs)].body
  <2>1. LastStands(p, m, q)
    BY <1>2, <1>6 DEF Loads
  <2>2. CASE m = IoModule
    <3>1. functions'[m] = With(NoFunctions, Plain("PRINT"), Native("IO.PRINT"))
      BY <1>1, <1>3, <2>2, NamesAssumption
    <3>2. HasFn(m, q)' => functions'[m][q] \in Natives
      BY <1>5, <3>1 DEF HasFn, With, NoFunctions
    <3>3. QED
      BY <2>2, <3>2
  <2>3. CASE m = Root
    <3>1. functions'[m] = WithNatives(functions[m], Q)
      BY <1>1, <1>3, <2>3, NamesAssumption
    <3>2. DOMAIN functions'[m] = DOMAIN functions[m] \cup Q
      BY <3>1 DEF WithNatives
    <3>3. CASE q \in Q
      <4>1. functions'[m][q] = Native(q.id)
        BY <3>1, <3>3 DEF WithNatives
      <4>2. QED
        BY <1>4, <2>3, <3>2, <3>3, <4>1 DEF HasFn
    <3>4. CASE q \notin Q
      <4>1. q \in DOMAIN functions[m] => functions'[m][q] = functions[m][q]
        BY <3>1, <3>4 DEF WithNatives
      <4>2. QED
        BY <2>1, <3>2, <3>4, <4>1 DEF LastStands, HasFn
    <3>5. QED
      BY <3>3, <3>4
  <2>4. CASE m \notin {Root, IoModule}
    <3>1. functions'[m] = functions[m]
      BY <1>1, <1>3, <2>4
    <3>2. QED
      BY <2>1, <3>1 DEF LastStands, HasFn
  <2>5. QED
    BY <2>2, <2>3, <2>4
<1>7. \A m, q : DefsOf(p, m, q)' = DefsOf(p, m, q)
  BY <1>1, SameTree
<1>8. Landed'
  BY <1>2, <1>3, <1>6, <1>7 DEF Landed
<1>9. QED
  BY <1>1, <1>8 DEF LInv

LEMMA RunLands ==
  ASSUME LInv, phase # "load", phase' # "load", phase' = "run" => phase = "run",
         UNCHANGED <<functions, program>>
  PROVE  LInv'
<1>1. /\ Tree' = Tree /\ OpensOnce' = OpensOnce
      /\ \A p, m, q : DefsOf(p, m, q)' = DefsOf(p, m, q)
  BY SameTree
<1>2. Landed => Landed'
  BY <1>1 DEF Landed, HasFn
<1>3. QED
  BY <1>2 DEF LInv

LEMMA LInvInitially == Init => LInv
<1> SUFFICES ASSUME Init PROVE LInv
  OBVIOUS
<1>1. IInv
  BY Initially
<1>2. Top.pos = 0
  BY DEF Init, Top, Main
<1>3. \A q : Sections \cap (1 .. 0) = {} /\ \A m : DefsOf(0, m, q) = {}
  BY DEF DefsOf
<1>4. Section(0) = Root
  BY DEF Section
<1>5. \A m \in Packages : \A q \in QName : LastStands(0, m, q)
  BY <1>3 DEF LastStands, HasFn, Init, ContextInit, NoFunctions
<1>6. Len(Tree.main) \in Nat
  BY <1>1, TreeParts
<1>7. Loads(0)
  BY <1>3, <1>4, <1>5, <1>6 DEF Loads, Init, ContextInit
<1>8. QED
  BY <1>2, <1>7 DEF LInv, Init

LEMMA LInvPreserved == IInv /\ LInv /\ [Next]_vars => LInv'
<1> SUFFICES ASSUME IInv, LInv, [Next]_vars PROVE LInv'
  OBVIOUS
<1>1. CASE Load
  BY <1>1, LoadDefinitionLands, LoadModuleLands, LoadOtherLands, ExecuteLands DEF Load
<1>2. CASE Run
  <2>1. phase = "run" /\ phase' # "load" /\ UNCHANGED <<functions, program>>
    BY <1>2 DEF Run, VisitItem, EndMain, VisitStatement, EndStatements, BeginExpr, EndExpr,
       VisitLiteral, VisitParens, VisitVariable, VisitBinary, CallFails, CallNative, CallBasic,
       EndCall, Assign, CopyVariable, CallStatement, ReturnStatement, IfStatement, EnterFor,
       ForBody, ForNext, EndFor, Visiting, Finishing, AtTop, Yields, ComesTo, Store, Rest,
       Throw, Undefine, Stop, contextVars
  <2>2. QED
    BY <2>1, RunLands
<1>3. CASE UNCHANGED vars
  <2>1. UNCHANGED <<modules, module, functions, program, phase, frames>>
    BY <1>3 DEF vars, runVars, contextVars
  <2>2. CASE phase # "load"
    BY <2>1, <2>2, RunLands
  <2>3. CASE phase = "load"
    <3>1. /\ Tree' = Tree /\ OpensOnce' = OpensOnce /\ Sections' = Sections
          /\ (\A i : Section(i)' = Section(i))
          /\ (\A p, m, q : DefsOf(p, m, q)' = DefsOf(p, m, q))
      BY <2>1, SameTree
    <3>2. PICK p : p = Top.pos
      OBVIOUS
    <3>3. Loads(p) => Loads(p)'
      BY <2>1, <3>1 DEF Loads, LastStands, HasFn
    <3>4. Top' = Top
      BY <2>1 DEF Top
    <3>5. QED
      BY <2>1, <2>3, <3>2, <3>3, <3>4 DEF LInv
  <2>4. QED
    BY <2>2, <2>3
<1>4. QED
  BY <1>1, <1>2, <1>3 DEF Next, Ended

\* Where a program that opens each module once runs, every definition is in the
\* module under whose MODULE line it stands and the last of its name is what calls
\* find there, but for the natives.
THEOREM WhereTheyStand == Spec => []DefinitionsLand
<1>1. IInv /\ LInv => DefinitionsLand
  <2> SUFFICES ASSUME IInv, LInv, phase = "run", OpensOnce, NEW m \in Packages, NEW q \in QName
               PROVE  LET defs == {i \in DOMAIN Tree.main :
                             Tree.main[i].op = "def" /\ Tree.main[i].name = q /\ Section(i) = m}
                      IN /\ HasFn(m, q) => functions[m][q] \in Natives \/ defs # {}
                         /\ defs # {} /\ m # IoModule =>
                              /\ HasFn(m, q)
                              /\ \/ functions[m][q] = Native(q.id) /\ m = Root
                                 \/ /\ functions[m][q].params = Tree.main[Max(defs)].params
                                    /\ functions[m][q].body = Tree.main[Max(defs)].body
    BY DEF DefinitionsLand
  <2>1. DOMAIN Tree.main = 1 .. Len(Tree.main)
    BY TreeParts
  <2>2. DefsOf(Len(Tree.main), m, q) =
          {i \in DOMAIN Tree.main :
             Tree.main[i].op = "def" /\ Tree.main[i].name = q /\ Section(i) = m}
    BY <2>1 DEF DefsOf
  <2>3. QED
    BY <2>2 DEF LInv, Landed
<1>2. Spec => [](IInv /\ LInv)
  BY Initially, Preserved, LInvInitially, LInvPreserved, PTL DEF Spec
<1>3. QED
  BY <1>1, <1>2, PTL

=============================================================================
