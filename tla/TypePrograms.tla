---------------------------- MODULE TypePrograms ----------------------------
(***************************************************************************)
(* Programs for the type checker, in families: every combination of some      *)
(* parts, right or wrong.  A program is known by the family and the parts.    *)
(***************************************************************************)
EXTENDS TypedSyntax

Num(i) == Literal("int", i)
True == Literal("bool", 1)
False == Literal("bool", 0)
Half == Literal("float", 1)
None == Literal("none", 0)
P == NamedT("P", <<>>)
Q == NamedT("Q", <<>>)
PairT == TupleT(<<IntT, BoolT>>)

Op(op, l, r) == Binary(op, "int", l, r)
Call(name, args) == CallOf(Ident(name), args)
NewP(a, b) == StructInit("P", <<FieldInit("a", a), FieldInit("b", b)>>, Absent)
NewQ(a) == StructInit("Q", <<FieldInit("a", a)>>, Absent)
Main(rty, stmts, tail) == FnDecl("main", <<>>, <<>>, <<>>, rty, Block(stmts, tail))
Untyped(params, body) == TypedLambda(params, [i \in DOMAIN params |-> NoType], NoType, body)
IfElse(c, a, b) == If(<<Branch(c, Block(<<>>, a))>>, Block(<<>>, b))

Parts(f) == DOMAIN f

StructP == StructDecl("P", <<>>, <<"a", "b">>, <<IntT, BoolT>>)
StructQ == StructDecl("Q", <<>>, <<"a">>, <<IntT>>)

-----------------------------------------------------------------------------
(* Inference: a lambda f, a value x and a last expression, whose type is the  *)
(* declared one or not.                                                      *)

Lambdas ==
    "same" :> Untyped(<<"n">>, Ident("n"))
    @@ "next" :> Untyped(<<"n">>, Op("add", Ident("n"), Num(1)))
    @@ "test" :> Untyped(<<"n">>, IfElse(Ident("n"), Num(1), Num(2)))
    @@ "list" :> Untyped(<<"n">>, Sequence("array", <<Num(0), Ident("n")>>))
    @@ "nest" :> Untyped(<<"n">>, Sequence("array", <<Ident("n"), Sequence("array", <<Ident("n")>>)>>))
    @@ "call" :> Untyped(<<"n">>, Op("add", Call("n", <<Num(1)>>), Num(1)))
    @@ "halve" :> TypedLambda(<<"n">>, <<FloatT>>, FloatT, Op("mul", Ident("n"), Half))
    @@ "early" :> TypedLambda(<<"n">>, <<IntT>>, NoType,
                              Block(<<Return(Ident("n"))>>, Op("lt", Ident("n"), Num(2))))

Values ==
    "int" :> Num(1) @@ "float" :> Half @@ "bool" :> True @@ "none" :> None
    @@ "ints" :> Sequence("array", <<Num(1)>>) @@ "nothing" :> Sequence("array", <<>>)
    @@ "pair" :> Sequence("tuple", <<Num(1), True>>)
    @@ "P" :> NewP(Num(1), False) @@ "Q" :> NewQ(Num(2))
    @@ "image" :> Call("f", <<Num(1)>>) @@ "bad" :> NewP(True, Num(1))
    @@ "fn" :> TypedLambda(<<"m">>, <<IntT>>, IntT, Ident("m"))

X == Ident("x")
Tails ==
    "x" :> X @@ "f(x)" :> Call("f", <<X>>) @@ "x(1)" :> Call("x", <<Num(1)>>)
    @@ "x+1" :> Op("add", X, Num(1)) @@ "-x" :> Unary("neg", "int", X)
    @@ "x==f(1)" :> Op("eq", X, Call("f", <<Num(1)>>)) @@ "!x" :> Unary("not", "int", X)
    @@ "x.a" :> FieldOf(X, "a") @@ "x[0]" :> IndexOf(X, Num(0)) @@ "x[x]" :> IndexOf(X, X)
    @@ "[x,f(1)]" :> Sequence("array", <<X, Call("f", <<Num(1)>>)>>)
    @@ "x=2" :> Assign("x", Num(2)) @@ "f(f)" :> Call("f", <<Ident("f")>>) @@ "f()" :> Call("f", <<>>)
    @@ "..x" :> StructInit("P", <<FieldInit("a", Num(3))>>, X)
    @@ "if" :> IfElse(X, X, Op("lt", Num(1), Num(2)))
    @@ "let" :> Block(<<ExprStmt(Op("eq", X, None)), LetAs("y", OptionT(IntT), X)>>, Ident("y"))

Results ==
    "int" :> IntT @@ "bool" :> BoolT @@ "float" :> FloatT @@ "ints" :> ArrayT(IntT)
    @@ "P" :> P @@ "option" :> OptionT(IntT)
    @@ "any" :> NoType

Inference ==
    {"inference"} \X Parts(Lambdas) \X Parts(Values) \X Parts(Tails) \X Parts(Results)

InferenceOf(s) ==
    <<StructP, StructQ,
      Main(Results[s[5]], <<Let("f", Lambdas[s[2]]), Let("x", Values[s[3]])>>, Tails[s[4]])>>

-----------------------------------------------------------------------------
(* Declarations, in every order: structs and constants that need others, a   *)
(* function that is called before and after its declaration.                 *)

Orders(n) == Permutations(1..n)
Ordered(decls, o) == [i \in DOMAIN decls |-> decls[o[i]]]

StructR == StructDecl("R", <<>>, <<"q">>, <<Q>>)
ConstK == ConstDecl("K", IntT, Num(7))
ConstL == ConstDecl("L", IntT, Op("add", Ident("K"), Call("one", <<>>)))
One == FnDecl("one", <<>>, <<>>, <<>>, NoType, Block(<<>>, FieldOf(NewQ(Num(1)), "a")))
NewR == StructInit("R", <<FieldInit("q", NewQ(Ident("L")))>>, Absent)

Declarations == {"declarations"} \X Orders(5)

DeclarationsOf(s) ==
    <<Main(IntT, <<>>, FieldOf(FieldOf(NewR, "q"), "a"))>>
    \o Ordered(<<StructQ, StructR, ConstK, ConstL, One>>, s[2])

-----------------------------------------------------------------------------
(* Traits, impls and type parameters, in every order, with one part wrong.   *)

Trait == TraitDecl("T", <<Signature("m", <<"self">>, <<SelfT>>, IntT)>>)
Impl(trait, struct, params, self, rty, body) ==
    ImplDecl(trait, struct, <<FnDecl("m", <<>>, params, self, rty, Block(<<>>, body))>>)
SelfA == FieldOf(Ident("self"), "a")
Impls ==
    "good" :> Impl("T", "Q", <<"self">>, <<Q>>, IntT, SelfA)
    @@ "own" :> Impl("", "Q", <<"self">>, <<Q>>, IntT, SelfA)
    @@ "result" :> Impl("T", "Q", <<"self">>, <<Q>>, BoolT, True)
    @@ "body" :> Impl("T", "Q", <<"self">>, <<Q>>, IntT, True)
    @@ "self" :> Impl("T", "Q", <<"self">>, <<IntT>>, IntT, Num(1))
    @@ "name" :> Impl("T", "Q", <<"it">>, <<Q>>, IntT, Num(1))
    @@ "struct" :> Impl("T", "S", <<"self">>, <<NamedT("S", <<>>)>>, IntT, Num(1))
    @@ "trait" :> Impl("U", "Q", <<"self">>, <<Q>>, IntT, SelfA)
    @@ "more" :> Impl("T", "Q", <<"self", "n">>, <<Q, IntT>>, IntT, Ident("n"))

V == NamedT("V", <<>>)
Parameters ==
    "bounded" :> FnDecl("g", <<Generic("V", <<"T">>)>>, <<"v">>, <<V>>, IntT,
                        Block(<<>>, NamedCall("m", 0, Ident("v"), <<>>)))
    @@ "fixed" :> FnDecl("g", <<Generic("V", <<"T">>)>>, <<"v">>, <<V>>, IntT,
                         Block(<<>>, Op("add", Ident("v"), Num(1))))
    @@ "free" :> FnDecl("g", <<Generic("V", <<>>)>>, <<"v">>, <<V>>, IntT, Block(<<>>, Num(1)))
    @@ "plain" :> FnDecl("g", <<>>, <<"v">>, <<Q>>, IntT,
                         Block(<<>>, NamedCall("m", 0, Ident("v"), <<>>)))
Uses ==
    "Q" :> CallWith(<<Q>>, "g", <<NewQ(Num(1))>>)
    @@ "plain" :> CallOf(Ident("g"), <<NewQ(Num(1))>>)
    @@ "int" :> CallWith(<<IntT>>, "g", <<Num(1)>>)
    @@ "other" :> CallWith(<<Q>>, "g", <<Num(1)>>)
    @@ "method" :> NamedCall("m", 0, NewQ(Num(2)), <<>>)
    @@ "box" :> Op("add", Num(1),
                   FieldOf(StructWith(<<IntT>>, "Box", <<FieldInit("v", Num(1))>>), "v"))
    @@ "misfit" :> FieldOf(StructWith(<<IntT>>, "Box", <<FieldInit("v", True)>>), "v")

Box == StructDecl("Box", <<Generic("V", <<>>)>>, <<"v">>, <<V>>)

Traits == {"traits"} \X Orders(5) \X Parts(Parameters) \X Parts(Uses)
ImplNames == {"impls"} \X Parts(Impls) \X Parts(Parameters) \X Parts(Uses)

TraitsOf(order, impl, s) ==
    <<Box>> \o Ordered(<<StructQ, Trait, Impls[impl], Parameters[s[3]],
                         Main(IntT, <<>>, Uses[s[4]])>>, order)

-----------------------------------------------------------------------------
(* Statements: two of them and a last expression. *)

Raise == Throw(Num(1))
Steps ==
    "return" :> Return(Num(1)) @@ "bare" :> Return(Absent)
    @@ "maybe" :> ExprStmt(If(<<Branch(Op("lt", X, Num(2)), Block(<<Return(X)>>, Absent))>>, Absent))
    @@ "half" :> ExprStmt(IfElse(True, Num(1), Half))
    @@ "sum" :> For("i", Sequence("array", <<Num(1), Num(2)>>),
                    Block(<<>>, Assign("x", Op("add", X, Ident("i")))))
    @@ "each" :> For("i", Sequence("tuple", <<Num(1), Num(2)>>), Block(<<Let("x", True)>>, X))
    @@ "mixed" :> For("i", Sequence("tuple", <<Num(1), True>>), Block(<<>>, Ident("i")))
    @@ "throw" :> Raise
    @@ "catch" :> Try(Block(<<Raise>>, Absent),
                      <<Catch("e", "int", Block(<<>>, Assign("x", Ident("e"))))>>, Absent)
    @@ "other" :> Try(Block(<<Raise>>, Absent),
                      <<Catch("e", "bool", Block(<<>>, Unary("not", "int", Ident("e"))))>>, Absent)
    @@ "finally" :> Try(Block(<<Raise>>, Absent), <<>>, Block(<<>>, X))
    @@ "leak" :> Try(Block(<<Let("y", Num(5))>>, Absent), <<Catch("e", "int", Block(<<>>, Ident("y")))>>,
                     Block(<<>>, X))

LastTails == "x" :> X @@ "none" :> Absent @@ "y" :> Ident("y")

StatementNames ==
    {"statements"} \X Parts(Steps) \X Parts(Steps) \X Parts(LastTails)
    \X {"int", "bool", "any"}

StatementsOf(s) ==
    <<Main(Results[s[5]], <<Let("x", Num(0)), Steps[s[2]], Steps[s[3]]>>, LastTails[s[4]])>>

-----------------------------------------------------------------------------
(* Matches: a subject, two patterns, a guard. *)

Subjects ==
    "int" :> Num(1) @@ "bool" :> True @@ "none" :> None @@ "P" :> NewP(Num(1), True)
    @@ "option" :> Ident("o")

Patterns ==
    "_" :> Wildcard @@ "n" :> Bind("n") @@ "true" :> LiteralPat(True)
    @@ "false" :> LiteralPat(False) @@ "1" :> LiteralPat(Num(1)) @@ "None" :> NonePat
    @@ "Some(_)" :> SomePat(Wildcard) @@ "Some(n)" :> SomePat(Bind("n"))
    @@ "true|false" :> OrPat(LiteralPat(True), LiteralPat(False))
    @@ "n|_" :> OrPat(Bind("n"), Wildcard)
    @@ "P{a:n}" :> StructPat("P", <<FieldPat("a", "a", Bind("n"))>>)
    @@ "P{a:1,b}" :> StructPat("P", <<FieldPat("a", "a", LiteralPat(Num(1))), FieldPat("b", "b", Absent)>>)
    @@ "P{c:_}" :> StructPat("P", <<FieldPat("c", "c", Wildcard)>>)
    @@ "Q{a:n}" :> StructPat("Q", <<FieldPat("a", "a", Bind("n"))>>)

Guards == "no" :> Absent @@ "n" :> Op("lt", Ident("n"), Num(2)) @@ "int" :> Num(1)

Matches ==
    {"matches"} \X Parts(Subjects) \X Parts(Patterns) \X Parts(Patterns) \X Parts(Guards)
    \X BOOLEAN

MatchesOf(s) ==
    LET first == IF s[6] THEN Ident("n") ELSE Num(0)
    IN <<StructP, StructQ,
         Main(IntT, <<LetAs("o", OptionT(IntT), None)>>,
              Match(Subjects[s[2]], <<Arm(Patterns[s[3]], Guards[s[5]], first),
                                      Arm(Patterns[s[4]], Absent, Num(1))>>))>>

-----------------------------------------------------------------------------
\* A function returns a struct that is not the declared one; the one after it
\* adds 1 to true.
Silent ==
    <<StructP, StructQ,
      FnDecl("same", <<>>, <<>>, <<>>, P, Block(<<>>, NewQ(Num(1)))),
      Main(IntT, <<>>, Op("add", Num(1), True))>>

-----------------------------------------------------------------------------
Declared(s) ==
    CASE s[1] = "inference" -> InferenceOf(s)
      [] s[1] = "declarations" -> DeclarationsOf(s)
      [] s[1] = "traits" -> TraitsOf(s[2], "good", s)
      [] s[1] = "impls" -> TraitsOf(<<1, 2, 3, 4, 5>>, s[2], s)
      [] s[1] = "statements" -> StatementsOf(s)
      [] s[1] = "matches" -> MatchesOf(s)
      [] s[1] = "silent" -> Silent

=============================================================================
