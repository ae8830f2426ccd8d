------------------------------- MODULE Parser -------------------------------
(***************************************************************************)
(* The parser, parse_tokens (src/src/parser.c): recursive descent for         *)
(* declarations, statements, types and patterns, precedence climbing for      *)
(* expressions.  One action parses one declaration.                          *)
(*                                                                         *)
(* The token at a position is a string; the last one is "eof", or "error"     *)
(* where the lexer gave up.  A function of the parser, called at a position,  *)
(* gives what it made and the position after it.  This is a set with one      *)
(* element, or none: the error that ends the parse.  All recursion goes        *)
(* through Parse.  Flags (pub, mut) and places in the source are left out of  *)
(* the tree.                                                                *)
(***************************************************************************)
EXTENDS TypedSyntax, Tokens

VARIABLES
    test,     \* what is parsed: a record with a field text
    at,       \* the position of the next token
    decls,    \* the declarations so far
    outcome   \* "none" until the parse ends

vars == <<test, at, decls, outcome>>

Peek(i) == test.text[i]

Lit(value) == Literal(value.k, value.v)

(* Nodes the other modules have no use for *)
RefT(t) == [t |-> "ref", kids |-> <<t>>]
ResultT(ok, err) == [t |-> "result", kids |-> <<ok, err>>]
AssignTo(target, e) == [k |-> "assign", target |-> target, e |-> e]
EnumPat(type, variant, fields) ==
    [k |-> "enum", type |-> type, variant |-> variant, fields |-> fields]
UseDecl(path, items, glob) == [d |-> "use", path |-> path, items |-> items, glob |-> glob]

-----------------------------------------------------------------------------
(* What a function of the parser gives *)

Made(i, n) == {[at |-> i, n |-> n]}
Then(made, next(_, _)) == UNION {next(m.at, m.n) : m \in made}

\* expect: the token has to be there.
After(i, token, next(_)) == IF Peek(i) = token THEN next(i + 1) ELSE {}

\* match: the token is passed if it is there.
Past(i, token) == IF Peek(i) = token THEN i + 1 ELSE i

\* expect_ident_copy, expect_enum_variant_name
Name(i) == IF Peek(i) \in Names THEN Made(i + 1, Peek(i)) ELSE {}
VariantName(i) == IF Peek(i) = "None" THEN Made(i + 1, "None") ELSE Name(i)

RECURSIVE Parse(_, _)
RECURSIVE ItemsFrom(_, _, _)

\* One item at least, with commas between them.
ItemsFrom(what, i, items) ==
    Then(Parse(what, i), LAMBDA j, n :
        IF Peek(j) = "," THEN ItemsFrom(what, j + 1, Append(items, n))
                         ELSE Made(j, Append(items, n)))

\* Items up to a closing token, and that.
ListTo(what, i, close) ==
    Then(IF Peek(i) = close THEN Made(i, <<>>) ELSE ItemsFrom(what, i, <<>>), LAMBDA j, ns :
        After(j, close, LAMBDA k : Made(k, ns)))

\* A type, if the token that announces it is there.
TypeAfter(token, i) == IF Peek(i) = token THEN Parse("type", i + 1) ELSE Made(i, NoType)

-----------------------------------------------------------------------------
(* Types, parameters *)

ParseFnType(i) ==
    After(i, "(", LAMBDA j :
        Then(ListTo("type", j, ")"), LAMBDA k, ps :
            After(k, "->", LAMBDA l :
                Then(Parse("type", l), LAMBDA m, r : Made(m, FnT(ps, r))))))

\* A type in brackets: [T], Option[T].
ClosedType(i, Wrap(_)) ==
    Then(Parse("type", i), LAMBDA j, n : After(j, "]", LAMBDA k : Made(k, Wrap(n))))

ParseResultType(i) ==
    Then(Parse("type", i), LAMBDA j, ok :
        After(j, ",", LAMBDA k : ClosedType(k, LAMBDA err : ResultT(ok, err))))

ParseNamedType(i) ==
    LET name == Peek(i)
        args == Peek(i + 1) = "["
    IN CASE name = "Self" -> IF args THEN {} ELSE Made(i + 1, SelfT)
         [] name = "Option" /\ args -> ClosedType(i + 2, OptionT)
         [] name = "Result" /\ args -> ParseResultType(i + 2)
         [] OTHER ->
              Then(IF args THEN ListTo("type", i + 2, "]") ELSE Made(i + 1, <<>>), LAMBDA j, ts :
                  Made(j, NamedT(name, ts)))

ParseType(i) ==
    LET t == Peek(i)
    IN CASE t = "&" -> Then(Parse("type", Past(i + 1, "mut")), LAMBDA j, n : Made(j, RefT(n)))
         [] t = "[" -> ClosedType(i + 1, ArrayT)
         [] t = "(" -> Then(ListTo("type", i + 1, ")"), LAMBDA j, ns : Made(j, TupleT(ns)))
         [] t = "fn" -> ParseFnType(i + 1)
         [] t \in Primitives -> Made(i + 1, Basic(t))
         [] t \in Names -> ParseNamedType(i)
         [] OTHER -> {}

\* name : type
NameAndType(i) ==
    Then(Name(i), LAMBDA j, x :
        After(j, ":", LAMBDA k :
            Then(Parse("type", k), LAMBDA l, ty : Made(l, [name |-> x, ty |-> ty]))))

ParseParam(i) == NameAndType(Past(i, "mut"))

ParamNames(ps) == [i \in DOMAIN ps |-> ps[i].name]
ParamTypes(ps) == [i \in DOMAIN ps |-> ps[i].ty]

\* The types of a lambda's parameters may be left out, a comma may be last.
RECURSIVE LambdaParams(_, _)
LambdaParams(i, params) ==
    IF Peek(i) = "|" THEN Made(i, params)
    ELSE Then(Name(Past(i, "mut")), LAMBDA j, x :
             Then(TypeAfter(":", j), LAMBDA k, ty :
                 LET more == Append(params, [name |-> x, ty |-> ty])
                 IN IF Peek(k) = "|" THEN Made(k, more)
                    ELSE After(k, ",", LAMBDA l : LambdaParams(l, more))))

RECURSIVE BoundsFrom(_, _)
BoundsFrom(i, bounds) ==
    Then(Name(i), LAMBDA j, b :
        IF Peek(j) = "+" THEN BoundsFrom(j + 1, Append(bounds, b)) ELSE Made(j, Append(bounds, b)))

ParseGeneric(i) ==
    Then(Name(i), LAMBDA j, x :
        Then(IF Peek(j) = ":" THEN BoundsFrom(j + 1, <<>>) ELSE Made(j, <<>>), LAMBDA k, bs :
            Made(k, Generic(x, bs))))

GenericParams(i) ==
    IF Peek(i) # "[" THEN Made(i, <<>>)
    ELSE Then(ItemsFrom("generic", i + 1, <<>>), LAMBDA j, gs :
             After(j, "]", LAMBDA k : Made(k, gs)))

-----------------------------------------------------------------------------
(* Statements and blocks *)

ParseLet(i) ==
    Then(Name(Past(i, "mut")), LAMBDA j, x :
        Then(TypeAfter(":", j), LAMBDA k, ty :
            After(k, "=", LAMBDA l :
                Then(Parse("expr", l), LAMBDA m, e : Made(m, LetAs(x, ty, e))))))

ParseReturn(i) ==
    IF Peek(i) \in {";", "}"} THEN Made(i, Return(Absent))
    ELSE Then(Parse("expr", i), LAMBDA j, e : Made(j, Return(e)))

ParseFor(i) ==
    Then(Name(i), LAMBDA j, x :
        After(j, "in", LAMBDA k :
            Then(Parse("expr", k), LAMBDA l, e :
                Then(Parse("block", l), LAMBDA m, body : Made(m, For(x, e, body))))))

ParseCatch(i) ==
    After(i, "(", LAMBDA j :
        Then(NameAndType(j), LAMBDA k, p :
            After(k, ")", LAMBDA l :
                Then(Parse("block", l), LAMBDA m, body : Made(m, Catch(p.name, p.ty, body))))))

RECURSIVE CatchesFrom(_, _)
CatchesFrom(i, catches) ==
    IF Peek(i) = "catch"
    THEN Then(ParseCatch(i + 1), LAMBDA j, c : CatchesFrom(j, Append(catches, c)))
    ELSE Made(i, catches)

ParseTry(i) ==
    Then(Parse("block", i), LAMBDA j, body :
        Then(CatchesFrom(j, <<>>), LAMBDA k, cs :
            Then(IF Peek(k) = "finally" THEN Parse("block", k + 1) ELSE Made(k, Absent), LAMBDA l, f :
                Made(l, Try(body, cs, f)))))

StmtStarts == {"let", "return", "for", "try", "throw"}

ParseStmt(i) ==
    CASE Peek(i) = "let" -> ParseLet(i + 1)
      [] Peek(i) = "return" -> ParseReturn(i + 1)
      [] Peek(i) = "for" -> ParseFor(i + 1)
      [] Peek(i) = "try" -> ParseTry(i + 1)
      [] Peek(i) = "throw" -> Then(Parse("expr", i + 1), LAMBDA j, e : Made(j, Throw(e)))

\* The rest of a block: an expression is the last thing in it or a statement.
RECURSIVE BlockFrom(_, _)
BlockFrom(i, stmts) ==
    IF Peek(i) = "}" THEN Made(i + 1, Block(stmts, Absent))
    ELSE IF Peek(i) \in StmtStarts
    THEN Then(ParseStmt(i), LAMBDA j, s :
             After(j, ";", LAMBDA k : BlockFrom(k, Append(stmts, s))))
    ELSE Then(Parse("expr", i), LAMBDA j, e :
             IF Peek(j) = "}" THEN Made(j + 1, Block(stmts, e))
             ELSE After(j, ";", LAMBDA k : BlockFrom(k, Append(stmts, ExprStmt(e)))))

ParseBlock(i) == After(i, "{", LAMBDA j : BlockFrom(j, <<>>))

-----------------------------------------------------------------------------
(* Patterns *)

ParseLiteral(i) == IF ValueOf[Peek(i)] = Invalid THEN {} ELSE Made(i + 1, Lit(ValueOf[Peek(i)]))

ParseEnumPat(i, type) ==
    Then(VariantName(i), LAMBDA j, v :
        Then(IF Peek(j) = "(" THEN ListTo("pattern", j + 1, ")") ELSE Made(j, <<>>), LAMBDA k, ps :
            Made(k, EnumPat(type, v, ps))))

\* Fields up to one without a comma, which ".." may follow.
RECURSIVE FieldPatsFrom(_, _, _)
FieldPatsFrom(i, name, fields) ==
    LET End(j, fs) == After(Past(j, ".."), "}", LAMBDA k :
                          Made(k, StructPat(name, fs) @@ [rest |-> Peek(j) = ".."]))
    IN IF Peek(i) = "}" THEN End(i, fields)
       ELSE Then(Name(i), LAMBDA j, f :
                Then(IF Peek(j) = ":" THEN Parse("pattern", j + 1) ELSE Made(j, Absent), LAMBDA k, p :
                    LET more == Append(fields, FieldPat(f, f, p))
                    IN IF Peek(k) = "," THEN FieldPatsFrom(k + 1, name, more) ELSE End(k, more)))

\* The elements of a tuple after the first one and its comma.
RECURSIVE TuplePatFrom(_, _)
TuplePatFrom(i, els) ==
    LET End(j, es) == After(j, ")", LAMBDA k : Made(k, Sequence("tuple", es)))
    IN IF Peek(i) = ")" THEN End(i, els)
       ELSE Then(Parse("pattern", i), LAMBDA j, p :
                IF Peek(j) = "," THEN TuplePatFrom(j + 1, Append(els, p)) ELSE End(j, Append(els, p)))

ParseNamedPat(i) ==
    LET name == Peek(i)
    IN CASE name = "_" -> Made(i + 1, Wildcard)
         [] name # "_" /\ Peek(i + 1) = "::" -> ParseEnumPat(i + 2, name)
         [] name \in TypeNames /\ Peek(i + 1) = "{" -> FieldPatsFrom(i + 2, name, <<>>)
         [] OTHER -> Made(i + 1, Bind(name))

ParsePatternAtom(i) ==
    LET t == Peek(i)
        Literally(made) == Then(made, LAMBDA j, lit : Made(j, LiteralPat(lit)))
    IN CASE t \in DOMAIN Words -> Literally(Made(i + 1, Lit(Words[t])))
         [] t \in DOMAIN ValueOf ->
              IF ValueOf[t].k \in {"float", "double"} THEN {} ELSE Literally(ParseLiteral(i))
         [] t \in Names -> ParseNamedPat(i)
         [] t = "(" ->
              Then(Parse("pattern", i + 1), LAMBDA j, p :
                  IF Peek(j) = "," THEN TuplePatFrom(j + 1, <<p>>)
                  ELSE After(j, ")", LAMBDA k : Made(k, p)))
         [] t = "[" ->
              Then(ListTo("pattern", i + 1, "]"), LAMBDA j, ps : Made(j, Sequence("array", ps)))
         [] OTHER -> {}

\* The alternatives of a pattern, the first ones together.
RECURSIVE OrPatFrom(_, _)
OrPatFrom(i, left) ==
    IF Peek(i) = "|"
    THEN Then(ParsePatternAtom(i + 1), LAMBDA j, right : OrPatFrom(j, OrPat(left, right)))
    ELSE Made(i, left)

ParsePattern(i) == Then(ParsePatternAtom(i), OrPatFrom)

-----------------------------------------------------------------------------
(* Expressions *)

\* Branches up to one that no "else if" follows.
RECURSIVE BranchesFrom(_, _)

\* (faulty variant: an "else if" replaces the branches before it)
BranchesForgotten(i, branches) ==
    Then(Parse("expr", i), LAMBDA j, cond :
        Then(Parse("block", j), LAMBDA k, body :
            LET more == Append(branches, Branch(cond, body))
            IN IF Peek(k) # "else" THEN Made(k, If(more, Absent))
               ELSE IF Peek(k + 1) = "if" THEN BranchesFrom(k + 2, <<Branch(cond, body)>>)
               ELSE Then(Parse("block", k + 1), LAMBDA l, els : Made(l, If(<<Branch(cond, body)>>, els)))))

BranchesFrom(i, branches) ==
    Then(Parse("expr", i), LAMBDA j, cond :
        Then(Parse("block", j), LAMBDA k, body :
            LET more == Append(branches, Branch(cond, body))
            IN IF Peek(k) # "else" THEN Made(k, If(more, Absent))
               ELSE IF Peek(k + 1) = "if" THEN BranchesFrom(k + 2, more)
               ELSE Then(Parse("block", k + 1), LAMBDA l, els : Made(l, If(more, els)))))

\* (faulty variant: the comma behind an arm may be left out)
ArmLoose(i) ==
    Then(Parse("pattern", i), LAMBDA j, pat :
        Then(IF Peek(j) = "if" THEN Parse("expr", j + 1) ELSE Made(j, Absent), LAMBDA k, guard :
            After(k, "=>", LAMBDA l :
                Then(Parse("expr", l), LAMBDA m, e : Made(Past(m, ","), Arm(pat, guard, e))))))

\* An arm has a block, or an expression that does not begin with one and a comma.
ParseArm(i) ==
    Then(Parse("pattern", i), LAMBDA j, pat :
        Then(IF Peek(j) = "if" THEN Parse("expr", j + 1) ELSE Made(j, Absent), LAMBDA k, guard :
            After(k, "=>", LAMBDA l :
                IF Peek(l) = "{"
                THEN Then(Parse("block", l), LAMBDA m, body : Made(m, Arm(pat, guard, body)))
                ELSE Then(Parse("expr", l), LAMBDA m, e :
                         After(m, ",", LAMBDA n : Made(n, Arm(pat, guard, e)))))))

RECURSIVE ArmsFrom(_, _)
ArmsFrom(i, arms) ==
    IF Peek(i) = "}" THEN Made(i + 1, arms)
    ELSE Then(ParseArm(i), LAMBDA j, arm : ArmsFrom(j, Append(arms, arm)))

ParseMatch(i) ==
    Then(Parse("expr", i), LAMBDA j, e :
        After(j, "{", LAMBDA k :
            Then(ArmsFrom(k, <<>>), LAMBDA l, arms : Made(l, Match(e, arms)))))

\* The fields of a struct literal, then the struct the others are copied from.
RECURSIVE FieldInitsFrom(_, _)
FieldInitsFrom(i, struct) ==
    CASE Peek(i) = "}" -> Made(i + 1, struct)
      [] Peek(i) = ".." ->
           Then(Parse("expr", i + 1), LAMBDA j, base :
               After(Past(j, ","), "}", LAMBDA k : Made(k, [struct EXCEPT !.base = base])))
      [] OTHER ->
           Then(Name(i), LAMBDA j, f :
               After(j, ":", LAMBDA k :
                   Then(Parse("expr", k), LAMBDA l, e :
                       After(l, ",", LAMBDA m :
                           FieldInitsFrom(m, [struct EXCEPT !.inits = Append(@, FieldInit(f, e))])))))

Called(n, targs, args) == IF targs = <<>> THEN CallOf(n, args) ELSE CallWith(targs, n.name, args)

\* What may follow an expression n directly.  The type arguments in targs
\* (generic_tyargs_pending) wait for the braces of a struct literal.
RECURSIVE ParsePostfix(_, _, _)
ParsePostfix(i, n, targs) ==
    LET t == Peek(i)
        IsName == n.k = "ident"
    IN IF targs # <<>> /\ t # "{" THEN {} ELSE
       CASE IsName /\ t = "::" ->
              After(i + 1, "<", LAMBDA j :
                  Then(ListTo("type", j, ">"), LAMBDA k, ts :
                      IF Peek(k) # "(" THEN ParsePostfix(k, n, ts)
                      ELSE Then(ListTo("expr", k + 1, ")"), LAMBDA l, args :
                               ParsePostfix(l, Called(n, ts, args), <<>>))))
         [] t = "." ->
              Then(Name(i + 1), LAMBDA j, f :
                  IF Peek(j) # "(" THEN ParsePostfix(j, FieldOf(n, f), <<>>)
                  ELSE Then(ListTo("expr", j + 1, ")"), LAMBDA k, args :
                           ParsePostfix(k, NamedCall(f, 0, n, args), <<>>)))
         [] t = "[" ->
              Then(Parse("expr", i + 1), LAMBDA j, e :
                  After(j, "]", LAMBDA k : ParsePostfix(k, IndexOf(n, e), <<>>)))
         [] t = "(" ->
              Then(ListTo("expr", i + 1, ")"), LAMBDA j, args :
                  ParsePostfix(j, Called(n, <<>>, args), <<>>))
         [] IsName /\ t = "{" /\ n.name \in TypeNames ->
              Then(FieldInitsFrom(i + 1, StructWith(targs, n.name, <<>>)), LAMBDA j, s :
                  ParsePostfix(j, s, <<>>))
         [] OTHER -> IF targs = <<>> THEN Made(i, n) ELSE {}

\* Two expressions make a tuple, or one with a comma; one alone is itself.
ParseParenOrTuple(i) ==
    IF Peek(i) = ")" THEN {}
    ELSE Then(Parse("expr", i), LAMBDA j, e :
             IF Peek(j) # "," THEN After(j, ")", LAMBDA k : Made(k, e))
             ELSE Then(IF Peek(j + 1) = ")" THEN Made(j + 2, <<>>)
                       ELSE Then(ItemsFrom("expr", j + 1, <<>>), LAMBDA k, es :
                                After(k, ")", LAMBDA l : Made(l, es))), LAMBDA k, es :
                      Made(k, Sequence("tuple", <<e>> \o es))))

ParseLambda(i) ==
    Then(IF Peek(i) = "||" THEN Made(i + 1, <<>>)
         ELSE Then(LambdaParams(i + 1, <<>>), LAMBDA j, ps :
                  After(j, "|", LAMBDA k : Made(k, ps))), LAMBDA j, ps :
        Then(TypeAfter("->", j), LAMBDA k, rty :
            Then(Parse(IF Peek(k) = "{" THEN "block" ELSE "expr", k), LAMBDA l, body :
                Made(l, TypedLambda(ParamNames(ps), ParamTypes(ps), rty, body)))))

ParsePrimary(i) ==
    LET t == Peek(i)
    IN CASE t \in DOMAIN Words -> Made(i + 1, Lit(Words[t]))
         [] t \in DOMAIN ValueOf -> ParseLiteral(i)
         [] t \in Names -> Made(i + 1, Ident(t))
         [] t = "if" -> BranchesFrom(i + 1, <<>>)
         [] t = "match" -> ParseMatch(i + 1)
         [] t = "{" -> Parse("block", i)
         [] t = "(" -> ParseParenOrTuple(i + 1)
         [] t = "[" ->
              Then(ListTo("expr", i + 1, "]"), LAMBDA j, es : Made(j, Sequence("array", es)))
         [] t \in {"|", "||"} -> ParseLambda(i)
         [] OTHER -> {}

ParseAtom(i) == Then(ParsePrimary(i), LAMBDA j, n : ParsePostfix(j, n, <<>>))

\* Operators and how tightly they bind.
PrecAssign == 10
PrecUnary == 60
Prec == "=" :> PrecAssign @@ "||" :> 20 @@ "&&" :> 25 @@ "==" :> 30 @@ "!=" :> 30
        @@ "<" :> 35 @@ ">" :> 35 @@ "<=" :> 35 @@ ">=" :> 35
        @@ "+" :> 40 @@ "-" :> 40 @@ "*" :> 50 @@ "/" :> 50 @@ "%" :> 50

Infix(op, l, r) == IF op = "=" THEN AssignTo(l, r) ELSE Binary(op, "none", l, r)

\* (faulty variant: a right operand takes operators of its own level)
RightLoose(op) == Prec[op]

\* What binds at least this tightly belongs to the right operand: "=" groups to
\* the right, the others to the left.
Right(op) == IF op = "=" THEN PrecAssign ELSE Prec[op] + 1

RECURSIVE ParseExprPratt(_, _)
RECURSIVE InfixFrom(_, _, _)

\* Operators that bind at least as tightly as min, behind the operand left.
InfixFrom(i, left, min) ==
    LET op == Peek(i)
    IN IF op \in DOMAIN Prec /\ Prec[op] >= min
       THEN Then(ParseExprPratt(i + 1, Right(op)), LAMBDA j, right :
                InfixFrom(j, Infix(op, left, right), min))
       ELSE Made(i, left)

ParseExprPratt(i, min) ==
    Then(IF Peek(i) \in {"!", "-"}
         THEN Then(ParseExprPratt(i + 1, PrecUnary + 1), LAMBDA j, e :
                  Made(j, Unary(Peek(i), "none", e)))
         ELSE ParseAtom(i),
         LAMBDA j, left : InfixFrom(j, left, min))

Parse(what, i) ==
    CASE what = "expr" -> ParseExprPratt(i, 0)
      [] what = "block" -> ParseBlock(i)
      [] what = "type" -> ParseType(i)
      [] what = "pattern" -> ParsePattern(i)
      [] what = "param" -> ParseParam(i)
      [] what = "generic" -> ParseGeneric(i)

-----------------------------------------------------------------------------
(* Declarations *)

\* name [generics] (parameters) [-> type]
ParseHead(i) ==
    Then(Name(i), LAMBDA j, x :
        Then(GenericParams(j), LAMBDA k, gs :
            After(k, "(", LAMBDA l :
                Then(ListTo("param", l, ")"), LAMBDA m, ps :
                    Then(TypeAfter("->", m), LAMBDA n, rty :
                        Made(n, [name |-> x, generics |-> gs, params |-> ps, rty |-> rty]))))))

ParseFnDecl(i) ==
    Then(ParseHead(i), LAMBDA j, h :
        Then(ParseBlock(j), LAMBDA k, body :
            Made(k, FnDecl(h.name, h.generics, ParamNames(h.params), ParamTypes(h.params), h.rty, body))))

RECURSIVE FieldsFrom(_, _)
FieldsFrom(i, fields) ==
    IF Peek(i) = "}" THEN Made(i + 1, fields)
    ELSE Then(NameAndType(Past(Past(i, "pub"), "mut")), LAMBDA j, f :
             After(j, ",", LAMBDA k : FieldsFrom(k, Append(fields, f))))

ParseStructDecl(i) ==
    Then(Name(i), LAMBDA j, x :
        Then(GenericParams(j), LAMBDA k, gs :
            After(k, "{", LAMBDA l :
                Then(FieldsFrom(l, <<>>), LAMBDA m, fs :
                    Made(m, StructDecl(x, gs, ParamNames(fs), ParamTypes(fs)))))))

ParseConstDecl(i) ==
    Then(NameAndType(i), LAMBDA j, c :
        After(j, "=", LAMBDA k :
            Then(Parse("expr", k), LAMBDA l, e :
                After(l, ";", LAMBDA m : Made(m, ConstDecl(c.name, c.ty, e))))))

RECURSIVE SigsFrom(_, _)
SigsFrom(i, sigs) ==
    IF Peek(i) = "}" THEN Made(i + 1, sigs)
    ELSE After(i, "fn", LAMBDA j :
             Then(ParseHead(j), LAMBDA k, h :
                 IF h.generics # <<>> THEN {}
                 ELSE After(k, ";", LAMBDA l :
                          SigsFrom(l, Append(sigs,
                              Signature(h.name, ParamNames(h.params), ParamTypes(h.params), h.rty))))))

\* No type parameters, no super-traits, no bodies yet.
ParseTraitDecl(i) ==
    Then(Name(i), LAMBDA j, x :
        After(j, "{", LAMBDA k :
            Then(SigsFrom(k, <<>>), LAMBDA l, sigs : Made(l, TraitDecl(x, sigs)))))

RECURSIVE MethodsFrom(_, _)
MethodsFrom(i, methods) ==
    IF Peek(i) = "}" THEN Made(i + 1, methods)
    ELSE After(Past(i, "pub"), "fn", LAMBDA j :
             Then(ParseFnDecl(j), LAMBDA k, f : MethodsFrom(k, Append(methods, f))))

ParseImplDecl(i) ==
    Then(GenericParams(i), LAMBDA j, gs :
        Then(Name(j), LAMBDA k, x :
            Then(IF Peek(k) = "for" THEN Name(k + 1) ELSE Made(k, x), LAMBDA l, struct :
                Then(GenericParams(l), LAMBDA m, ts :
                    After(m, "{", LAMBDA n :
                        Then(MethodsFrom(n, <<>>), LAMBDA o, fs :
                            Made(o, ImplDecl(IF Peek(k) = "for" THEN x ELSE "", struct, fs)
                                    @@ [generics |-> gs, targs |-> ts])))))))

RECURSIVE NamesFrom(_, _)
NamesFrom(i, names) ==
    Then(Name(i), LAMBDA j, x :
        IF Peek(j) = "," THEN NamesFrom(j + 1, Append(names, x)) ELSE Made(j, Append(names, x)))

\* What a use imports of the module at path, up to the semicolon.
RECURSIVE UseFrom(_, _)
UseFrom(i, path) ==
    LET End(j, items, glob) == After(j, ";", LAMBDA k : Made(k, UseDecl(path, items, glob)))
    IN IF Peek(i) # "::" THEN End(i, <<>>, FALSE)
       ELSE CASE Peek(i + 1) = "*" -> End(i + 2, <<>>, TRUE)
              [] Peek(i + 1) = "{" /\ Peek(i + 2) = "*" ->
                   After(i + 3, "}", LAMBDA j : End(j, <<>>, TRUE))
              [] Peek(i + 1) = "{" /\ Peek(i + 2) # "*" ->
                   Then(NamesFrom(i + 2, <<>>), LAMBDA j, xs :
                       After(j, "}", LAMBDA k : End(k, xs, FALSE)))
              [] OTHER -> Then(Name(i + 1), LAMBDA j, x : UseFrom(j, Append(path, x)))

ParseUseDecl(i) == Then(Name(i), LAMBDA j, x : UseFrom(j, <<x>>))

-----------------------------------------------------------------------------
(* parse_program, one declaration after the other *)

\* parse_tokens on t.
Start(t) ==
    /\ test = t
    /\ at = 1
    /\ decls = <<>>
    /\ outcome = "none"

Pub == Peek(at) = "pub"
Comes(keyword) == outcome = "none" /\ Peek(Past(at, "pub")) = keyword

\* A declaration was parsed, or it was not and the parse is over.
Add(made) ==
    /\ UNCHANGED test
    /\ \/ /\ made = {}
          /\ outcome' = "error"
          /\ UNCHANGED <<at, decls>>
       \/ \E m \in made :
             /\ at' = m.at
             /\ decls' = Append(decls, m.n)
             /\ UNCHANGED outcome

Rest == Past(at, "pub") + 1

FnComes == Comes("fn") /\ Add(ParseFnDecl(Rest))
StructComes == Comes("struct") /\ Add(ParseStructDecl(Rest))
TraitComes == Comes("trait") /\ Add(ParseTraitDecl(Rest))
ImplComes == Comes("impl") /\ Add(ParseImplDecl(Rest))
ConstComes == Comes("const") /\ Add(ParseConstDecl(Rest))
UseComes == Comes("use") /\ Add(IF Pub THEN {} ELSE ParseUseDecl(Rest))

DeclStarts == {"fn", "struct", "trait", "impl", "const", "use"}

\* Anything else, a token of the lexer's for an error too, is one here.
OtherComes ==
    /\ outcome = "none"
    /\ Peek(Past(at, "pub")) \notin DeclStarts
    /\ Peek(at) # "eof"
    /\ Add({})

Finish ==
    /\ outcome = "none"
    /\ Peek(at) = "eof"
    /\ outcome' = "ok"
    /\ UNCHANGED <<test, at, decls>>

Next ==
    \/ FnComes \/ StructComes \/ TraitComes \/ ImplComes \/ ConstComes \/ UseComes
    \/ OtherComes \/ Finish

=============================================================================
