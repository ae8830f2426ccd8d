------------------------------- MODULE MCRepl -------------------------------
(***************************************************************************)
(* A session with lines of Mons.  A text is the tokens of its lines; they     *)
(* are parsed here as far as these lines need it, typed by the rules of       *)
(* Typing (which TypeCheck is compared with) and run by TreeWalk.            *)
(***************************************************************************)
EXTENDS Repl, TypedSyntax

R == INSTANCE Typing WITH Universe <- {IntT}
Walk == INSTANCE TreeWalk

Num(i) == Literal("int", i)
K == Ident("k")
CallNo(name) == CallOf(Ident(name), <<>>)
Wrapper(n) == "__monsrepl_" \o ToString(n)

(* Tokens *)
Decl(d) == [t |-> "decl", decl |-> d]
OpensFn(name, rty) == [t |-> "open", name |-> name, rty |-> rty]
Close == [t |-> "close"]
Yields(e) == [t |-> "expr", e |-> e]
Binds(x, e) == [t |-> "let", st |-> Let(x, e)]
Other(t) == [t |-> t]

ConstK(i) == <<Decl(ConstDecl("k", IntT, Num(i)))>>
FnF(e) == <<OpensFn("f", IntT), Yields(e), Close>>

TokensOf ==
    "const k = 1;" :> ConstK(1) @@ "const k = 2;" :> ConstK(2)
    @@ "const z = 1 / 0;" :> <<Decl(ConstDecl("z", IntT, Binary("div", "int", Num(1), Num(0))))>>
    @@ "fn f() -> int { k }" :> FnF(K)
    @@ "fn g() -> int {" :> <<OpensFn("g", IntT)>> @@ "}" :> <<Close>>
    @@ "fn __monsrepl_0() -> int { 3 }" :> <<OpensFn(Wrapper(0), IntT), Yields(Num(3)), Close>>
    @@ "k" :> <<Yields(K)>> @@ "k \\" :> <<Yields(K)>>
    @@ "f()" :> <<Yields(CallNo("f"))>>
    @@ "const w = __monsrepl_0();" :> <<Decl(ConstDecl("w", IntT, CallNo(Wrapper(0))))>>
    @@ "1 / 0" :> <<Yields(Binary("div", "int", Num(1), Num(0)))>>
    @@ "let k = 5;" :> <<Binds("k", Num(5))>> @@ "let k = 5; \\" :> <<Binds("k", Num(5))>>
    @@ "3 } fn f() -> int { 4" :> <<Yields(Num(3)), Close, OpensFn("f", IntT), Yields(Num(4))>>
    @@ "3 // {" :> <<Yields(Num(3))>> @@ "// }" :> <<>>
    @@ "/*" :> <<Other("/*")>> @@ "*/" :> <<Other("*/")>>
    @@ "$" :> <<Other("$")>> @@ "" :> <<>> @@ "\\" :> <<>>
    @@ ":help" :> <<Other(":")>> @@ ":clear" :> <<Other(":")>> @@ ":quit" :> <<Other(":")>>

AllLines == DOMAIN TokensOf
NetOf(l) == IF l \in {"fn g() -> int {", "3 // {"} THEN 1 ELSE IF l \in {"}", "// }"} THEN -1 ELSE 0
IsContinued(l) == l \in {"k \\", "let k = 5; \\", "\\"}
IsBlank(l) == l \in {"", "\\"}
CommandOf(l) ==
    CASE l = ":help" -> "help" [] l = ":clear" -> "clear" [] l = ":quit" -> "quit" [] OTHER -> "none"

-----------------------------------------------------------------------------
(* Parsing: the declarations so far, the function that is open, whether this   *)
(* is a comment, and whether all is well.                                     *)

NoFn == <<>>
Start == [decls |-> <<>>, fn |-> NoFn, comment |-> FALSE, ok |-> TRUE]

Token(p, k) ==
    LET body == p.fn[1].body
        More(b) == [p EXCEPT !.fn[1].body = b]
    IN IF p.comment THEN [p EXCEPT !.comment = k.t # "*/"]
       ELSE CASE k.t = "/*" -> [p EXCEPT !.comment = TRUE]
              [] k.t = "decl" /\ p.fn = NoFn -> [p EXCEPT !.decls = Append(@, k.decl)]
              [] k.t = "open" /\ p.fn = NoFn ->
                   [p EXCEPT !.fn = <<FnDecl(k.name, <<>>, <<>>, <<>>, k.rty, Block(<<>>, Absent))>>]
              [] k.t = "close" /\ p.fn # NoFn -> [p EXCEPT !.decls = @ \o p.fn, !.fn = NoFn]
              [] k.t = "let" /\ p.fn # NoFn /\ body.tail = Absent ->
                   More(Block(Append(body.stmts, k.st), Absent))
              [] k.t = "expr" /\ p.fn # NoFn /\ body.tail = Absent -> More(Block(body.stmts, k.e))
              [] OTHER -> [p EXCEPT !.ok = FALSE]

Tokens(lines) == FlattenSeq([i \in DOMAIN lines |-> TokensOf[lines[i]]])

PieceTokens(piece) ==
    IF piece.wrapped
    THEN <<OpensFn(Wrapper(piece.number), NoType)>> \o Tokens(piece.text) \o <<Close>>
    ELSE Tokens(piece.text)

Parsed(tokens) == FoldLeft(Token, Start, tokens)
ParsedText(text) == Parsed(FlattenSeq([i \in DOMAIN text |-> PieceTokens(text[i])]))
Program(text) == ParsedText(text).decls

ParsesText(text) == ParsedText(text).ok /\ ParsedText(text).fn = NoFn
AcceptsText(text) == R!WellTyped(Program(text))
Run(decls, name) == Walk!Evaluate(Erased(decls), name, <<>>)
OutcomeOf(text, n) == Run(Program(text), Wrapper(n))
IsFailure(outcome) == outcome.error # ""

-----------------------------------------------------------------------------
(* Properties *)

\* An expression is answered with its own value: what is printed is what the
\* paragraph means as a body behind the session as it was, unless it is not one
\* body ("that function is evaluated so the last expression is printed", repl.c).
Probe(text) == Parsed(<<OpensFn("probe", NoType)>> \o Tokens(text) \o <<Close>>)
IsBody(text) == Probe(text).ok /\ Probe(text).fn = NoFn /\ Len(Probe(text).decls) = 1
AnswerIsOwn ==
    answer.kind = "result" /\ pc = "read" /\ IsBody(Last(session).text) =>
        answer.outcome = Run(Program(Front(session)) \o Probe(Last(session).text).decls, "probe")

\* An expression keeps its value while the session grows, unless a constant that
\* was declared since cannot be evaluated (eval_call_by_name evaluates them all).
ConstantsWork == ~IsFailure(Run(Program(session) \o Probe(<<>>).decls, "probe"))
ValueStays ==
    ConstantsWork =>
        \A i \in DOMAIN session :
            session[i].wrapped =>
                OutcomeOf(session, session[i].number)
                    = OutcomeOf(SubSeq(session, 1, i), session[i].number)

=============================================================================
