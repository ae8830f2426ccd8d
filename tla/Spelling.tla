------------------------------ MODULE Spelling ------------------------------
(***************************************************************************)
(* How a tree is written: the tokens of declarations with the parentheses    *)
(* they need and no others.  This is what the parser's precedences and the    *)
(* forms it reads are measured by; the levels are those of the rules or_expr  *)
(* to unary_expr in src/mons_grammar.ebnf.                                  *)
(***************************************************************************)
EXTENDS TypedSyntax, Tokens

\* The token of a literal.
Token(lit) ==
    LET All == Words @@ ValueOf IN CHOOSE t \in DOMAIN All : All[t] = lit.value

OrElse(isThere, tokens) == IF isThere THEN tokens ELSE <<>>
Commas(rows) == FoldLeft(LAMBDA s, r : IF s = <<>> THEN r ELSE s \o <<",">> \o r, <<>>, rows)
In(open, tokens, close) == <<open>> \o tokens \o <<close>>

Levels == <<{"="}, {"||"}, {"&&"}, {"==", "!="}, {"<", ">", "<=", ">="}, {"+", "-"}, {"*", "/", "%"}>>
UnaryLevel == 8
PostfixLevel == 9

LevelOf(op) == CHOOSE i \in DOMAIN Levels : op \in Levels[i]

Level(e) ==
    CASE e.k = "lambda" -> 0
      [] e.k = "assign" -> 1
      [] e.k = "binary" -> LevelOf(e.op)
      [] e.k = "unary" -> UnaryLevel
      [] OTHER -> PostfixLevel

-----------------------------------------------------------------------------
RECURSIVE Spell(_, _)
RECURSIVE SpellType(_)

SpellTypes(ts) == Commas([i \in DOMAIN ts |-> SpellType(ts[i])])

SpellType(t) ==
    CASE t.t = "ref" -> <<"&">> \o SpellType(t.kids[1])
      [] t.t = "array" -> In("[", SpellTypes(t.kids), "]")
      [] t.t = "tuple" -> In("(", SpellTypes(t.kids), ")")
      [] t.t = "option" -> <<"Option">> \o In("[", SpellTypes(t.kids), "]")
      [] t.t = "result" -> <<"Result">> \o In("[", SpellTypes(t.kids), "]")
      [] t.t = "fn" ->
           <<"fn">> \o In("(", SpellTypes(Front(t.kids)), ")") \o <<"->">> \o SpellType(Last(t.kids))
      [] t.t = "named" -> <<t.name>> \o OrElse(t.kids # <<>>, In("[", SpellTypes(t.kids), "]"))
      [] t.t = "self" -> <<"Self">>
      [] OTHER -> <<t.t>>

TypeBehind(token, t) == OrElse(t # NoType, <<token>> \o SpellType(t))

\* Names with types, all of which may be left out.
SpellParams(names, types) ==
    [i \in DOMAIN names |-> <<names[i]>> \o TypeBehind(":", types[i])]

\* An operand that has to bind at least as tightly as level.
Operand(e, level) == IF Level(e) < level THEN In("(", Spell("expr", e), ")") ELSE Spell("expr", e)

\* A field that is called has parentheses, or it would be a method.
Callee(e) ==
    IF e.k = "field" THEN In("(", Spell("expr", e), ")") ELSE Operand(e, PostfixLevel)

All(what, ns) == [i \in DOMAIN ns |-> Spell(what, ns[i])]
Args(es) == In("(", Commas(All("expr", es)), ")")
GivenTypes(n) == OrElse(TypeArgs(n) # <<>>, <<"::">> \o In("<", SpellTypes(TypeArgs(n)), ">"))

\* What stands where a block may: another expression that begins like one has
\* parentheses.
BlockOr(e) ==
    LET s == Spell("expr", e) IN IF e.k # "block" /\ s[1] = "{" THEN In("(", s, ")") ELSE s

SpellExpr(e) ==
    CASE e.k = "lit" -> <<Token(e)>>
      [] e.k = "ident" -> <<e.name>>
      [] e.k = "unary" -> <<e.op>> \o Operand(e.e, UnaryLevel)
      [] e.k = "binary" ->
           Operand(e.l, LevelOf(e.op)) \o <<e.op>> \o Operand(e.r, LevelOf(e.op) + 1)
      [] e.k = "assign" -> Operand(e.target, 2) \o <<"=">> \o Operand(e.e, 1)
      [] e.k = "call" -> Callee(e.callee) \o GivenTypes(e) \o Args(e.items)
      [] e.k = "method" ->
           Operand(e.items[1], PostfixLevel) \o <<".", e.method>> \o Args(Tail(e.items))
      [] e.k = "field" -> Operand(e.e, PostfixLevel) \o <<".", e.field>>
      [] e.k = "index" -> Operand(e.l, PostfixLevel) \o In("[", Spell("expr", e.r), "]")
      [] e.k = "array" -> In("[", Commas(All("expr", e.items)), "]")
      [] e.k = "tuple" ->
           In("(", Commas(All("expr", e.items)) \o OrElse(Len(e.items) = 1, <<",">>), ")")
      [] e.k = "struct" ->
           LET Init(f) == <<f.field, ":">> \o Spell("expr", f.e) \o <<",">>
               inits == FlattenSeq([i \in DOMAIN e.inits |-> Init(e.inits[i])])
           IN <<e.name>> \o GivenTypes(e)
              \o In("{", inits \o OrElse(e.base # Absent, <<"..">> \o Spell("expr", e.base)), "}")
      [] e.k = "lambda" ->
           In("|", Commas(SpellParams(e.params, e.ptys)), "|") \o TypeBehind("->", e.rty)
           \o BlockOr(e.body)
      [] e.k = "if" ->
           LET Arms(b) == Spell("expr", b.cond) \o Spell("expr", b.body)
           IN FoldLeft(LAMBDA s, b : s \o OrElse(s # <<>>, <<"else">>) \o <<"if">> \o Arms(b),
                       <<>>, e.branches)
              \o OrElse(e.els # Absent, <<"else">> \o Spell("expr", e.els))
      [] e.k = "match" ->
           LET Line(a) == Spell("pattern", a.pat)
                          \o OrElse(a.guard # Absent, <<"if">> \o Spell("expr", a.guard))
                          \o <<"=>">> \o BlockOr(a.body) \o OrElse(a.body.k # "block", <<",">>)
           IN <<"match">> \o Spell("expr", e.e)
              \o In("{", FlattenSeq([i \in DOMAIN e.arms |-> Line(e.arms[i])]), "}")
      [] e.k = "block" ->
           In("{", FlattenSeq(All("stmt", e.stmts))
                   \o OrElse(e.tail # Absent, Spell("expr", e.tail)), "}")

SpellStmt(s) ==
    CASE s.k = "let" -> <<"let", s.name>> \o TypeBehind(":", s.ty) \o <<"=">> \o Spell("expr", s.e)
      [] s.k = "return" -> <<"return">> \o OrElse(s.e # Absent, Spell("expr", s.e))
      [] s.k = "throw" -> <<"throw">> \o Spell("expr", s.e)
      [] s.k = "expr" -> Spell("expr", s.e)
      [] s.k = "for" -> <<"for", s.name, "in">> \o Spell("expr", s.e) \o Spell("expr", s.body)
      [] s.k = "try" ->
           LET Caught(c) == <<"catch">> \o In("(", <<c.name, ":">> \o SpellType(c.prim), ")")
                            \o Spell("expr", c.body)
           IN <<"try">> \o Spell("expr", s.body)
              \o FlattenSeq([i \in DOMAIN s.catches |-> Caught(s.catches[i])])
              \o OrElse(s.fin # Absent, <<"finally">> \o Spell("expr", s.fin))

SpellPattern(p) ==
    CASE p.k = "wildcard" -> <<"_">>
      [] p.k = "bind" -> <<p.name>>
      [] p.k = "lit" -> <<Token(p.lit)>>
      [] p.k = "or" ->
           LET right == Spell("pattern", p.r)
           IN Spell("pattern", p.l) \o <<"|">> \o (IF p.r.k = "or" THEN In("(", right, ")") ELSE right)
      [] p.k = "enum" ->
           <<p.type, "::", p.variant>>
           \o OrElse(p.fields # <<>>, In("(", Commas(All("pattern", p.fields)), ")"))
      [] p.k = "struct" ->
           LET Field(f) == <<f.field>>
                           \o OrElse(f.inner # Absent, <<":">> \o Spell("pattern", f.inner))
           IN <<p.name>> \o In("{", Commas([i \in DOMAIN p.fields |-> Field(p.fields[i])])
                                    \o OrElse(p.rest, <<"..">>), "}")
      [] p.k = "array" -> In("[", Commas(All("pattern", p.items)), "]")
      [] p.k = "tuple" ->
           In("(", Commas(All("pattern", p.items)) \o OrElse(Len(p.items) = 1, <<",">>), ")")

Spell(what, n) ==
    CASE what = "expr" -> SpellExpr(n)
      [] what = "stmt" -> SpellStmt(n) \o <<";">>
      [] what = "pattern" -> SpellPattern(n)

-----------------------------------------------------------------------------
SpellGenerics(gs) ==
    LET Plus(bs) == FoldLeft(LAMBDA s, b : IF s = <<>> THEN <<b>> ELSE s \o <<"+", b>>, <<>>, bs)
        One(g) == <<g.name>> \o OrElse(g.bounds # <<>>, <<":">> \o Plus(g.bounds))
    IN OrElse(gs # <<>>, In("[", Commas([i \in DOMAIN gs |-> One(gs[i])]), "]"))

SpellHead(f) ==
    <<"fn", f.name>> \o SpellGenerics(f.generics)
    \o In("(", Commas(SpellParams(f.params, f.ptys)), ")") \o TypeBehind("->", f.rty)

SpellFn(f) == SpellHead(f) \o Spell("expr", f.body)

SpellDecl(d) ==
    CASE d.d = "fn" -> SpellFn(d)
      [] d.d = "const" ->
           <<"const", d.name, ":">> \o SpellType(d.ty) \o <<"=">> \o Spell("expr", d.e) \o <<";">>
      [] d.d = "struct" ->
           LET fields == SpellParams(d.fields, d.ftys)
           IN <<"struct", d.name>> \o SpellGenerics(d.generics)
              \o In("{", FlattenSeq([i \in DOMAIN fields |-> Append(fields[i], ",")]), "}")
      [] d.d = "trait" ->
           LET Sig(s) == SpellHead(s @@ [generics |-> <<>>]) \o <<";">>
           IN <<"trait", d.name>> \o In("{", FlattenSeq([i \in DOMAIN d.sigs |-> Sig(d.sigs[i])]), "}")
      [] d.d = "impl" ->
           <<"impl">> \o SpellGenerics(d.generics)
           \o (IF d.trait = "" THEN <<d.name>> ELSE <<d.trait, "for", d.name>>)
           \o SpellGenerics(d.targs)
           \o In("{", FlattenSeq([i \in DOMAIN d.methods |-> SpellFn(d.methods[i])]), "}")
      [] d.d = "use" ->
           <<"use">> \o FoldLeft(LAMBDA s, x : IF s = <<>> THEN <<x>> ELSE s \o <<"::", x>>, <<>>, d.path)
           \o (IF d.glob THEN <<"::", "*">>
               ELSE OrElse(d.items # <<>>,
                           <<"::">> \o In("{", Commas([i \in DOMAIN d.items |-> <<d.items[i]>>]), "}")))
           \o <<";">>

Spelled(decls) == FlattenSeq([i \in DOMAIN decls |-> SpellDecl(decls[i])])

=============================================================================
