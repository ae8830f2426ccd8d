------------------------------ MODULE MCParser ------------------------------
(***************************************************************************)
(* Texts for the parser: every short sequence of tokens in a place where an  *)
(* expression, a statement, a pattern, a type or a part of a declaration is   *)
(* expected, trees of every kind with every other kind below, each spelled,  *)
(* and what is left of a spelled text without one of its tokens.            *)
(***************************************************************************)
EXTENDS Parser, Grammar, Spelling

MCNames == {"a", "b", "P", "Option", "Result", "Self", "_"}
MCTypeNames == {"P", "Option", "Result", "Self"}
MCValueOf == "1" :> [k |-> "int", v |-> 1] @@ "2" :> [k |-> "int", v |-> 2]
             @@ "1.5f" :> [k |-> "float", v |-> 3] @@ "2.5" :> [k |-> "double", v |-> 5]
             @@ "'s'" :> [k |-> "string", v |-> 0] @@ "9e99f" :> Invalid @@ "'\\q'" :> Invalid


-----------------------------------------------------------------------------
(* Short sequences *)

Family(front, tokens, max, back) == [front |-> front, tokens |-> tokens, max |-> max, back |-> back]

Value == <<"const", "a", ":", "int", "=">>
End == <<";", "eof">>
InValue(tokens, max) == Family(Value, tokens, max, End)
Body == <<"fn", "a", "(", ")", "{">>
InBlock(tokens, max) == Family(Body, tokens, max, <<"}", "eof">>)
InType(tokens, max) == Family(<<"const", "a", ":">>, tokens, max, <<"=", "1">> \o End)
OneArm == <<"=>", "1", ",", "}">> \o End
InArm(tokens, max) == Family(Value \o <<"match", "a", "{">>, tokens, max, OneArm)
Behind(front, tokens, max) == Family(front, tokens, max, <<"eof">>)

Families ==
    {InValue({"a", "+", "=", "(", ")"}, 5),
     InValue({"1", "<", "==", "&&", "||", "-", "!"}, 3),
     InValue({"a", "(", ")", "[", "]", ",", "."}, 4),
     Family(Value \o <<"P">>, {"{", "}", "a", ":", ",", ".."}, 4, End),
     Family(Value \o <<"P", "{">>, {"a", ":", ",", "..", "}"}, 4, <<"}">> \o End),
     Family(Value \o <<"P", "::", "<">>, {"int", ">", "(", ")", "{", "}"}, 4, End),
     Family(Value \o <<"|">>, {"|", "a", ":", "int", "->", "{", "}", ","}, 3, End),
     Family(Value \o <<"match", "a", "{", "_">>, {"=>", "{", "}", ",", "if", "a"}, 4, <<"}">> \o End),
     Family(Value \o <<"if", "P">>, {"{", "}", "else", "if", "a"}, 4, End),
     InBlock({"let", "a", "=", ";", "mut"}, 4),
     InBlock({"return", "throw", "a", ";", "{", "}"}, 3),
     Family(Body \o <<"try", "{", "}">>, {"catch", "finally", "{", "}", ";"}, 4, <<"}", "eof">>),
     Family(Body \o <<"for", "a", "in">>, {"a", "{", "}", ";"}, 4, <<"}", "eof">>),
     InType({"int", "P", "[", "]", "(", ")", ","}, 3),
     InType({"Self", "[", "]", "&", "mut", "int"}, 3),
     Family(<<"const", "a", ":", "Option">>, {"[", "]", "int", ","}, 4, <<"=", "1">> \o End),
     Family(<<"const", "a", ":", "Result">>, {"[", "]", "int", ","}, 5, <<"=", "1">> \o End),
     Family(<<"const", "a", ":", "fn">>, {"(", ")", "->", "int", ","}, 4, <<"=", "1">> \o End),
     InArm({"a", "P", "_", "1", "::", "1.5f", "9e99f"}, 3),
     InArm({"a", "(", ")", ",", "|"}, 4),
     InArm({"a", "[", "]", ","}, 4),
     Family(Value \o <<"match", "a", "{", "P", "::">>, {"a", "None", "_", "(", ")", ","}, 3, OneArm),
     Family(Value \o <<"match", "a", "{", "P", "{">>, {"a", ":", ",", "..", "}"}, 4, OneArm),
     Behind(<<"use", "a">>, {"::", "{", "}", "*", "a", ";"}, 4),
     Behind(<<"fn", "a">>, {"[", "]", "(", ")", "{", "}"}, 4),
     Family(<<"struct", "P", "{">>, {"mut", "a", ":", "int", ","}, 4, <<"}", "eof">>),
     Behind(<<"trait", "P">>, {"[", "a", "]", ":", "{", "}"}, 3),
     Behind(<<"trait", "P", "{", "fn", "a">>, {"(", ")", "->", "int", ";", "}"}, 4),
     Behind(<<"impl">>, {"P", "for", "[", "{", "}"}, 4),
     Behind(<<"impl", "P", "{">>, {"pub", "fn", "a", "}"}, 3),
     Behind(<<>>, {"pub", "use", "fn", "a", ";", "error"}, 3)}

-----------------------------------------------------------------------------
(* Trees *)

A == Ident("a")
One == Literal("int", 1)
BlockA == Block(<<>>, A)
Bin(op, l, r) == Binary(op, "none", l, r)
Default == Arm(Wildcard, Absent, One)
Bare(params, body) == TypedLambda(params, [i \in DOMAIN params |-> NoType], NoType, body)

\* Operators with e below.
Operators(e) ==
    {Unary("!", "none", e), Unary("-", "none", e), AssignTo(e, A), AssignTo(A, e)}
    \cup {Bin(op, e, One) : op \in {"||", "&&", "==", "<", "+", "-", "*"}}
    \cup {Bin(op, One, e) : op \in {"||", "&&", "==", "<", "+", "-", "*"}}

\* What else may hold e.
Forms(e) ==
    {CallOf(e, <<>>), CallOf(A, <<e, One>>), CallWith(<<IntT, FloatT>>, "b", <<One, e>>),
     NamedCall("b", 0, e, <<One>>), NamedCall("b", 0, A, <<e>>), FieldOf(e, "b"),
     IndexOf(e, One), IndexOf(A, e),
     Sequence("array", <<>>), Sequence("array", <<e, One>>),
     Sequence("tuple", <<e>>), Sequence("tuple", <<One, e>>),
     StructWith(<<>>, "P", <<FieldInit("a", e), FieldInit("b", One)>>),
     [StructWith(<<BoolT>>, "P", <<FieldInit("a", One)>>) EXCEPT !.base = e],
     Bare(<<>>, e), TypedLambda(<<"a", "b">>, <<IntT, NoType>>, BoolT, e),
     If(<<Branch(e, BlockA)>>, Absent), If(<<Branch(A, Block(<<>>, e))>>, BlockA),
     If(<<Branch(A, BlockA), Branch(e, BlockA)>>, Block(<<>>, e)),
     Match(e, <<Default>>), Match(A, <<>>),
     Match(A, <<Arm(Bind("b"), e, One), Arm(Wildcard, Absent, e)>>),
     Block(<<>>, e), Block(<<ExprStmt(e)>>, Absent), Block(<<ExprStmt(One), ExprStmt(e)>>, A),
     Block(<<LetAs("a", NoType, e), Return(e)>>, Absent), Block(<<Return(Absent)>>, e),
     Block(<<Throw(e)>>, Absent), Block(<<For("a", e, Block(<<>>, e))>>, Absent),
     Block(<<Try(Block(<<>>, e), <<>>, Absent)>>, Absent),
     Block(<<Try(BlockA, <<Catch("a", IntT, Block(<<>>, e)), Catch("b", BoolT, BlockA)>>, BlockA)>>, e)}

Around(e) == Operators(e) \cup Forms(e)

Leaves == {A, One, Literal("bool", 0), Literal("none", 0), Literal("string", 0), Literal("double", 5)}

TypesAround(t) ==
    {RefT(t), ArrayT(t), OptionT(t), ResultT(t, IntT), ResultT(IntT, t), TupleT(<<>>), TupleT(<<t, IntT>>),
     FnT(<<>>, t), FnT(<<IntT, t>>, t), NamedT("P", <<t>>), NamedT("a", <<IntT, t>>), NamedT("Option", <<>>),
     SelfT}

PatternsAround(p) ==
    {Wildcard, LiteralPat(Literal("string", 0)), OrPat(p, Bind("b")), OrPat(Wildcard, p),
     EnumPat("a", "None", <<>>), EnumPat("Option", "b", <<p, p>>), Sequence("array", <<>>),
     Sequence("array", <<p, Wildcard>>), Sequence("tuple", <<p>>), Sequence("tuple", <<Wildcard, p>>),
     StructPat("P", <<>>) @@ [rest |-> FALSE],
     StructPat("P", <<FieldPat("a", "a", p), FieldPat("b", "b", Absent)>>) @@ [rest |-> TRUE],
     StructPat("P", <<FieldPat("a", "a", Absent), FieldPat("b", "b", p)>>) @@ [rest |-> FALSE]}

InConst(e) == ConstDecl("a", IntT, e)
TypeIn(t) ==
    {ConstDecl("a", t, One), FnDecl("a", <<>>, <<"a", "b">>, <<IntT, t>>, t, BlockA),
     StructDecl("P", <<>>, <<"a">>, <<t>>), TraitDecl("P", <<Signature("a", <<"b">>, <<t>>, t)>>)}

GenericLists == {<<>>, <<Generic("P", <<>>)>>, <<Generic("a", <<"P", "b">>), Generic("b", <<"a">>)>>}

Headed(gs) ==
    {FnDecl("a", gs, <<>>, <<>>, NoType, Block(<<>>, Absent)), StructDecl("P", gs, <<"a", "b">>, <<IntT, BoolT>>)}
    \cup {ImplDecl(trait, "P", methods) @@ [generics |-> gs, targs |-> gs] :
             trait \in {"", "b"},
             methods \in {<<>>, <<FnDecl("a", gs, <<>>, <<>>, IntT, BlockA), FnDecl("b", <<>>, <<>>, <<>>, NoType, BlockA)>>}}

Plain == {StructDecl("P", <<>>, <<>>, <<>>), TraitDecl("P", <<>>),
          TraitDecl("P", <<Signature("a", <<>>, <<>>, NoType), Signature("b", <<"a">>, <<SelfT>>, IntT)>>),
          UseDecl(<<"a">>, <<>>, FALSE), UseDecl(<<"a", "b">>, <<"a", "P">>, FALSE), UseDecl(<<"a">>, <<>>, TRUE)}

\* One declaration of every kind, with every kind of tree in it.
Samples ==
    Plain \cup UNION {Headed(gs) : gs \in GenericLists}
    \cup {InConst(e) : e \in Around(A)}
    \cup UNION {TypeIn(t) : t \in TypesAround(IntT)}
    \cup {InConst(Match(A, <<Arm(p, Absent, One)>>)) : p \in PatternsAround(Bind("a"))}

-----------------------------------------------------------------------------
(* The texts *)

ShortText ==
    \E f \in Families : \E n \in 0..f.max : \E middle \in [1..n -> f.tokens] :
        Start([text |-> f.front \o middle \o f.back])

Text(ds) == Append(Spelled(ds), "eof")
Written(ds) == Start([text |-> Text(ds), means |-> ds])

Tree ==
    \/ \E d, c \in Plain \cup {InConst(A)} : Written(<<d, c>>)
    \/ \E d \in Samples : Written(<<d>>)
    \/ \E e \in Leaves : Written(<<InConst(e)>>)
    \/ \E e \in Around(A) : \E f \in Around(e) : Written(<<InConst(f)>>)
    \/ \E e \in Operators(A) : \E f \in Operators(e) : \E g \in Operators(f) : Written(<<InConst(g)>>)
    \/ \E t \in TypesAround(IntT) : \E u \in TypesAround(t) : Written(<<InConst(Bare(<<>>, A)), ConstDecl("a", u, A)>>)
    \/ \E p \in PatternsAround(Bind("a")) : \E q \in PatternsAround(p) :
          Written(<<InConst(Match(A, <<Arm(q, A, One), Arm(p, Absent, A)>>))>>)

\* A text with a token too few, or one twice, or two in the wrong order.
Slip ==
    \E d \in Samples :
        LET t == Text(<<d>>)
        IN \E i \in 1..(Len(t) - 1) :
              \/ Start([text |-> RemoveAt(t, i)])
              \/ Start([text |-> InsertAt(t, i, t[i])])
              \/ /\ i < Len(t) - 1
                 /\ Start([text |-> [t EXCEPT ![i] = t[i + 1], ![i + 1] = t[i]]])

MCInit == ShortText \/ Tree \/ Slip

MCSpec == MCInit /\ [][Next]_vars

-----------------------------------------------------------------------------
\* The parser accepts what the grammar derives and nothing else: no text is let
\* through with a token that was passed over, none is refused because an
\* earlier token decided for the wrong form.
AcceptsGrammar == outcome # "none" => ((outcome = "ok") <=> Derivable(test.text))

\* Every name, literal, keyword and operator that the parser has passed is in
\* the tree, in its order: no list, branch or annotation gets lost on the way.
Kept(tokens) ==
    LET Left == {"(", ")", "[", "]", "{", "}", ",", "::", "<", ">", "|", "||", "pub", "mut"}
    IN SelectSeq(tokens, LAMBDA t : t \notin Left)

NothingLost == Kept(Spelled(decls)) = Kept(SubSeq(test.text, 1, at - 1))

\* A tree that is written with the parentheses its operators need is read as
\* that tree: levels, grouping to the left and right, and what belongs to
\* which block, arm, branch or call.
ReadsBack ==
    "means" \in DOMAIN test /\ outcome # "none" => outcome = "ok" /\ decls = test.means

=============================================================================
