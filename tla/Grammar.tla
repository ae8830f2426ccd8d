------------------------------ MODULE Grammar ------------------------------
(***************************************************************************)
(* The language the parser is meant to read, as a grammar: the rules of      *)
(* src/mons_grammar.ebnf without macros, amended [+] where the code is known   *)
(* to read something else.  A rule has its alternatives, sequences of rules, *)
(* classes of tokens and tokens.                                            *)
(***************************************************************************)
EXTENDS Naturals, Sequences, Tokens

\* INT_LIT and STRING_LIT are literals that mean something.
Meant(kinds) == {t \in DOMAIN ValueOf : ValueOf[t].k \in kinds}

Classes ==
    [IDENT |-> Names,
     TYPE |-> TypeNames,
     VAR |-> Names \ TypeNames,
     NOT_WILD |-> Names \ {"_"},
     PLAIN |-> Names \ {"Self", "Option", "Result"},
     ARG2 |-> {"Option", "Result"},
     PRIMITIVE |-> {"int", "float", "double", "bool", "string"},
     LITERAL |-> DOMAIN Words \cup Meant({"int", "float", "double", "string"}),
     PAT_LITERAL |-> DOMAIN Words \cup Meant({"int", "string"}),
     EQ_OP |-> {"==", "!="}, CMP_OP |-> {"<", ">", "<=", ">="},
     ADD_OP |-> {"+", "-"}, MUL_OP |-> {"*", "/", "%"}, UNARY_OP |-> {"!", "-"}]

\* What must not come next.
Lookahead == [no_brace |-> "{", no_bracket |-> "["]

DeclarationRules ==
    [program |-> {<<>>, <<"decl", "program">>},
     decl |-> {<<"use_decl">>}
              \cup {<<"pub?", d>> : d \in {"fn_decl", "struct_decl", "trait_decl", "impl_decl", "const_decl"}},
     use_decl |-> {<<"use", "IDENT", "use_path", ";">>},
     \* [+] a star needs no braces, and is alone in them
     use_path |-> {<<>>, <<"::", "IDENT", "use_path">>, <<"::", "*">>,
                   <<"::", "{", "*", "}">>, <<"::", "{", "names", "}">>},
     names |-> {<<"IDENT", "more_names">>},
     more_names |-> {<<>>, <<",", "names">>},
     const_decl |-> {<<"const", "IDENT", ":", "type", "=", "expr", ";">>},
     fn_decl |-> {<<"fn", "IDENT", "generics?", "(", "params?", ")", "result?", "block">>},
     struct_decl |-> {<<"struct", "IDENT", "generics?", "{", "fields", "}">>},
     fields |-> {<<>>, <<"pub?", "mut?", "IDENT", ":", "type", ",", "fields">>},
     \* [+] no type parameters, no bounds, no default methods
     trait_decl |-> {<<"trait", "IDENT", "{", "sigs", "}">>},
     sigs |-> {<<>>, <<"fn", "IDENT", "(", "params?", ")", "result?", ";", "sigs">>},
     impl_decl |-> {<<"impl", "generics?", "IDENT", "for?", "generics?", "{", "methods", "}">>},
     methods |-> {<<>>, <<"pub?", "fn_decl", "methods">>},
     params |-> {<<"mut?", "IDENT", ":", "type", "more_params">>},
     more_params |-> {<<>>, <<",", "params">>},
     generics |-> {<<"IDENT", "bounds?", "more_generics">>},
     more_generics |-> {<<>>, <<",", "generics">>},
     bounds |-> {<<"IDENT", "more_bounds">>},
     more_bounds |-> {<<>>, <<"+", "bounds">>}]
    @@ "pub?" :> {<<>>, <<"pub">>} @@ "mut?" :> {<<>>, <<"mut">>}
    @@ "params?" :> {<<>>, <<"params">>} @@ "result?" :> {<<>>, <<"->", "type">>}
    @@ "generics?" :> {<<>>, <<"[", "generics", "]">>}
    @@ "bounds?" :> {<<>>, <<":", "bounds">>}
    @@ "for?" :> {<<>>, <<"for", "IDENT">>}

TypeRules ==
    \* [+] a tuple and the arguments of a name may be empty; Self has none,
    \* Option and Result the right number
    [type |-> {<<"PRIMITIVE">>, <<"[", "type", "]">>, <<"&", "mut?", "type">>,
               <<"fn", "(", "types?", ")", "->", "type">>, <<"(", "types?", ")">>,
               <<"PLAIN", "type_args?">>, <<"Self", "no_bracket">>, <<"ARG2", "no_bracket">>,
               <<"Option", "[", "type", "]">>, <<"Result", "[", "type", ",", "type", "]">>},
     types |-> {<<"type", "more_types">>},
     more_types |-> {<<>>, <<",", "types">>}]
    @@ "types?" :> {<<>>, <<"types">>} @@ "type_args?" :> {<<>>, <<"[", "types?", "]">>}

StatementRules ==
    \* [+] a for and a try end with a semicolon too
    [stmt |-> {<<"let", "mut?", "IDENT", "annotation?", "=", "expr", ";">>,
               <<"return", "expr?", ";">>, <<"throw", "expr", ";">>,
               <<"for", "IDENT", "in", "expr", "block", ";">>,
               <<"try", "block", "catches", ";">>},
     catches |-> {<<>>, <<"finally", "block">>,
                  <<"catch", "(", "IDENT", ":", "type", ")", "block", "catches">>},
     block |-> {<<"{", "stmts", "}">>},
     stmts |-> {<<>>, <<"stmt", "stmts">>, <<"expr", "more_stmts">>},
     more_stmts |-> {<<>>, <<";", "stmts">>}]
    @@ "annotation?" :> {<<>>, <<":", "type">>} @@ "expr?" :> {<<>>, <<"expr">>}

ExpressionRules ==
    [expr |-> {<<"or_expr", "assign">>},
     assign |-> {<<>>, <<"=", "expr">>},
     or_expr |-> {<<"and_expr", "more_or">>}, more_or |-> {<<>>, <<"||", "or_expr">>},
     and_expr |-> {<<"eq_expr", "more_and">>}, more_and |-> {<<>>, <<"&&", "and_expr">>},
     eq_expr |-> {<<"cmp_expr", "more_eq">>}, more_eq |-> {<<>>, <<"EQ_OP", "eq_expr">>},
     cmp_expr |-> {<<"add_expr", "more_cmp">>}, more_cmp |-> {<<>>, <<"CMP_OP", "cmp_expr">>},
     add_expr |-> {<<"mul_expr", "more_add">>}, more_add |-> {<<>>, <<"ADD_OP", "add_expr">>},
     mul_expr |-> {<<"unary_expr", "more_mul">>}, more_mul |-> {<<>>, <<"MUL_OP", "mul_expr">>},
     unary_expr |-> {<<"UNARY_OP", "unary_expr">>, <<"primary", "postfix">>},
     postfix |-> {<<>>, <<".", "IDENT", "call?", "postfix">>, <<"[", "expr", "]", "postfix">>,
                  <<"(", "exprs?", ")", "postfix">>},
     exprs |-> {<<"expr", "more_exprs">>},
     more_exprs |-> {<<>>, <<",", "exprs">>},
     primary |-> {<<"LITERAL">>, <<"if_expr">>, <<"match", "expr", "{", "arms", "}">>,
                  <<"block">>, <<"[", "exprs?", "]">>, <<"lambda">>, <<"grouped">>, <<"name_expr">>},
     \* [+] "(1, 2)", not "(1, 2,)"
     grouped |-> {<<"(", "expr", "more_tuple", ")">>},
     more_tuple |-> {<<>>, <<",", "exprs?">>},
     \* [+] a name is one in parentheses too; one that looks like a type's and
     \* has a brace behind it begins a struct literal; type arguments belong to
     \* names, and an empty list of them means nothing
     name_expr |-> {<<"var_name", "no_args", "call_with?">>,
                    <<"type_name", "no_args", "no_brace", "call_with?">>,
                    <<"type_name", "no_args", "targs?", "{", "inits", "}">>},
     var_name |-> {<<"VAR">>, <<"(", "var_name", ")">>},
     type_name |-> {<<"TYPE">>, <<"(", "type_name", ")">>},
     grouped_type |-> {<<"(", "type_name", ")">>},
     no_args |-> {<<>>, <<"::", "<", ">", "no_args">>},
     targs |-> {<<"::", "<", "types", ">">>},
     inits |-> {<<>>, <<"IDENT", ":", "expr", ",", "inits">>, <<"..", "expr", "comma?">>},
     if_expr |-> {<<"if", "expr", "block", "else?">>},
     else_body |-> {<<"block">>, <<"if_expr">>},
     lambda |-> {<<"||", "result?", "expr">>, <<"|", "lambda_params", "|", "result?", "expr">>},
     \* [+] a last comma
     lambda_params |-> {<<>>, <<"mut?", "IDENT", "annotation?", "more_lambda">>},
     more_lambda |-> {<<>>, <<",", "lambda_params">>},
     \* [+] an expression that begins with a block is not an arm's
     arms |-> {<<>>, <<"pattern", "guard?", "=>", "arm_body", "arms">>},
     arm_body |-> {<<"block">>, <<"no_brace", "expr", ",">>}]
    @@ "call?" :> {<<>>, <<"(", "exprs?", ")">>} @@ "exprs?" :> {<<>>, <<"exprs">>}
    @@ "targs?" :> {<<>>, <<"targs">>} @@ "call_with?" :> {<<>>, <<"targs", "(", "exprs?", ")">>}
    @@ "comma?" :> {<<>>, <<",">>}
    @@ "guard?" :> {<<>>, <<"if", "expr">>}
    @@ "else?" :> {<<>>, <<"else", "else_body">>}

PatternRules ==
    [pattern |-> {<<"one_pattern", "more_or_pattern">>},
     more_or_pattern |-> {<<>>, <<"|", "pattern">>},
     \* [+] parentheses group, floats are no patterns, None is a variant
     one_pattern |-> {<<"PAT_LITERAL">>, <<"IDENT">>, <<"NOT_WILD", "::", "variant", "pattern_args?">>,
                      <<"TYPE", "{", "field_patterns", "}">>,
                      <<"(", "pattern", "more_tuple_pattern", ")">>,
                      <<"[", "patterns?", "]">>},
     variant |-> {<<"IDENT">>, <<"None">>},
     patterns |-> {<<"pattern", "more_patterns">>},
     more_patterns |-> {<<>>, <<",", "patterns">>},
     more_tuple_pattern |-> {<<>>, <<",">>, <<",", "pattern", "more_tuple_pattern">>},
     \* [+] the last comma may be left out, and has to be before ".."
     field_patterns |-> {<<>>, <<"IDENT", "field_value?", "more_field_patterns">>},
     more_field_patterns |-> {<<>>, <<"..">>, <<",", "field_patterns">>}]
    @@ "pattern_args?" :> {<<>>, <<"(", "patterns?", ")">>} @@ "patterns?" :> {<<>>, <<"patterns">>}
    @@ "field_value?" :> {<<>>, <<":", "pattern">>}

Rules == DeclarationRules @@ TypeRules @@ StatementRules @@ ExpressionRules @@ PatternRules

\* [+] "(T)" in front of a brace is not an expression in parentheses.
Except == "grouped" :> "grouped_type"

-----------------------------------------------------------------------------
\* The positions where a derivation from x that begins at i may end, and one
\* from the rest of a row from its k-th symbol on.
RECURSIVE Ends(_, _, _)
RECURSIVE RowEnds(_, _, _, _)

RowEnds(row, k, i, text) ==
    IF k > Len(row) THEN {i}
    ELSE UNION {RowEnds(row, k + 1, j, text) : j \in Ends(row[k], i, text)}

Ends(x, i, text) ==
    IF x \in DOMAIN Rules
    THEN UNION {RowEnds(row, 1, i, text) : row \in Rules[x]}
         \ (IF x \in DOMAIN Except THEN Ends(Except[x], i, text) ELSE {})
    ELSE IF x \in DOMAIN Lookahead THEN (IF text[i] = Lookahead[x] THEN {} ELSE {i})
    ELSE IF text[i] \in (IF x \in DOMAIN Classes THEN Classes[x] ELSE {x}) THEN {i + 1} ELSE {}

Derivable(text) == \E i \in Ends("program", 1, text) : text[i] = "eof"

=============================================================================
