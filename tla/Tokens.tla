------------------------------- MODULE Tokens -------------------------------
(***************************************************************************)
(* The tokens the parser reads (src/include/lexer.h), as strings: keywords    *)
(* and punctuation stand for themselves, and "error" is where the lexer       *)
(* gave up.                                                                 *)
(***************************************************************************)
EXTENDS TLC

CONSTANTS
    Names,      \* the identifiers
    TypeNames,  \* those that ident_looks_like_struct_type_name takes for a type's
    ValueOf     \* the value of a number or a string, Invalid for none

Invalid == [k |-> "invalid"]

\* The words that are values.
Words == "true" :> [k |-> "bool", v |-> 1] @@ "false" :> [k |-> "bool", v |-> 0]
         @@ "None" :> [k |-> "none", v |-> 0]

Keywords ==
    {"fn", "struct", "trait", "impl", "const", "macro", "use", "pub", "mut", "let", "return", "throw",
     "if", "else", "match", "for", "in", "try", "catch", "finally",
     "int", "float", "double", "bool", "string"}

Punctuation ==
    {"(", ")", "{", "}", "[", "]", ",", ";", ":", "::", ".", "..", "->", "=>", "|", "&",
     "=", "||", "&&", "==", "!=", "<", ">", "<=", ">=", "+", "-", "*", "/", "%", "!", "$"}

ASSUME TokenKinds ==
    /\ TypeNames \subseteq Names
    /\ "_" \notin TypeNames
    /\ Names \cap DOMAIN ValueOf = {}
    /\ (Names \cup DOMAIN ValueOf) \cap (DOMAIN Words \cup Keywords \cup Punctuation \cup {"eof", "error"}) = {}

=============================================================================
