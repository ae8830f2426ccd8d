---------------------------- MODULE TypedSyntax ----------------------------
(***************************************************************************)
(* What the type checker reads of a program (src/include/ast.h): the tree    *)
(* of Syntax with its annotations, and the declarations in source order.     *)
(* A type is a kind with its parts; a named type has a name too.  An        *)
(* annotation that is left out is NoType.                                    *)
(***************************************************************************)
EXTENDS SequencesExt, Syntax, TLC

(* Types *)
Basic(kind) == [t |-> kind, kids |-> <<>>]
IntT == Basic("int")
FloatT == Basic("float")
BoolT == Basic("bool")
VoidT == Basic("void")
NoType == Basic("absent")
OptionT(t) == [t |-> "option", kids |-> <<t>>]
ArrayT(t) == [t |-> "array", kids |-> <<t>>]
TupleT(ts) == [t |-> "tuple", kids |-> ts]
FnT(ps, r) == [t |-> "fn", kids |-> Append(ps, r)]  \* the parameters, then the result
NamedT(name, args) == [t |-> "named", kids |-> args, name |-> name]
SelfT == Basic("self")
Primitives == {"int", "float", "double", "bool", "string"}

(* Annotated nodes *)
LetAs(name, ty, e) == Let(name, e) @@ [ty |-> ty]
TypedLambda(params, ptys, rty, body) == Lambda(params, body) @@ [ptys |-> ptys, rty |-> rty]
CallWith(targs, name, args) == CallOf(Ident(name), args) @@ [targs |-> targs]
NamedCall(name, fn, recv, args) == MethodCall(fn, recv, args) @@ [method |-> name]
StructWith(targs, name, inits) == StructInit(name, inits, Absent) @@ [targs |-> targs]

Annotation(let) == IF "ty" \in DOMAIN let THEN let.ty ELSE NoType
TypeArgs(n) == IF "targs" \in DOMAIN n THEN n.targs ELSE <<>>

(* Declarations *)
Generic(name, bounds) == [name |-> name, bounds |-> bounds]
FnDecl(name, generics, params, ptys, rty, body) ==
    [d |-> "fn", name |-> name, generics |-> generics, params |-> params, ptys |-> ptys,
     rty |-> rty, body |-> body]
StructDecl(name, generics, fields, ftys) ==
    [d |-> "struct", name |-> name, generics |-> generics, fields |-> fields, ftys |-> ftys]
ConstDecl(name, ty, e) == [d |-> "const", name |-> name, ty |-> ty, e |-> e]
TraitDecl(name, sigs) == [d |-> "trait", name |-> name, sigs |-> sigs]
Signature(name, params, ptys, rty) ==
    [name |-> name, params |-> params, ptys |-> ptys, rty |-> rty]
ImplDecl(trait, struct, methods) ==
    [d |-> "impl", trait |-> trait, name |-> struct, methods |-> methods]

OfKind(decls, kinds) == SelectSeq(decls, LAMBDA x : x.d \in kinds)

\* The functions a declaration brings: itself or its methods.
FunctionsOf(decl) ==
    IF decl.d = "fn" THEN <<decl>> ELSE IF decl.d = "impl" THEN decl.methods ELSE <<>>

Functions(decls) == FlattenSeq([i \in DOMAIN decls |-> FunctionsOf(decls[i])])

\* The program that is run, which has no annotations.
Erased(decls) ==
    LET Plain(x) ==
            IF x.d = "fn" THEN <<Fn(x.name, x.params, x.body)>>
            ELSE IF x.d = "impl"
            THEN [i \in DOMAIN x.methods |->
                     Method(x.name, x.methods[i].name, x.methods[i].params, x.methods[i].body)]
            ELSE <<>>
        consts == OfKind(decls, {"const"})
        structs == OfKind(decls, {"struct"})
    IN Source(FlattenSeq([i \in DOMAIN decls |-> Plain(decls[i])]),
              [i \in DOMAIN consts |-> Const(consts[i].name, consts[i].e)],
              [i \in DOMAIN structs |-> Struct(structs[i].name, structs[i].fields)])

=============================================================================
