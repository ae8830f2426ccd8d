------------------------------- MODULE Syntax -------------------------------
(***************************************************************************)
(* The typed syntax tree (src/include/ast.h), as records.  Field k is the   *)
(* kind of the node; Absent is a NULL child.  Variables, functions and      *)
(* structs have names, fields have numbers.  ty is the numeric type of the  *)
(* operands (bc_ty, which the type checker sets).  A method call holds the  *)
(* number of the function the type checker resolved it to.                  *)
(***************************************************************************)
EXTENDS Naturals, Sequences

Absent == [k |-> "absent"]

(* Expressions *)
Literal(kind, v) == [k |-> "lit", value |-> [k |-> kind, v |-> v]]
Ident(name) == [k |-> "ident", name |-> name]
Unary(op, ty, e) == [k |-> "unary", op |-> op, ty |-> ty, e |-> e]
Binary(op, ty, l, r) == [k |-> "binary", op |-> op, ty |-> ty, l |-> l, r |-> r]
Assign(name, e) == [k |-> "assign", name |-> name, e |-> e]
If(branches, els) == [k |-> "if", branches |-> branches, els |-> els]
Branch(cond, body) == [k |-> "branch", cond |-> cond, body |-> body]
Match(e, arms) == [k |-> "match", e |-> e, arms |-> arms]
Arm(pat, guard, body) == [k |-> "arm", pat |-> pat, guard |-> guard, body |-> body]
CallOf(callee, args) == [k |-> "call", callee |-> callee, items |-> args]
MethodCall(fn, recv, args) == [k |-> "method", fn |-> fn, items |-> <<recv>> \o args]
FieldOf(e, field) == [k |-> "field", e |-> e, field |-> field]
IndexOf(l, r) == [k |-> "index", l |-> l, r |-> r]
Lambda(params, body) == [k |-> "lambda", params |-> params, body |-> body]
StructInit(name, inits, base) ==
    [k |-> "struct", name |-> name, inits |-> inits, base |-> base]
FieldInit(field, e) == [k |-> "init", field |-> field, e |-> e]
Sequence(kind, items) == [k |-> kind, items |-> items]  \* "array" or "tuple"

(* Blocks and statements *)
Block(stmts, tail) == [k |-> "block", stmts |-> stmts, tail |-> tail]
Let(name, e) == [k |-> "let", name |-> name, e |-> e]
Return(e) == [k |-> "return", e |-> e]
ExprStmt(e) == [k |-> "expr", e |-> e]
For(name, e, body) == [k |-> "for", name |-> name, e |-> e, body |-> body]
Throw(e) == [k |-> "throw", e |-> e]
Try(body, catches, fin) == [k |-> "try", body |-> body, catches |-> catches, fin |-> fin]
Catch(name, prim, body) == [k |-> "catch", name |-> name, prim |-> prim, body |-> body]
Statements == {"let", "return", "expr", "for", "throw", "try"}

(* Patterns *)
Wildcard == [k |-> "wildcard"]
Bind(name) == [k |-> "bind", name |-> name]
LiteralPat(lit) == [k |-> "lit", lit |-> lit]
NonePat == [k |-> "none"]                       \* Option::None
SomePat(inner) == [k |-> "some", inner |-> inner]  \* Option::Some(inner)
OrPat(l, r) == [k |-> "or", l |-> l, r |-> r]
StructPat(name, fields) == [k |-> "struct", name |-> name, fields |-> fields]
FieldPat(field, name, inner) ==
    [k |-> "field", field |-> field, name |-> name, inner |-> inner]

(* Declarations; impl is the struct a method belongs to, "" for a function. *)
Fn(name, params, body) == [name |-> name, params |-> params, body |-> body, impl |-> ""]
Method(struct, name, params, body) ==
    [name |-> name, params |-> params, body |-> body, impl |-> struct]
Const(name, e) == [name |-> name, e |-> e]
Struct(name, fields) == [name |-> name, fields |-> fields]
Source(fns, consts, structs) == [fns |-> fns, consts |-> consts, structs |-> structs]

(* Which declaration a name means: the first of that name. *)
First(S) == {i \in S : \A j \in S : i <= j}
The(S) == CHOOSE x \in S : TRUE

FnNamed(src, name) == First({i \in DOMAIN src.fns : src.fns[i].name = name})
StructNamed(src, name) == First({i \in DOMAIN src.structs : src.structs[i].name = name})
ConstNamed(src, name) == First({i \in DOMAIN src.consts : src.consts[i].name = name})

FieldNumber(struct, field) == First({i \in DOMAIN struct.fields : struct.fields[i] = field})

=============================================================================
