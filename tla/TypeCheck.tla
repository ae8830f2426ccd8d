----------------------------- MODULE TypeCheck -----------------------------
(***************************************************************************)
(* The type checker, type_check_program (src/src/types.c): its passes over   *)
(* the declarations are actions, the check of one declaration is an          *)
(* operator.  A Checker c is passed along:                                  *)
(*                                                                         *)
(*   program the program that is checked                                      *)
(*   bind    what each type variable is bound to, Free for none; all chains  *)
(*           are compressed at once, prune does it when it next looks         *)
(*   bounds  as.var.trait_bounds of each                                     *)
(*   env     the frames, innermost last; the first is global_env              *)
(*   want    expected_return          depth   catch_try_depth                 *)
(*   val     the type the C function that has just returned returned          *)
(*   ok      FALSE if it returned false or NULL because two types differ      *)
(*   error   the first error, "" when there is none: "vague" where a type     *)
(*           is still a variable and must not be, else "wrong"; "crash"       *)
(*           where the code follows a null pointer                            *)
(*   mute    history: two types have differed without an error                *)
(*                                                                         *)
(* A type is a term (Unify is about the graph it is in memory); the parts     *)
(* of a struct type are its fields.  Null is a NULL type.                     *)
(***************************************************************************)
EXTENDS Integers, TypedSyntax

CONSTANTS
    Programs,   \* the programs to check
    DeclsIn(_)  \* the declarations of each, in source order

Free == Basic("free")
Null == Basic("null")
Var(i) == [t |-> "var", kids |-> <<>>, id |-> i]
IsVar(t) == t.t = "var"
Numbers == {"int", "float", "double"}
Schemas == {"genericfn", "genericstruct"}

-----------------------------------------------------------------------------
(* Results *)

Failed(c) == c.error # ""

Gives(c, t) == [c EXCEPT !.val = t, !.ok = ~Failed(c)]
Yes(c) == [c EXCEPT !.ok = ~Failed(c)]
Differs(c) == [c EXCEPT !.val = Null, !.ok = FALSE]

\* ... and nobody is told.
Silently(c) == [Differs(c) EXCEPT !.mute = TRUE]

\* checker_fail
CheckerFail(c, msg) == [Differs(c) EXCEPT !.error = IF @ = "" THEN msg ELSE @]

\* A type of a shape that is not allowed where it is: followed if it is NULL.
Misfit(c, t) ==
    CheckerFail(c, IF t = Null THEN "crash" ELSE IF IsVar(t) THEN "vague" ELSE "wrong")

\* F goes on from c unless there has been an error; unless types differ, too.
Then(c, F(_)) == IF Failed(c) THEN c ELSE F(c)
IfOk(c, F(_)) == IF c.ok THEN F(c) ELSE Differs(c)

\* The checks of the elements of xs in turn; val is the sequence of the results.
Collect(c, xs, Check(_, _)) ==
    LET Add(c1, vals) == [c |-> c1, vals |-> Append(vals, c1.val)]
        Step(acc, x) == Add(Check(acc.c, x), acc.vals)
        Pack(all) == Gives(all.c, all.vals)
    IN Pack(FoldLeft(Step, [c |-> c, vals |-> <<>>], xs))

-----------------------------------------------------------------------------
(* Variables and unification *)

\* new_var
NewVar(c) ==
    Gives([c EXCEPT !.bind = Append(@, Free), !.bounds = Append(@, <<>>)], Var(Len(c.bind) + 1))

Prune(c, t) == IF IsVar(t) /\ c.bind[t.id] # Free THEN c.bind[t.id] ELSE t

\* (faulty variant: what is bound to v keeps pointing at it)
BindOnly(c, v, t) == [c EXCEPT !.ok = TRUE, !.bind[v.id] = t]

BindVar(c, v, t) ==
    [c EXCEPT !.ok = TRUE,
              !.bind = [i \in DOMAIN @ |-> IF i = v.id \/ @[i] = v THEN t ELSE @[i]]]

\* Two composite types that differ here differ silently.
SameShape(a, b) ==
    /\ a.t \notin Schemas
    /\ IF a.t = "struct" THEN a.name = b.name ELSE Len(a.kids) = Len(b.kids)

RECURSIVE Parts(_, _), Unify(_, _, _)

\* What occurs in a type.  The fields of a struct hold no variables.
Parts(c, t) ==
    LET Below(p) == {p} \cup UNION {Parts(c, p.kids[i]) :
                                       i \in IF p.t = "struct" THEN {} ELSE DOMAIN p.kids}
    IN Below(Prune(c, t))

BindUnlessIn(c, v, t, parts) ==
    IF v \in parts THEN CheckerFail(c, "wrong")
    ELSE IF Null \in parts THEN CheckerFail(c, "crash")
    ELSE BindVar(c, v, t)

UnifyVar(c, v, t) == IF v = t THEN Yes(c) ELSE BindUnlessIn(c, v, t, Parts(c, t))

UnifyKids(c, as, bs) ==
    FoldLeftDomain(LAMBDA acc, i : IF acc.ok THEN Unify(acc, as[i], bs[i]) ELSE acc, Yes(c), as)

UnifyPruned(c, a, b) ==
    IF Null \in {a, b} THEN CheckerFail(c, "wrong")
    ELSE IF IsVar(a) \/ IsVar(b)
    THEN UnifyVar(c, IF IsVar(a) THEN a ELSE b, IF IsVar(a) THEN b ELSE a)
    ELSE IF a.t # b.t THEN CheckerFail(c, "wrong")
    ELSE IF ~SameShape(a, b) THEN Silently(c)
    ELSE UnifyKids(c, IF a.t = "struct" THEN <<>> ELSE a.kids, b.kids)

Unify(c, a, b) ==
    Then(c, LAMBDA c1 : UnifyPruned(c1, Prune(c1, a), Prune(c1, b)))

\* The type t if a and b unify.
Equate(c, a, b, t) == IfOk(Unify(c, a, b), LAMBDA u : Gives(u, t))

\* The common type of the branches so far, acc, and one more.
Join(c, acc, t) == IF acc = Null THEN Gives(c, t) ELSE Equate(c, acc, t, acc)

-----------------------------------------------------------------------------
(* Environments *)

NoTypes == [x \in {} |-> Null]
Push(c, frame) == [c EXCEPT !.env = Append(@, frame)]
Restore(c, c0) == [c EXCEPT !.env = c0.env, !.want = c0.want, !.depth = c0.depth]

Insert(c, name, t) == [c EXCEPT !.env[Len(c.env)] = (name :> t) @@ @]
InsertGlobal(c, name, t) == [c EXCEPT !.env[1] = (name :> t) @@ @]
FrameOf(names, types) ==
    FoldLeftDomain(LAMBDA f, i : (names[i] :> types[i]) @@ f, NoTypes, names)

Lookup(c, name) ==
    LET holders == {d \in DOMAIN c.env : name \in DOMAIN c.env[d]}
    IN IF holders = {} THEN Null
       ELSE c.env[CHOOSE d \in holders : \A e \in holders : e <= d][name]

Global(c, name) == IF name \in DOMAIN c.env[1] THEN Prune(c, c.env[1][name]) ELSE Null

Decls(c) == DeclsIn(c.program)

DeclsOf(c, kind, name) == SelectSeq(Decls(c), LAMBDA x : x.d = kind /\ x.name = name)

ImplExists(c, struct, trait) ==
    \E d \in ToSet(Decls(c)) : d.d = "impl" /\ d.trait = trait /\ <<d.name>> = struct

\* check_subst_satisfies_bounds
CheckBounds(c, t, bounds) ==
    IF Failed(c) \/ bounds = <<>> THEN c
    ELSE IF Prune(c, t).t # "struct" THEN CheckerFail(c, "wrong")
    ELSE IF \E i \in DOMAIN bounds : ~ImplExists(c, Prune(c, t).name, bounds[i])
    THEN CheckerFail(c, "wrong")
    ELSE c

-----------------------------------------------------------------------------
(* Types from annotations *)

RECURSIVE ToType(_, _, _)

ToTypes(c, tys, names) == Collect(c, tys, LAMBDA acc, ty : ToType(acc, ty, names))

\* The type arguments for generic parameters.
Arguments(c, generics, targs) ==
    LET Check(acc, i) == CheckBounds(acc, acc.val[i], generics[i].bounds)
    IN IF Len(generics) # Len(targs) THEN CheckerFail(c, "wrong")
       ELSE FoldLeftDomain(Check, ToTypes(c, targs, NoTypes), targs)

NamesOf(generics) == [i \in DOMAIN generics |-> generics[i].name]

\* append_mangled_type: what can be part of the name of an instance.
Mangled == {"int", "float", "double", "bool", "string", "struct", "array", "option", "tuple"}

Shape(c, ts) == UNION {{p.t : p \in Parts(c, ts[i])} : i \in DOMAIN ts}

\* An instance of a generic struct has its arguments in its name.
InstantiateStruct(c, decl, targs) ==
    LET Instance(fields, args) ==
            IF Shape(fields, args) \subseteq Mangled
            THEN Gives(fields, [t |-> "struct", kids |-> fields.val, fields |-> decl.fields,
                                name |-> <<decl.name>> \o args])
            ELSE CheckerFail(fields, "wrong")
        Fields(c1) ==
            Instance(ToTypes(c1, decl.ftys, FrameOf(NamesOf(decl.generics), c1.val)), c1.val)
    IN Then(Arguments(c, decl.generics, targs), Fields)

NamedType(c, ty, got) ==
    IF got.t = "genericstruct" /\ ty.kids # <<>> THEN InstantiateStruct(c, got.decl, ty.kids)
    ELSE IF got.t # "struct" \/ ty.kids # <<>> THEN CheckerFail(c, "wrong")
    ELSE Gives(c, got)

ComposedType(c, ty) == Gives(c, [ty EXCEPT !.kids = c.val])

\* ast_type_to_type_ex; names are the type parameters in scope.
ToType(c, ty, names) ==
    IF Failed(c) THEN c ELSE
    CASE ty.t = "absent" -> Gives(c, VoidT)
      [] ty.t \in Primitives -> Gives(c, ty)
      [] ty.t = "named" /\ ty.name \in DOMAIN names -> Gives(c, names[ty.name])
      [] ty.t = "named" /\ ty.name \notin DOMAIN names -> NamedType(c, ty, Global(c, ty.name))
      [] ty.t = "self" -> IF "Self" \in DOMAIN names THEN Gives(c, names["Self"])
                          ELSE CheckerFail(c, "wrong")
      [] OTHER -> ComposedType(ToTypes(c, ty.kids, names), ty)

ResultOf(c, rty, names, inferred) ==
    IF rty # NoType THEN ToType(c, rty, names)
    ELSE IF inferred THEN NewVar(c) ELSE Gives(c, VoidT)

\* The type of a function, from annotations; a missing result is inferred or void.
FnOf(c, ptys, rty, names, inferred) ==
    LET Whole(ret, params) == Gives(ret, FnT(params, ret.val))
    IN Then(ToTypes(c, ptys, names),
            LAMBDA c1 : Whole(ResultOf(c1, rty, names, inferred), c1.val))

\* A parameter needs a type; a result that is not annotated is a variable.
SignatureOf(c, d, names) ==
    IF NoType \in ToSet(d.ptys) THEN CheckerFail(c, "wrong")
    ELSE FnOf(c, d.ptys, d.rty, names, TRUE)

InstantiateFn(c, decl, targs) ==
    Then(Arguments(c, decl.generics, targs),
         LAMBDA c1 : SignatureOf(c1, decl, FrameOf(NamesOf(decl.generics), c1.val)))

-----------------------------------------------------------------------------
(* Patterns *)

RECURSIVE Alternatives(_), HasBind(_), CheckPattern(_, _, _), BindPattern(_, _, _)

Alternatives(pat) ==
    IF pat.k = "or" THEN Alternatives(pat.l) \cup Alternatives(pat.r) ELSE {pat}

Covers(pat, lit, kind) ==
    \/ pat.k \in {"wildcard", "bind", kind}
    \/ pat.k = "lit" /\ pat.lit.value.k = lit.k /\ pat.lit.value.v = lit.v

\* match_exhaustive_for_type: a guard does not matter, nor what is in Some.
Exhaustive(t, arms) ==
    LET pats == UNION {Alternatives(arms[i].pat) : i \in DOMAIN arms}
        Covered(kind, v, pattern) ==
            \E p \in pats : Covers(p, [k |-> kind, v |-> v], pattern)
    IN \/ \E p \in pats : p.k = "wildcard"
       \/ t.t = "bool" /\ Covered("bool", 1, "-") /\ Covered("bool", 0, "-")
       \/ t.t = "option" /\ Covered("none", 0, "none") /\ Covered("-", 0, "some")
       \/ t.t \in Numbers \cup {"string"} /\ \E i \in DOMAIN arms : arms[i].pat.k = "bind"

\* struct_field_type
FieldType(t, field) ==
    IF t.t = "struct" /\ FieldNumber(t, field) # {} THEN t.kids[The(FieldNumber(t, field))]
    ELSE Null

CheckFieldPattern(c, t, fp) ==
    IF ~c.ok THEN c
    ELSE IF FieldType(t, fp.field) = Null THEN CheckerFail(c, "wrong")
    ELSE IF fp.inner = Absent THEN c
    ELSE CheckPattern(c, FieldType(t, fp.field), fp.inner)

StructFits(c, s, pat) ==
    IF s.t # "struct" THEN Misfit(c, s)
    ELSE IF s.name # <<pat.name>> THEN CheckerFail(c, "wrong")
    ELSE FoldLeft(LAMBDA acc, fp : CheckFieldPattern(acc, s, fp), Yes(c), pat.fields)

LiteralFits(c, s, kind) ==
    LET OfAny(c1) == Unify(c1, OptionT(c1.val), s)
    IN IF kind = "none" THEN OfAny(NewVar(c)) ELSE Unify(c, Basic(kind), s)

\* check_pat_shape, s is pruned: ok says whether the pattern fits.
PatternFits(c, s, pat) ==
    CASE pat.k \in {"wildcard", "bind"} -> Yes(c)
      [] pat.k = "or" -> IfOk(CheckPattern(c, s, pat.l), LAMBDA l : CheckPattern(l, s, pat.r))
      [] pat.k = "lit" -> LiteralFits(c, s, pat.lit.value.k)
      [] pat.k = "none" -> IF s.t = "option" THEN Yes(c) ELSE Silently(c)
      [] pat.k = "some" -> IF s.t = "option" THEN CheckPattern(c, s.kids[1], pat.inner)
                           ELSE Misfit(c, s)
      [] pat.k = "struct" -> StructFits(c, s, pat)

CheckPattern(c, subj, pat) == PatternFits(c, Prune(c, subj), pat)

HasBind(pat) ==
    CASE pat.k = "bind" -> TRUE
      [] pat.k = "or" -> HasBind(pat.l) \/ HasBind(pat.r)
      [] pat.k = "some" -> HasBind(pat.inner)
      [] pat.k = "struct" -> \E i \in DOMAIN pat.fields :
                                 pat.fields[i].inner = Absent \/ HasBind(pat.fields[i].inner)
      [] OTHER -> FALSE

\* pat_bind_env: the names of a pattern that fits, in the frame on top.
BindPattern(c, subj, pat) ==
    LET s == Prune(c, subj)
        BindField(acc, fp) ==
            IF fp.inner = Absent THEN Insert(acc, fp.name, FieldType(s, fp.field))
            ELSE BindPattern(acc, FieldType(s, fp.field), fp.inner)
    IN CASE pat.k = "bind" -> Insert(c, pat.name, s)
         [] pat.k = "or" -> IF HasBind(pat) THEN CheckerFail(c, "wrong") ELSE c
         [] pat.k = "some" -> BindPattern(c, s.kids[1], pat.inner)
         [] pat.k = "struct" -> FoldLeft(BindField, c, pat.fields)
         [] OTHER -> c

-----------------------------------------------------------------------------
(* Expressions *)

RECURSIVE Infer(_, _)

\* (faulty variant: whatever it is)
AnyType(c, t) == IF t = Null THEN Misfit(c, t) ELSE Gives(c, t)

NumberType(c, t) == IF t.t \in Numbers THEN Gives(c, t) ELSE Misfit(c, t)

UnaryType(e, op) ==
    IF op = "not" THEN Equate(e, e.val, BoolT, BoolT) ELSE NumberType(e, Prune(e, e.val))

\* Both operands have type t, which is the result too.
BothOf(c, l, r, t) == IfOk(Unify(c, l, t), LAMBDA u : Equate(u, r, t, t))

BinaryType(c, op, l, r) ==
    CASE op \in {"and", "or", "mod"} -> BothOf(c, l, r, IF op = "mod" THEN IntT ELSE BoolT)
      [] op \in {"eq", "ne", "lt", "gt", "lte", "gte"} -> Equate(c, l, r, BoolT)
      [] OTHER -> IfOk(Unify(c, l, r), LAMBDA u : NumberType(u, Prune(u, l)))

InferBinary(c, n) ==
    LET Right(l) == Then(Infer(l, n.r), LAMBDA r : BinaryType(r, n.op, l.val, r.val))
    IN Right(Infer(c, n.l))

InferIdent(c, name) ==
    IF Lookup(c, name) = Null THEN CheckerFail(c, "wrong") ELSE Gives(c, Lookup(c, name))

InferAssign(c, n) ==
    LET To(e, t) == IF t = Null THEN CheckerFail(e, "wrong") ELSE Equate(e, t, e.val, e.val)
    IN Then(Infer(c, n.e), LAMBDA e : To(e, Lookup(e, n.name)))

\* (faulty variant: an argument too few is no error)
InferSomeArgs(c, params, args, ret) ==
    LET Argument(acc, i) ==
            IF i > Len(params) THEN CheckerFail(acc, "wrong")
            ELSE Then(Infer(acc, args[i]), LAMBDA e : Equate(e, e.val, params[i], e.val))
        Step(acc, i) == IF acc.ok THEN Argument(acc, i) ELSE acc
    IN IfOk(FoldLeftDomain(Step, Yes(c), args), LAMBDA c1 : Gives(c1, ret))

\* The arguments against the parameters, up to the first that differs.
InferArgs(c, params, args, ret) ==
    LET Argument(acc, i) ==
            IF i > Len(params) THEN CheckerFail(acc, "wrong")
            ELSE Then(Infer(acc, args[i]), LAMBDA e : Equate(e, e.val, params[i], e.val))
        Step(acc, i) == IF acc.ok THEN Argument(acc, i) ELSE acc
        End(c1) == IF Len(args) < Len(params) THEN CheckerFail(c1, "wrong") ELSE Gives(c1, ret)
    IN IfOk(FoldLeftDomain(Step, Yes(c), args), End)

ApplyFn(c, fn, args) ==
    IF fn.t = "fn" THEN InferArgs(c, Front(fn.kids), args, Last(fn.kids)) ELSE Misfit(c, fn)

\* Type arguments are for generic functions; no variable is one.
InferCallee(c, n) ==
    IF TypeArgs(n) = <<>> \/ Global(c, n.callee.name) = Null THEN Infer(c, n.callee)
    ELSE IF Global(c, n.callee.name).t # "genericfn" THEN CheckerFail(c, "wrong")
    ELSE InstantiateFn(c, Global(c, n.callee.name).decl, n.targs)

InferCall(c, n) ==
    Then(InferCallee(c, n), LAMBDA f : ApplyFn(f, Prune(f, f.val), n.items))

\* method_receiver_struct_matches
TakesSelf(fn, struct) ==
    /\ fn.params # <<>>
    /\ fn.params[1] = "self"
    /\ fn.ptys[1].t = "named"
    /\ struct.t = "struct" /\ struct.name = <<fn.ptys[1].name>>

\* find_trait_method_sig_for_typevar: the signature in each of the bounds.
Signatures(c, bounds, method) ==
    LET In(trait) == SelectSeq(trait.sigs, LAMBDA sig : sig.name = method)
        Of(b) == {<<b, Head(In(x))>> : x \in {y \in ToSet(DeclsOf(c, "trait", b)) : In(y) # <<>>}}
    IN UNION {Of(b) : b \in ToSet(bounds)}

\* fn_type_from_trait_method_sig: Self is the type parameter.
SignatureType(c, sig, self) ==
    FnOf(c, sig.ptys, sig.rty,
         (IF sig.ptys[1].t = "named" THEN sig.ptys[1].name ELSE "Self") :> self, FALSE)

BoundedMethod(c, sigs, self) ==
    IF Cardinality(sigs) # 1 THEN CheckerFail(c, "wrong")
    ELSE SignatureType(c, The(sigs)[2], self)

GlobalMethod(c, name, self) ==
    LET fns == ToSet(Functions(Decls(c)))
    IN IF ~\E fn \in fns : fn.name = name /\ TakesSelf(fn, self) THEN Misfit(c, self)
       ELSE Gives(c, Global(c, name))

MethodType(c, name, self) ==
    IF self = Null THEN Misfit(c, self)
    ELSE IF IsVar(self) /\ c.bounds[self.id] # <<>>
    THEN BoundedMethod(c, Signatures(c, c.bounds[self.id], name), self)
    ELSE GlobalMethod(c, name, self)

\* The receiver is the first argument; the number of the others comes first.
ApplyMethod(c, fn, self, args) ==
    LET Others(u) ==
            IF Len(args) + 2 # Len(fn.kids) THEN CheckerFail(u, "wrong")
            ELSE InferArgs(u, SubSeq(fn.kids, 2, Len(fn.kids) - 1), args, Last(fn.kids))
    IN IF fn.t # "fn" \/ Len(fn.kids) = 1 THEN CheckerFail(c, "wrong")
       ELSE IfOk(Unify(c, self, fn.kids[1]), Others)

InferMethodCall(c, n) ==
    LET On(e, self) ==
            Then(MethodType(e, n.method, self), LAMBDA m : ApplyMethod(m, m.val, self, Tail(n.items)))
    IN Then(Infer(c, Head(n.items)), LAMBDA e : On(e, Prune(e, e.val)))

\* The structs that implement all the bounds of a type parameter have the field.
BoundedField(c, bounds, field) ==
    LET structs == SelectSeq(OfKind(Decls(c), {"struct"}),
                             LAMBDA x : /\ \A b \in ToSet(bounds) : ImplExists(c, <<x.name>>, b)
                                        /\ Global(c, x.name).t = "struct")
        Common(acc, t) == IF t = Null THEN CheckerFail(acc, "wrong") ELSE Join(acc, acc.val, t)
        Step(acc, x) == IF acc.ok THEN Common(acc, FieldType(Global(c, x.name), field)) ELSE acc
        End(c1) == IF c1.ok /\ c1.val # Null THEN c1 ELSE CheckerFail(c1, "wrong")
    IN End(FoldLeft(Step, Gives(c, Null), structs))

InferField(c, n) ==
    LET Of(e, t) ==
            IF FieldType(t, n.field) # Null THEN Gives(e, FieldType(t, n.field))
            ELSE IF IsVar(t) /\ e.bounds[t.id] # <<>> THEN BoundedField(e, e.bounds[t.id], n.field)
            ELSE Misfit(e, t)
    IN Then(Infer(c, n.e), LAMBDA e : Of(e, Prune(e, e.val)))

IndexType(c, t, index) ==
    IF t.t = "array" THEN Gives(c, t.kids[1])
    ELSE IF t.t # "tuple" THEN Misfit(c, t)
    ELSE IF index.k = "lit" /\ index.value.v + 1 \in DOMAIN t.kids
    THEN Gives(c, t.kids[index.value.v + 1])
    ELSE CheckerFail(c, "wrong")

InferIndex(c, n) ==
    LET At(r, t) == IfOk(Unify(r, r.val, IntT), LAMBDA u : IndexType(u, Prune(u, t), n.r))
        Right(l) == Then(Infer(l, n.r), LAMBDA r : At(r, l.val))
    IN Right(Infer(c, n.l))

InferArray(c, n) ==
    LET Element(acc, e) ==
            Then(Infer(acc, e), LAMBDA e1 : Join(e1, acc.val, e1.val))
        Of(elem) == Gives(elem, ArrayT(Prune(elem, elem.val)))
        All(c1) == Of(IF c1.val = Null THEN NewVar(c1) ELSE c1)
    IN IfOk(FoldLeft(LAMBDA acc, e : IF acc.ok THEN Element(acc, e) ELSE acc,
                     Gives(c, Null), n.items),
            All)

InferTuple(c, n) ==
    Then(Collect(c, n.items, Infer), LAMBDA c1 : Gives(c1, TupleT(c1.val)))

\* The listed fields in the order they are written, then the base or the rest.
InferFields(c, st, n) ==
    LET Given(f, k) == \E i \in 1..k : n.inits[i].field = f
        Field(acc, i, t) ==
            IF t = Null \/ Given(n.inits[i].field, i - 1) THEN CheckerFail(acc, "wrong")
            ELSE Then(Infer(acc, n.inits[i].e), LAMBDA e : Equate(e, e.val, t, st))
        Step(acc, i) == IF acc.ok THEN Field(acc, i, FieldType(st, n.inits[i].field)) ELSE acc
        Rest(c1) ==
            IF n.base # Absent
            THEN Then(Infer(c1, n.base), LAMBDA e : Equate(e, e.val, st, st))
            ELSE IF \E f \in ToSet(st.fields) : ~Given(f, Len(n.inits)) THEN CheckerFail(c1, "wrong")
            ELSE Gives(c1, st)
    IN IfOk(FoldLeftDomain(Step, Yes(c), n.inits), Rest)

StructMeant(c, n, decl) ==
    IF (TypeArgs(n) = <<>>) # (decl.generics = <<>>) THEN CheckerFail(c, "wrong")
    ELSE IF TypeArgs(n) # <<>> THEN InstantiateStruct(c, decl, TypeArgs(n))
    ELSE IF Global(c, n.name).t = "struct" THEN Gives(c, Global(c, n.name))
    ELSE CheckerFail(c, "wrong")

InferStructInit(c, n) ==
    IF DeclsOf(c, "struct", n.name) = <<>> THEN CheckerFail(c, "wrong")
    ELSE Then(StructMeant(c, n, Head(DeclsOf(c, "struct", n.name))),
              LAMBDA c1 : InferFields(c1, c1.val, n))

\* type_to_ast_type: what can be written down as an annotation.
Written(c, ts) == Shape(c, ts) \cap (Schemas \cup {"var", "void"}) = {}

\* The types of the parameters, and of the result, are written into the tree.
Annotate(c, n, fn) ==
    LET missing == SelectSeq([i \in DOMAIN n.ptys |-> i], LAMBDA i : n.ptys[i] = NoType)
        ret == IF n.rty # NoType \/ Last(fn.kids) = VoidT THEN <<>> ELSE <<Last(fn.kids)>>
    IN IF Written(c, [i \in DOMAIN missing |-> fn.kids[missing[i]]] \o ret) THEN Gives(c, fn)
       ELSE CheckerFail(c, "vague")

InferLambda(c, n) ==
    LET Param(acc, ty) == IF ty = NoType THEN NewVar(acc) ELSE ToType(acc, ty, NoTypes)
        Whole(u, ps, goal) == Annotate(u, n, FnT(ps, Prune(u, goal)))
        After(body, ps, goal) ==
            IF body.val = Null THEN CheckerFail(body, "wrong")
            ELSE IfOk(Unify(body, body.val, goal), LAMBDA u : Whole(u, ps, goal))
        Inside(ps, goal) ==
            Infer([Push(goal, FrameOf(n.params, ps)) EXCEPT !.want = goal.val], n.body)
        Body(ps, goal) == Then(Restore(Inside(ps, goal), c), LAMBDA b : After(b, ps, goal.val))
        Result(c1) == Then(Param(c1, n.rty), LAMBDA goal : Body(c1.val, goal))
    IN Then(Collect(c, n.ptys, Param), Result)

InferIf(c, n) ==
    LET Test(acc, br) ==
            Then(Infer(acc, br.cond), LAMBDA e : Equate(e, e.val, BoolT, acc.val))
        Body(acc, body) == Then(Infer(acc, body), LAMBDA e : Join(e, acc.val, e.val))
        Step(acc, br) ==
            IF acc.ok THEN IfOk(Test(acc, br), LAMBDA c1 : Body(c1, br.body)) ELSE acc
        Else(c1) == IF n.els = Absent THEN c1 ELSE Body(c1, n.els)
        End(c1) == IF c1.val = Null THEN Gives(c1, VoidT) ELSE c1
    IN IfOk(IfOk(FoldLeft(Step, Gives(c, Null), n.branches), Else), End)

InferMatch(c, n) ==
    LET Guard(c1, guard, acc) ==
            IF guard = Absent THEN Gives(c1, acc)
            ELSE Then(Infer(c1, guard), LAMBDA e : Equate(e, e.val, BoolT, acc))
        Body(c1, arm, acc) ==
            Then(Restore(Infer(c1, arm.body), c), LAMBDA e : Join(e, acc, e.val))
        Guarded(c1, arm, acc) ==
            IfOk(Guard(c1, arm.guard, acc), LAMBDA c2 : Body(c2, arm, acc))
        Fitting(c1, t, arm, acc) ==
            Restore(Then(BindPattern(Push(c1, NoTypes), t, arm.pat),
                         LAMBDA c2 : Guarded(c2, arm, acc)), c)
        Step(acc, t, arm) ==
            IfOk(CheckPattern(acc, t, arm.pat), LAMBDA c1 : Fitting(c1, t, arm, acc.val))
        Arms(e, t) ==
            IF t = Null THEN CheckerFail(e, "wrong")
            ELSE IF ~Exhaustive(t, n.arms) THEN Misfit(e, t)
            ELSE FoldLeft(LAMBDA acc, arm : IF acc.ok THEN Step(acc, t, arm) ELSE acc,
                          Gives(e, Null), n.arms)
        End(c1) == IF c1.val = Null THEN Gives(c1, VoidT) ELSE c1
    IN IfOk(Then(Infer(c, n.e), LAMBDA e : Arms(e, Prune(e, e.val))), End)

-----------------------------------------------------------------------------
(* Statements *)

\* The value of a return statement is looked at once as a statement and once
\* more for the type of the block.  If its type differs from that of the return
\* statements before, the rest of the statements is left out.
InferBlock(c, blk) ==
    LET Note(c1, t) == [c |-> c1, t |-> IF c1.ok THEN c1.val ELSE t, stop |-> ~c1.ok]
        Again(c1, st, acc) ==
            IF st.k # "return" \/ st.e = Absent THEN [acc EXCEPT !.c = c1]
            ELSE Note(Then(Infer(c1, st.e), LAMBDA e : Join(e, acc.t, e.val)), acc.t)
        Step(acc, st) ==
            IF Failed(acc.c) \/ acc.stop THEN acc ELSE Again(Infer(acc.c, st), st, acc)
        Tail1(c1, t) ==
            IF blk.tail = Absent THEN Gives(c1, t)
            ELSE Then(Infer(c1, blk.tail), LAMBDA e : Join(e, t, e.val))
        End(c1) == IF c1.ok /\ c1.val = Null THEN Gives(c1, VoidT) ELSE c1
        Leave(acc) == Restore(End(Tail1(acc.c, acc.t)), c)
    IN Leave(FoldLeft(Step, [c |-> Push(c, NoTypes), t |-> Null, stop |-> FALSE], blk.stmts))

CheckLet(c, st) ==
    LET As(e, ann) ==
            IfOk(Equate(ann, ann.val, e.val, ann.val),
                 LAMBDA u : Insert(u, st.name, Prune(u, u.val)))
        Named(e) ==
            IF Annotation(st) = NoType THEN Insert(e, st.name, e.val)
            ELSE Then(ToType(e, Annotation(st), NoTypes), LAMBDA ann : As(e, ann))
    IN Then(Infer(c, st.e), Named)

CheckReturn(c, st) ==
    Then(IF st.e = Absent THEN Gives(c, VoidT) ELSE Infer(c, st.e),
         LAMBDA e : IF c.want = Null THEN e ELSE Unify(e, e.val, c.want))

\* An element of a tuple has the type of the first.
CheckFor(c, st) ==
    LET Body(c1, elem) == Restore(Infer(Push(c1, st.name :> elem), st.body), c)
        Same(e, elems) == UnifyKids(e, [i \in DOMAIN Tail(elems) |-> elems[1]], Tail(elems))
        Over(e, t) ==
            IF t.t \notin {"array", "tuple"} THEN Misfit(e, t)
            ELSE IF t.kids = <<>> THEN CheckerFail(e, "wrong")
            ELSE IfOk(Same(e, t.kids), LAMBDA u : Body(u, Prune(u, t.kids[1])))
    IN Then(Infer(c, st.e), LAMBDA e : Over(e, Prune(e, e.val)))

\* A statement with catch clauses allows throw in all its blocks.
CheckTry(c, st) ==
    LET inside == [c EXCEPT !.depth = IF st.catches = <<>> THEN @ ELSE @ + 1]
        CheckCatch(acc, clause) ==
            IF clause.prim \notin Primitives THEN CheckerFail(acc, "wrong")
            ELSE Restore(Infer(Push(acc, clause.name :> Basic(clause.prim)), clause.body), acc)
        Step(acc, clause) == IF Failed(acc) THEN acc ELSE CheckCatch(acc, clause)
        Finally(c1) == IF st.fin = Absent THEN c1 ELSE Infer(c1, st.fin)
    IN Restore(Finally(FoldLeft(Step, Infer(inside, st.body), st.catches)), c)

CheckThrow(c, st) == IF c.depth = 0 THEN CheckerFail(c, "wrong") ELSE Infer(c, st.e)

NoneType(c) == Gives(c, OptionT(c.val))

\* infer_expr or check_stmt
Infer(c, n) ==
    IF Failed(c) THEN c ELSE
    CASE n.k = "lit" -> IF n.value.k # "none" THEN Gives(c, Basic(n.value.k))
                        ELSE NoneType(NewVar(c))
      [] n.k = "ident" -> InferIdent(c, n.name)
      [] n.k = "unary" -> Then(Infer(c, n.e), LAMBDA e : UnaryType(e, n.op))
      [] n.k = "binary" -> InferBinary(c, n)
      [] n.k = "assign" -> InferAssign(c, n)
      [] n.k = "call" -> InferCall(c, n)
      [] n.k = "method" -> InferMethodCall(c, n)
      [] n.k = "field" -> InferField(c, n)
      [] n.k = "index" -> InferIndex(c, n)
      [] n.k = "if" -> InferIf(c, n)
      [] n.k = "match" -> InferMatch(c, n)
      [] n.k = "block" -> InferBlock(c, n)
      [] n.k = "array" -> InferArray(c, n)
      [] n.k = "tuple" -> InferTuple(c, n)
      [] n.k = "struct" -> InferStructInit(c, n)
      [] n.k = "lambda" -> InferLambda(c, n)
      [] n.k = "let" -> CheckLet(c, n)
      [] n.k = "expr" -> Infer(c, n.e)
      [] n.k = "return" -> CheckReturn(c, n)
      [] n.k = "for" -> CheckFor(c, n)
      [] n.k = "try" -> CheckTry(c, n)
      [] n.k = "throw" -> CheckThrow(c, n)

-----------------------------------------------------------------------------
(* Declarations *)

\* The type parameters of a generic declaration, as new variables; in the check
\* of its own body they have their bounds.
TypeParams(c, generics, own) ==
    LET Bounded(v, g) == [v EXCEPT !.bounds[Len(v.bind)] = IF own THEN g.bounds ELSE <<>>]
    IN Collect(c, generics, LAMBDA acc, g : Bounded(NewVar(acc), g))

Schema(kind, decl) == [t |-> kind, kids |-> <<>>, decl |-> decl]

RegisterStructDecl(c, d) ==
    LET Type(fields) ==
            IF d.generics # <<>> THEN Schema("genericstruct", d)
            ELSE [t |-> "struct", name |-> <<d.name>>, fields |-> d.fields, kids |-> fields]
        In(vs) == Then(ToTypes(vs, d.ftys, FrameOf(NamesOf(d.generics), vs.val)),
                       LAMBDA c1 : InsertGlobal(c1, d.name, Type(c1.val)))
    IN IF Global(c, d.name) # Null THEN CheckerFail(c, "wrong")
       ELSE In(TypeParams(c, d.generics, FALSE))

RegisterTraitDecl(c, d) ==
    LET Formed(sig) == /\ sig.params # <<>>
                       /\ sig.params[1] = "self" /\ sig.ptys[1] # NoType
    IN IF \/ Len(DeclsOf(c, "trait", d.name)) > 1
          \/ Global(c, d.name) # Null
          \/ \E i \in DOMAIN d.sigs : ~Formed(d.sigs[i])
       THEN CheckerFail(c, "wrong") ELSE Gives(c, Null)

\* The initialiser of a constant whose type is declared.
CheckConst(ann, d) ==
    IfOk(Then(Infer(ann, d.e), LAMBDA e : Equate(e, ann.val, e.val, ann.val)),
         LAMBDA u : InsertGlobal(u, d.name, Prune(u, u.val)))

RegisterConstDecl(c, d) ==
    IF Global(c, d.name) # Null THEN CheckerFail(c, "wrong")
    ELSE CheckConst(ToType(c, d.ty, NoTypes), d)

RegisterFn(c, d) ==
    LET Type(fn) == IF d.generics = <<>> THEN fn ELSE Schema("genericfn", d)
        In(vs) == Then(SignatureOf(vs, d, FrameOf(NamesOf(d.generics), vs.val)),
                       LAMBDA c1 : InsertGlobal(c1, d.name, Type(c1.val)))
    IN IF Global(c, d.name) # Null THEN CheckerFail(c, "wrong")
       ELSE In(TypeParams(c, d.generics, FALSE))

\* type_ast_equal_sub_self; Self stands for the struct.
SameAnnotation(declared, given, struct) ==
    LET Subst(ty) == IF ty.t = "self" THEN NamedT(struct, <<>>) ELSE ty
    IN Subst(declared) = Subst(given)

\* trait_sig_matches_impl_fn
Matches(sig, fn) ==
    LET struct == fn.ptys[1].name
    IN /\ fn.ptys[1].t = "named"
       /\ sig.params = fn.params
       /\ \A i \in DOMAIN sig.ptys : SameAnnotation(sig.ptys[i], fn.ptys[i], struct)
       /\ SameAnnotation(sig.rty, fn.rty, struct)

\* The first of the signatures of that name.
Conforms(trait, fn) ==
    LET sigs == SelectSeq(trait.sigs, LAMBDA sig : sig.name = fn.name)
    IN sigs # <<>> /\ Matches(Head(sigs), fn)

RegisterMethod(c, d, fn) ==
    LET Named(u) ==
            IF ~u.ok THEN CheckerFail(u, "wrong")
            ELSE IF d.trait # "" /\ ~Conforms(Head(DeclsOf(c, "trait", d.trait)), fn)
            THEN CheckerFail(u, "wrong")
            ELSE RegisterFn(u, fn)
    IN IF fn.params = <<>> THEN CheckerFail(c, "wrong")
       ELSE IF fn.params[1] # "self" THEN CheckerFail(c, "wrong")
       ELSE Then(ToType(c, fn.ptys[1], NoTypes),
                 LAMBDA c1 : Named(Unify(c1, c1.val, Global(c1, d.name))))

RegisterImplDecl(c, d) ==
    IF Global(c, d.name).t # "struct" THEN CheckerFail(c, "wrong")
    ELSE IF d.trait # "" /\ DeclsOf(c, "trait", d.trait) = <<>> THEN CheckerFail(c, "wrong")
    ELSE FoldLeft(LAMBDA acc, fn : IF acc.ok THEN RegisterMethod(acc, d, fn) ELSE acc, Yes(c), d.methods)

\* verify_resolved_generic_params: a parameter the body has made concrete must
\* meet its bounds; nothing else is asked of it.
CheckResolved(c, d, vars) ==
    LET Resolved(acc, t, bounds) ==
            IF ~IsVar(t) THEN CheckBounds(acc, t, bounds)
            ELSE IF bounds # <<>> /\ acc.bounds[t.id] = <<>> THEN CheckerFail(acc, "wrong")
            ELSE acc
        Check(acc, i) ==
            IF acc.ok THEN Resolved(acc, Prune(acc, vars[i]), d.generics[i].bounds) ELSE acc
    IN FoldLeftDomain(Check, c, vars)

\* The type a function has in its own body: that of a generic one is made anew.
OwnType(c, d) ==
    IF d.generics # <<>> THEN SignatureOf(c, d, FrameOf(NamesOf(d.generics), c.val))
    ELSE IF Global(c, d.name).t = "fn" THEN Gives(c, Global(c, d.name))
    ELSE CheckerFail(c, "wrong")

\* Its body in an environment of its parameters only.
InferBody(own, d) ==
    Infer([Push(own, FrameOf(d.params, Front(own.val.kids))) EXCEPT !.want = Last(own.val.kids)],
          d.body)

CheckBodyAs(own, d, vars) ==
    LET Fits(b) == IF b.val = Null THEN CheckerFail(b, "wrong")
                   ELSE Unify(b, b.val, Last(own.val.kids))
    IN IF ~own.ok THEN own
       ELSE CheckResolved(Then(Restore(InferBody(own, d), own), Fits), d, vars)

CheckFnWith(vs, d) == CheckBodyAs(OwnType(vs, d), d, vs.val)

\* check_fn_body, check_generic_fn_body
CheckFn(c, d) == CheckFnWith(TypeParams(c, d.generics, TRUE), d)

-----------------------------------------------------------------------------
VARIABLES
    chk,      \* the Checker
    pass,     \* the pass over the declarations
    todo,     \* the places of the declarations still to come in this pass
    checked   \* history: the functions whose bodies have been found well typed

vars == <<chk, pass, todo, checked>>

Passes == <<"structs", "traits", "signatures", "bodies", "done">>
Pass(p) == IndexFirstSubSeq(<<p>>, Passes)

\* (faulty variant: the constants come with the structs)
KindsSooner(p) ==
    CASE p = "structs" -> {"struct", "const"}
      [] p = "traits" -> {"trait"}
      [] p = "signatures" -> {"fn", "impl"}
      [] OTHER -> {}

\* The kinds of declarations a pass is about.
Kinds(p) ==
    CASE p = "structs" -> {"struct"}
      [] p = "traits" -> {"trait"}
      [] p = "signatures" -> {"const", "fn", "impl"}
      [] OTHER -> {}

\* Where they are among the declarations; the functions are those with methods.
Places(c, p) ==
    IF p = "bodies" THEN [i \in DOMAIN Functions(Decls(c)) |-> i]
    ELSE SelectSeq([i \in DOMAIN Decls(c) |-> i], LAMBDA i : Decls(c)[i].d \in Kinds(p))

Init ==
    /\ chk \in {[program |-> p, bind |-> <<>>, bounds |-> <<>>, env |-> <<NoTypes>>,
                 want |-> Null, depth |-> 0, val |-> Null, ok |-> TRUE, error |-> "",
                 mute |-> FALSE] : p \in Programs}
    /\ pass = "structs"
    /\ todo = Places(chk, "structs")
    /\ checked = {}

\* The result of one declaration; the pass is left at the first that fails.
Proceed(c) ==
    /\ chk' = c
    /\ todo' = IF c.ok THEN Tail(todo) ELSE <<>>
    /\ UNCHANGED pass

This == Decls(chk)[Head(todo)]
Comes(kind) == pass # "bodies" /\ todo # <<>> /\ This.d = kind

RegisterStruct ==
    /\ Comes("struct")
    /\ Proceed(RegisterStructDecl(chk, This))
    /\ UNCHANGED checked

RegisterTrait ==
    /\ Comes("trait")
    /\ Proceed(RegisterTraitDecl(chk, This))
    /\ UNCHANGED checked

RegisterConst ==
    /\ Comes("const")
    /\ Proceed(RegisterConstDecl(chk, This))
    /\ UNCHANGED checked

RegisterFnSig ==
    /\ Comes("fn")
    /\ Proceed(RegisterFn(chk, This))
    /\ UNCHANGED checked

RegisterImpl ==
    /\ Comes("impl")
    /\ Proceed(RegisterImplDecl(chk, This))
    /\ UNCHANGED checked

ThisFn == Functions(Decls(chk))[Head(todo)]

CheckBody ==
    /\ pass = "bodies" /\ todo # <<>>
    /\ Proceed(CheckFn(chk, ThisFn))
    /\ checked' = IF chk'.ok THEN checked \cup {ThisFn.name} ELSE checked

\* The end of a pass: only an error keeps the next one from coming.
NextPass ==
    /\ pass # "done" /\ todo = <<>>
    /\ pass' = IF Failed(chk) THEN "done" ELSE Passes[Pass(pass) + 1]
    /\ todo' = Places(chk, pass')
    /\ UNCHANGED <<chk, checked>>

Next ==
    \/ RegisterStruct
    \/ RegisterTrait
    \/ RegisterConst
    \/ RegisterFnSig
    \/ RegisterImpl
    \/ CheckBody
    \/ NextPass

Spec == Init /\ [][Next]_vars

Accepted == pass = "done" /\ ~Failed(chk)

=============================================================================
