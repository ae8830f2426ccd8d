------------------------------- MODULE Typing -------------------------------
(***************************************************************************)
(* The typing rules of Mons as a relation: which types an expression may     *)
(* have.  Nothing is inferred and nothing is bound: a type that is not        *)
(* written down is any type of Universe, a type parameter is a type of its    *)
(* own.  This is what the type checker (TypeCheck) is compared with.          *)
(*                                                                         *)
(* An environment e has the declarations, the types of the variables, the    *)
(* result type of the function (ret), those of the functions that do not      *)
(* declare one (rets) and the type parameters with their bounds (bounds).     *)
(***************************************************************************)
EXTENDS TypedSyntax

CONSTANT Universe

Numeric == {IntT, FloatT}
OfShape(S, shape) == {t \in S : t.t = shape}

\* The types all the members of a set of sets have in common.
Common(sets) == {t \in UNION sets : \A S \in sets : t \in S}

Bound(e, name, t) == [e EXCEPT !.vars = (name :> t) @@ @]

Named(e, kind, name) == {d \in ToSet(e.decls) : d.d = kind /\ d.name = name}

\* The methods of a struct, and the signatures the bounds of a parameter give.
MethodsOf(e, t) ==
    IF t.t # "named" THEN {}
    ELSE UNION {ToSet(d.methods) : d \in Named(e, "impl", t.name)}
SignaturesOf(e, t) ==
    IF t.t # "named" \/ t.name \notin DOMAIN e.bounds THEN {}
    ELSE UNION {ToSet(d.sigs) : d \in UNION {Named(e, "trait", b) : b \in e.bounds[t.name]}}

RECURSIVE With(_, _)

\* ty with types for the names in the domain of map.
With(map, ty) ==
    IF ty.t = "self" /\ "Self" \in DOMAIN map THEN map["Self"]
    ELSE IF ty.t = "named" /\ ty.name \in DOMAIN map THEN map[ty.name]
    ELSE [ty EXCEPT !.kids = [i \in DOMAIN @ |-> With(map, @[i])]]

Instance(generics, targs) ==
    [x \in {generics[i].name : i \in DOMAIN generics} |->
        targs[CHOOSE i \in DOMAIN generics : generics[i].name = x]]

\* The struct has an impl for each of the bounds.
Meets(e, t, bounds) ==
    bounds # <<>> =>
        /\ t.t = "named"
        /\ \A i \in DOMAIN bounds : \E d \in Named(e, "impl", t.name) : d.trait = bounds[i]

MayInstantiate(e, generics, targs) ==
    /\ Len(generics) = Len(targs)
    /\ \A i \in DOMAIN generics : Meets(e, targs[i], generics[i].bounds)

FunctionType(e, d, map) ==
    LET ret == IF d.rty = NoType THEN e.rets[d.name] ELSE d.rty
    IN FnT([i \in DOMAIN d.ptys |-> With(map, d.ptys[i])], With(map, ret))

\* The types of a name that is no variable.
GlobalTypes(e, name, targs) ==
    {d.ty : d \in Named(e, "const", name)}
    \cup {FunctionType(e, d, Instance(d.generics, targs)) :
             d \in {x \in Named(e, "fn", name) : MayInstantiate(e, x.generics, targs)}}

FieldTypes(e, t, field) ==
    IF t.t # "named" THEN {}
    ELSE UNION {{With(Instance(d.generics, t.kids), d.ftys[i]) :
                    i \in {j \in DOMAIN d.fields : d.fields[j] = field}} :
                d \in Named(e, "struct", t.name)}

-----------------------------------------------------------------------------
(* Patterns *)

RECURSIVE Frames(_, _, _), Options(_)

Options(pat) == IF pat.k = "or" THEN Options(pat.l) \cup Options(pat.r) ELSE {pat}

\* The frame of the names in a pattern for values of type t, if it is one.
Frames(e, t, pat) ==
    LET none == [x \in {} |-> t]
        FieldFrames(fp) ==
            UNION {IF fp.inner = Absent THEN {fp.name :> u} ELSE Frames(e, u, fp.inner) :
                       u \in FieldTypes(e, t, fp.field)}
        Merge(acc, fp) == {f @@ g : f \in FieldFrames(fp), g \in acc}
    IN CASE pat.k = "wildcard" -> {none}
         [] pat.k = "bind" -> {pat.name :> t}
         [] pat.k = "lit" -> IF t = Basic(pat.lit.value.k) THEN {none} ELSE {}
         [] pat.k = "none" -> IF t.t = "option" THEN {none} ELSE {}
         [] pat.k = "some" -> IF t.t = "option" THEN Frames(e, t.kids[1], pat.inner) ELSE {}
         [] pat.k = "or" -> Frames(e, t, pat.l) \cap Frames(e, t, pat.r) \cap {none}
         [] pat.k = "struct" ->
              IF t = NamedT(pat.name, <<>>) THEN FoldLeft(Merge, {none}, pat.fields) ELSE {}

\* The patterns of a match leave no value of type t out.  What is in Some, and
\* a guard, are not asked for.
Total(t, arms) ==
    LET pats == UNION {Options(arms[i].pat) : i \in DOMAIN arms}
        all == \E p \in pats : p.k = "wildcard"
        Has(k) == \E p \in pats : p.k \in {k, "bind"}
        Lit(v) == \E p \in pats : p.k = "bind" \/ (p.k = "lit" /\ p.lit.value.v = v)
    IN CASE t = BoolT -> all \/ (Lit(0) /\ Lit(1))
         [] t.t = "option" -> all \/ (Has("none") /\ Has("some"))
         [] t \in Numeric -> all \/ \E i \in DOMAIN arms : arms[i].pat.k = "bind"
         [] OTHER -> all

-----------------------------------------------------------------------------
(* Expressions *)

RECURSIVE Types(_, _)

HasTypes(e, nodes, types) == \A i \in DOMAIN nodes : types[i] \in Types(e, nodes[i])

\* The results of the functions in fns that take these arguments.
Results(e, fns, args) ==
    {Last(f.kids) : f \in {g \in OfShape(fns, "fn") :
                              /\ Len(g.kids) = Len(args) + 1
                              /\ HasTypes(e, args, Front(g.kids))}}

BinaryTypes(e, n) ==
    LET both == Types(e, n.l) \cap Types(e, n.r)
    IN CASE n.op \in {"and", "or"} -> both \cap {BoolT}
         [] n.op = "mod" -> both \cap {IntT}
         [] n.op \in {"eq", "ne", "lt", "gt", "lte", "gte"} -> {BoolT : t \in both}
         [] OTHER -> both \cap Numeric

CallTypes(e, n) ==
    LET global == n.callee.name \notin DOMAIN e.vars
    IN Results(e, IF TypeArgs(n) # <<>> /\ global
                  THEN GlobalTypes(e, n.callee.name, TypeArgs(n)) ELSE Types(e, n.callee),
               n.items)

MethodTypes(e, n) ==
    LET Of(t) == {FunctionType(e, d, "Self" :> t) :
                     d \in {x \in MethodsOf(e, t) \cup SignaturesOf(e, t) : x.name = n.method}}
    IN UNION {Results(e, Of(t), n.items) : t \in Types(e, Head(n.items))}

IndexTypes(e, n) ==
    LET ok == IntT \in Types(e, n.r)
        Within(t) == ok /\ n.r.k = "lit" /\ n.r.value.v + 1 \in DOMAIN t.kids
    IN {t.kids[1] : t \in {u \in OfShape(Types(e, n.l), "array") : ok}}
       \cup {t.kids[n.r.value.v + 1] : t \in {u \in OfShape(Types(e, n.l), "tuple") : Within(u)}}

\* All the fields, each once; a base may give those that are not listed.
StructTypes(e, n) ==
    LET listed == [i \in DOMAIN n.inits |-> n.inits[i].field]
        Given(d) ==
            LET t == NamedT(d.name, TypeArgs(n))
            IN /\ MayInstantiate(e, d.generics, TypeArgs(n))
               /\ IsInjective(listed)
               /\ IF n.base = Absent THEN ToSet(d.fields) = ToSet(listed)
                  ELSE ToSet(listed) \subseteq ToSet(d.fields) /\ t \in Types(e, n.base)
               /\ \A i \in DOMAIN n.inits :
                      FieldTypes(e, t, listed[i]) \cap Types(e, n.inits[i].e) # {}
    IN {NamedT(d.name, TypeArgs(n)) : d \in {x \in Named(e, "struct", n.name) : Given(x)}}

\* The types a place may have that is annotated with ty.
Allowed(ty) == IF ty = NoType THEN Universe ELSE {ty}

LambdaTypes(e, n) ==
    LET params == {ps \in [DOMAIN n.params -> UNION {Allowed(n.ptys[i]) : i \in DOMAIN n.ptys}] :
                       \A i \in DOMAIN ps : ps[i] \in Allowed(n.ptys[i])}
        In(ps, r) == [e EXCEPT !.vars = Instance([i \in DOMAIN ps |-> [name |-> n.params[i]]], ps) @@ @,
                               !.ret = r]
        results == IF n.rty = NoType THEN Universe \cup {VoidT} ELSE {n.rty}
    IN {FnT(x[1], x[2]) : x \in {y \in params \X results :
                                     y[2] \in Types(In(y[1], y[2]), n.body)}}

IfTypes(e, n) ==
    LET branches == {Types(e, n.branches[i].body) : i \in DOMAIN n.branches}
    IN IF \E i \in DOMAIN n.branches : BoolT \notin Types(e, n.branches[i].cond) THEN {}
       ELSE Common(branches \cup (IF n.els = Absent THEN {} ELSE {Types(e, n.els)}))

ArmTypes(e, t, arm) ==
    LET In(f) == [e EXCEPT !.vars = f @@ @]
        fits == {f \in Frames(e, t, arm.pat) :
                     arm.guard = Absent \/ BoolT \in Types(In(f), arm.guard)}
    IN UNION {Types(In(f), arm.body) : f \in fits}

MatchTypes(e, n) ==
    UNION {Common({ArmTypes(e, t, n.arms[i]) : i \in DOMAIN n.arms}) :
               t \in {u \in Types(e, n.e) : Total(u, n.arms)}}

CatchFits(e, clause) ==
    /\ clause.prim \in Primitives
    /\ Types(Bound(e, clause.name, Basic(clause.prim)), clause.body) # {}

\* A statement that gives no name to anything.
Fits(e, st) ==
    CASE st.k = "expr" -> Types(e, st.e) # {}
      [] st.k = "return" -> IF st.e = Absent THEN e.ret = VoidT ELSE e.ret \in Types(e, st.e)
      [] st.k = "throw" -> e.catching /\ Types(e, st.e) # {}
      [] st.k = "for" ->
           \E t \in Types(e, st.e) :
               /\ t.t \in {"array", "tuple"} /\ \A i \in DOMAIN t.kids : t.kids[i] = t.kids[1]
               /\ Types(Bound(e, st.name, t.kids[1]), st.body) # {}
      [] st.k = "try" ->
           LET in == [e EXCEPT !.catching = @ \/ st.catches # <<>>]
           IN /\ Types(in, st.body) # {}
              /\ \A i \in DOMAIN st.catches : CatchFits(in, st.catches[i])
              /\ st.fin # Absent => Types(in, st.fin) # {}

\* A block that returns a value has the type of that value.
BlockTypes(e, n) ==
    LET returns == \E i \in DOMAIN n.stmts : n.stmts[i].k = "return" /\ n.stmts[i].e # Absent
        After(acc, st) ==
            IF st.k # "let" THEN {x \in acc : Fits(x, st)}
            ELSE UNION {{Bound(x, st.name, t) : t \in IF Annotation(st) = NoType THEN Types(x, st.e)
                                                     ELSE Types(x, st.e) \cap {Annotation(st)}} :
                        x \in acc}
        End(x) == IF n.tail # Absent THEN Types(x, n.tail)
                  ELSE IF returns THEN {x.ret} ELSE {VoidT}
    IN {t \in UNION {End(x) : x \in FoldLeft(After, {e}, n.stmts)} : returns => t = e.ret}

Types(e, n) ==
    CASE n.k = "lit" -> IF n.value.k = "none" THEN OfShape(Universe, "option")
                        ELSE {Basic(n.value.k)}
      [] n.k = "ident" -> IF n.name \in DOMAIN e.vars THEN {e.vars[n.name]}
                          ELSE GlobalTypes(e, n.name, <<>>)
      [] n.k = "unary" -> Types(e, n.e) \cap IF n.op = "not" THEN {BoolT} ELSE Numeric
      [] n.k = "binary" -> BinaryTypes(e, n)
      [] n.k = "assign" -> Types(e, n.e) \cap Types(e, Ident(n.name))
      [] n.k = "call" -> CallTypes(e, n)
      [] n.k = "method" -> MethodTypes(e, n)
      [] n.k = "field" -> UNION {FieldTypes(e, t, n.field) : t \in Types(e, n.e)}
      [] n.k = "index" -> IndexTypes(e, n)
      [] n.k = "array" -> IF n.items = <<>> THEN OfShape(Universe, "array")
                          ELSE {ArrayT(t) : t \in Common({Types(e, n.items[i]) : i \in DOMAIN n.items})}
      [] n.k = "tuple" ->
           {TupleT(ts) : ts \in {us \in [DOMAIN n.items -> UNION {Types(e, n.items[i]) : i \in DOMAIN n.items}] :
                                     HasTypes(e, n.items, us)}}
      [] n.k = "struct" -> StructTypes(e, n)
      [] n.k = "lambda" -> LambdaTypes(e, n)
      [] n.k = "if" -> IfTypes(e, n)
      [] n.k = "match" -> MatchTypes(e, n)
      [] n.k = "block" -> BlockTypes(e, n)

-----------------------------------------------------------------------------
(* Declarations *)

RECURSIVE Known(_, _, _)

\* A type that is made of the structs in decls and the type parameters params.
Known(decls, params, ty) ==
    /\ ty.t \in Primitives \cup {"absent", "option", "array", "tuple", "fn", "named"}
    /\ ty.t = "named" /\ ty.name \notin params =>
           \E i \in DOMAIN decls : /\ decls[i].d = "struct" /\ decls[i].name = ty.name
                                   /\ Len(decls[i].generics) = Len(ty.kids)
    /\ \A i \in DOMAIN ty.kids : Known(decls, params, ty.kids[i])

Params(d) == {d.generics[i].name : i \in DOMAIN d.generics}

Signed(decls, d) ==
    /\ \A i \in DOMAIN d.ptys : d.ptys[i] # NoType /\ Known(decls, Params(d), d.ptys[i])
    /\ Known(decls, Params(d), d.rty)

\* An impl is for a struct, its methods take one as self and are in the trait.
ImplFits(decls, d) ==
    LET traits == {x \in ToSet(decls) : x.d = "trait" /\ x.name = d.trait}
        self == NamedT(d.name, <<>>)
        Same(sig, m) == /\ sig.params = m.params
                        /\ With("Self" :> self, FnT(sig.ptys, sig.rty)) = FnT(m.ptys, m.rty)
    IN /\ Known(decls, {}, self)
       /\ d.trait # "" => traits # {}
       /\ \A i \in DOMAIN d.methods :
             LET m == d.methods[i]
             IN /\ m.params # <<>> /\ m.params[1] = "self" /\ m.ptys[1] = self
                /\ Signed(decls, m)
                /\ d.trait = "" \/ \E x \in traits : \E j \in DOMAIN x.sigs :
                                      x.sigs[j].name = m.name /\ Same(x.sigs[j], m)

TraitFits(decls, d) ==
    /\ \A x \in ToSet(decls) : x.d = "struct" => x.name # d.name
    /\ \A i \in DOMAIN d.sigs : /\ d.sigs[i].params # <<>>
                                /\ d.sigs[i].params[1] = "self" /\ d.sigs[i].ptys[1] # NoType

\* A body has the type of the result, with the type parameters as types.
BodyFits(e, d) ==
    LET bounds == [x \in Params(d) |-> UNION {ToSet(d.generics[i].bounds) :
                       i \in {j \in DOMAIN d.generics : d.generics[j].name = x}}]
        types == FunctionType(e, d, <<>>)
        vars == Instance([i \in DOMAIN d.params |-> [name |-> d.params[i]]], Front(types.kids))
        ret == IF Last(types.kids) = NoType THEN VoidT ELSE Last(types.kids)
    IN ret \in Types([e EXCEPT !.vars = vars, !.ret = ret, !.bounds = bounds], d.body)

\* A struct may be used in the fields of those after it, a constant or function
\* in the constants after it; everything may be used in a body.
DeclFits(e, i) ==
    LET d == e.decls[i]
        before == SubSeq(e.decls, 1, i - 1)
        structs == SelectSeq(e.decls, LAMBDA x : x.d \in {"struct", "trait", "impl"})
    IN CASE d.d = "struct" -> \A j \in DOMAIN d.ftys : Known(before, Params(d), d.ftys[j])
         [] d.d = "trait" -> TraitFits(e.decls, d)
         [] d.d = "const" -> /\ Known(e.decls, {}, d.ty)
                             /\ d.ty \in Types([e EXCEPT !.decls = structs \o before], d.e)
         [] d.d = "fn" -> Signed(e.decls, d) /\ BodyFits(e, d)
         [] d.d = "impl" -> /\ ImplFits(e.decls, d)
                            /\ \A j \in DOMAIN d.methods : BodyFits(e, d.methods[j])

\* The names that mean something everywhere.
GlobalNames(decls) ==
    FlattenSeq([i \in DOMAIN decls |->
        IF decls[i].d = "impl" THEN [j \in DOMAIN decls[i].methods |-> decls[i].methods[j].name]
        ELSE IF decls[i].d = "trait" THEN <<>> ELSE <<decls[i].name>>])

TraitNames(decls) ==
    LET traits == OfKind(decls, {"trait"}) IN [i \in DOMAIN traits |-> traits[i].name]

\* The rules give every part of the program a type.
WellTyped(decls) ==
    LET open == {d.name : d \in {x \in ToSet(Functions(decls)) : x.rty = NoType}}
        Env(rets) == [decls |-> decls, vars |-> [x \in {} |-> VoidT], ret |-> NoType,
                      rets |-> rets, bounds |-> [x \in {} |-> {}], catching |-> FALSE]
    IN /\ IsInjective(GlobalNames(decls)) /\ IsInjective(TraitNames(decls))
       /\ \E rets \in [open -> Universe \cup {VoidT}] :
             \A i \in DOMAIN decls : DeclFits(Env(rets), i)

=============================================================================
