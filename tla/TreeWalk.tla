------------------------------ MODULE TreeWalk ------------------------------
(***************************************************************************)
(* The interpreter, eval_call_by_name (src/src/eval.c): what a call of a    *)
(* function of a typed program returns.  An EvalCtx w is passed along:      *)
(*                                                                         *)
(*   env     the frames, innermost last; the parent of a frame is the one   *)
(*           before it, which is the caller's when a function is entered    *)
(*   val     what the C function that has just returned returned            *)
(*   ret, retv, thr, thrv    halt_return, halt_throw and their values       *)
(*   made    how many composite values there have been                      *)
(*   error   the first error, "" when there is none                         *)
(*                                                                         *)
(* A Value is a kind and a number; a composite value has its items too, and *)
(* its number tells it from the others, for ==.  Composite values do not    *)
(* change, so that they can be copied here; the code shares them (ValueHeap)*)
(***************************************************************************)
EXTENDS Arithmetic, SequencesExt, Syntax

Void == [k |-> "void", v |-> 0]
BoolOf(b) == [k |-> "bool", v |-> IF b THEN 1 ELSE 0]
Number == {"int", "float", "double"}
Comparable == Number \cup {"bool", "string", "none", "array", "tuple", "struct", "closure"}

IsTrue(v) == v.k \in Number \cup {"bool"} /\ v.v # 0
EqualValues(a, b) == a.k = b.k /\ a.v = b.v /\ a.k \in Comparable

Halted(w) == w.error # "" \/ w.ret \/ w.thr

Gives(w, v) == [w EXCEPT !.val = v]
EvalFail(w, msg) == [w EXCEPT !.error = IF @ = "" THEN msg ELSE @, !.val = Void]

\* A composite value of kind k.
Fresh(w, k, items) ==
    [w EXCEPT !.made = @ + 1, !.val = [k |-> k, v |-> w.made + 1, items |-> items]]

-----------------------------------------------------------------------------
(* Environments *)

NoNames == [x \in {} |-> Void]
Bound(names, values) == [x \in ToSet(names) |-> values[CHOOSE i \in DOMAIN names :
                            names[i] = x /\ \A j \in DOMAIN names : names[j] = x => j <= i]]

Push(w, frame) == [w EXCEPT !.env = Append(@, frame)]
Restore(w, w0) == [w EXCEPT !.env = SubSeq(@, 1, Len(w0.env))]

Insert(w, name, v) ==
    LET d == Len(w.env)
        frame == w.env[d]
    IN [w EXCEPT !.env[d] = [x \in DOMAIN frame \cup {name} |->
                                IF x = name THEN v ELSE frame[x]]]

\* env_lookup_slot: the innermost frame that has the name.
Binding(w, name) ==
    {d \in DOMAIN w.env : /\ name \in DOMAIN w.env[d]
                          /\ \A e \in d + 1 .. Len(w.env) : name \notin DOMAIN w.env[e]}

ValueOf(w, name) == w.env[The(Binding(w, name))][name]

-----------------------------------------------------------------------------
(* Captures: the names fv_walk finds in the body of a lambda *)

RECURSIVE PatternNames(_), PatternFree(_, _), Free(_, _), FreeBlock(_, _)

FreeOfAll(es, bound) == UNION {Free(es[i], bound) : i \in DOMAIN es}

PatternNames(pat) ==
    CASE pat.k = "bind" -> {pat.name}
      [] pat.k = "some" -> PatternNames(pat.inner)
      [] pat.k = "struct" -> UNION {PatternNames(pat.fields[i]) : i \in DOMAIN pat.fields}
      [] pat.k = "field" -> IF pat.inner = Absent THEN {pat.name} ELSE PatternNames(pat.inner)
      [] OTHER -> {}

PatternFree(pat, bound) ==
    CASE pat.k = "lit" -> Free(pat.lit, bound)
      [] pat.k = "or" -> PatternFree(pat.l, bound) \cup PatternFree(pat.r, bound)
      [] pat.k \in {"some", "field"} -> PatternFree(pat.inner, bound)
      [] pat.k = "struct" -> UNION {PatternFree(pat.fields[i], bound) : i \in DOMAIN pat.fields}
      [] OTHER -> {}

FreeStmt(st, bound) ==
    CASE st.k = "for" -> Free(st.e, bound) \cup FreeBlock(st.body, bound \cup {st.name})
      [] st.k = "try" ->
           FreeBlock(st.body, bound) \cup Free(st.fin, bound)
           \cup UNION {FreeBlock(st.catches[i].body, bound \cup {st.catches[i].name}) :
                           i \in DOMAIN st.catches}
      [] OTHER -> Free(st.e, bound)

\* A let binds its name in the statements after it.
FreeBlock(blk, bound) ==
    LET Lets(n) == bound \cup {blk.stmts[i].name : i \in {j \in 1..n : blk.stmts[j].k = "let"}}
    IN UNION {FreeStmt(blk.stmts[i], Lets(i - 1)) : i \in DOMAIN blk.stmts}
       \cup Free(blk.tail, Lets(Len(blk.stmts)))

Free(n, bound) ==
    CASE n.k = "ident" -> {n.name} \ bound
      [] n.k \in {"binary", "index"} -> Free(n.l, bound) \cup Free(n.r, bound)
      [] n.k \in {"unary", "field"} -> Free(n.e, bound)
      [] n.k = "assign" -> ({n.name} \ bound) \cup Free(n.e, bound)
      [] n.k = "call" -> Free(n.callee, bound) \cup FreeOfAll(n.items, bound)
      [] n.k \in {"array", "tuple", "method"} -> FreeOfAll(n.items, bound)
      [] n.k = "block" -> FreeBlock(n, bound)
      [] n.k = "branch" -> Free(n.cond, bound) \cup Free(n.body, bound)
      [] n.k = "if" -> FreeOfAll(n.branches, bound) \cup Free(n.els, bound)
      [] n.k = "match" -> Free(n.e, bound) \cup FreeOfAll(n.arms, bound)
      [] n.k = "arm" ->
           LET in == bound \cup PatternNames(n.pat)
           IN PatternFree(n.pat, in) \cup Free(n.guard, in) \cup Free(n.body, in)
      [] n.k = "lambda" -> Free(n.body, bound \cup ToSet(n.params))
      [] n.k = "init" -> Free(n.e, bound)
      [] n.k = "struct" -> FreeOfAll(n.inits, bound) \cup Free(n.base, bound)
      [] OTHER -> {}

-----------------------------------------------------------------------------
RECURSIVE Eval(_, _), MatchAndBind(_, _, _), EvalArms(_, _, _, _),
          EvalBranches(_, _, _)

\* Arguments and elements, left to right: the context and the values.
EvalAll(w, es) ==
    LET Step(acc, e) == LET w1 == Eval(acc.w, e)
                        IN [w |-> w1, vals |-> Append(acc.vals, w1.val)]
    IN FoldLeft(Step, [w |-> w, vals |-> <<>>], es)

Returned(w) == IF w.ret THEN Gives(w, w.retv) ELSE w

EvalTail(w, tail) ==
    IF w.error # "" \/ (w.thr /\ ~w.ret) THEN Gives(w, Void)
    ELSE Returned(IF w.ret THEN w ELSE Eval(w, tail))

LeaveBlock(w1, w) == Restore([w1 EXCEPT !.ret = @ \/ w.ret], w)

\* eval_block: a pending return is set aside while the block runs.
EvalBlock(w, blk) ==
    LET w0 == Push([w EXCEPT !.ret = FALSE], NoNames)
    IN LeaveBlock(EvalTail(FoldLeft(Eval, w0, blk.stmts), blk.tail), w)

-----------------------------------------------------------------------------
(* Calls *)

\* The end of eval_invoke_fn and eval_invoke_closure.
LeaveCall(w1, w) ==
    LET out == IF w1.thr THEN EvalFail([w1 EXCEPT !.thr = FALSE], "uncaught exception")
               ELSE Returned(w1)
    IN Restore([out EXCEPT !.ret = FALSE], w)

Entered(w, frame) == Push([w EXCEPT !.ret = FALSE, !.thr = FALSE], frame)

\* The frame of the function is put on top of the caller's.
InvokeFn(w, fn, args) ==
    IF Len(args) # Len(fn.params)
    THEN EvalFail(w, "wrong argument count")
    ELSE LeaveCall(Eval(Entered(w, Bound(fn.params, args)), fn.body), w)

\* The captured values are bound afresh by every call.
InvokeClosure(w, clo, args) ==
    LET lambda == clo.items.lambda
    IN IF Len(args) # Len(lambda.params)
       THEN EvalFail(w, "wrong argument count")
       ELSE LeaveCall(Eval(Entered(Push(w, clo.items.caps), Bound(lambda.params, args)),
                               lambda.body), w)

\* lookup_fn does not see methods.
FunctionNamed(w, name) ==
    First({i \in DOMAIN w.src.fns : w.src.fns[i].name = name /\ w.src.fns[i].impl = ""})

\* The value of the callee is the last one.
InvokeValue(w, args) ==
    IF w.error # "" THEN Gives(w, Void)
    ELSE IF w.val.k = "closure" THEN InvokeClosure(w, w.val, args)
    ELSE EvalFail(w, "call target is not a function")

InvokeNamed(w, name, args) ==
    LET fn == FunctionNamed(w, name)
    IN IF Binding(w, name) # {} /\ ValueOf(w, name).k = "closure"
       THEN InvokeClosure(w, ValueOf(w, name), args)
       ELSE IF fn # {} THEN InvokeFn(w, w.src.fns[The(fn)], args)
       ELSE EvalFail(w, "unknown call target")

\* The arguments have been evaluated before the callee is.
Apply(args, callee) ==
    IF args.w.error # "" THEN Gives(args.w, Void)
    ELSE IF callee.k = "ident" THEN InvokeNamed(args.w, callee.name, args.vals)
    ELSE InvokeValue(Eval(args.w, callee), args.vals)

EvalCall(w, n) == Apply(EvalAll(w, n.items), n.callee)

\* A method the type checker did not resolve is looked up by the receiver.
MethodMeant(w, n) ==
    IF n.fn # 0 THEN {n.fn}
    ELSE First({i \in DOMAIN w.src.fns :
                   /\ w.src.fns[i].name = n.method
                   /\ w.src.fns[i].impl \in
                          {""} \cup (IF w.val.k = "struct" THEN {w.val.items.name} ELSE {})})

EvalMethodCall(w, n) ==
    LET recv == Eval(w, Head(n.items))
        fn == w.src.fns[The(MethodMeant(recv, n))]
        rest == EvalAll(recv, Tail(n.items))
    IN IF recv.error # "" THEN Gives(recv, Void)
       ELSE IF MethodMeant(recv, n) = {} THEN EvalFail(recv, "call to unknown function")
       ELSE IF Len(n.items) # Len(fn.params) THEN EvalFail(recv, "wrong argument count")
       ELSE IF rest.w.error # "" THEN Gives(rest.w, Void)
       ELSE InvokeFn(rest.w, fn, <<recv.val>> \o rest.vals)

EvalLambda(w, n) ==
    LET names == Free(n.body, ToSet(n.params))
    IN IF \E x \in names : Binding(w, x) = {}
       THEN EvalFail(w, "unknown identifier in closure environment")
       ELSE Fresh(w, "closure", [lambda |-> n, caps |-> [x \in names |-> ValueOf(w, x)]])

-----------------------------------------------------------------------------
(* Operators *)

EvalUnary(w, n) ==
    LET w1 == Eval(w, n.e)
    IN IF w1.error # "" THEN Gives(w1, Void)
       ELSE IF n.op = "not" THEN Gives(w1, BoolOf(~IsTrue(w1.val)))
       ELSE IF w1.val.k \in Number THEN Gives(w1, [k |-> w1.val.k, v |-> -w1.val.v])
       ELSE EvalFail(w1, "unary '-' type error")

EvalShortCircuit(w, n) ==
    LET l == Eval(w, n.l)
        r == Eval(l, n.r)
    IN IF l.error # "" THEN Gives(l, Void)
       ELSE IF IsTrue(l.val) = (n.op = "or") THEN Gives(l, BoolOf(n.op = "or"))
       ELSE IF r.error # "" THEN Gives(r, Void)
       ELSE Gives(r, BoolOf(IsTrue(r.val)))

\* Both operands are evaluated whatever the left one did, but for an error.
EvalBinary(w, n) ==
    LET wl == Eval(w, n.l)
        l == wl.val
        w1 == Eval(wl, n.r)
        r == w1.val
    IN IF n.op \in {"and", "or"} THEN EvalShortCircuit(w, n)
       ELSE IF w1.error # "" THEN Gives(w1, Void)
       ELSE CASE n.op = "eq" -> Gives(w1, BoolOf(EqualValues(l, r)))
              [] n.op = "ne" -> Gives(w1, BoolOf(~EqualValues(l, r)))
              [] n.op \in {"lt", "gt", "lte", "gte"} ->
                   IF l.k # r.k \/ l.k \in {"bool", "none", "void"}
                   THEN EvalFail(w1, "invalid comparison")
                   ELSE Gives(w1, BoolOf(Ordered(n.op, l.v, r.v)))
              [] OTHER ->
                   IF l.k # r.k \/ l.k \notin Number
                   THEN EvalFail(w1, "type mismatch in arithmetic")
                   ELSE IF n.op \in {"div", "mod"} /\ r.v = 0
                   THEN EvalFail(w1, "division by zero")
                   ELSE Gives(w1, [k |-> l.k, v |-> Compute(n.op, l.v, r.v)])

EvalAssign(w, n) ==
    LET w1 == Eval(w, n.e)
        d == Binding(w1, n.name)
    IN IF w1.error # "" THEN Gives(w1, Void)
       ELSE IF d = {} THEN EvalFail(w1, "assignment to unknown binding")
       ELSE [w1 EXCEPT !.env[The(d)][n.name] = w1.val]

-----------------------------------------------------------------------------
(* Composite values *)

EvalSequence(w, n) ==
    LET items == EvalAll(w, n.items)
    IN IF items.w.error # "" THEN Gives(items.w, Void) ELSE Fresh(items.w, n.k, items.vals)

EvalIndex(w, n) ==
    LET wl == Eval(w, n.l)
        obj == wl.val
        w1 == Eval(wl, n.r)
    IN IF w1.error # "" THEN Gives(w1, Void)
       ELSE IF w1.val.k # "int" THEN EvalFail(w1, "index must be int")
       ELSE IF w1.val.v >= 0 /\ obj.k \notin {"array", "tuple"}
       THEN EvalFail(w1, "index target must be array or tuple")
       ELSE IF w1.val.v < 0 \/ w1.val.v + 1 \notin DOMAIN obj.items
       THEN EvalFail(w1, "index out of bounds")
       ELSE Gives(w1, obj.items[w1.val.v + 1])

\* Without a base in the order of the declaration, with one as written.
EvalStructInit(w, n) ==
    LET struct == w.src.structs[The(StructNamed(w.src, n.name))]
        Given(f) == First({i \in DOMAIN n.inits : n.inits[i].field = f})
        fields == EvalAll(w, [i \in DOMAIN struct.fields |->
                                 n.inits[The(Given(struct.fields[i]))].e])
        base == Eval(w, n.base)
        Overwrite(acc, init) ==
            LET w1 == Eval(acc.w, init.e)
            IN [w |-> w1, vals |-> [acc.vals EXCEPT
                                       ![The(FieldNumber(struct, init.field))] = w1.val]]
        copy == FoldLeft(Overwrite, [w |-> base, vals |-> base.val.items.values], n.inits)
        all == IF n.base = Absent THEN fields ELSE copy
    IN IF StructNamed(w.src, n.name) = {} THEN EvalFail(w, "unknown struct type")
       ELSE IF n.base = Absent /\ \E i \in DOMAIN struct.fields : Given(struct.fields[i]) = {}
       THEN EvalFail(w, "internal: missing struct field at eval")
       ELSE IF n.base # Absent /\ base.error # "" THEN Gives(base, Void)
       ELSE IF n.base # Absent /\ (base.val.k # "struct" \/ base.val.items.name # n.name)
       THEN EvalFail(base, "struct update base has wrong type")
       ELSE IF all.w.error # "" THEN Gives(all.w, Void)
       ELSE Fresh(all.w, "struct", [name |-> n.name, fields |-> struct.fields,
                                    values |-> all.vals])

EvalField(w, n) ==
    LET w1 == Eval(w, n.e)
        field == FieldNumber(w1.val.items, n.field)
    IN IF w1.error # "" THEN Gives(w1, Void)
       ELSE IF w1.val.k # "struct" THEN EvalFail(w1, "field access on non-struct value")
       ELSE IF field = {} THEN EvalFail(w1, "unknown struct field")
       ELSE Gives(w1, w1.val.items.values[The(field)])

-----------------------------------------------------------------------------
(* Branches and patterns *)

EvalBranches(w, branches, els) ==
    LET c == Eval(w, Head(branches).cond)
    IN IF branches = <<>>
       THEN IF els = Absent THEN Gives(w, Void) ELSE Eval(w, els)
       ELSE IF c.error # "" THEN Gives(c, Void)
       ELSE IF IsTrue(c.val) THEN Eval(c, Head(branches).body)
       ELSE EvalBranches(c, Tail(branches), els)

\* Names are bound in the frame on top, by a pattern that fails in the end too.
\* val says whether the value subj fits.
MatchAndBind(w, subj, pat) ==
    LET lit == Eval(w, pat.lit)
        left == MatchAndBind(w, subj, pat.l)
        MatchField(acc, fp) ==
            LET v == subj.items.values[The(FieldNumber(subj.items, fp.field))]
            IN IF ~acc.val THEN acc
               ELSE IF FieldNumber(subj.items, fp.field) = {} THEN Gives(acc, FALSE)
               ELSE IF fp.inner = Absent THEN Gives(Insert(acc, fp.name, v), TRUE)
               ELSE MatchAndBind(acc, v, fp.inner)
    IN IF w.error # "" THEN Gives(w, FALSE) ELSE
       CASE pat.k = "wildcard" -> Gives(w, TRUE)
         [] pat.k = "bind" -> Gives(Insert(w, pat.name, subj), TRUE)
         [] pat.k = "lit" -> Gives(lit, lit.error = "" /\ EqualValues(subj, lit.val))
         [] pat.k = "or" -> IF left.val THEN left ELSE MatchAndBind(left, subj, pat.r)
         [] pat.k = "none" -> Gives(w, subj.k = "none")
         [] pat.k = "some" ->
              IF subj.k = "tuple" /\ Len(subj.items) = 1
              THEN MatchAndBind(w, subj.items[1], pat.inner) ELSE Gives(w, FALSE)
         [] pat.k = "struct" ->
              IF subj.k = "struct" /\ subj.items.name = pat.name
              THEN FoldLeft(MatchField, Gives(w, TRUE), pat.fields) ELSE Gives(w, FALSE)

\* w0 is the context of the match, w that after the arms tried before.
EvalArms(w, subj, arms, w0) ==
    LET arm == Head(arms)
        m == MatchAndBind(Push(w, NoNames), subj, arm.pat)
        g == Eval(m, arm.guard)
        chosen == IF arm.guard = Absent THEN m ELSE g
    IN IF arms = <<>> THEN EvalFail(w, "non-exhaustive match at runtime")
       ELSE IF ~m.val THEN EvalArms(Restore(m, w0), subj, Tail(arms), w0)
       ELSE IF chosen.error # "" THEN Restore(Gives(g, Void), w0)
       ELSE IF arm.guard # Absent /\ ~IsTrue(g.val)
       THEN EvalArms(Restore(g, w0), subj, Tail(arms), w0)
       ELSE Restore(Eval(chosen, arm.body), w0)

EvalMatch(w, n) ==
    LET w1 == Eval(w, n.e)
    IN IF w1.error # "" THEN Gives(w1, Void) ELSE EvalArms(w1, w1.val, n.arms, w1)

EvalIdent(w, name) ==
    IF Binding(w, name) = {} THEN EvalFail(w, "unknown identifier at runtime")
    ELSE Gives(w, ValueOf(w, name))

EvalExpr(w, n) ==
    IF w.error # "" \/ n.k = "absent" THEN Gives(w, Void) ELSE
    CASE n.k = "lit" -> Gives(w, n.value)
      [] n.k = "ident" -> EvalIdent(w, n.name)
      [] n.k = "unary" -> EvalUnary(w, n)
      [] n.k = "binary" -> EvalBinary(w, n)
      [] n.k = "assign" -> EvalAssign(w, n)
      [] n.k = "call" -> EvalCall(w, n)
      [] n.k = "method" -> EvalMethodCall(w, n)
      [] n.k = "if" -> EvalBranches(w, n.branches, n.els)
      [] n.k = "match" -> EvalMatch(w, n)
      [] n.k = "block" -> EvalBlock(w, n)
      [] n.k \in {"array", "tuple"} -> EvalSequence(w, n)
      [] n.k = "index" -> EvalIndex(w, n)
      [] n.k = "struct" -> EvalStructInit(w, n)
      [] n.k = "field" -> EvalField(w, n)
      [] n.k = "lambda" -> EvalLambda(w, n)

-----------------------------------------------------------------------------
(* Statements *)

EvalFor(w, st) ==
    LET w1 == Eval(w, st.e)
        Round(acc, v) ==
            IF Halted(acc) THEN acc
            ELSE Restore(Eval(Push(acc, Bound(<<st.name>>, <<v>>)), st.body), w)
    IN IF w1.error # "" THEN w1
       ELSE IF w1.val.k \notin {"array", "tuple"}
       THEN EvalFail(w1, "for-in expects an array or tuple value")
       ELSE FoldLeft(Round, w1, w1.val.items)

Unhalted(w) == [w EXCEPT !.ret = FALSE, !.thr = FALSE]

\* The first catch clause for the kind of the value thrown runs in place of the
\* throw; what it throws or returns itself takes its place.
EvalCatch(w, catches) ==
    LET clause == First({i \in DOMAIN catches : catches[i].prim = w.thrv.k})
        c == catches[The(clause)]
        w1 == Eval(Push(Unhalted(w), Bound(<<c.name>>, <<w.thrv>>)), c.body)
    IN IF w.error # "" \/ ~w.thr \/ clause = {} THEN w
       ELSE Restore([w1 EXCEPT !.ret = @ \/ w.ret,
                               !.retv = IF w1.ret THEN @ ELSE w.retv], w)

\* (faulty variant: finally only runs after a body that was left as it should)
FinallyOnSuccess(w, fin) ==
    IF fin = Absent \/ Halted(w) THEN w ELSE Eval(w, fin)

\* finally runs whatever happened before; what it throws or returns itself wins.
EvalFinally(w, fin) ==
    LET w1 == Eval(Unhalted(w), fin)
    IN IF fin = Absent \/ w.error # "" THEN w
       ELSE IF w1.error # "" THEN w1
       ELSE IF w1.ret /\ ~w1.thr THEN w1
       ELSE [w1 EXCEPT !.ret = @ \/ w.ret, !.retv = IF w.ret THEN w.retv ELSE @,
                       !.thr = @ \/ w.thr, !.thrv = IF w1.thr THEN @ ELSE w.thrv]

EvalTry(w, st) ==
    EvalFinally(EvalCatch(Eval(Unhalted(w), st.body), st.catches), st.fin)

EvalReturn(w, st) ==
    LET w1 == Eval(w, st.e) IN [w1 EXCEPT !.ret = TRUE, !.retv = w1.val]

EvalThrow(w, st) ==
    LET w1 == Eval(w, st.e)
    IN IF w1.error # "" THEN w1 ELSE [w1 EXCEPT !.thr = TRUE, !.thrv = w1.val]

\* A value that has been evaluated gets a name.
Declare(w, name) == IF w.error # "" THEN w ELSE Insert(w, name, w.val)

EvalStmt(w, st) ==
    IF Halted(w) THEN w ELSE
    CASE st.k = "let" -> Declare(Eval(w, st.e), st.name)
      [] st.k = "expr" -> Eval(w, st.e)
      [] st.k = "return" -> EvalReturn(w, st)
      [] st.k = "for" -> EvalFor(w, st)
      [] st.k = "throw" -> EvalThrow(w, st)
      [] st.k = "try" -> EvalTry(w, st)

\* A statement or an expression.
Eval(w, n) == IF n.k \in Statements THEN EvalStmt(w, n) ELSE EvalExpr(w, n)

-----------------------------------------------------------------------------
\* eval_seed_consts, in source order.
SeedConsts(w) ==
    LET Seed(acc, const) == Declare(Eval(acc, const.e), const.name)
    IN FoldLeft(Seed, w, w.src.consts)

CallByName(w, name, args) ==
    LET fn == FunctionNamed(w, name)
    IN IF fn = {} THEN [w EXCEPT !.error = "function not found"]
       ELSE IF w.error # "" THEN w
       ELSE InvokeFn(w, w.src.fns[The(fn)], args)

Outcome(w) == [value |-> w.val, error |-> w.error]

\* eval_call_by_name: the value and the error of a call of function name.
Evaluate(src, name, args) ==
    LET w == [src |-> src, env |-> <<NoNames>>, val |-> Void, ret |-> FALSE,
              retv |-> Void, thr |-> FALSE, thrv |-> Void, made |-> 0, error |-> ""]
    IN Outcome(CallByName(SeedConsts(w), name, args))

=============================================================================
