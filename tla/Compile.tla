------------------------------ MODULE Compile ------------------------------
(***************************************************************************)
(* The bytecode compiler, compile_program_bc (src/src/compile.c): what a    *)
(* typed syntax tree becomes.  A compiler state c is passed along:          *)
(*                                                                         *)
(*   chunks   the chunks so far: one per function, then the lambdas         *)
(*   ctxs     the Ctx of the function and of the lambdas being compiled,    *)
(*            innermost last; names[s] is the name of slot s ("" is NULL),  *)
(*            next the number of slots taken, modulo SlotLimit (uint8_t)    *)
(*   error    the first error, "" when there is none                        *)
(*                                                                         *)
(* A jump whose operand is still to be patched has target 0; Patch gives    *)
(* the pending jumps of a construct the instruction that comes next.        *)
(***************************************************************************)
EXTENDS Integers, SequencesExt, Syntax

CONSTANTS
    SlotLimit,    \* 256, the values of next_slot
    MaxUpvalues,  \* 64, upvals of a Ctx
    MaxBranches,  \* 48, exit_patches of an if
    MaxClauses    \* 32, exit_patches of a match, done_patches of a try

Numeric == {"int", "float", "double"}
Sentinel == [k |-> "string", v |-> 0]  \* BC_RETURN_SENTINEL
IntValue(i) == [k |-> "int", v |-> i]

EmptyChunk == [code |-> <<>>, constants |-> <<>>, nparams |-> 0, nlocals |-> 0]

\* Ctx of compile_one_fn or compile_lambda.
Context(chunk, params) ==
    [chunk |-> chunk, names |-> params, layouts |-> [s \in DOMAIN params |-> 0],
     next |-> Len(params), ups |-> <<>>, tryDepth |-> 0, inFinally |-> 0]

-----------------------------------------------------------------------------
(* Emitting *)

CompileFail(c, msg) == IF c.error = "" THEN [c EXCEPT !.error = msg] ELSE c

Inner(c) == Len(c.ctxs)
Top(c) == c.ctxs[Inner(c)]
Chunk(c) == c.chunks[Top(c).chunk]
Here(c) == Len(Chunk(c).code) + 1

I(o) == [op |-> o, fn |-> "none", kind |-> "void", a |-> 0, b |-> 0, caps |-> <<>>]
IA(o, a) == [I(o) EXCEPT !.a = a]
IK(o, f, k) == [I(o) EXCEPT !.fn = f, !.kind = k]
Load(s) == IA("LOAD_LOCAL", s)
Store(s) == IA("STORE_LOCAL", s)
JumpIf(b) == IK("POP_JUMP_IF", b, "void")

Emit(c, ins) == [c EXCEPT !.chunks[Top(c).chunk].code = Append(@, ins)]
Emits(c, code) == [c EXCEPT !.chunks[Top(c).chunk].code = @ \o code]

\* chunk_add_constant and OP_PUSH_CONST; constants are not shared.
EmitConst(c, v) ==
    Emit([c EXCEPT !.chunks[Top(c).chunk].constants = Append(@, v)],
         IA("PUSH_CONST", Len(Chunk(c).constants) + 1))

\* chunk_patch_u16 of the pending jumps o from instruction start on.
Patch(c, start, o) ==
    LET code == Chunk(c).code
    IN [c EXCEPT !.chunks[Top(c).chunk].code =
            [i \in DOMAIN code |-> IF i >= start /\ code[i].op = o /\ code[i].a = 0
                                   THEN [code[i] EXCEPT !.a = Here(c)]
                                   ELSE code[i]]]

-----------------------------------------------------------------------------
(* Slots and names *)

NextSlot(c) == Top(c).next + 1
After(s) == (s % SlotLimit) + 1

\* next_slot++: the comparison with 255 that follows it never holds.
TakeSlot(c, name) ==
    LET s == NextSlot(c)
        n == s % SlotLimit
        ctx == Top(c)
    IN [c EXCEPT
          !.ctxs[Inner(c)] =
              [ctx EXCEPT !.names = IF s <= Len(@) THEN [@ EXCEPT ![s] = name]
                                    ELSE Append(@, name),
                          !.layouts = IF s <= Len(@) THEN @ ELSE Append(@, 0),
                          !.next = n],
          !.chunks[ctx.chunk].nlocals = IF @ < n THEN n ELSE @]

TakeSlots(c, names) == FoldLeft(TakeSlot, c, names)

\* Names are never given up: the first slot that ever had the name is meant.
ResolveLocal(c, d, name) ==
    First({s \in 1..c.ctxs[d].next : c.ctxs[d].names[s] = name})

AddUpvalue(c, d, isLocal, idx) ==
    LET up == [isLocal |-> isLocal, idx |-> idx]
    IN IF \E i \in DOMAIN c.ctxs[d].ups : c.ctxs[d].ups[i] = up
       THEN c
       ELSE IF Len(c.ctxs[d].ups) >= MaxUpvalues
            THEN CompileFail(c, "too many upvalues")
            ELSE [c EXCEPT !.ctxs[d].ups = Append(@, up)]

UpvalueAt(c, d, isLocal, idx) ==
    First({i \in DOMAIN c.ctxs[d].ups : c.ctxs[d].ups[i] = [isLocal |-> isLocal, idx |-> idx]})

\* resolve_upvalue for the context d: the compiler state, which gains captures
\* in every context the name passes through, and the index found (a set).
RECURSIVE ResolveUpvalue(_, _, _)
ResolveUpvalue(c, d, name) ==
    IF d = 1
    THEN [c |-> c, at |-> {}]
    ELSE LET local == ResolveLocal(c, d - 1, name)
             outer == ResolveUpvalue(c, d - 1, name)
             Added(c0, isLocal, idx) ==
                 LET c1 == AddUpvalue(c0, d, isLocal, idx)
                 IN [c |-> c1, at |-> UpvalueAt(c1, d, isLocal, idx)]
         IN IF local # {} THEN Added(c, TRUE, The(local))
            ELSE IF outer.at # {} THEN Added(outer.c, FALSE, The(outer.at))
            ELSE outer

-----------------------------------------------------------------------------
RECURSIVE CompileNode(_, _), BindPattern(_, _, _, _)

CompileExprs(c, es) == FoldLeft(CompileNode, c, es)

(* Blocks *)

\* Statements after a return or a throw are not compiled.
Enders(blk) == First({i \in DOMAIN blk.stmts : blk.stmts[i].k \in {"return", "throw"}})
Ends(blk) == Enders(blk) # {}
Compiled(blk) == IF Ends(blk) THEN SubSeq(blk.stmts, 1, The(Enders(blk))) ELSE blk.stmts

CompileStmts(c, blk) == FoldLeft(CompileNode, c, Compiled(blk))

CompileTail(c, blk, trailing) ==
    IF Ends(blk) THEN c
    ELSE IF trailing THEN Emit(CompileNode(c, blk.tail), I("RETURN"))
    ELSE IF blk.tail = Absent THEN c
    ELSE Emit(CompileNode(c, blk.tail), I("POP"))

\* compile_block_ex: a trailing return ends a function; else the value is dropped.
CompileBlock(c, blk, trailing) == CompileTail(CompileStmts(c, blk), blk, trailing)

CompileBlockAsValue(c, blk) ==
    LET bare == \E i \in DOMAIN Compiled(blk) : Compiled(blk)[i] = Return(Absent)
    IN IF bare THEN CompileFail(c, "bare return in branch block")
       ELSE IF Ends(blk) THEN CompileStmts(c, blk)
       ELSE IF blk.tail = Absent
       THEN CompileFail(CompileStmts(c, blk), "branch block needs a tail")
       ELSE CompileNode(CompileStmts(c, blk), blk.tail)

\* A Ctx records the struct of a variable that is initialized with a literal.
CompileLet(c, st) ==
    LET s == NextSlot(c)
        c1 == Emit(CompileNode(TakeSlot(c, st.name), st.e), Store(s))
        layout == IF st.e.k = "struct" THEN StructNamed(c.src, st.e.name) ELSE {}
    IN IF layout = {} THEN c1
       ELSE [c1 EXCEPT !.ctxs[Inner(c)].layouts[s] = The(layout)]

\* (faulty variant: a return in a try region is a return like any other)
PlainReturn(c, st) == Emit(CompileNode(c, st.e), I("RETURN"))

\* In a try region a return is thrown, with the value to return.
CompileReturn(c, st) ==
    IF Top(c).tryDepth = 0 /\ Top(c).inFinally = 0
    THEN Emit(CompileNode(c, st.e), I("RETURN"))
    ELSE IF st.e = Absent
         THEN CompileFail(c, "bytecode bare return is not supported")
         ELSE Emits(CompileNode(EmitConst(c, Sentinel), st.e),
                    <<[IK("SEQ_NEW", "none", "tuple") EXCEPT !.a = 2], I("THROW")>>)

\* (faulty variant: loop_start is taken after the body)
LateStart(c, i, start) ==
    LET c1 == Emits(EmitConst(Emit(c, Load(i)), IntValue(1)),
                    <<IK("ARITH", "add", "int"), Store(i)>>)
    IN Emit(c1, IA("JUMP", Here(c1)))

NextRound(c, i, start) ==
    Emits(EmitConst(Emit(c, Load(i)), IntValue(1)),
          <<IK("ARITH", "add", "int"), Store(i), IA("JUMP", start)>>)

CompileFor(c, st) ==
    LET arr == NextSlot(c)
        c1 == TakeSlots(c, <<"", "", st.name>>)
        i == After(arr)
        v == After(i)
        c2 == Emit(CompileNode(c1, st.e), Store(arr))
        c3 == Emit(EmitConst(c2, IntValue(0)), Store(i))
        start == Here(c3)
        c4 == Emits(c3, <<Load(i), Load(arr), I("ARRAY_LEN"), IK("ORDER", "lt", "int"),
                          JumpIf("false"), Load(arr), Load(i), I("INDEX_INT"), Store(v)>>)
    IN Patch(NextRound(CompileBlock(c4, st.body, FALSE), i, start), start, "POP_JUMP_IF")

-----------------------------------------------------------------------------
(* Try *)

\* Compile blk with try_depth one deeper.
Protected(c, blk) ==
    LET c1 == [c EXCEPT !.ctxs[Inner(c)].tryDepth = @ + 1]
    IN [CompileBlock(c1, blk, FALSE) EXCEPT !.ctxs[Inner(c)].tryDepth = @ - 1]

\* One copy of the finally block, if there is one.
Finally(c, blk) ==
    LET c1 == [c EXCEPT !.ctxs[Inner(c)].inFinally = @ + 1]
    IN IF blk = Absent THEN c
       ELSE [CompileBlock(c1, blk, FALSE) EXCEPT !.ctxs[Inner(c)].inFinally = @ - 1]

CompileCatch(c, clause, ex, fin) ==
    LET start == Here(c)
        s == NextSlot(c)
        c1 == Emits(c, <<Load(ex), IK("EXN_IS_PRIM", "none", clause.prim), JumpIf("false")>>)
        c2 == Emits(TakeSlot(c1, clause.name), <<Load(ex), Store(s)>>)
        c3 == Finally(Protected(c2, clause.body), fin)
    IN IF clause.prim \notin Numeric \cup {"bool", "string"}
       THEN CompileFail(c, "bytecode catch type must be primitive")
       ELSE Patch(Emit(c3, I("JUMP")), start, "POP_JUMP_IF")

\* The handler is left before the finally block runs; every catch clause and
\* the case that none matches have a finally block of their own.
CompileTry(c, st) ==
    LET ex == NextSlot(c)
        start == Here(c)
        c1 == Protected(Emit(TakeSlot(c, ""), I("TRY_ENTER")), st.body)
        c2 == Emit(Finally(Emit(c1, I("TRY_EXIT")), st.fin), I("JUMP"))
        c3 == Emit(Patch(c2, start, "TRY_ENTER"), Store(ex))
        Clause(c0, clause) == CompileCatch(c0, clause, ex, st.fin)
        c4 == Finally(FoldLeft(Clause, c3, st.catches), st.fin)
    IN IF Len(st.catches) > MaxClauses
       THEN CompileFail(c, "too many catch clauses")
       ELSE Patch(Emits(c4, <<Load(ex), I("THROW")>>), start, "JUMP")

CompileStmt(c, st) ==
    CASE st.k = "let" -> CompileLet(c, st)
      [] st.k = "return" -> CompileReturn(c, st)
      [] st.k = "expr" -> Emit(CompileNode(c, st.e), I("POP"))
      [] st.k = "for" -> CompileFor(c, st)
      [] st.k = "try" -> CompileTry(c, st)
      [] st.k = "throw" -> Emit(CompileNode(c, st.e), I("THROW"))

-----------------------------------------------------------------------------
(* Branches *)

CompileBranch(c, br) ==
    LET start == Here(c)
        c1 == Emit(CompileNode(c, br.cond), JumpIf("false"))
        c2 == Emit(CompileBlockAsValue(c1, br.body), I("JUMP"))
    IN Patch(c2, start, "POP_JUMP_IF")

CompileIf(c, n) ==
    IF n.els = Absent
    THEN CompileFail(c, "bytecode if needs else branch")
    ELSE IF Len(n.branches) > MaxBranches
    THEN CompileFail(c, "too many else-if branches for bytecode")
    ELSE Patch(CompileBlockAsValue(FoldLeft(CompileBranch, c, n.branches), n.els),
               Here(c), "JUMP")

\* && and ||: the right operand only when the left one does not decide.
CompileShortCircuit(c, n) ==
    LET decides == IF n.op = "and" THEN "false" ELSE "true"
        start == Here(c)
        c1 == Emit(CompileNode(c, n.l), JumpIf(decides))
        c2 == Patch(Emit(CompileNode(c1, n.r), I("JUMP")), start, "POP_JUMP_IF")
        c3 == EmitConst(c2, [k |-> "bool", v |-> IF decides = "true" THEN 1 ELSE 0])
    IN Patch(c3, start, "JUMP")

-----------------------------------------------------------------------------
(* Patterns *)

\* emit_match_pat_test: a jump to the next arm, or nothing when every value fits.
TestPattern(c, pat, subj, scratch) ==
    CASE pat.k \in {"wildcard", "bind", "struct"} -> c
      [] pat.k = "lit" ->
           Emits(CompileNode(Emit(c, Load(subj)), pat.lit),
                 <<IK("EQUAL", "eq", "void"), JumpIf("false")>>)
      [] pat.k = "none" ->
           Emits(EmitConst(Emit(c, Load(subj)), [k |-> "none", v |-> 0]),
                 <<IK("EQUAL", "eq", "void"), JumpIf("false")>>)
      [] pat.k = "some" /\ pat.inner.k \in {"wildcard", "bind", "struct"} ->
           Emits(EmitConst(Emits(c, <<Load(subj), Store(scratch), Load(scratch),
                                      I("DUP"), I("ARRAY_LEN")>>), IntValue(1)),
                 <<IK("EQUAL", "eq", "void"), I("SWAP"), I("POP"), JumpIf("false")>>)
      [] OTHER -> CompileFail(c, "bytecode match: unsupported pattern")

\* The value just pushed gets a slot of its own; names "" are matched further.
BindTop(c, name) ==
    LET s == NextSlot(c) IN Emit(TakeSlot(c, name), Store(s))

BindField(c, fp, struct, subj, scratch) ==
    LET field == FieldNumber(struct, fp.field)
        s == NextSlot(c)
        c1 == Emits(c, <<Load(subj), IA("GET_FIELD", The(field))>>)
    IN IF field = {} THEN CompileFail(c, "unknown struct field in match pattern")
       ELSE IF fp.inner = Absent THEN BindTop(c1, fp.name)
       ELSE BindPattern(BindTop(c1, ""), fp.inner, s, scratch)

BindPattern(c, pat, subj, scratch) ==
    LET s == NextSlot(c)
        element == Emit(EmitConst(Emit(c, Load(scratch)), IntValue(0)), I("INDEX_INT"))
        struct == StructNamed(c.src, pat.name)
        Field(c0, fp) == BindField(c0, fp, c.src.structs[The(struct)], subj, scratch)
    IN CASE pat.k = "bind" -> BindTop(Emit(c, Load(subj)), pat.name)
         [] pat.k = "or" -> BindPattern(c, pat.l, subj, scratch)
         [] pat.k = "some" /\ pat.inner.k = "wildcard" -> Emit(element, I("POP"))
         [] pat.k = "some" /\ pat.inner.k = "bind" -> BindTop(element, pat.inner.name)
         [] pat.k = "some" /\ pat.inner.k \notin {"wildcard", "bind"} ->
              BindPattern(BindTop(element, ""), pat.inner, s, scratch)
         [] pat.k = "struct" ->
              IF struct = {} THEN CompileFail(c, "unknown struct in match bind")
              ELSE FoldLeft(Field, c, pat.fields)
         [] OTHER -> c

CompileGuard(c, guard) ==
    IF guard = Absent THEN c ELSE Emit(CompileNode(c, guard), JumpIf("false"))

\* What follows the test of the pattern.
CompileFitting(c, arm, subj, scratch) ==
    LET c1 == CompileGuard(BindPattern(c, arm.pat, subj, scratch), arm.guard)
    IN IF c.error # "" THEN c ELSE Emit(CompileNode(c1, arm.body), I("JUMP"))

CompileArm(c, arm, subj, scratch) ==
    Patch(CompileFitting(TestPattern(c, arm.pat, subj, scratch), arm, subj, scratch),
          Here(c), "POP_JUMP_IF")

CanFail(arm) == arm.guard # Absent \/ arm.pat.k \in {"lit", "none", "some"}

\* When the last arm can fail, no match leaves 0.
CompileMatch(c, n) ==
    LET subj == NextSlot(c)
        c1 == Emit(CompileNode(TakeSlots(c, <<"", "", "">>), n.e), Store(subj))
        NextArm(c0, arm) == CompileArm(c0, arm, subj, After(subj))
        c2 == FoldLeft(NextArm, c1, n.arms)
        fails == n.arms # <<>> /\ CanFail(Last(n.arms))
    IN IF Len(n.arms) > MaxClauses THEN CompileFail(c, "too many match arms")
       ELSE Patch(IF fails THEN EmitConst(c2, IntValue(0)) ELSE c2, Here(c), "JUMP")

-----------------------------------------------------------------------------
(* Functions, calls and names *)

FinishChunk(c) == [c EXCEPT !.chunks[Top(c).chunk].nlocals = Top(c).next]

CompileBody(c, body) ==
    IF body.k = "block" THEN CompileBlock(c, body, TRUE)
    ELSE Emit(CompileNode(c, body), I("RETURN"))

\* c is the state after the body of the lambda with chunk k.
LeaveLambda(c, k) ==
    IF c.error # "" THEN c
    ELSE Emit([c EXCEPT !.ctxs = Front(@)], 
              [IK("CLOSURE", "none", "closure") EXCEPT !.a = k, !.caps = Top(c).ups])

CompileLambda(c, n) ==
    LET k == Len(c.chunks) + 1
        child == [c EXCEPT
                    !.chunks = Append(@, [EmptyChunk EXCEPT !.nparams = Len(n.params),
                                                            !.nlocals = Len(n.params)]),
                    !.ctxs = Append(@, Context(k, n.params))]
    IN IF Len(n.params) >= SlotLimit THEN CompileFail(c, "too many lambda parameters")
       ELSE LeaveLambda(FinishChunk(CompileBody(child, n.body)), k)

\* A variable of this function, a captured one, a constant, or a function.
CompileIdent(c, name) ==
    LET local == ResolveLocal(c, Inner(c), name)
        up == ResolveUpvalue(c, Inner(c), name)
        const == ConstNamed(c.src, name)
        literal == c.src.consts[The(const)].e
        fn == FnNamed(c.src, name)
    IN IF local # {} THEN Emit(c, Load(The(local)))
       ELSE IF up.at # {} THEN Emit(up.c, IA("GET_UPVALUE", The(up.at)))
       ELSE IF const # {} /\ literal.k = "lit" /\ literal.value.k \in {"int", "bool"}
       THEN EmitConst(up.c, literal.value)
       ELSE IF fn # {} THEN Emit(up.c, IA("CLOSURE", The(fn)))
       ELSE CompileFail(up.c, "unknown identifier for bytecode")

CompileAssign(c, n) ==
    LET c1 == Emit(CompileNode(c, n.e), I("DUP"))
        local == ResolveLocal(c1, Inner(c), n.name)
        up == ResolveUpvalue(c1, Inner(c), n.name)
    IN IF local # {} THEN Emit(c1, Store(The(local)))
       ELSE IF up.at # {} THEN Emit(up.c, IA("SET_UPVALUE", The(up.at)))
       ELSE CompileFail(up.c, "bytecode assign to unknown binding")

\* A name that is not a variable is that of a function, which is called directly.
CompileCall(c, n) ==
    LET nargs == Len(n.items)
        name == n.callee.name
        up == ResolveUpvalue(c, Inner(c), name)
        variable == ResolveLocal(c, Inner(c), name) # {} \/ up.at # {}
        fn == FnNamed(c.src, name)
        Args(c0, ins) == Emit(CompileExprs(c0, n.items), [ins EXCEPT !.b = nargs])
    IN IF n.callee.k # "ident" \/ variable
       THEN Args(CompileNode(c, n.callee), I("CALL_CLOSURE"))
       ELSE IF fn = {} THEN CompileFail(up.c, "unknown call target")
       ELSE IF Len(c.src.fns[The(fn)].params) # nargs
       THEN CompileFail(up.c, "wrong argument count in call")
       ELSE Args(up.c, IA("CALL", The(fn)))

CompileMethodCall(c, n) ==
    IF Len(c.src.fns[n.fn].params) # Len(n.items)
    THEN CompileFail(c, "wrong argument count in method call")
    ELSE Emit(CompileExprs(c, n.items), [IA("CALL", n.fn) EXCEPT !.b = Len(n.items)])

-----------------------------------------------------------------------------
(* Structs *)

\* Fields in the order of the declaration; the others are those of the base.
CompileStructInit(c, n) ==
    LET layout == StructNamed(c.src, n.name)
        struct == c.src.structs[The(layout)]
        base == NextSlot(c)
        c1 == IF n.base = Absent THEN c
              ELSE [Emit(CompileNode(TakeSlot(c, ""), n.base), Store(base))
                        EXCEPT !.ctxs[Inner(c)].layouts[base] = The(layout)]
        Given(f) == First({i \in DOMAIN n.inits : n.inits[i].field = f})
        Field(c0, f) ==
            IF Given(f) # {} THEN CompileNode(c0, n.inits[The(Given(f))].e)
            ELSE IF n.base = Absent THEN CompileFail(c0, "missing struct field")
            ELSE Emits(c0, <<Load(base), IA("GET_FIELD", The(FieldNumber(struct, f)))>>)
    IN IF layout = {} THEN CompileFail(c, "unknown struct type for bytecode")
       ELSE Emit(FoldLeft(Field, c1, struct.fields), IA("STRUCT_NEW", The(layout)))

CompileField(c, n) ==
    LET c1 == CompileNode(c, n.e)
        local == IF n.e.k = "ident" THEN ResolveLocal(c1, Inner(c1), n.e.name) ELSE {}
        layout == IF local = {} THEN 0 ELSE Top(c1).layouts[The(local)]
        field == IF layout = 0 THEN {} ELSE FieldNumber(c.src.structs[layout], n.field)
    IN IF field # {} THEN Emit(c1, IA("GET_FIELD", The(field)))
       ELSE Emit(c1, IA("GET_FIELD_NAMED", n.field))

-----------------------------------------------------------------------------
CompileUnary(c, n) ==
    LET c1 == CompileNode(c, n.e)
    IN IF n.op = "not" THEN Emit(c1, I("NOT"))
       ELSE IF n.ty \in Numeric THEN Emit(c1, IK("NEG", "none", n.ty))
       ELSE CompileFail(c1, "bytecode unary '-' needs numeric operand")

CompileBinary(c, n) ==
    LET c1 == CompileNode(CompileNode(c, n.l), n.r)
    IN CASE n.op \in {"and", "or"} -> CompileShortCircuit(c, n)
         [] n.op = "mod" -> Emit(c1, IK("ARITH", "mod", "int"))
         [] n.op \in {"eq", "ne"} -> Emit(c1, IK("EQUAL", n.op, "void"))
         [] n.op \in {"add", "sub", "mul", "div"} /\ n.ty \in Numeric ->
              Emit(c1, IK("ARITH", n.op, n.ty))
         [] n.op \in {"lt", "gt", "lte", "gte"} /\ n.ty \in Numeric ->
              Emit(c1, IK("ORDER", n.op, n.ty))
         [] OTHER -> CompileFail(c1, "bytecode operator needs numeric operands")

CompileExpr(c, n) ==
    CASE n.k = "absent" -> c
      [] n.k = "lit" /\ n.value.k # "string" -> EmitConst(c, n.value)
      [] n.k = "block" -> CompileBlockAsValue(c, n)
      [] n.k = "assign" -> CompileAssign(c, n)
      [] n.k = "ident" -> CompileIdent(c, n.name)
      [] n.k = "unary" -> CompileUnary(c, n)
      [] n.k = "binary" -> CompileBinary(c, n)
      [] n.k = "if" -> CompileIf(c, n)
      [] n.k = "match" -> CompileMatch(c, n)
      [] n.k = "lambda" -> CompileLambda(c, n)
      [] n.k = "call" -> CompileCall(c, n)
      [] n.k = "method" -> CompileMethodCall(c, n)
      [] n.k \in {"array", "tuple"} ->
           Emit(CompileExprs(c, n.items),
                [IK("SEQ_NEW", "none", n.k) EXCEPT !.a = Len(n.items)])
      [] n.k = "index" -> Emit(CompileNode(CompileNode(c, n.l), n.r), I("INDEX_INT"))
      [] n.k = "struct" -> CompileStructInit(c, n)
      [] n.k = "field" -> CompileField(c, n)
      [] OTHER -> CompileFail(c, "expression not supported in bytecode")

\* After an error nothing is compiled.
CompileNode(c, n) ==
    IF c.error # "" THEN c
    ELSE IF n.k \in Statements THEN CompileStmt(c, n) ELSE CompileExpr(c, n)

-----------------------------------------------------------------------------
\* compile_one_fn, for the function whose chunk is i.
CompileFn(c, i) ==
    LET fn == c.src.fns[i]
        struct == StructNamed(c.src, fn.impl)
        self == IF fn.impl # "" /\ struct # {} /\ fn.params # <<>> /\ fn.params[1] = "self"
                THEN The(struct) ELSE 0
        ctx == Context(i, fn.params)
        c1 == [c EXCEPT
                 !.chunks[i] = [EmptyChunk EXCEPT !.nparams = Len(fn.params),
                                                  !.nlocals = Len(fn.params)],
                 !.ctxs = <<[ctx EXCEPT !.layouts =
                                [s \in DOMAIN @ |-> IF s = 1 THEN self ELSE 0]]>>]
    IN IF c.error # "" THEN c
       ELSE IF Len(fn.params) >= SlotLimit THEN CompileFail(c, "too many parameters")
       ELSE FinishChunk(CompileBlock(c1, fn.body, TRUE))

\* compile_program_bc: the state at the end, with the chunks and the error.
CompileProgram(src) ==
    LET c == [src |-> src, chunks |-> [i \in DOMAIN src.fns |-> EmptyChunk],
              ctxs |-> <<>>, error |-> ""]
    IN IF src.fns = <<>> THEN CompileFail(c, "no functions to compile")
       ELSE FoldLeft(CompileFn, c, [i \in DOMAIN src.fns |-> i])

=============================================================================
