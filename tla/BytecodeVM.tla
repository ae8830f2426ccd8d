----------------------------- MODULE BytecodeVM -----------------------------
(***************************************************************************)
(* The bytecode machine of Mons: vm_run_program (src/src/vm.c), one action  *)
(* per family of opcodes, over any bytecode, compiled or not.               *)
(*                                                                         *)
(* A Value is a kind and a number: an integer, 0 or 1, the number of a      *)
(* string (0 is the sentinel VM_RETURN_SENTINEL), or the index in objs of   *)
(* an array, a tuple, a struct or a closure.  objs only grows: who may free *)
(* an object, and when, is the matter of ValueHeap.  The field tag of an    *)
(* object is bc_chunk_idx of a closure and the layout of a struct.          *)
(*                                                                         *)
(* Instructions are numbered instead of bytes and a jump holds its target;  *)
(* FLOAT and DOUBLE opcodes are the INT handlers on another kind of number. *)
(* "malformed" is every error that says the machine was given bytecode it   *)
(* cannot execute (a wrong kind, index or arity, an empty stack).           *)
(***************************************************************************)
EXTENDS Arithmetic, Sequences

CONSTANTS
    Programs,  \* the compiled programs with the arguments of the call
    StackCap,  \* VM_STACK_CAP
    MaxDepth,  \* VM_MAX_DEPTH
    TryCap     \* VM_TRY_CAP

Numbers == {"int", "float", "double"}
Scalars == Numbers \cup {"bool", "string", "none", "void"}
Sequential == {"array", "tuple"}
Composite == Sequential \cup {"struct", "closure"}

Value(n) == [k : Scalars, v : Int] \cup [k : Composite, v : 1..n]

\* calloc of the locals: kind 0 is VAL_INT.
Zero == [k |-> "int", v |-> 0]
Void == [k |-> "void", v |-> 0]
ReturnSentinel == [k |-> "string", v |-> 0]
Bool(b) == [k |-> "bool", v |-> IF b THEN 1 ELSE 0]

Opcodes == {
    "PUSH_CONST", "LOAD_LOCAL", "STORE_LOCAL", "GET_UPVALUE", "SET_UPVALUE",
    "POP", "DUP", "SWAP", "ARITH", "NEG", "EQUAL", "ORDER", "NOT", "JUMP",
    "POP_JUMP_IF", "CALL", "RETURN", "CLOSURE", "CALL_CLOSURE", "STRUCT_NEW",
    "GET_FIELD", "GET_FIELD_NAMED", "SEQ_NEW", "ARRAY_LEN", "INDEX_INT",
    "TRY_ENTER", "TRY_EXIT", "THROW", "EXN_IS_PRIM"}

Selectors == {"add", "sub", "mul", "div", "mod", "lt", "gt", "lte", "gte",
              "eq", "ne", "true", "false", "none"}

Capture == [isLocal : BOOLEAN, idx : Nat]
Instr == [op : Opcodes, fn : Selectors, kind : Scalars \cup Composite,
          a : Nat, b : Nat, caps : Seq(Capture)]
Chunk == [code : Seq(Instr), constants : Seq(Value(0)), nparams : Nat, nlocals : Nat]
Program == [chunks : Seq(Chunk), layouts : Seq(Seq(Nat)), entry : Nat, args : Seq(Value(0))]

ASSUME ProgramsAssumption ==
    /\ Programs \subseteq Program
    /\ \A p \in Programs : p.entry \in DOMAIN p.chunks =>
           p.chunks[p.entry].nparams <= p.chunks[p.entry].nlocals
ASSUME CapsAssumption ==
    StackCap \in Nat /\ MaxDepth \in Nat \ {0} /\ TryCap \in Nat

VARIABLES
    prog,    \* the program that runs
    frames,  \* the first depth + 1 entries of fr
    stack,   \* the first sp entries of stack
    tries,   \* the first ntry entries of try_stack
    objs,    \* the objects allocated so far
    acts,    \* (history) how many activations there have been
    status, error, result

vars == <<prog, frames, stack, tries, objs, acts, status, error, result>>

\* With n objects allocated.
Object(n) == [tag : Nat, items : Seq(Value(n))]
Frame(n) == [chunk : Nat, ip : Nat, locals : Seq(Value(n)), clo : 0..n, act : Nat]
Handler == [depth : Nat, ip : Nat, sp : Nat, act : Nat]
Errors == {"none", "malformed", "stack overflow", "call depth exceeded",
           "try stack overflow", "division by zero", "index out of bounds",
           "uncaught exception"}

TypeOK ==
    /\ prog \in Programs
    /\ frames \in Seq(Frame(Len(objs))) /\ Len(frames) <= MaxDepth
    /\ stack \in Seq(Value(Len(objs))) /\ Len(stack) <= StackCap
    /\ tries \in Seq(Handler) /\ Len(tries) <= TryCap
    /\ objs \in Seq(Object(Len(objs)))
    /\ acts \in Nat
    /\ status \in {"run", "ok", "failed"}
    /\ error \in Errors
    /\ result \in Value(Len(objs))
    /\ status = "run" => frames # <<>>
    /\ \A i \in DOMAIN frames : frames[i].chunk \in DOMAIN prog.chunks

-----------------------------------------------------------------------------
(* The running frame *)

Depth == Len(frames)
Sp == Len(stack)
Cur == frames[Depth]
Code == prog.chunks[Cur.chunk].code
Ins == Code[Cur.ip]
Upvalues == IF Cur.clo = 0 THEN <<>> ELSE objs[Cur.clo].items

Fetched(op) == status = "run" /\ Cur.ip \in DOMAIN Code /\ Ins.op = op

Peek(i) == stack[Sp + 1 - i]
Under(n) == SubSeq(stack, 1, Sp - n)
Popped(n) == SubSeq(stack, Sp - n + 1, Sp)

At(i) == [frames EXCEPT ![Depth].ip = i]
Advance == At(Cur.ip + 1)

Least(m, n) == IF m <= n THEN m ELSE n

\* The end of vm_run_program: vm_cleanup drops the stack and every frame.
Stop(s, e, r) ==
    /\ status' = s
    /\ error' = e
    /\ result' = r
    /\ frames' = <<>>
    /\ stack' = <<>>
    /\ tries' = <<>>
    /\ UNCHANGED <<prog, objs, acts>>

Fail(e) == Stop("failed", e, Void)

\* (faulty variant: stack_push does not look at VM_STACK_CAP)
ReplaceUnchecked(n, v) ==
    /\ stack' = Append(Under(n), v)
    /\ frames' = Advance
    /\ UNCHANGED <<prog, tries, objs, acts, status, error, result>>

\* stack_pop n times, stack_push of v, on to the next instruction.
Replace(n, v) ==
    IF Sp - n >= StackCap
    THEN Fail("stack overflow")
    ELSE /\ stack' = Append(Under(n), v)
         /\ frames' = Advance
         /\ UNCHANGED <<prog, tries, objs, acts, status, error, result>>

\* The same with a new object of kind k.
Allocate(n, k, tag, items) ==
    IF Sp - n >= StackCap
    THEN Fail("stack overflow")
    ELSE /\ objs' = Append(objs, [tag |-> tag, items |-> items])
         /\ stack' = Append(Under(n), [k |-> k, v |-> Len(objs) + 1])
         /\ frames' = Advance
         /\ UNCHANGED <<prog, tries, acts, status, error, result>>

\* ip = (size_t)nip, with n operands popped.
JumpTo(n, target) ==
    IF target \in 1..Len(Code) + 1
    THEN /\ frames' = At(target)
         /\ stack' = Under(n)
         /\ UNCHANGED <<prog, tries, objs, acts, status, error, result>>
    ELSE Fail("malformed")

-----------------------------------------------------------------------------
(* Values and locals *)

\* The call of the entry of prog, with its arguments.
Start ==
    /\ LET ok == /\ prog.entry \in DOMAIN prog.chunks
                 /\ Len(prog.args) = prog.chunks[prog.entry].nparams
           locals == [i \in 1..prog.chunks[prog.entry].nlocals |->
                         IF i \in DOMAIN prog.args THEN prog.args[i] ELSE Zero]
       IN /\ frames = IF ok THEN <<[chunk |-> prog.entry, ip |-> 1, locals |-> locals,
                                    clo |-> 0, act |-> 0]>>
                            ELSE <<>>
          /\ status = IF ok THEN "run" ELSE "failed"
          /\ error = IF ok THEN "none" ELSE "malformed"
    /\ stack = <<>>
    /\ tries = <<>>
    /\ objs = <<>>
    /\ acts = 0
    /\ result = Void

Init == prog \in Programs /\ Start

\* PUSH_CONST; PUSH_TRUE and PUSH_FALSE push constants too.
PushConst ==
    /\ Fetched("PUSH_CONST")
    /\ IF Ins.a \in DOMAIN prog.chunks[Cur.chunk].constants
       THEN Replace(0, prog.chunks[Cur.chunk].constants[Ins.a])
       ELSE Fail("malformed")

LoadLocal ==
    /\ Fetched("LOAD_LOCAL")
    /\ IF Ins.a \in DOMAIN Cur.locals THEN Replace(0, Cur.locals[Ins.a]) ELSE Fail("malformed")

StoreLocal ==
    /\ Fetched("STORE_LOCAL")
    /\ IF Sp = 0 \/ Ins.a \notin DOMAIN Cur.locals
       THEN Fail("malformed")
       ELSE /\ frames' = [Advance EXCEPT ![Depth].locals =
                             [Cur.locals EXCEPT ![Ins.a] = Peek(1)]]
            /\ stack' = Under(1)
            /\ UNCHANGED <<prog, tries, objs, acts, status, error, result>>

GetUpvalue ==
    /\ Fetched("GET_UPVALUE")
    /\ IF Ins.a \in DOMAIN Upvalues THEN Replace(0, Upvalues[Ins.a]) ELSE Fail("malformed")

\* Mutant: the call works on a closure of its own.
SetUpvalueCopy ==
    /\ Fetched("SET_UPVALUE")
    /\ IF Sp = 0 \/ Ins.a \notin DOMAIN Upvalues
       THEN Fail("malformed")
       ELSE /\ objs' = Append(objs, [objs[Cur.clo] EXCEPT !.items = [Upvalues EXCEPT ![Ins.a] = Peek(1)]])
            /\ stack' = Under(1)
            /\ frames' = [Advance EXCEPT ![Depth].clo = Len(objs) + 1]
            /\ UNCHANGED <<prog, tries, acts, status, error, result>>

\* Every frame that runs the same closure sees the new value.
SetUpvalue ==
    /\ Fetched("SET_UPVALUE")
    /\ IF Sp = 0 \/ Ins.a \notin DOMAIN Upvalues
       THEN Fail("malformed")
       ELSE /\ objs' = [objs EXCEPT ![Cur.clo].items = [Upvalues EXCEPT ![Ins.a] = Peek(1)]]
            /\ stack' = Under(1)
            /\ frames' = Advance
            /\ UNCHANGED <<prog, tries, acts, status, error, result>>

Pop ==
    /\ Fetched("POP")
    /\ IF Sp = 0 THEN Fail("malformed") ELSE JumpTo(1, Cur.ip + 1)

Dup ==
    /\ Fetched("DUP")
    /\ IF Sp = 0 THEN Fail("malformed") ELSE Replace(0, Peek(1))

Swap ==
    /\ Fetched("SWAP")
    /\ IF Sp < 2
       THEN Fail("malformed")
       ELSE /\ stack' = Append(Append(Under(2), Peek(1)), Peek(2))
            /\ frames' = Advance
            /\ UNCHANGED <<prog, tries, objs, acts, status, error, result>>

-----------------------------------------------------------------------------
(* Operators *)

\* values_equal_scalar: composites are never equal, not even to themselves.
EqualScalars(l, r) == l = r /\ l.k \in Scalars \ {"void"}

BothOf(kind) == Sp >= 2 /\ Peek(1).k = kind /\ Peek(2).k = kind

Arith ==
    /\ Fetched("ARITH")
    /\ IF ~BothOf(Ins.kind) \/ Ins.kind \notin Numbers
       THEN Fail("malformed")
       ELSE IF Ins.fn \in {"div", "mod"} /\ Peek(1).v = 0
            THEN Fail("division by zero")
            ELSE Replace(2, [k |-> Ins.kind, v |-> Compute(Ins.fn, Peek(2).v, Peek(1).v)])

Neg ==
    /\ Fetched("NEG")
    /\ IF Sp = 0 \/ Peek(1).k # Ins.kind \/ Ins.kind \notin Numbers
       THEN Fail("malformed")
       ELSE Replace(1, [k |-> Ins.kind, v |-> -Peek(1).v])

Equal ==
    /\ Fetched("EQUAL")
    /\ IF Sp < 2
       THEN Fail("malformed")
       ELSE Replace(2, Bool(EqualScalars(Peek(2), Peek(1)) = (Ins.fn = "eq")))

Order ==
    /\ Fetched("ORDER")
    /\ IF ~BothOf(Ins.kind) \/ Ins.kind \notin Numbers
       THEN Fail("malformed")
       ELSE Replace(2, Bool(Ordered(Ins.fn, Peek(2).v, Peek(1).v)))

Not ==
    /\ Fetched("NOT")
    /\ IF Sp = 0 \/ Peek(1).k # "bool"
       THEN Fail("malformed")
       ELSE Replace(1, Bool(Peek(1).v = 0))

Jump == Fetched("JUMP") /\ JumpTo(0, Ins.a)

\* POP_JUMP_IF_TRUE and POP_JUMP_IF_FALSE.
PopJumpIf ==
    /\ Fetched("POP_JUMP_IF")
    /\ IF Sp = 0 \/ Peek(1).k # "bool"
       THEN Fail("malformed")
       ELSE JumpTo(1, IF (Peek(1).v # 0) = (Ins.fn = "true") THEN Ins.a ELSE Cur.ip + 1)

-----------------------------------------------------------------------------
(* Objects *)

\* ARRAY_NEW and TUPLE_NEW (Ins.kind) of Ins.a items.
SeqNew ==
    /\ Fetched("SEQ_NEW")
    /\ IF Sp < Ins.a \/ Ins.kind \notin Sequential
       THEN Fail("malformed")
       ELSE Allocate(Ins.a, Ins.kind, 0, Popped(Ins.a))

StructNew ==
    /\ Fetched("STRUCT_NEW")
    /\ IF Ins.a \notin DOMAIN prog.layouts \/ Sp < Len(prog.layouts[Ins.a])
       THEN Fail("malformed")
       ELSE LET n == Len(prog.layouts[Ins.a])
            IN Allocate(n, "struct", Ins.a, Popped(n))

GetField ==
    /\ Fetched("GET_FIELD")
    /\ IF Sp = 0 \/ Peek(1).k # "struct" \/ Ins.a \notin DOMAIN objs[Peek(1).v].items
       THEN Fail("malformed")
       ELSE Replace(1, objs[Peek(1).v].items[Ins.a])

GetFieldNamed ==
    /\ Fetched("GET_FIELD_NAMED")
    /\ IF Sp = 0 \/ Peek(1).k # "struct"
       THEN Fail("malformed")
       ELSE LET obj == objs[Peek(1).v]
                named == {i \in DOMAIN obj.items : /\ obj.tag \in DOMAIN prog.layouts
                                                   /\ i \in DOMAIN prog.layouts[obj.tag]
                                                   /\ prog.layouts[obj.tag][i] = Ins.a}
            IN \/ /\ named = {}
                  /\ Fail("malformed")
               \/ \E i \in named : /\ \A j \in named : i <= j
                                   /\ Replace(1, obj.items[i])

ArrayLen ==
    /\ Fetched("ARRAY_LEN")
    /\ IF Sp = 0 \/ Peek(1).k \notin Sequential
       THEN Fail("malformed")
       ELSE Replace(1, [k |-> "int", v |-> Len(objs[Peek(1).v].items)])

IndexInt ==
    /\ Fetched("INDEX_INT")
    /\ IF Sp < 2 \/ Peek(1).k # "int" \/ Peek(2).k \notin Sequential
       THEN Fail("malformed")
       ELSE IF Peek(1).v + 1 \notin DOMAIN objs[Peek(2).v].items
            THEN Fail("index out of bounds")
            ELSE Replace(2, objs[Peek(2).v].items[Peek(1).v + 1])

CaptureOK(c) == c.idx \in DOMAIN (IF c.isLocal THEN Cur.locals ELSE Upvalues)

Captured(c) == IF c.isLocal THEN Cur.locals[c.idx] ELSE Upvalues[c.idx]

\* OP_CLOSURE copies the captured cells; OP_PUSH_FN captures nothing.
Closure ==
    /\ Fetched("CLOSURE")
    /\ IF \/ Ins.a \notin DOMAIN prog.chunks
          \/ \E i \in DOMAIN Ins.caps : ~CaptureOK(Ins.caps[i])
       THEN Fail("malformed")
       ELSE Allocate(0, "closure", Ins.a,
                     [i \in DOMAIN Ins.caps |-> Captured(Ins.caps[i])])

-----------------------------------------------------------------------------
(* Calls *)

\* A frame for chunk c and closure clo; n operands, the last Ins.b of them the
\* arguments, leave the stack.
Enter(c, clo, n) ==
    IF \/ c \notin DOMAIN prog.chunks
       \/ prog.chunks[c].nparams # Ins.b \/ prog.chunks[c].nlocals < Ins.b
    THEN Fail("malformed")
    ELSE IF Depth >= MaxDepth
         THEN Fail("call depth exceeded")
         ELSE /\ frames' = Append(Advance,
                     [chunk |-> c, ip |-> 1, clo |-> clo, act |-> acts + 1,
                      locals |-> [i \in 1..prog.chunks[c].nlocals |->
                                     IF i <= Ins.b THEN stack[Sp - Ins.b + i] ELSE Zero]])
              /\ stack' = Under(n)
              /\ acts' = acts + 1
              /\ UNCHANGED <<prog, tries, objs, status, error, result>>

Call ==
    /\ Fetched("CALL")
    /\ IF Sp < Ins.b THEN Fail("malformed") ELSE Enter(Ins.a, 0, Ins.b)

CallClosure ==
    /\ Fetched("CALL_CLOSURE")
    /\ IF Sp < Ins.b + 1 \/ Peek(Ins.b + 1).k # "closure"
       THEN Fail("malformed")
       ELSE LET clo == Peek(Ins.b + 1).v IN Enter(objs[clo].tag, clo, Ins.b + 1)

\* (faulty variant: the handlers of the frame that returns stay)
KeepHandlers == tries' = tries

\* (faulty variant: the loop compares with depth after depth--)
DropCallersHandlers ==
    \E n \in 0..Len(tries) :
        /\ \A i \in n + 1 .. Len(tries) : tries[i].depth >= Depth - 1
        /\ n > 0 => tries[n].depth < Depth - 1
        /\ tries' = SubSeq(tries, 1, n)

\* The loop that drops the handlers the frame on top installed.
DropHandlers ==
    \E n \in 0..Len(tries) :
        /\ \A i \in n + 1 .. Len(tries) : tries[i].depth >= Depth
        /\ n > 0 => tries[n].depth < Depth
        /\ tries' = SubSeq(tries, 1, n)

\* Leave the frame on top with value v, n operands popped; what else the frame
\* pushed stays under the result.
Leave(n, v) ==
    IF Depth = 1
    THEN Stop("ok", "none", v)
    ELSE IF Sp - n >= StackCap
         THEN Fail("stack overflow")
         ELSE /\ frames' = SubSeq(frames, 1, Depth - 1)
              /\ stack' = Append(Under(n), v)
              /\ DropHandlers
              /\ UNCHANGED <<prog, objs, acts, status, error, result>>

Return ==
    /\ Fetched("RETURN")
    /\ IF Sp = 0 THEN Fail("malformed") ELSE Leave(1, Peek(1))

-----------------------------------------------------------------------------
(* Exceptions *)

TryEnter ==
    /\ Fetched("TRY_ENTER")
    /\ IF Ins.a \notin 1..Len(Code) + 1
       THEN Fail("malformed")
       ELSE IF Len(tries) >= TryCap
            THEN Fail("try stack overflow")
            ELSE /\ tries' = Append(tries, [depth |-> Depth, ip |-> Ins.a,
                                            sp |-> Sp, act |-> Cur.act])
                 /\ frames' = Advance
                 /\ UNCHANGED <<prog, stack, objs, acts, status, error, result>>

TryExit ==
    /\ Fetched("TRY_EXIT")
    /\ IF tries = <<>>
       THEN Fail("malformed")
       ELSE /\ tries' = SubSeq(tries, 1, Len(tries) - 1)
            /\ frames' = Advance
            /\ UNCHANGED <<prog, stack, objs, acts, status, error, result>>

\* vm_try_extract_return_signal.
IsReturnSignal(v) ==
    /\ v.k = "tuple"
    /\ Len(objs[v.v].items) = 2
    /\ objs[v.v].items[1] = ReturnSentinel

\* (faulty variant: the operands above the handler stay)
UnwindFrames(h, ex) ==
    LET n == Least(Depth, h.depth)
    IN /\ frames' = [SubSeq(frames, 1, n) EXCEPT ![n].ip = h.ip]
       /\ stack' = Append(Under(1), ex)
       /\ tries' = SubSeq(tries, 1, Len(tries) - 1)
       /\ UNCHANGED <<prog, objs, acts, status, error, result>>

\* Frames and operands above the handler go, the exception is pushed.
Unwind(h, ex) ==
    LET n == Least(Depth, h.depth)
        m == Least(Sp - 1, h.sp)
    IN IF m >= StackCap
       THEN Fail("stack overflow")
       ELSE /\ frames' = [SubSeq(frames, 1, n) EXCEPT ![n].ip = h.ip]
            /\ stack' = Append(SubSeq(stack, 1, m), ex)
            /\ tries' = SubSeq(tries, 1, Len(tries) - 1)
            /\ UNCHANGED <<prog, objs, acts, status, error, result>>

Throw ==
    /\ Fetched("THROW")
    /\ IF Sp = 0
       THEN Fail("malformed")
       ELSE IF tries # <<>>
            THEN Unwind(tries[Len(tries)], Peek(1))
            ELSE IF IsReturnSignal(Peek(1))
                 THEN Leave(1, objs[Peek(1).v].items[2])
                 ELSE Fail("uncaught exception")

ExnIsPrim ==
    /\ Fetched("EXN_IS_PRIM")
    /\ IF Sp = 0 \/ Ins.kind \notin Numbers \cup {"bool", "string"}
       THEN Fail("malformed")
       ELSE Replace(1, Bool(Peek(1).k = Ins.kind))

-----------------------------------------------------------------------------
FellOffTheEnd == status = "run" /\ Cur.ip \notin DOMAIN Code /\ Fail("malformed")

Stopped == status # "run" /\ UNCHANGED vars

Execute ==
    \/ PushConst \/ LoadLocal \/ StoreLocal \/ GetUpvalue \/ SetUpvalue
    \/ Pop \/ Dup \/ Swap
    \/ Arith \/ Neg \/ Equal \/ Order \/ Not \/ Jump \/ PopJumpIf
    \/ SeqNew \/ StructNew \/ GetField \/ GetFieldNamed \/ ArrayLen \/ IndexInt \/ Closure
    \/ Call \/ CallClosure \/ Return
    \/ TryEnter \/ TryExit \/ Throw \/ ExnIsPrim
    \/ FellOffTheEnd

Next == Execute \/ Stopped

Spec == Init /\ [][Next]_vars

-----------------------------------------------------------------------------
(* Properties *)

\* A handler on try_stack belongs to an activation that is still there, and
\* handlers lie in the order of their frames: an exception is never delivered
\* to a frame that reuses the depth of one that has returned (the loops in
\* OP_RETURN and OP_THROW).
HandlersOfLiveActivations ==
    /\ \A t \in DOMAIN tries : /\ tries[t].depth \in DOMAIN frames
                               /\ tries[t].act = frames[tries[t].depth].act
    /\ \A t, u \in DOMAIN tries : t <= u => tries[t].depth <= tries[u].depth

\* The regions frame i has open, by the activation that opened them.
OpenedBy(i) == {t \in DOMAIN tries : tries[t].act = frames[i].act}

AbstractCalls ==
    [i \in DOMAIN frames |-> [id |-> frames[i].act, open |-> OpenedBy(i)]]

\* The flat try_stack, cut back by frame depth, implements try regions that
\* belong to activations: a return closes its own regions and no other, an
\* exception reaches the region entered last.
A == INSTANCE Activations WITH calls <- AbstractCalls, count <- acts
ImplementsActivations == A!Spec

=============================================================================
