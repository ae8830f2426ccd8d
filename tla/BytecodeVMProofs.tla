-------------------------- MODULE BytecodeVMProofs --------------------------
(***************************************************************************)
(* Theorems about BytecodeVM, for any bytecode and any capacities.          *)
(* The argument: a step either stays in the running frame and leaves every   *)
(* activation and handler alone, or is one of the six steps that move the    *)
(* frame and handler stacks (StepShape).  TypeOK is kept action by action;   *)
(* what concerns handlers is kept case by case of StepShape.                *)
(***************************************************************************)
EXTENDS BytecodeVM, SequenceTheorems, TLAPS

-----------------------------------------------------------------------------
(* Values *)

LEMMA ValueMono ==
    ASSUME NEW m \in Nat, NEW n \in Nat, m <= n
    PROVE  Value(m) \subseteq Value(n)
BY DEF Value

LEMMA ValuesMono ==
    ASSUME NEW m \in Nat, NEW n \in Nat, m <= n
    PROVE  Seq(Value(m)) \subseteq Seq(Value(n))
BY ValueMono, SeqMonotonic

LEMMA FrameMono ==
    ASSUME NEW m \in Nat, NEW n \in Nat, m <= n
    PROVE  Frame(m) \subseteq Frame(n)
<1>1. 0..m \subseteq 0..n
  OBVIOUS
<1>2. QED
  BY <1>1, ValuesMono DEF Frame

LEMMA ObjectMono ==
    ASSUME NEW m \in Nat, NEW n \in Nat, m <= n
    PROVE  Object(m) \subseteq Object(n)
BY ValuesMono DEF Object

LEMMA ScalarValues ==
    ASSUME NEW n \in Nat
    PROVE  /\ Zero \in Value(n) /\ Void \in Value(n)
           /\ \A b \in BOOLEAN : Bool(b) \in Value(n)
           /\ \A k \in Scalars, i \in Int : [k |-> k, v |-> i] \in Value(n)
BY DEF Value, Zero, Void, Bool, Scalars, Numbers

LEMMA ValueParts ==
    ASSUME NEW n \in Nat, NEW x \in Value(n)
    PROVE  /\ x.v \in Int
           /\ x.k \in Composite => x.v \in 1..n
           /\ x.k \in Scalars \cup Composite
BY DEF Value, Scalars, Numbers, Composite, Sequential

-----------------------------------------------------------------------------
(* The state while the machine runs *)

LEMMA RunningFrame ==
    ASSUME TypeOK, status = "run"
    PROVE  /\ Depth \in 1..MaxDepth /\ DOMAIN frames = 1..Depth
           /\ Sp \in Nat /\ Sp <= StackCap
           /\ Len(objs) \in Nat
           /\ Cur \in Frame(Len(objs))
           /\ Cur.chunk \in DOMAIN prog.chunks
           /\ prog \in Program
           /\ prog.chunks[Cur.chunk] \in Chunk
           /\ Code \in Seq(Instr)
           /\ Upvalues \in Seq(Value(Len(objs)))
<1>1. /\ frames \in Seq(Frame(Len(objs))) /\ frames # <<>> /\ Len(frames) <= MaxDepth
      /\ stack \in Seq(Value(Len(objs))) /\ Sp <= StackCap
      /\ objs \in Seq(Object(Len(objs)))
      /\ prog \in Program
  BY ProgramsAssumption DEF TypeOK, Sp
<1>2. Depth \in 1..Len(frames) /\ DOMAIN frames = 1..Depth /\ Depth \in 1..MaxDepth
  BY <1>1, CapsAssumption DEF Depth
<1>3. Sp \in Nat /\ Len(objs) \in Nat
  BY <1>1 DEF Sp
<1>4. Cur \in Frame(Len(objs))
  BY <1>1, <1>2, ElementOfSeq DEF Cur
<1>5. Cur.chunk \in DOMAIN prog.chunks
  BY <1>2 DEF TypeOK, Cur
<1>6. prog.chunks \in Seq(Chunk)
  BY <1>1 DEF Program
<1>7. prog.chunks[Cur.chunk] \in Chunk
  BY <1>5, <1>6
<1>8. Code \in Seq(Instr)
  BY <1>7 DEF Code, Chunk
<1>9. Upvalues \in Seq(Value(Len(objs)))
  <2>1. Cur.clo \in 0..Len(objs)
    BY <1>4 DEF Frame
  <2>2. CASE Cur.clo = 0
    BY <2>2 DEF Upvalues
  <2>3. CASE Cur.clo # 0
    <3>1. objs[Cur.clo] \in Object(Len(objs))
      BY <1>1, <1>3, <2>1, <2>3, ElementOfSeq
    <3>2. QED
      BY <3>1, <2>3 DEF Upvalues, Object
  <2>4. QED
    BY <2>2, <2>3
<1>10. QED
  BY <1>1, <1>2, <1>3, <1>4, <1>5, <1>7, <1>8, <1>9

LEMMA FetchedInstr ==
    ASSUME TypeOK, NEW op, Fetched(op)
    PROVE  /\ status = "run"
           /\ Ins \in Instr
           /\ Cur.ip \in 1..Len(Code)
           /\ Cur.ip + 1 \in Nat
BY RunningFrame DEF Fetched, Ins, Frame

LEMMA Operands ==
    ASSUME TypeOK, NEW n \in Nat, n <= Sp
    PROVE  /\ Under(n) \in Seq(Value(Len(objs)))
           /\ Len(Under(n)) = Sp - n
           /\ Popped(n) \in Seq(Value(Len(objs)))
           /\ \A i \in 1..n : Peek(i) \in Value(Len(objs))
           /\ \A i \in 1..Sp : stack[i] \in Value(Len(objs))
<1>1. stack \in Seq(Value(Len(objs))) /\ Sp \in Nat
  BY DEF TypeOK, Sp
<1>2. \A i \in 1..Sp : stack[i] \in Value(Len(objs))
  BY <1>1 DEF Sp
<1>3. QED
  BY <1>1, <1>2, SubSeqProperties DEF Under, Popped, Peek, Sp

LEMMA AtType ==
    ASSUME TypeOK, status = "run", NEW i \in Nat
    PROVE  /\ At(i) \in Seq(Frame(Len(objs)))
           /\ Len(At(i)) = Depth
           /\ \A j \in 1..Depth : /\ At(i)[j].act = frames[j].act
                                  /\ At(i)[j].chunk = frames[j].chunk
           /\ \A j \in DOMAIN At(i) : At(i)[j].chunk \in DOMAIN prog.chunks
<1> DEFINE r == [Cur EXCEPT !.ip = i]
<1>1. /\ frames \in Seq(Frame(Len(objs)))
      /\ Depth \in 1..Len(frames) /\ Depth = Len(frames) /\ Cur \in Frame(Len(objs))
  BY RunningFrame DEF TypeOK, Depth
<1>2. r \in Frame(Len(objs)) /\ r.act = Cur.act /\ r.chunk = Cur.chunk
  BY <1>1 DEF Frame
<1>3. At(i) = [frames EXCEPT ![Depth] = r]
  BY DEF At, Cur
<1> HIDE DEF r
<1>4. /\ At(i) \in Seq(Frame(Len(objs)))
      /\ Len(At(i)) = Depth
      /\ \A j \in 1..Len(frames) : At(i)[j] = IF j = Depth THEN r ELSE frames[j]
  BY <1>1, <1>2, <1>3, ExceptSeq
<1>5. \A j \in 1..Depth : /\ At(i)[j].act = frames[j].act
                          /\ At(i)[j].chunk = frames[j].chunk
  BY <1>1, <1>2, <1>4 DEF Cur
<1>6. DOMAIN At(i) = 1..Depth /\ DOMAIN frames = 1..Depth
  BY <1>1, <1>4
<1>7. \A j \in DOMAIN At(i) : At(i)[j].chunk \in DOMAIN prog.chunks
  BY <1>5, <1>6 DEF TypeOK
<1>8. QED
  BY <1>4, <1>5, <1>7

-----------------------------------------------------------------------------
(* Type correctness of the shared pieces *)

LEMMA StopType ==
    ASSUME TypeOK, NEW s \in {"ok", "failed"}, NEW e \in Errors,
           NEW r \in Value(Len(objs)), Stop(s, e, r)
    PROVE  TypeOK'
<1>1. frames' = <<>> /\ stack' = <<>> /\ tries' = <<>>
  BY DEF Stop
<1>2. /\ frames' \in Seq(Frame(Len(objs))) /\ Len(frames') = 0 /\ DOMAIN frames' = {}
      /\ stack' \in Seq(Value(Len(objs))) /\ Len(stack') = 0
      /\ tries' \in Seq(Handler) /\ Len(tries') = 0
  BY <1>1
<1>3. QED
  BY <1>2, CapsAssumption DEF TypeOK, Stop

LEMMA FailType ==
    ASSUME TypeOK, NEW e \in Errors, Fail(e)
    PROVE  TypeOK'
<1>1. Void \in Value(Len(objs))
  BY ScalarValues DEF TypeOK
<1>2. QED
  BY <1>1, StopType DEF Fail

LEMMA MalformedType ==
    ASSUME TypeOK, Fail("malformed")
    PROVE  TypeOK'
BY FailType DEF Errors

\* A step that only moves the instruction pointer and changes the stack.
LEMMA LocalType ==
    ASSUME TypeOK, status = "run", NEW i \in Nat, frames' = At(i),
           stack' \in Seq(Value(Len(objs))), Len(stack') <= StackCap,
           UNCHANGED <<prog, tries, objs, acts, status, error, result>>
    PROVE  TypeOK'
<1>1. frames' \in Seq(Frame(Len(objs))) /\ Len(frames') = Depth
  BY AtType
<1>2. \A j \in DOMAIN frames' : frames'[j].chunk \in DOMAIN prog.chunks
  BY AtType
<1>3. frames' # <<>> /\ Len(frames') <= MaxDepth
  BY <1>1, RunningFrame
<1>4. QED
  BY <1>1, <1>2, <1>3 DEF TypeOK

LEMMA ReplaceType ==
    ASSUME TypeOK, NEW op, Fetched(op), NEW n \in Nat, n <= Sp,
           NEW v \in Value(Len(objs)), Replace(n, v)
    PROVE  TypeOK'
<1>1. CASE Sp - n >= StackCap
  BY <1>1, FailType DEF Replace, Errors
<1>2. CASE ~(Sp - n >= StackCap)
  <2>1. /\ stack' = Append(Under(n), v)
        /\ frames' = At(Cur.ip + 1)
        /\ UNCHANGED <<prog, tries, objs, acts, status, error, result>>
    BY <1>2 DEF Replace, Advance
  <2>2. Sp - n + 1 <= StackCap
    BY <1>2, FetchedInstr, RunningFrame, CapsAssumption
  <2>3. stack' \in Seq(Value(Len(objs))) /\ Len(stack') = Sp - n + 1
    BY <2>1, Operands
  <2>4. QED
    BY <2>1, <2>2, <2>3, LocalType, FetchedInstr
<1>3. QED
  BY <1>1, <1>2

LEMMA JumpType ==
    ASSUME TypeOK, NEW op, Fetched(op), NEW n \in Nat, n <= Sp, NEW target, JumpTo(n, target)
    PROVE  TypeOK'
<1>1. CASE target \in 1..Len(Code) + 1
  <2>1. /\ frames' = At(target) /\ target \in Nat
        /\ stack' = Under(n)
        /\ UNCHANGED <<prog, tries, objs, acts, status, error, result>>
    BY <1>1, RunningFrame, FetchedInstr DEF JumpTo
  <2>2. stack' \in Seq(Value(Len(objs))) /\ Len(stack') <= StackCap
    BY <2>1, Operands, RunningFrame, FetchedInstr, CapsAssumption
  <2>3. QED
    BY <2>1, <2>2, LocalType, FetchedInstr
<1>2. CASE ~(target \in 1..Len(Code) + 1)
  BY <1>2, MalformedType DEF JumpTo
<1>3. QED
  BY <1>1, <1>2

\* Everything keeps its type when there is one more object.
LEMMA AllocateType ==
    ASSUME TypeOK, NEW op, Fetched(op), NEW n \in Nat, n <= Sp,
           NEW k \in Composite, NEW tag \in Nat, NEW items \in Seq(Value(Len(objs))),
           Allocate(n, k, tag, items)
    PROVE  TypeOK'
<1>1. CASE Sp - n >= StackCap
  BY <1>1, FailType DEF Allocate, Errors
<1>2. CASE ~(Sp - n >= StackCap)
  <2> DEFINE m == Len(objs) + 1
             o == [tag |-> tag, items |-> items]
             ref == [k |-> k, v |-> m]
  <2>1. /\ objs' = Append(objs, o)
        /\ stack' = Append(Under(n), ref)
        /\ frames' = At(Cur.ip + 1)
        /\ UNCHANGED <<prog, tries, acts, status, error, result>>
    BY <1>2 DEF Allocate, Advance
  <2>2. Len(objs) \in Nat /\ m \in Nat /\ Len(objs) <= m
    BY DEF TypeOK
  <2>3. o \in Object(m) /\ ref \in Value(m)
    BY <2>2, ValuesMono DEF Object, Value
  <2> HIDE DEF o, ref
  <2>4. objs \in Seq(Object(m)) /\ result \in Value(m)
    BY <2>2, ObjectMono, ValueMono, SeqMonotonic DEF TypeOK
  <2>5. objs' \in Seq(Object(m)) /\ Len(objs') = m
    BY <2>1, <2>3, <2>4
  <2>6. Under(n) \in Seq(Value(m)) /\ Len(Under(n)) = Sp - n
    BY <2>2, Operands, ValuesMono
  <2>7. stack' \in Seq(Value(m)) /\ Len(stack') = Sp - n + 1
    BY <2>1, <2>3, <2>6
  <2>8. Len(stack') <= StackCap
    BY <2>7, <1>2, FetchedInstr, RunningFrame, CapsAssumption
  <2>9. frames' \in Seq(Frame(m)) /\ Len(frames') = Depth
    BY <2>1, <2>2, AtType, FetchedInstr, FrameMono, SeqMonotonic
  <2>10. \A j \in DOMAIN frames' : frames'[j].chunk \in DOMAIN prog.chunks
    BY <2>1, AtType, FetchedInstr
  <2>11. frames' # <<>> /\ Len(frames') <= MaxDepth
    BY <2>9, FetchedInstr, RunningFrame
  <2> HIDE DEF m
  <2>12. QED
    BY <2>1, <2>4, <2>5, <2>7, <2>8, <2>9, <2>10, <2>11 DEF TypeOK
<1>3. QED
  BY <1>1, <1>2

-----------------------------------------------------------------------------
(* Type correctness, action by action *)

LEMMA TopOperands ==
    ASSUME TypeOK
    PROVE  /\ Sp >= 1 => Peek(1) \in Value(Len(objs)) /\ Peek(1).v \in Int
           /\ Sp >= 2 => Peek(2) \in Value(Len(objs)) /\ Peek(2).v \in Int
<1>1. Len(objs) \in Nat /\ Sp \in Nat
  BY DEF TypeOK, Sp
<1>2. ASSUME NEW i \in 1..Sp
      PROVE  Peek(i) \in Value(Len(objs)) /\ Peek(i).v \in Int
  <2>1. Peek(i) \in Value(Len(objs))
    BY <1>1, Operands
  <2>2. QED
    BY <1>1, <2>1, ValueParts
<1>3. (Sp >= 1 => 1 \in 1..Sp) /\ (Sp >= 2 => 2 \in 1..Sp)
  BY <1>1
<1>4. QED
  BY <1>2, <1>3

LEMMA ConstantValue ==
    ASSUME TypeOK, status = "run", NEW i \in DOMAIN prog.chunks[Cur.chunk].constants
    PROVE  prog.chunks[Cur.chunk].constants[i] \in Value(Len(objs))
<1>1. prog.chunks[Cur.chunk].constants \in Seq(Value(0))
  BY RunningFrame DEF Chunk
<1>2. prog.chunks[Cur.chunk].constants[i] \in Value(0)
  BY <1>1
<1>3. QED
  BY <1>2, ValueMono, RunningFrame

LEMMA LocalValue ==
    ASSUME TypeOK, status = "run", NEW i \in DOMAIN Cur.locals
    PROVE  Cur.locals[i] \in Value(Len(objs))
BY RunningFrame DEF Frame

LEMMA UpvalueValue ==
    ASSUME TypeOK, status = "run", NEW i \in DOMAIN Upvalues
    PROVE  Upvalues[i] \in Value(Len(objs))
BY RunningFrame

\* What a composite operand holds.
LEMMA ItemValue ==
    ASSUME TypeOK, NEW v \in Value(Len(objs)), v.k \in Composite
    PROVE  /\ v.v \in 1..Len(objs)
           /\ objs[v.v] \in Object(Len(objs))
           /\ objs[v.v].items \in Seq(Value(Len(objs)))
           /\ Len(objs[v.v].items) \in Nat
           /\ \A i \in DOMAIN objs[v.v].items : objs[v.v].items[i] \in Value(Len(objs))
<1>1. objs \in Seq(Object(Len(objs))) /\ Len(objs) \in Nat
  BY DEF TypeOK
<1>2. v.v \in 1..Len(objs)
  BY <1>1, ValueParts
<1>3. objs[v.v] \in Object(Len(objs))
  BY <1>1, <1>2, ElementOfSeq
<1>4. objs[v.v].items \in Seq(Value(Len(objs)))
  BY <1>3 DEF Object
<1>5. QED
  BY <1>2, <1>3, <1>4

\* Division yields an integer, whatever the signs.
LEMMA QuotientType ==
    ASSUME NEW l \in Int, NEW r \in Int, r # 0
    PROVE  Quotient(l, r) \in Int
<1>1. Abs(l) \in Int /\ Abs(r) \in Int /\ Abs(r) > 0
  BY DEF Abs
<1>2. Abs(l) \div Abs(r) \in Int
  BY <1>1
<1>3. QED
  BY <1>2 DEF Quotient

LEMMA ComputeType ==
    ASSUME NEW fn, NEW l \in Int, NEW r \in Int, fn \in {"div", "mod"} => r # 0
    PROVE  Compute(fn, l, r) \in Int
<1>1. CASE fn \in {"div", "mod"}
  <2>1. Quotient(l, r) \in Int
    BY <1>1, QuotientType
  <2>2. r * Quotient(l, r) \in Int
    BY <2>1
  <2>3. l - r * Quotient(l, r) \in Int
    BY <2>2
  <2>4. QED
    BY <1>1, <2>1, <2>3 DEF Compute
<1>2. CASE fn \in {"add", "sub"}
  BY <1>2 DEF Compute
<1>3. CASE fn = "mul"
  <2>1. l * r \in Int
    OBVIOUS
  <2>2. QED
    BY <1>3, <2>1 DEF Compute
<1>4. CASE fn \notin {"add", "sub", "mul", "div", "mod"}
  BY <1>4 DEF Compute
<1>5. QED
  BY <1>1, <1>2, <1>3, <1>4

LEMMA LoadsType ==
    ASSUME TypeOK, PushConst \/ LoadLocal \/ GetUpvalue \/ Dup
    PROVE  TypeOK'
<1>1. CASE PushConst
  <2>1. Fetched("PUSH_CONST") /\ Sp \in Nat
    BY <1>1, RunningFrame, FetchedInstr DEF PushConst
  <2>2. CASE Ins.a \in DOMAIN prog.chunks[Cur.chunk].constants
    BY <1>1, <2>1, <2>2, ConstantValue, FetchedInstr, ReplaceType DEF PushConst
  <2>3. QED
    BY <1>1, <2>2, MalformedType DEF PushConst
<1>2. CASE LoadLocal
  <2>1. Fetched("LOAD_LOCAL") /\ Sp \in Nat
    BY <1>2, RunningFrame, FetchedInstr DEF LoadLocal
  <2>2. CASE Ins.a \in DOMAIN Cur.locals
    BY <1>2, <2>1, <2>2, LocalValue, FetchedInstr, ReplaceType DEF LoadLocal
  <2>3. QED
    BY <1>2, <2>2, MalformedType DEF LoadLocal
<1>3. CASE GetUpvalue
  <2>1. Fetched("GET_UPVALUE") /\ Sp \in Nat
    BY <1>3, RunningFrame, FetchedInstr DEF GetUpvalue
  <2>2. CASE Ins.a \in DOMAIN Upvalues
    BY <1>3, <2>1, <2>2, UpvalueValue, FetchedInstr, ReplaceType DEF GetUpvalue
  <2>3. QED
    BY <1>3, <2>2, MalformedType DEF GetUpvalue
<1>4. CASE Dup
  <2>1. Fetched("DUP") /\ Sp \in Nat
    BY <1>4, RunningFrame, FetchedInstr DEF Dup
  <2>2. CASE Sp # 0
    <3>1. Peek(1) \in Value(Len(objs))
      BY <2>1, <2>2, Operands
    <3>2. QED
      BY <1>4, <2>1, <2>2, <3>1, ReplaceType DEF Dup
  <2>3. QED
    BY <1>4, <2>2, MalformedType DEF Dup
<1>5. QED
  BY <1>1, <1>2, <1>3, <1>4

\* What the operators of one and two operands push.
LEMMA OperatorsType ==
    ASSUME TypeOK, Arith \/ Neg \/ Equal \/ Order \/ Not \/ ExnIsPrim
    PROVE  TypeOK'
<1>1. Sp \in Nat /\ status = "run" /\ Len(objs) \in Nat /\ Ins \in Instr
  BY RunningFrame, FetchedInstr DEF Arith, Neg, Equal, Order, Not, ExnIsPrim
<1>2. CASE Fail("malformed")
  BY <1>2, MalformedType
<1>3. CASE ~Fail("malformed")
  <2>1. Sp >= 1 => Peek(1) \in Value(Len(objs)) /\ Peek(1).v \in Int
    BY TopOperands
  <2>2. Sp >= 2 => Peek(2) \in Value(Len(objs)) /\ Peek(2).v \in Int
    BY TopOperands
  <2>3. CASE Arith
    <3>1. Fetched("ARITH") /\ Sp >= 2 /\ Ins.kind \in Scalars
      BY <1>3, <2>3 DEF Arith, BothOf, Scalars
    <3>2. CASE Ins.fn \in {"div", "mod"} /\ Peek(1).v = 0
      BY <1>3, <2>3, <3>2, FailType DEF Arith, Errors
    <3>3. CASE ~(Ins.fn \in {"div", "mod"} /\ Peek(1).v = 0)
      <4> DEFINE r == Compute(Ins.fn, Peek(2).v, Peek(1).v)
      <4>1. r \in Int
        <5>1. /\ Peek(1).v \in Int /\ Peek(2).v \in Int
              /\ Ins.fn \in {"div", "mod"} => Peek(1).v # 0
          BY <1>1, <2>1, <2>2, <3>1, <3>3
        <5>2. QED
          BY <5>1, ComputeType
      <4>2. Replace(2, [k |-> Ins.kind, v |-> r])
        BY <1>3, <2>3, <3>3 DEF Arith
      <4> HIDE DEF r
      <4>3. [k |-> Ins.kind, v |-> r] \in Value(Len(objs))
        BY <1>1, <3>1, <4>1, ScalarValues
      <4>4. QED
        BY <3>1, <4>2, <4>3, ReplaceType
    <3>4. QED
      BY <3>2, <3>3
  <2>4. CASE Neg
    <3>1. Fetched("NEG") /\ Sp >= 1 /\ Ins.kind \in Scalars
      BY <1>1, <1>3, <2>4 DEF Neg, Scalars
    <3>2. Replace(1, [k |-> Ins.kind, v |-> -Peek(1).v])
      BY <1>3, <2>4 DEF Neg
    <3>3. [k |-> Ins.kind, v |-> -Peek(1).v] \in Value(Len(objs))
      BY <1>1, <2>1, <3>1, ScalarValues
    <3>4. QED
      BY <3>1, <3>2, <3>3, ReplaceType
  <2>5. CASE Equal
    <3>1. Fetched("EQUAL") /\ Sp >= 2
      BY <1>1, <1>3, <2>5 DEF Equal
    <3>2. PICK b \in BOOLEAN : Replace(2, Bool(b))
      BY <1>3, <2>5 DEF Equal
    <3>3. QED
      BY <1>1, <3>1, <3>2, ScalarValues, ReplaceType
  <2>6. CASE Order
    <3>1. Fetched("ORDER") /\ Sp >= 2
      BY <1>1, <1>3, <2>6 DEF Order, BothOf
    <3>2. PICK b \in BOOLEAN : Replace(2, Bool(b))
      BY <1>3, <2>6 DEF Order, Ordered
    <3>3. QED
      BY <1>1, <3>1, <3>2, ScalarValues, ReplaceType
  <2>7. CASE Not
    <3>1. Fetched("NOT") /\ Sp >= 1
      BY <1>1, <1>3, <2>7 DEF Not
    <3>2. PICK b \in BOOLEAN : Replace(1, Bool(b))
      BY <1>3, <2>7 DEF Not
    <3>3. QED
      BY <1>1, <3>1, <3>2, ScalarValues, ReplaceType
  <2>8. CASE ExnIsPrim
    <3>1. Fetched("EXN_IS_PRIM") /\ Sp >= 1
      BY <1>1, <1>3, <2>8 DEF ExnIsPrim
    <3>2. PICK b \in BOOLEAN : Replace(1, Bool(b))
      BY <1>3, <2>8 DEF ExnIsPrim
    <3>3. QED
      BY <1>1, <3>1, <3>2, ScalarValues, ReplaceType
  <2>9. QED
    BY <2>3, <2>4, <2>5, <2>6, <2>7, <2>8
<1>4. QED
  BY <1>2, <1>3

LEMMA JumpsType ==
    ASSUME TypeOK, Pop \/ Jump \/ PopJumpIf
    PROVE  TypeOK'
<1>1. Sp \in Nat
  BY DEF TypeOK, Sp
<1>2. CASE Pop
  BY <1>1, <1>2, JumpType, MalformedType DEF Pop
<1>3. CASE Jump
  BY <1>1, <1>3, JumpType DEF Jump
<1>4. CASE PopJumpIf
  BY <1>1, <1>4, JumpType, MalformedType DEF PopJumpIf
<1>5. QED
  BY <1>2, <1>3, <1>4

LEMMA ReadsType ==
    ASSUME TypeOK, GetField \/ GetFieldNamed \/ ArrayLen \/ IndexInt
    PROVE  TypeOK'
<1>1. Sp \in Nat /\ status = "run" /\ Len(objs) \in Nat /\ Ins \in Instr
  BY RunningFrame, FetchedInstr DEF GetField, GetFieldNamed, ArrayLen, IndexInt
<1>2. CASE Fail("malformed")
  BY <1>2, MalformedType
<1>3. CASE ~Fail("malformed")
  <2>1. /\ "struct" \in Composite
        /\ Sequential \subseteq Composite
    BY DEF Composite
  <2>2. CASE GetField
    <3>1. Fetched("GET_FIELD") /\ Sp >= 1 /\ Peek(1).k = "struct"
          /\ Ins.a \in DOMAIN objs[Peek(1).v].items
          /\ Replace(1, objs[Peek(1).v].items[Ins.a])
      BY <1>1, <1>3, <2>2 DEF GetField
    <3>2. objs[Peek(1).v].items[Ins.a] \in Value(Len(objs))
      BY <2>1, <3>1, Operands, ItemValue
    <3>3. QED
      BY <3>1, <3>2, ReplaceType
  <2>3. CASE GetFieldNamed
    <3>1. Fetched("GET_FIELD_NAMED") /\ Sp >= 1 /\ Peek(1).k = "struct"
      <4>1. Fetched("GET_FIELD_NAMED") /\ Sp # 0 /\ Peek(1).k = "struct"
        BY <1>3, <2>3, Zenon DEF GetFieldNamed
      <4>2. QED
        BY <1>1, <4>1
    <3>2. PICK i \in DOMAIN objs[Peek(1).v].items : Replace(1, objs[Peek(1).v].items[i])
      BY <1>3, <2>3, <3>1 DEF GetFieldNamed
    <3>3. objs[Peek(1).v].items[i] \in Value(Len(objs))
      BY <2>1, <3>1, Operands, ItemValue
    <3>4. QED
      BY <3>1, <3>2, <3>3, ReplaceType
  <2>4. CASE ArrayLen
    <3>1. Fetched("ARRAY_LEN") /\ Sp >= 1 /\ Peek(1).k \in Sequential
          /\ Replace(1, [k |-> "int", v |-> Len(objs[Peek(1).v].items)])
      BY <1>1, <1>3, <2>4 DEF ArrayLen
    <3>2. Len(objs[Peek(1).v].items) \in Int
      BY <2>1, <3>1, Operands, ItemValue
    <3>3. [k |-> "int", v |-> Len(objs[Peek(1).v].items)] \in Value(Len(objs))
      BY <1>1, <3>2, ScalarValues DEF Scalars, Numbers
    <3>4. QED
      BY <3>1, <3>3, ReplaceType
  <2>5. CASE IndexInt
    <3>1. Fetched("INDEX_INT") /\ Sp >= 2 /\ Peek(2).k \in Sequential
      <4>1. Fetched("INDEX_INT") /\ ~(Sp < 2) /\ Peek(2).k \in Sequential
        BY <1>3, <2>5, Zenon DEF IndexInt
      <4>2. QED
        BY <1>1, <4>1
    <3>2. CASE Peek(1).v + 1 \notin DOMAIN objs[Peek(2).v].items
      BY <1>3, <2>5, <3>2, FailType DEF IndexInt, Errors
    <3>3. CASE Peek(1).v + 1 \in DOMAIN objs[Peek(2).v].items
      <4>1. Replace(2, objs[Peek(2).v].items[Peek(1).v + 1])
        BY <1>3, <2>5, <3>3 DEF IndexInt
      <4>2. objs[Peek(2).v].items[Peek(1).v + 1] \in Value(Len(objs))
        BY <2>1, <3>1, <3>3, Operands, ItemValue
      <4>3. QED
        BY <3>1, <4>1, <4>2, ReplaceType
    <3>4. QED
      BY <3>2, <3>3
  <2>6. QED
    BY <2>2, <2>3, <2>4, <2>5
<1>4. QED
  BY <1>2, <1>3

LEMMA AllocationsType ==
    ASSUME TypeOK, SeqNew \/ StructNew \/ Closure
    PROVE  TypeOK'
<1>1. Sp \in Nat /\ status = "run" /\ Len(objs) \in Nat /\ Ins \in Instr
  BY RunningFrame, FetchedInstr DEF SeqNew, StructNew, Closure
<1>2. Ins.a \in Nat /\ Ins.caps \in Seq(Capture) /\ prog \in Program
  BY <1>1, RunningFrame DEF Instr
<1>3. CASE SeqNew
  <2>1. CASE Sp < Ins.a \/ Ins.kind \notin Sequential
    BY <1>3, <2>1, MalformedType DEF SeqNew
  <2>2. CASE ~(Sp < Ins.a \/ Ins.kind \notin Sequential)
    <3>1. Allocate(Ins.a, Ins.kind, 0, Popped(Ins.a)) /\ Fetched("SEQ_NEW")
      BY <1>3, <2>2 DEF SeqNew
    <3>2. Ins.kind \in Composite /\ Ins.a <= Sp
      BY <1>1, <1>2, <2>2 DEF Composite
    <3>3. Popped(Ins.a) \in Seq(Value(Len(objs)))
      BY <1>2, <3>2, Operands
    <3>4. QED
      BY <1>2, <3>1, <3>2, <3>3, AllocateType
  <2>3. QED
    BY <2>1, <2>2
<1>4. CASE StructNew
  <2>1. CASE Ins.a \notin DOMAIN prog.layouts \/ Sp < Len(prog.layouts[Ins.a])
    BY <1>4, <2>1, MalformedType DEF StructNew
  <2>2. CASE ~(Ins.a \notin DOMAIN prog.layouts \/ Sp < Len(prog.layouts[Ins.a]))
    <3> DEFINE n == Len(prog.layouts[Ins.a])
    <3>1. Allocate(n, "struct", Ins.a, Popped(n)) /\ Fetched("STRUCT_NEW")
      BY <1>4, <2>2 DEF StructNew
    <3>2. n \in Nat /\ n <= Sp
      <4>1. prog.layouts \in Seq(Seq(Nat)) /\ Ins.a \in DOMAIN prog.layouts
        BY <1>2, <2>2 DEF Program
      <4>2. prog.layouts[Ins.a] \in Seq(Nat)
        BY <4>1
      <4>3. QED
        BY <1>1, <2>2, <4>2
    <3> HIDE DEF n
    <3>3. Popped(n) \in Seq(Value(Len(objs)))
      BY <3>2, Operands
    <3>4. QED
      BY <1>2, <3>1, <3>2, <3>3, AllocateType DEF Composite
  <2>3. QED
    BY <2>1, <2>2
<1>5. CASE Closure
  <2> DEFINE items == [i \in DOMAIN Ins.caps |-> Captured(Ins.caps[i])]
  <2>1. CASE Fail("malformed")
    BY <2>1, MalformedType
  <2>2. CASE ~Fail("malformed")
    <3>1. Allocate(0, "closure", Ins.a, items) /\ Fetched("CLOSURE")
      BY <1>5, <2>2 DEF Closure
    <3>2. \A i \in DOMAIN Ins.caps : CaptureOK(Ins.caps[i])
      BY <1>5, <2>2 DEF Closure
    <3>3. \A i \in DOMAIN Ins.caps : Captured(Ins.caps[i]) \in Value(Len(objs))
      BY <1>1, <3>2, LocalValue, UpvalueValue DEF Captured, CaptureOK
    <3>4. DOMAIN Ins.caps = 1..Len(Ins.caps) /\ Len(Ins.caps) \in Nat
      BY <1>2
    <3>5. items \in Seq(Value(Len(objs)))
      BY <3>3, <3>4, SeqDef
    <3> HIDE DEF items
    <3>6. QED
      BY SMTT(30), <1>1, <1>2, <3>1, <3>5, AllocateType DEF Composite
  <2>3. QED
    BY <2>1, <2>2
<1>6. QED
  BY <1>3, <1>4, <1>5

LEMMA ExceptIn ==
    ASSUME NEW S, NEW s \in Seq(S), NEW i \in DOMAIN s, NEW x \in S
    PROVE  [s EXCEPT ![i] = x] \in Seq(S)
<1>1. i \in 1..Len(s)
  OBVIOUS
<1>2. QED
  BY <1>1, ExceptSeq

LEMMA UnderOne ==
    ASSUME TypeOK, Sp >= 1
    PROVE  Under(1) \in Seq(Value(Len(objs))) /\ Len(Under(1)) <= StackCap
<1>1. Sp \in Nat /\ Sp <= StackCap
  BY DEF TypeOK, Sp
<1>2. Under(1) \in Seq(Value(Len(objs))) /\ Len(Under(1)) = Sp - 1
  BY Operands
<1>3. QED
  BY <1>1, <1>2, CapsAssumption

LEMMA StoresType ==
    ASSUME TypeOK, StoreLocal \/ SetUpvalue \/ Swap
    PROVE  TypeOK'
<1>1. Sp \in Nat /\ Sp <= StackCap /\ status = "run" /\ Len(objs) \in Nat
      /\ Cur.ip + 1 \in Nat /\ Depth \in 1..MaxDepth
  BY RunningFrame, FetchedInstr DEF StoreLocal, SetUpvalue, Swap
<1>2. CASE Fail("malformed")
  BY <1>2, MalformedType
<1>3. CASE ~Fail("malformed")
  <2>1. CASE StoreLocal
    <3> DEFINE fs == At(Cur.ip + 1)
               ls == [Cur.locals EXCEPT ![Ins.a] = Peek(1)]
               r == [fs[Depth] EXCEPT !.locals = ls]
    <3>1. /\ Sp # 0
          /\ frames' = [fs EXCEPT ![Depth] = r]
          /\ stack' = Under(1)
          /\ UNCHANGED <<prog, tries, objs, acts, status, error, result>>
      BY <1>3, <2>1 DEF StoreLocal, Advance
    <3>2. Sp >= 1
      BY <1>1, <3>1
    <3>3. /\ fs \in Seq(Frame(Len(objs))) /\ Len(fs) = Depth /\ Depth \in 1..Len(fs)
          /\ \A j \in DOMAIN fs : fs[j].chunk \in DOMAIN prog.chunks
          /\ DOMAIN fs = 1..Depth
      BY <1>1, AtType
    <3>4. ls \in Seq(Value(Len(objs)))
      <4>1. Cur.locals \in Seq(Value(Len(objs)))
        BY <1>1, RunningFrame DEF Frame
      <4>2. Peek(1) \in Value(Len(objs))
        BY <3>2, TopOperands
      <4>3. Ins.a \in DOMAIN Cur.locals
        BY <1>3, <2>1 DEF StoreLocal
      <4>4. QED
        BY <4>1, <4>2, <4>3, ExceptIn
    <3> HIDE DEF fs, ls
    <3>5. fs[Depth] \in Frame(Len(objs))
      BY <3>3, ElementOfSeq
    <3>6. r \in Frame(Len(objs)) /\ r.chunk = fs[Depth].chunk
      BY <3>4, <3>5 DEF Frame
    <3> HIDE DEF r
    <3>7. /\ frames' \in Seq(Frame(Len(objs))) /\ Len(frames') = Depth
          /\ \A j \in 1..Len(fs) : frames'[j] = IF j = Depth THEN r ELSE fs[j]
      BY <3>1, <3>3, <3>6, ExceptSeq
    <3>8. \A j \in DOMAIN frames' : frames'[j].chunk \in DOMAIN prog.chunks
      BY <3>3, <3>6, <3>7
    <3>9. stack' \in Seq(Value(Len(objs))) /\ Len(stack') <= StackCap
      BY <1>1, <3>1, <3>2, UnderOne
    <3>10. frames' # <<>> /\ Len(frames') <= MaxDepth
      BY <1>1, <3>7
    <3>11. QED
      BY <3>1, <3>7, <3>8, <3>9, <3>10 DEF TypeOK
  <2>2. CASE SetUpvalue
    <3> DEFINE us == [Upvalues EXCEPT ![Ins.a] = Peek(1)]
               o == [objs[Cur.clo] EXCEPT !.items = us]
    <3>1. /\ Sp # 0 /\ Ins.a \in DOMAIN Upvalues
          /\ objs' = [objs EXCEPT ![Cur.clo] = o]
          /\ stack' = Under(1)
          /\ frames' = At(Cur.ip + 1)
          /\ UNCHANGED <<prog, tries, acts, status, error, result>>
      BY <1>3, <2>2 DEF SetUpvalue, Advance
    <3>2. Sp >= 1
      BY <1>1, <3>1
    <3>3. Cur.clo \in 1..Len(objs)
      <4>1. Cur.clo # 0
        BY <3>1 DEF Upvalues
      <4>2. Cur.clo \in 0..Len(objs)
        BY <1>1, RunningFrame DEF Frame
      <4>3. QED
        BY <4>1, <4>2
    <3>4. objs \in Seq(Object(Len(objs))) /\ objs[Cur.clo] \in Object(Len(objs))
      BY <1>1, <3>3, ElementOfSeq DEF TypeOK
    <3>5. us \in Seq(Value(Len(objs)))
      <4>1. Upvalues \in Seq(Value(Len(objs))) /\ Peek(1) \in Value(Len(objs))
        BY <1>1, <3>2, TopOperands, RunningFrame
      <4>2. QED
        BY <3>1, <4>1, ExceptIn
    <3> HIDE DEF us
    <3>6. o \in Object(Len(objs))
      BY <3>4, <3>5 DEF Object
    <3> HIDE DEF o
    <3>7. objs' \in Seq(Object(Len(objs))) /\ Len(objs') = Len(objs)
      BY <3>1, <3>3, <3>4, <3>6, ExceptSeq
    <3>8. /\ frames' \in Seq(Frame(Len(objs))) /\ Len(frames') = Depth
          /\ \A j \in DOMAIN frames' : frames'[j].chunk \in DOMAIN prog.chunks
      BY <1>1, <3>1, AtType
    <3>9. stack' \in Seq(Value(Len(objs))) /\ Len(stack') <= StackCap
      BY <1>1, <3>1, <3>2, UnderOne
    <3>10. frames' # <<>> /\ Len(frames') <= MaxDepth
      BY <1>1, <3>8
    <3>11. QED
      BY <3>1, <3>7, <3>8, <3>9, <3>10 DEF TypeOK
  <2>3. CASE Swap
    <3>1. /\ ~(Sp < 2)
          /\ stack' = Append(Append(Under(2), Peek(1)), Peek(2))
          /\ frames' = At(Cur.ip + 1)
          /\ UNCHANGED <<prog, tries, objs, acts, status, error, result>>
      BY <1>3, <2>3, Zenon DEF Swap, Advance
    <3>2. Sp >= 2 /\ Sp >= 1
      BY <1>1, <3>1
    <3>3. Under(2) \in Seq(Value(Len(objs))) /\ Len(Under(2)) = Sp - 2
      BY <3>2, Operands
    <3>4. Peek(1) \in Value(Len(objs)) /\ Peek(2) \in Value(Len(objs))
      BY <3>2, TopOperands
    <3>5. stack' \in Seq(Value(Len(objs))) /\ Len(stack') = Sp
      BY <1>1, <3>1, <3>3, <3>4
    <3>6. QED
      BY <1>1, <3>1, <3>5, LocalType
  <2>4. QED
    BY <2>1, <2>2, <2>3
<1>4. QED
  BY <1>2, <1>3

-----------------------------------------------------------------------------
(* Type correctness of the steps that move frames and handlers *)

LEMMA EnterType ==
    ASSUME TypeOK, NEW op, Fetched(op), NEW c \in Nat, NEW clo \in 0..Len(objs),
           NEW n \in Nat, n <= Sp, Ins.b <= n, Enter(c, clo, n)
    PROVE  TypeOK'
<1>1. Sp \in Nat /\ Sp <= StackCap /\ status = "run" /\ Len(objs) \in Nat /\ Ins.b \in Nat
      /\ Cur.ip + 1 \in Nat /\ Depth \in 1..MaxDepth
      /\ prog.chunks \in Seq(Chunk)
  BY RunningFrame, FetchedInstr DEF Instr, Program
<1>2. CASE Fail("malformed") \/ Fail("call depth exceeded")
  BY <1>2, FailType DEF Errors
<1>3. CASE ~(Fail("malformed") \/ Fail("call depth exceeded"))
  <2> DEFINE locals == [i \in 1..prog.chunks[c].nlocals |->
                           IF i <= Ins.b THEN stack[Sp - Ins.b + i] ELSE Zero]
             r == [chunk |-> c, ip |-> 1, clo |-> clo, act |-> acts + 1, locals |-> locals]
  <2>1. /\ c \in DOMAIN prog.chunks
        /\ ~(Depth >= MaxDepth)
        /\ frames' = Append(At(Cur.ip + 1), r)
        /\ stack' = Under(n)
        /\ acts' = acts + 1
        /\ UNCHANGED <<prog, tries, objs, status, error, result>>
    BY <1>3, Zenon DEF Enter, Advance
  <2>2. prog.chunks[c].nlocals \in Nat
    <3>1. prog.chunks[c] \in Chunk
      BY <1>1, <2>1, ElementOfSeq
    <3>2. QED
      BY <3>1 DEF Chunk
  <2>3. \A i \in 1..prog.chunks[c].nlocals :
           (IF i <= Ins.b THEN stack[Sp - Ins.b + i] ELSE Zero) \in Value(Len(objs))
    <3>1. TAKE i \in 1..prog.chunks[c].nlocals
    <3>2. CASE i <= Ins.b
      <4>1. Sp - Ins.b + i \in 1..Sp
        BY SMTT(30), <1>1, <2>2, <3>2
      <4>2. 0 \in Nat /\ 0 <= Sp
        BY <1>1
      <4>3. stack[Sp - Ins.b + i] \in Value(Len(objs))
        BY <4>1, <4>2, Operands
      <4>4. QED
        BY <3>2, <4>3
    <3>3. CASE ~(i <= Ins.b)
      BY <1>1, <3>3, ScalarValues
    <3>4. QED
      BY <3>2, <3>3
  <2>4. locals \in Seq(Value(Len(objs)))
    BY <2>2, <2>3, SeqDef
  <2> HIDE DEF locals
  <2>5. r \in Frame(Len(objs)) /\ r.chunk = c
    BY <1>1, <2>4 DEF Frame, TypeOK
  <2> HIDE DEF r
  <2>6. /\ At(Cur.ip + 1) \in Seq(Frame(Len(objs))) /\ Len(At(Cur.ip + 1)) = Depth
        /\ \A j \in DOMAIN At(Cur.ip + 1) : At(Cur.ip + 1)[j].chunk \in DOMAIN prog.chunks
    BY <1>1, AtType
  <2>7. /\ frames' \in Seq(Frame(Len(objs))) /\ Len(frames') = Depth + 1
        /\ \A j \in 1..Depth : frames'[j] = At(Cur.ip + 1)[j]
        /\ frames'[Depth + 1] = r
        /\ DOMAIN frames' = 1..Depth + 1 /\ DOMAIN At(Cur.ip + 1) = 1..Depth
    BY <1>1, <2>1, <2>5, <2>6
  <2>8. \A j \in DOMAIN frames' : frames'[j].chunk \in DOMAIN prog.chunks
    <3>1. \A j \in 1..Depth : frames'[j].chunk \in DOMAIN prog.chunks
      BY <2>6, <2>7
    <3>2. frames'[Depth + 1].chunk \in DOMAIN prog.chunks
      BY <2>1, <2>5, <2>7
    <3>3. \A j \in DOMAIN frames' : j \in 1..Depth \/ j = Depth + 1
      BY <1>1, <2>7
    <3>4. QED
      BY <3>1, <3>2, <3>3
  <2>9. stack' \in Seq(Value(Len(objs))) /\ Len(stack') <= StackCap
    <3>1. Under(n) \in Seq(Value(Len(objs))) /\ Len(Under(n)) = Sp - n
      BY Operands
    <3>2. QED
      BY <1>1, <2>1, <3>1, CapsAssumption
  <2>10. frames' # <<>> /\ Len(frames') <= MaxDepth
    BY <1>1, <2>1, <2>7, CapsAssumption
  <2>11. QED
    BY <2>1, <2>7, <2>8, <2>9, <2>10 DEF TypeOK
<1>4. QED
  BY <1>2, <1>3

LEMMA CallsType ==
    ASSUME TypeOK, Call \/ CallClosure
    PROVE  TypeOK'
<1>1. Sp \in Nat /\ Ins.a \in Nat /\ Ins.b \in Nat /\ Len(objs) \in Nat
  BY RunningFrame, FetchedInstr DEF Call, CallClosure, Instr
<1>2. CASE Fail("malformed")
  BY <1>2, MalformedType
<1>3. CASE ~Fail("malformed")
  <2>1. CASE Call
    <3>1. Fetched("CALL") /\ ~(Sp < Ins.b) /\ Enter(Ins.a, 0, Ins.b)
      BY <1>3, <2>1, Zenon DEF Call
    <3>2. Ins.b <= Sp /\ 0 \in 0..Len(objs) /\ Ins.b <= Ins.b
      BY <1>1, <3>1
    <3>3. QED
      BY <1>1, <3>1, <3>2, EnterType
  <2>2. CASE CallClosure
    <3> DEFINE clo == Peek(Ins.b + 1).v
    <3>1. /\ Fetched("CALL_CLOSURE") /\ ~(Sp < Ins.b + 1) /\ Peek(Ins.b + 1).k = "closure"
          /\ Enter(objs[clo].tag, clo, Ins.b + 1)
      BY <1>3, <2>2, Zenon DEF CallClosure
    <3>2. Ins.b + 1 \in Nat /\ Ins.b + 1 <= Sp /\ Ins.b <= Ins.b + 1 /\ Ins.b + 1 \in 1..Ins.b + 1
      BY <1>1, <3>1
    <3>3. Peek(Ins.b + 1) \in Value(Len(objs))
      BY <3>2, Operands
    <3>4. clo \in 1..Len(objs) /\ objs[clo] \in Object(Len(objs))
      BY <3>1, <3>3, ItemValue DEF Composite
    <3>5. clo \in 0..Len(objs) /\ objs[clo].tag \in Nat
      BY <1>1, <3>4 DEF Object
    <3> HIDE DEF clo
    <3>6. QED
      BY <3>1, <3>2, <3>5, EnterType
  <2>3. QED
    BY <2>1, <2>2
<1>4. QED
  BY <1>2, <1>3

\* A prefix of try_stack is a stack of handlers too.
LEMMA HandlersPrefix ==
    ASSUME TypeOK, NEW n \in 0..Len(tries)
    PROVE  /\ SubSeq(tries, 1, n) \in Seq(Handler)
           /\ Len(SubSeq(tries, 1, n)) = n
           /\ n <= TryCap
           /\ \A t \in 1..n : SubSeq(tries, 1, n)[t] = tries[t]
<1>1. tries \in Seq(Handler) /\ Len(tries) <= TryCap /\ Len(tries) \in Nat
  BY DEF TypeOK
<1>2. /\ SubSeq(tries, 1, n) \in Seq(Handler)
      /\ Len(SubSeq(tries, 1, n)) = n
      /\ \A t \in 1..n : SubSeq(tries, 1, n)[t] = tries[1 + t - 1]
  BY <1>1, SubSeqProperties
<1>3. n <= TryCap
  BY <1>1, CapsAssumption
<1>4. QED
  BY <1>2, <1>3

\* A prefix of the frame stack is one too.
LEMMA FramesPrefix ==
    ASSUME TypeOK, NEW n \in 0..Depth
    PROVE  /\ SubSeq(frames, 1, n) \in Seq(Frame(Len(objs)))
           /\ Len(SubSeq(frames, 1, n)) = n
           /\ n <= MaxDepth
           /\ \A j \in 1..n : SubSeq(frames, 1, n)[j] = frames[j]
           /\ \A j \in 1..n : SubSeq(frames, 1, n)[j].chunk \in DOMAIN prog.chunks
<1>1. frames \in Seq(Frame(Len(objs))) /\ Depth <= MaxDepth /\ Depth \in Nat /\ Depth = Len(frames)
  BY DEF TypeOK, Depth
<1>2. /\ SubSeq(frames, 1, n) \in Seq(Frame(Len(objs)))
      /\ Len(SubSeq(frames, 1, n)) = n
      /\ \A t \in 1..n : SubSeq(frames, 1, n)[t] = frames[1 + t - 1]
  BY <1>1, SubSeqProperties
<1>3. \A j \in 1..n : SubSeq(frames, 1, n)[j] = frames[j] /\ j \in DOMAIN frames
  BY <1>1, <1>2
<1>4. n <= MaxDepth
  BY <1>1, CapsAssumption
<1>5. QED
  BY <1>2, <1>3, <1>4 DEF TypeOK

LEMMA LeaveType ==
    ASSUME TypeOK, NEW op, Fetched(op), NEW n \in Nat, n <= Sp,
           NEW v \in Value(Len(objs)), Leave(n, v)
    PROVE  TypeOK'
<1>1. Sp \in Nat /\ Depth \in 1..MaxDepth
  BY RunningFrame, FetchedInstr
<1>2. CASE Depth = 1
  BY <1>2, StopType DEF Leave, Errors
<1>3. CASE Depth # 1 /\ Sp - n >= StackCap
  BY <1>3, FailType DEF Leave, Errors
<1>4. CASE Depth # 1 /\ ~(Sp - n >= StackCap)
  <2>1. /\ frames' = SubSeq(frames, 1, Depth - 1)
        /\ stack' = Append(Under(n), v)
        /\ DropHandlers
        /\ UNCHANGED <<prog, objs, acts, status, error, result>>
    BY <1>4 DEF Leave
  <2>2. Depth - 1 \in 0..Depth /\ Depth - 1 # 0
    BY <1>1, <1>4
  <2>3. /\ frames' \in Seq(Frame(Len(objs))) /\ Len(frames') = Depth - 1
        /\ Len(frames') <= MaxDepth
        /\ \A j \in 1..Depth - 1 : frames'[j].chunk \in DOMAIN prog.chunks
    BY <2>1, <2>2, FramesPrefix
  <2>4. frames' # <<>> /\ DOMAIN frames' = 1..Depth - 1
    BY <1>1, <2>2, <2>3
  <2>5. tries' \in Seq(Handler) /\ Len(tries') <= TryCap
    BY <2>1, HandlersPrefix DEF DropHandlers
  <2>6. stack' \in Seq(Value(Len(objs))) /\ Len(stack') = Sp - n + 1
    BY <2>1, Operands
  <2>7. Len(stack') <= StackCap
    BY <1>1, <1>4, <2>6, CapsAssumption
  <2>8. QED
    BY <2>1, <2>3, <2>4, <2>5, <2>6, <2>7 DEF TypeOK
<1>5. QED
  BY <1>2, <1>3, <1>4

LEMMA UnwindType ==
    ASSUME TypeOK, NEW op, Fetched(op), tries # <<>>, Sp # 0,
           HandlersOfLiveActivations, Unwind(tries[Len(tries)], Peek(1))
    PROVE  TypeOK'
<1> DEFINE h == tries[Len(tries)]
           n == Least(Depth, h.depth)
           m == Least(Sp - 1, h.sp)
<1>1. /\ Sp \in Nat /\ Depth \in 1..MaxDepth /\ Len(objs) \in Nat
      /\ status = "run" /\ DOMAIN frames = 1..Depth
  BY RunningFrame, FetchedInstr
<1>2. Len(tries) \in 1..Len(tries) /\ Len(tries) \in Nat /\ tries \in Seq(Handler)
  BY DEF TypeOK
<1>3. h \in Handler
  BY <1>2, ElementOfSeq
<1>4. h.depth \in 1..Depth
  BY <1>1, <1>2 DEF HandlersOfLiveActivations
<1>5. h.ip \in Nat /\ h.sp \in Nat
  BY <1>3 DEF Handler
<1> HIDE DEF h
<1>6. n \in 1..Depth /\ m \in 0..Sp
  BY <1>1, <1>4, <1>5 DEF Least
<1>7. CASE m >= StackCap
  BY <1>7, FailType DEF Unwind, Errors, h
<1>8. CASE ~(m >= StackCap)
  <2>1. /\ frames' = [SubSeq(frames, 1, n) EXCEPT ![n].ip = h.ip]
        /\ stack' = Append(SubSeq(stack, 1, m), Peek(1))
        /\ tries' = SubSeq(tries, 1, Len(tries) - 1)
        /\ UNCHANGED <<prog, objs, acts, status, error, result>>
    BY <1>8 DEF Unwind, h
  <2> HIDE DEF n, m
  <2> DEFINE fs == SubSeq(frames, 1, n)
  <2>2. n \in 0..Depth
    BY <1>1, <1>6
  <2>3. /\ fs \in Seq(Frame(Len(objs))) /\ Len(fs) = n /\ n <= MaxDepth
        /\ \A j \in 1..n : fs[j].chunk \in DOMAIN prog.chunks
    BY <2>2, FramesPrefix
  <2> HIDE DEF fs
  <2>4. n \in 1..n /\ n \in Nat
    BY <1>1, <1>6
  <2>5. fs[n] \in Frame(Len(objs))
    BY <2>3, <2>4, ElementOfSeq
  <2> DEFINE r == [fs[n] EXCEPT !.ip = h.ip]
  <2>6. r \in Frame(Len(objs)) /\ r.chunk = fs[n].chunk
    BY <1>5, <2>5 DEF Frame
  <2>7. frames' = [fs EXCEPT ![n] = r]
    BY <2>1 DEF fs
  <2> HIDE DEF r
  <2>8. /\ frames' \in Seq(Frame(Len(objs))) /\ Len(frames') = n
        /\ \A j \in 1..Len(fs) : frames'[j] = IF j = n THEN r ELSE fs[j]
    BY <2>3, <2>4, <2>6, <2>7, ExceptSeq
  <2>9. /\ \A j \in DOMAIN frames' : frames'[j].chunk \in DOMAIN prog.chunks
        /\ frames' # <<>>
    BY <2>3, <2>4, <2>6, <2>8
  <2>10. tries' \in Seq(Handler) /\ Len(tries') <= TryCap
    <3>1. Len(tries) - 1 \in 0..Len(tries)
      BY <1>2
    <3>2. QED
      BY <2>1, <3>1, HandlersPrefix
  <2>11. stack' \in Seq(Value(Len(objs))) /\ Len(stack') = m + 1
    <3>1. stack \in Seq(Value(Len(objs))) /\ Sp = Len(stack)
      BY DEF TypeOK, Sp
    <3>2. SubSeq(stack, 1, m) \in Seq(Value(Len(objs))) /\ Len(SubSeq(stack, 1, m)) = m
      BY <1>1, <1>6, <3>1, SubSeqProperties
    <3>3. Peek(1) \in Value(Len(objs))
      BY <1>1, TopOperands
    <3>4. QED
      BY <2>1, <3>2, <3>3
  <2>12. Len(stack') <= StackCap
    BY <1>6, <1>8, <2>11, CapsAssumption DEF m
  <2>13. QED
    BY <2>1, <2>3, <2>8, <2>9, <2>10, <2>11, <2>12 DEF TypeOK
<1>9. QED
  BY <1>7, <1>8

LEMMA TriesType ==
    ASSUME TypeOK, TryEnter \/ TryExit
    PROVE  TypeOK'
<1>1. /\ status = "run" /\ Cur.ip + 1 \in Nat /\ Depth \in 1..MaxDepth /\ Sp \in Nat
      /\ Ins.a \in Nat /\ Cur \in Frame(Len(objs))
  BY RunningFrame, FetchedInstr DEF TryEnter, TryExit, Instr
<1>2. tries \in Seq(Handler) /\ Len(tries) \in Nat /\ Len(tries) <= TryCap
  BY DEF TypeOK
<1>3. CASE \E e \in Errors : Fail(e)
  BY <1>3, FailType
<1>4. CASE ~\E e \in Errors : Fail(e)
  <2>1. /\ tries' \in Seq(Handler) /\ Len(tries') <= TryCap
        /\ frames' = At(Cur.ip + 1)
        /\ UNCHANGED <<prog, stack, objs, acts, status, error, result>>
    <3>1. CASE TryEnter
      <4> DEFINE h == [depth |-> Depth, ip |-> Ins.a, sp |-> Sp, act |-> Cur.act]
      <4>1. /\ ~(Len(tries) >= TryCap)
            /\ tries' = Append(tries, h)
            /\ frames' = At(Cur.ip + 1)
            /\ UNCHANGED <<prog, stack, objs, acts, status, error, result>>
        BY <1>4, <3>1 DEF TryEnter, Errors, Advance
      <4>2. h \in Handler
        BY <1>1 DEF Handler, Frame
      <4>3. QED
        BY <1>2, <4>1, <4>2, CapsAssumption
    <3>2. CASE TryExit
      <4>1. /\ tries # <<>>
            /\ tries' = SubSeq(tries, 1, Len(tries) - 1)
            /\ frames' = At(Cur.ip + 1)
            /\ UNCHANGED <<prog, stack, objs, acts, status, error, result>>
        BY <1>4, <3>2 DEF TryExit, Errors, Advance
      <4>2. Len(tries) - 1 \in 0..Len(tries)
        BY <1>2, <4>1
      <4>3. QED
        BY <4>1, <4>2, HandlersPrefix
    <3>3. QED
      BY <3>1, <3>2
  <2>2. /\ frames' \in Seq(Frame(Len(objs))) /\ Len(frames') = Depth
        /\ \A j \in DOMAIN frames' : frames'[j].chunk \in DOMAIN prog.chunks
    BY <1>1, <2>1, AtType
  <2>3. frames' # <<>> /\ Len(frames') <= MaxDepth
    BY <1>1, <2>2
  <2>4. QED
    BY <2>1, <2>2, <2>3 DEF TypeOK
<1>5. QED
  BY <1>3, <1>4

-----------------------------------------------------------------------------
(* The shape of a step: what it does to activations and handlers *)

\* n frames remain, of the activations they were of.
KeepsActivations(n) ==
    Len(frames') = n /\ \A j \in 1..n : frames'[j].act = frames[j].act

ClosesLast == tries # <<>> /\ tries' = SubSeq(tries, 1, Len(tries) - 1)

Stays == KeepsActivations(Depth) /\ tries' = tries /\ acts' = acts
Ends == frames' = <<>> /\ tries' = <<>> /\ acts' = acts
Enters ==
    /\ Depth > 0 /\ Len(frames') = Depth + 1
    /\ \A j \in 1..Depth : frames'[j].act = frames[j].act
    /\ frames'[Depth + 1].act = acts + 1
    /\ tries' = tries /\ acts' = acts + 1
Leaves == Depth > 1 /\ KeepsActivations(Depth - 1) /\ DropHandlers /\ acts' = acts
Opens ==
    /\ Depth > 0 /\ KeepsActivations(Depth) /\ acts' = acts
    /\ \E h \in Handler : /\ h.depth = Depth /\ h.act = Cur.act
                          /\ tries' = Append(tries, h)
Closes == KeepsActivations(Depth) /\ ClosesLast /\ acts' = acts
Unwinds == KeepsActivations(tries[Len(tries)].depth) /\ ClosesLast /\ acts' = acts

Shape == Stays \/ Ends \/ Enters \/ Leaves \/ Opens \/ Closes \/ Unwinds

IInv == TypeOK /\ HandlersOfLiveActivations

LEMMA FailEnds ==
    ASSUME NEW e, Fail(e)
    PROVE  Ends
BY DEF Fail, Stop, Ends

LEMMA AtStays ==
    ASSUME TypeOK, status = "run", NEW i \in Nat, frames' = At(i)
    PROVE  KeepsActivations(Depth)
BY AtType DEF KeepsActivations

LEMMA ReplaceShape ==
    ASSUME TypeOK, NEW op, Fetched(op), NEW n, NEW v, Replace(n, v)
    PROVE  Stays \/ Ends
<1>1. CASE Sp - n >= StackCap
  BY <1>1, FailEnds DEF Replace
<1>2. CASE ~(Sp - n >= StackCap)
  BY <1>2, AtStays, FetchedInstr DEF Replace, Stays, Advance
<1>3. QED
  BY <1>1, <1>2

LEMMA AllocateShape ==
    ASSUME TypeOK, NEW op, Fetched(op), NEW n, NEW k, NEW tag, NEW items,
           Allocate(n, k, tag, items)
    PROVE  Stays \/ Ends
<1>1. CASE Sp - n >= StackCap
  BY <1>1, FailEnds DEF Allocate
<1>2. CASE ~(Sp - n >= StackCap)
  BY <1>2, AtStays, FetchedInstr DEF Allocate, Stays, Advance
<1>3. QED
  BY <1>1, <1>2

LEMMA JumpShape ==
    ASSUME TypeOK, NEW op, Fetched(op), NEW n, NEW target, JumpTo(n, target)
    PROVE  Stays \/ Ends
<1>1. CASE target \in 1..Len(Code) + 1
  <2>1. target \in Nat
    BY <1>1, RunningFrame, FetchedInstr
  <2>2. QED
    BY <1>1, <2>1, AtStays, FetchedInstr DEF JumpTo, Stays
<1>2. CASE ~(target \in 1..Len(Code) + 1)
  BY <1>2, FailEnds DEF JumpTo
<1>3. QED
  BY <1>1, <1>2

\* The instructions that work on values and locals.
Local ==
    \/ PushConst \/ LoadLocal \/ GetUpvalue \/ Dup
    \/ Arith \/ Neg \/ Equal \/ Order \/ Not \/ ExnIsPrim
    \/ Pop \/ Jump \/ PopJumpIf
    \/ GetField \/ GetFieldNamed \/ ArrayLen \/ IndexInt
    \/ SeqNew \/ StructNew \/ Closure
    \/ StoreLocal \/ SetUpvalue \/ Swap

LEMMA LocalShape ==
    ASSUME TypeOK, Local
    PROVE  Stays \/ Ends
<1>1. CASE PushConst
  BY <1>1, ReplaceShape, FailEnds DEF PushConst
<1>2. CASE LoadLocal
  BY <1>2, ReplaceShape, FailEnds DEF LoadLocal
<1>3. CASE GetUpvalue
  BY <1>3, ReplaceShape, FailEnds DEF GetUpvalue
<1>4. CASE Dup
  BY <1>4, ReplaceShape, FailEnds DEF Dup
<1>5. CASE Arith
  BY <1>5, ReplaceShape, FailEnds DEF Arith
<1>6. CASE Neg
  BY <1>6, ReplaceShape, FailEnds DEF Neg
<1>7. CASE Equal
  BY <1>7, ReplaceShape, FailEnds DEF Equal
<1>8. CASE Order
  BY <1>8, ReplaceShape, FailEnds DEF Order
<1>9. CASE Not
  BY <1>9, ReplaceShape, FailEnds DEF Not
<1>10. CASE ExnIsPrim
  BY <1>10, ReplaceShape, FailEnds DEF ExnIsPrim
<1>11. CASE Pop
  BY <1>11, JumpShape, FailEnds DEF Pop
<1>12. CASE Jump
  BY <1>12, JumpShape DEF Jump
<1>13. CASE PopJumpIf
  BY <1>13, JumpShape, FailEnds DEF PopJumpIf
<1>14. CASE GetField
  BY <1>14, ReplaceShape, FailEnds DEF GetField
<1>15. CASE GetFieldNamed
  BY <1>15, ReplaceShape, FailEnds, Zenon DEF GetFieldNamed
<1>16. CASE ArrayLen
  BY <1>16, ReplaceShape, FailEnds DEF ArrayLen
<1>17. CASE IndexInt
  BY <1>17, ReplaceShape, FailEnds DEF IndexInt
<1>18. CASE SeqNew
  BY <1>18, AllocateShape, FailEnds DEF SeqNew
<1>19. CASE StructNew
  BY <1>19, AllocateShape, FailEnds DEF StructNew
<1>20. CASE Closure
  BY <1>20, AllocateShape, FailEnds DEF Closure
<1>21. CASE StoreLocal
  <2>1. CASE Sp = 0 \/ Ins.a \notin DOMAIN Cur.locals
    BY <1>21, <2>1, FailEnds DEF StoreLocal
  <2>2. CASE ~(Sp = 0 \/ Ins.a \notin DOMAIN Cur.locals)
    <3> DEFINE fs == At(Cur.ip + 1)
               ls == [Cur.locals EXCEPT ![Ins.a] = Peek(1)]
    <3>1. /\ frames' = [fs EXCEPT ![Depth].locals = ls]
          /\ UNCHANGED <<tries, acts>>
      BY <1>21, <2>2 DEF StoreLocal, Advance
    <3>2. /\ fs \in Seq(Frame(Len(objs))) /\ Len(fs) = Depth
          /\ \A j \in 1..Depth : fs[j].act = frames[j].act
          /\ \A j \in 1..Depth : fs[j] \in Frame(Len(objs))
      <4>1. status = "run" /\ Cur.ip + 1 \in Nat
        BY <1>21, FetchedInstr DEF StoreLocal
      <4>2. QED
        BY <4>1, AtType, ElementOfSeq
    <3> HIDE DEF fs, ls
    <3>3. Len(frames') = Depth
      BY <3>1, <3>2
    <3>4. \A j \in 1..Depth : frames'[j].act = fs[j].act
      BY <3>1, <3>2 DEF Frame
    <3>5. QED
      BY <3>1, <3>2, <3>3, <3>4 DEF Stays, KeepsActivations
  <2>3. QED
    BY <2>1, <2>2
<1>22. CASE SetUpvalue
  BY <1>22, AtStays, FetchedInstr, FailEnds DEF SetUpvalue, Stays, Advance
<1>23. CASE Swap
  BY <1>23, AtStays, FetchedInstr, FailEnds DEF Swap, Stays, Advance
<1>24. QED
  BY <1>1, <1>2, <1>3, <1>4, <1>5, <1>6, <1>7, <1>8, <1>9, <1>10, <1>11, <1>12, <1>13,
     <1>14, <1>15, <1>16, <1>17, <1>18, <1>19, <1>20, <1>21, <1>22, <1>23 DEF Local

LEMMA LeaveShape ==
    ASSUME TypeOK, NEW op, Fetched(op), NEW n, NEW v, Leave(n, v)
    PROVE  Leaves \/ Ends
<1>1. Depth \in 1..MaxDepth
  BY RunningFrame, FetchedInstr
<1>2. CASE Depth = 1
  BY <1>2 DEF Leave, Stop, Ends
<1>3. CASE Depth # 1 /\ Sp - n >= StackCap
  BY <1>3, FailEnds DEF Leave
<1>4. CASE Depth # 1 /\ ~(Sp - n >= StackCap)
  <2>1. /\ frames' = SubSeq(frames, 1, Depth - 1) /\ DropHandlers /\ acts' = acts
    BY <1>4 DEF Leave
  <2>2. Depth - 1 \in 0..Depth /\ Depth > 1
    BY <1>1, <1>4
  <2>3. KeepsActivations(Depth - 1)
    BY <2>1, <2>2, FramesPrefix DEF KeepsActivations
  <2>4. QED
    BY <2>1, <2>2, <2>3 DEF Leaves
<1>5. QED
  BY <1>2, <1>3, <1>4

LEMMA EnterShape ==
    ASSUME TypeOK, NEW op, Fetched(op), NEW c, NEW clo, NEW n, Enter(c, clo, n)
    PROVE  Enters \/ Ends
<1>1. CASE \E e : Fail(e)
  BY <1>1, FailEnds
<1>2. CASE ~\E e : Fail(e)
  <2> DEFINE r == [chunk |-> c, ip |-> 1, clo |-> clo, act |-> acts + 1,
                   locals |-> [i \in 1..prog.chunks[c].nlocals |->
                                  IF i <= Ins.b THEN stack[Sp - Ins.b + i] ELSE Zero]]
  <2>1. /\ frames' = Append(At(Cur.ip + 1), r)
        /\ acts' = acts + 1 /\ tries' = tries
    BY <1>2 DEF Enter, Advance
  <2>2. r.act = acts + 1
    OBVIOUS
  <2> HIDE DEF r
  <2>3. /\ At(Cur.ip + 1) \in Seq(Frame(Len(objs))) /\ Len(At(Cur.ip + 1)) = Depth
        /\ \A j \in 1..Depth : At(Cur.ip + 1)[j].act = frames[j].act
        /\ Depth \in Nat
    BY AtType, FetchedInstr, RunningFrame
  <2>4. /\ Len(frames') = Depth + 1
        /\ \A j \in 1..Depth : frames'[j] = At(Cur.ip + 1)[j]
        /\ frames'[Depth + 1] = r
    BY <2>1, <2>3
  <2>5. Depth > 0
    <3>1. Depth \in 1..MaxDepth
      BY RunningFrame, FetchedInstr
    <3>2. QED
      BY <3>1
  <2>6. QED
    BY <2>1, <2>2, <2>3, <2>4, <2>5 DEF Enters
<1>3. QED
  BY <1>1, <1>2

LEMMA UnwindShape ==
    ASSUME IInv, status = "run", tries # <<>>, NEW ex, Unwind(tries[Len(tries)], ex)
    PROVE  Unwinds \/ Ends
<1> DEFINE h == tries[Len(tries)]
           n == Least(Depth, h.depth)
<1>1. TypeOK /\ Depth \in 1..MaxDepth /\ DOMAIN frames = 1..Depth
  BY RunningFrame DEF IInv
<1>2. Len(tries) \in DOMAIN tries
  BY <1>1 DEF TypeOK
<1>3. h.depth \in 1..Depth
  BY <1>1, <1>2 DEF IInv, HandlersOfLiveActivations
<1> HIDE DEF h
<1>4. n = h.depth /\ n \in 1..Depth
  BY <1>1, <1>3 DEF Least
<1>5. CASE \E e : Fail(e)
  BY <1>5, FailEnds
<1>6. CASE ~\E e : Fail(e)
  <2>1. /\ frames' = [SubSeq(frames, 1, n) EXCEPT ![n].ip = h.ip]
        /\ tries' = SubSeq(tries, 1, Len(tries) - 1) /\ acts' = acts
    BY <1>6 DEF Unwind, h
  <2> HIDE DEF n
  <2> DEFINE fs == SubSeq(frames, 1, n)
  <2>2. n \in 0..Depth /\ n \in Nat
    BY <1>1, <1>4
  <2>3. /\ fs \in Seq(Frame(Len(objs))) /\ Len(fs) = n
        /\ \A j \in 1..n : fs[j] = frames[j]
    BY <1>1, <2>2, FramesPrefix
  <2>4. \A j \in 1..n : fs[j] \in Frame(Len(objs))
    BY <2>3, ElementOfSeq
  <2>5. frames' = [fs EXCEPT ![n].ip = h.ip]
    BY <2>1
  <2> HIDE DEF fs
  <2>6. Len(frames') = n
    BY <2>3, <2>5
  <2>7. \A j \in 1..n : frames'[j].act = fs[j].act
    BY <2>3, <2>4, <2>5 DEF Frame
  <2>8. KeepsActivations(n)
    BY <2>3, <2>6, <2>7 DEF KeepsActivations
  <2>9. QED
    BY <1>4, <2>1, <2>8 DEF Unwinds, ClosesLast, h
<1>7. QED
  BY <1>5, <1>6

LEMMA StepShape ==
    ASSUME IInv, [Next]_vars
    PROVE  Shape \/ UNCHANGED vars
<1>1. TypeOK
  BY DEF IInv
<1>2. CASE Local
  BY <1>1, <1>2, LocalShape DEF Shape
<1>3. CASE Call
  BY <1>1, <1>3, EnterShape, FailEnds DEF Shape, Call
<1>4. CASE CallClosure
  BY <1>1, <1>4, EnterShape, FailEnds, Zenon DEF Shape, CallClosure
<1>5. CASE Return
  BY <1>1, <1>5, LeaveShape, FailEnds DEF Shape, Return
<1>6. CASE TryEnter
  <2>1. CASE \E e : Fail(e)
    BY <2>1, FailEnds DEF Shape
  <2>2. CASE ~\E e : Fail(e)
    <3> DEFINE h == [depth |-> Depth, ip |-> Ins.a, sp |-> Sp, act |-> Cur.act]
    <3>1. /\ frames' = At(Cur.ip + 1) /\ acts' = acts
          /\ tries' = Append(tries, h)
      BY <1>6, <2>2 DEF TryEnter, Advance
    <3>2. h \in Handler
      <4>1. Depth \in Nat /\ Ins.a \in Nat /\ Sp \in Nat /\ Cur \in Frame(Len(objs))
        <5>1. status = "run" /\ Ins \in Instr
          BY <1>1, <1>6, FetchedInstr DEF TryEnter
        <5>2. Depth \in Nat /\ Sp \in Nat /\ Cur \in Frame(Len(objs))
          BY <1>1, <5>1, RunningFrame
        <5>3. QED
          BY <5>1, <5>2 DEF Instr
      <4>2. QED
        BY <4>1 DEF Handler, Frame
    <3>3. h.depth = Depth /\ h.act = Cur.act
      OBVIOUS
    <3> HIDE DEF h
    <3>4. KeepsActivations(Depth)
      BY <1>1, <1>6, <3>1, AtStays, FetchedInstr DEF TryEnter
    <3>5. Depth > 0
      <4>1. Depth \in 1..MaxDepth
        BY <1>1, <1>6, RunningFrame, FetchedInstr DEF TryEnter
      <4>2. QED
        BY <4>1
    <3>6. QED
      BY <3>1, <3>2, <3>3, <3>4, <3>5 DEF Shape, Opens
  <2>3. QED
    BY <2>1, <2>2
<1>7. CASE TryExit
  <2>1. CASE tries = <<>>
    BY <1>7, <2>1, FailEnds DEF TryExit, Shape
  <2>2. CASE tries # <<>>
    BY <1>1, <1>7, <2>2, AtStays, FetchedInstr DEF TryExit, Shape, Closes, ClosesLast, Advance
  <2>3. QED
    BY <2>1, <2>2
<1>8. CASE Throw
  <2>1. status = "run" /\ Fetched("THROW")
    BY <1>8 DEF Throw, Fetched
  <2>2. CASE Sp # 0 /\ tries # <<>>
    BY <1>8, <2>1, <2>2, UnwindShape DEF Throw, Shape
  <2>3. CASE Sp = 0
    BY <1>8, <2>3, FailEnds DEF Throw, Shape
  <2>4. CASE Sp # 0 /\ tries = <<>>
    BY <1>1, <1>8, <2>1, <2>4, LeaveShape, FailEnds DEF Throw, Shape
  <2>5. QED
    BY <2>2, <2>3, <2>4
<1>9. CASE FellOffTheEnd
  BY <1>9, FailEnds DEF FellOffTheEnd, Shape
<1>10. CASE Stopped \/ UNCHANGED vars
  BY <1>10 DEF Stopped
<1>11. QED
  BY <1>2, <1>3, <1>4, <1>5, <1>6, <1>7, <1>8, <1>9, <1>10 DEF Next, Execute, Local

-----------------------------------------------------------------------------
(* Type correctness of a step *)

LEMMA StepType ==
    ASSUME IInv, [Next]_vars
    PROVE  TypeOK'
<1>1. TypeOK /\ HandlersOfLiveActivations
  BY DEF IInv
<1>2. CASE Local
  BY <1>1, <1>2, LoadsType, OperatorsType, JumpsType, ReadsType, AllocationsType, StoresType
     DEF Local
<1>3. CASE Call \/ CallClosure
  BY <1>1, <1>3, CallsType
<1>4. CASE Return
  <2>1. CASE Sp = 0
    BY <1>1, <1>4, <2>1, MalformedType DEF Return
  <2>2. CASE Sp # 0
    <3>1. Fetched("RETURN") /\ Leave(1, Peek(1))
      BY <1>4, <2>2 DEF Return
    <3>2. Sp \in Nat
      BY <1>1 DEF TypeOK, Sp
    <3>3. Peek(1) \in Value(Len(objs)) /\ 1 <= Sp
      BY <1>1, <2>2, <3>2, TopOperands
    <3>4. QED
      BY <1>1, <3>1, <3>3, LeaveType
  <2>3. QED
    BY <2>1, <2>2
<1>5. CASE TryEnter \/ TryExit
  BY <1>1, <1>5, TriesType
<1>6. CASE Throw
  <2>1. Fetched("THROW") /\ Sp \in Nat
    <3>1. Fetched("THROW")
      BY <1>6 DEF Throw
    <3>2. QED
      BY <1>1, <3>1 DEF TypeOK, Sp
  <2>2. CASE Sp = 0
    BY <1>1, <1>6, <2>2, MalformedType DEF Throw
  <2>3. CASE Sp # 0 /\ tries # <<>>
    BY <1>1, <1>6, <2>1, <2>3, UnwindType DEF Throw
  <2>4. CASE Sp # 0 /\ tries = <<>> /\ IsReturnSignal(Peek(1))
    <3>1. Leave(1, objs[Peek(1).v].items[2])
      BY <1>6, <2>4 DEF Throw
    <3>2. Peek(1) \in Value(Len(objs)) /\ 1 <= Sp
      BY <1>1, <2>1, <2>4, TopOperands
    <3>3. Peek(1).k \in Composite /\ Len(objs[Peek(1).v].items) = 2
      BY <2>4 DEF IsReturnSignal, Composite, Sequential
    <3>4. objs[Peek(1).v].items[2] \in Value(Len(objs))
      BY <1>1, <3>2, <3>3, ItemValue
    <3>5. QED
      BY <1>1, <2>1, <3>1, <3>2, <3>4, LeaveType
  <2>5. CASE Sp # 0 /\ tries = <<>> /\ ~IsReturnSignal(Peek(1))
    BY <1>1, <1>6, <2>5, FailType DEF Throw, Errors
  <2>6. QED
    BY <2>2, <2>3, <2>4, <2>5
<1>7. CASE FellOffTheEnd
  BY <1>1, <1>7, MalformedType DEF FellOffTheEnd
<1>8. CASE Stopped \/ UNCHANGED vars
  <2>1. UNCHANGED vars
    BY <1>8 DEF Stopped
  <2>2. QED
    BY <1>1, <2>1 DEF vars, TypeOK
<1>9. QED
  BY <1>2, <1>3, <1>4, <1>5, <1>6, <1>7, <1>8 DEF Next, Execute, Local

-----------------------------------------------------------------------------
(* Handlers belong to live activations *)

LEMMA StateFacts ==
    ASSUME IInv
    PROVE  /\ tries \in Seq(Handler) /\ Len(tries) \in Nat
           /\ DOMAIN tries = 1..Len(tries)
           /\ Depth \in Nat /\ DOMAIN frames = 1..Depth
           /\ \A t \in 1..Len(tries) : /\ tries[t] \in Handler
                                       /\ tries[t].depth \in 1..Depth
                                       /\ tries[t].act = frames[tries[t].depth].act
           /\ \A t, u \in 1..Len(tries) : t <= u => tries[t].depth <= tries[u].depth
<1>1. tries \in Seq(Handler) /\ frames \in Seq(Frame(Len(objs)))
  BY DEF IInv, TypeOK
<1>2. /\ Len(tries) \in Nat /\ DOMAIN tries = 1..Len(tries)
      /\ Depth \in Nat /\ DOMAIN frames = 1..Depth
      /\ \A t \in 1..Len(tries) : tries[t] \in Handler
  BY <1>1 DEF Depth
<1>3. QED
  BY <1>1, <1>2 DEF IInv, HandlersOfLiveActivations

\* Dropping handlers and frames from the top keeps the rest in order, when no
\* handler that stays belongs to a frame that goes.
LEMMA PrefixKeepsHandlers ==
    ASSUME IInv, TypeOK', NEW n \in 0..Depth, NEW m \in 0..Len(tries),
           KeepsActivations(n), tries' = SubSeq(tries, 1, m),
           \A t \in 1..m : tries[t].depth <= n
    PROVE  HandlersOfLiveActivations'
<1>1. /\ Len(tries') = m /\ DOMAIN tries' = 1..m
      /\ \A t \in 1..m : tries'[t] = tries[t] /\ t \in 1..Len(tries)
  BY StateFacts, HandlersPrefix DEF IInv
<1>2. DOMAIN frames' = 1..n
  BY DEF KeepsActivations, TypeOK
<1>3. \A t \in 1..m : /\ tries'[t].depth \in 1..n
                      /\ tries'[t].act = frames'[tries'[t].depth].act
  BY <1>1, StateFacts DEF KeepsActivations
<1>4. \A t, u \in 1..m : t <= u => tries'[t].depth <= tries'[u].depth
  BY <1>1, StateFacts
<1>5. QED
  BY <1>1, <1>2, <1>3, <1>4 DEF HandlersOfLiveActivations

LEMMA StepHandlers ==
    ASSUME IInv, TypeOK', Shape \/ UNCHANGED vars
    PROVE  HandlersOfLiveActivations'
<1>1. CASE UNCHANGED vars
  BY <1>1 DEF IInv, HandlersOfLiveActivations, vars
<1>2. CASE Stays
  <2>1. KeepsActivations(Depth) /\ tries' = tries
    BY <1>2 DEF Stays
  <2>2. DOMAIN frames' = DOMAIN frames
    BY <2>1, StateFacts DEF KeepsActivations, TypeOK
  <2>3. QED
    BY <2>1, <2>2, StateFacts DEF KeepsActivations, HandlersOfLiveActivations
<1>3. CASE Ends
  BY <1>3 DEF Ends, HandlersOfLiveActivations
<1>4. CASE Enters
  <2>1. /\ tries' = tries /\ DOMAIN frames' = 1..Depth + 1
        /\ \A j \in 1..Depth : frames'[j].act = frames[j].act
    BY <1>4 DEF Enters, TypeOK
  <2>2. \A j \in 1..Depth : j \in 1..Depth + 1
    BY StateFacts
  <2>3. QED
    BY <2>1, <2>2, StateFacts DEF HandlersOfLiveActivations
<1>5. CASE Leaves
  <2>1. Depth > 1 /\ KeepsActivations(Depth - 1)
    BY <1>5 DEF Leaves
  <2>2. PICK m \in 0..Len(tries) : /\ m > 0 => tries[m].depth < Depth
                                   /\ tries' = SubSeq(tries, 1, m)
    BY <1>5 DEF Leaves, DropHandlers
  <2>3. \A t \in 1..m : tries[t].depth <= Depth - 1
    <3>1. TAKE t \in 1..m
    <3>2. m > 0 /\ m \in 1..Len(tries) /\ t \in 1..Len(tries) /\ t <= m
      BY StateFacts
    <3>3. tries[t].depth <= tries[m].depth /\ tries[m].depth < Depth
      BY <2>2, <3>2, StateFacts
    <3>4. tries[t].depth \in 1..Depth /\ tries[m].depth \in 1..Depth
      BY <3>2, StateFacts
    <3>5. QED
      BY <3>3, <3>4, StateFacts
  <2>4. Depth - 1 \in 0..Depth
    BY <2>1, StateFacts
  <2>5. QED
    BY <2>1, <2>2, <2>3, <2>4, PrefixKeepsHandlers
<1>6. CASE Opens
  <2>1. PICK h \in Handler : h.depth = Depth /\ h.act = Cur.act /\ tries' = Append(tries, h)
    BY <1>6 DEF Opens
  <2>2. /\ DOMAIN tries' = 1..Len(tries) + 1
        /\ \A t \in 1..Len(tries) : tries'[t] = tries[t]
        /\ tries'[Len(tries) + 1] = h
    BY <2>1, StateFacts
  <2>3. DOMAIN frames' = 1..Depth /\ \A j \in 1..Depth : frames'[j].act = frames[j].act
    BY <1>6 DEF Opens, KeepsActivations, TypeOK
  <2>4. Depth \in 1..Depth
    BY <1>6, StateFacts DEF Opens
  <2>5. QED
    BY <2>1, <2>2, <2>3, <2>4, StateFacts DEF HandlersOfLiveActivations, Cur
<1>7. CASE Closes \/ Unwinds
  <2> DEFINE m == Len(tries) - 1
  <2>1. /\ tries # <<>> /\ tries' = SubSeq(tries, 1, m)
    BY <1>7 DEF Closes, Unwinds, ClosesLast
  <2>2. Len(tries) \in 1..Len(tries) /\ m \in 0..Len(tries)
    BY <2>1, StateFacts
  <2>3. PICK n \in 0..Depth : /\ KeepsActivations(n)
                              /\ n = Depth \/ n = tries[Len(tries)].depth
    BY <1>7, <2>2, StateFacts DEF Closes, Unwinds
  <2>4. \A t \in 1..m : tries[t].depth <= n
    <3>1. TAKE t \in 1..m
    <3>2. t \in 1..Len(tries) /\ t <= Len(tries)
      BY <2>2
    <3>3. tries[t].depth <= tries[Len(tries)].depth /\ tries[t].depth <= Depth
      BY <2>2, <3>2, StateFacts
    <3>4. QED
      BY <2>3, <3>3
  <2> HIDE DEF m
  <2>5. QED
    BY <2>1, <2>2, <2>3, <2>4, PrefixKeepsHandlers
<1>8. QED
  BY <1>1, <1>2, <1>3, <1>4, <1>5, <1>6, <1>7 DEF Shape

-----------------------------------------------------------------------------
(* The invariant *)

LEMMA InitHolds ==
    ASSUME Init
    PROVE  IInv
<1> DEFINE ok == /\ prog.entry \in DOMAIN prog.chunks
                 /\ Len(prog.args) = prog.chunks[prog.entry].nparams
           ls == [i \in 1..prog.chunks[prog.entry].nlocals |->
                     IF i \in DOMAIN prog.args THEN prog.args[i] ELSE Zero]
           r == [chunk |-> prog.entry, ip |-> 1, locals |-> ls, clo |-> 0, act |-> 0]
<1>1. /\ prog \in Programs /\ prog \in Program
      /\ frames = IF ok THEN <<r>> ELSE <<>>
      /\ status = IF ok THEN "run" ELSE "failed"
      /\ error = IF ok THEN "none" ELSE "malformed"
      /\ stack = <<>> /\ tries = <<>> /\ objs = <<>> /\ acts = 0 /\ result = Void
  BY ProgramsAssumption DEF Init, Start
<1>2. Len(objs) = 0 /\ Void \in Value(0) /\ Zero \in Value(0)
  BY <1>1, ScalarValues
<1>3. /\ frames \in Seq(Frame(0)) /\ Len(frames) <= MaxDepth
      /\ status = "run" => frames # <<>>
      /\ \A i \in DOMAIN frames : frames[i].chunk \in DOMAIN prog.chunks
  <2>1. CASE ok
    <3>1. prog.chunks \in Seq(Chunk) /\ prog.args \in Seq(Value(0)) /\ prog.entry \in Nat
      BY <1>1 DEF Program
    <3>2. prog.chunks[prog.entry] \in Chunk
      BY <2>1, <3>1, ElementOfSeq
    <3>3. prog.chunks[prog.entry].nlocals \in Nat
      BY <3>2 DEF Chunk
    <3>4. \A i \in DOMAIN prog.args : prog.args[i] \in Value(0)
      BY <3>1
    <3>5. ls \in Seq(Value(0))
      BY <1>2, <3>3, <3>4, SeqDef
    <3> HIDE DEF ls
    <3>6. r \in Frame(0) /\ r.chunk = prog.entry
      BY <3>1, <3>5 DEF Frame
    <3> HIDE DEF r
    <3>7. frames = <<r>> /\ prog.entry \in DOMAIN prog.chunks
      BY <1>1, <2>1
    <3>8. /\ frames \in Seq(Frame(0)) /\ Len(frames) = 1 /\ frames # <<>>
          /\ DOMAIN frames = {1} /\ frames[1] = r
      BY <3>6, <3>7
    <3> HIDE DEF ok
    <3>9. QED
      BY <3>6, <3>7, <3>8, CapsAssumption
  <2>2. CASE ~ok
    BY <1>1, <2>2, CapsAssumption
  <2>3. QED
    BY <2>1, <2>2
<1>4. TypeOK
  <2>1. status \in {"run", "ok", "failed"} /\ error \in Errors
    BY <1>1 DEF Errors
  <2>2. /\ stack \in Seq(Value(0)) /\ Len(stack) <= StackCap
        /\ tries \in Seq(Handler) /\ Len(tries) <= TryCap
        /\ objs \in Seq(Object(0)) /\ acts \in Nat
    BY <1>1, CapsAssumption
  <2>3. QED
    BY <1>1, <1>2, <1>3, <2>1, <2>2 DEF TypeOK
<1>5. HandlersOfLiveActivations
  BY <1>1 DEF HandlersOfLiveActivations
<1>6. QED
  BY <1>4, <1>5 DEF IInv

LEMMA StepHolds ==
    ASSUME IInv, [Next]_vars
    PROVE  IInv'
BY StepType, StepShape, StepHandlers DEF IInv

LEMMA Invariance == Spec => []IInv
<1>1. Init => IInv
  BY InitHolds
<1>2. IInv /\ [Next]_vars => IInv'
  BY StepHolds
<1>3. QED
  BY <1>1, <1>2, PTL DEF Spec

\* TypeOK is an invariant of the machine on any bytecode and with any
\* capacities: no array of vm_run_program is written or read outside its
\* bounds (stack, fr, try_stack, locals, upvalues, the items of an object).
THEOREM TypeCorrect == Spec => []TypeOK
BY Invariance, PTL DEF IInv

\* HandlersOfLiveActivations is an invariant: the loops of OP_RETURN and
\* OP_THROW never leave a handler behind for a frame that has gone.
THEOREM NoStaleHandler == Spec => []HandlersOfLiveActivations
BY Invariance, PTL DEF IInv

-----------------------------------------------------------------------------
(* Activations *)

\* The history variable gives every activation a number of its own.
ActsOrdered ==
    /\ \A i \in DOMAIN frames : frames[i].act \in 0..acts
    /\ \A i, j \in DOMAIN frames : i < j => frames[i].act < frames[j].act

LEMMA PrefixKeepsOrder ==
    ASSUME IInv, ActsOrdered, NEW n \in 0..Depth, KeepsActivations(n), acts' = acts, TypeOK'
    PROVE  ActsOrdered'
<1>1. DOMAIN frames' = 1..n /\ \A j \in 1..n : j \in DOMAIN frames
  BY StateFacts DEF KeepsActivations, TypeOK
<1>2. \A j \in 1..n : frames'[j].act = frames[j].act
  BY DEF KeepsActivations
<1>3. QED
  BY <1>1, <1>2 DEF ActsOrdered

LEMMA StepOrder ==
    ASSUME IInv, ActsOrdered, IInv', Shape \/ UNCHANGED vars
    PROVE  ActsOrdered'
<1>1. CASE UNCHANGED vars
  BY <1>1 DEF ActsOrdered, vars
<1>2. CASE Ends
  BY <1>2 DEF Ends, ActsOrdered
<1>3. CASE Enters
  <2>1. /\ DOMAIN frames' = 1..Depth + 1 /\ Depth \in Nat /\ DOMAIN frames = 1..Depth
        /\ acts' = acts + 1 /\ acts \in Nat
        /\ \A j \in 1..Depth : frames'[j].act = frames[j].act
        /\ frames'[Depth + 1].act = acts + 1
    BY <1>3, StateFacts DEF Enters, IInv, TypeOK
  <2>2. \A i \in 1..Depth + 1 : i \in 1..Depth \/ i = Depth + 1
    BY <2>1
  <2>3. \A i \in 1..Depth + 1 : frames'[i].act \in 0..acts + 1
    BY <2>1, <2>2 DEF ActsOrdered
  <2>4. ASSUME NEW i \in 1..Depth + 1, NEW j \in 1..Depth + 1, i < j
        PROVE  frames'[i].act < frames'[j].act
    <3>1. i \in 1..Depth
      BY <2>1, <2>4
    <3>2. frames[i].act \in 0..acts
      BY <2>1, <3>1 DEF ActsOrdered
    <3>3. CASE j \in 1..Depth
      BY <2>1, <2>4, <3>1, <3>3 DEF ActsOrdered
    <3>4. CASE j = Depth + 1
      BY <2>1, <3>1, <3>2, <3>4
    <3>5. QED
      BY <2>2, <3>3, <3>4
  <2>5. QED
    BY <2>1, <2>3, <2>4 DEF ActsOrdered
<1>4. CASE Stays \/ Leaves \/ Opens \/ Closes \/ Unwinds
  <2>1. acts' = acts /\ TypeOK'
    BY <1>4 DEF Stays, Leaves, Opens, Closes, Unwinds, IInv
  <2>2. PICK n \in 0..Depth : KeepsActivations(n)
    <3>1. CASE Stays \/ Opens \/ Closes
      BY <3>1, StateFacts DEF Stays, Opens, Closes
    <3>2. CASE Leaves
      <4>1. Depth - 1 \in 0..Depth
        BY <3>2, StateFacts DEF Leaves
      <4>2. QED
        BY <3>2, <4>1 DEF Leaves
    <3>3. CASE Unwinds
      <4>1. Len(tries) \in 1..Len(tries)
        BY <3>3, StateFacts DEF Unwinds, ClosesLast
      <4>2. tries[Len(tries)].depth \in 0..Depth
        BY <4>1, StateFacts
      <4>3. QED
        BY <3>3, <4>2 DEF Unwinds
    <3>4. QED
      BY <1>4, <3>1, <3>2, <3>3
  <2>3. QED
    BY <2>1, <2>2, PrefixKeepsOrder
<1>5. QED
  BY <1>1, <1>2, <1>3, <1>4 DEF Shape

-----------------------------------------------------------------------------
(* The machine implements Activations *)

Calls == [id : Nat, open : SUBSET Nat]

AbstractFacts ==
    /\ AbstractCalls \in Seq(Calls)
    /\ Len(AbstractCalls) = Depth
    /\ \A i \in 1..Depth : /\ AbstractCalls[i].id = frames[i].act
                           /\ AbstractCalls[i].open = OpenedBy(i)
                           /\ AbstractCalls[i] = [id |-> frames[i].act, open |-> OpenedBy(i)]

LEMMA AbstractState == IInv => AbstractFacts
<1> SUFFICES ASSUME IInv PROVE AbstractFacts
  OBVIOUS
<1>1. DOMAIN frames = 1..Depth /\ Depth \in Nat
  BY StateFacts
<1>2. \A i \in 1..Depth : [id |-> frames[i].act, open |-> OpenedBy(i)] \in Calls
  <2>1. TAKE i \in 1..Depth
  <2>2. frames[i] \in Frame(Len(objs))
    BY <1>1, ElementOfSeq DEF IInv, TypeOK, Depth
  <2>3. OpenedBy(i) \in SUBSET Nat
    BY StateFacts DEF OpenedBy
  <2>4. QED
    BY <2>2, <2>3 DEF Calls, Frame
<1>3. AbstractCalls \in Seq(Calls)
  BY <1>1, <1>2, SeqDef DEF AbstractCalls
<1>4. QED
  BY <1>1, <1>3 DEF AbstractCalls, AbstractFacts

\* The open regions are the handlers, each with its own activation.
LEMMA AbstractOpened ==
    ASSUME IInv, ActsOrdered
    PROVE  /\ A!Opened = 1..Len(tries)
           /\ \A i \in 1..Depth, t \in 1..Len(tries) :
                  t \in OpenedBy(i) <=> tries[t].depth = i
<1>1. \A i \in 1..Depth, t \in 1..Len(tries) :
          t \in OpenedBy(i) <=> tries[t].depth = i
  <2>1. TAKE i \in 1..Depth, t \in 1..Len(tries)
  <2>2. tries[t].depth \in 1..Depth /\ tries[t].act = frames[tries[t].depth].act
    BY StateFacts
  <2>3. tries[t].act = frames[i].act <=> tries[t].depth = i
    <3>1. /\ frames[i].act \in Int /\ frames[tries[t].depth].act \in Int
          /\ i < tries[t].depth => frames[i].act < frames[tries[t].depth].act
          /\ tries[t].depth < i => frames[tries[t].depth].act < frames[i].act
      BY <2>2, StateFacts DEF ActsOrdered
    <3>2. i \in Int /\ tries[t].depth \in Int
      BY <2>2
    <3>3. QED
      BY <2>2, <3>1, <3>2
  <2>4. QED
    BY <2>3, StateFacts DEF OpenedBy
<1>2. DOMAIN AbstractCalls = 1..Depth
  BY AbstractState DEF AbstractFacts
<1>3. A!Opened = UNION {OpenedBy(i) : i \in 1..Depth}
  BY <1>2, AbstractState DEF A!Opened, AbstractFacts
<1>4. \A i \in 1..Depth : OpenedBy(i) \subseteq 1..Len(tries)
  BY StateFacts DEF OpenedBy
<1>5. \A t \in 1..Len(tries) : \E i \in 1..Depth : t \in OpenedBy(i)
  BY <1>1, StateFacts
<1>6. QED
  BY <1>1, <1>3, <1>4, <1>5

\* What is left of the open regions when handlers and frames go from the top.
LEMMA AbstractPrefix ==
    ASSUME IInv, ActsOrdered, IInv', ActsOrdered',
           NEW n \in 0..Depth, NEW m \in 0..Len(tries),
           KeepsActivations(n), tries' = SubSeq(tries, 1, m)
    PROVE  /\ Len(AbstractCalls') = n
           /\ \A i \in 1..n : /\ AbstractCalls'[i].id = AbstractCalls[i].id
                              /\ AbstractCalls'[i].open = AbstractCalls[i].open \cap (1..m)
<1>1. Depth' = n
  BY DEF KeepsActivations, Depth
<1>2. /\ Len(AbstractCalls') = n
      /\ \A i \in 1..n : /\ AbstractCalls'[i].id = frames'[i].act
                         /\ AbstractCalls'[i].open = OpenedBy(i)'
  <2>1. AbstractFacts'
    BY AbstractState, PTL
  <2>2. QED
    BY <1>1, <2>1 DEF AbstractFacts
<1>3. /\ DOMAIN tries' = 1..m
      /\ \A t \in 1..m : tries'[t] = tries[t] /\ t \in DOMAIN tries
  BY StateFacts, HandlersPrefix DEF IInv
<1>4. \A i \in 1..n : OpenedBy(i)' = OpenedBy(i) \cap (1..m)
  BY <1>3 DEF OpenedBy, KeepsActivations
<1>5. \A i \in 1..n : i \in 1..Depth
  BY StateFacts
<1>6. QED
  BY <1>2, <1>4, <1>5, AbstractState DEF KeepsActivations, AbstractFacts

LEMMA CallsEqual ==
    ASSUME NEW s \in Seq(Calls), NEW u \in Seq(Calls), Len(s) = Len(u),
           \A i \in 1..Len(s) : s[i].id = u[i].id /\ s[i].open = u[i].open
    PROVE  s = u
<1>1. ASSUME NEW i \in 1..Len(s)
      PROVE  s[i] = u[i]
  <2>1. s[i] \in Calls /\ u[i] \in Calls
    BY ElementOfSeq
  <2>2. QED
    BY <2>1 DEF Calls
<1>2. QED
  BY <1>1, SeqEqual

\* The first n calls, without region r of call i.
Remaining(n, i, r) ==
    IF i = 0 THEN SubSeq(AbstractCalls, 1, n)
    ELSE [SubSeq(AbstractCalls, 1, n) EXCEPT ![i].open = @ \ {r}]

\* Frames and handlers that go from the top leave the rest of the calls.
LEMMA AbstractPrefixStep ==
    ASSUME IInv, ActsOrdered, IInv', ActsOrdered',
           NEW n \in 0..Depth, NEW m \in 0..Len(tries),
           KeepsActivations(n), tries' = SubSeq(tries, 1, m),
           NEW i \in 0..n,
           \A j \in 1..n, t \in m + 1 .. Len(tries) :
               t \in AbstractCalls[j].open => j = i,
           NEW r, i # 0 => AbstractCalls[i].open \cap (1..m) = AbstractCalls[i].open \ {r}
    PROVE  AbstractCalls' = Remaining(n, i, r)
<1> DEFINE pre == SubSeq(AbstractCalls, 1, n)
           u == IF i = 0 THEN pre ELSE [pre EXCEPT ![i].open = @ \ {r}]
<1>1. /\ AbstractCalls \in Seq(Calls) /\ Len(AbstractCalls) = Depth /\ Depth \in Nat
      /\ AbstractCalls' \in Seq(Calls)
  <2>1. AbstractFacts /\ AbstractFacts'
    BY AbstractState, PTL
  <2>2. QED
    BY <2>1, StateFacts DEF AbstractFacts
<1>2. /\ Len(AbstractCalls') = n
      /\ \A j \in 1..n : /\ AbstractCalls'[j].id = AbstractCalls[j].id
                         /\ AbstractCalls'[j].open = AbstractCalls[j].open \cap (1..m)
  BY AbstractPrefix
<1>3. /\ pre \in Seq(Calls) /\ Len(pre) = n /\ n \in Nat
      /\ \A j \in 1..n : pre[j] = AbstractCalls[j] /\ j \in 1..Depth
  BY <1>1, SubSeqProperties
<1> HIDE DEF pre
<1>4. \A j \in 1..n : pre[j] \in Calls
  BY <1>3, ElementOfSeq
<1>5. \A j \in 1..n : AbstractCalls[j].open \subseteq 1..Len(tries)
  BY ZenonT(60), <1>3, AbstractState, StateFacts DEF AbstractFacts, OpenedBy
<1>6. \A j \in 1..n : j # i => AbstractCalls'[j].open = AbstractCalls[j].open
  <2>1. TAKE j \in 1..n
  <2>2. HAVE j # i
  <2>3. \A t \in 1..Len(tries) : t \notin 1..m => t \in m + 1 .. Len(tries)
    BY StateFacts
  <2>4. AbstractCalls[j].open \subseteq 1..m
    BY <1>5, <2>2, <2>3
  <2>5. QED
    BY <1>2, <2>4
<1>7. CASE i = 0
  <2>1. \A j \in 1..n : j # 0
    OBVIOUS
  <2>2. \A j \in 1..n : /\ AbstractCalls'[j].id = pre[j].id
                        /\ AbstractCalls'[j].open = pre[j].open
    BY <1>2, <1>3, <1>6, <1>7, <2>1
  <2>3. QED
    BY <1>1, <1>2, <1>3, <1>7, <2>2, CallsEqual DEF pre, Remaining
<1>8. CASE i # 0
  <2>1. i \in 1..n
    BY <1>3, <1>8
  <2> DEFINE e == [pre[i] EXCEPT !.open = @ \ {r}]
  <2>2. e \in Calls /\ e.id = pre[i].id /\ e.open = pre[i].open \ {r}
    BY <1>4, <2>1 DEF Calls
  <2> HIDE DEF e
  <2> DEFINE w == [pre EXCEPT ![i] = e]
  <2>3. /\ w \in Seq(Calls) /\ Len(w) = n
        /\ \A j \in 1..n : w[j] = IF j = i THEN e ELSE pre[j]
    BY <1>3, <2>1, <2>2, ExceptSeq
  <2>4. u = w
    BY <1>8 DEF e
  <2> HIDE DEF w
  <2>5. \A j \in 1..n : /\ AbstractCalls'[j].id = w[j].id
                        /\ AbstractCalls'[j].open = w[j].open
    BY <1>2, <1>3, <1>6, <1>8, <2>1, <2>2, <2>3
  <2>6. AbstractCalls' = w
    BY <1>1, <1>2, <2>3, <2>5, CallsEqual
  <2>7. QED
    BY <1>8, <2>4, <2>6 DEF pre, Remaining
<1>9. QED
  BY <1>7, <1>8

LEMMA StaysSimulates ==
    ASSUME IInv, IInv', KeepsActivations(Depth), tries' = tries
    PROVE  AbstractCalls' = AbstractCalls
<1>1. AbstractFacts /\ AbstractFacts'
  BY AbstractState, PTL
<1>2. Depth' = Depth /\ Depth \in Nat
  BY StateFacts DEF KeepsActivations, Depth
<1>3. \A i \in 1..Depth : OpenedBy(i)' = OpenedBy(i) /\ frames'[i].act = frames[i].act
  BY DEF OpenedBy, KeepsActivations
<1>4. /\ AbstractCalls \in Seq(Calls) /\ Len(AbstractCalls) = Depth
      /\ AbstractCalls' \in Seq(Calls) /\ Len(AbstractCalls') = Depth
      /\ \A i \in 1..Depth : /\ AbstractCalls'[i].id = AbstractCalls[i].id
                             /\ AbstractCalls'[i].open = AbstractCalls[i].open
  BY <1>1, <1>2, <1>3 DEF AbstractFacts
<1>5. QED
  BY <1>4, CallsEqual

LEMMA EntersSimulates ==
    ASSUME IInv, ActsOrdered, IInv', Enters
    PROVE  AbstractCalls' = Append(AbstractCalls, A!Activation(acts + 1))
<1>1. AbstractFacts /\ AbstractFacts'
  BY AbstractState, PTL
<1>2. /\ Depth' = Depth + 1 /\ Depth \in Nat /\ tries' = tries /\ acts \in Nat
      /\ \A j \in 1..Depth : frames'[j].act = frames[j].act
      /\ frames'[Depth + 1].act = acts + 1
  BY StateFacts DEF Enters, Depth, IInv, TypeOK
<1>3. \A i \in 1..Depth : OpenedBy(i)' = OpenedBy(i)
  BY <1>2 DEF OpenedBy
<1>4. \A i \in 1..Depth + 1 : i = Depth + 1 => OpenedBy(i)' = {}
  <2>1. TAKE i \in 1..Depth + 1
  <2>2. HAVE i = Depth + 1
  <2>3. \A t \in DOMAIN tries : tries[t].act \in 0..acts
    BY StateFacts DEF ActsOrdered
  <2>4. \A t \in DOMAIN tries : tries[t].act # acts + 1
    BY <1>2, <2>3
  <2>5. QED
    BY <1>2, <2>2, <2>4 DEF OpenedBy
<1> DEFINE new == A!Activation(acts + 1)
           u == Append(AbstractCalls, new)
<1>5. new \in Calls /\ new.id = acts + 1 /\ new.open = {}
  BY <1>2 DEF Calls, A!Activation
<1> HIDE DEF new
<1>6. /\ AbstractCalls \in Seq(Calls) /\ Len(AbstractCalls) = Depth
      /\ AbstractCalls' \in Seq(Calls) /\ Len(AbstractCalls') = Depth + 1
  BY <1>1, <1>2 DEF AbstractFacts
<1>7. /\ u \in Seq(Calls) /\ Len(u) = Depth + 1
      /\ \A i \in 1..Depth : u[i] = AbstractCalls[i]
      /\ u[Depth + 1] = new
  BY <1>5, <1>6, AppendProperties
<1>8. \A i \in 1..Depth + 1 : /\ AbstractCalls'[i].id = frames'[i].act
                              /\ AbstractCalls'[i].open = OpenedBy(i)'
  BY <1>1, <1>2 DEF AbstractFacts
<1>9. \A i \in 1..Depth : AbstractCalls[i].id = frames[i].act /\ AbstractCalls[i].open = OpenedBy(i)
  BY <1>1 DEF AbstractFacts
<1> HIDE DEF u
<1>10. \A i \in 1..Depth + 1 : i \in 1..Depth \/ i = Depth + 1
  BY <1>2
<1>11. \A i \in 1..Depth + 1 : AbstractCalls'[i].id = u[i].id /\ AbstractCalls'[i].open = u[i].open
  <2>1. TAKE i \in 1..Depth + 1
  <2>2. CASE i \in 1..Depth
    BY <1>2, <1>3, <1>7, <1>8, <1>9, <2>2
  <2>3. CASE i = Depth + 1
    BY <1>2, <1>4, <1>5, <1>7, <1>8, <2>3
  <2>4. QED
    BY <1>10, <2>2, <2>3
<1>12. AbstractCalls' = u
  BY <1>6, <1>7, <1>11, CallsEqual
<1>13. QED
  BY <1>12 DEF u, new

LEMMA OpensSimulates ==
    ASSUME IInv, ActsOrdered, IInv', ActsOrdered', Opens
    PROVE  A!Enter
<1>1. AbstractFacts /\ AbstractFacts'
  BY AbstractState, PTL
<1>2. PICK h \in Handler : h.depth = Depth /\ h.act = Cur.act /\ tries' = Append(tries, h)
  BY DEF Opens
<1>3. /\ Depth' = Depth /\ Depth \in 1..Depth
      /\ \A j \in 1..Depth : frames'[j].act = frames[j].act
      /\ acts' = acts
  BY StateFacts DEF Opens, KeepsActivations, Depth
<1> DEFINE k == Len(tries) + 1
<1>4. /\ DOMAIN tries' = 1..k /\ DOMAIN tries = 1..Len(tries) /\ Len(tries) \in Nat
      /\ \A t \in 1..Len(tries) : tries'[t] = tries[t]
      /\ tries'[k] = h
  BY <1>2, StateFacts
<1>5. \A i \in 1..Depth, t \in 1..k : t \in OpenedBy(i)' <=>
          t \in OpenedBy(i) \/ (t = k /\ i = Depth)
  <2>1. TAKE i \in 1..Depth, t \in 1..k
  <2>2. CASE t \in 1..Len(tries)
    <3>1. t # k
      BY <1>4, <2>2
    <3>2. QED
      BY <1>3, <1>4, <2>2, <3>1 DEF OpenedBy
  <2>3. CASE t = k
    <3>1. t \notin DOMAIN tries
      BY <1>4, <2>3
    <3>2. h.act = frames[i].act <=> i = Depth
      <4>1. /\ Depth \in DOMAIN frames /\ i \in DOMAIN frames /\ i <= Depth
            /\ frames[i].act \in Int /\ frames[Depth].act \in Int
        BY <1>3, StateFacts DEF ActsOrdered
      <4>2. i # Depth => frames[i].act < frames[Depth].act
        BY <4>1, StateFacts DEF ActsOrdered
      <4>3. QED
        BY <1>2, <4>1, <4>2 DEF Cur
    <3>3. QED
      BY <1>3, <1>4, <2>3, <3>1, <3>2 DEF OpenedBy
  <2>4. QED
    BY <1>4, <2>2, <2>3
<1>6. \A i \in 1..Depth : OpenedBy(i) \subseteq 1..k /\ OpenedBy(i)' \subseteq 1..k
  BY <1>4 DEF OpenedBy
<1>7. \A i \in 1..Depth : OpenedBy(i)' = IF i = Depth THEN OpenedBy(i) \cup {k} ELSE OpenedBy(i)
  <2>1. TAKE i \in 1..Depth
  <2>2. k \in 1..k
    BY <1>4
  <2>3. CASE i = Depth
    BY <1>5, <1>6, <2>2, <2>3
  <2>4. CASE i # Depth
    BY <1>5, <1>6, <2>4
  <2>5. QED
    BY <2>3, <2>4
<1>8. /\ AbstractCalls \in Seq(Calls) /\ Len(AbstractCalls) = Depth
      /\ AbstractCalls' \in Seq(Calls) /\ Len(AbstractCalls') = Depth
      /\ \A i \in 1..Depth : /\ AbstractCalls'[i].id = AbstractCalls[i].id
                             /\ AbstractCalls[i].open = OpenedBy(i)
                             /\ AbstractCalls'[i].open = OpenedBy(i)'
  BY <1>1, <1>3 DEF AbstractFacts
<1> DEFINE e == [AbstractCalls[Depth] EXCEPT !.open = @ \cup {k}]
           u == [AbstractCalls EXCEPT ![Depth] = e]
<1>9. e \in Calls /\ e.id = AbstractCalls[Depth].id /\ e.open = AbstractCalls[Depth].open \cup {k}
  <2>1. AbstractCalls[Depth] \in Calls /\ k \in Nat
    BY <1>3, <1>4, <1>8, ElementOfSeq
  <2>2. QED
    BY <2>1 DEF Calls
<1> HIDE DEF e
<1>10. /\ u \in Seq(Calls) /\ Len(u) = Depth
       /\ \A i \in 1..Depth : u[i] = IF i = Depth THEN e ELSE AbstractCalls[i]
  BY <1>3, <1>8, <1>9, ExceptSeq
<1> HIDE DEF u
<1>11. \A i \in 1..Depth : AbstractCalls'[i].id = u[i].id /\ AbstractCalls'[i].open = u[i].open
  BY ZenonT(60), <1>7, <1>8, <1>9, <1>10
<1>12. AbstractCalls' = u
  BY <1>8, <1>10, <1>11, CallsEqual
<1>13. k \in A!Fresh
  <2>1. A!Opened = 1..Len(tries)
    BY AbstractOpened
  <2>2. \A q \in A!Opened : q < k
    BY <1>4, <2>1
  <2>3. k \in {1} \cup {q + 1 : q \in A!Opened}
    <3>1. CASE Len(tries) = 0
      BY <3>1
    <3>2. CASE Len(tries) # 0
      <4>1. Len(tries) \in A!Opened
        BY <1>4, <2>1, <3>2
      <4>2. QED
        BY <4>1
    <3>3. QED
      BY <3>1, <3>2
  <2>4. QED
    BY <2>2, <2>3 DEF A!Fresh
<1>14. u = [AbstractCalls EXCEPT ![Len(AbstractCalls)].open = @ \cup {k}]
  BY <1>8 DEF u, e
<1>15. AbstractCalls # <<>>
  BY <1>3, <1>8
<1> HIDE DEF k
<1>16. QED
  BY <1>3, <1>12, <1>13, <1>14, <1>15 DEF A!Enter

LEMMA LeavesSimulates ==
    ASSUME IInv, ActsOrdered, IInv', ActsOrdered', Leaves
    PROVE  A!Return
<1> DEFINE n == Depth - 1
<1>1. n \in 0..Depth /\ n \in Nat /\ Depth > 1 /\ KeepsActivations(n) /\ acts' = acts
  BY StateFacts DEF Leaves
<1>2. PICK m \in 0..Len(tries) : /\ \A t \in m + 1 .. Len(tries) : tries[t].depth >= Depth
                                 /\ tries' = SubSeq(tries, 1, m)
  BY DEF Leaves, DropHandlers
<1>3. \A j \in 1..n, t \in m + 1 .. Len(tries) : t \in AbstractCalls[j].open => j = 0
  <2>1. TAKE j \in 1..n, t \in m + 1 .. Len(tries)
  <2>2. t \in 1..Len(tries) /\ j \in 1..Depth /\ j < Depth
    BY <1>1, StateFacts
  <2>3. tries[t].depth \in 1..Depth /\ tries[t].depth >= Depth
    BY <1>2, <2>2, StateFacts
  <2>4. tries[t].depth # j
    BY <1>1, <2>2, <2>3, StateFacts
  <2>5. t \notin OpenedBy(j)
    BY <2>2, <2>4, AbstractOpened
  <2>6. QED
    BY <2>2, <2>5, AbstractState DEF AbstractFacts
<1>4. 0 \in 0..n
  BY <1>1
<1> HIDE DEF n
<1>5. AbstractCalls' = SubSeq(AbstractCalls, 1, n)
  BY <1>1, <1>2, <1>3, <1>4, AbstractPrefixStep DEF Remaining
<1>6. Len(AbstractCalls) = Depth
  BY AbstractState DEF AbstractFacts
<1>7. QED
  BY <1>1, <1>5, <1>6 DEF A!Return, n

\* TRY_EXIT and a caught exception close the region opened last.
LEMMA LastRegion ==
    ASSUME IInv, ActsOrdered, tries # <<>>
    PROVE  LET i == tries[Len(tries)].depth
               r == Len(tries)
           IN /\ i \in 1..Depth /\ i \in DOMAIN AbstractCalls
              /\ r \in 1..Len(tries) /\ r \in AbstractCalls[i].open
              /\ A!IsLast(r)
              /\ AbstractCalls[i].open \cap (1..r - 1) = AbstractCalls[i].open \ {r}
              /\ \A j \in 1..Depth : r \in AbstractCalls[j].open => j = i
<1> DEFINE i == tries[Len(tries)].depth
           r == Len(tries)
<1>1. r \in 1..Len(tries) /\ i \in 1..Depth /\ r \in Nat
  BY StateFacts
<1> HIDE DEF i
<1>2. AbstractFacts
  BY AbstractState
<1>3. i \in DOMAIN AbstractCalls
  BY <1>1, <1>2 DEF AbstractFacts
<1>4. \A j \in 1..Depth : r \in AbstractCalls[j].open <=> j = i
  BY <1>1, <1>2, AbstractOpened DEF AbstractFacts, i
<1>5. A!Opened = 1..r
  BY AbstractOpened
<1>6. A!IsLast(r)
  BY <1>1, <1>5 DEF A!IsLast
<1>7. AbstractCalls[i].open \subseteq 1..r
  BY <1>1, <1>2, StateFacts DEF AbstractFacts, OpenedBy
<1>8. AbstractCalls[i].open \cap (1..r - 1) = AbstractCalls[i].open \ {r}
  BY <1>1, <1>7
<1>9. QED
  BY <1>1, <1>3, <1>4, <1>6, <1>8 DEF i

LEMMA LastRegionStep ==
    ASSUME IInv, ActsOrdered, IInv', ActsOrdered', ClosesLast,
           NEW n \in 0..Depth, tries[Len(tries)].depth <= n, KeepsActivations(n)
    PROVE  AbstractCalls' = [SubSeq(AbstractCalls, 1, n) EXCEPT
                                ![tries[Len(tries)].depth].open = @ \ {Len(tries)}]
<1> DEFINE i == tries[Len(tries)].depth
           r == Len(tries)
           m == r - 1
<1>1. /\ i \in 1..Depth /\ r \in 1..Len(tries)
      /\ AbstractCalls[i].open \cap (1..m) = AbstractCalls[i].open \ {r}
      /\ \A j \in 1..Depth : r \in AbstractCalls[j].open => j = i
  BY LastRegion DEF ClosesLast
<1>2. /\ i \in 0..n /\ i # 0 /\ m \in 0..Len(tries) /\ m + 1 = r
      /\ tries' = SubSeq(tries, 1, m)
      /\ \A j \in 1..n : j \in 1..Depth
  BY <1>1, StateFacts DEF ClosesLast
<1>3. \A t \in m + 1 .. Len(tries) : t = r
  <2>1. Len(tries) \in Nat
    BY StateFacts
  <2>2. QED
    BY <2>1
<1> HIDE DEF i, m
<1>4. \A j \in 1..n, t \in m + 1 .. Len(tries) : t \in AbstractCalls[j].open => j = i
  BY <1>1, <1>2, <1>3
<1> HIDE DEF r
<1>5. AbstractCalls' = Remaining(n, i, r)
  <2>1. i # 0 => AbstractCalls[i].open \cap (1..m) = AbstractCalls[i].open \ {r}
    BY <1>1
  <2>2. QED
    BY <1>2, <1>4, <2>1, AbstractPrefixStep
<1>6. QED
  BY <1>2, <1>5 DEF i, r, Remaining

LEMMA ClosesSimulates ==
    ASSUME IInv, ActsOrdered, IInv', ActsOrdered', Closes
    PROVE  A!Exit
<1> DEFINE i == tries[Len(tries)].depth
           r == Len(tries)
<1>1. /\ i \in 1..Depth /\ i \in DOMAIN AbstractCalls
      /\ r \in AbstractCalls[i].open /\ A!IsLast(r)
  BY LastRegion DEF Closes, ClosesLast
<1>2. Depth \in 0..Depth /\ i <= Depth
  BY <1>1, StateFacts
<1>3. ClosesLast /\ KeepsActivations(Depth) /\ acts' = acts
  BY DEF Closes
<1>4. AbstractCalls' = [SubSeq(AbstractCalls, 1, Depth) EXCEPT ![i].open = @ \ {r}]
  BY <1>2, <1>3, LastRegionStep
<1>5. SubSeq(AbstractCalls, 1, Depth) = AbstractCalls
  BY AbstractState, SubSeqFull DEF AbstractFacts
<1> HIDE DEF i, r
<1>6. QED
  BY <1>1, <1>3, <1>4, <1>5 DEF A!Exit

LEMMA UnwindsSimulates ==
    ASSUME IInv, ActsOrdered, IInv', ActsOrdered', Unwinds
    PROVE  A!Throw
<1> DEFINE i == tries[Len(tries)].depth
           r == Len(tries)
<1>1. /\ i \in 1..Depth /\ i \in DOMAIN AbstractCalls
      /\ r \in AbstractCalls[i].open /\ A!IsLast(r)
  BY LastRegion DEF Unwinds, ClosesLast
<1>2. i \in 0..Depth /\ i <= i
  BY <1>1, StateFacts
<1>3. ClosesLast /\ KeepsActivations(i) /\ acts' = acts
  BY DEF Unwinds
<1>4. AbstractCalls' = [SubSeq(AbstractCalls, 1, i) EXCEPT ![i].open = @ \ {r}]
  BY <1>2, <1>3, LastRegionStep
<1> HIDE DEF i, r
<1>5. QED
  BY <1>1, <1>3, <1>4 DEF A!Throw

LEMMA StepSimulates ==
    ASSUME IInv, ActsOrdered, IInv', ActsOrdered', Shape \/ UNCHANGED vars
    PROVE  [A!Next]_(A!avars)
<1>1. CASE UNCHANGED vars
  <2>1. acts' = acts /\ tries' = tries /\ frames' = frames
    BY <1>1 DEF vars
  <2>2. AbstractCalls' = AbstractCalls
    BY <2>1 DEF AbstractCalls, OpenedBy
  <2>3. QED
    BY <2>1, <2>2 DEF A!avars
<1>2. CASE Stays
  BY <1>2, StaysSimulates DEF Stays, A!avars
<1>3. CASE Ends
  <2>1. AbstractCalls' = <<>>
    BY <1>3 DEF Ends, AbstractCalls
  <2>2. QED
    BY <1>3, <2>1 DEF Ends, A!Next, A!Over
<1>4. CASE Enters
  <2>1. AbstractCalls # <<>>
    BY <1>4, AbstractState, StateFacts DEF AbstractFacts, Enters
  <2>2. AbstractCalls' = Append(AbstractCalls, A!Activation(acts + 1)) /\ acts' = acts + 1
    BY <1>4, EntersSimulates DEF Enters
  <2>3. QED
    BY <2>1, <2>2 DEF A!Next, A!Call
<1>5. CASE Leaves
  BY <1>5, LeavesSimulates DEF A!Next
<1>6. CASE Opens
  BY <1>6, OpensSimulates DEF A!Next
<1>7. CASE Closes
  BY <1>7, ClosesSimulates DEF A!Next
<1>8. CASE Unwinds
  BY <1>8, UnwindsSimulates DEF A!Next
<1>9. QED
  BY <1>1, <1>2, <1>3, <1>4, <1>5, <1>6, <1>7, <1>8 DEF Shape

LEMMA InitSimulates ==
    ASSUME Init
    PROVE  ActsOrdered /\ A!Init
<1>1. \/ frames = <<>>
      \/ Len(frames) = 1 /\ DOMAIN frames = {1} /\ frames[1].act = 0
  <2> DEFINE r == [chunk |-> prog.entry, ip |-> 1, clo |-> 0, act |-> 0,
                   locals |-> [i \in 1..prog.chunks[prog.entry].nlocals |->
                                  IF i \in DOMAIN prog.args THEN prog.args[i] ELSE Zero]]
  <2>1. frames = <<r>> \/ frames = <<>>
    BY DEF Init, Start
  <2>2. r.act = 0
    OBVIOUS
  <2> HIDE DEF r
  <2>3. QED
    BY <2>1, <2>2
<1>2. tries = <<>> /\ acts = 0
  BY DEF Init, Start
<1>3. ActsOrdered
  BY <1>1, <1>2 DEF ActsOrdered
<1>4. AbstractCalls = <<>> \/ AbstractCalls = <<A!Activation(0)>>
  <2>1. CASE frames = <<>>
    BY <2>1 DEF AbstractCalls
  <2>2. CASE DOMAIN frames = {1} /\ frames[1].act = 0
    <3>1. OpenedBy(1) = {}
      BY <1>2 DEF OpenedBy
    <3>2. AbstractCalls = [i \in {1} |-> A!Activation(0)]
      BY <2>2, <3>1 DEF AbstractCalls, A!Activation
    <3>3. [i \in {1} |-> A!Activation(0)] = <<A!Activation(0)>>
      OBVIOUS
    <3>4. QED
      BY <3>2, <3>3
  <2>3. QED
    BY <1>1, <2>1, <2>2
<1>5. QED
  BY <1>2, <1>3, <1>4 DEF A!Init

\* ImplementsActivations: every behaviour of the machine is one of
\* Activations, the flat array try_stack, cut by frame_depth, standing for
\* regions that belong to activations.
THEOREM RefinesActivations == Spec => ImplementsActivations
<1> DEFINE Inv == IInv /\ ActsOrdered
<1>1. Init => Inv /\ A!Init
  BY InitHolds, InitSimulates
<1>2. Inv /\ [Next]_vars => Inv'
  BY StepHolds, StepShape, StepOrder
<1>3. Inv /\ Inv' /\ [Next]_vars => [A!Next]_(A!avars)
  BY StepShape, StepSimulates
<1> HIDE DEF Inv
<1>4. QED
  BY <1>1, <1>2, <1>3, PTL DEF Spec, ImplementsActivations, A!Spec

=============================================================================
