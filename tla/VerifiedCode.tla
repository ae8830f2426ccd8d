----------------------------- MODULE VerifiedCode -----------------------------
(***************************************************************************)
(* The bytecode machine on code that keeps the discipline of the compiler    *)
(* (src/src/compile.c): along every path through a chunk the operands and    *)
(* the open try regions of a frame are known at every instruction.  A        *)
(* point is such an instruction with what it finds; points holds those of    *)
(* each chunk, and does not change.                                         *)
(***************************************************************************)
EXTENDS BytecodeVM

VARIABLE points

-----------------------------------------------------------------------------
(* What the code of a chunk does to the operand stack, along every path      *)

Pops(p, ins) ==
    CASE ins.op \in {"PUSH_CONST", "LOAD_LOCAL", "GET_UPVALUE", "CLOSURE", "JUMP",
                     "TRY_ENTER", "TRY_EXIT"} -> 0
      [] ins.op \in {"SWAP", "ARITH", "EQUAL", "ORDER", "INDEX_INT"} -> 2
      [] ins.op = "SEQ_NEW" -> ins.a
      [] ins.op = "STRUCT_NEW" -> Len(p.layouts[ins.a])
      [] ins.op = "CALL" -> ins.b
      [] ins.op = "CALL_CLOSURE" -> ins.b + 1
      [] OTHER -> 1

Pushes(ins) ==
    CASE ins.op \in {"STORE_LOCAL", "SET_UPVALUE", "POP", "JUMP", "POP_JUMP_IF", "RETURN",
                     "TRY_ENTER", "TRY_EXIT", "THROW"} -> 0
      [] ins.op \in {"DUP", "SWAP"} -> 2
      [] OTHER -> 1

\* An instruction, the operands the frame has on the stack when it is reached,
\* and the heights at which the regions it has open were entered.
PointType == [at : Nat, height : Nat, open : Seq(Nat)]
Point(at, height, open) == [at |-> at, height |-> height, open |-> open]

FirstPoint == Point(1, 0, <<>>)

\* What an exception finds at the handler of region i of point x.
Caught(ip, x, i) == Point(ip, x.open[i] + 1, SubSeq(x.open, 1, i - 1))

\* The points after x, when nothing fails; an exception goes to the handler.
After(p, code, x) ==
    LET ins == code[x.at]
        height == x.height - Pops(p, ins) + Pushes(ins)
    IN CASE ins.op \in {"RETURN", "THROW"} -> {}
         [] ins.op = "JUMP" -> {Point(ins.a, height, x.open)}
         [] ins.op = "POP_JUMP_IF" -> {Point(ins.a, height, x.open),
                                       Point(x.at + 1, height, x.open)}
         [] ins.op = "TRY_ENTER" -> {Point(ins.a, height + 1, x.open),
                                     Point(x.at + 1, height, Append(x.open, height))}
         [] ins.op = "TRY_EXIT" -> {Point(x.at + 1, height, SubSeq(x.open, 1, Len(x.open) - 1))}
         [] OTHER -> {Point(x.at + 1, height, x.open)}

\* Nothing is missing on the stack and every operand means something; a return
\* leaves nothing behind, the operands a region found are not touched in it and
\* are what it is left with.
Sound(p, chunk, x) ==
    LET ins == chunk.code[x.at]
        top == Len(x.open)
    IN /\ x.at \in DOMAIN chunk.code
       /\ ins.op = "STRUCT_NEW" => ins.a \in DOMAIN p.layouts
       /\ x.height >= Pops(p, ins)
       /\ \A i \in DOMAIN x.open : x.open[i] <= x.height - Pops(p, ins)
       /\ ins.op = "RETURN" => x.height = 1 /\ top = 0
       /\ ins.op = "TRY_EXIT" => top > 0 /\ x.open[top] = x.height
       /\ ins.op \in {"LOAD_LOCAL", "STORE_LOCAL"} => ins.a \in 1..chunk.nlocals
       /\ ins.op = "PUSH_CONST" => ins.a \in DOMAIN chunk.constants
       /\ ins.op = "CALL" => /\ ins.a \in DOMAIN p.chunks
                             /\ p.chunks[ins.a].nparams = ins.b
                             /\ p.chunks[ins.a].nlocals >= ins.b
       /\ ins.op = "SEQ_NEW" => ins.kind \in Sequential
       /\ ins.op = "EXN_IS_PRIM" => ins.kind \in Numbers \cup {"bool", "string"}

\* The points pts of each chunk of p are all a call can come to, each is sound,
\* and there is one for an instruction, whichever path leads to it.
Verified(p, pts) ==
    /\ DOMAIN pts = DOMAIN p.chunks
    /\ \A c \in DOMAIN p.chunks :
          /\ pts[c] \subseteq PointType
          /\ FirstPoint \in pts[c]
          /\ \A x \in pts[c] : /\ Sound(p, p.chunks[c], x)
                               /\ After(p, p.chunks[c].code, x) \subseteq pts[c]
                               /\ \A y \in pts[c] : x.at = y.at => x = y

-----------------------------------------------------------------------------
VInit == Init /\ Verified(prog, points)

VNext == Next /\ UNCHANGED points

VSpec == VInit /\ [][VNext]_<<vars, points>>

-----------------------------------------------------------------------------
(* Properties *)

Here(d) == CHOOSE x \in points[frames[d].chunk] : x.at = frames[d].ip

\* Where the operands and the handlers of frame d start: each frame below it
\* waits for a call and has its own, without the result.
Mark[d \in DOMAIN frames] ==
    IF d = 1
    THEN [sp |-> 0, ntry |-> 0]
    ELSE [sp |-> Mark[d - 1].sp + Here(d - 1).height - 1,
          ntry |-> Mark[d - 1].ntry + Len(Here(d - 1).open)]

\* What the compiler laid out is what the machine has, whatever was called,
\* thrown and unwound before: the operand stack holds exactly the operands of
\* the live frames, and try_stack the regions they have open, in order, each
\* with the height to unwind to and a handler made for what it then finds
\* (OP_CALL, OP_RETURN and OP_THROW in vm.c).
StackAsCompiled ==
    status = "run" =>
        /\ Sp = Mark[Depth].sp + Here(Depth).height
        /\ Len(tries) = Mark[Depth].ntry + Len(Here(Depth).open)
        /\ \A t \in DOMAIN tries :
              LET d == tries[t].depth
                  i == t - Mark[d].ntry
              IN /\ d \in DOMAIN frames
                 /\ i \in DOMAIN Here(d).open
                 /\ tries[t].sp = Mark[d].sp + Here(d).open[i]
                 /\ Caught(tries[t].ip, Here(d), i) \in points[frames[d].chunk]

\* An instruction takes its operands from those of its own frame, never from
\* what a caller left below; a region that ends is the frame's own, at the height
\* it began with, and a frame that returns leaves no operand and no handler.
OwnOperandsOnly ==
    status = "run" =>
        /\ Cur.ip \in DOMAIN Code
        /\ Mark[Depth].sp + Pops(prog, Ins) <= Sp
        /\ Ins.op = "TRY_EXIT" => /\ tries # <<>>
                                  /\ tries[Len(tries)].depth = Depth
                                  /\ tries[Len(tries)].sp = Sp
        /\ Ins.op = "RETURN" => /\ Sp = Mark[Depth].sp + 1
                                /\ \A t \in DOMAIN tries : tries[t].depth # Depth

\* The instructions that look at the kind of a value, or into a closure.
LooksAtValues ==
    {"ARITH", "NEG", "ORDER", "NOT", "POP_JUMP_IF", "GET_FIELD", "GET_FIELD_NAMED",
     "ARRAY_LEN", "INDEX_INT", "CALL_CLOSURE", "GET_UPVALUE", "SET_UPVALUE", "CLOSURE"}

\* What vm_run_program refuses verified code for is a value of the wrong kind,
\* or a closure without what is asked of it: none of its other checks (stack
\* underflow, bad local, constant, layout or jump, arity, an end of try without
\* a handler, the end of the code) ever fails.
RefusesValuesOnly ==
    [][status = "run" /\ status' = "failed" /\ error' = "malformed"
          => Cur.ip \in DOMAIN Code /\ Ins.op \in LooksAtValues]_vars

\* A return signal that no region of any frame is open for ends its frame; in
\* the middle of an expression the operands of the frame would stay.
SignalLeavesNothing ==
    Fetched("THROW") /\ tries = <<>> /\ Sp > 0 /\ Depth > 1
        /\ IsReturnSignal(Peek(1)) => Here(Depth).height = 1

=============================================================================
