---------------------------- MODULE MCBytecodeVM ----------------------------
(***************************************************************************)
(* Bytecode for the machine alone, most of which no compiler would emit:    *)
(* every main of four and every callee of three control instructions, and   *)
(* every sequence of three instructions on values after two operands.       *)
(***************************************************************************)
EXTENDS BytecodeVM

None == [op |-> "POP", fn |-> "none", kind |-> "void", a |-> 0, b |-> 0, caps |-> <<>>]
Op(o) == [None EXCEPT !.op = o]
OpA(o, a) == [None EXCEPT !.op = o, !.a = a]
OpK(o, f, k) == [None EXCEPT !.op = o, !.fn = f, !.kind = k]
Number(i) == [k |-> "int", v |-> i]

\* Constant 3 is the value a compiled "return" in a try region throws.
Constants == <<Number(0), Number(2), ReturnSentinel, Bool(TRUE)>>

Bodies(codes, np, nl) ==
    [code : codes, constants : {Constants}, nparams : {np}, nlocals : {nl}]

Progs(mains, callees) ==
    [chunks : mains \X callees, layouts : {<<<<5, 6>>>>}, entry : {1}, args : {<<Number(3)>>}]

\* Control: handlers, calls, returns and throws in every order.
MainOps == {OpA("TRY_ENTER", 4), Op("TRY_EXIT"), OpA("CALL", 2),
            OpA("PUSH_CONST", 2), Op("THROW"), Op("POP")}
CalleeOps == {OpA("TRY_ENTER", 3), Op("TRY_EXIT"), OpA("PUSH_CONST", 1),
              Op("THROW"), Op("RETURN")}
Ops(s) == {Op(o) : o \in s}

ControlPrograms ==
    Progs(Bodies(MainOps \X MainOps \X MainOps \X Ops({"THROW", "TRY_EXIT"}) \X Ops({"RETURN"}), 1, 1),
          Bodies(CalleeOps \X CalleeOps \X CalleeOps, 0, 0))

\* The value a compiled "return" in a try region throws.
Signal == <<OpA("PUSH_CONST", 3), OpA("PUSH_CONST", 1),
            [OpK("SEQ_NEW", "none", "tuple") EXCEPT !.a = 2], Op("THROW")>>

SignalPrograms ==
    Progs(Bodies(MainOps \X MainOps \X MainOps \X Ops({"RETURN"}), 1, 1),
          Bodies({<<c>> \o Signal : c \in CalleeOps}, 0, 0))

\* Values: three instructions after two operands, whatever they are.
ValueOps ==
    {OpK("ARITH", f, "int") : f \in {"add", "sub", "mul", "div", "mod"}}
    \cup {OpK("NEG", "none", "int"), OpK("EQUAL", "eq", "void"), OpK("ORDER", "lt", "int"),
          Op("NOT"), Op("DUP"), Op("SWAP"), OpA("LOAD_LOCAL", 1), OpA("STORE_LOCAL", 1),
          OpA("STRUCT_NEW", 1), OpA("GET_FIELD", 2), OpA("GET_FIELD_NAMED", 5),
          [OpK("SEQ_NEW", "none", "array") EXCEPT !.a = 2], Op("ARRAY_LEN"), Op("INDEX_INT"),
          [OpA("CLOSURE", 2) EXCEPT !.caps = <<[isLocal |-> TRUE, idx |-> 1]>>],
          [OpA("CALL_CLOSURE", 0) EXCEPT !.b = 1],
          OpK("EXN_IS_PRIM", "none", "int"), [OpA("POP_JUMP_IF", 6) EXCEPT !.fn = "false"],
          OpA("JUMP", 6), OpA("PUSH_CONST", 4)}

Closed == <<OpA("GET_UPVALUE", 1), OpA("LOAD_LOCAL", 1), OpA("SET_UPVALUE", 1), Op("RETURN")>>

ValuePrograms ==
    Progs(Bodies({OpA("PUSH_CONST", 2)} \X {OpA("PUSH_CONST", 1)}
                 \X ValueOps \X ValueOps \X ValueOps \X Ops({"RETURN"}), 1, 1),
          Bodies({Closed}, 1, 1))

MCPrograms == ControlPrograms \cup SignalPrograms \cup ValuePrograms
=============================================================================
