------------------------------ MODULE Encoding ------------------------------
(***************************************************************************)
(* The bytes of a chunk (src/src/bytecode.c): how compile.c writes the       *)
(* instructions that Compile makes, and what vm.c reads at an address.       *)
(*                                                                         *)
(* A byte is a number below Byte or an opcode.  Slots, indices and addresses *)
(* count from 1 in the modules and from 0 in the bytes; an address is the    *)
(* position of a byte.  The tag of EXN_IS_PRIM is the kind it stands for.     *)
(***************************************************************************)
EXTENDS Integers, SequencesExt

CONSTANT Byte  \* 256, the values of a uint8_t

ASSUME ByteIsEven == Byte \in Nat \ {0} /\ Byte % 2 = 0

Word == Byte * Byte  \* the values of a uint16_t

\* The casts to uint8_t and uint16_t.
U8(n) == n % Byte
U16(n) == n % Word

\* A uint16_t as the two bytes that chunk_emit_u16 and chunk_patch_u16 write.
Halves(u) == <<U8(u), U8(u \div Byte)>>

\* The two bytes as vm.c reads them, and the cast to int16_t.
Joined(low, high) == low + Byte * high
Signed(u) == IF u < Word \div 2 THEN u ELSE u - Word

-----------------------------------------------------------------------------
(* Writing *)

Jumps == {"JUMP", "POP_JUMP_IF", "TRY_ENTER"}
SlotOps == {"LOAD_LOCAL", "STORE_LOCAL", "GET_UPVALUE", "SET_UPVALUE", "GET_FIELD"}

\* The boolean literals have opcodes of their own and are not in the pool.
IsBool(v) == v.k = "bool"
PoolIndex(constants, a) == Cardinality({j \in 1 .. a - 1 : ~IsBool(constants[j])})

Opcode(constants, ins) ==
    IF ins.op = "PUSH_CONST" /\ IsBool(constants[ins.a])
    THEN [op |-> IF constants[ins.a].v = 1 THEN "PUSH_TRUE" ELSE "PUSH_FALSE",
          fn |-> "none", kind |-> "void"]
    ELSE [op |-> ins.op, fn |-> ins.fn, kind |-> IF ins.op = "EXN_IS_PRIM" THEN "void" ELSE ins.kind]

\* Jumps get 0 until they are patched; PUSH_FN is a CLOSURE of kind "void".
Operands(constants, ins) ==
    CASE ins.op \in Jumps -> <<0, 0>>
      [] ins.op \in SlotOps -> <<U8(ins.a - 1)>>
      [] ins.op = "PUSH_CONST" ->
           IF IsBool(constants[ins.a]) THEN <<>> ELSE Halves(PoolIndex(constants, ins.a))
      [] ins.op = "CALL" -> Halves(ins.a - 1) \o <<U8(ins.b)>>
      [] ins.op = "CALL_CLOSURE" -> <<U8(ins.b)>>
      [] ins.op = "CLOSURE" /\ ins.kind = "void" -> Halves(ins.a - 1)
      [] ins.op = "CLOSURE" /\ ins.kind # "void" ->
           Halves(ins.a - 1) \o <<U8(Len(ins.caps))>>
               \o FlattenSeq([i \in DOMAIN ins.caps |->
                      <<IF ins.caps[i].isLocal THEN 1 ELSE 0, U8(ins.caps[i].idx - 1)>>])
      [] ins.op = "STRUCT_NEW" -> Halves(ins.a - 1)
      [] ins.op \in {"SEQ_NEW", "GET_FIELD_NAMED"} -> Halves(ins.a)
      [] ins.op = "EXN_IS_PRIM" -> <<ins.kind>>
      [] OTHER -> <<>>

\* The bytes of each instruction, before a jump is patched.
Emitted(chunk) ==
    [i \in DOMAIN chunk.code |-> <<Opcode(chunk.constants, chunk.code[i])>>
                                     \o Operands(chunk.constants, chunk.code[i])]

\* The address of each instruction, and of the end: behind the bytes before it.
Addresses(pieces) ==
    LET upTo[n \in 0 .. Len(pieces)] ==
            IF n = 0 THEN <<1>>
            ELSE LET at == upTo[n - 1] IN Append(at, at[n] + Len(pieces[n]))
    IN upTo[Len(pieces)]

\* (faulty variant: measured from the operand)
FromOperand(at, i, target) == at[target] - (at[i] + 2)

\* The distance of a jump, from the instruction that follows it.
Displacement(at, i, target) == at[target] - (at[i] + 3)

\* chunk_patch_u16 of every jump, behind its opcode.
Patched(code, pieces, at) ==
    [i \in DOMAIN code |->
        IF code[i].op \in Jumps
        THEN <<pieces[i][1]>> \o Halves(U16(Displacement(at, i, code[i].a)))
        ELSE pieces[i]]

Encode(chunk) ==
    LET at == Addresses(Emitted(chunk))
    IN [bytes |-> FlattenSeq(Patched(chunk.code, Emitted(chunk), at)), at |-> at]

-----------------------------------------------------------------------------
(* Reading *)

\* What the machine makes of the bytes at ip: the opcode, its operands, and the
\* addresses it may go on at, that of the next instruction first.
Fetch(bytes, ip) ==
    LET code == bytes[ip]
        U16At(p) == Joined(bytes[p], bytes[p + 1])
        Read(width, operands) ==
            [opcode |-> code, operands |-> operands, next |-> <<ip + 1 + width>>]
    IN CASE code.op \in Jumps ->
              [opcode |-> code, operands |-> <<>>,
               next |-> <<ip + 3, ip + 3 + Signed(U16At(ip + 1))>>]
         [] code.op \in SlotOps \cup {"CALL_CLOSURE", "EXN_IS_PRIM"} -> Read(1, <<bytes[ip + 1]>>)
         [] code.op \in {"PUSH_CONST", "STRUCT_NEW", "SEQ_NEW", "GET_FIELD_NAMED"} ->
              Read(2, <<U16At(ip + 1)>>)
         [] code.op = "CALL" -> Read(3, <<U16At(ip + 1), bytes[ip + 3]>>)
         [] code.op = "CLOSURE" /\ code.kind = "void" -> Read(2, <<U16At(ip + 1)>>)
         [] code.op = "CLOSURE" /\ code.kind # "void" ->
              LET nup == bytes[ip + 3]
              IN Read(3 + 2 * nup, <<U16At(ip + 1)>> \o SubSeq(bytes, ip + 4, ip + 3 + 2 * nup))
         [] OTHER -> Read(0, <<>>)

-----------------------------------------------------------------------------
(* What has to be read *)

\* The numbers an instruction is about, whatever their width.
OperandValues(constants, ins) ==
    CASE ins.op \in SlotOps \cup {"STRUCT_NEW"} -> <<ins.a - 1>>
      [] ins.op = "PUSH_CONST" ->
           IF IsBool(constants[ins.a]) THEN <<>> ELSE <<PoolIndex(constants, ins.a)>>
      [] ins.op = "CALL" -> <<ins.a - 1, ins.b>>
      [] ins.op = "CALL_CLOSURE" -> <<ins.b>>
      [] ins.op = "CLOSURE" ->
           <<ins.a - 1>> \o FlattenSeq([i \in DOMAIN ins.caps |->
                <<IF ins.caps[i].isLocal THEN 1 ELSE 0, ins.caps[i].idx - 1>>])
      [] ins.op \in {"SEQ_NEW", "GET_FIELD_NAMED"} -> <<ins.a>>
      [] ins.op = "EXN_IS_PRIM" -> <<ins.kind>>
      [] OTHER -> <<>>

\* What compile.c emits: a jump stays in the chunk, an operand that is written
\* from 0 is counted from 1 here, and only a CLOSURE has captures.
Emission ==
    [op : STRING, fn : STRING, kind : STRING, a : Nat, b : Nat,
     caps : Seq([isLocal : BOOLEAN, idx : Nat \ {0}])]

Compilable(chunk) ==
    /\ chunk.code \in Seq(Emission)
    /\ \A i \in DOMAIN chunk.code :
          LET ins == chunk.code[i]
          IN /\ ins.op \in Jumps => ins.a \in 1 .. Len(chunk.code) + 1
             /\ ins.op \in SlotOps \cup {"CALL", "CLOSURE", "STRUCT_NEW"} => ins.a > 0
             /\ ins.caps # <<>> => ins.op = "CLOSURE" /\ ins.kind # "void"

\* Instruction i is read at its address as it was compiled, and goes on at the
\* addresses of the instructions that follow it.
ReadAsCompiled(chunk, e, i) ==
    LET ins == chunk.code[i]
    IN Fetch(e.bytes, e.at[i]) =
          [opcode |-> Opcode(chunk.constants, ins),
           operands |-> OperandValues(chunk.constants, ins),
           next |-> IF ins.op \in Jumps THEN <<e.at[i + 1], e.at[ins.a]>> ELSE <<e.at[i + 1]>>]

ReadsBack(chunk) ==
    LET e == Encode(chunk) IN \A i \in DOMAIN chunk.code : ReadAsCompiled(chunk, e, i)

Limits(ins) ==
    CASE ins.op \in SlotOps \cup {"CALL_CLOSURE"} -> <<Byte>>
      [] ins.op = "CALL" -> <<Word, Byte>>
      [] ins.op = "CLOSURE" -> <<Word>> \o [k \in 1 .. 2 * Len(ins.caps) |-> Byte]
      [] ins.op \in {"PUSH_CONST", "STRUCT_NEW", "SEQ_NEW", "GET_FIELD_NAMED"} -> <<Word>>
      [] OTHER -> <<>>

\* Every distance fits in an int16_t, every other number in its operand.
FitsIn(chunk, at, i) ==
    LET ins == chunk.code[i]
        values == OperandValues(chunk.constants, ins)
    IN /\ ins.op \in Jumps => Displacement(at, i, ins.a) \in -(Word \div 2) .. Word \div 2 - 1
       /\ \A k \in DOMAIN Limits(ins) \cap DOMAIN values : values[k] < Limits(ins)[k]
       /\ Len(ins.caps) < Byte

Fits(chunk) ==
    LET at == Addresses(Emitted(chunk)) IN \A i \in DOMAIN chunk.code : FitsIn(chunk, at, i)

=============================================================================
