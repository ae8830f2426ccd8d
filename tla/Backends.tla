------------------------------ MODULE Backends ------------------------------
(***************************************************************************)
(* The two ways to run a program: the bytecode machine (BytecodeVM) runs    *)
(* what the compiler (Compile) makes of it, the interpreter (TreeWalk)      *)
(* walks its tree.  As in main.c, a program is compiled as a whole and a    *)
(* function without parameters is called by name; here it is the first.     *)
(***************************************************************************)
EXTENDS VerifiedCode, Encoding

CONSTANTS
    Tests,   \* what compiler and interpreter make of some programs, see Test
    Parity,  \* the names of those the back ends must agree on
    SlotLimit, MaxUpvalues, MaxBranches, MaxClauses  \* the constants of Compile

C == INSTANCE Compile
T == INSTANCE TreeWalk

ProgramOf(src, c) ==
    [chunks |-> IF c.error = "" THEN c.chunks ELSE <<>>,
     layouts |-> [i \in DOMAIN src.structs |-> src.structs[i].fields],
     entry |-> 1, args |-> <<>>]

CompileSource(src) == ProgramOf(src, C!CompileProgram(src))

-----------------------------------------------------------------------------
RECURSIVE Reach(_, _, _, _)
Reach(p, chunk, new, seen) ==
    LET next == UNION {After(p, chunk.code, x) : x \in {y \in new : Sound(p, chunk, y)}}
    IN IF new = {} THEN seen ELSE Reach(p, chunk, next \ (seen \cup new), seen \cup new)

PointsOf(p) ==
    [c \in DOMAIN p.chunks |-> Reach(p, p.chunks[c], {FirstPoint}, {})]

\* What compiler and interpreter make of a source, which has a name.
TestOf(s, p) ==
    [prog |-> p, points |-> PointsOf(p),
     test |-> [name |-> s.name,
               sound |-> p.chunks # <<>> /\ Verified(p, PointsOf(p)),
               encoding |-> \A c \in DOMAIN p.chunks :
                               Compilable(p.chunks[c]) /\ ReadsBack(p.chunks[c]) = Fits(p.chunks[c]),
               expected |-> T!Evaluate(s.src, s.src.fns[1].name, <<>>)]]

Test(s) == TestOf(s, CompileSource(s.src))

-----------------------------------------------------------------------------
VARIABLE test  \* what is expected of the program that runs

BInit ==
    /\ \E t \in Tests : prog = t.prog /\ points = t.points /\ test = t.test
    /\ Start

Run == Execute /\ UNCHANGED <<points, test>>

BNext == Next /\ UNCHANGED <<points, test>>

BSpec == BInit /\ [][BNext]_<<vars, points, test>>

\* vm_run_program does not give up its thread before it is done.
BFairSpec == BSpec /\ WF_<<vars, points, test>>(Run)

-----------------------------------------------------------------------------
(* Properties *)

\* Every program compiles, and along every path through its code, executed or
\* not, the operand stack fits: no instruction lacks operands, all the paths to
\* an instruction find the same operands and open regions, a RETURN is executed
\* with the result alone and outside every region, a region is left as it was
\* entered (the lowering of try, match, for and if in compile.c).
CodeVerifies == test.sound

\* What the machine reads at every address of a chunk, jump targets included, is
\* what was compiled there, if and only if the distances fit in 16 bits and the
\* operands in theirs: the casts and patches of compile.c and the reads of vm.c
\* agree, and nothing else can be lost (Byte is small here, so that it is).
BytesAreTheCode == test.encoding

\* Equality of a value of the machine and a value of the interpreter.
RECURSIVE Same(_, _)
Same(v, w) ==
    /\ v.k = w.k
    /\ v.k \in Scalars => v.v = w.v
    /\ v.k \in Sequential => /\ Len(objs[v.v].items) = Len(w.items)
                             /\ \A i \in DOMAIN w.items : Same(objs[v.v].items[i], w.items[i])
    /\ v.k = "struct" => \A i \in DOMAIN w.items.values :
                             Same(objs[v.v].items[i], w.items.values[i])

\* The machine and the interpreter end with the same result or the same error.
SameOutcome ==
    status # "run" =>
        \/ status = "ok" /\ test.expected.error = "" /\ Same(result, test.expected.value)
        \/ status = "failed" /\ error = test.expected.error

\* Both back ends give a program the same result, or stop it with the same
\* error ("bytecode parity with interpreter", tests/vm_smoke.mons), but for the
\* programs that Parity leaves out.
Agree == test.name \in Parity => SameOutcome

\* A return from a try region is thrown as a signal; it is only given to a
\* handler of the function that returns (OP_THROW in vm.c).
SignalStaysHome ==
    Fetched("THROW") /\ Sp > 0 /\ IsReturnSignal(Peek(1)) /\ tries # <<>>
        => tries[Len(tries)].act = Cur.act

\* A program whose loops are bounded by the length of an array ends.
Terminates == <>(status # "run")

=============================================================================
