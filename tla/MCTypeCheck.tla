---------------------------- MODULE MCTypeCheck ----------------------------
(***************************************************************************)
(* The type checker on the programs of TypePrograms.                         *)
(***************************************************************************)
EXTENDS TypeCheck

TP == INSTANCE TypePrograms

SimpleTypes ==
    {IntT, FloatT, BoolT, OptionT(IntT), OptionT(BoolT), TP!PairT, TP!P, TP!Q, FnT(<<IntT>>, IntT)}
SomeTypes == SimpleTypes \cup {ArrayT(t) : t \in SimpleTypes \cup {ArrayT(IntT)}}

R == INSTANCE Typing WITH Universe <- SomeTypes
Walk == INSTANCE TreeWalk

AllPrograms ==
    TP!Inference \cup TP!Declarations \cup TP!Traits \cup TP!ImplNames
    \cup TP!StatementNames \cup TP!Matches
SilentPrograms == {<<"silent">>}
Declared(p) == TP!Declared(p)

-----------------------------------------------------------------------------
(* Properties *)

\* A type that is looked at shows no bound variable, however the variables were
\* bound to each other: prune and unify (types.c) rely on it.
TypeOK ==
    /\ pass \in ToSet(Passes)
    /\ Len(chk.bind) = Len(chk.bounds)
    /\ \A i \in DOMAIN chk.bind :
          \A p \in Parts(chk, Var(i)) : IsVar(p) => chk.bind[p.id] = Free

\* What type_check_program accepts has a type by the rules of Typing, unless two
\* types have differed silently (unify_structural, check_pat_shape).
AcceptedIsTypable == Accepted /\ ~chk.mute => R!WellTyped(Decls(chk))

\* What it rejects has none: the order in which infer_expr binds the variables
\* rejects nothing that could be typed, except where a type must be known at once
\* ("vague": a field or an element of it is asked for).
TypableIsAccepted ==
    pass = "done" /\ Failed(chk) /\ chk.error # "vague" => ~R!WellTyped(Decls(chk))

\* The evaluator (eval.c) meets none of its own checks of the types of values when
\* it runs main of a program that type_check_program has accepted.
Runs == Walk!Evaluate(Erased(Decls(chk)), "main", <<>>)
TypeErrors ==
    {"call target is not a function", "unknown call target", "wrong argument count",
     "type mismatch in arithmetic", "invalid comparison", "unary '-' type error",
     "assignment to unknown binding", "unknown identifier at runtime", "index must be int",
     "index target must be array or tuple", "unknown struct type", "call to unknown function",
     "internal: missing struct field at eval", "struct update base has wrong type",
     "field access on non-struct value", "unknown struct field",
     "for-in expects an array or tuple value", "unknown identifier in closure environment",
     "function not found"}
AcceptedRuns == Accepted /\ ~chk.mute => Runs.error \notin TypeErrors

\* The bodies of all functions have been found well typed when a program is
\* accepted: main (main.c) goes on to compile or run all of them.
BodiesChecked ==
    Accepted => checked = {d.name : d \in ToSet(Functions(Decls(chk)))}

=============================================================================
