------------------------------- MODULE Unify -------------------------------
(***************************************************************************)
(* Unification in the type checker (src/src/types.c, prune to unify).        *)
(*                                                                         *)
(* A type is an object the checker allocates and never frees before the      *)
(* check is over: here a position of the sequence types, in the order of     *)
(* chk.allocs.  The basic types are static and come first.  A type          *)
(* variable has a field bound, 0 while it stands for itself; everything      *)
(* else about a type is fixed when it is made.                              *)
(*                                                                         *)
(* The recursion of unify is a queue of calls still to make, todo: all of    *)
(* its recursive calls are in conjunctions that stop at the first false.     *)
(* The recursion of occurs_in is likewise the queue occ.  The recursion of   *)
(* prune is a walk to the end of a chain, which on its way back makes every   *)
(* variable it passed point to the end.                                     *)
(*                                                                         *)
(* A shape is a kind with its number of children and, for a struct, its      *)
(* name.  The children are the parameters and then the result of a function,  *)
(* the fields of a struct, the elements of a tuple, the argument(s) of        *)
(* Option, Result and arrays.                                               *)
(***************************************************************************)
EXTENDS Integers, Sequences, FiniteSets

CONSTANTS
    Statics,   \* the shapes of the static types, in some order
    Shapes,    \* the shapes the checked program can make
    MaxTypes,  \* bound: how many types are made
    MaxCalls   \* bound: how many equations are asked for

Basic == {"int", "float", "double", "bool", "string", "void"}
Composite == {"fn", "option", "array", "result", "tuple", "struct"}
Kind == Basic \cup Composite \cup {"var", "generic"}

ASSUME BoundsAreNat == MaxTypes \in Nat /\ MaxCalls \in Nat
ASSUME ShapesAreShapes ==
    \A s \in Shapes : /\ s.kind \in Kind
                      /\ s.arity \in Nat
                      /\ s.kind \notin Composite => s.arity = 0
ASSUME StaticsAreBasic ==
    /\ Statics \in Seq(Shapes)
    /\ Len(Statics) <= MaxTypes
    /\ \A i \in DOMAIN Statics : Statics[i].kind \in Basic


\* A struct's fields belong to its name: one declaration, or one generic
\* struct with the same arguments.
ASSUME StructsHaveOneShape ==
    \A s, r \in Shapes : s.kind = "struct" /\ r.kind = "struct" /\ s.name = r.name => s = r

Node == 1 .. MaxTypes

VARIABLES
    types,    \* the types made so far: [shape, kids]
    bound,    \* as.var.bound of each type, 0 for none
    phase,    \* what the checker is doing
    todo,     \* calls of unify still to make, the next one first
    a, b,     \* the two arguments of the call of unify in progress
    at, path, \* prune: the type reached, and the variables passed on the way
    occ,      \* occurs_in: the types still to look at
    error,    \* chk.error
    calls,    \* the equations asked for from outside so far
    \* history: what the proofs and properties speak about
    root,     \* the end of the chain of each type
    claims,   \* every pair unify was called with, from outside or by itself
    seen      \* the types occurs_in has been through

vars == <<types, bound, phase, todo, a, b, at, path, occ, error, calls, root, claims, seen>>

Made == 1 .. Len(types)
KindOf(n) == types[n].shape.kind
Kids(n) == types[n].kids

\* What a type refers to directly.
Succ(n) == IF bound[n] # 0 THEN {bound[n]} ELSE {Kids(n)[i] : i \in DOMAIN Kids(n)}

Pending == {todo[i] : i \in DOMAIN todo}
ToVisit == {occ[i] : i \in DOMAIN occ}

Phases == {"idle", "pruneA", "pruneB", "decide", "occurs", "bind", "failed"}

TypeOK ==
    /\ types \in Seq([shape : Shapes, kids : Seq(Node)])
    /\ Len(types) <= MaxTypes
    /\ \A n \in Made : Len(Kids(n)) = types[n].shape.arity /\ Kids(n) \in Seq(Made)
    /\ bound \in [Node -> 0 .. Len(types)]
    /\ root \in [Node -> Node]
    /\ phase \in Phases
    /\ todo \in Seq(Made \X Made)
    /\ occ \in Seq(Made)
    /\ path \subseteq Made /\ seen \subseteq Made
    /\ {a, b, at} \subseteq 0 .. Len(types)
    /\ phase \notin {"idle", "failed"} => a # 0 /\ b # 0
    /\ phase \in {"pruneA", "pruneB", "occurs"} => at # 0
    /\ claims \subseteq Made \X Made
    /\ calls \in Seq(Made \X Made)
    /\ error \in {"none", "infinite type", "type mismatch"}

-----------------------------------------------------------------------------
Init ==
    /\ types = [i \in 1 .. Len(Statics) |-> [shape |-> Statics[i], kids |-> <<>>]]
    /\ bound = [n \in Node |-> 0]
    /\ root = [n \in Node |-> n]
    /\ phase = "idle"
    /\ todo = <<>> /\ occ = <<>> /\ calls = <<>>
    /\ a = 0 /\ b = 0 /\ at = 0
    /\ path = {} /\ seen = {} /\ claims = {}
    /\ error = "none"

\* The fields of a struct come from annotations, without variables in them,
\* and two structs of one name (a declaration, or one generic struct with the
\* same arguments) have the same fields.
FieldsOf(s, kids) ==
    s.kind = "struct" =>
        /\ \A i \in DOMAIN kids : KindOf(kids[i]) \in Basic \cup {"struct"}
        /\ \A n \in Made : types[n].shape = s => Kids(n) = kids

\* alloc_type and its callers new_var, new_fn_type, new_option, ...: a type
\* is made from types that exist.
Alloc(s, kids) ==
    /\ phase = "idle"
    /\ Len(types) < MaxTypes
    /\ s.kind \notin Basic
    /\ Len(kids) = s.arity
    /\ FieldsOf(s, kids)
    /\ types' = Append(types, [shape |-> s, kids |-> kids])
    /\ UNCHANGED <<bound, phase, todo, a, b, at, path, occ, error, calls, root, claims, seen>>

\* The next call in a queue of calls, or the return of the outermost one.
Continue(queue) ==
    IF queue = <<>>
    THEN /\ phase' = "idle"
         /\ todo' = <<>>
         /\ a' = 0 /\ b' = 0 /\ at' = 0
         /\ path' = {}
    ELSE /\ phase' = "pruneA"
         /\ todo' = Tail(queue)
         /\ a' = Head(queue)[1] /\ b' = Head(queue)[2] /\ at' = Head(queue)[1]
         /\ path' = {}

\* The checker asks for an equation.
Equate(x, y) ==
    /\ phase = "idle"
    /\ Len(calls) < MaxCalls
    /\ Continue(<< <<x, y>> >>)
    /\ calls' = Append(calls, <<x, y>>)
    /\ claims' = claims \cup {<<x, y>>}
    /\ UNCHANGED <<types, bound, occ, error, root, seen>>

-----------------------------------------------------------------------------
(* prune *)

AtEnd == bound[at] = 0

\* (faulty variant: the chain is cut at the variable before its end)
CompressShort ==
    [n \in Node |-> IF n \in path THEN (IF bound[n] = at THEN 0 ELSE at) ELSE bound[n]]

Compressed == [n \in Node |-> IF n \in path THEN at ELSE bound[n]]

PruneStep ==
    /\ phase \in {"pruneA", "pruneB", "occurs"}
    /\ ~AtEnd
    /\ path' = path \cup {at}
    /\ at' = bound[at]
    /\ UNCHANGED <<types, bound, phase, todo, a, b, occ, error, calls, root, claims, seen>>

\* (faulty variant: the second argument is not pruned from where it starts)
PrunedALost ==
    /\ phase = "pruneA"
    /\ AtEnd
    /\ bound' = Compressed
    /\ a' = at /\ at' = 0
    /\ path' = {}
    /\ phase' = "pruneB"
    /\ UNCHANGED <<types, todo, b, occ, error, calls, root, claims, seen>>

PrunedA ==
    /\ phase = "pruneA"
    /\ AtEnd
    /\ bound' = Compressed
    /\ a' = at /\ at' = b
    /\ path' = {}
    /\ phase' = "pruneB"
    /\ UNCHANGED <<types, todo, b, occ, error, calls, root, claims, seen>>

PrunedB ==
    /\ phase = "pruneB"
    /\ AtEnd
    /\ bound' = Compressed
    /\ b' = at /\ at' = 0
    /\ path' = {}
    /\ phase' = "decide"
    /\ UNCHANGED <<types, todo, a, occ, error, calls, root, claims, seen>>

-----------------------------------------------------------------------------
(* unify and unify_structural on two pruned types *)

Fail(message) ==
    /\ phase' = "failed"
    /\ error' = message
    /\ UNCHANGED <<types, todo, a, b, at, path, occ, calls, root, claims, seen>>

IsVar(n) == KindOf(n) = "var"

\* (faulty variant: struct names are not compared)
SameLeafAnyName(m, n) == KindOf(m) = KindOf(n) /\ KindOf(m) \in Basic \cup {"struct"}

\* Heads that agree without a look at the children: a basic type, a struct
\* of the same name.
SameLeaf(m, n) ==
    /\ KindOf(m) = KindOf(n)
    /\ \/ KindOf(m) \in Basic
       \/ KindOf(m) = "struct" /\ types[m].shape.name = types[n].shape.name

SameArity(m, n) ==
    /\ KindOf(m) = KindOf(n)
    /\ KindOf(m) \in Composite \ {"struct"}
    /\ Len(Kids(m)) = Len(Kids(n))

\* (faulty variant: the last pair of children is left out)
PairsShort(m, n) == [i \in 1 .. Len(Kids(m)) - 1 |-> <<Kids(m)[i], Kids(n)[i]>>]

\* (faulty variant: the other side's index stays at the first child)
PairsStuck(m, n) == [i \in 1 .. Len(Kids(m)) |-> <<Kids(m)[i], Kids(n)[1]>>]

Pairs(m, n) == [i \in 1 .. Len(Kids(m)) |-> <<Kids(m)[i], Kids(n)[i]>>]

SameVar ==
    /\ phase = "decide"
    /\ IsVar(a) /\ a = b
    /\ Continue(todo)
    /\ UNCHANGED <<types, bound, occ, error, calls, root, claims, seen>>

StartOccurs ==
    /\ phase = "decide"
    /\ IsVar(a) /\ a # b
    /\ phase' = "occurs"
    /\ at' = b
    /\ seen' = {}
    /\ UNCHANGED <<types, bound, todo, a, b, path, occ, error, calls, root, claims>>

\* (faulty variant: arguments are swapped whenever the second is a variable)
SwapAlways ==
    /\ phase = "decide"
    /\ IsVar(b)
    /\ a' = b /\ b' = a
    /\ UNCHANGED <<types, bound, phase, todo, at, path, occ, error, calls, root, claims, seen>>

\* return unify(c, b, a, loc): pruning again changes nothing.
Swap ==
    /\ phase = "decide"
    /\ ~IsVar(a) /\ IsVar(b)
    /\ a' = b /\ b' = a
    /\ UNCHANGED <<types, bound, phase, todo, at, path, occ, error, calls, root, claims, seen>>

Decompose ==
    /\ phase = "decide"
    /\ ~IsVar(a) /\ ~IsVar(b)
    /\ SameArity(a, b)
    /\ Continue(Pairs(a, b) \o todo)
    /\ claims' = claims \cup {Pairs(a, b)[i] : i \in DOMAIN Pairs(a, b)}
    /\ UNCHANGED <<types, bound, occ, error, calls, root, seen>>

Leaf ==
    /\ phase = "decide"
    /\ ~IsVar(a) /\ ~IsVar(b)
    /\ SameLeaf(a, b)
    /\ Continue(todo)
    /\ UNCHANGED <<types, bound, occ, error, calls, root, claims, seen>>

\* Types of different kinds are reported; different arities, different struct
\* names and generic schemas fail without a message.
Mismatch ==
    /\ phase = "decide"
    /\ ~IsVar(a) /\ ~IsVar(b)
    /\ ~SameArity(a, b) /\ ~SameLeaf(a, b)
    /\ Fail(IF KindOf(a) # KindOf(b) THEN "type mismatch" ELSE error)
    /\ UNCHANGED bound

-----------------------------------------------------------------------------
(* occurs_in(a, b), and the binding *)

\* The queue of types to look at: the next one, or none left.
Look(queue) ==
    IF queue = <<>>
    THEN phase' = "bind" /\ at' = 0 /\ occ' = <<>>
    ELSE phase' = phase /\ at' = Head(queue) /\ occ' = Tail(queue)

Occurs ==
    /\ phase = "occurs"
    /\ AtEnd
    /\ at = a
    /\ bound' = Compressed
    /\ Fail("infinite type")

\* (faulty variant: occurs_in compares the variable with the type at the top)
LookedAtTop ==
    /\ phase = "occurs"
    /\ AtEnd
    /\ at # a
    /\ bound' = Compressed
    /\ path' = {}
    /\ seen' = seen \cup path \cup {at}
    /\ Look(occ)
    /\ UNCHANGED <<types, todo, a, b, error, calls, root, claims>>

LookedAt ==
    /\ phase = "occurs"
    /\ AtEnd
    /\ at # a
    /\ bound' = Compressed
    /\ path' = {}
    /\ seen' = seen \cup path \cup {at}
    /\ Look(Kids(at) \o occ)
    /\ UNCHANGED <<types, todo, a, b, error, calls, root, claims>>

Bind ==
    /\ phase = "bind"
    /\ bound' = [bound EXCEPT ![a] = b]
    /\ root' = [n \in Node |-> IF root[n] = a THEN b ELSE root[n]]
    /\ Continue(todo)
    /\ UNCHANGED <<types, occ, error, calls, claims, seen>>

-----------------------------------------------------------------------------
Step ==
    \/ PruneStep \/ PrunedA \/ PrunedB
    \/ SameVar \/ StartOccurs \/ Swap \/ Decompose \/ Leaf \/ Mismatch
    \/ Occurs \/ LookedAt \/ Bind

Next ==
    \/ \E s \in Shapes : \E kids \in [1 .. s.arity -> Made] : Alloc(s, kids)
    \/ \E x, y \in Made : Equate(x, y)
    \/ Step

Spec == Init /\ [][Next]_vars

-----------------------------------------------------------------------------
(* What is left to do.  Neither unify nor occurs_in remembers what it has been  *)
(* through: a type that is met on two ways is taken apart twice, so that it    *)
(* is the ways down through the types that count, not the types.             *)

\* The places of a list: the type each is in the end, and its number.
Places(s) == {<<root[s[i]], i>> : i \in DOMAIN s}
Below == [n \in Made |-> Places(Kids(n))]

\* The ways down from the places of a set, of no more steps than asked for.
Ways(places, below, depth) ==
    LET upTo[k \in 0 .. depth] ==
            IF k = 0 THEN {}
            ELSE {<<p>> : p \in places}
                 \cup UNION {{Append(w, p) : p \in below[w[Len(w)][1]]} : w \in upTo[k - 1]}
    IN upTo[depth]

WaysDown(s) == Cardinality(Ways(Places(s), Below, Len(types)))

\* The first arguments of the calls: unify goes down both sides in step.
Firsts(queue) == [i \in DOMAIN queue |-> queue[i][1]]
Lefts == IF phase = "idle" THEN <<>> ELSE <<a>> \o Firsts(todo)
Looking == IF phase = "occurs" THEN <<at>> \o occ ELSE <<>>

Unbound == {n \in Made : bound[n] = 0}

Stage ==
    CASE phase = "pruneA" -> 6
      [] phase = "pruneB" -> 5
      [] phase = "decide" /\ ~IsVar(a) /\ IsVar(b) -> 4
      [] phase = "decide" /\ (IsVar(a) \/ ~IsVar(b)) -> 3
      [] phase = "occurs" -> 2
      [] phase = "bind" -> 1
      [] phase \in {"idle", "failed"} -> 0

ToDo ==
    <<Cardinality(Unbound), WaysDown(Lefts), Stage, WaysDown(Looking), Cardinality(Made \ path)>>

\* The first number that differs has become less.
Fewer(t, u) == \E i \in 1 .. 5 : t[i] < u[i] /\ \A j \in 1 .. i - 1 : t[j] = u[j]

-----------------------------------------------------------------------------
(* Properties *)

\* No type contains itself, through children and bindings together: every set
\* of types has one that refers to none of the set.  prune, occurs_in and every
\* other recursion over types in the checker relies on it; the occurs check
\* is what keeps it, also while chains are being shortened.
Acyclic ==
    \A S \in SUBSET Made : S # {} => \E n \in S : Succ(n) \cap S = {}

\* Both sides of an equation have become the same: they end at one type, or
\* at two with the same head whose children are equations too.
Settled(x, y) ==
    \/ root[x] = root[y]
    \/ SameLeaf(root[x], root[y])
    \/ /\ SameArity(root[x], root[y])
       /\ \A i \in 1 .. Len(Kids(root[x])) :
            <<Kids(root[x])[i], Kids(root[y])[i]>> \in claims

\* Once unify has returned true, every equation asked for so far holds under
\* the bindings, those of earlier calls included: no later binding and no
\* shortening of a chain takes an equation back.
EquationsHold ==
    /\ \A n \in Made : root[n] = IF bound[n] = 0 THEN n ELSE root[bound[n]]
    /\ phase = "idle" => \A c \in claims : Settled(c[1], c[2])

\* What unify answers, next to the equations asked for so far.
Answers == CASE phase = "idle" -> "yes" [] phase = "failed" -> "no" [] OTHER -> "open"

Abstract == INSTANCE TypeEquations WITH asked <- calls, answer <- Answers

\* unify answers true exactly when all the equations asked for so far have a
\* common solution.
ImplementsEquations == Abstract!Spec

\* unify binds no variable to more than the equations say: what a variable is
\* bound to is equal to it in every solution.
BindingsFollow ==
    phase = "idle" =>
        \A n \in Made : bound[n] # 0 => \A eq \in Abstract!Solutions : eq[n] = eq[bound[n]]

\* Every step of a call leaves less to do: a variable less is free, or there are
\* fewer ways down through the calls that are pending, or the call has come
\* further, or there are fewer ways down for occurs_in, or a chain is shorter.
\* A binding makes types larger, a shortened chain is walked again, arguments
\* change sides; none of it may ever bring back work that was done.
UnifyShortens == [][phase # "idle" => Fewer(ToDo', ToDo)]_vars

=============================================================================
