--------------------------- MODULE TypeEquations ---------------------------
(***************************************************************************)
(* What unification promises, with no bindings, chains or worklists: types   *)
(* are made, equations between them are asked for one after the other, and    *)
(* each is answered by whether all the equations asked for so far have a       *)
(* common solution.  A solution says which of the types are equal, and that    *)
(* no type is a part of itself.                                              *)
(***************************************************************************)
EXTENDS Naturals, Sequences

CONSTANTS Statics, Shapes, MaxTypes

VARIABLES types, asked, answer

Made == 1 .. Len(types)

\* Two struct types are one type if they have one name.
SameHead(m, n) ==
    /\ types[m].shape.kind = types[n].shape.kind
    /\ IF types[m].shape.kind = "struct"
       THEN types[m].shape.name = types[n].shape.name
       ELSE types[m].shape.arity = types[n].shape.arity

IsVar(n) == types[n].shape.kind = "var"

Kids(n) == {types[n].kids[i] : i \in DOMAIN types[n].kids}

Equations == {asked[i] : i \in DOMAIN asked}

\* The ways to divide k types into classes of equal ones: eq gives for each
\* type the first one it is equal to.
Divisions ==
    [k \in 0 .. MaxTypes |->
        {eq \in [1 .. k -> 1 .. k] : \A n \in 1 .. k : eq[n] <= n /\ eq[eq[n]] = eq[n]}]

\* Equal types, variables aside, have equal heads and equal children.
Congruent(eq) ==
    \A m, n \in Made :
        eq[m] = eq[n] /\ ~IsVar(m) /\ ~IsVar(n) =>
            /\ SameHead(m, n)
            /\ \A i \in DOMAIN types[m].kids : eq[types[m].kids[i]] = eq[types[n].kids[i]]

\* No type is a part of itself: among any types there is one no part of which,
\* nor of a type equal to it, is equal to one of them.
Founded(eq) ==
    \A S \in SUBSET Made : S # {} =>
        \E n \in S : \A m \in Made :
            eq[m] = eq[n] => \A k \in Kids(m) : \A s \in S : eq[k] # eq[s]

Solves(eq) ==
    /\ \A e \in Equations : eq[e[1]] = eq[e[2]]
    /\ Congruent(eq)
    /\ Founded(eq)

Solutions == {eq \in Divisions[Len(types)] : Solves(eq)}

Solvable == \E eq \in Divisions[Len(types)] : Solves(eq)

-----------------------------------------------------------------------------
Init ==
    /\ types = [i \in 1 .. Len(Statics) |-> [shape |-> Statics[i], kids |-> <<>>]]
    /\ asked = <<>>
    /\ answer = "yes"

Make(s, kids) ==
    /\ answer = "yes"
    /\ types' = Append(types, [shape |-> s, kids |-> kids])
    /\ UNCHANGED <<asked, answer>>

Ask(x, y) ==
    /\ answer = "yes"
    /\ asked' = Append(asked, <<x, y>>)
    /\ answer' = "open"
    /\ UNCHANGED types

Answer ==
    /\ answer = "open"
    /\ answer' \in {"yes", "no"}
    /\ answer' = "yes" <=> Solvable
    /\ UNCHANGED <<types, asked>>

Next ==
    \/ \E s \in Shapes : \E kids \in [1 .. s.arity -> Made] : Make(s, kids)
    \/ \E x, y \in Made : Ask(x, y)
    \/ Answer

Spec == Init /\ [][Next]_<<types, asked, answer>>

=============================================================================
