------------------------------ MODULE MCUnify ------------------------------
(* Unify on few types, next to what it implements. *)
EXTENDS Unify

Shape(k, n, nm) == [kind |-> k, arity |-> n, name |-> nm]

MCStatics == <<Shape("int", 0, "")>>

\* Variables, functions of one parameter and of none, and structs of two names,
\* one of them with a field.
MCShapes ==
    {Shape("int", 0, ""), Shape("var", 0, ""), Shape("fn", 1, ""), Shape("fn", 2, ""),
     Shape("struct", 0, "A"), Shape("struct", 1, "B")}

Vars == {n \in Made : IsVar(n)}

\* The order in which types are made does not matter to unify: equations are
\* asked for when all types are there, and variables come first, in the order in
\* which other types mention them.  There are two of them, or three, and one
\* function at least; no equation is between a type and itself.
MentionedBefore(v, n, i) ==
    \/ \E m \in 1 .. n - 1 : \E j \in DOMAIN Kids(m) : Kids(m)[j] = v
    \/ \E j \in 1 .. i - 1 : Kids(n)[j] = v
Interesting ==
    /\ \A n \in Made : \A i \in DOMAIN Kids(n) : \A v \in Vars :
          IsVar(Kids(n)[i]) /\ v < Kids(n)[i] => MentionedBefore(v, n, i)
    /\ \A n \in Vars : \A m \in 1 .. n : m <= Len(Statics) \/ IsVar(m)
    /\ Len(types) > Len(Statics) + 1 => Cardinality(Vars) >= 2
    /\ Len(types) = MaxTypes => types[MaxTypes].shape.arity > 0
    /\ calls # <<>> => Len(types) = MaxTypes
    /\ \A i \in DOMAIN calls : calls[i][1] # calls[i][2]

=============================================================================
