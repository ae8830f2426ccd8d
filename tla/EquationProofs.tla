--------------------------- MODULE EquationProofs ---------------------------
(***************************************************************************)
(* Unify implements TypeEquations, for any shapes and any number of types    *)
(* and equations.                                                          *)
(*                                                                         *)
(* Yes is right: the largest relation between types that are one under the   *)
(* bindings, or alike with related children, is an equivalence (EqualFacts)   *)
(* that holds the equations and whose classes are a solution, founded         *)
(* because the graph of types is acyclic (Solution).                         *)
(*                                                                         *)
(* No is right: every solution of the equations contains the bindings, the    *)
(* calls of unify made and still to make, and the parts occurs_in has come     *)
(* to (Forced).                                                             *)
(***************************************************************************)
EXTENDS UnifyProofs

\* Two structs of one name have the same fields.
StructsAgree ==
    \A m, n \in Made :
        KindOf(m) = "struct" /\ KindOf(n) = "struct" /\ types[m].shape.name = types[n].shape.name
            => Kids(m) = Kids(n)

\* Every equation asked for is among the calls of unify.
Posed == \A i \in DOMAIN calls : calls[i] \in claims

Graph == TypeOK /\ Chains /\ Acyclic /\ StructsAgree

Alike(m, n) == SameLeaf(m, n) \/ SameArity(m, n)

-----------------------------------------------------------------------------
(* The two modules speak of the same types *)

LEMMA SameWords ==
    /\ Abstract!Made = Made
    /\ \A n : Abstract!IsVar(n) <=> IsVar(n)
    /\ \A n : Abstract!Kids(n) = {Kids(n)[i] : i \in DOMAIN Kids(n)}
BY DEF Abstract!Made, Made, Abstract!IsVar, IsVar, KindOf, Abstract!Kids, Kids

LEMMA AlikeFacts ==
    ASSUME TypeOK, StructsAgree, NEW m \in Made, NEW n \in Made, Alike(m, n)
    PROVE  /\ Alike(n, m)
           /\ ~IsVar(m) /\ ~IsVar(n)
           /\ DOMAIN Kids(m) = DOMAIN Kids(n)
           /\ SameLeaf(m, n) => \A i \in DOMAIN Kids(m) : Kids(m)[i] = Kids(n)[i]
<1>1. /\ DOMAIN Kids(m) = 1 .. Len(Kids(m)) /\ DOMAIN Kids(n) = 1 .. Len(Kids(n))
      /\ Len(Kids(m)) = types[m].shape.arity /\ types[m].shape \in Shapes
      /\ Len(Kids(n)) = types[n].shape.arity /\ types[n].shape \in Shapes
  BY KidsMade DEF TypeOK
<1>2. Alike(n, m) /\ ~IsVar(m) /\ ~IsVar(n)
  BY DEF Alike, SameLeaf, SameArity, IsVar, Basic, Composite
<1>3. CASE SameArity(m, n)
  <2>1. ~SameLeaf(m, n)
    BY <1>3 DEF SameArity, SameLeaf, Basic, Composite
  <2>2. QED
    BY <1>1, <1>2, <1>3, <2>1 DEF SameArity
<1>4. CASE SameLeaf(m, n)
  <2>1. CASE KindOf(m) \in Basic
    <3>1. Len(Kids(m)) = 0 /\ Len(Kids(n)) = 0
      BY <1>1, <1>4, <2>1, ShapesAreShapes DEF SameLeaf, KindOf, Basic, Composite
    <3>2. QED
      BY <1>1, <1>2, <3>1
  <2>2. CASE KindOf(m) = "struct"
    BY <1>2, <1>4, <2>2 DEF SameLeaf, StructsAgree, Basic
  <2>3. QED
    BY <1>4, <2>1, <2>2 DEF SameLeaf
<1>5. QED
  BY <1>3, <1>4 DEF Alike

LEMMA AlikeTransitive ==
    \A m, n, k : Alike(m, n) /\ Alike(n, k) => Alike(m, k)
BY DEF Alike, SameLeaf, SameArity, Basic, Composite

\* What is alike has one head, and what has one head, schemas and variables
\* aside, is alike.
LEMMA AlikeIsHead ==
    ASSUME TypeOK, StructsAgree, NEW m \in Made, NEW n \in Made
    PROVE  /\ Alike(m, n) => Abstract!SameHead(m, n)
           /\ Abstract!SameHead(m, n) /\ ~IsVar(m) /\ KindOf(m) # "generic" => Alike(m, n)
<1>1. /\ Len(Kids(m)) = types[m].shape.arity /\ Len(Kids(n)) = types[n].shape.arity
      /\ types[m].shape \in Shapes /\ types[n].shape \in Shapes
  BY KidsMade DEF TypeOK
<1>2. types[m].shape.kind \in Kind /\ types[n].shape.kind \in Kind
  BY <1>1, ShapesAreShapes
<1>3. ASSUME Alike(m, n)
      PROVE  Abstract!SameHead(m, n)
  <2>1. types[m].shape.arity = types[n].shape.arity
    BY <1>1, <1>3, AlikeFacts, ShapesAreShapes DEF Alike, SameLeaf, SameArity, KindOf, Basic, Composite, StructsAgree
  <2>2. QED
    BY <1>3, <2>1 DEF Abstract!SameHead, Alike, SameLeaf, SameArity, KindOf, Basic, Composite
<1>4. ASSUME Abstract!SameHead(m, n), ~IsVar(m), KindOf(m) # "generic"
      PROVE  Alike(m, n)
  BY <1>1, <1>2, <1>4 DEF Abstract!SameHead, Alike, SameLeaf, SameArity, KindOf, IsVar, Kind, Composite
<1>5. QED
  BY <1>3, <1>4

-----------------------------------------------------------------------------
(* The types that are one under the bindings *)

\* A relation that takes two types together only if they have one end, or
\* their ends are alike and it takes the children of these together.
Matches(B) ==
    \A p \in B :
        \/ root[p[1]] = root[p[2]]
        \/ /\ Alike(root[p[1]], root[p[2]])
           /\ \A i \in DOMAIN Kids(root[p[1]]) :
                <<Kids(root[p[1]])[i], Kids(root[p[2]])[i]>> \in B

\* The largest of them.
Equal == {p \in Made \X Made : \E B \in SUBSET (Made \X Made) : Matches(B) /\ p \in B}

LEMMA EndFacts ==
    ASSUME Graph, NEW n \in Made
    PROVE  /\ root[n] \in Made /\ bound[root[n]] = 0 /\ root[root[n]] = root[n]
           /\ ~IsVar(n) => root[n] = n
           /\ \A i \in DOMAIN Kids(n) : Kids(n)[i] \in Made
<1>1. /\ root[n] \in Made /\ bound[root[n]] = 0
      /\ root[n] = IF bound[n] = 0 THEN n ELSE root[bound[n]]
      /\ bound[n] # 0 => IsVar(n)
  BY DEF Graph, Chains
<1>2. root[root[n]] = root[n]
  BY <1>1 DEF Graph, Chains
<1>3. QED
  BY <1>1, <1>2, KidsMade DEF Graph

LEMMA EqualIsLargest ==
    ASSUME NEW B \in SUBSET (Made \X Made), Matches(B)
    PROVE  B \subseteq Equal
BY DEF Equal

LEMMA EqualMatches ==
    Equal \in SUBSET (Made \X Made) /\ Matches(Equal)
<1>1. ASSUME NEW p \in Equal
      PROVE  \/ root[p[1]] = root[p[2]]
             \/ /\ Alike(root[p[1]], root[p[2]])
                /\ \A i \in DOMAIN Kids(root[p[1]]) :
                     <<Kids(root[p[1]])[i], Kids(root[p[2]])[i]>> \in Equal
  <2>1. PICK B \in SUBSET (Made \X Made) : Matches(B) /\ p \in B
    BY DEF Equal
  <2>2. B \subseteq Equal
    BY <2>1, EqualIsLargest
  <2>3. QED
    BY <2>1, <2>2 DEF Matches
<1>2. QED
  BY <1>1 DEF Equal, Matches

\* Types with one end are equal.
LEMMA OneEnd ==
    ASSUME NEW m \in Made, NEW n \in Made, root[m] = root[n]
    PROVE  <<m, n>> \in Equal
<1>1. {<<m, n>>} \in SUBSET (Made \X Made) /\ Matches({<<m, n>>})
  BY DEF Matches
<1>2. QED
  BY <1>1, EqualIsLargest

LEMMA EqualSymmetric ==
    ASSUME Graph, NEW m \in Made, NEW n \in Made, <<m, n>> \in Equal
    PROVE  <<n, m>> \in Equal
<1> DEFINE B == {p \in Made \X Made : <<p[2], p[1]>> \in Equal}
<1>1. B \in SUBSET (Made \X Made) /\ <<n, m>> \in B
  OBVIOUS
<1>2. ASSUME NEW p \in B
      PROVE  \/ root[p[1]] = root[p[2]]
             \/ /\ Alike(root[p[1]], root[p[2]])
                /\ \A i \in DOMAIN Kids(root[p[1]]) :
                     <<Kids(root[p[1]])[i], Kids(root[p[2]])[i]>> \in B
  <2>1. PICK u \in Made, v \in Made : p = <<u, v>> /\ <<v, u>> \in Equal
    OBVIOUS
  <2>2. \/ root[v] = root[u]
        \/ /\ Alike(root[v], root[u])
           /\ \A i \in DOMAIN Kids(root[v]) : <<Kids(root[v])[i], Kids(root[u])[i]>> \in Equal
    BY <2>1, EqualMatches DEF Matches
  <2>3. CASE Alike(root[v], root[u]) /\
             \A i \in DOMAIN Kids(root[v]) : <<Kids(root[v])[i], Kids(root[u])[i]>> \in Equal
    <3>1. /\ Alike(root[u], root[v]) /\ DOMAIN Kids(root[v]) = DOMAIN Kids(root[u])
          /\ root[u] \in Made /\ root[v] \in Made
      BY <2>3, EndFacts, AlikeFacts DEF Graph
    <3>2. ASSUME NEW i \in DOMAIN Kids(root[u])
          PROVE  <<Kids(root[u])[i], Kids(root[v])[i]>> \in B
      <4>1. Kids(root[u])[i] \in Made /\ Kids(root[v])[i] \in Made
        BY <3>1, <3>2, EndFacts
      <4>2. QED
        BY <2>3, <3>1, <4>1
    <3>3. QED
      BY <2>1, <3>1, <3>2
  <2>4. QED
    BY <2>1, <2>2, <2>3
<1>3. QED
  BY <1>1, <1>2, EqualIsLargest DEF Matches

LEMMA EqualTransitive ==
    ASSUME Graph, NEW m \in Made, NEW n \in Made, NEW k \in Made,
           <<m, n>> \in Equal, <<n, k>> \in Equal
    PROVE  <<m, k>> \in Equal
<1> DEFINE B == {p \in Made \X Made : \E w \in Made : <<p[1], w>> \in Equal /\ <<w, p[2]>> \in Equal}
<1>1. B \in SUBSET (Made \X Made) /\ <<m, k>> \in B
  OBVIOUS
<1>2. ASSUME NEW p \in B
      PROVE  \/ root[p[1]] = root[p[2]]
             \/ /\ Alike(root[p[1]], root[p[2]])
                /\ \A i \in DOMAIN Kids(root[p[1]]) :
                     <<Kids(root[p[1]])[i], Kids(root[p[2]])[i]>> \in B
  <2>1. PICK u \in Made, v \in Made, w \in Made :
          p = <<u, v>> /\ <<u, w>> \in Equal /\ <<w, v>> \in Equal
    <3>1. PICK w \in Made : <<p[1], w>> \in Equal /\ <<w, p[2]>> \in Equal
      OBVIOUS
    <3>2. p[1] \in Made /\ p[2] \in Made /\ p = <<p[1], p[2]>>
      OBVIOUS
    <3>3. QED
      BY <3>1, <3>2
  <2> DEFINE Parts(x, y) ==
        /\ Alike(root[x], root[y])
        /\ \A i \in DOMAIN Kids(root[x]) : <<Kids(root[x])[i], Kids(root[y])[i]>> \in Equal
  <2>2. /\ root[u] = root[w] \/ Parts(u, w)
        /\ root[w] = root[v] \/ Parts(w, v)
    BY <2>1, EqualMatches DEF Matches
  <2>3. root[u] \in Made /\ root[v] \in Made /\ root[w] \in Made
    BY EndFacts
  <2>4. SUFFICES ASSUME root[u] # root[v]
                 PROVE  /\ Alike(root[u], root[v])
                        /\ \A i \in DOMAIN Kids(root[u]) :
                             <<Kids(root[u])[i], Kids(root[v])[i]>> \in B
    BY <2>1
  <2>5. Alike(root[u], root[v]) /\ DOMAIN Kids(root[u]) = DOMAIN Kids(root[v])
    <3>1. Alike(root[u], root[v])
      BY <2>2, <2>4, AlikeTransitive
    <3>2. QED
      BY <2>3, <3>1, AlikeFacts DEF Graph
  <2>6. ASSUME NEW i \in DOMAIN Kids(root[u])
        PROVE  <<Kids(root[u])[i], Kids(root[v])[i]>> \in B
    <3>1. Kids(root[u])[i] \in Made /\ Kids(root[v])[i] \in Made
      BY <2>3, <2>5, <2>6, EndFacts
    <3>2. CASE root[u] = root[w]
      <4>1. <<Kids(root[u])[i], Kids(root[v])[i]>> \in Equal
        BY <2>2, <2>4, <2>6, <3>2
      <4>2. <<Kids(root[u])[i], Kids(root[u])[i]>> \in Equal
        BY <3>1, OneEnd
      <4>3. QED
        BY <3>1, <4>1, <4>2
    <3>3. CASE root[w] = root[v]
      <4>1. <<Kids(root[u])[i], Kids(root[v])[i]>> \in Equal
        BY <2>2, <2>4, <2>6, <3>3
      <4>2. <<Kids(root[v])[i], Kids(root[v])[i]>> \in Equal
        BY <3>1, OneEnd
      <4>3. QED
        BY <3>1, <4>1, <4>2
    <3>4. CASE Parts(u, w) /\ Parts(w, v)
      <4>1. DOMAIN Kids(root[u]) = DOMAIN Kids(root[w])
        BY <2>3, <3>4, AlikeFacts DEF Graph
      <4>2. /\ <<Kids(root[u])[i], Kids(root[w])[i]>> \in Equal
            /\ <<Kids(root[w])[i], Kids(root[v])[i]>> \in Equal
            /\ Kids(root[w])[i] \in Made
        BY <2>3, <2>6, <3>4, <4>1, EndFacts
      <4>3. QED
        BY <3>1, <4>2
    <3>5. QED
      BY <2>2, <3>2, <3>3, <3>4
  <2>7. QED
    BY <2>5, <2>6
<1>3. QED
  BY <1>1, <1>2, EqualIsLargest DEF Matches

\* The settled calls of unify are equalities.
LEMMA ClaimsAreEqual ==
    ASSUME Graph, \A c \in claims : Settled(c[1], c[2])
    PROVE  claims \subseteq Equal
<1> DEFINE B == claims \cup Equal
<1>1. B \in SUBSET (Made \X Made)
  BY EqualMatches DEF Graph, TypeOK
<1>2. ASSUME NEW p \in claims
      PROVE  \/ root[p[1]] = root[p[2]]
             \/ /\ Alike(root[p[1]], root[p[2]])
                /\ \A i \in DOMAIN Kids(root[p[1]]) :
                     <<Kids(root[p[1]])[i], Kids(root[p[2]])[i]>> \in B
  <2>1. p[1] \in Made /\ p[2] \in Made
    BY <1>1
  <2>2. root[p[1]] \in Made /\ root[p[2]] \in Made
    BY <2>1, EndFacts
  <2>3. CASE SameLeaf(root[p[1]], root[p[2]])
    <3>1. Alike(root[p[1]], root[p[2]])
      BY <2>3 DEF Alike
    <3>2. /\ DOMAIN Kids(root[p[1]]) = DOMAIN Kids(root[p[2]])
          /\ \A i \in DOMAIN Kids(root[p[1]]) : Kids(root[p[1]])[i] = Kids(root[p[2]])[i]
      BY <2>2, <2>3, <3>1, AlikeFacts DEF Graph
    <3>3. \A i \in DOMAIN Kids(root[p[1]]) : Kids(root[p[1]])[i] \in Made
      BY <2>2, EndFacts
    <3>4. \A i \in DOMAIN Kids(root[p[1]]) :
            <<Kids(root[p[1]])[i], Kids(root[p[2]])[i]>> \in Equal
      BY <3>2, <3>3, OneEnd
    <3>5. QED
      BY <3>1, <3>4
  <2>4. CASE /\ SameArity(root[p[1]], root[p[2]])
             /\ \A i \in 1 .. Len(Kids(root[p[1]])) :
                  <<Kids(root[p[1]])[i], Kids(root[p[2]])[i]>> \in claims
    <3>1. DOMAIN Kids(root[p[1]]) = 1 .. Len(Kids(root[p[1]]))
      BY <2>2, KidsMade DEF Graph
    <3>2. QED
      BY <2>4, <3>1 DEF Alike
  <2>5. QED
    BY <2>3, <2>4 DEF Settled
<1>3. \A p \in Equal :
        \/ root[p[1]] = root[p[2]]
        \/ /\ Alike(root[p[1]], root[p[2]])
           /\ \A i \in DOMAIN Kids(root[p[1]]) :
                <<Kids(root[p[1]])[i], Kids(root[p[2]])[i]>> \in B
  BY EqualMatches DEF Matches
<1>4. Matches(B)
  BY <1>2, <1>3 DEF Matches
<1>5. QED
  BY <1>1, <1>4, EqualIsLargest

-----------------------------------------------------------------------------
(* A yes is right: the classes of equal types are a solution *)


LEMMA LeastElement ==
    ASSUME NEW S \in SUBSET Nat, S # {}
    PROVE  \E m \in S : \A n \in S : m <= n
<1>1. IsWellFoundedOn(Less, Nat)
  BY NatLessThanWellFounded DEF Less, OpToRel
<1>2. PICK m \in S : \A n \in S : ~(<<n, m>> \in Less)
  BY <1>1, WFMin
<1>3. \A n \in S : ~(n < m)
  BY <1>2 DEF Less
<1>4. QED
  BY <1>3

\* Each type with the first one that is equal to it.
FirstEqual ==
    [n \in Made |-> CHOOSE m \in Made : <<m, n>> \in Equal /\ \A k \in Made : <<k, n>> \in Equal => m <= k]

LEMMA FirstEqualFacts ==
    ASSUME Graph
    PROVE  /\ FirstEqual \in Abstract!Divisions[Len(types)]
           /\ \A m, n \in Made : FirstEqual[m] = FirstEqual[n] <=> <<m, n>> \in Equal
<1>1. Len(types) \in 0 .. MaxTypes /\ Made = 1 .. Len(types) /\ Made \subseteq Nat
  <2>1. types \in Seq([shape : Shapes, kids : Seq(Node)]) /\ Len(types) <= MaxTypes
    BY DEF Graph, TypeOK
  <2>2. Len(types) \in Nat
    BY <2>1, LenProperties
  <2>3. QED
    BY <2>1, <2>2, BoundsAreNat DEF Made
<1>2. ASSUME NEW n \in Made
      PROVE  /\ FirstEqual[n] \in Made /\ <<FirstEqual[n], n>> \in Equal
             /\ \A k \in Made : <<k, n>> \in Equal => FirstEqual[n] <= k
  <2> DEFINE S == {m \in Made : <<m, n>> \in Equal}
  <2>1. S \in SUBSET Nat /\ n \in S
    BY <1>1, OneEnd
  <2>2. PICK m \in S : \A k \in S : m <= k
    BY <2>1, LeastElement
  <2>3. m \in Made /\ <<m, n>> \in Equal /\ \A k \in Made : <<k, n>> \in Equal => m <= k
    BY <2>2
  <2>4. FirstEqual[n] = CHOOSE j \in Made : <<j, n>> \in Equal /\ \A k \in Made : <<k, n>> \in Equal => j <= k
    BY DEF FirstEqual
  <2>5. QED
    BY <2>3, <2>4
<1>3. ASSUME NEW m \in Made, NEW n \in Made
      PROVE  FirstEqual[m] = FirstEqual[n] <=> <<m, n>> \in Equal
  <2>1. ASSUME FirstEqual[m] = FirstEqual[n]
        PROVE  <<m, n>> \in Equal
    <3>1. <<m, FirstEqual[m]>> \in Equal
      BY <1>2, EqualSymmetric
    <3>2. QED
      BY <1>2, <2>1, <3>1, EqualTransitive
  <2>2. ASSUME <<m, n>> \in Equal
        PROVE  FirstEqual[m] = FirstEqual[n]
    <3>1. <<n, m>> \in Equal
      BY <2>2, EqualSymmetric
    <3>2. <<FirstEqual[m], n>> \in Equal /\ <<FirstEqual[n], m>> \in Equal
      BY <1>2, <2>2, <3>1, EqualTransitive
    <3>3. FirstEqual[m] <= FirstEqual[n] /\ FirstEqual[n] <= FirstEqual[m]
      BY <1>2, <3>2
    <3>4. FirstEqual[m] \in Nat /\ FirstEqual[n] \in Nat
      BY <1>1, <1>2
    <3>5. QED
      BY <3>3, <3>4
  <2>3. QED
    BY <2>1, <2>2
<1>4. FirstEqual \in Abstract!Divisions[Len(types)]
  <2>1. FirstEqual \in [1 .. Len(types) -> 1 .. Len(types)]
    BY <1>1, <1>2 DEF FirstEqual
  <2>2. ASSUME NEW n \in 1 .. Len(types)
        PROVE  FirstEqual[n] <= n /\ FirstEqual[FirstEqual[n]] = FirstEqual[n]
    BY <1>1, <1>2, <1>3, OneEnd
  <2>3. QED
    BY <1>1, <2>1, <2>2 DEF Abstract!Divisions
<1>5. QED
  BY <1>3, <1>4

LEMMA EqualIsCongruent ==
    ASSUME Graph
    PROVE  Abstract!Congruent(FirstEqual)
<1> SUFFICES ASSUME NEW m \in Made, NEW n \in Made, FirstEqual[m] = FirstEqual[n],
                    ~IsVar(m), ~IsVar(n)
             PROVE  /\ Abstract!SameHead(m, n)
                    /\ \A i \in DOMAIN Kids(m) : FirstEqual[Kids(m)[i]] = FirstEqual[Kids(n)[i]]
  BY SameWords DEF Abstract!Congruent, Kids
<1>1. <<m, n>> \in Equal /\ root[m] = m /\ root[n] = n
  BY FirstEqualFacts, EndFacts
<1>2. CASE m = n
  BY <1>2 DEF Abstract!SameHead
<1>3. CASE m # n
  <2>1. /\ Alike(m, n)
        /\ \A i \in DOMAIN Kids(m) : <<Kids(m)[i], Kids(n)[i]>> \in Equal
    BY <1>1, <1>3, EqualMatches DEF Matches
  <2>2. DOMAIN Kids(m) = DOMAIN Kids(n) /\ Abstract!SameHead(m, n)
    BY <2>1, AlikeFacts, AlikeIsHead DEF Graph
  <2>3. \A i \in DOMAIN Kids(m) : Kids(m)[i] \in Made /\ Kids(n)[i] \in Made
    BY <2>2, EndFacts
  <2>4. QED
    BY <2>1, <2>2, <2>3, FirstEqualFacts
<1>4. QED
  BY <1>2, <1>3

LEMMA EqualIsFounded ==
    ASSUME Graph
    PROVE  Abstract!Founded(FirstEqual)
<1> SUFFICES ASSUME NEW S \in SUBSET Made, S # {},
                    \A n \in S : \E m \in Made :
                        /\ FirstEqual[m] = FirstEqual[n]
                        /\ \E k \in Abstract!Kids(m) : \E s \in S : FirstEqual[k] = FirstEqual[s]
             PROVE  FALSE
  BY SameWords DEF Abstract!Founded
<1> DEFINE T == {x \in Made : \E s \in S : FirstEqual[x] = FirstEqual[s]}
<1>1. T \in SUBSET Made /\ T # {}
  OBVIOUS
<1>2. ASSUME NEW x \in T
      PROVE  Succ(x) \cap T # {}
  <2>1. PICK n \in S : FirstEqual[x] = FirstEqual[n]
    OBVIOUS
  <2>2. PICK m \in Made :
          /\ FirstEqual[m] = FirstEqual[n]
          /\ \E k \in Abstract!Kids(m) : \E s \in S : FirstEqual[k] = FirstEqual[s]
    OBVIOUS
  <2>3. /\ FirstEqual[m] = FirstEqual[x]
        /\ \E i \in DOMAIN Kids(m) : Kids(m)[i] \in T
    <3>1. PICK k \in Abstract!Kids(m) : \E s \in S : FirstEqual[k] = FirstEqual[s]
      BY <2>2
    <3>2. PICK i \in DOMAIN Kids(m) : k = Kids(m)[i]
      BY SameWords
    <3>3. QED
      BY <2>1, <2>2, <3>1, <3>2, EndFacts
  <2>4. PICK i \in DOMAIN Kids(m) : Kids(m)[i] \in T
    BY <2>3
  <2>5. x \in Made /\ <<m, x>> \in Equal /\ Kids(m)[i] \in Made
    BY <2>3, FirstEqualFacts, EndFacts
  <2>6. CASE bound[x] # 0
    <3>1. bound[x] \in Made /\ root[bound[x]] = root[x] /\ bound[x] \in Succ(x)
      BY <2>5, <2>6, SuccMade DEF Graph, Chains, Succ
    <3>2. FirstEqual[bound[x]] = FirstEqual[x]
      BY <2>5, <3>1, OneEnd, FirstEqualFacts
    <3>3. QED
      BY <3>1, <3>2
  <2>7. CASE bound[x] = 0
    <3>1. root[x] = x /\ \A j \in DOMAIN Kids(x) : Kids(x)[j] \in Succ(x) /\ Kids(x)[j] \in Made
      BY <2>5, <2>7, EndFacts DEF Graph, Chains, Succ
    <3>2. ~IsVar(m) /\ root[m] = m
      <4>1. /\ DOMAIN Kids(m) = 1 .. Len(Kids(m)) /\ Len(Kids(m)) = types[m].shape.arity
            /\ types[m].shape \in Shapes
        BY KidsMade DEF Graph, TypeOK
      <4>2. ~IsVar(m)
        BY <4>1, ShapesAreShapes DEF IsVar, KindOf, Composite
      <4>3. QED
        BY <4>2, EndFacts
    <3>3. CASE m = x
      BY <2>4, <3>1, <3>3
    <3>4. CASE m # x
      <4>1. Alike(m, x) /\ <<Kids(m)[i], Kids(x)[i]>> \in Equal
        BY <2>5, <3>1, <3>2, <3>4, EqualMatches DEF Matches
      <4>2. i \in DOMAIN Kids(x)
        BY <2>5, <4>1, AlikeFacts DEF Graph
      <4>3. FirstEqual[Kids(x)[i]] = FirstEqual[Kids(m)[i]]
        BY <2>5, <3>1, <4>1, <4>2, FirstEqualFacts
      <4>4. QED
        BY <2>4, <3>1, <4>2, <4>3
    <3>5. QED
      BY <3>3, <3>4
  <2>8. QED
    BY <2>6, <2>7
<1>3. QED
  BY <1>1, <1>2 DEF Graph, Acyclic

LEMMA Solution ==
    ASSUME Graph, Posed, \A c \in claims : Settled(c[1], c[2])
    PROVE  Abstract!Solvable
<1>1. ASSUME NEW e \in Abstract!Equations
      PROVE  FirstEqual[e[1]] = FirstEqual[e[2]]
  <2>1. e \in claims
    BY DEF Posed, Abstract!Equations
  <2>2. e[1] \in Made /\ e[2] \in Made /\ e = <<e[1], e[2]>>
    <3>1. claims \subseteq Made \X Made
      BY DEF Graph, TypeOK
    <3>2. QED
      BY <2>1, <3>1
  <2>3. QED
    BY <2>1, <2>2, ClaimsAreEqual, FirstEqualFacts
<1>2. Abstract!Solves(FirstEqual)
  BY <1>1, EqualIsCongruent, EqualIsFounded DEF Abstract!Solves
<1>3. QED
  BY <1>2, FirstEqualFacts DEF Abstract!Solvable

-----------------------------------------------------------------------------
(* Parts of a type, whatever is equal by a solution *)

PartsIn(eq, n, S) == \A m \in Made : eq[m] = eq[n] => Abstract!Kids(m) \subseteq S

\* With each type its parts and the types equal to it.
Whole(eq, S) ==
    \A n \in S : PartsIn(eq, n, S) /\ \A m \in Made : eq[m] = eq[n] => m \in S

Parts(eq, n) ==
    {m \in Made : \A S \in SUBSET Made : Whole(eq, S) /\ PartsIn(eq, n, S) => m \in S}

LEMMA PartsAreWhole ==
    ASSUME Graph, NEW eq, NEW n \in Made
    PROVE  Whole(eq, Parts(eq, n)) /\ PartsIn(eq, n, Parts(eq, n))
<1>1. \A m \in Made : Abstract!Kids(m) \subseteq Made
  BY SameWords, EndFacts
<1>2. PartsIn(eq, n, Parts(eq, n))
  BY <1>1 DEF PartsIn, Parts
<1>3. ASSUME NEW m \in Parts(eq, n), NEW k \in Made, eq[k] = eq[m]
      PROVE  k \in Parts(eq, n) /\ Abstract!Kids(k) \subseteq Parts(eq, n)
  BY <1>1, <1>3 DEF Parts, Whole, PartsIn
<1>4. QED
  BY <1>2, <1>3 DEF Whole, PartsIn

LEMMA NoPartOfItself ==
    ASSUME Graph, NEW eq, Abstract!Founded(eq), NEW n \in Made
    PROVE  n \notin Parts(eq, n)
<1> SUFFICES ASSUME n \in Parts(eq, n)
             PROVE  FALSE
  OBVIOUS
<1> DEFINE W == {m \in Made : \A S \in SUBSET Made : Whole(eq, S) /\ m \in S => n \in S}
           R == Made \ W
<1>1. \A m \in Made : Abstract!Kids(m) \subseteq Made
  BY SameWords, EndFacts
<1>2. n \in W /\ W \in SUBSET Made
  OBVIOUS
<1>3. PICK w \in W : \A m \in Made :
        eq[m] = eq[w] => \A k \in Abstract!Kids(m) : \A s \in W : eq[k] # eq[s]
  <2>1. W # {}
    BY <1>2
  <2> HIDE DEF W
  <2>2. QED
    BY <1>2, <2>1, SameWords DEF Abstract!Founded
<1>4. PartsIn(eq, w, R)
  BY <1>1, <1>3 DEF PartsIn
<1>5. Whole(eq, R)
  <2>1. ASSUME NEW x \in R
        PROVE  PartsIn(eq, x, R) /\ \A m \in Made : eq[m] = eq[x] => m \in R
    <3>1. PICK S \in SUBSET Made : Whole(eq, S) /\ x \in S /\ n \notin S
      OBVIOUS
    <3>2. S \subseteq R
      BY <3>1
    <3>3. QED
      BY <3>1, <3>2 DEF Whole, PartsIn
  <2>2. QED
    BY <2>1 DEF Whole
<1>6. eq[n] = eq[w]
  <2> DEFINE S == {m \in Made : eq[m] = eq[w]} \cup R
  <2>1. S \in SUBSET Made /\ w \in S
    BY <1>2
  <2>2. Whole(eq, S)
    <3>1. ASSUME NEW x \in S, eq[x] = eq[w]
          PROVE  PartsIn(eq, x, S) /\ \A m \in Made : eq[m] = eq[x] => m \in S
      BY <1>4, <3>1 DEF PartsIn
    <3>2. ASSUME NEW x \in R
          PROVE  PartsIn(eq, x, S) /\ \A m \in Made : eq[m] = eq[x] => m \in S
      BY <1>5 DEF Whole, PartsIn
    <3>3. QED
      BY <3>1, <3>2 DEF Whole
  <2>3. n \in S
    BY <1>3, <2>1, <2>2
  <2>4. QED
    BY <1>2, <2>3
<1>7. PartsIn(eq, n, R)
  BY <1>4, <1>6 DEF PartsIn
<1>8. n \in R
  BY <1>5, <1>7 DEF Parts
<1>9. QED
  BY <1>2, <1>8

-----------------------------------------------------------------------------
(* A no is right: every solution contains what unify has come to *)

\* What a solution of the equations contains: the bindings, the calls of unify,
\* and the types occurs_in has still to look at as parts of b.
Forced(eq) ==
    /\ \A n \in Made : eq[root[n]] = eq[n]
    /\ \A c \in claims \cup Pending : eq[c[1]] = eq[c[2]]
    /\ phase # "idle" => eq[a] = eq[b]
    /\ Frontier \subseteq {b} \cup Parts(eq, b)

\* The program uses no generic function as a value: its schema would come to
\* unify without having been instantiated, and unify refuses a schema, even
\* next to itself.
NoSchemas == \A s \in Shapes : s.kind # "generic"

\* What occurs_in leaves behind when it has looked at everything.
Rests == phase \notin {"occurs", "failed"} => occ = <<>>

Answered ==
    /\ phase # "failed" => \A eq \in Abstract!Solutions : Forced(eq)
    /\ phase = "failed" => Abstract!Solutions = {}

JInv == IInv /\ StructsAgree /\ Posed /\ Rests /\ Answered

\* The types and the equations decide what is a solution.
LEMMA SameSolutions ==
    ASSUME UNCHANGED <<types, calls>>
    PROVE  /\ Abstract!Solutions' = Abstract!Solutions
           /\ Abstract!Solvable' <=> Abstract!Solvable
           /\ \A eq, n : Parts(eq, n)' = Parts(eq, n)
           /\ StructsAgree => StructsAgree'
<1>1. /\ Made' = Made /\ Abstract!Made' = Abstract!Made
      /\ \A n : Abstract!Kids(n)' = Abstract!Kids(n)
      /\ \A n : Kids(n)' = Kids(n) /\ KindOf(n)' = KindOf(n)
  BY DEF Made, Abstract!Made, Abstract!Kids, Kids, KindOf
<1>2. ASSUME NEW eq
      PROVE  Abstract!Solves(eq)' <=> Abstract!Solves(eq)
  <2>1. Abstract!Congruent(eq)' <=> Abstract!Congruent(eq)
    BY <1>1 DEF Abstract!Congruent, Abstract!IsVar, Abstract!SameHead
  <2>2. Abstract!Founded(eq)' <=> Abstract!Founded(eq)
    BY <1>1 DEF Abstract!Founded
  <2>3. Abstract!Equations' = Abstract!Equations
    BY DEF Abstract!Equations
  <2>4. QED
    BY <2>1, <2>2, <2>3 DEF Abstract!Solves
<1>3. /\ Abstract!Solutions' = Abstract!Solutions
      /\ Abstract!Solvable' <=> Abstract!Solvable
  BY <1>2 DEF Abstract!Solutions, Abstract!Solvable
<1>4. \A eq, n : Parts(eq, n)' = Parts(eq, n)
  BY <1>1 DEF Parts, Whole, PartsIn
<1>5. StructsAgree => StructsAgree'
  BY <1>1 DEF StructsAgree
<1>6. QED
  BY <1>3, <1>4, <1>5

LEMMA SolutionFacts ==
    ASSUME Graph, NEW eq \in Abstract!Solutions
    PROVE  /\ Abstract!Solves(eq)
           /\ eq \in [Made -> Made]
           /\ \A n \in Made : eq[n] <= n
           /\ \A n \in Made : n \notin Parts(eq, n)
           /\ \A m, n \in Made : eq[m] = eq[n] /\ ~IsVar(m) /\ ~IsVar(n) =>
                /\ Abstract!SameHead(m, n)
                /\ \A i \in DOMAIN Kids(m) : eq[Kids(m)[i]] = eq[Kids(n)[i]]
<1>1. Abstract!Solves(eq) /\ eq \in Abstract!Divisions[Len(types)]
  BY DEF Abstract!Solutions
<1>2. Len(types) \in 0 .. MaxTypes
  <2>1. types \in Seq([shape : Shapes, kids : Seq(Node)]) /\ Len(types) <= MaxTypes
    BY DEF Graph, TypeOK
  <2>2. Len(types) \in Nat
    BY <2>1, LenProperties
  <2>3. QED
    BY <2>1, <2>2, BoundsAreNat
<1>3. eq \in [Made -> Made] /\ \A n \in Made : eq[n] <= n
  BY <1>1, <1>2 DEF Abstract!Divisions, Made
<1>4. \A n \in Made : n \notin Parts(eq, n)
  BY <1>1, NoPartOfItself DEF Abstract!Solves
<1>5. \A m, n \in Made : eq[m] = eq[n] /\ ~IsVar(m) /\ ~IsVar(n) =>
        /\ Abstract!SameHead(m, n)
        /\ \A i \in DOMAIN Kids(m) : eq[Kids(m)[i]] = eq[Kids(n)[i]]
  BY <1>1, SameWords DEF Abstract!Solves, Abstract!Congruent, Kids
<1>6. QED
  BY <1>1, <1>3, <1>4, <1>5

\* The next call of a queue.
LEMMA ForcedContinue ==
    ASSUME TypeOK, NEW queue \in Seq(Made \X Made), Continue(queue),
           NEW eq, \A i \in DOMAIN queue : eq[queue[i][1]] = eq[queue[i][2]]
    PROVE  /\ phase' \in {"idle", "pruneA"}
           /\ \A c \in Pending' : eq[c[1]] = eq[c[2]]
           /\ phase' # "idle" => eq[a'] = eq[b']
<1>1. CASE queue = <<>>
  BY <1>1 DEF Continue, Pending
<1>2. CASE queue # <<>>
  <2>1. /\ Tail(queue) \in Seq(Made \X Made) /\ Len(Tail(queue)) = Len(queue) - 1
        /\ \A i \in 1 .. Len(Tail(queue)) : Tail(queue)[i] = queue[i + 1]
        /\ Head(queue) = queue[1]
    BY <1>2, HeadTailProperties
  <2>2. /\ DOMAIN queue = 1 .. Len(queue) /\ Len(queue) \in Nat /\ Len(queue) # 0
        /\ DOMAIN Tail(queue) = 1 .. Len(Tail(queue))
    BY <1>2, <2>1, LenProperties, EmptySeq
  <2>3. phase' = "pruneA" /\ todo' = Tail(queue) /\ a' = queue[1][1] /\ b' = queue[1][2]
    BY <1>2, <2>1 DEF Continue
  <2>4. 1 \in DOMAIN queue
    BY <2>2
  <2>5. ASSUME NEW i \in DOMAIN Tail(queue)
        PROVE  i + 1 \in DOMAIN queue /\ Tail(queue)[i] = queue[i + 1]
    BY <2>1, <2>2
  <2>6. QED
    BY <2>3, <2>4, <2>5 DEF Pending
<1>3. QED
  BY <1>1, <1>2

-----------------------------------------------------------------------------
(* Every step keeps to the solutions *)

LEMMA JFacts ==
    ASSUME JInv, phase # "failed", NEW eq \in Abstract!Solutions
    PROVE  Graph /\ Forced(eq)
BY DEF JInv, IInv, Graph, Answered

\* The walk of prune stays among equal types.
LEMMA ForcedPrune ==
    ASSUME JInv, NEW eq \in Abstract!Solutions, PruneStep \/ PrunedA \/ PrunedB
    PROVE  Forced(eq)'
<1>1. Graph /\ Forced(eq)
  BY JFacts DEF PruneStep, PrunedA, PrunedB
<1>2. UNCHANGED <<types, calls, root, claims, todo>> /\ Walking /\ phase' # "idle"
  BY DEF PruneStep, PrunedA, PrunedB, Walking
<1>3. /\ Made' = Made /\ Pending' = Pending
      /\ \A n : Parts(eq, n)' = Parts(eq, n)
  BY <1>2, SameSolutions DEF Made, Pending
<1>4. a \in Made /\ b \in Made /\ at \in Made
  BY <1>2, Named DEF Graph, JInv, IInv, Walking
<1>5. CASE PruneStep
  <2>1. /\ bound[at] # 0 /\ at' = bound[at] /\ path' = path \cup {at}
        /\ UNCHANGED <<phase, a, b, occ>>
    BY <1>5 DEF PruneStep, AtEnd
  <2>2. bound[at] \in Made /\ root[bound[at]] = root[at]
    BY <1>1, <1>4, <2>1, SuccMade DEF Graph, Chains
  <2>3. eq[bound[at]] = eq[at]
    BY <1>1, <1>4, <2>2 DEF Forced
  <2>4. ASSUME phase = "occurs"
        PROVE  bound[at] \in Parts(eq, b)
    <3>1. bound[b] = 0
      BY <2>4 DEF JInv, IInv, Args
    <3>2. at \in Parts(eq, b)
      BY <1>1, <2>1, <2>4, <3>1 DEF Forced, Frontier
    <3>3. QED
      BY <1>1, <1>4, <2>2, <2>3, <3>2, PartsAreWhole DEF Whole
  <2>5. Frontier' \subseteq {b'} \cup Parts(eq, b)
    BY <1>1, <2>1, <2>4 DEF Forced, Frontier, ToVisit
  <2>6. QED
    BY <1>1, <1>2, <1>3, <2>1, <2>5 DEF Forced
<1>6. CASE PrunedA
  <2>1. a' = at /\ b' = b /\ root[at] = root[a] /\ phase' = "pruneB"
    BY <1>6 DEF PrunedA, JInv, IInv, Args
  <2>2. eq[at] = eq[a] /\ eq[a] = eq[b]
    BY <1>1, <1>4, <1>6, <2>1 DEF Forced, PrunedA
  <2>3. QED
    BY <1>1, <1>2, <1>3, <2>1, <2>2 DEF Forced, Frontier
<1>7. CASE PrunedB
  <2>1. a' = a /\ b' = at /\ root[at] = root[b] /\ phase' = "decide"
    BY <1>7 DEF PrunedB, JInv, IInv, Args
  <2>2. eq[at] = eq[b] /\ eq[a] = eq[b]
    BY <1>1, <1>4, <1>7, <2>1 DEF Forced, PrunedB
  <2>3. QED
    BY <1>1, <1>2, <1>3, <2>1, <2>2 DEF Forced, Frontier
<1>8. QED
  BY <1>5, <1>6, <1>7

LEMMA ForcedTrue ==
    ASSUME JInv, NEW eq \in Abstract!Solutions, SameVar \/ Leaf \/ Swap
    PROVE  Forced(eq)'
<1>1. Graph /\ Forced(eq) /\ phase = "decide"
  BY JFacts DEF SameVar, Leaf, Swap
<1>2. UNCHANGED <<types, root, claims>> /\ Made' = Made
  BY DEF SameVar, Leaf, Swap, Made
<1>3. CASE Swap
  BY <1>1, <1>2, <1>3 DEF Swap, Forced, Frontier, Pending
<1>4. CASE SameVar \/ Leaf
  <2>1. Continue(todo) /\ todo \in Seq(Made \X Made)
    BY <1>1, <1>4 DEF SameVar, Leaf, Graph, TypeOK
  <2>2. \A i \in DOMAIN todo : eq[todo[i][1]] = eq[todo[i][2]]
    BY <1>1 DEF Forced, Pending
  <2>3. /\ phase' \in {"idle", "pruneA"}
        /\ \A c \in Pending' : eq[c[1]] = eq[c[2]]
        /\ phase' # "idle" => eq[a'] = eq[b']
    BY <1>1, <2>1, <2>2, ForcedContinue DEF Graph
  <2>4. QED
    BY <1>1, <1>2, <2>3 DEF Forced, Frontier
<1>5. QED
  BY <1>3, <1>4

LEMMA ForcedStartOccurs ==
    ASSUME JInv, NEW eq \in Abstract!Solutions, StartOccurs
    PROVE  Forced(eq)'
<1>1. /\ phase = "decide" /\ phase' = "occurs" /\ at' = b
      /\ UNCHANGED <<types, todo, a, b, path, occ, root, claims>>
  BY DEF StartOccurs
<1>2. Graph /\ Forced(eq) /\ path = {} /\ occ = <<>>
  BY <1>1, JFacts DEF JInv, IInv, Walk, Rests
<1>3. Frontier' = {b}
  BY <1>1, <1>2 DEF Frontier, ToVisit
<1>4. QED
  BY <1>1, <1>2, <1>3 DEF Forced, Made, Pending

\* Children of types with one head.
LEMMA ForcedDecompose ==
    ASSUME JInv, NEW eq \in Abstract!Solutions, Decompose
    PROVE  Forced(eq)'
<1> DEFINE queue == Pairs(a, b) \o todo
<1>1. /\ phase = "decide" /\ Continue(queue) /\ UNCHANGED <<types, root>>
      /\ claims' = claims \cup {Pairs(a, b)[i] : i \in DOMAIN Pairs(a, b)}
      /\ ~IsVar(a) /\ ~IsVar(b) /\ Len(Kids(a)) = Len(Kids(b))
  BY DEF Decompose, SameArity
<1>2. Graph /\ Forced(eq) /\ Made' = Made /\ a \in Made /\ b \in Made
  BY <1>1, JFacts, Decided DEF JInv, Made
<1>3. /\ Pairs(a, b) \in Seq(Made \X Made)
      /\ DOMAIN Pairs(a, b) = 1 .. Len(Kids(a)) /\ DOMAIN Kids(a) = 1 .. Len(Kids(a))
      /\ \A i \in 1 .. Len(Kids(a)) : Pairs(a, b)[i] = <<Kids(a)[i], Kids(b)[i]>>
      /\ todo \in Seq(Made \X Made)
  BY <1>1, <1>2, PairsFacts, KidsMade DEF Graph, TypeOK
<1>4. \A i \in DOMAIN Pairs(a, b) : eq[Pairs(a, b)[i][1]] = eq[Pairs(a, b)[i][2]]
  <2>1. eq[a] = eq[b]
    BY <1>1, <1>2 DEF Forced
  <2>2. \A i \in DOMAIN Kids(a) : eq[Kids(a)[i]] = eq[Kids(b)[i]]
    BY <1>1, <1>2, <2>1, SolutionFacts
  <2>3. QED
    BY <1>3, <2>2
<1>5. queue \in Seq(Made \X Made) /\ \A i \in DOMAIN queue : eq[queue[i][1]] = eq[queue[i][2]]
  <2>1. /\ queue \in Seq(Made \X Made)
        /\ Len(queue) = Len(Pairs(a, b)) + Len(todo)
        /\ \A i \in 1 .. Len(Pairs(a, b)) + Len(todo) : queue[i] =
             IF i <= Len(Pairs(a, b)) THEN Pairs(a, b)[i] ELSE todo[i - Len(Pairs(a, b))]
    BY <1>3, ConcatProperties
  <2>2. /\ DOMAIN queue = 1 .. Len(queue) /\ DOMAIN todo = 1 .. Len(todo)
        /\ DOMAIN Pairs(a, b) = 1 .. Len(Pairs(a, b))
        /\ Len(todo) \in Nat /\ Len(Pairs(a, b)) \in Nat
    BY <1>3, <2>1, LenProperties
  <2>3. \A i \in DOMAIN todo : eq[todo[i][1]] = eq[todo[i][2]]
    BY <1>2 DEF Forced, Pending
  <2> HIDE DEF queue
  <2>4. ASSUME NEW i \in DOMAIN queue
        PROVE  \/ i \in DOMAIN Pairs(a, b) /\ queue[i] = Pairs(a, b)[i]
               \/ i - Len(Pairs(a, b)) \in DOMAIN todo /\ queue[i] = todo[i - Len(Pairs(a, b))]
    BY <2>1, <2>2
  <2>5. QED
    BY <1>4, <2>1, <2>3, <2>4
<1>6. /\ phase' \in {"idle", "pruneA"}
      /\ \A c \in Pending' : eq[c[1]] = eq[c[2]]
      /\ phase' # "idle" => eq[a'] = eq[b']
  BY <1>1, <1>2, <1>5, ForcedContinue DEF Graph
<1>7. \A c \in claims' : eq[c[1]] = eq[c[2]]
  BY <1>1, <1>2, <1>4 DEF Forced
<1>8. QED
  BY <1>1, <1>2, <1>6, <1>7 DEF Forced, Frontier

\* occurs_in looks at parts of b, whatever is equal by a solution.
LEMMA ForcedLookedAt ==
    ASSUME JInv, NEW eq \in Abstract!Solutions, LookedAt
    PROVE  Forced(eq)'
<1> DEFINE queue == Kids(at) \o occ
<1>1. /\ phase = "occurs" /\ Walking /\ path' = {} /\ Look(queue)
      /\ UNCHANGED <<types, todo, a, b, calls, root, claims>>
  BY DEF LookedAt, Walking
<1>2. Graph /\ Forced(eq) /\ Made' = Made /\ at \in Made /\ b \in Made
  BY <1>1, JFacts, Named DEF JInv, IInv, Walking, Made
<1>3. \A i \in DOMAIN Kids(at) : Kids(at)[i] \in Parts(eq, b)
  <2>1. at \in {b} \cup Parts(eq, b)
    BY <1>1, <1>2 DEF Forced, Frontier
  <2>2. \A i \in DOMAIN Kids(at) : Kids(at)[i] \in Abstract!Kids(at)
    BY SameWords
  <2>3. QED
    BY <1>2, <2>1, <2>2, PartsAreWhole DEF Whole, PartsIn
<1>4. queue \in Seq(Made) /\ \A i \in DOMAIN queue : queue[i] \in {b} \cup Parts(eq, b)
  <2>1. Kids(at) \in Seq(Made) /\ occ \in Seq(Made)
    BY <1>2, KidsMade DEF Graph, TypeOK
  <2>2. /\ queue \in Seq(Made)
        /\ Len(queue) = Len(Kids(at)) + Len(occ)
        /\ \A i \in 1 .. Len(Kids(at)) + Len(occ) : queue[i] =
             IF i <= Len(Kids(at)) THEN Kids(at)[i] ELSE occ[i - Len(Kids(at))]
    BY <2>1, ConcatProperties
  <2>3. /\ DOMAIN queue = 1 .. Len(queue) /\ DOMAIN occ = 1 .. Len(occ)
        /\ DOMAIN Kids(at) = 1 .. Len(Kids(at))
        /\ Len(occ) \in Nat /\ Len(Kids(at)) \in Nat
    BY <2>1, <2>2, LenProperties
  <2>4. \A i \in DOMAIN occ : occ[i] \in {b} \cup Parts(eq, b)
    BY <1>1, <1>2 DEF Forced, Frontier, ToVisit
  <2> HIDE DEF queue
  <2>5. ASSUME NEW i \in DOMAIN queue
        PROVE  \/ i \in DOMAIN Kids(at) /\ queue[i] = Kids(at)[i]
               \/ i - Len(Kids(at)) \in DOMAIN occ /\ queue[i] = occ[i - Len(Kids(at))]
    BY <2>2, <2>3
  <2>6. QED
    BY <1>3, <2>2, <2>4, <2>5
<1> HIDE DEF queue
<1>5. phase' # "idle" /\ Frontier' \subseteq {b} \cup Parts(eq, b)
  <2>1. CASE queue = <<>>
    BY <1>1, <2>1 DEF Look, Frontier
  <2>2. CASE queue # <<>>
    <3>1. /\ Tail(queue) \in Seq(Made) /\ Len(Tail(queue)) = Len(queue) - 1
          /\ \A i \in 1 .. Len(Tail(queue)) : Tail(queue)[i] = queue[i + 1]
          /\ Head(queue) = queue[1]
      BY <1>4, <2>2, HeadTailProperties
    <3>2. /\ DOMAIN queue = 1 .. Len(queue) /\ Len(queue) \in Nat /\ Len(queue) # 0
          /\ DOMAIN Tail(queue) = 1 .. Len(Tail(queue))
      BY <1>4, <2>2, <3>1, LenProperties, EmptySeq
    <3>3. phase' = "occurs" /\ at' = queue[1] /\ occ' = Tail(queue)
      BY <1>1, <2>2, <3>1 DEF Look
    <3>4. 1 \in DOMAIN queue
      BY <3>2
    <3>5. ASSUME NEW i \in DOMAIN Tail(queue)
          PROVE  i + 1 \in DOMAIN queue /\ Tail(queue)[i] = queue[i + 1]
      BY <3>1, <3>2
    <3>6. QED
      BY <1>1, <1>4, <3>3, <3>4, <3>5 DEF Frontier, ToVisit
  <2>3. QED
    BY <2>1, <2>2
<1>6. Parts(eq, b)' = Parts(eq, b) /\ Pending' = Pending
  <2>1. \A n : Parts(eq, n)' = Parts(eq, n)
    BY <1>1, SameSolutions
  <2>2. QED
    BY <1>1, <2>1 DEF Pending
<1>7. Frontier' \subseteq {b'} \cup Parts(eq, b)'
  BY <1>1, <1>5, <1>6
<1>8. QED
  BY <1>1, <1>2, <1>5, <1>6, <1>7 DEF Forced

LEMMA ForcedBind ==
    ASSUME JInv, NEW eq \in Abstract!Solutions, Bind
    PROVE  Forced(eq)'
<1>1. /\ phase = "bind" /\ Continue(todo) /\ UNCHANGED <<types, claims>>
      /\ root' = [n \in Node |-> IF root[n] = a THEN b ELSE root[n]]
  BY DEF Bind
<1>2. /\ Graph /\ Forced(eq) /\ Made' = Made /\ Made \subseteq Node
      /\ a \in Made /\ b \in Made /\ todo \in Seq(Made \X Made)
  BY <1>1, JFacts, Named, Decided DEF JInv, IInv, Made
<1>3. \A n \in Made : eq[root'[n]] = eq[n]
  BY <1>1, <1>2 DEF Forced
<1>4. \A i \in DOMAIN todo : eq[todo[i][1]] = eq[todo[i][2]]
  BY <1>2 DEF Forced, Pending
<1>5. /\ phase' \in {"idle", "pruneA"}
      /\ \A c \in Pending' : eq[c[1]] = eq[c[2]]
      /\ phase' # "idle" => eq[a'] = eq[b']
  BY <1>1, <1>2, <1>4, ForcedContinue DEF Graph
<1>6. QED
  BY <1>1, <1>2, <1>3, <1>5 DEF Forced, Frontier

\* A refusal: there was no solution.
LEMMA RefusedRightly ==
    ASSUME JInv, NoSchemas, NEW eq \in Abstract!Solutions, Mismatch \/ Occurs
    PROVE  FALSE
<1>1. Graph /\ Forced(eq)
  BY JFacts DEF Mismatch, Occurs
<1>2. CASE Mismatch
  <2>1. /\ phase = "decide" /\ ~IsVar(a) /\ ~IsVar(b) /\ ~Alike(a, b)
        /\ a \in Made /\ b \in Made /\ eq[a] = eq[b]
    BY <1>1, <1>2, Decided DEF Mismatch, Alike, JInv, Forced
  <2>2. KindOf(a) # "generic"
    BY <1>1, <2>1, KidsMade DEF Graph, NoSchemas, KindOf
  <2>3. Abstract!SameHead(a, b)
    BY <1>1, <2>1, SolutionFacts
  <2>4. QED
    BY <1>1, <2>1, <2>2, <2>3, AlikeIsHead DEF Graph
<1>3. CASE Occurs
  <2>1. phase = "occurs" /\ at = a /\ a # b /\ eq[a] = eq[b]
    BY <1>1, <1>3 DEF Occurs, JInv, IInv, Args, Forced
  <2>2. a \in Made /\ b \in Made
    BY <2>1, Named DEF JInv, IInv, Walking
  <2>3. a \in Parts(eq, b)
    BY <1>1, <2>1 DEF Forced, Frontier
  <2>4. b \in Parts(eq, b)
    BY <1>1, <2>1, <2>2, <2>3, PartsAreWhole DEF Whole
  <2>5. QED
    BY <1>1, <2>2, <2>4, SolutionFacts
<1>4. QED
  BY <1>2, <1>3

\* A solution that a new type is part of solves the equations without it.
LEMMA SolutionBefore ==
    ASSUME Graph, NEW s \in Shapes, NEW kids \in [1 .. s.arity -> Made], Alloc(s, kids),
           NEW eq \in Abstract!Solutions'
    PROVE  [n \in Made |-> eq[n]] \in Abstract!Solutions
<1> DEFINE k == Len(types)
           r == [n \in Made |-> eq[n]]
<1>1. /\ k \in Nat /\ Len(types') = k + 1 /\ k + 1 <= MaxTypes /\ MaxTypes \in Nat
      /\ \A n \in Made : types'[n] = types[n]
      /\ calls' = calls
  <2>1. k \in Nat /\ k < MaxTypes /\ calls' = calls
    BY LenProperties DEF Graph, TypeOK, Alloc
  <2>2. QED
    BY <2>1, TypeOKAlloc, BoundsAreNat DEF Graph
<1> HIDE DEF k
<1>2. Made = 1 .. k /\ Made' = 1 .. k + 1 /\ Made \subseteq Made'
  BY <1>1 DEF Made, k
<1>3. /\ eq \in [1 .. k + 1 -> 1 .. k + 1]
      /\ \A n \in 1 .. k + 1 : eq[n] <= n /\ eq[eq[n]] = eq[n]
  <2>1. k + 1 \in 0 .. MaxTypes /\ eq \in Abstract!Divisions[k + 1]
    BY <1>1 DEF Abstract!Solutions, Abstract!Divisions
  <2>2. QED
    BY <2>1 DEF Abstract!Divisions
<1>4. r \in Abstract!Divisions[k]
  <2>1. \A n \in 1 .. k : r[n] = eq[n] /\ eq[n] \in 1 .. k
    BY <1>1, <1>2, <1>3
  <2>2. r \in [1 .. k -> 1 .. k] /\ \A n \in 1 .. k : r[n] <= n /\ r[r[n]] = r[n]
    BY <1>1, <1>2, <1>3, <2>1
  <2>3. k \in 0 .. MaxTypes
    BY <1>1
  <2>4. QED
    BY <2>2, <2>3 DEF Abstract!Divisions
<1>5. Abstract!Solves(eq)'
  BY DEF Abstract!Solutions
<1>6. \A n \in Made : r[n] = eq[n]
  OBVIOUS
<1> HIDE DEF r
<1>7. ASSUME NEW e \in Abstract!Equations
      PROVE  r[e[1]] = r[e[2]]
  <2>1. e[1] \in Made /\ e[2] \in Made
    <3>1. calls \in Seq(Made \X Made)
      BY DEF Graph, TypeOK
    <3>2. PICK i \in DOMAIN calls : e = calls[i]
      BY DEF Abstract!Equations
    <3>3. calls[i] \in Made \X Made
      BY <3>1, ElementOfSeq, LenProperties
    <3>4. QED
      BY <3>2, <3>3
  <2>2. e \in Abstract!Equations'
    BY <1>1 DEF Abstract!Equations
  <2>3. eq[e[1]] = eq[e[2]]
    BY <1>5, <2>2 DEF Abstract!Solves
  <2>4. QED
    BY <1>6, <2>1, <2>3
<1>8. /\ \A n \in Made : /\ Kids(n)' = Kids(n)
                         /\ Abstract!IsVar(n)' <=> Abstract!IsVar(n)
                         /\ Abstract!Kids(n)' = Abstract!Kids(n)
      /\ \A m, n \in Made : Abstract!SameHead(m, n)' <=> Abstract!SameHead(m, n)
  BY <1>1 DEF Kids, Abstract!IsVar, Abstract!Kids, Abstract!SameHead
<1>9. Abstract!Congruent(r)
  <2> SUFFICES ASSUME NEW m \in Made, NEW n \in Made, r[m] = r[n],
                      ~Abstract!IsVar(m), ~Abstract!IsVar(n)
               PROVE  /\ Abstract!SameHead(m, n)
                      /\ \A i \in DOMAIN Kids(m) : r[Kids(m)[i]] = r[Kids(n)[i]]
    BY SameWords DEF Abstract!Congruent, Kids
  <2>1. /\ Abstract!SameHead(m, n)'
        /\ \A i \in DOMAIN types'[m].kids : eq[types'[m].kids[i]] = eq[types'[n].kids[i]]
    <3>1. Abstract!Made' = Made' /\ eq[m] = eq[n]
      BY <1>6 DEF Abstract!Made, Made
    <3>2. QED
      BY <1>2, <1>5, <1>8, <3>1 DEF Abstract!Solves, Abstract!Congruent
  <2>2. /\ Abstract!SameHead(m, n)
        /\ \A i \in DOMAIN Kids(m) : eq[Kids(m)[i]] = eq[Kids(n)[i]]
    BY <1>8, <2>1 DEF Kids
  <2>3. DOMAIN Kids(m) \subseteq DOMAIN Kids(n)
    <3>1. /\ DOMAIN Kids(m) = 1 .. types[m].shape.arity /\ types[m].shape \in Shapes
          /\ DOMAIN Kids(n) = 1 .. types[n].shape.arity /\ types[n].shape \in Shapes
      BY KidsMade DEF Graph, TypeOK
    <3>2. QED
      BY <2>2, <3>1, StructsHaveOneShape DEF Abstract!SameHead
  <2>4. QED
    BY <1>6, <2>2, <2>3, EndFacts
<1>10. Abstract!Founded(r)
  <2> SUFFICES ASSUME NEW S \in SUBSET Made, S # {}
               PROVE  \E n \in S : \A m \in Made :
                        r[m] = r[n] => \A j \in Abstract!Kids(m) : \A t \in S : r[j] # r[t]
    BY SameWords DEF Abstract!Founded
  <2>1. \E n \in S : \A m \in Made' :
          eq[m] = eq[n] => \A j \in Abstract!Kids(m)' : \A t \in S : eq[j] # eq[t]
    <3>1. Abstract!Made' = Made' /\ S \in SUBSET Made'
      BY <1>2 DEF Abstract!Made, Made
    <3>2. QED
      BY <1>5, <3>1 DEF Abstract!Solves, Abstract!Founded
  <2>2. \A m \in Made : Abstract!Kids(m) \subseteq Made
    BY SameWords, EndFacts
  <2>3. PICK n \in S : \A m \in Made' :
          eq[m] = eq[n] => \A j \in Abstract!Kids(m)' : \A t \in S : eq[j] # eq[t]
    BY <2>1
  <2>4. ASSUME NEW m \in Made, r[m] = r[n], NEW j \in Abstract!Kids(m), NEW t \in S
        PROVE  r[j] # r[t]
    <3>1. m \in Made' /\ eq[m] = eq[n] /\ j \in Made
      BY <1>2, <1>6, <2>2, <2>4
    <3>2. Abstract!Kids(m)' = Abstract!Kids(m)
      BY <1>8
    <3>3. eq[j] # eq[t]
      BY <2>3, <2>4, <3>1, <3>2
    <3>4. QED
      BY <1>6, <3>1, <3>3
  <2>5. QED
    BY <2>4
<1>11. QED
  BY <1>4, <1>7, <1>9, <1>10 DEF Abstract!Solves, Abstract!Solutions, k, r

LEMMA ForcedAlloc ==
    ASSUME JInv, NEW s \in Shapes, NEW kids \in [1 .. s.arity -> Made], Alloc(s, kids)
    PROVE  Answered' /\ StructsAgree'
<1> DEFINE new == Len(types) + 1
<1>1. /\ phase = "idle" /\ phase' = "idle" /\ FieldsOf(s, kids)
      /\ types' = Append(types, [shape |-> s, kids |-> kids])
      /\ UNCHANGED <<todo, calls, root, claims>>
  BY DEF Alloc
<1>2. Graph /\ todo = <<>> /\ claims \subseteq Made \X Made
  BY <1>1 DEF JInv, IInv, Args, Graph, TypeOK
<1>3. /\ Len(types) \in Nat /\ Len(types') = new
      /\ \A n \in Made : types'[n] = types[n]
      /\ types'[new] = [shape |-> s, kids |-> kids]
      /\ Made' = Made \cup {new} /\ new \in Node \ Made
  <2>1. types \in Seq([shape : Shapes, kids : Seq(Node)]) /\ Len(types) < MaxTypes
    BY <1>2 DEF Graph, TypeOK, Alloc
  <2>2. Len(types) \in Nat
    BY <2>1, LenProperties
  <2>3. Len(types') = new /\ types'[new] = [shape |-> s, kids |-> kids]
    BY <1>1, <2>1
  <2>4. \A n \in Made : types'[n] = types[n]
    BY <1>2, TypeOKAlloc DEF Graph
  <2>5. Made' = Made \cup {new} /\ new \in Node \ Made
    BY <2>1, <2>2, <2>3, BoundsAreNat DEF Made, Node
  <2>6. QED
    BY <2>2, <2>3, <2>4, <2>5
<1> HIDE DEF new
<1>4. root[new] = new /\ \A n \in Made : root[n] \in Made
  BY <1>2, <1>3 DEF Graph, Chains
<1>5. ASSUME NEW eq \in Abstract!Solutions'
      PROVE  Forced(eq)'
  <2> DEFINE r == [n \in Made |-> eq[n]]
  <2>1. r \in Abstract!Solutions
    BY <1>2, SolutionBefore
  <2>2. Forced(r) /\ \A n \in Made : r[n] = eq[n]
    BY <1>1, <2>1, JFacts
  <2> HIDE DEF r
  <2>3. \A n \in Made' : eq[root'[n]] = eq[n]
    BY <1>1, <1>3, <1>4, <2>2 DEF Forced
  <2>4. \A c \in claims' : eq[c[1]] = eq[c[2]]
    <3>1. ASSUME NEW c \in claims
          PROVE  eq[c[1]] = eq[c[2]]
      <4>1. c[1] \in Made /\ c[2] \in Made
        BY <1>2
      <4>2. r[c[1]] = r[c[2]]
        BY <2>2 DEF Forced
      <4>3. QED
        BY <2>2, <4>1, <4>2
    <3>2. QED
      BY <1>1, <3>1
  <2>5. Pending' = {}
    BY <1>1, <1>2 DEF Pending
  <2>6. QED
    BY <1>1, <2>3, <2>4, <2>5 DEF Forced, Frontier
<1>6. StructsAgree'
  <2>1. \A n \in Made : Kids(n)' = Kids(n) /\ types'[n].shape = types[n].shape
    BY <1>3 DEF Kids
  <2>2. types'[new].kids = kids /\ types'[new].shape = s
    BY <1>3
  <2>3. \A n \in Made : types[n].shape \in Shapes
    BY <1>2, KidsMade DEF Graph
  <2>4. ASSUME NEW n \in Made, types[n].shape.kind = "struct", s.kind = "struct",
               types[n].shape.name = s.name
        PROVE  Kids(n) = kids
    BY <1>1, <2>3, <2>4, StructsHaveOneShape DEF FieldsOf
  <2>5. \A m, n \in Made :
          /\ types[m].shape.kind = "struct" /\ types[n].shape.kind = "struct"
          /\ types[m].shape.name = types[n].shape.name
          => Kids(m) = Kids(n)
    BY <1>2 DEF Graph, StructsAgree, KindOf
  <2>6. QED
    BY <1>3, <2>1, <2>2, <2>4, <2>5 DEF StructsAgree, KindOf, Kids
<1>7. QED
  BY <1>1, <1>5, <1>6 DEF Answered

LEMMA ForcedEquate ==
    ASSUME JInv, NEW x \in Made, NEW y \in Made, Equate(x, y)
    PROVE  Answered'
<1>1. /\ phase = "idle" /\ Continue(<< <<x, y>> >>) /\ claims' = claims \cup {<<x, y>>}
      /\ calls' = Append(calls, <<x, y>>)
      /\ UNCHANGED <<types, root>> /\ Made' = Made
  BY DEF Equate, Made
<1>2. phase' = "pruneA"
  BY <1>1 DEF Continue
<1>3. ASSUME NEW eq \in Abstract!Solutions'
      PROVE  eq \in Abstract!Solutions /\ eq[x] = eq[y]
  <2>1. calls \in Seq(Made \X Made)
    BY DEF JInv, IInv, TypeOK
  <2>2. Abstract!Equations' = Abstract!Equations \cup {<<x, y>>}
    <3>1. /\ DOMAIN calls = 1 .. Len(calls) /\ Len(calls) \in Nat
          /\ DOMAIN calls' = 1 .. Len(calls) + 1
          /\ \A i \in 1 .. Len(calls) : calls'[i] = calls[i]
          /\ calls'[Len(calls) + 1] = <<x, y>>
      <4>1. calls' \in Seq(Made \X Made) /\ Len(calls') = Len(calls) + 1
        BY <1>1, <2>1, AppendProperties
      <4>2. /\ \A i \in 1 .. Len(calls) : calls'[i] = calls[i]
            /\ calls'[Len(calls) + 1] = <<x, y>>
        BY <1>1, <2>1, AppendProperties
      <4>3. QED
        BY <2>1, <4>1, <4>2, LenProperties
    <3>2. DOMAIN calls' = DOMAIN calls \cup {Len(calls) + 1}
      BY <3>1
    <3>3. \A i \in DOMAIN calls : calls'[i] = calls[i]
      BY <3>1
    <3>4. QED
      BY ZenonT(60), <3>1, <3>2, <3>3 DEF Abstract!Equations
  <2>3. Abstract!Solves(eq)' /\ eq \in Abstract!Divisions[Len(types)]
    BY <1>1 DEF Abstract!Solutions
  <2>4. /\ \A e \in Abstract!Equations \cup {<<x, y>>} : eq[e[1]] = eq[e[2]]
        /\ Abstract!Congruent(eq)' /\ Abstract!Founded(eq)'
    BY <2>2, <2>3 DEF Abstract!Solves
  <2>5. Abstract!Congruent(eq) /\ Abstract!Founded(eq)
    <3>1. /\ Abstract!Made' = Abstract!Made
          /\ \A n : Abstract!Kids(n)' = Abstract!Kids(n)
      BY <1>1 DEF Abstract!Made, Abstract!Kids
    <3>2. Abstract!Congruent(eq)
      BY <1>1, <2>4, <3>1 DEF Abstract!Congruent, Abstract!IsVar, Abstract!SameHead
    <3>3. Abstract!Founded(eq)
      BY <2>4, <3>1 DEF Abstract!Founded
    <3>4. QED
      BY <3>2, <3>3
  <2>6. eq[x] = eq[y]
    <3>1. eq[<<x, y>>[1]] = eq[<<x, y>>[2]]
      BY <2>4
    <3>2. QED
      BY <3>1
  <2>7. QED
    BY <2>3, <2>4, <2>5, <2>6 DEF Abstract!Solves, Abstract!Solutions
<1>4. ASSUME NEW eq \in Abstract!Solutions'
      PROVE  Forced(eq)'
  <2>1. Forced(eq) /\ eq[x] = eq[y]
    BY <1>1, <1>3, JFacts
  <2>2. << <<x, y>> >> \in Seq(Made \X Made) /\ DOMAIN << <<x, y>> >> = {1}
        /\ << <<x, y>> >>[1] = <<x, y>>
    OBVIOUS
  <2>3. \A i \in DOMAIN << <<x, y>> >> : eq[<< <<x, y>> >>[i][1]] = eq[<< <<x, y>> >>[i][2]]
    BY <2>1, <2>2
  <2>4. /\ \A c \in Pending' : eq[c[1]] = eq[c[2]]
        /\ phase' # "idle" => eq[a'] = eq[b']
    BY <1>1, <2>2, <2>3, ForcedContinue DEF JInv, IInv
  <2>5. QED
    BY <1>1, <1>2, <2>1, <2>4 DEF Forced, Frontier
<1>5. QED
  BY <1>2, <1>4 DEF Answered

-----------------------------------------------------------------------------
(* The invariant, and the refinement *)

LEMMA JInit == Init => JInv
<1> SUFFICES ASSUME Init PROVE JInv
  OBVIOUS
<1>1. IInv /\ Rests /\ Posed
  <2>1. calls = <<>> /\ occ = <<>>
    BY DEF Init
  <2>2. QED
    BY <2>1, InvInit DEF Rests, Posed
<1>2. /\ \A n \in Made : KindOf(n) \in Basic
      /\ \A n \in Node : root[n] = n
      /\ claims = {} /\ todo = <<>> /\ phase = "idle" /\ Made \subseteq Node
  <2>1. Len(types) = Len(Statics) /\ DOMAIN Statics = 1 .. Len(Statics)
    BY StaticsAreBasic, LenProperties DEF Init
  <2>2. QED
    BY <1>1, <2>1, StaticsAreBasic, Named DEF Init, Made, KindOf, IInv
<1>3. StructsAgree
  BY <1>2 DEF StructsAgree, Basic
<1>4. Answered
  BY <1>2 DEF Answered, Forced, Frontier, Pending
<1>5. QED
  BY <1>1, <1>3, <1>4 DEF JInv

\* What a step of unify leaves alone.
LEMMA StepFacts ==
    ASSUME Step
    PROVE  /\ UNCHANGED <<types, calls>> /\ claims \subseteq claims'
           /\ phase \notin {"idle", "failed"}
           /\ phase' = "failed" <=> Mismatch \/ Occurs
           /\ Rests => Rests'
<1>1. CASE PruneStep
  BY <1>1 DEF PruneStep, Rests, Mismatch, Occurs, AtEnd
<1>2. CASE PrunedA \/ PrunedB
  BY <1>2 DEF PrunedA, PrunedB, Rests, Mismatch, Occurs, Fail
<1>3. CASE SameVar \/ Leaf
  BY <1>3 DEF SameVar, Leaf, Continue, Rests, Mismatch, Occurs
<1>4. CASE StartOccurs \/ Swap
  BY <1>4 DEF StartOccurs, Swap, Rests, Mismatch, Occurs
<1>5. CASE Decompose
  BY <1>5 DEF Decompose, Continue, Rests, Mismatch, Occurs
<1>6. CASE Mismatch \/ Occurs
  BY <1>6 DEF Mismatch, Occurs, Fail, Rests
<1>7. CASE LookedAt
  BY <1>7 DEF LookedAt, Look, Rests, Mismatch, Occurs
<1>8. CASE Bind
  BY <1>8 DEF Bind, Continue, Rests, Mismatch, Occurs
<1>9. QED
  BY <1>1, <1>2, <1>3, <1>4, <1>5, <1>6, <1>7, <1>8 DEF Step

LEMMA AnsweredStep ==
    ASSUME JInv, NoSchemas, Step
    PROVE  Answered'
<1>1. /\ Abstract!Solutions' = Abstract!Solutions
      /\ phase' = "failed" <=> Mismatch \/ Occurs
  BY StepFacts, SameSolutions
<1>2. CASE Mismatch \/ Occurs
  BY <1>1, <1>2, RefusedRightly DEF Answered
<1>3. CASE ~(Mismatch \/ Occurs)
  <2>1. ASSUME NEW eq \in Abstract!Solutions
        PROVE  Forced(eq)'
    BY <1>3, ForcedPrune, ForcedTrue, ForcedStartOccurs, ForcedDecompose, ForcedLookedAt, ForcedBind
    DEF Step
  <2>2. QED
    BY <1>1, <1>3, <2>1 DEF Answered
<1>4. QED
  BY <1>2, <1>3

LEMMA JNext == NoSchemas /\ JInv /\ [Next]_vars => JInv'
<1> SUFFICES ASSUME NoSchemas, JInv, [Next]_vars PROVE JInv'
  OBVIOUS
<1>1. IInv'
  BY InvNext DEF JInv
<1>2. ASSUME NEW s \in Shapes, NEW kids \in [1 .. s.arity -> Made], Alloc(s, kids)
      PROVE  StructsAgree' /\ Posed' /\ Rests' /\ Answered'
  <2>1. UNCHANGED <<calls, claims, occ, phase>>
    BY <1>2 DEF Alloc
  <2>2. QED
    BY <1>2, <2>1, ForcedAlloc DEF JInv, Posed, Rests
<1>3. ASSUME NEW x \in Made, NEW y \in Made, Equate(x, y)
      PROVE  StructsAgree' /\ Posed' /\ Rests' /\ Answered'
  <2>1. /\ calls' = Append(calls, <<x, y>>) /\ claims' = claims \cup {<<x, y>>}
        /\ phase = "idle" /\ UNCHANGED <<types, occ>>
    BY <1>3 DEF Equate
  <2>2. Answered'
    BY <1>3, ForcedEquate
  <2>3. Posed'
    <3>1. calls \in Seq(Made \X Made)
      BY DEF JInv, IInv, TypeOK
    <3>2. /\ DOMAIN calls' = 1 .. Len(calls) + 1 /\ DOMAIN calls = 1 .. Len(calls)
          /\ Len(calls) \in Nat
          /\ \A i \in 1 .. Len(calls) : calls'[i] = calls[i]
          /\ calls'[Len(calls) + 1] = <<x, y>>
      BY <2>1, <3>1, AppendProperties, LenProperties
    <3>3. ASSUME NEW i \in DOMAIN calls'
          PROVE  (i \in DOMAIN calls /\ calls'[i] = calls[i]) \/ calls'[i] = <<x, y>>
      BY <3>2
    <3>4. QED
      BY <2>1, <3>3 DEF JInv, Posed
  <2>4. Rests' /\ StructsAgree'
    BY <2>1 DEF JInv, Rests, StructsAgree, Made, KindOf, Kids
  <2>5. QED
    BY <2>2, <2>3, <2>4
<1>4. CASE Step
  <2>1. Rests' /\ Posed' /\ StructsAgree'
    BY <1>4, StepFacts, SameSolutions DEF JInv, Posed
  <2>2. QED
    BY <1>1, <1>4, <2>1, AnsweredStep DEF JInv
<1>5. CASE UNCHANGED vars
  <2>1. UNCHANGED <<types, bound, phase, todo, a, b, at, path, occ, error, calls, root, claims, seen>>
    BY <1>5 DEF vars
  <2>2. StructsAgree' /\ Posed' /\ Rests'
    BY <2>1, SameSolutions DEF JInv, Posed, Rests
  <2>3. Abstract!Solutions' = Abstract!Solutions /\ \A eq : Parts(eq, b)' = Parts(eq, b)
    <3>1. \A eq, n : Parts(eq, n)' = Parts(eq, n)
      BY <2>1, SameSolutions
    <3>2. QED
      BY <2>1, <3>1, SameSolutions
  <2>4. \A eq : Forced(eq)' <=> Forced(eq)
    BY <2>1, <2>3 DEF Forced, Frontier, ToVisit, Pending, Made
  <2>5. QED
    BY <1>1, <2>1, <2>2, <2>3, <2>4 DEF JInv, Answered
<1>6. QED
  BY <1>1, <1>2, <1>3, <1>4, <1>5 DEF Next, JInv

\* At rest, all the calls of unify are settled.
LEMMA RestIsSolved == JInv /\ phase = "idle" => Abstract!Solvable
<1> SUFFICES ASSUME JInv, phase = "idle" PROVE Abstract!Solvable
  OBVIOUS
<1>1. Pending = {}
  BY DEF JInv, IInv, Args, Pending
<1>2. \A c \in claims : Settled(c[1], c[2])
  BY <1>1 DEF JInv, IInv, Accounted, InProgress
<1>3. QED
  BY <1>2, Solution DEF JInv, IInv, Graph

LEMMA NextRestIsSolved == (JInv /\ phase = "idle" => Abstract!Solvable)'
BY RestIsSolved, PTL

LEMMA RefinedInit == Init => Abstract!Init
BY DEF Init, Abstract!Init, Answers

LEMMA RefinedNext ==
    JInv /\ JInv' /\ [Next]_vars => [Abstract!Next]_<<types, calls, Answers>>
<1> SUFFICES ASSUME JInv, JInv', [Next]_vars
             PROVE  Abstract!Next \/ UNCHANGED <<types, calls, Answers>>
  OBVIOUS
<1>1. ASSUME NEW s \in Shapes, NEW kids \in [1 .. s.arity -> Made], Alloc(s, kids)
      PROVE  Abstract!Next
  <2>1. Abstract!Make(s, kids)
    BY <1>1 DEF Alloc, Abstract!Make, Answers
  <2>2. QED
    BY <2>1, SameWords DEF Abstract!Next
<1>2. ASSUME NEW x \in Made, NEW y \in Made, Equate(x, y)
      PROVE  Abstract!Next
  <2>1. phase = "idle" /\ phase' = "pruneA" /\ calls' = Append(calls, <<x, y>>) /\ types' = types
    BY <1>2 DEF Equate, Continue
  <2>2. Abstract!Ask(x, y)
    BY <2>1 DEF Abstract!Ask, Answers
  <2>3. QED
    BY <2>2, SameWords DEF Abstract!Next
<1>3. CASE Step
  <2>1. /\ UNCHANGED <<types, calls>> /\ Answers = "open"
        /\ Abstract!Solutions' = Abstract!Solutions
        /\ Abstract!Solvable' <=> Abstract!Solvable
    BY <1>3, StepFacts, SameSolutions DEF Answers
  <2>2. CASE phase' = "idle"
    <3>1. Answers' = "yes" /\ Abstract!Solvable
      <4>1. Abstract!Solvable'
        BY <2>2, NextRestIsSolved
      <4>2. QED
        BY <2>1, <2>2, <4>1 DEF Answers
    <3>2. QED
      BY <2>1, <3>1 DEF Abstract!Next, Abstract!Answer
  <2>3. CASE phase' = "failed"
    <3>1. Answers' = "no" /\ Abstract!Solutions = {}
      BY <2>1, <2>3 DEF Answers, JInv, Answered
    <3>2. ~Abstract!Solvable
      BY <3>1 DEF Abstract!Solvable, Abstract!Solutions
    <3>3. QED
      BY <2>1, <3>1, <3>2 DEF Abstract!Next, Abstract!Answer
  <2>4. CASE phase' \notin {"idle", "failed"}
    BY <2>1, <2>4 DEF Answers
  <2>5. QED
    BY <2>2, <2>3, <2>4
<1>4. CASE UNCHANGED vars
  BY <1>4 DEF vars, Answers
<1>5. QED
  BY <1>1, <1>2, <1>3, <1>4 DEF Next

-----------------------------------------------------------------------------
(* Theorems *)

\* unify says yes exactly when all the equations asked for so far have a common
\* solution: its bindings, the queue of its recursive calls and the occurs check
\* neither lose an equation nor add one, however many types there are.
THEOREM UnifyDecides ==
    ASSUME NoSchemas
    PROVE  Spec => ImplementsEquations
<1>1. Init => JInv
  BY JInit
<1>2. JInv /\ [Next]_vars => JInv'
  BY JNext
<1>3. JInv /\ JInv' /\ [Next]_vars => [Abstract!Next]_<<types, calls, Answers>>
  BY RefinedNext
<1>4. Init => Abstract!Init
  BY RefinedInit
<1>5. QED
  BY <1>1, <1>2, <1>3, <1>4, PTL DEF Spec, ImplementsEquations, Abstract!Spec

\* What unify binds a variable to is equal to it in every solution: the
\* bindings are the most general ones, so no program is refused for a binding
\* that was made too early.
THEOREM BindingsAreForced ==
    ASSUME NoSchemas
    PROVE  Spec => []BindingsFollow
<1>1. Init => JInv
  BY JInit
<1>2. JInv /\ [Next]_vars => JInv'
  BY JNext
<1>3. JInv => BindingsFollow
  <2> SUFFICES ASSUME JInv, phase = "idle", NEW n \in Made, bound[n] # 0,
                      NEW eq \in Abstract!Solutions
               PROVE  eq[n] = eq[bound[n]]
    BY DEF BindingsFollow
  <2>1. Graph /\ Forced(eq)
    BY JFacts
  <2>2. bound[n] \in Made /\ root[n] = root[bound[n]]
    BY <2>1, SuccMade DEF Graph, Chains
  <2>3. QED
    BY <2>1, <2>2 DEF Forced
<1>4. QED
  BY <1>1, <1>2, <1>3, PTL DEF Spec

=============================================================================
