---------------------------- MODULE UnifyProofs ----------------------------
(***************************************************************************)
(* Theorems about Unify, for any shapes and any number of types and calls.   *)
(* The argument: root follows the bindings (Chains) and the walk of a prune   *)
(* stays on one chain (Walk); the types occurs_in has been through are closed   *)
(* under Succ but for those it still has to visit, and the variable is not     *)
(* among them (Visit), so the binding closes no cycle (Acyclic); and each      *)
(* call of unify ever made is settled, in progress or pending (Accounted).     *)
(*                                                                         *)
(* That unify ends: no way down through the types meets a type twice          *)
(* (NoWayTwice), so they are finitely many; taking a type apart leaves fewer   *)
(* of them (FewerWays, Descends), exchanging the arguments no more             *)
(* (NothingBelow), and every step that takes no type apart either binds a      *)
(* variable or brings the call further (StepShortens).                        *)
(***************************************************************************)
EXTENDS Unify, SequenceTheorems, FiniteSetTheorems, WellFoundedInduction, TLAPS

Walking == phase \in {"pruneA", "pruneB", "occurs"}

\* The history variable root is the end of the chain of bindings.
Chains ==
    /\ \A n \in Node \ Made : bound[n] = 0 /\ root[n] = n
    /\ \A n \in Made :
         /\ root[n] \in Made /\ bound[root[n]] = 0
         /\ root[n] = IF bound[n] = 0 THEN n ELSE root[bound[n]]
         /\ bound[n] # 0 => IsVar(n)

\* What the walk has passed leads to where it is.
Walk ==
    /\ Walking => \A p \in path : /\ bound[p] # 0 /\ bound[p] \in path \cup {at}
                                  /\ root[p] = root[at]
    /\ phase \in {"idle", "decide", "bind"} => path = {}

\* What the call in progress knows of its two arguments.
Args ==
    /\ phase = "pruneA" => root[at] = root[a]
    /\ phase = "pruneB" => bound[a] = 0 /\ root[at] = root[b]
    /\ phase \in {"decide", "occurs", "bind"} => bound[a] = 0 /\ bound[b] = 0
    /\ phase \in {"occurs", "bind"} => IsVar(a) /\ a # b
    /\ phase = "idle" => todo = <<>>

\* What occurs_in has still to see of the types it went through.
Frontier == IF phase = "occurs" THEN path \cup {at} \cup ToVisit ELSE {}

Visit ==
    phase \in {"occurs", "bind"} =>
        /\ a \notin seen
        /\ b \in seen \cup Frontier
        /\ \A n \in seen : Succ(n) \subseteq seen \cup Frontier

InProgress(x, y) ==
    /\ phase # "idle"
    /\ \/ root[x] = root[a] /\ root[y] = root[b]
       \/ /\ phase \in {"decide", "occurs", "bind"} /\ IsVar(a)
          /\ root[x] = root[b] /\ root[y] = root[a]

Accounted ==
    phase # "failed" =>
        \A c \in claims : \/ Settled(c[1], c[2])
                          \/ c \in Pending
                          \/ InProgress(c[1], c[2])

IInv ==
    /\ TypeOK
    /\ Chains
    /\ Walk
    /\ Args
    /\ Visit
    /\ Acyclic
    /\ Accounted

-----------------------------------------------------------------------------
(* Types and queues *)

LEMMA FunctionIsSeq ==
    ASSUME NEW S, NEW n \in Nat, NEW f \in [1 .. n -> S]
    PROVE  f \in Seq(S)
BY SeqDef

\* The children of a type are types made before.
LEMMA KidsMade ==
    ASSUME TypeOK, NEW n \in Made
    PROVE  /\ types[n].shape \in Shapes
           /\ Kids(n) \in Seq(Made)
           /\ DOMAIN Kids(n) = 1 .. Len(Kids(n))
           /\ \A i \in DOMAIN Kids(n) : Kids(n)[i] \in Made
           /\ Made \subseteq Node
<1>1. types \in Seq([shape : Shapes, kids : Seq(Node)]) /\ Len(types) <= MaxTypes
      /\ Kids(n) \in Seq(Made)
  BY DEF TypeOK
<1>2. types[n] \in [shape : Shapes, kids : Seq(Node)] /\ Len(types) \in Nat
  BY <1>1, ElementOfSeq, LenProperties DEF Made
<1>3. DOMAIN Kids(n) = 1 .. Len(Kids(n)) /\ \A i \in 1 .. Len(Kids(n)) : Kids(n)[i] \in Made
  BY <1>1, LenProperties, ElementOfSeq
<1>4. Made \subseteq Node
  BY <1>1, <1>2, BoundsAreNat DEF Made, Node
<1>5. QED
  BY <1>1, <1>2, <1>3, <1>4

\* What a type refers to directly is a type.
LEMMA SuccMade ==
    ASSUME TypeOK, NEW n \in Made
    PROVE  Succ(n) \subseteq Made /\ (bound[n] # 0 => bound[n] \in Made)
<1>1. n \in Node /\ bound[n] \in 0 .. Len(types) /\ Len(types) \in Nat
  BY KidsMade, LenProperties DEF TypeOK
<1>2. bound[n] # 0 => bound[n] \in Made
  BY <1>1 DEF Made
<1>3. \A i \in DOMAIN Kids(n) : Kids(n)[i] \in Made
  BY KidsMade
<1>4. QED
  BY <1>2, <1>3 DEF Succ

\* The first call of a queue becomes the one in progress.
LEMMA ContinueFacts ==
    ASSUME TypeOK, NEW queue \in Seq(Made \X Made), Continue(queue)
    PROVE  /\ phase' \in {"idle", "pruneA"}
           /\ todo' \in Seq(Made \X Made)
           /\ path' = {}
           /\ phase' = "idle" => todo' = <<>> /\ a' = 0 /\ b' = 0 /\ at' = 0
           /\ phase' = "pruneA" => a' \in Made /\ b' \in Made /\ at' = a'
           /\ \A i \in DOMAIN queue :
                phase' = "pruneA" /\ (queue[i] = <<a', b'>> \/ queue[i] \in Pending')
<1>1. CASE queue = <<>>
  BY <1>1, EmptySeq DEF Continue
<1>2. CASE queue # <<>>
  <2>1. /\ Head(queue) \in Made \X Made /\ Tail(queue) \in Seq(Made \X Made)
        /\ Len(Tail(queue)) = Len(queue) - 1
        /\ \A i \in 1 .. Len(Tail(queue)) : Tail(queue)[i] = queue[i + 1]
    BY <1>2, HeadTailProperties
  <2>2. /\ phase' = "pruneA" /\ todo' = Tail(queue) /\ path' = {}
        /\ a' = Head(queue)[1] /\ b' = Head(queue)[2] /\ at' = a'
    BY <1>2 DEF Continue
  <2>3. Head(queue) = queue[1] /\ Head(queue) = <<a', b'>> /\ a' \in Made /\ b' \in Made
    BY <2>1, <2>2
  <2>4. /\ DOMAIN queue = 1 .. Len(queue) /\ Len(queue) \in Nat
        /\ DOMAIN todo' = 1 .. Len(todo')
    BY <2>1, <2>2, LenProperties
  <2>5. ASSUME NEW i \in DOMAIN queue
        PROVE  queue[i] = <<a', b'>> \/ queue[i] \in Pending'
    <3>1. CASE i = 1
      BY <3>1, <2>3
    <3>2. CASE i # 1
      <4>1. i - 1 \in DOMAIN todo' /\ todo'[i - 1] = queue[(i - 1) + 1]
        BY <3>2, <2>1, <2>2, <2>4
      <4>2. (i - 1) + 1 = i
        BY <2>4
      <4>3. QED
        BY <4>1, <4>2 DEF Pending
    <3>3. QED
      BY <3>1, <3>2
  <2>6. QED
    BY <2>1, <2>2, <2>3, <2>5
<1>3. QED
  BY <1>1, <1>2

\* The first type of a queue becomes the one occurs_in looks at.
LEMMA LookFacts ==
    ASSUME TypeOK, phase = "occurs", NEW queue \in Seq(Made), Look(queue)
    PROVE  /\ phase' \in {"occurs", "bind"}
           /\ occ' \in Seq(Made)
           /\ at' \in 0 .. Len(types)
           /\ phase' = "occurs" => at' \in Made
           /\ \A i \in DOMAIN queue :
                phase' = "occurs" /\ (queue[i] = at' \/ queue[i] \in ToVisit')
<1>0. Len(types) \in Nat
  BY LenProperties DEF TypeOK
<1>1. CASE queue = <<>>
  BY <1>0, <1>1, EmptySeq DEF Look
<1>2. CASE queue # <<>>
  <2>1. /\ Head(queue) \in Made /\ Tail(queue) \in Seq(Made)
        /\ Len(Tail(queue)) = Len(queue) - 1
        /\ \A i \in 1 .. Len(Tail(queue)) : Tail(queue)[i] = queue[i + 1]
    BY <1>2, HeadTailProperties
  <2>2. phase' = "occurs" /\ occ' = Tail(queue) /\ at' = Head(queue) /\ at' = queue[1]
    BY <1>2 DEF Look
  <2>3. /\ DOMAIN queue = 1 .. Len(queue) /\ Len(queue) \in Nat
        /\ DOMAIN occ' = 1 .. Len(occ')
    BY <2>1, <2>2, LenProperties
  <2>4. ASSUME NEW i \in DOMAIN queue
        PROVE  queue[i] = at' \/ queue[i] \in ToVisit'
    <3>1. CASE i = 1
      BY <3>1, <2>2
    <3>2. CASE i # 1
      <4>1. i - 1 \in DOMAIN occ' /\ occ'[i - 1] = queue[(i - 1) + 1]
        BY <3>2, <2>1, <2>2, <2>3
      <4>2. (i - 1) + 1 = i
        BY <2>3
      <4>3. QED
        BY <4>1, <4>2 DEF ToVisit
    <3>3. QED
      BY <3>1, <3>2
  <2>5. QED
    BY <1>0, <2>1, <2>2, <2>4 DEF Made
<1>3. QED
  BY <1>1, <1>2

\* The calls unify_structural makes for two types of one arity.
LEMMA PairsFacts ==
    ASSUME TypeOK, NEW m \in Made, NEW n \in Made, Len(Kids(m)) = Len(Kids(n))
    PROVE  /\ Pairs(m, n) \in Seq(Made \X Made)
           /\ DOMAIN Pairs(m, n) = 1 .. Len(Kids(m))
           /\ \A i \in 1 .. Len(Kids(m)) : Pairs(m, n)[i] = <<Kids(m)[i], Kids(n)[i]>>
           /\ {Pairs(m, n)[i] : i \in DOMAIN Pairs(m, n)} \subseteq Made \X Made
<1>1. /\ Len(Kids(m)) \in Nat
      /\ \A i \in 1 .. Len(Kids(m)) : Kids(m)[i] \in Made /\ Kids(n)[i] \in Made
  BY KidsMade, LenProperties
<1>2. Pairs(m, n) \in [1 .. Len(Kids(m)) -> Made \X Made]
  BY <1>1 DEF Pairs
<1>3. Pairs(m, n) \in Seq(Made \X Made)
  BY <1>1, <1>2, SeqDef
<1>4. QED
  BY <1>1, <1>2, <1>3 DEF Pairs

-----------------------------------------------------------------------------
(* Type correctness *)

LEMMA InitTypeOK == Init => TypeOK
<1> SUFFICES ASSUME Init PROVE TypeOK
  OBVIOUS
<1>1. Len(Statics) \in Nat /\ Len(Statics) <= MaxTypes
  BY StaticsAreBasic, LenProperties
<1>2. \A i \in 1 .. Len(Statics) : Statics[i] \in Shapes /\ Statics[i].kind \in Basic
  BY StaticsAreBasic, ElementOfSeq, LenProperties
<1>3. <<>> \in Seq(Node) /\ Len(<<>>) = 0 /\ <<>> \in Seq(Made) /\ <<>> \in Seq(Made \X Made)
  BY EmptySeq
<1>4. types \in [1 .. Len(Statics) -> [shape : Shapes, kids : Seq(Node)]]
  BY <1>2, <1>3 DEF Init
<1>5. types \in Seq([shape : Shapes, kids : Seq(Node)]) /\ Len(types) = Len(Statics)
  <2>1. types \in Seq([shape : Shapes, kids : Seq(Node)])
    BY <1>1, <1>4, FunctionIsSeq
  <2>2. Len(types) = Len(Statics)
    BY <1>1 DEF Init
  <2>3. QED
    BY <2>1, <2>2
<1>6. \A i \in 1 .. Len(Statics) : Statics[i].arity = 0
  BY <1>2, ShapesAreShapes DEF Basic, Composite
<1>7. \A n \in Made : Kids(n) = <<>> /\ types[n].shape.arity = 0
  BY <1>5, <1>6 DEF Init, Made, Kids
<1>8. MaxTypes \in Nat
  BY BoundsAreNat
<1>9. /\ bound \in [Node -> 0 .. Len(types)] /\ root \in [Node -> Node]
      /\ {a, b, at} \subseteq 0 .. Len(types)
  BY <1>1, <1>5 DEF Init
<1>10. /\ todo \in Seq(Made \X Made) /\ occ \in Seq(Made) /\ calls \in Seq(Made \X Made)
  BY <1>3 DEF Init
<1>11. /\ path \subseteq Made /\ seen \subseteq Made /\ claims \subseteq Made \X Made
       /\ phase \in Phases /\ error \in {"none", "infinite type", "type mismatch"}
       /\ phase = "idle"
  BY DEF Init, Phases
<1>12. \A n \in Made : Len(Kids(n)) = types[n].shape.arity /\ Kids(n) \in Seq(Made)
  BY <1>3, <1>7
<1>13. QED
  BY <1>1, <1>5, <1>9, <1>10, <1>11, <1>12 DEF TypeOK

LEMMA TypeOKAlloc ==
    ASSUME TypeOK, NEW s \in Shapes, NEW kids \in [1 .. s.arity -> Made], Alloc(s, kids)
    PROVE  /\ TypeOK'
           /\ Len(types') = Len(types) + 1
           /\ \A n \in Made : types'[n] = types[n]
           /\ types'[Len(types) + 1].kids \in Seq(Made)
<1> DEFINE new == [shape |-> s, kids |-> kids]
<1>1. s.arity \in Nat /\ Len(kids) = s.arity /\ kids \in Seq(Made)
  BY ShapesAreShapes, SeqDef DEF Alloc
<1>2. types \in Seq([shape : Shapes, kids : Seq(Node)]) /\ Len(types) \in Nat /\ Len(types) < MaxTypes
  BY LenProperties DEF TypeOK, Alloc
<1>3. Made \subseteq Node
  BY <1>2, BoundsAreNat DEF Made, Node
<1>4. kids \in Seq(Node)
  BY <1>1, <1>3, SeqMonotonic
<1>5. /\ types' = Append(types, new) /\ new \in [shape : Shapes, kids : Seq(Node)]
      /\ types' \in Seq([shape : Shapes, kids : Seq(Node)])
      /\ Len(types') = Len(types) + 1
      /\ \A n \in 1 .. Len(types) : types'[n] = types[n]
      /\ types'[Len(types) + 1] = new
  BY <1>2, <1>4, AppendProperties DEF Alloc
<1>6. Made' = Made \cup {Len(types) + 1} /\ Len(types') <= MaxTypes
  BY <1>2, <1>5, BoundsAreNat DEF Made
<1>7. types'[Len(types) + 1].kids = kids /\ types'[Len(types) + 1].shape = s
  BY <1>5
<1>8. \A n \in Made' : Len(Kids(n)') = types'[n].shape.arity /\ Kids(n)' \in Seq(Made')
  <2> SUFFICES ASSUME NEW n \in Made'
               PROVE  Len(Kids(n)') = types'[n].shape.arity /\ Kids(n)' \in Seq(Made')
    OBVIOUS
  <2>1. CASE n \in Made
    <3>1. Kids(n)' = Kids(n) /\ types'[n] = types[n] /\ Kids(n) \in Seq(Made)
          /\ Len(Kids(n)) = types[n].shape.arity
      BY <2>1, <1>5 DEF TypeOK, Kids, Made
    <3>2. QED
      BY <3>1, <1>6, SeqMonotonic
  <2>2. CASE n = Len(types) + 1
    <3>1. Kids(n)' = kids /\ types'[n].shape = s
      BY <2>2, <1>7 DEF Kids
    <3>2. QED
      BY <3>1, <1>1, <1>6, SeqMonotonic
  <2>3. QED
    BY <2>1, <2>2, <1>6
<1>9. todo' \in Seq(Made' \X Made') /\ occ' \in Seq(Made') /\ calls' \in Seq(Made' \X Made')
  <2>1. /\ todo' = todo /\ occ' = occ /\ calls' = calls
        /\ todo \in Seq(Made \X Made) /\ occ \in Seq(Made) /\ calls \in Seq(Made \X Made)
    BY DEF Alloc, TypeOK
  <2>2. Made \subseteq Made' /\ Made \X Made \subseteq Made' \X Made'
    BY <1>6
  <2>3. QED
    BY <2>1, <2>2, SeqMonotonic
<1>10. /\ UNCHANGED <<bound, root, phase, path, seen, a, b, at, claims, error>>
  BY DEF Alloc
<1>11. /\ bound' \in [Node -> 0 .. Len(types')] /\ {a', b', at'} \subseteq 0 .. Len(types')
       /\ root' \in [Node -> Node]
  <2>1. Len(types') = Len(types) + 1 /\ Len(types) \in Nat
    BY <1>2, <1>5
  <2>2. 0 .. Len(types) \subseteq 0 .. Len(types')
    BY <2>1
  <2>3. /\ bound \in [Node -> 0 .. Len(types)] /\ {a, b, at} \subseteq 0 .. Len(types)
        /\ root \in [Node -> Node]
    BY DEF TypeOK
  <2>4. QED
    BY <1>10, <2>2, <2>3
<1>12. /\ path' \subseteq Made' /\ seen' \subseteq Made' /\ claims' \subseteq Made' \X Made'
       /\ phase' \in Phases /\ error' \in {"none", "infinite type", "type mismatch"}
       /\ phase' \notin {"idle", "failed"} => a' # 0 /\ b' # 0
       /\ phase' \in {"pruneA", "pruneB", "occurs"} => at' # 0
  BY <1>10, <1>6 DEF TypeOK
<1>13. TypeOK'
  BY <1>5, <1>6, <1>8, <1>9, <1>11, <1>12 DEF TypeOK
<1>14. QED
  BY <1>1, <1>5, <1>7, <1>13 DEF Made

\* A step that makes no type.
LEMMA TypeOKSame ==
    ASSUME TypeOK, UNCHANGED types,
           bound' \in [Node -> 0 .. Len(types)], root' \in [Node -> Node],
           phase' \in Phases, todo' \in Seq(Made \X Made), occ' \in Seq(Made),
           path' \subseteq Made, seen' \subseteq Made,
           {a', b', at'} \subseteq 0 .. Len(types),
           phase' \notin {"idle", "failed"} => a' # 0 /\ b' # 0,
           phase' \in {"pruneA", "pruneB", "occurs"} => at' # 0,
           claims' \subseteq Made \X Made, calls' \in Seq(Made \X Made),
           error' \in {"none", "infinite type", "type mismatch"}
    PROVE  TypeOK'
<1>1. Made' = Made /\ types' = types /\ \A n \in Made : Kids(n)' = Kids(n)
  BY DEF Made, Kids
<1>2. QED
  BY <1>1 DEF TypeOK

\* The types an action names are types.
LEMMA Named ==
    ASSUME TypeOK
    PROVE  /\ phase \notin {"idle", "failed"} => a \in Made /\ b \in Made
           /\ Walking => at \in Made
           /\ Made \subseteq Node /\ Made \subseteq 0 .. Len(types) /\ 0 \in 0 .. Len(types)
           /\ path \subseteq Made /\ seen \subseteq Made
           /\ Walking => Compressed \in [Node -> 0 .. Len(types)]
<1>1. Len(types) \in Nat /\ Len(types) <= MaxTypes /\ {a, b, at} \subseteq 0 .. Len(types)
  BY LenProperties DEF TypeOK
<1>2. Made \subseteq Node /\ Made \subseteq 0 .. Len(types) /\ 0 \in 0 .. Len(types)
  BY <1>1, BoundsAreNat DEF Made, Node
<1>3. /\ phase \notin {"idle", "failed"} => a \in Made /\ b \in Made
      /\ Walking => at \in Made
  <2>1. /\ phase \notin {"idle", "failed"} => a # 0 /\ b # 0
        /\ Walking => at # 0
    BY DEF TypeOK, Walking
  <2>2. \A n \in 0 .. Len(types) : n # 0 => n \in Made
    BY <1>1 DEF Made
  <2>3. QED
    BY <1>1, <2>1, <2>2
<1>4. Walking => Compressed \in [Node -> 0 .. Len(types)]
  <2>1. bound \in [Node -> 0 .. Len(types)]
    BY DEF TypeOK
  <2>2. QED
    BY <1>2, <1>3, <2>1 DEF Compressed
<1>5. path \subseteq Made /\ seen \subseteq Made
  BY DEF TypeOK
<1>6. QED
  BY <1>2, <1>3, <1>4, <1>5

LEMMA TypeOKContinue ==
    ASSUME TypeOK, UNCHANGED <<types, occ, error, seen>>,
           NEW queue \in Seq(Made \X Made), Continue(queue),
           bound' \in [Node -> 0 .. Len(types)], root' \in [Node -> Node],
           claims' \subseteq Made \X Made, calls' \in Seq(Made \X Made)
    PROVE  TypeOK'
<1>1. /\ phase' \in {"idle", "pruneA"}
      /\ todo' \in Seq(Made \X Made)
      /\ path' = {}
      /\ phase' = "idle" => todo' = <<>> /\ a' = 0 /\ b' = 0 /\ at' = 0
      /\ phase' = "pruneA" => a' \in Made /\ b' \in Made /\ at' = a'
  BY ContinueFacts
<1>2. Made \subseteq 0 .. Len(types) /\ 0 \in 0 .. Len(types) /\ 0 \notin Made
  BY Named DEF Made
<1>3. {a', b', at'} \subseteq 0 .. Len(types)
  BY <1>1, <1>2
<1>4. /\ phase' \notin {"idle", "failed"} => a' # 0 /\ b' # 0
      /\ phase' \in {"pruneA", "pruneB", "occurs"} => at' # 0
      /\ phase' \in Phases
  BY <1>1, <1>2 DEF Phases
<1>5. /\ occ' \in Seq(Made) /\ seen' \subseteq Made /\ path' \subseteq Made
      /\ error' \in {"none", "infinite type", "type mismatch"}
  BY <1>1 DEF TypeOK
<1>6. QED
  BY <1>1, <1>3, <1>4, <1>5, TypeOKSame

LEMMA TypeOKNext ==
    ASSUME TypeOK, [Next]_vars
    PROVE  TypeOK'
<1> USE Named
<1>0. /\ types \in Seq([shape : Shapes, kids : Seq(Node)])
      /\ todo \in Seq(Made \X Made) /\ occ \in Seq(Made) /\ calls \in Seq(Made \X Made)
      /\ bound \in [Node -> 0 .. Len(types)] /\ root \in [Node -> Node]
      /\ claims \subseteq Made \X Made /\ phase \in Phases
      /\ {a, b, at} \subseteq 0 .. Len(types)
      /\ error \in {"none", "infinite type", "type mismatch"}
      /\ phase \notin {"idle", "failed"} => a # 0 /\ b # 0
      /\ phase \in {"pruneA", "pruneB", "occurs"} => at # 0
  BY DEF TypeOK
<1>1. ASSUME NEW s \in Shapes, NEW kids \in [1 .. s.arity -> Made], Alloc(s, kids)
      PROVE  TypeOK'
  BY <1>1, TypeOKAlloc
<1>2. ASSUME NEW x \in Made, NEW y \in Made, Equate(x, y)
      PROVE  TypeOK'
  <2>1. << <<x, y>> >> \in Seq(Made \X Made)
    OBVIOUS
  <2>2. calls' \in Seq(Made \X Made)
    BY <1>0, <1>2, AppendProperties DEF Equate
  <2>3. /\ Continue(<< <<x, y>> >>) /\ UNCHANGED <<types, bound, occ, error, root, seen>>
        /\ claims' = claims \cup {<<x, y>>}
    BY <1>2 DEF Equate
  <2>4. claims' \subseteq Made \X Made
    <3>1. <<x, y>> \in Made \X Made
      OBVIOUS
    <3>2. QED
      BY <1>0, <2>3, <3>1, Zenon
  <2>5. QED
    BY <1>0, <2>1, <2>2, <2>3, <2>4, TypeOKContinue
<1>3. CASE PruneStep
  <2>1. at \in Made /\ bound[at] \in 0 .. Len(types) /\ at' = bound[at] /\ at' # 0
        /\ path' = path \cup {at} /\ phase # "bind"
    BY <1>0, <1>3 DEF PruneStep, AtEnd, Walking
  <2>2. UNCHANGED <<types, bound, phase, todo, a, b, occ, error, calls, root, claims, seen>>
    BY <1>3 DEF PruneStep
  <2>3. {a', b', at'} \subseteq 0 .. Len(types) /\ path' \subseteq Made /\ seen' \subseteq Made
    BY <1>0, <2>1, <2>2
  <2>4. QED
    BY <1>0, <2>1, <2>2, <2>3, TypeOKSame
<1>4. CASE PrunedA
  <2>1. /\ Walking /\ at \in Made /\ bound' = Compressed /\ a' = at /\ at' = b /\ path' = {}
        /\ phase' = "pruneB" /\ b \in Made
        /\ UNCHANGED <<types, todo, b, occ, error, calls, root, claims, seen>>
    BY <1>4 DEF PrunedA, Walking
  <2>2. 0 \notin Made
    BY DEF Made
  <2>3. QED
    BY <1>0, <2>1, <2>2, TypeOKSame DEF Phases
<1>5. CASE PrunedB
  <2>1. /\ Walking /\ at \in Made /\ bound' = Compressed /\ b' = at /\ at' = 0 /\ path' = {}
        /\ phase' = "decide" /\ a \in Made
        /\ UNCHANGED <<types, todo, a, occ, error, calls, root, claims, seen>>
    BY <1>5 DEF PrunedB, Walking
  <2>2. 0 \notin Made
    BY DEF Made
  <2>3. QED
    BY <1>0, <2>1, <2>2, TypeOKSame DEF Phases
<1>6. CASE SameVar
  BY <1>0, <1>6, TypeOKContinue DEF SameVar
<1>7. CASE StartOccurs
  <2>1. /\ phase' = "occurs" /\ at' = b /\ seen' = {} /\ b \in Made
        /\ UNCHANGED <<types, bound, todo, a, b, path, occ, error, calls, root, claims>>
        /\ a # 0 /\ b # 0
    BY <1>0, <1>7 DEF StartOccurs
  <2>2. path' \subseteq Made
    BY <2>1
  <2>3. QED
    BY <1>0, <2>1, <2>2, TypeOKSame DEF Phases
<1>8. CASE Swap
  <2>1. /\ phase = "decide" /\ a' = b /\ b' = a /\ a # 0 /\ b # 0
        /\ UNCHANGED <<types, bound, phase, todo, at, path, occ, error, calls, root, claims, seen>>
    BY <1>0, <1>8 DEF Swap
  <2>2. path' \subseteq Made /\ seen' \subseteq Made
    BY <2>1
  <2>3. QED
    BY <1>0, <2>1, <2>2, TypeOKSame DEF Phases
<1>9. CASE Decompose
  <2>1. a \in Made /\ b \in Made /\ Len(Kids(a)) = Len(Kids(b))
    BY <1>9 DEF Decompose, SameArity
  <2>2. Pairs(a, b) \in Seq(Made \X Made)
        /\ {Pairs(a, b)[i] : i \in DOMAIN Pairs(a, b)} \subseteq Made \X Made
    BY <2>1, PairsFacts
  <2>3. Pairs(a, b) \o todo \in Seq(Made \X Made)
    BY <1>0, <2>2, ConcatProperties
  <2>4. QED
    BY <1>0, <1>9, <2>2, <2>3, TypeOKContinue DEF Decompose
<1>10. CASE Leaf
  BY <1>0, <1>10, TypeOKContinue DEF Leaf
<1>11. CASE Mismatch
  <2>1. phase' = "failed" /\ error' \in {"type mismatch", error}
        /\ UNCHANGED <<types, bound, todo, a, b, at, path, occ, calls, root, claims, seen>>
    BY <1>11 DEF Mismatch, Fail
  <2>2. path' \subseteq Made /\ seen' \subseteq Made
    BY <2>1
  <2>3. QED
    BY <1>0, <2>1, <2>2, TypeOKSame DEF Phases
<1>12. CASE Occurs
  <2>1. /\ Walking /\ bound' = Compressed /\ phase' = "failed" /\ error' = "infinite type"
        /\ UNCHANGED <<types, todo, a, b, at, path, occ, calls, root, claims, seen>>
    BY <1>12 DEF Occurs, Fail, Walking
  <2>2. path' \subseteq Made /\ seen' \subseteq Made
    BY <2>1
  <2>3. QED
    BY <1>0, <2>1, <2>2, TypeOKSame DEF Phases
<1>13. CASE LookedAt
  <2>1. /\ phase = "occurs" /\ Walking /\ bound' = Compressed /\ path' = {}
        /\ seen' = seen \cup path \cup {at} /\ Look(Kids(at) \o occ)
        /\ UNCHANGED <<types, todo, a, b, error, calls, root, claims>>
        /\ at \in Made /\ a # 0 /\ b # 0
    BY <1>0, <1>13 DEF LookedAt, Walking
  <2>2. Kids(at) \o occ \in Seq(Made)
    BY <1>0, <2>1, KidsMade, ConcatProperties
  <2>3. /\ phase' \in {"occurs", "bind"} /\ occ' \in Seq(Made) /\ at' \in 0 .. Len(types)
        /\ phase' = "occurs" => at' \in Made
    BY <2>1, <2>2, LookFacts
  <2>4. seen' \subseteq Made /\ path' \subseteq Made /\ 0 \notin Made
    BY <2>1 DEF Made
  <2>5. /\ bound' \in [Node -> 0 .. Len(types)] /\ {a', b', at'} \subseteq 0 .. Len(types)
        /\ phase' \in Phases
        /\ phase' \in {"pruneA", "pruneB", "occurs"} => at' # 0
        /\ phase' \notin {"idle", "failed"} => a' # 0 /\ b' # 0
    BY <1>0, <2>1, <2>3, <2>4 DEF Phases
  <2>6. QED
    BY <1>0, <2>1, <2>3, <2>4, <2>5, TypeOKSame
<1>14. CASE Bind
  <2>1. a \in Made /\ b \in Made /\ b \in Node /\ b \in 0 .. Len(types)
    BY <1>14 DEF Bind
  <2>2. /\ bound' \in [Node -> 0 .. Len(types)] /\ root' \in [Node -> Node]
        /\ Continue(todo) /\ UNCHANGED <<types, occ, error, calls, claims, seen>>
    BY <1>0, <1>14, <2>1 DEF Bind
  <2>3. QED
    BY <1>0, <2>2, TypeOKContinue
<1>15. CASE UNCHANGED vars
  <2>1. UNCHANGED <<types, bound, phase, todo, a, b, at, path, occ, error, calls, root, claims, seen>>
    BY <1>15 DEF vars
  <2>2. path' \subseteq Made /\ seen' \subseteq Made
    BY <2>1
  <2>3. QED
    BY <1>0, <2>1, <2>2, TypeOKSame
<1>16. QED
  BY <1>1, <1>2, <1>3, <1>4, <1>5, <1>6, <1>7, <1>8, <1>9, <1>10, <1>11, <1>12, <1>13,
     <1>14, <1>15 DEF Next, Step

\* Type correctness of the unification algorithm.
THEOREM UnifyTypeCorrect == Spec => []TypeOK
<1>1. Init => TypeOK
  BY InitTypeOK
<1>2. TypeOK /\ [Next]_vars => TypeOK'
  BY TypeOKNext
<1>3. QED
  BY <1>1, <1>2, PTL DEF Spec

-----------------------------------------------------------------------------
(* Chains of bindings, and that they close no cycle *)

LEMMA GraphSame ==
    ASSUME UNCHANGED <<types, bound, root>>
    PROVE  /\ Made' = Made
           /\ \A n : Kids(n)' = Kids(n) /\ KindOf(n)' = KindOf(n) /\ Succ(n)' = Succ(n)
           /\ Chains => Chains'
           /\ Acyclic => Acyclic'
<1>1. /\ Made' = Made
      /\ \A n : Kids(n)' = Kids(n) /\ KindOf(n)' = KindOf(n) /\ Succ(n)' = Succ(n)
  BY DEF Made, Kids, KindOf, Succ
<1>2. Chains => Chains'
  BY <1>1 DEF Chains, IsVar
<1>3. Acyclic => Acyclic'
  BY <1>1 DEF Acyclic
<1>4. QED
  BY <1>1, <1>2, <1>3

\* Shortening the chain that was walked changes no end of a chain.
LEMMA CompressFacts ==
    ASSUME TypeOK, Chains, Walk, Walking, AtEnd, bound' = Compressed, UNCHANGED <<types, root>>
    PROVE  /\ Made' = Made
           /\ \A n : Kids(n)' = Kids(n) /\ KindOf(n)' = KindOf(n)
           /\ \A n \in Made : bound'[n] = 0 <=> bound[n] = 0
           /\ \A n \in Made \ path : Succ(n)' = Succ(n)
           /\ \A n \in path : Succ(n)' = {at}
           /\ Chains'
<1>1. /\ Made' = Made
      /\ \A n : Kids(n)' = Kids(n) /\ KindOf(n)' = KindOf(n)
  BY DEF Made, Kids, KindOf
<1>2. /\ at \in Made /\ at # 0 /\ path \subseteq Made /\ Made \subseteq Node
      /\ bound[at] = 0 /\ at \notin path /\ root[at] = at
      /\ \A p \in path : bound[p] # 0 /\ root[p] = at
  BY Named DEF Walk, AtEnd, Chains, Made
<1>3. \A n \in Node : bound'[n] = IF n \in path THEN at ELSE bound[n]
  BY DEF Compressed
<1>4. \A n \in Made : bound'[n] = 0 <=> bound[n] = 0
  BY <1>2, <1>3
<1>5. /\ \A n \in Made \ path : Succ(n)' = Succ(n)
      /\ \A n \in path : Succ(n)' = {at}
  BY <1>1, <1>2, <1>3 DEF Succ
<1>6. Chains'
  <2>1. \A n \in Node \ Made' : bound'[n] = 0 /\ root'[n] = n
    BY <1>1, <1>2, <1>3 DEF Chains
  <2>2. ASSUME NEW n \in Made'
        PROVE  /\ root'[n] \in Made' /\ bound'[root'[n]] = 0
               /\ root'[n] = IF bound'[n] = 0 THEN n ELSE root'[bound'[n]]
               /\ bound'[n] # 0 => IsVar(n)'
    <3>1. /\ n \in Made /\ root'[n] = root[n] /\ root[n] \in Made /\ bound[root[n]] = 0
          /\ root[n] = IF bound[n] = 0 THEN n ELSE root[bound[n]]
          /\ bound[n] # 0 => IsVar(n)
      BY <1>1, <2>2 DEF Chains
    <3>2. bound'[root'[n]] = 0 /\ (bound'[n] # 0 => IsVar(n)')
      BY <1>1, <1>4, <3>1 DEF IsVar
    <3>3. root'[n] = IF bound'[n] = 0 THEN n ELSE root'[bound'[n]]
      BY <1>2, <1>3, <3>1
    <3>4. QED
      BY <1>1, <3>1, <3>2, <3>3
  <2>3. QED
    BY <2>1, <2>2 DEF Chains
<1>7. QED
  BY <1>1, <1>4, <1>5, <1>6

LEMMA CompressAcyclic ==
    ASSUME TypeOK, Chains, Walk, Walking, AtEnd, bound' = Compressed, UNCHANGED <<types, root>>,
           Acyclic
    PROVE  Acyclic'
<1>1. /\ Made' = Made /\ path \subseteq Made /\ at \in Made /\ Made \subseteq Node
      /\ \A n \in Made \ path : Succ(n)' = Succ(n)
      /\ \A n \in path : Succ(n)' = {at}
  BY CompressFacts, Named
<1>2. \A p \in path : Succ(p) \subseteq path \cup {at} /\ Succ(p) # {}
  BY DEF Walk, Succ
<1>3. SUFFICES ASSUME NEW S \in SUBSET Made, S # {}, \A n \in S : Succ(n)' \cap S # {}
               PROVE  FALSE
  BY <1>1 DEF Acyclic
<1>4. CASE S \cap path = {}
  BY <1>1, <1>3, <1>4 DEF Acyclic
<1>5. CASE S \cap path # {}
  <2>1. at \in S
    BY <1>1, <1>3, <1>5
  <2>2. S \cup path \in SUBSET Made /\ S \cup path # {}
    BY <1>1, <1>3
  <2>3. \A n \in S \cup path : Succ(n) \cap (S \cup path) # {}
    BY <1>1, <1>2, <1>3, <2>1
  <2>4. QED
    BY <2>2, <2>3 DEF Acyclic
<1>6. QED
  BY <1>4, <1>5

\* A variable that does not occur in a type, bound to it.
LEMMA BindFacts ==
    ASSUME TypeOK, Chains, Args, Visit, phase = "bind",
           bound' = [bound EXCEPT ![a] = b],
           root' = [n \in Node |-> IF root[n] = a THEN b ELSE root[n]],
           UNCHANGED types
    PROVE  /\ Made' = Made
           /\ \A n : Kids(n)' = Kids(n) /\ KindOf(n)' = KindOf(n)
           /\ \A n \in Made \ {a} : Succ(n)' = Succ(n)
           /\ \A n \in Made : n = a => Succ(n)' = {b}
           /\ Chains'
           /\ Acyclic => Acyclic'
<1>1. /\ Made' = Made
      /\ \A n : Kids(n)' = Kids(n) /\ KindOf(n)' = KindOf(n)
  BY DEF Made, Kids, KindOf
<1>2. /\ a \in Made /\ b \in Made /\ Made \subseteq Node /\ a # b /\ b # 0
      /\ bound[a] = 0 /\ bound[b] = 0 /\ IsVar(a)
      /\ a \notin seen /\ b \in seen /\ seen \subseteq Made
      /\ \A n \in seen : Succ(n) \subseteq seen
  BY Named DEF Args, Visit, Frontier, Made
<1>3. \A n \in Node : bound'[n] = IF n = a THEN b ELSE bound[n]
  BY DEF TypeOK
<1>4. /\ \A n \in Made \ {a} : Succ(n)' = Succ(n)
      /\ \A n \in Made : n = a => Succ(n)' = {b}
  BY <1>1, <1>2, <1>3 DEF Succ
<1>5. root[a] = a /\ root[b] = b
  BY <1>2 DEF Chains
<1>6. Chains'
  <2>1. \A n \in Node \ Made' : bound'[n] = 0 /\ root'[n] = n
    BY <1>1, <1>2, <1>3 DEF Chains
  <2>2. ASSUME NEW n \in Made'
        PROVE  /\ root'[n] \in Made' /\ bound'[root'[n]] = 0
               /\ root'[n] = IF bound'[n] = 0 THEN n ELSE root'[bound'[n]]
               /\ bound'[n] # 0 => IsVar(n)'
    <3>1. /\ n \in Made /\ n \in Node /\ root[n] \in Made /\ bound[root[n]] = 0
          /\ root[n] = IF bound[n] = 0 THEN n ELSE root[bound[n]]
          /\ bound[n] # 0 => IsVar(n) /\ bound[n] \in Made
      BY <1>1, <1>2, <2>2, SuccMade DEF Chains
    <3>2. /\ root'[n] = IF root[n] = a THEN b ELSE root[n]
          /\ root'[b] = b
      BY <1>2, <1>5, <3>1
    <3>3. root'[n] \in Made' /\ bound'[root'[n]] = 0
      BY <1>1, <1>2, <1>3, <3>1, <3>2
    <3>4. bound'[n] # 0 => IsVar(n)'
      BY <1>1, <1>2, <1>3, <3>1 DEF IsVar
    <3>5. root'[n] = IF bound'[n] = 0 THEN n ELSE root'[bound'[n]]
      <4>1. CASE n = a
        BY <4>1, <1>2, <1>3, <1>5, <3>1, <3>2
      <4>2. CASE n # a /\ bound[n] = 0
        BY <4>2, <1>3, <3>1, <3>2
      <4>3. CASE n # a /\ bound[n] # 0
        <5>1. bound'[n] = bound[n] /\ bound[n] \in Node /\ root[bound[n]] = root[n]
          BY <4>3, <1>2, <1>3, <3>1
        <5>2. QED
          BY <4>3, <5>1, <3>2
      <4>4. QED
        BY <4>1, <4>2, <4>3
    <3>6. QED
      BY <3>3, <3>4, <3>5
  <2>3. QED
    BY <2>1, <2>2 DEF Chains
<1>7. ASSUME Acyclic
      PROVE  Acyclic'
  <2>1. SUFFICES ASSUME NEW S \in SUBSET Made, S # {}, \A n \in S : Succ(n)' \cap S # {}
                 PROVE  FALSE
    BY <1>1 DEF Acyclic
  <2>2. CASE S \cap seen # {}
    <3>1. \A n \in S \cap seen : Succ(n) \cap (S \cap seen) # {}
      BY <1>2, <1>4, <2>1
    <3>2. S \cap seen \in SUBSET Made
      BY <2>1
    <3>3. QED
      BY <1>7, <2>2, <3>1, <3>2 DEF Acyclic
  <2>3. CASE S \cap seen = {}
    <3>1. a \notin S
      BY <1>2, <1>4, <2>1, <2>3
    <3>2. \A n \in S : Succ(n) \cap S # {}
      BY <1>4, <2>1, <3>1
    <3>3. QED
      BY <1>7, <2>1, <3>2 DEF Acyclic
  <2>4. QED
    BY <2>2, <2>3
<1>8. QED
  BY <1>1, <1>4, <1>6, <1>7

\* A new type, to which nothing refers.
LEMMA AllocFacts ==
    ASSUME TypeOK, Chains, Acyclic,
           NEW s \in Shapes, NEW kids \in [1 .. s.arity -> Made], Alloc(s, kids)
    PROVE  Chains' /\ Acyclic'
<1> DEFINE new == Len(types) + 1
<1>1. /\ Len(types') = new /\ Len(types) \in Nat /\ new <= MaxTypes
      /\ \A n \in Made : types'[n] = types[n]
      /\ types'[new].kids \in Seq(Made)
      /\ UNCHANGED <<bound, root>>
  <2>1. Len(types) \in Nat /\ Len(types) < MaxTypes /\ UNCHANGED <<bound, root>>
    BY LenProperties DEF Alloc, TypeOK
  <2>2. QED
    BY <2>1, TypeOKAlloc, BoundsAreNat
<1>2. Made' = Made \cup {new} /\ new \notin Made /\ new \in Node /\ Made \subseteq Node
  BY <1>1, BoundsAreNat DEF Made, Node
<1>3. \A n \in Made : Kids(n)' = Kids(n) /\ KindOf(n)' = KindOf(n) /\ Succ(n)' = Succ(n)
  BY <1>1 DEF Kids, KindOf, Succ
<1>4. bound[new] = 0 /\ root[new] = new
  BY <1>2 DEF Chains
<1>5. Chains'
  BY <1>1, <1>2, <1>3, <1>4 DEF Chains, IsVar
<1>6. \A n \in Made' : Succ(n)' \subseteq Made
  <2>1. \A i \in DOMAIN types'[new].kids : types'[new].kids[i] \in Made
    BY <1>1, LenProperties, ElementOfSeq
  <2>2. ASSUME NEW n \in Made', n = new
        PROVE  Succ(n)' \subseteq Made
    BY <1>1, <1>4, <2>1, <2>2 DEF Succ, Kids
  <2>3. QED
    BY <1>2, <1>3, <2>2, SuccMade
<1>7. Acyclic'
  <2>1. SUFFICES ASSUME NEW S \in SUBSET Made', S # {}, \A n \in S : Succ(n)' \cap S # {}
                 PROVE  FALSE
    BY DEF Acyclic
  <2>2. S \cap Made \in SUBSET Made /\ S \cap Made # {}
    BY <1>6, <2>1
  <2>3. \A n \in S \cap Made : Succ(n) \cap (S \cap Made) # {}
    BY <1>2, <1>3, <1>6, <2>1
  <2>4. QED
    BY <2>2, <2>3 DEF Acyclic
<1>8. QED
  BY <1>5, <1>7

-----------------------------------------------------------------------------
(* The invariant is inductive *)

LEMMA SettledKept ==
    ASSUME UNCHANGED <<types, root>>, claims \subseteq claims'
    PROVE  \A x, y : Settled(x, y) => Settled(x, y)'
BY DEF Settled, SameLeaf, SameArity, KindOf, Kids

\* A call has returned true; the next one of the queue begins.
LEMMA InvContinue ==
    ASSUME TypeOK, NEW queue \in Seq(Made \X Made), Continue(queue),
           \A c \in claims' : Settled(c[1], c[2])' \/ \E i \in DOMAIN queue : c = queue[i]
    PROVE  Walk' /\ Args' /\ Visit' /\ Accounted'
<1>1. /\ phase' \in {"idle", "pruneA"}
      /\ path' = {}
      /\ phase' = "idle" => todo' = <<>>
      /\ phase' = "pruneA" => at' = a'
      /\ \A i \in DOMAIN queue :
           phase' = "pruneA" /\ (queue[i] = <<a', b'>> \/ queue[i] \in Pending')
  BY ContinueFacts
<1>2. Walk' /\ Args' /\ Visit'
  BY <1>1 DEF Walk, Args, Visit, Walking
<1>3. ASSUME NEW c \in claims'
      PROVE  Settled(c[1], c[2])' \/ c \in Pending' \/ InProgress(c[1], c[2])'
  <2>1. CASE \E i \in DOMAIN queue : c = queue[i]
    <3>1. phase' = "pruneA" /\ (c = <<a', b'>> \/ c \in Pending')
      BY <1>1, <2>1
    <3>2. CASE c = <<a', b'>>
      BY <3>1, <3>2 DEF InProgress
    <3>3. QED
      BY <3>1, <3>2
  <2>2. QED
    BY <2>1, <1>3
<1>4. QED
  BY <1>2, <1>3 DEF Accounted

LEMMA InvEquate ==
    ASSUME IInv, NEW x \in Made, NEW y \in Made, Equate(x, y)
    PROVE  IInv'
<1>1. /\ phase = "idle" /\ Continue(<< <<x, y>> >>) /\ claims' = claims \cup {<<x, y>>}
      /\ UNCHANGED <<types, bound, root>>
  BY DEF Equate
<1>2. TypeOK'
  BY TypeOKNext DEF IInv, Next
<1>3. Chains' /\ Acyclic'
  BY <1>1, GraphSame DEF IInv
<1>4. << <<x, y>> >> \in Seq(Made \X Made) /\ DOMAIN << <<x, y>> >> = {1}
      /\ << <<x, y>> >>[1] = <<x, y>>
  OBVIOUS
<1>5. \A c \in claims : Settled(c[1], c[2])
  <2>1. todo = <<>> /\ Pending = {}
    BY <1>1 DEF IInv, Args, Pending
  <2>2. QED
    BY <1>1, <2>1 DEF IInv, Accounted, InProgress
<1>6. \A c \in claims' :
        Settled(c[1], c[2])' \/ \E i \in DOMAIN << <<x, y>> >> : c = << <<x, y>> >>[i]
  BY <1>1, <1>4, <1>5, SettledKept
<1>7. Walk' /\ Args' /\ Visit' /\ Accounted'
  BY <1>1, <1>4, <1>6, InvContinue DEF IInv
<1>8. QED
  BY <1>2, <1>3, <1>7 DEF IInv

LEMMA InvAlloc ==
    ASSUME IInv, NEW s \in Shapes, NEW kids \in [1 .. s.arity -> Made], Alloc(s, kids)
    PROVE  IInv'
<1>1. TypeOK' /\ Chains' /\ Acyclic' /\ \A n \in Made : types'[n] = types[n]
  BY TypeOKAlloc, AllocFacts DEF IInv
<1>2. /\ phase = "idle" /\ phase' = "idle"
      /\ UNCHANGED <<bound, todo, a, b, at, path, occ, calls, root, claims, seen>>
  BY DEF Alloc
<1>3. Walk' /\ Args' /\ Visit'
  BY <1>2 DEF IInv, Walk, Args, Visit, Walking
<1>4. \A c \in claims : Settled(c[1], c[2])
  <2>1. todo = <<>> /\ Pending = {}
    BY <1>2 DEF IInv, Args, Pending
  <2>2. QED
    BY <1>2, <2>1 DEF IInv, Accounted, InProgress
<1>5. \A c \in claims : Settled(c[1], c[2])'
  <2>1. ASSUME NEW c \in claims
        PROVE  Settled(c[1], c[2])'
    <3>1. root[c[1]] \in Made /\ root[c[2]] \in Made
      BY DEF IInv, TypeOK, Chains
    <3>2. QED
      BY <1>1, <1>2, <1>4, <3>1 DEF Settled, SameLeaf, SameArity, KindOf, Kids
  <2>2. QED
    BY <2>1
<1>6. Accounted'
  BY <1>2, <1>5 DEF Accounted
<1>7. QED
  BY <1>1, <1>3, <1>6 DEF IInv

LEMMA InvPruneStep ==
    ASSUME IInv, PruneStep
    PROVE  IInv'
<1>1. /\ phase \in {"pruneA", "pruneB", "occurs"} /\ bound[at] # 0
      /\ path' = path \cup {at} /\ at' = bound[at]
      /\ UNCHANGED <<types, bound, phase, todo, a, b, occ, error, calls, root, claims, seen>>
  BY DEF PruneStep, AtEnd
<1>2. TypeOK'
  BY TypeOKNext DEF IInv, Next, Step
<1>3. Chains' /\ Acyclic' /\ Made' = Made /\ \A n : Succ(n)' = Succ(n)
  BY <1>1, GraphSame DEF IInv
<1>4. at \in Made /\ bound[at] \in Made /\ root[at] = root[bound[at]]
  BY <1>1, Named, SuccMade DEF IInv, Chains, Walking
<1>5. Walk' /\ Args'
  BY <1>1, <1>4 DEF IInv, Walk, Args, Walking, IsVar, KindOf
<1>6. Visit'
  BY <1>1, <1>3 DEF IInv, Visit, Frontier, ToVisit
<1>7. Accounted'
  <2>1. \A x, y : Settled(x, y) => Settled(x, y)'
    BY <1>1, SettledKept
  <2>2. \A x, y : InProgress(x, y) => InProgress(x, y)'
    BY <1>1 DEF InProgress, IsVar, KindOf
  <2>3. QED
    BY <1>1, <2>1, <2>2 DEF IInv, Accounted, Pending
<1>8. QED
  BY <1>2, <1>3, <1>5, <1>6, <1>7 DEF IInv

LEMMA InvPruned ==
    ASSUME IInv, PrunedA \/ PrunedB
    PROVE  IInv'
<1>1. /\ AtEnd /\ bound' = Compressed /\ path' = {} /\ Walking
      /\ UNCHANGED <<types, todo, occ, error, calls, root, claims, seen>>
  BY DEF PrunedA, PrunedB, Walking
<1>2. TypeOK'
  BY TypeOKNext DEF IInv, Next, Step
<1>3. /\ Chains' /\ Acyclic' /\ Made' = Made
      /\ \A n \in Made : bound'[n] = 0 <=> bound[n] = 0
  BY <1>1, CompressFacts, CompressAcyclic DEF IInv
<1>4. a \in Made /\ b \in Made /\ at \in Made /\ bound[at] = 0
  BY <1>1, Named DEF IInv, Walking, AtEnd
<1>5. /\ \A x, y : Settled(x, y) => Settled(x, y)'
      /\ Pending' = Pending
  BY <1>1, SettledKept DEF Pending
<1>6. CASE PrunedA
  <2>1. phase = "pruneA" /\ phase' = "pruneB" /\ a' = at /\ at' = b /\ b' = b /\ root[at] = root[a]
    BY <1>6 DEF IInv, PrunedA, Args
  <2>2. Walk' /\ Args' /\ Visit'
    BY <1>1, <1>3, <1>4, <2>1 DEF Walk, Args, Visit
  <2>3. Accounted'
    <3>1. \A x, y : InProgress(x, y) => InProgress(x, y)'
      BY <1>1, <2>1 DEF InProgress
    <3>2. QED
      BY <1>1, <1>5, <2>1, <3>1 DEF IInv, Accounted
  <2>4. QED
    BY <1>2, <1>3, <2>2, <2>3 DEF IInv
<1>7. CASE PrunedB
  <2>1. phase = "pruneB" /\ phase' = "decide" /\ a' = a /\ b' = at /\ root[at] = root[b] /\ bound[a] = 0
    BY <1>7 DEF IInv, PrunedB, Args
  <2>2. Walk' /\ Args' /\ Visit'
    BY <1>1, <1>3, <1>4, <2>1 DEF Walk, Args, Visit, Walking
  <2>3. Accounted'
    <3>1. \A x, y : InProgress(x, y) => InProgress(x, y)'
      BY <1>1, <2>1 DEF InProgress
    <3>2. QED
      BY <1>1, <1>5, <2>1, <3>1 DEF IInv, Accounted
  <2>4. QED
    BY <1>2, <1>3, <2>2, <2>3 DEF IInv
<1>8. QED
  BY <1>6, <1>7

\* The two arguments of the call in progress are ends of chains.
LEMMA Decided ==
    ASSUME IInv, phase \in {"decide", "bind"}
    PROVE  /\ a \in Made /\ b \in Made /\ root[a] = a /\ root[b] = b
           /\ todo \in Seq(Made \X Made)
           /\ \A c \in claims :
                \/ Settled(c[1], c[2])
                \/ \E i \in DOMAIN todo : c = todo[i]
                \/ root[c[1]] = a /\ root[c[2]] = b
                \/ IsVar(a) /\ root[c[1]] = b /\ root[c[2]] = a
<1>1. a \in Made /\ b \in Made /\ bound[a] = 0 /\ bound[b] = 0 /\ todo \in Seq(Made \X Made)
  BY Named DEF IInv, Args, TypeOK
<1>2. root[a] = a /\ root[b] = b
  BY <1>1 DEF IInv, Chains
<1>3. QED
  BY <1>1, <1>2 DEF IInv, Accounted, InProgress, Pending

LEMMA InvTrue ==
    ASSUME IInv, SameVar \/ Leaf
    PROVE  IInv'
<1>1. /\ phase = "decide" /\ Continue(todo) /\ UNCHANGED <<types, bound, root, claims>>
      /\ (IsVar(a) /\ a = b) \/ (~IsVar(a) /\ SameLeaf(a, b))
  BY DEF SameVar, Leaf
<1>2. TypeOK'
  BY TypeOKNext DEF IInv, Next, Step
<1>3. Chains' /\ Acyclic'
  BY <1>1, GraphSame DEF IInv
<1>4. \A c \in claims : Settled(c[1], c[2]) \/ \E i \in DOMAIN todo : c = todo[i]
  BY <1>1, Decided DEF Settled
<1>5. \A c \in claims' : Settled(c[1], c[2])' \/ \E i \in DOMAIN todo : c = todo[i]
  BY <1>1, <1>4, SettledKept
<1>6. Walk' /\ Args' /\ Visit' /\ Accounted'
  BY <1>1, <1>5, Decided, InvContinue DEF IInv
<1>7. QED
  BY <1>2, <1>3, <1>6 DEF IInv

LEMMA InvDecompose ==
    ASSUME IInv, Decompose
    PROVE  IInv'
<1> DEFINE queue == Pairs(a, b) \o todo
<1>1. /\ phase = "decide" /\ Continue(queue) /\ UNCHANGED <<types, bound, root>>
      /\ claims' = claims \cup {Pairs(a, b)[i] : i \in DOMAIN Pairs(a, b)}
      /\ ~IsVar(a) /\ SameArity(a, b) /\ Len(Kids(a)) = Len(Kids(b))
  BY DEF Decompose, SameArity
<1>2. TypeOK'
  BY TypeOKNext DEF IInv, Next, Step
<1>3. Chains' /\ Acyclic'
  BY <1>1, GraphSame DEF IInv
<1>4. /\ Pairs(a, b) \in Seq(Made \X Made)
      /\ DOMAIN Pairs(a, b) = 1 .. Len(Kids(a))
      /\ \A i \in 1 .. Len(Kids(a)) : Pairs(a, b)[i] = <<Kids(a)[i], Kids(b)[i]>>
      /\ todo \in Seq(Made \X Made)
  BY <1>1, PairsFacts, Decided DEF IInv
<1>5. /\ queue \in Seq(Made \X Made)
      /\ \A i \in DOMAIN Pairs(a, b) : \E j \in DOMAIN queue : Pairs(a, b)[i] = queue[j]
      /\ \A i \in DOMAIN todo : \E j \in DOMAIN queue : todo[i] = queue[j]
  <2>1. /\ queue \in Seq(Made \X Made)
        /\ Len(queue) = Len(Pairs(a, b)) + Len(todo)
        /\ \A i \in 1 .. Len(Pairs(a, b)) + Len(todo) : queue[i] =
             IF i <= Len(Pairs(a, b)) THEN Pairs(a, b)[i] ELSE todo[i - Len(Pairs(a, b))]
    BY <1>4, ConcatProperties
  <2>2. /\ DOMAIN queue = 1 .. Len(queue) /\ DOMAIN todo = 1 .. Len(todo)
        /\ DOMAIN Pairs(a, b) = 1 .. Len(Pairs(a, b))
        /\ Len(todo) \in Nat /\ Len(Pairs(a, b)) \in Nat
    BY <1>4, <2>1, LenProperties
  <2> HIDE DEF queue
  <2>3. ASSUME NEW i \in DOMAIN Pairs(a, b)
        PROVE  i \in DOMAIN queue /\ Pairs(a, b)[i] = queue[i]
    BY <2>1, <2>2
  <2>4. ASSUME NEW i \in DOMAIN todo
        PROVE  Len(Pairs(a, b)) + i \in DOMAIN queue /\ todo[i] = queue[Len(Pairs(a, b)) + i]
    BY <2>1, <2>2
  <2>5. QED
    BY <2>1, <2>3, <2>4
<1>6. \A c \in claims :
        \/ Settled(c[1], c[2])
        \/ \E i \in DOMAIN todo : c = todo[i]
        \/ root[c[1]] = a /\ root[c[2]] = b
  BY <1>1, Decided
<1>7. ASSUME NEW c \in claims, root[c[1]] = a, root[c[2]] = b
      PROVE  Settled(c[1], c[2])'
  <2>1. /\ root'[c[1]] = a /\ root'[c[2]] = b
        /\ \A n : Kids(n)' = Kids(n) /\ KindOf(n)' = KindOf(n)
    BY <1>1, <1>7, GraphSame
  <2>2. \A i \in 1 .. Len(Kids(a)) : <<Kids(a)[i], Kids(b)[i]>> \in claims'
    BY <1>1, <1>4
  <2>3. QED
    BY <1>1, <2>1, <2>2 DEF Settled, SameArity, KindOf, Kids
<1>8. \A c \in claims' : Settled(c[1], c[2])' \/ \E j \in DOMAIN queue : c = queue[j]
  <2>1. ASSUME NEW c \in claims
        PROVE  Settled(c[1], c[2])' \/ \E j \in DOMAIN queue : c = queue[j]
    <3>1. CASE Settled(c[1], c[2])
      BY <1>1, <3>1, SettledKept
    <3>2. QED
      BY <1>5, <1>6, <1>7, <3>1
  <2>2. ASSUME NEW i \in DOMAIN Pairs(a, b)
        PROVE  \E j \in DOMAIN queue : Pairs(a, b)[i] = queue[j]
    BY <1>5
  <2> HIDE DEF queue
  <2>3. ASSUME NEW c \in claims'
        PROVE  c \in claims \/ \E i \in DOMAIN Pairs(a, b) : c = Pairs(a, b)[i]
    BY <1>1
  <2>4. QED
    BY <2>1, <2>2, <2>3
<1>9. Walk' /\ Args' /\ Visit' /\ Accounted'
  BY <1>1, <1>5, <1>8, InvContinue DEF IInv
<1>10. QED
  BY <1>2, <1>3, <1>9 DEF IInv

LEMMA InvStartOccurs ==
    ASSUME IInv, StartOccurs
    PROVE  IInv'
<1>1. /\ phase = "decide" /\ phase' = "occurs" /\ at' = b /\ seen' = {} /\ IsVar(a) /\ a # b
      /\ UNCHANGED <<types, bound, todo, a, b, path, occ, error, calls, root, claims>>
  BY DEF StartOccurs
<1>2. TypeOK'
  BY TypeOKNext DEF IInv, Next, Step
<1>3. Chains' /\ Acyclic'
  BY <1>1, GraphSame DEF IInv
<1>4. Walk' /\ Args' /\ Visit'
  BY <1>1 DEF IInv, Walk, Args, Visit, Frontier, Walking, IsVar, KindOf
<1>5. Accounted'
  <2>1. \A x, y : Settled(x, y) => Settled(x, y)'
    BY <1>1, SettledKept
  <2>2. \A x, y : InProgress(x, y) => InProgress(x, y)'
    BY <1>1 DEF InProgress, IsVar, KindOf
  <2>3. QED
    BY <1>1, <2>1, <2>2 DEF IInv, Accounted, Pending
<1>6. QED
  BY <1>2, <1>3, <1>4, <1>5 DEF IInv

LEMMA InvSwap ==
    ASSUME IInv, Swap
    PROVE  IInv'
<1>1. /\ phase = "decide" /\ a' = b /\ b' = a /\ IsVar(b) /\ ~IsVar(a)
      /\ UNCHANGED <<types, bound, phase, todo, at, path, occ, error, calls, root, claims, seen>>
  BY DEF Swap
<1>2. TypeOK'
  BY TypeOKNext DEF IInv, Next, Step
<1>3. Chains' /\ Acyclic'
  BY <1>1, GraphSame DEF IInv
<1>4. Walk' /\ Args' /\ Visit'
  BY <1>1 DEF IInv, Walk, Args, Visit, Walking
<1>5. Accounted'
  <2>1. \A x, y : Settled(x, y) => Settled(x, y)'
    BY <1>1, SettledKept
  <2>2. IsVar(a)'
    BY <1>1 DEF IsVar, KindOf
  <2>3. \A x, y : InProgress(x, y) => InProgress(x, y)'
    BY <1>1, <2>2 DEF InProgress
  <2>4. QED
    BY <1>1, <2>1, <2>3 DEF IInv, Accounted, Pending
<1>6. QED
  BY <1>2, <1>3, <1>4, <1>5 DEF IInv

LEMMA InvFailed ==
    ASSUME IInv, Mismatch \/ Occurs
    PROVE  IInv'
<1>1. phase' = "failed" /\ UNCHANGED <<types, root>>
  BY DEF Mismatch, Occurs, Fail
<1>2. TypeOK'
  BY TypeOKNext DEF IInv, Next, Step
<1>3. Chains' /\ Acyclic'
  <2>1. CASE Mismatch
    BY <1>1, <2>1, GraphSame DEF IInv, Mismatch
  <2>2. CASE Occurs
    BY <1>1, <2>2, CompressFacts, CompressAcyclic DEF IInv, Occurs, Walking
  <2>3. QED
    BY <2>1, <2>2
<1>4. Walk' /\ Args' /\ Visit' /\ Accounted'
  BY <1>1 DEF Walk, Args, Visit, Accounted, Walking
<1>5. QED
  BY <1>2, <1>3, <1>4 DEF IInv

LEMMA InvLookedAt ==
    ASSUME IInv, LookedAt
    PROVE  IInv'
<1> DEFINE queue == Kids(at) \o occ
<1>1. /\ phase = "occurs" /\ AtEnd /\ at # a /\ Walking /\ bound' = Compressed /\ path' = {}
      /\ seen' = seen \cup path \cup {at} /\ Look(queue)
      /\ UNCHANGED <<types, todo, a, b, error, calls, root, claims>>
  BY DEF LookedAt, Walking
<1>2. TypeOK'
  BY TypeOKNext DEF IInv, Next, Step
<1>3. /\ Chains' /\ Acyclic' /\ Made' = Made
      /\ \A n : Kids(n)' = Kids(n) /\ KindOf(n)' = KindOf(n)
      /\ \A n \in Made : bound'[n] = 0 <=> bound[n] = 0
      /\ \A n \in Made \ path : Succ(n)' = Succ(n)
      /\ \A n \in path : Succ(n)' = {at}
  BY <1>1, CompressFacts, CompressAcyclic DEF IInv
<1>4. a \in Made /\ b \in Made /\ at \in Made /\ bound[at] = 0 /\ at \notin path /\ path \subseteq Made
      /\ seen \subseteq Made
  BY <1>1, Named DEF IInv, Walking, AtEnd, Walk
<1>5. /\ queue \in Seq(Made)
      /\ \A i \in DOMAIN Kids(at) : \E j \in DOMAIN queue : Kids(at)[i] = queue[j]
      /\ \A i \in DOMAIN occ : \E j \in DOMAIN queue : occ[i] = queue[j]
  <2>1. Kids(at) \in Seq(Made) /\ occ \in Seq(Made)
    BY <1>4, KidsMade DEF IInv, TypeOK
  <2>2. /\ queue \in Seq(Made)
        /\ Len(queue) = Len(Kids(at)) + Len(occ)
        /\ \A i \in 1 .. Len(Kids(at)) + Len(occ) : queue[i] =
             IF i <= Len(Kids(at)) THEN Kids(at)[i] ELSE occ[i - Len(Kids(at))]
    BY <2>1, ConcatProperties
  <2>3. /\ DOMAIN queue = 1 .. Len(queue) /\ DOMAIN occ = 1 .. Len(occ)
        /\ DOMAIN Kids(at) = 1 .. Len(Kids(at))
        /\ Len(occ) \in Nat /\ Len(Kids(at)) \in Nat
    BY <2>1, <2>2, LenProperties
  <2> HIDE DEF queue
  <2>4. ASSUME NEW i \in DOMAIN Kids(at)
        PROVE  i \in DOMAIN queue /\ Kids(at)[i] = queue[i]
    BY <2>2, <2>3
  <2>5. ASSUME NEW i \in DOMAIN occ
        PROVE  Len(Kids(at)) + i \in DOMAIN queue /\ occ[i] = queue[Len(Kids(at)) + i]
    BY <2>2, <2>3
  <2>6. QED
    BY <2>2, <2>4, <2>5
<1>6. /\ phase' \in {"occurs", "bind"}
      /\ \A i \in DOMAIN queue :
           phase' = "occurs" /\ (queue[i] = at' \/ queue[i] \in ToVisit')
  BY <1>1, <1>5, LookFacts DEF IInv
<1>7. /\ \A i \in DOMAIN Kids(at) : Kids(at)[i] \in Frontier'
      /\ ToVisit \subseteq Frontier'
  <2>1. \A j \in DOMAIN queue : queue[j] \in Frontier'
    BY <1>6 DEF Frontier
  <2> HIDE DEF queue
  <2>2. QED
    BY <1>5, <2>1 DEF ToVisit
<1>8. Walk' /\ Args'
  <2>1. bound[a] = 0 /\ bound[b] = 0 /\ IsVar(a) /\ a # b
    BY <1>1 DEF IInv, Args
  <2>2. bound'[a] = 0 /\ bound'[b] = 0 /\ IsVar(a)'
    BY <1>1, <1>3, <1>4, <2>1 DEF IsVar
  <2>3. QED
    BY <1>1, <1>6, <2>1, <2>2 DEF Walk, Args, Walking
<1>9. Visit'
  <2>1. /\ a \notin seen /\ b \in seen \cup path \cup {at} \cup ToVisit
        /\ \A n \in seen : Succ(n) \subseteq seen \cup path \cup {at} \cup ToVisit
    BY <1>1 DEF IInv, Visit, Frontier
  <2>2. a \notin path
    BY <1>1 DEF IInv, Args, Walk
  <2>3. a' \notin seen' /\ b' \in seen' \cup Frontier'
    BY <1>1, <1>7, <2>1, <2>2
  <2>4. ASSUME NEW n \in seen'
        PROVE  Succ(n)' \subseteq seen' \cup Frontier'
    <3>1. CASE n \in path
      BY <1>1, <1>3, <3>1
    <3>2. CASE n = at
      <4>1. Succ(n)' = {Kids(n)[i] : i \in DOMAIN Kids(n)}
        BY <1>3, <1>4, <3>2 DEF Succ
      <4>2. QED
        BY <1>7, <3>2, <4>1
    <3>3. CASE n \in seen \ path
      <4>1. Succ(n)' = Succ(n)
        BY <1>3, <1>4, <3>3
      <4>2. QED
        BY <1>1, <1>7, <2>1, <3>3, <4>1
    <3>4. QED
      BY <1>1, <3>1, <3>2, <3>3
  <2>5. QED
    BY <2>3, <2>4 DEF Visit
<1>10. Accounted'
  <2>1. \A x, y : Settled(x, y) => Settled(x, y)'
    BY <1>1, SettledKept
  <2>2. \A x, y : InProgress(x, y) => InProgress(x, y)'
    BY <1>1, <1>6 DEF InProgress, IsVar, KindOf
  <2>3. QED
    BY <1>1, <1>6, <2>1, <2>2 DEF IInv, Accounted, Pending
<1>11. QED
  BY <1>2, <1>3, <1>8, <1>9, <1>10 DEF IInv

LEMMA InvBind ==
    ASSUME IInv, Bind
    PROVE  IInv'
<1>1. /\ phase = "bind" /\ bound' = [bound EXCEPT ![a] = b] /\ Continue(todo)
      /\ root' = [n \in Node |-> IF root[n] = a THEN b ELSE root[n]]
      /\ UNCHANGED <<types, claims>>
  BY DEF Bind
<1>2. TypeOK'
  BY TypeOKNext DEF IInv, Next, Step
<1>3. /\ Chains' /\ Acyclic'
      /\ \A n : Kids(n)' = Kids(n) /\ KindOf(n)' = KindOf(n)
  BY <1>1, BindFacts DEF IInv
<1>4. IsVar(a)
  BY <1>1 DEF IInv, Args
<1>5. \A c \in claims : Settled(c[1], c[2])' \/ \E i \in DOMAIN todo : c = todo[i]
  <2> SUFFICES ASSUME NEW c \in claims
               PROVE  Settled(c[1], c[2])' \/ \E i \in DOMAIN todo : c = todo[i]
    OBVIOUS
  <2>1. /\ c[1] \in Node /\ c[2] \in Node
    BY Named DEF IInv, TypeOK
  <2>2. /\ root'[c[1]] = IF root[c[1]] = a THEN b ELSE root[c[1]]
        /\ root'[c[2]] = IF root[c[2]] = a THEN b ELSE root[c[2]]
    BY <1>1, <2>1
  <2>3. CASE root[c[1]] = root[c[2]]
    BY <2>2, <2>3 DEF Settled
  <2>4. CASE Settled(c[1], c[2]) /\ root[c[1]] # root[c[2]]
    <3>1. root[c[1]] # a /\ root[c[2]] # a
      BY <1>4, <2>4 DEF Settled, SameLeaf, SameArity, IsVar, Composite, Basic
    <3>2. root'[c[1]] = root[c[1]] /\ root'[c[2]] = root[c[2]]
      BY <2>2, <3>1
    <3>3. CASE SameLeaf(root[c[1]], root[c[2]])
      BY <1>1, <3>2, <3>3 DEF Settled, SameLeaf, KindOf
    <3>4. CASE SameArity(root[c[1]], root[c[2]]) /\
               \A i \in 1 .. Len(Kids(root[c[1]])) :
                 <<Kids(root[c[1]])[i], Kids(root[c[2]])[i]>> \in claims
      <4>1. SameArity(root[c[1]], root[c[2]])'
        BY <1>1, <3>2, <3>4 DEF SameArity, KindOf, Kids
      <4>2. /\ types'[root'[c[1]]].kids = Kids(root[c[1]])
            /\ types'[root'[c[2]]].kids = Kids(root[c[2]])
        BY <1>1, <3>2 DEF Kids
      <4>3. \A i \in 1 .. Len(types'[root'[c[1]]].kids) :
              <<types'[root'[c[1]]].kids[i], types'[root'[c[2]]].kids[i]>> \in claims'
        BY <1>1, <3>4, <4>2
      <4>4. QED
        BY <4>1, <4>3 DEF Settled, Kids
    <3>5. QED
      BY <2>4, <3>3, <3>4 DEF Settled
  <2>5. CASE (root[c[1]] = a /\ root[c[2]] = b) \/ (root[c[1]] = b /\ root[c[2]] = a)
    <3>1. root[b] = b /\ root[a] = a
      BY <1>1, Decided
    <3>2. root'[c[1]] = b /\ root'[c[2]] = b
      BY <2>2, <2>5, <3>1
    <3>3. QED
      BY <3>2 DEF Settled
  <2>6. \/ Settled(c[1], c[2])
        \/ \E i \in DOMAIN todo : c = todo[i]
        \/ root[c[1]] = a /\ root[c[2]] = b
        \/ IsVar(a) /\ root[c[1]] = b /\ root[c[2]] = a
    BY <1>1, Decided
  <2>7. QED
    BY <2>3, <2>4, <2>5, <2>6
<1>6. Walk' /\ Args' /\ Visit' /\ Accounted'
  <2>1. todo \in Seq(Made \X Made)
    BY DEF IInv, TypeOK
  <2>2. QED
    BY <1>1, <1>5, <2>1, InvContinue DEF IInv
<1>7. QED
  BY <1>2, <1>3, <1>6 DEF IInv

LEMMA InvInit == Init => IInv
<1> SUFFICES ASSUME Init PROVE IInv
  OBVIOUS
<1>1. TypeOK
  BY InitTypeOK
<1>2. /\ \A n \in Node : bound[n] = 0 /\ root[n] = n
      /\ phase = "idle" /\ todo = <<>> /\ path = {} /\ claims = {}
      /\ \A n \in Made : Kids(n) = <<>>
  <2>1. Len(types) = Len(Statics) /\ Len(Statics) \in Nat
    BY StaticsAreBasic, LenProperties DEF Init
  <2>2. QED
    BY <2>1 DEF Init, Made, Kids
<1>3. Made \subseteq Node
  BY <1>1, Named
<1>4. Chains /\ Walk /\ Args /\ Visit /\ Accounted
  BY <1>2, <1>3 DEF Chains, Walk, Args, Visit, Accounted, Walking
<1>5. Acyclic
  <2>1. \A n \in Made : Succ(n) = {}
    BY <1>2, <1>3 DEF Succ
  <2>2. QED
    BY <2>1 DEF Acyclic
<1>6. QED
  BY <1>1, <1>4, <1>5 DEF IInv

LEMMA InvNext == IInv /\ [Next]_vars => IInv'
<1> SUFFICES ASSUME IInv, [Next]_vars PROVE IInv'
  OBVIOUS
<1>1. ASSUME NEW s \in Shapes, NEW kids \in [1 .. s.arity -> Made], Alloc(s, kids)
      PROVE  IInv'
  BY <1>1, InvAlloc
<1>2. ASSUME NEW x \in Made, NEW y \in Made, Equate(x, y)
      PROVE  IInv'
  BY <1>2, InvEquate
<1>3. CASE Step
  BY <1>3, InvPruneStep, InvPruned, InvTrue, InvStartOccurs, InvSwap, InvDecompose, InvFailed,
     InvLookedAt, InvBind DEF Step
<1>4. CASE UNCHANGED vars
  <2>1. UNCHANGED <<types, bound, phase, todo, a, b, at, path, occ, error, calls, root, claims, seen>>
    BY <1>4 DEF vars
  <2>2. TypeOK'
    BY <1>4, TypeOKNext DEF IInv
  <2>3. Chains' /\ Acyclic'
    BY <2>1, GraphSame DEF IInv
  <2>4. Walk' /\ Args'
    BY <2>1 DEF IInv, Walk, Args, Walking, IsVar, KindOf
  <2>5. Visit'
    BY <2>1 DEF IInv, Visit, Frontier, ToVisit, Succ, Kids
  <2>6. Accounted'
    BY SMTT(30), <2>1 DEF IInv, Accounted, Settled, SameLeaf, SameArity, InProgress, Pending, IsVar, KindOf, Kids
  <2>7. QED
    BY <2>2, <2>3, <2>4, <2>5, <2>6 DEF IInv
<1>5. QED
  BY <1>1, <1>2, <1>3, <1>4 DEF Next

\* A chain of bindings does not come back to a variable of it.
LEMMA NotPassed ==
    ASSUME IInv, Walking
    PROVE  at \notin path
<1> SUFFICES ASSUME at \in path PROVE FALSE
  OBVIOUS
<1>1. path \in SUBSET Made /\ path # {}
  BY Named DEF IInv
<1>2. \A p \in path : Succ(p) \cap path # {}
  BY DEF IInv, Walk, Succ
<1> QED
  BY <1>1, <1>2 DEF IInv, Acyclic

-----------------------------------------------------------------------------
(* Theorems *)

\* No type ever contains itself: the occurs check keeps the types a finite
\* structure, on which prune, occurs_in and unify come to an end.
THEOREM TypesStayFinite == Spec => []Acyclic
<1>1. Init => IInv
  BY InvInit
<1>2. IInv /\ [Next]_vars => IInv'
  BY InvNext
<1>3. IInv => Acyclic
  BY DEF IInv
<1>4. QED
  BY <1>1, <1>2, <1>3, PTL DEF Spec

\* Every equation that unify has said yes to holds under the bindings from
\* then on, and with it those it was split into.
THEOREM EquationsStay == Spec => []EquationsHold
<1>1. Init => IInv
  BY InvInit
<1>2. IInv /\ [Next]_vars => IInv'
  BY InvNext
<1>3. IInv => EquationsHold
  <2> SUFFICES ASSUME IInv PROVE EquationsHold
    OBVIOUS
  <2>1. phase = "idle" => Pending = {}
    BY DEF IInv, Args, Pending
  <2>2. phase = "idle" => \A c \in claims : Settled(c[1], c[2])
    BY <2>1 DEF IInv, Accounted, InProgress
  <2>3. QED
    BY <2>2 DEF EquationsHold, IInv, Chains
<1>4. QED
  BY <1>1, <1>2, <1>3, PTL DEF Spec

\* prune never comes back to a variable it has passed: the walk along a chain
\* of bindings ends.
WalkAdvances == phase \in {"pruneA", "pruneB", "occurs"} => at \notin path

THEOREM PruneEnds == Spec => []WalkAdvances
<1>1. Init => IInv
  BY InvInit
<1>2. IInv /\ [Next]_vars => IInv'
  BY InvNext
<1>3. IInv => WalkAdvances
  BY NotPassed DEF WalkAdvances, Walking
<1>4. QED
  BY <1>1, <1>2, <1>3, PTL DEF Spec

-----------------------------------------------------------------------------
(* Ways down, in any graph *)

Less == {p \in Nat \X Nat : p[1] < p[2]}

\* Induction, with a set for what is to be shown.
LEMMA AllUpTo ==
    ASSUME NEW n \in Nat, NEW S \in SUBSET (0 .. n), 0 \in S,
           \A i \in S : i < n => i + 1 \in S
    PROVE  S = 0 .. n
<1> SUFFICES ASSUME NEW x \in (0 .. n) \ S PROVE FALSE
  OBVIOUS
<1> DEFINE R == (0 .. n) \ S
<1>1. IsWellFoundedOn(Less, Nat)
  BY NatLessThanWellFounded DEF Less, OpToRel
<1>2. R \subseteq Nat /\ R # {}
  OBVIOUS
<1> HIDE DEF R
<1>3. PICK m \in R : \A i \in R : ~(<<i, m>> \in Less)
  BY <1>1, <1>2, WFMin
<1>4. m \in 0 .. n /\ m \notin S /\ m # 0
  BY <1>3 DEF R
<1> DEFINE k == m - 1
<1>5. k \in 0 .. n /\ k < m /\ k < n /\ k + 1 = m
  BY <1>4
<1> HIDE DEF k
<1>6. <<k, m>> \in Less
  BY <1>4, <1>5 DEF Less
<1>7. k \in S
  BY <1>3, <1>5, <1>6 DEF R
<1> QED
  BY <1>4, <1>5, <1>7

LEMMA FiniteImage ==
    ASSUME NEW S, IsFiniteSet(S), NEW f, f \in [S -> {f[x] : x \in S}]
    PROVE  IsFiniteSet({f[x] : x \in S})
<1>1. f \in Surjection(S, {f[x] : x \in S})
  BY DEF Surjection
<1> QED
  BY <1>1, FS_Surjection

\* A graph: places are of nodes, each node has the places below it.
PlaceGraph(N, E, g) ==
    /\ IsFiniteSet(E)
    /\ \A e \in E : e[1] \in N
    /\ g \in [N -> SUBSET E]

Down(w, P, g) ==
    /\ w[1] \in P
    /\ \A j \in 1 .. Len(w) - 1 : w[j + 1] \in g[w[j][1]]

\* The ways of up to d steps.
AllWays(P, g, E, d) == {w \in Seq(E) : w # <<>> /\ Len(w) <= d /\ Down(w, P, g)}

\* The ways that are one step longer than those of a set, and those of one step.
Longer(ws, P, g) ==
    {<<p>> : p \in P} \cup UNION {{Append(w, p) : p \in g[w[Len(w)][1]]} : w \in ws}

LEMMA OneStep ==
    ASSUME NEW N, NEW E, NEW g, PlaceGraph(N, E, g), NEW P \in SUBSET E, NEW p \in P
    PROVE  /\ <<p>> \in Seq(E) /\ <<p>> # <<>> /\ Len(<<p>>) = 1
           /\ Down(<<p>>, P, g)
<1>1. p \in E
  OBVIOUS
<1>2. <<p>> \in Seq(E) /\ <<p>> # <<>> /\ Len(<<p>>) = 1 /\ <<p>>[1] = p
  BY <1>1
<1>3. 1 .. Len(<<p>>) - 1 = {}
  BY <1>2
<1> QED
  BY <1>2, <1>3 DEF Down

LEMMA StepMore ==
    ASSUME NEW N, NEW E, NEW g, PlaceGraph(N, E, g), NEW P \in SUBSET E,
           NEW w \in Seq(E), w # <<>>, Down(w, P, g), NEW p \in g[w[Len(w)][1]]
    PROVE  /\ Append(w, p) \in Seq(E) /\ Append(w, p) # <<>> /\ Len(Append(w, p)) = Len(w) + 1
           /\ Down(Append(w, p), P, g)
<1>1. Len(w) \in Nat \ {0}
  BY EmptySeq
<1>2. w[Len(w)] \in E
  BY <1>1, ElementOfSeq
<1>3. g[w[Len(w)][1]] \subseteq E
  BY <1>2 DEF PlaceGraph
<1>4. p \in E
  BY <1>3
<1> DEFINE v == Append(w, p)
<1>5. /\ v \in Seq(E) /\ Len(v) = Len(w) + 1 /\ v[Len(w) + 1] = p
      /\ \A i \in 1 .. Len(w) : v[i] = w[i]
  BY <1>4, AppendProperties
<1> HIDE DEF v
<1>6. v # <<>> /\ v[1] \in P
  BY <1>1, <1>5, EmptySeq DEF Down
<1>7. ASSUME NEW j \in 1 .. Len(v) - 1
      PROVE  v[j + 1] \in g[v[j][1]]
  <2>1. j \in 1 .. Len(w) /\ v[j] = w[j]
    BY <1>1, <1>5
  <2>2. CASE j = Len(w)
    BY <1>5, <2>1, <2>2
  <2>3. CASE j # Len(w)
    <3>1. j \in 1 .. Len(w) - 1 /\ j + 1 \in 1 .. Len(w)
      BY <1>1, <2>1, <2>3
    <3> QED
      BY <1>5, <2>1, <3>1 DEF Down
  <2> QED
    BY <2>2, <2>3
<1> QED
  BY <1>5, <1>6, <1>7 DEF Down, v

LEMMA StepLess ==
    ASSUME NEW N, NEW E, NEW g, PlaceGraph(N, E, g), NEW P \in SUBSET E,
           NEW w \in Seq(E), w # <<>>, Down(w, P, g)
    PROVE  \/ \E p \in P : w = <<p>>
           \/ \E v \in Seq(E) : /\ v # <<>> /\ Len(w) = Len(v) + 1 /\ Down(v, P, g)
                                /\ \E p \in g[v[Len(v)][1]] : w = Append(v, p)
<1> DEFINE n == Len(w)
<1>1. n \in Nat \ {0} /\ DOMAIN w = 1 .. n
  BY EmptySeq, LenProperties
<1>2. CASE n = 1
  <2>1. w[1] \in P /\ w[1] \in E
    BY DEF Down
  <2>2. <<w[1]>> \in Seq(E) /\ Len(<<w[1]>>) = 1 /\ <<w[1]>>[1] = w[1]
    BY <2>1
  <2>3. w = <<w[1]>>
    BY <1>2, <2>2, SeqEqual
  <2> QED
    BY <2>1, <2>3
<1>3. CASE n # 1
  <2> DEFINE m == n - 1
             v == [i \in 1 .. m |-> w[i]]
             p == w[n]
  <2>1. m \in Nat \ {0} /\ n = m + 1 /\ n \in 1 .. n
    BY <1>1, <1>3
  <2>2. /\ \A i \in 1 .. n : w[i] \in E
        /\ \A j \in 1 .. n - 1 : w[j + 1] \in g[w[j][1]]
        /\ w[1] \in P
    BY ElementOfSeq DEF Down
  <2> HIDE DEF n, m
  <2>3. v \in [1 .. m -> E] /\ p \in E
    BY <2>1, <2>2
  <2>4. v \in Seq(E)
    BY <2>1, <2>3, SeqDef
  <2>5. Len(v) = m /\ \A i \in 1 .. m : v[i] = w[i]
    BY <2>1, <2>3, <2>4, LenProperties
  <2> HIDE DEF v
  <2>6. v # <<>>
    BY <2>1, <2>5, EmptySeq
  <2>7. Down(v, P, g)
    <3>1. ASSUME NEW j \in 1 .. m - 1
          PROVE  v[j + 1] \in g[v[j][1]]
      <4>1. j \in 1 .. m /\ j + 1 \in 1 .. m /\ j \in 1 .. n - 1
        BY <2>1
      <4> QED
        BY <2>2, <2>5, <4>1
    <3>2. v[1] \in P
      BY <2>1, <2>2, <2>5
    <3> QED
      BY <2>5, <3>1, <3>2 DEF Down
  <2>8. p \in g[v[m][1]]
    <3>1. m \in 1 .. n - 1 /\ m \in 1 .. m /\ m + 1 = n
      BY <2>1
    <3> QED
      BY <2>2, <2>5, <3>1
  <2>9. w = Append(v, p)
    <3> DEFINE x == Append(v, p)
    <3>1. /\ x \in Seq(E) /\ Len(x) = m + 1 /\ x[m + 1] = p
          /\ \A i \in 1 .. m : x[i] = v[i]
      BY <2>3, <2>4, <2>5, AppendProperties
    <3> HIDE DEF x
    <3>2. \A i \in 1 .. n : w[i] = x[i]
      BY <2>1, <2>5, <3>1 DEF p
    <3>3. Len(w) = n /\ Len(x) = n
      BY <2>1, <3>1 DEF n
    <3>4. w = x
      BY <3>1, <3>2, <3>3, SeqEqual
    <3> QED
      BY <3>4 DEF x
  <2> QED
    BY <2>1, <2>4, <2>5, <2>6, <2>7, <2>8, <2>9 DEF n
<1> QED
  BY <1>2, <1>3

\* One step more, all together.
LEMMA WaysOneMore ==
    ASSUME NEW N, NEW E, NEW g, PlaceGraph(N, E, g), NEW P \in SUBSET E, NEW k \in Nat
    PROVE  AllWays(P, g, E, k + 1) = Longer(AllWays(P, g, E, k), P, g)
<1> DEFINE A == AllWays(P, g, E, k + 1)
           B == UNION {{Append(w, p) : p \in g[w[Len(w)][1]]} : w \in AllWays(P, g, E, k)}
<1>1. ASSUME NEW w \in A
      PROVE  w \in {<<p>> : p \in P} \cup B
  <2>1. w \in Seq(E) /\ w # <<>> /\ Len(w) <= k + 1 /\ Down(w, P, g)
    BY DEF AllWays
  <2>2. CASE \E p \in P : w = <<p>>
    BY <2>2
  <2>3. CASE \E v \in Seq(E) : /\ v # <<>> /\ Len(w) = Len(v) + 1 /\ Down(v, P, g)
                               /\ \E p \in g[v[Len(v)][1]] : w = Append(v, p)
    <3>1. PICK v \in Seq(E) : /\ v # <<>> /\ Len(w) = Len(v) + 1 /\ Down(v, P, g)
                              /\ \E p \in g[v[Len(v)][1]] : w = Append(v, p)
      BY <2>3
    <3>2. Len(v) <= k
      BY <2>1, <3>1, LenProperties
    <3>3. v \in AllWays(P, g, E, k)
      BY <3>1, <3>2 DEF AllWays
    <3>4. w \in {Append(v, p) : p \in g[v[Len(v)][1]]}
      BY <3>1
    <3>5. w \in B
      BY <3>3, <3>4
    <3> QED
      BY <3>5
  <2>4. \/ \E p \in P : w = <<p>>
        \/ \E v \in Seq(E) : /\ v # <<>> /\ Len(w) = Len(v) + 1 /\ Down(v, P, g)
                             /\ \E p \in g[v[Len(v)][1]] : w = Append(v, p)
    <3> HIDE DEF A, B
    <3> QED
      BY <2>1, StepLess
  <2> QED
    BY <2>2, <2>3, <2>4
<1>2. ASSUME NEW p \in P
      PROVE  <<p>> \in A
  BY OneStep DEF AllWays
<1>3. ASSUME NEW w \in AllWays(P, g, E, k), NEW p \in g[w[Len(w)][1]]
      PROVE  Append(w, p) \in A
  <2>1. w \in Seq(E) /\ w # <<>> /\ Len(w) <= k /\ Down(w, P, g)
    BY DEF AllWays
  <2>2. /\ Append(w, p) \in Seq(E) /\ Append(w, p) # <<>> /\ Len(Append(w, p)) = Len(w) + 1
        /\ Down(Append(w, p), P, g)
    BY <2>1, StepMore
  <2>3. Len(Append(w, p)) <= k + 1
    BY <2>1, <2>2, LenProperties
  <2> QED
    BY <2>2, <2>3 DEF AllWays
<1>4. ASSUME NEW x \in B
      PROVE  x \in A
  <2>1. PICK w \in AllWays(P, g, E, k) : x \in {Append(w, p) : p \in g[w[Len(w)][1]]}
    OBVIOUS
  <2>2. PICK p \in g[w[Len(w)][1]] : x = Append(w, p)
    BY <2>1
  <2> HIDE DEF A
  <2> QED
    BY <1>3, <2>2
<1> HIDE DEF A, B
<1>5. A = {<<p>> : p \in P} \cup B
  BY <1>1, <1>2, <1>4
<1> QED
  BY <1>5 DEF A, B, Longer

LEMMA NoWays ==
    ASSUME NEW N, NEW E, NEW g, NEW P
    PROVE  AllWays(P, g, E, 0) = {}
<1> SUFFICES ASSUME NEW w \in AllWays(P, g, E, 0) PROVE FALSE
  OBVIOUS
<1>1. w \in Seq(E) /\ w # <<>> /\ Len(w) <= 0
  BY DEF AllWays
<1> QED
  BY <1>1, EmptySeq

\* What Ways computes.
LEMMA WaysAre ==
    ASSUME NEW N, NEW E, NEW g, PlaceGraph(N, E, g), NEW P \in SUBSET E, NEW d \in Nat
    PROVE  Ways(P, g, d) = AllWays(P, g, E, d)
<1> DEFINE More(x) == Longer(x, P, g)
           Rec(f) == [k \in 0 .. d |-> IF k = 0 THEN {} ELSE More(f[k - 1])]
           r == CHOOSE f : f = Rec(f)
           G(k) == AllWays(P, g, E, k)
<1>1. Ways(P, g, d) = r[d]
  BY DEF Ways, Longer
<1>2. \A k \in Nat : G(k + 1) = More(G(k))
  <2> HIDE DEF r
  <2> SUFFICES ASSUME NEW k \in Nat PROVE G(k + 1) = More(G(k))
    OBVIOUS
  <2>1. AllWays(P, g, E, k + 1) = Longer(AllWays(P, g, E, k), P, g)
    BY WaysOneMore
  <2> QED
    BY <2>1
<1>3. G(0) = {}
  BY NoWays
<1> HIDE DEF G, More
<1>4. \A k \in 1 .. d : G(k) = More(G(k - 1))
  <2> SUFFICES ASSUME NEW k \in 1 .. d PROVE G(k) = More(G(k - 1))
    OBVIOUS
  <2> DEFINE j == k - 1
  <2>1. j \in Nat /\ j + 1 = k
    OBVIOUS
  <2> HIDE DEF j
  <2>2. G(k) = More(G(j))
    BY <1>2, <2>1
  <2> QED
    BY <2>2 DEF j
<1>5. \E f : f = Rec(f)
  <2> DEFINE f == [k \in 0 .. d |-> G(k)]
  <2>1. \A k \in 0 .. d : f[k] = IF k = 0 THEN {} ELSE More(f[k - 1])
    <3> SUFFICES ASSUME NEW k \in 0 .. d PROVE f[k] = IF k = 0 THEN {} ELSE More(f[k - 1])
      OBVIOUS
    <3>1. CASE k = 0
      BY <1>3, <3>1
    <3>2. CASE k # 0
      <4>1. k \in 1 .. d /\ k - 1 \in 0 .. d
        BY <3>2
      <4>2. f[k] = G(k) /\ f[k - 1] = G(k - 1)
        BY <4>1
      <4> QED
        BY <1>4, <3>2, <4>1, <4>2
    <3> QED
      BY <3>1, <3>2
  <2>2. f = Rec(f)
    BY <2>1
  <2> HIDE DEF f
  <2> QED
    BY <2>2
<1>6. r = Rec(r)
  BY <1>5
<1> HIDE DEF r
<1>7. \A k \in 0 .. d : r[k] = IF k = 0 THEN {} ELSE More(r[k - 1])
  BY <1>6
<1> DEFINE S == {k \in 0 .. d : r[k] = G(k)}
<1>8. 0 \in S
  <2>1. 0 \in 0 .. d
    OBVIOUS
  <2>2. r[0] = {}
    BY <1>7, <2>1
  <2> QED
    BY <1>3, <2>1, <2>2
<1>9. ASSUME NEW i \in S, i < d
      PROVE  i + 1 \in S
  <2> DEFINE j == i + 1
  <2>1. j \in 1 .. d /\ j \in 0 .. d /\ j - 1 = i /\ j # 0 /\ r[i] = G(i)
    BY <1>9
  <2> HIDE DEF j
  <2>2. r[j] = More(r[j - 1]) /\ G(j) = More(G(j - 1))
    BY <1>4, <1>7, <2>1
  <2>3. r[j] = G(j)
    BY <2>1, <2>2
  <2> QED
    BY <2>1, <2>3 DEF j
<1> HIDE DEF S
<1>10. S = 0 .. d
  BY <1>8, <1>9, AllUpTo DEF S
<1>11. d \in S
  BY <1>10
<1>12. r[d] = G(d)
  BY <1>11 DEF S
<1> QED
  BY <1>1, <1>12 DEF G

LEMMA FinitelyManyWays ==
    ASSUME NEW N, NEW E, NEW g, PlaceGraph(N, E, g), NEW P \in SUBSET E, NEW d \in Nat
    PROVE  IsFiniteSet(AllWays(P, g, E, d))
<1> DEFINE G(k) == AllWays(P, g, E, k)
           S == {k \in 0 .. d : IsFiniteSet(G(k))}
<1>1. 0 \in S
  BY NoWays, FS_EmptySet
<1>2. ASSUME NEW i \in S, i < d
      PROVE  i + 1 \in S
  <2> DEFINE C == E \cup (G(i) \X E)
             D == E \X {0, 1}
             f == [x \in G(i) \X E |-> Append(x[1], x[2])]
             h == [p \in E |-> <<p>>]
             F == {f[x] : x \in G(i) \X E}
             H == {h[p] : p \in E}
  <2>1. IsFiniteSet(E) /\ IsFiniteSet(G(i)) /\ i \in Nat
    BY <1>2 DEF PlaceGraph
  <2>2. IsFiniteSet(G(i) \X E)
    BY <2>1, FS_Product
  <2>3. IsFiniteSet(F)
    <3>1. f \in [G(i) \X E -> F]
      OBVIOUS
    <3> HIDE DEF f, G
    <3> QED
      BY <2>2, <3>1, FiniteImage
  <2>4. IsFiniteSet(H)
    <3>1. h \in [E -> H]
      OBVIOUS
    <3> HIDE DEF h
    <3> QED
      BY <2>1, <3>1, FiniteImage
  <2>5. IsFiniteSet(F \cup H)
    BY <2>3, <2>4, FS_Union
  <2>6. G(i + 1) \subseteq F \cup H
    <3> HIDE DEF C, D
    <3> SUFFICES ASSUME NEW w \in G(i + 1) PROVE w \in F \cup H
      OBVIOUS
    <3>1. G(i + 1) = {<<p>> : p \in P}
                     \cup UNION {{Append(v, p) : p \in g[v[Len(v)][1]]} : v \in G(i)}
      <4>1. AllWays(P, g, E, i + 1) = Longer(AllWays(P, g, E, i), P, g)
        BY <2>1, WaysOneMore
      <4> QED
        BY <4>1 DEF Longer
    <3>2. CASE \E p \in P : w = <<p>>
      <4>1. PICK p \in P : w = <<p>>
        BY <3>2
      <4>2. p \in E /\ h[p] = <<p>>
        OBVIOUS
      <4>3. h[p] \in H
        BY <4>2
      <4> QED
        BY <4>1, <4>2, <4>3
    <3>3. CASE \E v \in G(i) : \E p \in g[v[Len(v)][1]] : w = Append(v, p)
      <4>1. PICK v \in G(i) : \E p \in g[v[Len(v)][1]] : w = Append(v, p)
        BY <3>3
      <4>2. PICK p \in g[v[Len(v)][1]] : w = Append(v, p)
        BY <4>1
      <4>3. p \in E
        <5>1. v \in Seq(E) /\ v # <<>>
          BY DEF AllWays
        <5>2. Len(v) \in 1 .. Len(v)
          BY <5>1, EmptySeq
        <5>3. v[Len(v)] \in E
          BY <5>1, <5>2, ElementOfSeq
        <5>4. g[v[Len(v)][1]] \subseteq E
          BY <5>3 DEF PlaceGraph
        <5> QED
          BY <5>4
      <4>4. <<v, p>> \in G(i) \X E
        BY <4>3
      <4> HIDE DEF G
      <4>5. f[<<v, p>>] = Append(v, p)
        BY <4>4
      <4>6. f[<<v, p>>] \in F
        BY <4>4
      <4> QED
        BY <4>2, <4>5, <4>6
    <3> HIDE DEF G, F, H
    <3> QED
      BY <3>1, <3>2, <3>3
  <2>7. IsFiniteSet(G(i + 1))
    <3> HIDE DEF G, F, H
    <3> QED
      BY <2>5, <2>6, FS_Subset
  <2>8. i + 1 \in 0 .. d
    BY <1>2
  <2> QED
    BY <2>7, <2>8
<1> HIDE DEF S
<1>3. S = 0 .. d
  BY <1>1, <1>2, AllUpTo DEF S
<1>4. d \in S
  BY <1>3
<1> QED
  BY <1>4 DEF S

\* A way with one more step before it, and one that begins at another place.
Pushed(e, w) == [j \in 1 .. Len(w) + 1 |-> IF j = 1 THEN e ELSE w[j - 1]]
Moved(p, w) == [j \in 1 .. Len(w) |-> IF j = 1 THEN p ELSE w[j]]

LEMMA PushedIsWay ==
    ASSUME NEW N, NEW E, NEW g, PlaceGraph(N, E, g), NEW P \in SUBSET E, NEW R \in SUBSET E,
           NEW e \in P, NEW w \in Seq(E), w # <<>>, Down(w, R, g), w[1] \in g[e[1]]
    PROVE  /\ Pushed(e, w) \in Seq(E) /\ Pushed(e, w) # <<>> /\ Len(Pushed(e, w)) = Len(w) + 1
           /\ Pushed(e, w)[1] = e
           /\ \A j \in 1 .. Len(w) : Pushed(e, w)[j + 1] = w[j]
           /\ Down(Pushed(e, w), P, g)
<1> DEFINE n == Len(w)
           v == Pushed(e, w)
<1>1. n \in Nat \ {0} /\ (\A i \in 1 .. n : w[i] \in E)
      /\ \A j \in 1 .. n - 1 : w[j + 1] \in g[w[j][1]]
  BY EmptySeq, ElementOfSeq DEF Down
<1> HIDE DEF n
<1>2. \A j \in 1 .. n + 1 : v[j] = IF j = 1 THEN e ELSE w[j - 1]
  BY DEF Pushed, n
<1>3. v \in [1 .. n + 1 -> E]
  <2> SUFFICES ASSUME NEW j \in 1 .. n + 1 PROVE (IF j = 1 THEN e ELSE w[j - 1]) \in E
    BY DEF Pushed, n
  <2>1. j # 1 => j - 1 \in 1 .. n
    BY <1>1
  <2> QED
    BY <1>1, <2>1
<1>4. v \in Seq(E) /\ Len(v) = n + 1
  <2>1. n + 1 \in Nat
    BY <1>1
  <2> HIDE DEF v
  <2>2. v \in Seq(E)
    BY <1>3, <2>1, SeqDef
  <2>3. Len(v) \in Nat /\ DOMAIN v = 1 .. Len(v) /\ DOMAIN v = 1 .. n + 1
    BY <1>3, <2>2, LenProperties
  <2> QED
    BY <2>1, <2>2, <2>3
<1> HIDE DEF v
<1>5. v[1] = e /\ v # <<>>
  BY <1>1, <1>2, <1>4, EmptySeq
<1>6. ASSUME NEW j \in 1 .. n
      PROVE  v[j + 1] = w[j]
  <2>1. j + 1 \in 1 .. n + 1 /\ j + 1 # 1 /\ (j + 1) - 1 = j
    BY <1>1
  <2> QED
    BY <1>2, <2>1
<1>7. ASSUME NEW j \in 1 .. Len(v) - 1
      PROVE  v[j + 1] \in g[v[j][1]]
  <2>1. j \in 1 .. n
    BY <1>1, <1>4
  <2>2. CASE j = 1
    BY <1>5, <1>6, <2>1, <2>2
  <2>3. CASE j # 1
    <3> DEFINE i == j - 1
    <3>1. i \in 1 .. n - 1 /\ i \in 1 .. n /\ j = i + 1
      BY <1>1, <2>1, <2>3
    <3> HIDE DEF i
    <3>2. v[j + 1] = w[j] /\ v[j] = w[i] /\ w[i + 1] \in g[w[i][1]]
      BY <1>1, <1>6, <2>1, <3>1
    <3> QED
      BY <3>1, <3>2
  <2> QED
    BY <2>2, <2>3
<1> QED
  BY <1>4, <1>5, <1>6, <1>7 DEF Down, v, n

LEMMA MovedIsWay ==
    ASSUME NEW N, NEW E, NEW g, PlaceGraph(N, E, g), NEW P \in SUBSET E, NEW R \in SUBSET E,
           NEW p \in P, NEW w \in Seq(E), w # <<>>, Down(w, R, g),
           p[1] = w[1][1] \/ g[w[1][1]] = {}
    PROVE  /\ Moved(p, w) \in Seq(E) /\ Moved(p, w) # <<>> /\ Len(Moved(p, w)) = Len(w)
           /\ Moved(p, w)[1] = p
           /\ \A j \in 1 .. Len(w) : j # 1 => Moved(p, w)[j] = w[j]
           /\ Down(Moved(p, w), P, g)
<1> DEFINE n == Len(w)
           v == Moved(p, w)
<1>1. n \in Nat \ {0} /\ (\A i \in 1 .. n : w[i] \in E)
      /\ \A j \in 1 .. n - 1 : w[j + 1] \in g[w[j][1]]
  BY EmptySeq, ElementOfSeq DEF Down
<1> HIDE DEF n
<1>2. \A j \in 1 .. n : v[j] = IF j = 1 THEN p ELSE w[j]
  BY DEF Moved, n
<1>3. v \in [1 .. n -> E]
  BY <1>1 DEF Moved, n
<1> HIDE DEF v
<1>4. v \in Seq(E) /\ Len(v) = n
  <2>1. n \in Nat
    BY <1>1
  <2>2. v \in Seq(E)
    BY <1>3, <2>1, SeqDef
  <2>3. Len(v) \in Nat /\ DOMAIN v = 1 .. Len(v) /\ DOMAIN v = 1 .. n
    BY <1>3, <2>2, LenProperties
  <2>4. ASSUME NEW m \in Nat, 1 .. m = 1 .. n
        PROVE  m = n
    <3>1. n \in 1 .. m
      BY <1>1, <2>4
    <3> QED
      BY <2>1, <2>4, <3>1
  <2> QED
    BY <2>2, <2>3, <2>4
<1>5. v[1] = p /\ v # <<>>
  BY <1>1, <1>2, <1>4, EmptySeq
<1>6. ASSUME NEW j \in 1 .. Len(v) - 1
      PROVE  v[j + 1] \in g[v[j][1]]
  <2>1. j \in 1 .. n - 1 /\ j \in 1 .. n /\ j + 1 \in 1 .. n /\ j + 1 # 1
    BY <1>1, <1>4
  <2>2. v[j + 1] = w[j + 1] /\ w[j + 1] \in g[w[j][1]]
    BY <1>1, <1>2, <2>1
  <2>3. CASE j = 1
    <3>1. g[w[1][1]] # {}
      BY <2>2, <2>3
    <3> QED
      BY <1>5, <2>2, <2>3, <3>1
  <2>4. CASE j # 1
    BY <1>2, <2>1, <2>2, <2>4
  <2> QED
    BY <2>3, <2>4
<1> QED
  BY <1>2, <1>4, <1>5, <1>6 DEF Down, v, n

LEMMA AtMostAsMany ==
    ASSUME NEW A, NEW B, IsFiniteSet(B), NEW f \in [A -> B],
           \A x, y \in A : f[x] = f[y] => x = y
    PROVE  /\ IsFiniteSet(A) /\ Cardinality(A) <= Cardinality(B)
           /\ Cardinality(A) \in Nat /\ Cardinality(B) \in Nat
<1>1. f \in Injection(A, B)
  BY DEF Injection, IsInjective
<1>2. IsFiniteSet(A) /\ Cardinality(A) <= Cardinality(B)
  BY <1>1, FS_Injection
<1> QED
  BY <1>2, FS_CardinalityType

LEMMA SameWay ==
    ASSUME NEW E, NEW v \in Seq(E), NEW w \in Seq(E), v # <<>>, w # <<>>,
           Len(v) = Len(w), v[1] = w[1], \A j \in 1 .. Len(v) : j # 1 => v[j] = w[j]
    PROVE  v = w
<1>1. \A j \in 1 .. Len(v) : v[j] = w[j]
  OBVIOUS
<1> QED
  BY <1>1, SeqEqual

\* One place, e, is given up for those below it, the others are renumbered:
\* then there are fewer ways.
LEMMA FewerWays ==
    ASSUME NEW N, NEW E, NEW g, PlaceGraph(N, E, g), NEW d \in Nat,
           NEW P \in SUBSET E, NEW R \in SUBSET E,
           \A w \in Seq(E) : w # <<>> /\ Down(w, P, g) => Len(w) <= d,
           NEW e \in P, NEW Q \in SUBSET R, Q \subseteq g[e[1]],
           NEW h \in [R \ Q -> P \ {e}],
           \A x, y \in R \ Q : h[x] = h[y] => x = y,
           \A x \in R \ Q : h[x][1] = x[1]
    PROVE  Cardinality(AllWays(R, g, E, d)) < Cardinality(AllWays(P, g, E, d))
<1> DEFINE A == AllWays(R, g, E, d)
           B == AllWays(P, g, E, d)
           F(w) == IF w[1] \in Q THEN Pushed(e, w) ELSE Moved(h[w[1]], w)
           f == [w \in A |-> F(w)]
<1>1. ASSUME NEW w \in A
      PROVE  w \in Seq(E) /\ w # <<>> /\ Down(w, R, g) /\ w[1] \in R /\ Len(w) \in Nat
  BY LenProperties DEF AllWays, Down
<1>2. ASSUME NEW w \in A, w[1] \in Q
      PROVE  /\ Pushed(e, w) \in B /\ Pushed(e, w)[1] = e
             /\ Len(Pushed(e, w)) = Len(w) + 1 /\ \A j \in 1 .. Len(w) : Pushed(e, w)[j + 1] = w[j]
  <2>1. w \in Seq(E) /\ w # <<>> /\ Down(w, R, g) /\ w[1] \in g[e[1]]
    BY <1>1, <1>2
  <2>2. /\ Pushed(e, w) \in Seq(E) /\ Pushed(e, w) # <<>> /\ Len(Pushed(e, w)) = Len(w) + 1
        /\ Pushed(e, w)[1] = e
        /\ \A j \in 1 .. Len(w) : Pushed(e, w)[j + 1] = w[j]
        /\ Down(Pushed(e, w), P, g)
    BY <2>1, PushedIsWay
  <2> QED
    BY <2>2 DEF AllWays
<1>3. ASSUME NEW w \in A, w[1] \notin Q
      PROVE  /\ Moved(h[w[1]], w) \in B /\ Moved(h[w[1]], w)[1] = h[w[1]] /\ h[w[1]] # e
             /\ Len(Moved(h[w[1]], w)) = Len(w)
             /\ \A j \in 1 .. Len(w) : j # 1 => Moved(h[w[1]], w)[j] = w[j]
  <2> DEFINE p == h[w[1]]
  <2>1. w \in Seq(E) /\ w # <<>> /\ Down(w, R, g) /\ w[1] \in R \ Q
    BY <1>1, <1>3
  <2>2. p \in P /\ p # e /\ p[1] = w[1][1]
    BY <2>1
  <2> HIDE DEF p
  <2>3. /\ Moved(p, w) \in Seq(E) /\ Moved(p, w) # <<>> /\ Len(Moved(p, w)) = Len(w)
        /\ Moved(p, w)[1] = p
        /\ \A j \in 1 .. Len(w) : j # 1 => Moved(p, w)[j] = w[j]
        /\ Down(Moved(p, w), P, g)
    BY <2>1, <2>2, MovedIsWay
  <2>4. Moved(p, w) \in B
    BY <2>3 DEF AllWays
  <2> QED
    BY <2>2, <2>3, <2>4 DEF p
<1>4. <<e>> \in B
  BY OneStep DEF AllWays
<1>5. ASSUME NEW w \in A
      PROVE  F(w) \in B \ {<<e>>}
  <2>1. CASE w[1] \in Q
    <3>1. Len(Pushed(e, w)) = Len(w) + 1 /\ Len(w) \in Nat /\ w # <<>> /\ w \in Seq(E) /\ Len(<<e>>) = 1
      BY <1>1, <1>2, <2>1
    <3>2. Pushed(e, w) # <<e>>
      <4> DEFINE v == Pushed(e, w)
      <4>1. Len(w) # 0 /\ Len(v) = Len(w) + 1
        BY <3>1, EmptySeq
      <4> HIDE DEF v
      <4>2. Len(v) # Len(<<e>>)
        BY <3>1, <4>1
      <4>3. v # <<e>>
        BY <4>2
      <4> QED
        BY <4>3 DEF v
    <3> QED
      BY <1>2, <2>1, <3>2
  <2>2. CASE w[1] \notin Q
    <3>1. Moved(h[w[1]], w)[1] # <<e>>[1]
      BY <1>3, <2>2
    <3> QED
      BY <1>3, <2>2, <3>1
  <2> QED
    BY <2>1, <2>2
<1>6. ASSUME NEW v \in A, NEW w \in A, F(v) = F(w)
      PROVE  v = w
  <2>1. /\ v \in Seq(E) /\ v # <<>> /\ v[1] \in R /\ Len(v) \in Nat
        /\ w \in Seq(E) /\ w # <<>> /\ w[1] \in R /\ Len(w) \in Nat
    BY <1>1
  <2>2. CASE v[1] \in Q /\ w[1] \in Q
    <3> DEFINE x == Pushed(e, v)
               y == Pushed(e, w)
    <3>1. /\ x = y /\ Len(x) = Len(v) + 1 /\ Len(y) = Len(w) + 1
          /\ \A j \in 1 .. Len(v) : x[j + 1] = v[j]
          /\ \A j \in 1 .. Len(w) : y[j + 1] = w[j]
      BY <1>2, <1>6, <2>2
    <3> HIDE DEF x, y
    <3>2. Len(v) = Len(w)
      BY <2>1, <3>1
    <3>3. \A j \in 1 .. Len(v) : v[j] = w[j]
      BY <3>1, <3>2
    <3> QED
      BY <2>1, <3>2, <3>3, SeqEqual
  <2>3. CASE v[1] \notin Q /\ w[1] \notin Q
    <3> DEFINE x == Moved(h[v[1]], v)
               y == Moved(h[w[1]], w)
    <3>1. /\ x = y /\ Len(x) = Len(v) /\ Len(y) = Len(w) /\ x[1] = h[v[1]] /\ y[1] = h[w[1]]
          /\ \A j \in 1 .. Len(v) : j # 1 => x[j] = v[j]
          /\ \A j \in 1 .. Len(w) : j # 1 => y[j] = w[j]
      BY <1>3, <1>6, <2>3
    <3> HIDE DEF x, y
    <3>2. Len(v) = Len(w) /\ v[1] = w[1]
      BY <2>1, <2>3, <3>1
    <3>3. \A j \in 1 .. Len(v) : j # 1 => v[j] = w[j]
      BY <3>1, <3>2
    <3> QED
      BY <2>1, <3>2, <3>3, SameWay
  <2>4. CASE v[1] \in Q /\ w[1] \notin Q
    <3>1. F(v)[1] = e /\ F(w)[1] # e
      BY <1>2, <1>3, <2>4
    <3> QED
      BY <1>6, <3>1
  <2>5. CASE v[1] \notin Q /\ w[1] \in Q
    <3>1. F(w)[1] = e /\ F(v)[1] # e
      BY <1>2, <1>3, <2>5
    <3> QED
      BY <1>6, <3>1
  <2> QED
    BY <2>2, <2>3, <2>4, <2>5
<1>7. IsFiniteSet(B)
  BY FinitelyManyWays
<1> HIDE DEF A, B
<1>8. f \in [A -> B \ {<<e>>}] /\ \A w \in A : f[w] = F(w)
  BY <1>5
<1> HIDE DEF f
<1>12. \A v, w \in A : f[v] = f[w] => v = w
  BY <1>6, <1>8
<1>9. IsFiniteSet(B \ {<<e>>}) /\ Cardinality(B \ {<<e>>}) = Cardinality(B) - 1
  BY <1>4, <1>7, FS_RemoveElement
<1>10. Cardinality(A) <= Cardinality(B \ {<<e>>}) /\ Cardinality(A) \in Nat
  BY <1>8, <1>9, <1>12, AtMostAsMany
<1>11. Cardinality(B) \in Nat
  BY <1>7, FS_CardinalityType
<1> QED
  BY <1>9, <1>10, <1>11 DEF A, B

\* Places are renumbered, and some may lead nowhere now: no more ways.
LEMMA NoMoreWays ==
    ASSUME NEW N, NEW E, NEW g, PlaceGraph(N, E, g), NEW d \in Nat,
           NEW P \in SUBSET E, NEW R \in SUBSET E,
           NEW h \in [R -> P],
           \A x, y \in R : h[x] = h[y] => x = y,
           \A x \in R : h[x][1] = x[1] \/ g[x[1]] = {}
    PROVE  Cardinality(AllWays(R, g, E, d)) <= Cardinality(AllWays(P, g, E, d))
<1> DEFINE A == AllWays(R, g, E, d)
           B == AllWays(P, g, E, d)
           F(w) == Moved(h[w[1]], w)
           f == [w \in A |-> F(w)]
<1>1. ASSUME NEW w \in A
      PROVE  /\ w \in Seq(E) /\ w # <<>> /\ Down(w, R, g) /\ w[1] \in R /\ Len(w) \in Nat
             /\ Len(w) <= d
  BY LenProperties DEF AllWays, Down
<1>2. ASSUME NEW w \in A
      PROVE  /\ F(w) \in B /\ F(w)[1] = h[w[1]] /\ Len(F(w)) = Len(w)
             /\ \A j \in 1 .. Len(w) : j # 1 => F(w)[j] = w[j]
  <2> DEFINE p == h[w[1]]
  <2>1. w \in Seq(E) /\ w # <<>> /\ Down(w, R, g) /\ w[1] \in R /\ Len(w) <= d
    BY <1>1
  <2>2. p \in P /\ (p[1] = w[1][1] \/ g[w[1][1]] = {})
    BY <2>1
  <2> HIDE DEF p
  <2>3. /\ Moved(p, w) \in Seq(E) /\ Moved(p, w) # <<>> /\ Len(Moved(p, w)) = Len(w)
        /\ Moved(p, w)[1] = p
        /\ \A j \in 1 .. Len(w) : j # 1 => Moved(p, w)[j] = w[j]
        /\ Down(Moved(p, w), P, g)
    BY <2>1, <2>2, MovedIsWay
  <2>4. Moved(p, w) \in B
    BY <2>1, <2>3 DEF AllWays
  <2> QED
    BY <2>3, <2>4 DEF p
<1>3. ASSUME NEW v \in A, NEW w \in A, F(v) = F(w)
      PROVE  v = w
  <2>1. /\ v \in Seq(E) /\ v # <<>> /\ v[1] \in R /\ Len(v) \in Nat
        /\ w \in Seq(E) /\ w # <<>> /\ w[1] \in R /\ Len(w) \in Nat
    BY <1>1
  <2> DEFINE x == F(v)
             y == F(w)
  <2>2. /\ x = y /\ Len(x) = Len(v) /\ Len(y) = Len(w) /\ x[1] = h[v[1]] /\ y[1] = h[w[1]]
        /\ \A j \in 1 .. Len(v) : j # 1 => x[j] = v[j]
        /\ \A j \in 1 .. Len(w) : j # 1 => y[j] = w[j]
    BY <1>2, <1>3
  <2> HIDE DEF x, y, F
  <2>3. Len(v) = Len(w) /\ v[1] = w[1]
    BY <2>1, <2>2
  <2>4. \A j \in 1 .. Len(v) : j # 1 => v[j] = w[j]
    BY <2>2, <2>3
  <2> QED
    BY <2>1, <2>3, <2>4, SameWay
<1>4. IsFiniteSet(B)
  BY FinitelyManyWays
<1> HIDE DEF A, B
<1>5. f \in [A -> B] /\ \A w \in A : f[w] = F(w)
  BY <1>2
<1> HIDE DEF f
<1>6. \A v, w \in A : f[v] = f[w] => v = w
  BY <1>3, <1>5
<1> HIDE DEF F
<1> QED
  BY <1>4, <1>5, <1>6, AtMostAsMany DEF A, B

-----------------------------------------------------------------------------
(* The ways down through the types *)

Indices(s, t) == DOMAIN s \cup DOMAIN t \cup UNION {DOMAIN Kids(n) : n \in Made}
AllPlaces(s, t) == Made \X Indices(s, t)

LEMMA MadeIsFinite ==
    ASSUME TypeOK
    PROVE  IsFiniteSet(Made) /\ Cardinality(Made) = Len(types) /\ Len(types) \in Nat
<1> DEFINE n == Len(types)
<1>1. n \in Nat /\ Made = 1 .. n
  BY LenProperties DEF TypeOK, Made
<1> HIDE DEF n
<1>2. IsFiniteSet(1 .. n) /\ Cardinality(1 .. n) = n
  BY <1>1, FS_Interval
<1> QED
  BY <1>1, <1>2 DEF n

\* The end of a chain is its own end.
LEMMA EndOfEnd ==
    ASSUME TypeOK, Chains, NEW n \in Made
    PROVE  root[n] \in Made /\ root[root[n]] = root[n] /\ bound[root[n]] = 0
BY DEF Chains

LEMMA PlacesOf ==
    ASSUME TypeOK, Chains, NEW s \in Seq(Made), NEW p \in Places(s)
    PROVE  /\ p[1] \in Made /\ root[p[1]] = p[1] /\ p[2] \in DOMAIN s
           /\ p = <<root[s[p[2]]], p[2]>> /\ s[p[2]] \in Made
<1>1. PICK i \in DOMAIN s : p = <<root[s[i]], i>>
  BY DEF Places
<1>2. s[i] \in Made
  BY LenProperties, ElementOfSeq
<1>3. root[s[i]] \in Made /\ root[root[s[i]]] = root[s[i]]
  BY <1>2, EndOfEnd
<1> QED
  BY <1>1, <1>2, <1>3

LEMMA IsGraph ==
    ASSUME TypeOK, Chains, NEW s \in Seq(Made), NEW t \in Seq(Made)
    PROVE  /\ PlaceGraph(Made, AllPlaces(s, t), Below)
           /\ Places(s) \subseteq AllPlaces(s, t)
           /\ Places(t) \subseteq AllPlaces(s, t)
<1> DEFINE K == [n \in Made |-> DOMAIN Kids(n)]
           U == {K[n] : n \in Made}
           I == Indices(s, t)
<1>1. IsFiniteSet(I)
  <2>1. IsFiniteSet(DOMAIN s) /\ IsFiniteSet(DOMAIN t)
    BY LenProperties, FS_Interval
  <2>2. \A n \in Made : IsFiniteSet(DOMAIN Kids(n))
    <3> SUFFICES ASSUME NEW n \in Made PROVE IsFiniteSet(DOMAIN Kids(n))
      OBVIOUS
    <3>1. DOMAIN Kids(n) = 1 .. Len(Kids(n)) /\ Len(Kids(n)) \in Nat
      BY KidsMade, LenProperties
    <3> QED
      BY <3>1, FS_Interval
  <2>3. IsFiniteSet(U)
    <3>1. K \in [Made -> U]
      OBVIOUS
    <3> HIDE DEF K
    <3> QED
      BY <3>1, MadeIsFinite, FiniteImage
  <2>4. \A x \in U : IsFiniteSet(x)
    BY <2>2
  <2>5. U = {DOMAIN Kids(n) : n \in Made}
    OBVIOUS
  <2> HIDE DEF U
  <2>6. IsFiniteSet(UNION U)
    BY <2>3, <2>4, FS_UNION
  <2>7. IsFiniteSet(DOMAIN s \cup DOMAIN t)
    BY <2>1, FS_Union
  <2>8. IsFiniteSet((DOMAIN s \cup DOMAIN t) \cup UNION U)
    BY <2>6, <2>7, FS_Union
  <2> QED
    BY <2>5, <2>8 DEF Indices
<1>2. IsFiniteSet(AllPlaces(s, t))
  BY <1>1, MadeIsFinite, FS_Product DEF AllPlaces
<1>3. /\ Places(s) \subseteq AllPlaces(s, t)
      /\ Places(t) \subseteq AllPlaces(s, t)
  <2>1. ASSUME NEW p \in Places(s)
        PROVE  p \in AllPlaces(s, t)
    <3>1. p[1] \in Made /\ p[2] \in DOMAIN s /\ p = <<root[s[p[2]]], p[2]>>
      BY PlacesOf
    <3>2. p[2] \in Indices(s, t)
      BY <3>1 DEF Indices
    <3> QED
      BY <3>1, <3>2 DEF AllPlaces
  <2>2. ASSUME NEW p \in Places(t)
        PROVE  p \in AllPlaces(s, t)
    <3>1. p[1] \in Made /\ p[2] \in DOMAIN t /\ p = <<root[t[p[2]]], p[2]>>
      BY PlacesOf
    <3>2. p[2] \in Indices(s, t)
      BY <3>1 DEF Indices
    <3> QED
      BY <3>1, <3>2 DEF AllPlaces
  <2> QED
    BY <2>1, <2>2
<1>4. ASSUME NEW n \in Made
      PROVE  Places(Kids(n)) \subseteq AllPlaces(s, t)
  <2> SUFFICES ASSUME NEW p \in Places(Kids(n)) PROVE p \in AllPlaces(s, t)
    OBVIOUS
  <2>1. Kids(n) \in Seq(Made)
    BY KidsMade
  <2>2. p[1] \in Made /\ p[2] \in DOMAIN Kids(n) /\ p = <<root[Kids(n)[p[2]]], p[2]>>
    BY <2>1, PlacesOf
  <2>3. p[2] \in Indices(s, t)
    BY <2>2 DEF Indices
  <2> QED
    BY <2>2, <2>3 DEF AllPlaces
<1>5. Below \in [Made -> SUBSET AllPlaces(s, t)]
  BY <1>4 DEF Below
<1>6. \A e \in AllPlaces(s, t) : e[1] \in Made
  BY DEF AllPlaces
<1> QED
  BY <1>2, <1>3, <1>5, <1>6 DEF PlaceGraph

\* No way down meets a type twice.
LEMMA NoWayTwice ==
    ASSUME TypeOK, Chains, Acyclic, NEW s \in Seq(Made), NEW t \in Seq(Made),
           NEW w \in Seq(AllPlaces(s, t)), w # <<>>, Down(w, Places(s), Below),
           NEW i \in 1 .. Len(w), NEW j \in 1 .. Len(w), i < j
    PROVE  w[i][1] # w[j][1]
<1> SUFFICES ASSUME w[i][1] = w[j][1] PROVE FALSE
  OBVIOUS
<1> DEFINE n == Len(w)
           On == {w[m][1] : m \in i .. j - 1}
           S == {x \in Made : root[x] \in On}
<1>1. n \in Nat /\ i \in Nat /\ j \in Nat /\ i <= j - 1 /\ j <= n /\ 1 <= i
  BY LenProperties
<1>2. \A m \in 1 .. n : w[m] \in AllPlaces(s, t) /\ w[m][1] \in Made
  BY ElementOfSeq DEF AllPlaces
<1>3. \A m \in 1 .. n - 1 : w[m + 1] \in Below[w[m][1]]
  BY DEF Down
<1> HIDE DEF n
<1>4. \A m \in 1 .. n : root[w[m][1]] = w[m][1]
  <2> SUFFICES ASSUME NEW m \in 1 .. n PROVE root[w[m][1]] = w[m][1]
    OBVIOUS
  <2>1. CASE m = 1
    <3>1. w[1] \in Places(s)
      BY DEF Down
    <3> QED
      BY <2>1, <3>1, PlacesOf
  <2>2. CASE m # 1
    <3> DEFINE l == m - 1
    <3>1. l \in 1 .. n - 1 /\ l \in 1 .. n /\ l + 1 = m
      BY <1>1, <2>2
    <3> HIDE DEF l
    <3>2. w[m] \in Below[w[l][1]] /\ w[l][1] \in Made
      BY <1>2, <1>3, <3>1
    <3>3. w[m] \in Places(Kids(w[l][1])) /\ Kids(w[l][1]) \in Seq(Made)
      BY <3>2, KidsMade DEF Below
    <3> QED
      BY <3>3, PlacesOf
  <2> QED
    BY <2>1, <2>2
<1>5. i \in i .. j - 1 /\ i \in 1 .. n
  BY <1>1
<1>6. w[i][1] \in S
  BY <1>2, <1>4, <1>5
<1>7. ASSUME NEW x \in S
      PROVE  Succ(x) \cap S # {}
  <2>1. PICK m \in i .. j - 1 : root[x] = w[m][1]
    OBVIOUS
  <2>2. m \in 1 .. n /\ m \in 1 .. n - 1 /\ m + 1 \in 1 .. n /\ m + 1 \in i .. j
    BY <1>1
  <2>3. CASE bound[x] # 0
    <3>1. bound[x] \in Made /\ root[bound[x]] = root[x]
      BY <2>3, SuccMade DEF Chains
    <3>2. bound[x] \in S /\ bound[x] \in Succ(x)
      BY <2>3, <3>1 DEF Succ
    <3> QED
      BY <3>2
  <2>4. CASE bound[x] = 0
    <3>1. root[x] = x /\ x \in Made
      BY <2>4 DEF Chains
    <3>2. w[m + 1] \in Places(Kids(x)) /\ Kids(x) \in Seq(Made)
      BY <1>3, <2>1, <2>2, <3>1, KidsMade DEF Below
    <3> DEFINE p == w[m + 1]
               y == Kids(x)[p[2]]
    <3>3. p[2] \in DOMAIN Kids(x) /\ p = <<root[y], p[2]>> /\ y \in Made
      BY <3>2, PlacesOf
    <3>4. root[y] = w[m + 1][1]
      BY <3>3
    <3>5. y \in Succ(x)
      BY <2>4, <3>3 DEF Succ
    <3> HIDE DEF p, y
    <3>6. w[m + 1][1] \in On
      <4>1. CASE m + 1 = j
        BY <1>5, <4>1
      <4>2. CASE m + 1 # j
        <5>1. m + 1 \in i .. j - 1
          BY <1>1, <2>2, <4>2
        <5> QED
          BY <5>1
      <4> QED
        BY <4>1, <4>2
    <3>7. y \in S
      BY <3>3, <3>4, <3>6
    <3> QED
      BY <3>5, <3>7
  <2> QED
    BY <2>3, <2>4
<1> HIDE DEF S
<1>8. S \in SUBSET Made /\ S # {}
  BY <1>6 DEF S
<1> QED
  BY <1>7, <1>8 DEF Acyclic

\* So it has at most as many steps as there are types.
LEMMA WaysAreShort ==
    ASSUME TypeOK, Chains, Acyclic, NEW s \in Seq(Made), NEW t \in Seq(Made),
           NEW w \in Seq(AllPlaces(s, t)), w # <<>>, Down(w, Places(s), Below)
    PROVE  Len(w) <= Len(types)
<1> DEFINE n == Len(w)
           f == [j \in 1 .. n |-> w[j][1]]
<1>1. n \in Nat /\ \A m \in 1 .. n : w[m][1] \in Made
  BY LenProperties, ElementOfSeq DEF AllPlaces
<1>2. \A i, j \in 1 .. n : i < j => w[i][1] # w[j][1]
  BY NoWayTwice
<1>3. f \in [1 .. n -> Made]
  BY <1>1
<1>4. \A i, j \in 1 .. n : f[i] = f[j] => i = j
  <2> SUFFICES ASSUME NEW i \in 1 .. n, NEW j \in 1 .. n, i # j PROVE f[i] # f[j]
    OBVIOUS
  <2>1. f[i] = w[i][1] /\ f[j] = w[j][1]
    OBVIOUS
  <2>2. i < j \/ j < i
    BY <1>1
  <2> QED
    BY <1>2, <2>1, <2>2
<1> HIDE DEF f, n
<1>5. IsFiniteSet(Made) /\ Cardinality(Made) = Len(types) /\ Cardinality(1 .. n) = n
  BY <1>1, MadeIsFinite, FS_Interval
<1>6. Cardinality(1 .. n) <= Cardinality(Made)
  BY <1>3, <1>4, <1>5, AtMostAsMany
<1> QED
  BY <1>5, <1>6 DEF n

LEMMA WaysDownAre ==
    ASSUME TypeOK, Chains, NEW s \in Seq(Made), NEW E,
           PlaceGraph(Made, E, Below), Places(s) \subseteq E
    PROVE  /\ WaysDown(s) = Cardinality(AllWays(Places(s), Below, E, Len(types)))
           /\ WaysDown(s) \in Nat
<1>1. Len(types) \in Nat
  BY MadeIsFinite
<1>2. Ways(Places(s), Below, Len(types)) = AllWays(Places(s), Below, E, Len(types))
  BY <1>1, WaysAre
<1>3. IsFiniteSet(AllWays(Places(s), Below, E, Len(types)))
  BY <1>1, FinitelyManyWays
<1> QED
  BY <1>2, <1>3, FS_CardinalityType DEF WaysDown

LEMMA WaysDownNat ==
    ASSUME TypeOK, Chains, NEW s \in Seq(Made)
    PROVE  WaysDown(s) \in Nat
<1>1. PlaceGraph(Made, AllPlaces(s, s), Below) /\ Places(s) \subseteq AllPlaces(s, s)
  BY IsGraph
<1> QED
  BY <1>1, WaysDownAre

\* A type is taken off the list, with its children put on or without: there
\* are fewer ways down.
LEMMA Descends ==
    ASSUME TypeOK, Chains, Acyclic, NEW m \in Made, NEW s \in Seq(Made), NEW t \in Seq(Made),
           t = <<>> \/ t = Kids(root[m])
    PROVE  WaysDown(t \o s) < WaysDown(<<m>> \o s)
<1> DEFINE x == <<m>> \o s
           y == t \o s
           l == Len(t)
           k == Len(s)
           E == AllPlaces(x, y)
           P == Places(x)
           R == Places(y)
           Q == Places(t)
           e == <<root[m], 1>>
           h == [p \in R \ Q |-> <<p[1], (p[2] - l) + 1>>]
<1>1. /\ <<m>> \in Seq(Made) /\ Len(<<m>>) = 1 /\ <<m>>[1] = m
      /\ k \in Nat /\ l \in Nat /\ DOMAIN t = 1 .. l /\ DOMAIN s = 1 .. k
  BY LenProperties
<1>2. /\ x \in Seq(Made) /\ Len(x) = 1 + k /\ DOMAIN x = 1 .. 1 + k
      /\ \A i \in 1 .. 1 + k : x[i] = IF i <= 1 THEN <<m>>[i] ELSE s[i - 1]
  BY <1>1, ConcatProperties, LenProperties
<1>3. /\ y \in Seq(Made) /\ Len(y) = l + k /\ DOMAIN y = 1 .. l + k
      /\ \A i \in 1 .. l + k : y[i] = IF i <= l THEN t[i] ELSE s[i - l]
  BY <1>1, ConcatProperties, LenProperties
<1> HIDE DEF x, y, l, k
<1>4. PlaceGraph(Made, E, Below) /\ P \subseteq E /\ R \subseteq E
  BY <1>2, <1>3, IsGraph
<1>5. e \in P
  <2>1. 1 \in DOMAIN x /\ x[1] = m
    BY <1>1, <1>2
  <2> QED
    BY <2>1 DEF Places
<1>6. Q \subseteq R
  <2> SUFFICES ASSUME NEW p \in Q PROVE p \in R
    OBVIOUS
  <2>1. p[2] \in DOMAIN t /\ p = <<root[t[p[2]]], p[2]>>
    BY PlacesOf
  <2>2. p[2] \in DOMAIN y /\ y[p[2]] = t[p[2]]
    BY <1>1, <1>3, <2>1
  <2> QED
    BY <2>1, <2>2 DEF Places
<1>7. Q \subseteq Below[e[1]]
  <2>1. root[m] \in Made
    BY EndOfEnd
  <2>2. CASE t = <<>>
    <3>1. DOMAIN t = {}
      BY <2>2
    <3> QED
      BY <3>1 DEF Places
  <2>3. CASE t = Kids(root[m])
    BY <2>1, <2>3 DEF Below
  <2> QED
    BY <2>2, <2>3
<1>8. ASSUME NEW p \in R \ Q
      PROVE  /\ <<p[1], (p[2] - l) + 1>> \in P \ {e}
             /\ p[2] \in Int /\ p = <<p[1], p[2]>>
  <2> DEFINE i == p[2]
             j == (i - l) + 1
  <2>1. i \in 1 .. l + k /\ p = <<root[y[i]], i>>
    BY <1>3, PlacesOf
  <2> HIDE DEF i
  <2>2. ~(i <= l)
    <3> SUFFICES ASSUME i <= l PROVE FALSE
      OBVIOUS
    <3>1. i \in DOMAIN t /\ y[i] = t[i]
      BY <1>1, <1>3, <2>1
    <3> QED
      BY <2>1, <3>1 DEF Places
  <2>3. j \in 1 .. 1 + k /\ j # 1 /\ ~(j <= 1) /\ j - 1 = i - l
    BY <1>1, <2>1, <2>2
  <2> HIDE DEF j
  <2>4. y[i] = s[i - l] /\ x[j] = s[i - l]
    BY <1>2, <1>3, <2>1, <2>2, <2>3
  <2>5. <<root[x[j]], j>> \in P
    BY <1>2, <2>3 DEF Places
  <2>6. <<p[1], j>> \in P /\ <<p[1], j>> # e
    BY <2>1, <2>3, <2>4, <2>5
  <2> QED
    BY <2>1, <2>6 DEF i, j
<1>9. h \in [R \ Q -> P \ {e}]
  BY <1>8
<1>10. \A p, q \in R \ Q : h[p] = h[q] => p = q
  <2> SUFFICES ASSUME NEW p \in R \ Q, NEW q \in R \ Q, h[p] = h[q] PROVE p = q
    OBVIOUS
  <2>1. p[1] = q[1] /\ (p[2] - l) + 1 = (q[2] - l) + 1
    OBVIOUS
  <2>2. p[2] \in Int /\ q[2] \in Int /\ p = <<p[1], p[2]>> /\ q = <<q[1], q[2]>>
    BY <1>8
  <2>3. p[2] = q[2]
    BY <1>1, <2>1, <2>2
  <2> QED
    BY <2>1, <2>2, <2>3
<1>11. \A p \in R \ Q : h[p][1] = p[1]
  OBVIOUS
<1>12. \A w \in Seq(E) : w # <<>> /\ Down(w, P, Below) => Len(w) <= Len(types)
  BY <1>2, <1>3, WaysAreShort
<1>13. Len(types) \in Nat
  BY MadeIsFinite
<1>14. /\ WaysDown(x) = Cardinality(AllWays(P, Below, E, Len(types)))
       /\ WaysDown(y) = Cardinality(AllWays(R, Below, E, Len(types)))
  BY <1>2, <1>3, <1>4, WaysDownAre
<1> HIDE DEF E, P, R, Q, e, h
<1>15. Cardinality(AllWays(R, Below, E, Len(types))) < Cardinality(AllWays(P, Below, E, Len(types)))
  BY <1>4, <1>5, <1>6, <1>7, <1>9, <1>10, <1>11, <1>12, <1>13, FewerWays
<1> QED
  BY <1>14, <1>15 DEF x, y

\* A type is exchanged for one below which there is nothing.
LEMMA NothingBelow ==
    ASSUME TypeOK, Chains, NEW m \in Made, NEW n \in Made, NEW s \in Seq(Made),
           bound[n] = 0, Kids(n) = <<>>
    PROVE  WaysDown(<<n>> \o s) <= WaysDown(<<m>> \o s)
<1> DEFINE x == <<m>> \o s
           y == <<n>> \o s
           k == Len(s)
           E == AllPlaces(x, y)
           P == Places(x)
           R == Places(y)
           H(p) == IF p[2] = 1 THEN <<root[m], 1>> ELSE p
           h == [p \in R |-> H(p)]
<1>1. /\ <<m>> \in Seq(Made) /\ Len(<<m>>) = 1 /\ <<m>>[1] = m
      /\ <<n>> \in Seq(Made) /\ Len(<<n>>) = 1 /\ <<n>>[1] = n
      /\ k \in Nat /\ DOMAIN s = 1 .. k
  BY LenProperties
<1>2. /\ x \in Seq(Made) /\ DOMAIN x = 1 .. 1 + k
      /\ \A i \in 1 .. 1 + k : x[i] = IF i <= 1 THEN <<m>>[i] ELSE s[i - 1]
  BY <1>1, ConcatProperties, LenProperties
<1>3. /\ y \in Seq(Made) /\ DOMAIN y = 1 .. 1 + k
      /\ \A i \in 1 .. 1 + k : y[i] = IF i <= 1 THEN <<n>>[i] ELSE s[i - 1]
  BY <1>1, ConcatProperties, LenProperties
<1> HIDE DEF x, y, k
<1>4. PlaceGraph(Made, E, Below) /\ P \subseteq E /\ R \subseteq E
  BY <1>2, <1>3, IsGraph
<1>5. x[1] = m /\ y[1] = n /\ \A i \in 1 .. 1 + k : i # 1 => x[i] = y[i]
  <2>1. 1 \in 1 .. 1 + k /\ 1 <= 1
    BY <1>1
  <2>2. x[1] = m /\ y[1] = n
    BY <1>1, <1>2, <1>3, <2>1
  <2>3. ASSUME NEW i \in 1 .. 1 + k, i # 1
        PROVE  x[i] = y[i]
    <3>1. ~(i <= 1)
      BY <1>1, <2>3
    <3> QED
      BY <1>2, <1>3, <3>1
  <2> QED
    BY <2>2, <2>3
<1>6. ASSUME NEW p \in R
      PROVE  /\ H(p) \in P /\ H(p)[2] = p[2]
             /\ H(p)[1] = p[1] \/ Below[p[1]] = {}
             /\ p[2] = 1 => p = <<root[n], 1>>
             /\ p[2] # 1 => H(p) = p
  <2>1. p[2] \in 1 .. 1 + k /\ p = <<root[y[p[2]]], p[2]>>
    BY <1>3, PlacesOf
  <2>2. CASE p[2] = 1
    <3>1. H(p) = <<root[m], 1>> /\ p = <<root[n], 1>>
      BY <1>5, <2>1, <2>2
    <3>2. <<root[m], 1>> \in P
      <4>1. 1 \in DOMAIN x
        BY <1>1, <1>2
      <4> QED
        BY <1>5, <4>1 DEF Places
    <3>3. root[n] = n
      BY DEF Chains
    <3>4. Below[n] = {}
      <4>1. DOMAIN Kids(n) = {}
        OBVIOUS
      <4> QED
        BY <4>1 DEF Below, Places
    <3> QED
      BY <2>2, <3>1, <3>2, <3>3, <3>4
  <2>3. CASE p[2] # 1
    <3>1. H(p) = p /\ p = <<root[x[p[2]]], p[2]>>
      BY <1>5, <2>1, <2>3
    <3>2. p \in P
      BY <1>2, <2>1, <3>1 DEF Places
    <3> QED
      BY <2>3, <3>1, <3>2
  <2> QED
    BY <2>2, <2>3
<1>7. h \in [R -> P] /\ \A p \in R : h[p] = H(p)
  BY <1>6
<1> HIDE DEF h, H
<1>8. \A p, q \in R : h[p] = h[q] => p = q
  <2> SUFFICES ASSUME NEW p \in R, NEW q \in R, h[p] = h[q] PROVE p = q
    OBVIOUS
  <2>1. H(p) = H(q) /\ H(p)[2] = p[2] /\ H(q)[2] = q[2]
    BY <1>6, <1>7
  <2>2. CASE p[2] = 1
    BY <1>6, <2>1, <2>2
  <2>3. CASE p[2] # 1
    BY <1>6, <2>1, <2>3
  <2> QED
    BY <2>2, <2>3
<1>9. \A p \in R : h[p][1] = p[1] \/ Below[p[1]] = {}
  BY <1>6, <1>7
<1>10. Len(types) \in Nat
  BY MadeIsFinite
<1>11. /\ WaysDown(x) = Cardinality(AllWays(P, Below, E, Len(types)))
       /\ WaysDown(y) = Cardinality(AllWays(R, Below, E, Len(types)))
  BY <1>2, <1>3, <1>4, WaysDownAre
<1> HIDE DEF E, P, R
<1>12. Cardinality(AllWays(R, Below, E, Len(types))) <= Cardinality(AllWays(P, Below, E, Len(types)))
  BY <1>4, <1>7, <1>8, <1>9, <1>10, NoMoreWays
<1> QED
  BY <1>11, <1>12 DEF x, y

\* Only the ends of the chains count.
LEMMA SameEnds ==
    ASSUME NEW m, NEW n, root[m] = root[n], NEW S, NEW s \in Seq(S)
    PROVE  WaysDown(<<n>> \o s) = WaysDown(<<m>> \o s)
<1> DEFINE x == <<m>> \o s
           y == <<n>> \o s
           k == Len(s)
<1>1. k \in Nat /\ s \in Seq(S \cup {m, n}) /\ <<m>> \in Seq(S \cup {m, n}) /\ <<n>> \in Seq(S \cup {m, n})
      /\ Len(<<m>>) = 1 /\ Len(<<n>>) = 1 /\ <<m>>[1] = m /\ <<n>>[1] = n
  <2>1. s \in Seq(S \cup {m, n})
    BY SeqMonotonic
  <2> QED
    BY <2>1, LenProperties
<1>2. /\ DOMAIN x = 1 .. 1 + k
      /\ \A i \in 1 .. 1 + k : x[i] = IF i <= 1 THEN <<m>>[i] ELSE s[i - 1]
  BY <1>1, ConcatProperties, LenProperties
<1>3. /\ DOMAIN y = 1 .. 1 + k
      /\ \A i \in 1 .. 1 + k : y[i] = IF i <= 1 THEN <<n>>[i] ELSE s[i - 1]
  BY <1>1, ConcatProperties, LenProperties
<1> HIDE DEF x, y, k
<1>4. \A i \in 1 .. 1 + k : root[x[i]] = root[y[i]]
  BY <1>1, <1>2, <1>3
<1>5. Places(x) = Places(y)
  BY <1>2, <1>3, <1>4 DEF Places
<1> QED
  BY <1>5 DEF WaysDown, x, y

\* The types and the ends of the chains determine the ways down.
LEMMA SameWays ==
    ASSUME UNCHANGED <<types, root>>
    PROVE  /\ WaysDown(Lefts)' = WaysDown(Lefts')
           /\ WaysDown(Looking)' = WaysDown(Looking')
<1>1. Made' = Made /\ \A n : Kids(n)' = Kids(n)
  BY DEF Made, Kids
<1>2. Below' = Below
  BY <1>1 DEF Below, Places, Kids
<1>3. Places(Lefts)' = Places(Lefts') /\ Places(Looking)' = Places(Looking')
  BY DEF Places
<1> QED
  BY <1>2, <1>3 DEF WaysDown

-----------------------------------------------------------------------------
(* Queues *)

LEMMA FirstsOf ==
    ASSUME NEW S, NEW q \in Seq(S \X S)
    PROVE  /\ Firsts(q) \in Seq(S) /\ Len(Firsts(q)) = Len(q)
           /\ \A i \in 1 .. Len(q) : Firsts(q)[i] = q[i][1]
<1> DEFINE n == Len(q)
           f == Firsts(q)
<1>1. n \in Nat /\ DOMAIN q = 1 .. n /\ \A i \in 1 .. n : q[i][1] \in S
  <2>1. \A i \in 1 .. Len(q) : q[i] \in S \X S
    BY ElementOfSeq
  <2> QED
    BY <2>1, LenProperties
<1>2. f \in [1 .. n -> S] /\ \A i \in 1 .. n : f[i] = q[i][1]
  BY <1>1 DEF Firsts
<1> HIDE DEF f, n
<1>3. f \in Seq(S)
  BY <1>1, <1>2, FunctionIsSeq
<1>4. Len(f) = n
  <2>1. DOMAIN f = 1 .. n /\ n \in Nat
    BY <1>1, <1>2
  <2> QED
    BY <1>3, <2>1, LenProperties, SMTT(30)
<1> QED
  BY <1>2, <1>3, <1>4 DEF f, n

LEMMA FirstsConcat ==
    ASSUME NEW S, NEW p \in Seq(S \X S), NEW q \in Seq(S \X S)
    PROVE  Firsts(p \o q) = Firsts(p) \o Firsts(q)
<1> DEFINE pq == p \o q
           f == Firsts(p)
           g == Firsts(q)
           u == Firsts(pq)
           v == f \o g
           m == Len(p)
           n == Len(q)
<1>1. /\ pq \in Seq(S \X S) /\ Len(pq) = m + n /\ m \in Nat /\ n \in Nat
      /\ \A i \in 1 .. m + n : pq[i] = IF i <= m THEN p[i] ELSE q[i - m]
  BY ConcatProperties, LenProperties
<1>2. /\ f \in Seq(S) /\ Len(f) = m /\ \A i \in 1 .. m : f[i] = p[i][1]
      /\ g \in Seq(S) /\ Len(g) = n /\ \A i \in 1 .. n : g[i] = q[i][1]
  BY FirstsOf
<1> HIDE DEF pq, m, n
<1>3. u \in Seq(S) /\ Len(u) = m + n /\ \A i \in 1 .. m + n : u[i] = pq[i][1]
  BY <1>1, FirstsOf
<1> HIDE DEF f, g, u
<1>4. /\ v \in Seq(S) /\ Len(v) = m + n
      /\ \A i \in 1 .. m + n : v[i] = IF i <= m THEN f[i] ELSE g[i - m]
  <2>1. /\ v \in Seq(S) /\ Len(v) = Len(f) + Len(g)
        /\ \A i \in 1 .. Len(f) + Len(g) : v[i] = IF i <= Len(f) THEN f[i] ELSE g[i - Len(f)]
    <3>1. f \in Seq(S) /\ g \in Seq(S)
      BY <1>2
    <3> QED
      BY <3>1, ConcatProperties
  <2> HIDE DEF v
  <2> QED
    BY <1>2, <2>1
<1> HIDE DEF v
<1>5. ASSUME NEW i \in 1 .. m + n
      PROVE  u[i] = v[i]
  <2>1. CASE i <= m
    <3>1. i \in 1 .. m
      BY <1>1, <2>1
    <3>2. pq[i] = p[i] /\ v[i] = f[i]
      BY <1>1, <1>4, <2>1
    <3> QED
      BY <1>2, <1>3, <3>1, <3>2
  <2>2. CASE ~(i <= m)
    <3>1. i - m \in 1 .. n
      BY <1>1, <2>2
    <3>2. pq[i] = q[i - m] /\ v[i] = g[i - m]
      BY <1>1, <1>4, <2>2
    <3> QED
      BY <1>2, <1>3, <3>1, <3>2
  <2> QED
    BY <2>1, <2>2
<1>6. u = v
  BY <1>3, <1>4, <1>5, SeqEqual
<1> QED
  BY <1>6 DEF u, v, f, g, pq

\* The children of the first of two types are those unify goes down next.
LEMMA FirstsOfPairs ==
    ASSUME TypeOK, NEW m \in Made, NEW n \in Made, Len(Kids(m)) = Len(Kids(n))
    PROVE  Firsts(Pairs(m, n)) = Kids(m)
<1> DEFINE q == Pairs(m, n)
           k == Kids(m)
           f == Firsts(q)
<1>1. /\ q \in Seq(Made \X Made) /\ DOMAIN q = 1 .. Len(k)
      /\ \A i \in 1 .. Len(k) : q[i] = <<k[i], Kids(n)[i]>>
  BY PairsFacts
<1>2. k \in Seq(Made) /\ DOMAIN k = 1 .. Len(k)
  BY KidsMade
<1>3. DOMAIN f = 1 .. Len(k) /\ \A i \in 1 .. Len(k) : f[i] = q[i][1]
  BY <1>1 DEF Firsts
<1>4. f \in Seq(Made)
  BY <1>1, FirstsOf
<1> HIDE DEF q, f, k
<1>5. \A i \in 1 .. Len(k) : f[i] = k[i]
  BY <1>1, <1>3
<1>6. f \in [DOMAIN f -> Made] /\ k \in [DOMAIN k -> Made]
  BY <1>2, <1>4, LenProperties
<1>7. f = k
  BY <1>2, <1>3, <1>5, <1>6
<1> QED
  BY <1>7 DEF f, q, k

\* After a call that has returned, what is left is what was pending.
LEMMA ContinueLefts ==
    ASSUME NEW queue \in Seq(Made \X Made), Continue(queue)
    PROVE  Lefts' = Firsts(queue)
<1> DEFINE n == Len(queue)
           f == Firsts(queue)
<1>1. f \in Seq(Made) /\ Len(f) = n /\ \A i \in 1 .. n : f[i] = queue[i][1]
  BY FirstsOf
<1>2. CASE queue = <<>>
  <2>1. n = 0
    BY <1>2
  <2>2. f = <<>>
    BY <1>1, <2>1, EmptySeq
  <2>3. Lefts' = <<>>
    BY <1>2 DEF Continue, Lefts
  <2> QED
    BY <2>2, <2>3 DEF f
<1>3. CASE queue # <<>>
  <2> DEFINE t == Tail(queue)
             g == Firsts(t)
             c == queue[1][1]
             v == <<c>> \o g
  <2>1. /\ Head(queue) = queue[1] /\ t \in Seq(Made \X Made) /\ Len(t) = n - 1
        /\ \A i \in 1 .. Len(t) : t[i] = queue[i + 1]
        /\ n \in Nat \ {0} /\ queue[1] \in Made \X Made
    BY <1>3, HeadTailProperties, EmptySeq, LenProperties
  <2>2. Lefts' = v
    BY <1>3, <2>1 DEF Continue, Lefts
  <2>3. g \in Seq(Made) /\ Len(g) = n - 1 /\ \A i \in 1 .. n - 1 : g[i] = t[i][1]
    BY <2>1, FirstsOf
  <2>4. c \in Made
    BY <2>1
  <2>5. <<c>> \in Seq(Made) /\ Len(<<c>>) = 1 /\ <<c>>[1] = c
    BY <2>4
  <2> HIDE DEF n, f, t, g, c
  <2>6. /\ v \in Seq(Made) /\ Len(v) = 1 + (n - 1)
        /\ \A i \in 1 .. 1 + (n - 1) : v[i] = IF i <= 1 THEN <<c>>[i] ELSE g[i - 1]
    BY <2>3, <2>5, ConcatProperties
  <2> HIDE DEF v
  <2>7. ASSUME NEW i \in 1 .. n
        PROVE  v[i] = f[i]
    <3>1. CASE i = 1
      BY <1>1, <2>1, <2>5, <2>6, <3>1 DEF c
    <3>2. CASE i # 1
      <4> DEFINE j == i - 1
      <4>1. j \in 1 .. n - 1 /\ j + 1 = i /\ ~(i <= 1) /\ i \in 1 .. 1 + (n - 1)
        BY <2>1, <3>2
      <4>2. v[i] = g[j]
        BY <2>6, <4>1
      <4> HIDE DEF j
      <4>3. g[j] = t[j][1] /\ t[j] = queue[j + 1]
        BY <2>1, <2>3, <4>1
      <4> QED
        BY <1>1, <4>1, <4>2, <4>3
    <3> QED
      BY <3>1, <3>2
  <2>8. Len(v) = n
    BY <2>1, <2>6
  <2>9. v = f
    BY <1>1, <2>6, <2>7, <2>8, SeqEqual
  <2> QED
    BY <2>2, <2>9 DEF f
<1> QED
  BY <1>2, <1>3

LEMMA LookLooking ==
    ASSUME phase = "occurs", NEW queue \in Seq(Made), Look(queue)
    PROVE  Looking' = queue
<1>1. CASE queue = <<>>
  BY <1>1 DEF Look, Looking
<1>2. CASE queue # <<>>
  <2> DEFINE t == Tail(queue)
             c == queue[1]
             v == <<c>> \o t
             n == Len(queue)
  <2>1. /\ Head(queue) = c /\ t \in Seq(Made) /\ Len(t) = n - 1
        /\ \A i \in 1 .. Len(t) : t[i] = queue[i + 1]
        /\ n \in Nat \ {0} /\ c \in Made
    BY <1>2, HeadTailProperties, EmptySeq, LenProperties
  <2>2. Looking' = v
    BY <1>2, <2>1 DEF Look, Looking
  <2>3. <<c>> \in Seq(Made) /\ Len(<<c>>) = 1 /\ <<c>>[1] = c
    BY <2>1
  <2> HIDE DEF n, t
  <2>4. /\ v \in Seq(Made) /\ Len(v) = 1 + (n - 1)
        /\ \A i \in 1 .. 1 + (n - 1) : v[i] = IF i <= 1 THEN <<c>>[i] ELSE t[i - 1]
    BY <2>1, <2>3, ConcatProperties
  <2> HIDE DEF v
  <2>5. ASSUME NEW i \in 1 .. n
        PROVE  v[i] = queue[i]
    <3>1. CASE i = 1
      BY <2>1, <2>3, <2>4, <3>1
    <3>2. CASE i # 1
      <4> DEFINE j == i - 1
      <4>1. j \in 1 .. n - 1 /\ j + 1 = i /\ ~(i <= 1) /\ i \in 1 .. 1 + (n - 1)
        BY <2>1, <3>2
      <4>2. v[i] = t[j]
        BY <2>4, <4>1
      <4> HIDE DEF j
      <4> QED
        BY <2>1, <4>1, <4>2
    <3> QED
      BY <3>1, <3>2
  <2>6. Len(v) = n
    BY <2>1, <2>4
  <2>7. v = queue
    BY <2>4, <2>5, <2>6, SeqEqual DEF n
  <2> QED
    BY <2>2, <2>7
<1> QED
  BY <1>1, <1>2

-----------------------------------------------------------------------------
(* Every step leaves less to do *)

\* As long as unify is not done it has two types.
Busy == phase # "idle" => a \in Made

EInv == IInv /\ Busy

LEMMA BusyInit == Init => EInv
BY InvInit DEF Init, EInv, Busy

LEMMA BusyNext == EInv /\ [Next]_vars => EInv'
<1> SUFFICES ASSUME EInv, [Next]_vars PROVE EInv'
  OBVIOUS
<1>0. IInv /\ TypeOK /\ Busy
  BY DEF EInv, IInv
<1>1. IInv'
  BY <1>0, InvNext
<1> SUFFICES Busy'
  BY <1>1 DEF EInv
<1>2. ASSUME UNCHANGED types
      PROVE  Made' = Made
  BY <1>2 DEF Made
<1>3. ASSUME NEW queue \in Seq(Made \X Made), Continue(queue), UNCHANGED types
      PROVE  Busy'
  <2>1. phase' \in {"idle", "pruneA"} /\ (phase' = "pruneA" => a' \in Made)
    BY <1>0, <1>3, ContinueFacts
  <2> QED
    BY <1>2, <1>3, <2>1 DEF Busy
<1>4. todo \in Seq(Made \X Made)
  BY <1>0 DEF TypeOK
<1>5. ASSUME NEW s \in Shapes, NEW kids \in [1 .. s.arity -> Made], Alloc(s, kids)
      PROVE  Busy'
  BY <1>5 DEF Alloc, Busy
<1>6. ASSUME NEW x \in Made, NEW y \in Made, Equate(x, y)
      PROVE  Busy'
  <2>1. << <<x, y>> >> \in Seq(Made \X Made)
    OBVIOUS
  <2> QED
    BY <1>3, <1>6, <2>1 DEF Equate
<1>7. CASE PruneStep \/ PrunedB \/ StartOccurs \/ Mismatch \/ Occurs \/ LookedAt
  <2>1. phase # "idle" /\ a' = a /\ UNCHANGED types
    BY <1>7 DEF PruneStep, PrunedB, StartOccurs, Mismatch, Occurs, LookedAt, Fail
  <2> QED
    BY <1>0, <1>2, <2>1 DEF Busy
<1>8. CASE PrunedA
  <2>1. at \in Made /\ a' = at /\ UNCHANGED types
    BY <1>0, <1>8, Named DEF PrunedA, Walking
  <2> QED
    BY <1>2, <2>1 DEF Busy
<1>9. CASE Swap
  <2>1. b \in Made /\ a' = b /\ UNCHANGED types
    BY <1>0, <1>9, Named DEF Swap
  <2> QED
    BY <1>2, <2>1 DEF Busy
<1>10. CASE SameVar \/ Leaf \/ Bind
  BY <1>3, <1>4, <1>10 DEF SameVar, Leaf, Bind
<1>11. CASE Decompose
  <2>1. phase = "decide" /\ Len(Kids(a)) = Len(Kids(b)) /\ Continue(Pairs(a, b) \o todo) /\ UNCHANGED types
    BY <1>11 DEF Decompose, SameArity
  <2>2. Pairs(a, b) \in Seq(Made \X Made)
    BY <1>0, <2>1, Named, PairsFacts
  <2>3. Pairs(a, b) \o todo \in Seq(Made \X Made)
    BY <1>4, <2>2, ConcatProperties
  <2> QED
    BY <1>3, <2>1, <2>3
<1>12. CASE UNCHANGED vars
  BY <1>0, <1>12 DEF vars, Busy, Made
<1> QED
  BY <1>5, <1>6, <1>7, <1>8, <1>9, <1>10, <1>11, <1>12 DEF Next, Step

LEMMA BusyInvariant == Spec => []EInv
BY BusyInit, BusyNext, PTL DEF Spec

Free == Cardinality(Unbound)
Ahead == Cardinality(Made \ path)

\* The measure is five natural numbers.
LEMMA PartsAreNat ==
    ASSUME EInv
    PROVE  /\ Lefts \in Seq(Made) /\ Looking \in Seq(Made) /\ Firsts(todo) \in Seq(Made)
           /\ Free \in Nat /\ WaysDown(Lefts) \in Nat /\ Stage \in Nat
           /\ WaysDown(Looking) \in Nat /\ Ahead \in Nat
           /\ IsFiniteSet(Unbound) /\ IsFiniteSet(Made \ path)
<1>0. TypeOK /\ Chains /\ Busy
  BY DEF EInv, IInv
<1>1. Firsts(todo) \in Seq(Made)
  BY <1>0, FirstsOf DEF TypeOK
<1>2. Lefts \in Seq(Made)
  <2>1. CASE phase = "idle"
    BY <2>1 DEF Lefts
  <2>2. CASE phase # "idle"
    <3>1. <<a>> \in Seq(Made)
      BY <1>0, <2>2 DEF Busy
    <3> QED
      BY <1>1, <2>2, <3>1, ConcatProperties DEF Lefts
  <2> QED
    BY <2>1, <2>2
<1>3. Looking \in Seq(Made)
  <2>1. CASE phase # "occurs"
    BY <2>1 DEF Looking
  <2>2. CASE phase = "occurs"
    <3>0. at \in Made
      BY <1>0, <2>2, Named DEF Walking
    <3>1. occ \in Seq(Made)
      BY <1>0 DEF TypeOK
    <3>2. <<at>> \in Seq(Made)
      BY <3>0
    <3> QED
      BY <2>2, <3>1, <3>2, ConcatProperties DEF Looking
  <2> QED
    BY <2>1, <2>2
<1>4. IsFiniteSet(Unbound) /\ IsFiniteSet(Made \ path)
  <2>1. Unbound \in SUBSET Made /\ Made \ path \in SUBSET Made
    BY DEF Unbound
  <2> QED
    BY <1>0, <2>1, MadeIsFinite, FS_Subset
<1>5. Free \in Nat /\ Ahead \in Nat
  BY <1>4, FS_CardinalityType DEF Free, Ahead
<1>6. Stage \in Nat
  <2>1. phase \in Phases
    BY <1>0 DEF TypeOK
  <2> QED
    BY <2>1 DEF Stage, Phases
<1>7. WaysDown(Lefts) \in Nat /\ WaysDown(Looking) \in Nat
  BY <1>0, <1>2, <1>3, WaysDownNat
<1> QED
  BY <1>1, <1>2, <1>3, <1>4, <1>5, <1>6, <1>7

Shorter ==
    \/ Free' < Free
    \/ Free' = Free /\ WaysDown(Lefts)' < WaysDown(Lefts)
    \/ Free' = Free /\ WaysDown(Lefts)' = WaysDown(Lefts) /\ Stage' < Stage
    \/ /\ Free' = Free /\ WaysDown(Lefts)' = WaysDown(Lefts) /\ Stage' = Stage
       /\ WaysDown(Looking)' < WaysDown(Looking)
    \/ /\ Free' = Free /\ WaysDown(Lefts)' = WaysDown(Lefts) /\ Stage' = Stage
       /\ WaysDown(Looking)' = WaysDown(Looking) /\ Ahead' < Ahead

\* prune has come further.
LEMMA PruneStepShortens ==
    ASSUME EInv, PruneStep
    PROVE  Shorter
<1>0. /\ IInv /\ TypeOK /\ Chains /\ IInv'
      /\ Walking /\ bound[at] # 0 /\ path' = path \cup {at} /\ at' = bound[at]
      /\ UNCHANGED <<types, bound, root, phase, todo, a, b, occ>>
  BY InvPruneStep DEF EInv, IInv, PruneStep, Walking, AtEnd
<1>1. at \in Made \ path
  BY <1>0, Named, NotPassed
<1>2. (Made \ path)' = (Made \ path) \ {at}
  BY <1>0 DEF Made
<1>3. IsFiniteSet(Made \ path) /\ Ahead \in Nat
  BY PartsAreNat
<1>4. Ahead' < Ahead
  <2> DEFINE S == Made \ path
  <2>1. Cardinality(S \ {at}) = Cardinality(S) - 1
    BY <1>1, <1>3, FS_RemoveElement
  <2>2. Ahead' = Cardinality(S \ {at}) /\ Ahead = Cardinality(S)
    BY <1>2 DEF Ahead
  <2> QED
    BY <1>3, <2>1, <2>2
<1>5. Free' = Free /\ Lefts' = Lefts /\ Stage' = Stage
  BY <1>0 DEF Free, Unbound, Made, Lefts, Firsts, Stage, IsVar, KindOf
<1>6. WaysDown(Lefts)' = WaysDown(Lefts)
  BY <1>0, <1>5, SameWays
<1>7. WaysDown(Looking') = WaysDown(Looking)
  <2>1. CASE phase # "occurs"
    BY <1>0, <2>1 DEF Looking
  <2>2. CASE phase = "occurs"
    <3>1. root[at'] = root[at]
      BY <1>0, Named DEF Chains
    <3>2. occ \in Seq(Made)
      BY <1>0 DEF TypeOK
    <3>3. WaysDown(<<at'>> \o occ) = WaysDown(<<at>> \o occ)
      BY <3>1, <3>2, SameEnds
    <3> QED
      BY <1>0, <2>2, <3>3 DEF Looking
  <2> QED
    BY <2>1, <2>2
<1>8. WaysDown(Looking)' = WaysDown(Looking)
  BY <1>0, <1>7, SameWays
<1> QED
  BY <1>4, <1>5, <1>6, <1>8 DEF Shorter

LEMMA CompressFree ==
    ASSUME IInv, Walking, AtEnd, bound' = Compressed, UNCHANGED <<types, root>>
    PROVE  Free' = Free
<1>1. Made' = Made /\ \A n \in Made : bound'[n] = 0 <=> bound[n] = 0
  BY CompressFacts DEF IInv
<1> QED
  BY <1>1 DEF Free, Unbound

\* An argument has been pruned.
LEMMA PrunedShortens ==
    ASSUME EInv, PrunedA \/ PrunedB
    PROVE  Shorter
<1>0. /\ IInv /\ TypeOK /\ Args /\ Walking /\ AtEnd /\ bound' = Compressed
      /\ UNCHANGED <<types, root, todo>>
  BY DEF EInv, IInv, PrunedA, PrunedB, Walking
<1>1. Free' = Free
  BY <1>0, CompressFree
<1>2. Firsts(todo) \in Seq(Made)
  BY PartsAreNat
<1>3. CASE PrunedA
  <2>1. phase = "pruneA" /\ phase' = "pruneB" /\ a' = at /\ root[at] = root[a]
    BY <1>0, <1>3 DEF PrunedA, Args
  <2>2. WaysDown(<<a'>> \o Firsts(todo)) = WaysDown(<<a>> \o Firsts(todo))
    BY <1>2, <2>1, SameEnds
  <2>3. Lefts = <<a>> \o Firsts(todo) /\ Lefts' = <<a'>> \o Firsts(todo)
    BY <1>0, <2>1 DEF Lefts, Firsts
  <2>4. WaysDown(Lefts)' = WaysDown(Lefts)
    BY <1>0, <2>2, <2>3, SameWays
  <2>5. Stage = 6 /\ Stage' = 5
    BY <2>1 DEF Stage
  <2> QED
    BY <1>1, <2>4, <2>5 DEF Shorter
<1>4. CASE PrunedB
  <2>1. phase = "pruneB" /\ phase' = "decide" /\ a' = a
    BY <1>4 DEF PrunedB
  <2>2. Lefts' = Lefts
    BY <1>0, <2>1 DEF Lefts, Firsts
  <2>3. WaysDown(Lefts)' = WaysDown(Lefts)
    BY <1>0, <2>2, SameWays
  <2>4. Stage = 5 /\ Stage' < 5
    BY <2>1 DEF Stage
  <2> QED
    BY <1>1, <2>3, <2>4 DEF Shorter
<1> QED
  BY <1>3, <1>4

\* Two types have been compared: the children are put on the list, or not.
LEMMA ComparedShortens ==
    ASSUME EInv, SameVar \/ Leaf \/ Decompose
    PROVE  Shorter
<1>0. /\ IInv /\ TypeOK /\ Chains /\ Acyclic /\ phase = "decide" /\ UNCHANGED <<types, root, bound>>
      /\ a \in Made /\ b \in Made /\ root[a] = a
      /\ todo \in Seq(Made \X Made)
  <2>1. IInv /\ phase = "decide" /\ UNCHANGED <<types, root, bound>>
    BY DEF EInv, SameVar, Leaf, Decompose
  <2> QED
    BY <2>1, Decided DEF IInv
<1>1. Free' = Free
  BY <1>0 DEF Free, Unbound, Made
<1>2. Firsts(todo) \in Seq(Made) /\ Lefts = <<a>> \o Firsts(todo)
  BY <1>0, PartsAreNat DEF Lefts
<1>3. ASSUME NEW t \in Seq(Made), t = <<>> \/ t = Kids(a), Lefts' = t \o Firsts(todo)
      PROVE  Shorter
  <2>1. WaysDown(t \o Firsts(todo)) < WaysDown(<<a>> \o Firsts(todo))
    BY <1>0, <1>2, <1>3, Descends
  <2>2. WaysDown(Lefts)' = WaysDown(Lefts')
    BY <1>0, SameWays
  <2> QED
    BY <1>1, <1>2, <1>3, <2>1, <2>2 DEF Shorter
<1>4. CASE SameVar \/ Leaf
  <2>1. Lefts' = Firsts(todo)
    BY <1>0, <1>4, ContinueLefts DEF SameVar, Leaf
  <2>2. <<>> \o Firsts(todo) = Firsts(todo) /\ <<>> \in Seq(Made)
    BY <1>2, ConcatEmptySeq, EmptySeq
  <2> QED
    BY <1>3, <2>1, <2>2
<1>5. CASE Decompose
  <2>1. Len(Kids(a)) = Len(Kids(b)) /\ Continue(Pairs(a, b) \o todo)
    BY <1>5 DEF Decompose, SameArity
  <2>2. Pairs(a, b) \in Seq(Made \X Made)
    BY <1>0, <2>1, PairsFacts
  <2>3. Pairs(a, b) \o todo \in Seq(Made \X Made)
    BY <1>0, <2>2, ConcatProperties
  <2>4. Lefts' = Firsts(Pairs(a, b) \o todo)
    BY <2>1, <2>3, ContinueLefts
  <2>5. Firsts(Pairs(a, b) \o todo) = Firsts(Pairs(a, b)) \o Firsts(todo)
    BY <1>0, <2>2, FirstsConcat
  <2>6. Firsts(Pairs(a, b)) = Kids(a)
    BY <1>0, <2>1, FirstsOfPairs
  <2>7. Kids(a) \in Seq(Made)
    BY <1>0, KidsMade
  <2> QED
    BY <1>3, <2>4, <2>5, <2>6, <2>7
<1> QED
  BY <1>4, <1>5

\* The arguments have changed sides: below a variable there is nothing.
LEMMA SwapShortens ==
    ASSUME EInv, Swap
    PROVE  Shorter
<1>0. /\ IInv /\ TypeOK /\ Chains /\ phase = "decide" /\ phase' = phase
      /\ ~IsVar(a) /\ IsVar(b) /\ a' = b /\ b' = a
      /\ UNCHANGED <<types, root, bound, todo>>
      /\ a \in Made /\ b \in Made /\ bound[b] = 0
  <2>1. IInv /\ phase = "decide" /\ UNCHANGED <<types, root, bound>>
    BY DEF EInv, Swap
  <2>2. TypeOK /\ Chains /\ Args
    BY <2>1 DEF IInv
  <2> QED
    BY <2>1, <2>2, Decided DEF Swap, Args
<1>1. Free' = Free
  BY <1>0 DEF Free, Unbound, Made
<1>2. Firsts(todo) \in Seq(Made)
  BY PartsAreNat
<1>3. Lefts = <<a>> \o Firsts(todo) /\ Lefts' = <<b>> \o Firsts(todo)
  BY <1>0 DEF Lefts, Firsts
<1>4. Kids(b) = <<>>
  <2>1. types[b].shape \in Shapes /\ Kids(b) \in Seq(Made)
    BY <1>0, KidsMade
  <2>2. types[b].shape.kind \notin Composite
    BY <1>0 DEF IsVar, KindOf, Composite
  <2>3. types[b].shape.arity = 0
    BY <2>1, <2>2, ShapesAreShapes
  <2>4. Len(Kids(b)) = 0
    BY <1>0, <2>3 DEF TypeOK
  <2> QED
    BY <2>1, <2>4, EmptySeq
<1>5. WaysDown(<<b>> \o Firsts(todo)) <= WaysDown(<<a>> \o Firsts(todo))
  BY <1>0, <1>2, <1>4, NothingBelow
<1>6. WaysDown(Lefts)' <= WaysDown(Lefts)
  BY <1>0, <1>3, <1>5, SameWays
<1>7. WaysDown(Lefts) \in Nat /\ WaysDown(Lefts)' \in Nat
  <2>1. EInv'
    BY BusyNext DEF Next, Step
  <2>2. (WaysDown(Lefts) \in Nat)'
    BY <2>1, PartsAreNat, PTL
  <2> QED
    BY <2>2, PartsAreNat
<1>8. Stage = 4 /\ Stage' = 3
  BY <1>0 DEF Stage, IsVar, KindOf
<1> QED
  BY <1>1, <1>6, <1>7, <1>8 DEF Shorter

\* occurs_in begins, or unify fails.
LEMMA StageShortens ==
    ASSUME EInv, StartOccurs \/ Mismatch \/ Occurs
    PROVE  Shorter
<1>0. /\ IInv /\ phase # "idle" /\ phase' # "idle"
      /\ UNCHANGED <<types, root, todo, a>>
  BY DEF EInv, StartOccurs, Mismatch, Occurs, Fail
<1>1. Lefts' = Lefts
  BY <1>0 DEF Lefts, Firsts
<1>2. WaysDown(Lefts)' = WaysDown(Lefts)
  BY <1>0, <1>1, SameWays
<1>3. Free' = Free
  <2>1. CASE StartOccurs \/ Mismatch
    BY <2>1 DEF StartOccurs, Mismatch, Fail, Free, Unbound, Made
  <2>2. CASE Occurs
    BY <1>0, <2>2, CompressFree DEF Occurs, Walking
  <2> QED
    BY <2>1, <2>2
<1>4. Stage' < Stage
  <2>1. CASE StartOccurs
    <3>1. Stage = 3 /\ Stage' = 2
      BY <2>1 DEF StartOccurs, Stage
    <3> QED
      BY <3>1
  <2>2. CASE Mismatch
    <3>1. Stage = 3 /\ Stage' = 0
      BY <2>2 DEF Mismatch, Fail, Stage
    <3> QED
      BY <3>1
  <2>3. CASE Occurs
    <3>1. Stage = 2 /\ Stage' = 0
      BY <2>3 DEF Occurs, Fail, Stage
    <3> QED
      BY <3>1
  <2> QED
    BY <2>1, <2>2, <2>3
<1> QED
  BY <1>2, <1>3, <1>4 DEF Shorter

\* occurs_in has looked at a type.
LEMMA LookedShortens ==
    ASSUME EInv, LookedAt
    PROVE  Shorter
<1>0. /\ IInv /\ TypeOK /\ Chains /\ Acyclic /\ phase = "occurs" /\ Walking /\ AtEnd
      /\ bound' = Compressed /\ Look(Kids(at) \o occ)
      /\ UNCHANGED <<types, root, todo, a>>
      /\ at \in Made /\ occ \in Seq(Made)
  <2>1. EInv /\ TypeOK /\ phase = "occurs" /\ Walking
    BY DEF EInv, IInv, LookedAt, Walking
  <2>2. at \in Made /\ occ \in Seq(Made)
    BY <2>1, Named DEF TypeOK
  <2> QED
    BY <2>1, <2>2 DEF EInv, IInv, LookedAt
<1>1. Kids(at) \in Seq(Made) /\ Kids(at) \o occ \in Seq(Made)
  BY <1>0, KidsMade, ConcatProperties
<1>2. Free' = Free
  BY <1>0, CompressFree
<1>3. phase' \in {"occurs", "bind"}
  BY <1>0, <1>1, LookFacts
<1>4. Lefts' = Lefts
  BY <1>0, <1>3 DEF Lefts, Firsts
<1>5. WaysDown(Lefts)' = WaysDown(Lefts)
  BY <1>0, <1>4, SameWays
<1>6. root[at] = at
  BY <1>0 DEF AtEnd, Chains
<1>7. WaysDown(Kids(at) \o occ) < WaysDown(<<at>> \o occ)
  BY <1>0, <1>1, <1>6, Descends
<1>8. WaysDown(Looking)' < WaysDown(Looking)
  <2>1. Looking = <<at>> \o occ /\ Looking' = Kids(at) \o occ
    BY <1>0, <1>1, LookLooking DEF Looking
  <2> QED
    BY <1>0, <1>7, <2>1, SameWays
<1>9. Stage = 2 /\ (Stage' = 2 \/ Stage' = 1)
  BY <1>0, <1>3 DEF Stage
<1>10. CASE Stage' = 2
  BY <1>2, <1>5, <1>8, <1>9, <1>10 DEF Shorter
<1>11. CASE Stage' = 1
  BY <1>2, <1>5, <1>9, <1>11 DEF Shorter
<1> QED
  BY <1>9, <1>10, <1>11

\* A variable has been bound.
LEMMA BindShortens ==
    ASSUME EInv, Bind
    PROVE  Shorter
<1>0. /\ TypeOK /\ Args /\ phase = "bind" /\ bound' = [bound EXCEPT ![a] = b] /\ UNCHANGED types
  BY DEF EInv, IInv, Bind
<1>1. /\ a \in Made /\ b \in Made /\ bound[a] = 0 /\ b # 0 /\ Made \subseteq Node
  BY <1>0, Named DEF Args, Made
<1>2. \A n \in Made : bound'[n] = IF n = a THEN b ELSE bound[n]
  BY <1>0, <1>1 DEF TypeOK
<1>3. Unbound' = Unbound \ {a} /\ a \in Unbound
  BY <1>0, <1>1, <1>2 DEF Unbound, Made
<1>4. IsFiniteSet(Unbound) /\ Free \in Nat
  BY PartsAreNat
<1>5. Cardinality(Unbound \ {a}) = Cardinality(Unbound) - 1
  BY <1>3, <1>4, FS_RemoveElement
<1>6. Free' < Free
  BY <1>3, <1>4, <1>5 DEF Free
<1> QED
  BY <1>6 DEF Shorter

LEMMA StepShortens ==
    ASSUME EInv, phase # "idle", Next
    PROVE  Shorter
<1>1. Step
  BY DEF Next, Alloc, Equate
<1> QED
  BY <1>1, PruneStepShortens, PrunedShortens, ComparedShortens, SwapShortens, StageShortens,
     LookedShortens, BindShortens DEF Step

\* The first of the numbers that differs decides.
LEMMA FirstDecides ==
    ASSUME NEW t1, NEW t2, NEW t3, NEW t4, NEW t5,
           NEW u1, NEW u2, NEW u3, NEW u4, NEW u5,
           \/ t1 < u1
           \/ t1 = u1 /\ t2 < u2
           \/ t1 = u1 /\ t2 = u2 /\ t3 < u3
           \/ t1 = u1 /\ t2 = u2 /\ t3 = u3 /\ t4 < u4
           \/ t1 = u1 /\ t2 = u2 /\ t3 = u3 /\ t4 = u4 /\ t5 < u5
    PROVE  Fewer(<<t1, t2, t3, t4, t5>>, <<u1, u2, u3, u4, u5>>)
<1> DEFINE t == <<t1, t2, t3, t4, t5>>
           u == <<u1, u2, u3, u4, u5>>
<1>1. /\ t[1] = t1 /\ t[2] = t2 /\ t[3] = t3 /\ t[4] = t4 /\ t[5] = t5
      /\ u[1] = u1 /\ u[2] = u2 /\ u[3] = u3 /\ u[4] = u4 /\ u[5] = u5
  OBVIOUS
<1> HIDE DEF t, u
<1>2. /\ 1 .. 1 - 1 = {} /\ 1 .. 2 - 1 = {1} /\ 1 .. 3 - 1 = {1, 2}
      /\ 1 .. 4 - 1 = {1, 2, 3} /\ 1 .. 5 - 1 = {1, 2, 3, 4}
      /\ 1 .. 5 = {1, 2, 3, 4, 5}
  OBVIOUS
<1>3. ASSUME NEW i \in 1 .. 5, t[i] < u[i], \A j \in 1 .. i - 1 : t[j] = u[j]
      PROVE  Fewer(t, u)
  BY <1>3 DEF Fewer
<1>4. t1 < u1 => Fewer(t, u)
  BY <1>1, <1>2, <1>3
<1>5. t1 = u1 /\ t2 < u2 => Fewer(t, u)
  BY <1>1, <1>2, <1>3
<1>6. t1 = u1 /\ t2 = u2 /\ t3 < u3 => Fewer(t, u)
  BY <1>1, <1>2, <1>3
<1>7. t1 = u1 /\ t2 = u2 /\ t3 = u3 /\ t4 < u4 => Fewer(t, u)
  BY <1>1, <1>2, <1>3
<1>8. t1 = u1 /\ t2 = u2 /\ t3 = u3 /\ t4 = u4 /\ t5 < u5 => Fewer(t, u)
  BY <1>1, <1>2, <1>3
<1>9. Fewer(t, u)
  BY <1>4, <1>5, <1>6, <1>7, <1>8
<1> QED
  BY <1>9 DEF t, u

\* Five numbers.
Works == [1 .. 5 -> Nat]

\* Every step of a call of unify leaves less to do.
THEOREM UnifyGetsShorter == Spec => UnifyShortens
<1>1. EInv /\ [Next]_vars => [phase # "idle" => Fewer(ToDo', ToDo)]_vars
  <2> SUFFICES ASSUME EInv, Next, phase # "idle" PROVE Fewer(ToDo', ToDo)
    OBVIOUS
  <2>1. Shorter
    BY StepShortens
  <2>2. /\ ToDo = <<Free, WaysDown(Lefts), Stage, WaysDown(Looking), Ahead>>
        /\ ToDo' = <<Free', WaysDown(Lefts)', Stage', WaysDown(Looking)', Ahead'>>
    BY DEF ToDo, Free, Ahead
  <2>3. Fewer(<<Free', WaysDown(Lefts)', Stage', WaysDown(Looking)', Ahead'>>,
              <<Free, WaysDown(Lefts), Stage, WaysDown(Looking), Ahead>>)
    BY <2>1, FirstDecides DEF Shorter
  <2> QED
    BY <2>2, <2>3
<1> QED
  BY <1>1, BusyInvariant, PTL DEF Spec, UnifyShortens

\* What is left is five natural numbers, and there is no way to have fewer of
\* them for ever: so unify, occurs_in and prune end.
THEOREM UnifyIsBounded ==
    /\ Spec => [](ToDo \in Works)
    /\ IsWellFoundedOn({w \in Works \X Works : Fewer(w[1], w[2])}, Works)
<1>1. EInv => ToDo \in Works
  <2> SUFFICES ASSUME EInv PROVE ToDo \in Works
    OBVIOUS
  <2>1. /\ Free \in Nat /\ WaysDown(Lefts) \in Nat /\ Stage \in Nat
        /\ WaysDown(Looking) \in Nat /\ Ahead \in Nat
    BY PartsAreNat
  <2>2. ToDo = <<Free, WaysDown(Lefts), Stage, WaysDown(Looking), Ahead>>
    BY DEF ToDo, Free, Ahead
  <2> QED
    BY <2>1, <2>2 DEF Works
<1>2. Spec => [](ToDo \in Works)
  BY <1>1, BusyInvariant, PTL
<1>3. IsWellFoundedOn({w \in Works \X Works : Fewer(w[1], w[2])}, Works)
  <2> DEFINE L == LexProductOrdering(OpToRel(<, Nat), Nat, 5)
             R == {w \in Works \X Works : Fewer(w[1], w[2])}
  <2>1. IsWellFoundedOn(L, Works)
    BY NatLessThanWellFounded, WFLexProductOrdering DEF Works
  <2>2. R \cap (Works \X Works) \subseteq L
    <3> SUFFICES ASSUME NEW w \in Works \X Works, Fewer(w[1], w[2]) PROVE w \in L
      OBVIOUS
    <3>1. PICK i \in 1 .. 5 : w[1][i] < w[2][i] /\ \A j \in 1 .. i - 1 : w[1][j] = w[2][j]
      BY DEF Fewer
    <3>2. w[1][i] \in Nat /\ w[2][i] \in Nat
      BY DEF Works
    <3>3. <<w[1][i], w[2][i]>> \in OpToRel(<, Nat)
      BY <3>1, <3>2 DEF OpToRel
    <3> QED
      BY <3>1, <3>3 DEF LexProductOrdering, Works
  <2> HIDE DEF L, R
  <2>3. IsWellFoundedOn(R, Works)
    BY <2>1, <2>2, IsWellFoundedOnSubrelation
  <2> QED
    BY <2>3 DEF R
<1> QED
  BY <1>2, <1>3

=============================================================================
