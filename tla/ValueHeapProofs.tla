-------------------------- MODULE ValueHeapProofs --------------------------
(***************************************************************************)
(* Theorems about ValueHeap, for any number of addresses, handles and slots. *)
(* The argument: outside a sweep every cell points to a listed object, and a *)
(* listed object's count differs from the number of cells that hold it by    *)
(* the slips of its ledger; it is 0 or less for the objects a release cascade *)
(* is taking apart (HeapInv).  The marked objects are closed under the        *)
(* pointers and contain nothing a program could not reach (CollectInv), so    *)
(* the sweep may forget the rest (SweepInv).  A cascade that frees an object   *)
(* some cell still holds finds the ledger in debt (DanglingInv).              *)
(***************************************************************************)
EXTENDS ValueHeap, FiniteSetTheorems, TLAPS

RefsOf(f, o) == {c \in Cell : f[c] = o}

Card(f, o) == Cardinality(RefsOf(f, o))

CountOK(o) == refc[o] + lent[o] = Cardinality(Refs(o)) + lost[o]

FreeSlotsEmpty == \A o \in Obj \ tracked, s \in Slot : val[<<o, s>>] = NULL

\* Outside a sweep.
HeapInv ==
    /\ dying \subseteq tracked
    /\ \A c \in Cell : val[c] # NULL => val[c] \in tracked
    /\ \A o \in tracked : /\ CountOK(o)
                          /\ o \in dying => refc[o] <= 0
                          /\ refc[o] = 0 /\ lent[o] = 0 => o \in dying

\* During a sweep.
SweepInv ==
    /\ dying = {}
    /\ \A h \in Handle : val[h] # NULL => val[h] \in marked
    /\ \A o \in marked, s \in Slot : val[<<o, s>>] # NULL => val[<<o, s>>] \in marked
    /\ \A o \in marked : CountOK(o) /\ (lent[o] = 0 => refc[o] # 0)

\* After an object was freed that a cell still holds.
DanglingInv ==
    /\ \A c \in Cell : val[c] \in Obj \ tracked => lent[val[c]] > lost[val[c]]
    /\ \A o \in tracked : CountOK(o)

\* A free address has no ledger.
LedgerInv == \A o \in Obj \ tracked : lent[o] = 0 /\ lost[o] = 0

\* The collector's colours.
CollectInv ==
    /\ gray \subseteq marked /\ marked \subseteq tracked
    /\ pc # "mark" => gray = {}
    /\ pc \notin {"mark", "sweep"} => marked = {}
    /\ pc \in {"mark", "sweep"} =>
         /\ RootObjs \subseteq marked
         /\ \A C \in SUBSET Obj : RootObjs \subseteq C /\ Closed(C) => marked \subseteq C
    /\ pc = "mark" =>
         \A o \in marked \ gray, s \in Slot : val[<<o, s>>] # NULL => val[<<o, s>>] \in marked

\* The operation in progress.
OpInv ==
    /\ pc \notin {"release", "dangling"} => dying = {}
    /\ pc \in {"run", "mark", "sweep"} => src = NULL /\ dst = NULL
    /\ pc = "fill" => src = NULL /\ dst \in Handle /\ val[dst] # NULL /\ Refs(val[dst]) = {dst}
    /\ pc = "drop" => src \in Handle /\ val[src] # NULL /\ dst = NULL
    /\ pc = "release" =>
         \/ src = NULL /\ dst = NULL
         \/ /\ src \in Handle /\ dst # src /\ dst # NULL /\ val[dst] = NULL
            /\ dst \in Readable(src)

IInv ==
    /\ TypeOK
    /\ FreeSlotsEmpty
    /\ CollectInv
    /\ OpInv
    /\ CASE pc = "sweep" -> SweepInv /\ LedgerInv
         [] pc = "dangling" -> DanglingInv
         [] OTHER -> HeapInv /\ LedgerInv

-----------------------------------------------------------------------------
(* Counting cells *)

\* The places a value can be in are finitely many.
LEMMA CellFinite == IsFiniteSet(Cell)
<1>1. IsFiniteSet(Obj \X Slot)
  BY FS_Product, ConstantsFinite
<1> QED
  BY <1>1, FS_Union, ConstantsFinite DEF Cell

\* So are the holders of one object.
LEMMA CardType ==
  ASSUME NEW f, NEW o
  PROVE  IsFiniteSet(RefsOf(f, o)) /\ Card(f, o) \in Nat
<1>1. RefsOf(f, o) \in SUBSET Cell
  BY DEF RefsOf
<1>2. IsFiniteSet(RefsOf(f, o))
  BY <1>1, CellFinite, FS_Subset
<1> QED
  BY <1>2, FS_CardinalityType DEF Card

\* The three ways one function differs from another.
IsPut(f, g, c, o) == g = [f EXCEPT ![c] = o]
IsClear(f, g, c) == g = [f EXCEPT ![c] = NULL]
IsMove(f, g, c, d) == g = [f EXCEPT ![d] = f[c], ![c] = NULL]

\* Writing an object into an empty cell adds one holder.
LEMMA PutCount ==
  ASSUME NEW f \in [Cell -> Obj \cup {NULL}], NEW c \in Cell, NEW o \in Obj,
         f[c] = NULL, NEW x \in Obj,
         NEW g, IsPut(f, g, c, o)
  PROVE  Card(g, x) = IF x = o THEN Card(f, x) + 1 ELSE Card(f, x)
<1>0. NULL \notin Obj
  BY ConstantsDisjoint
<1>1. CASE x = o
  <2>1. RefsOf(g, x) = RefsOf(f, x) \cup {c} /\ c \notin RefsOf(f, x)
    BY <1>0, <1>1 DEF RefsOf, IsPut
  <2> QED
    BY <1>1, <2>1, CardType, FS_AddElement DEF Card
<1>2. CASE x # o
  <2>1. RefsOf(g, x) = RefsOf(f, x)
    BY <1>0, <1>2 DEF RefsOf, IsPut
  <2> QED
    BY <1>2, <2>1 DEF Card
<1> QED
  BY <1>1, <1>2

\* Clearing a cell removes the one holder it was.
LEMMA ClearCount ==
  ASSUME NEW f \in [Cell -> Obj \cup {NULL}], NEW c \in Cell,
         f[c] # NULL, NEW x \in Obj,
         NEW g, IsClear(f, g, c)
  PROVE  /\ Card(g, x) = IF x = f[c] THEN Card(f, x) - 1 ELSE Card(f, x)
         /\ x = f[c] => Card(f, x) >= 1
<1>0. NULL \notin Obj
  BY ConstantsDisjoint
<1>1. CASE x = f[c]
  <2>1. RefsOf(g, x) = RefsOf(f, x) \ {c} /\ c \in RefsOf(f, x)
    BY <1>0, <1>1 DEF RefsOf, IsClear
  <2>2. Card(g, x) = Card(f, x) - 1
    BY <2>1, CardType, FS_RemoveElement DEF Card
  <2>3. Card(f, x) \in Nat /\ Card(g, x) \in Nat
    BY CardType
  <2> QED
    BY <1>1, <2>2, <2>3
<1>2. CASE x # f[c]
  <2>1. RefsOf(g, x) = RefsOf(f, x)
    BY <1>0, <1>2 DEF RefsOf, IsClear
  <2> QED
    BY <1>2, <2>1 DEF Card
<1> QED
  BY <1>1, <1>2

\* Moving a value between cells changes no count.
LEMMA MoveCount ==
  ASSUME NEW f \in [Cell -> Obj \cup {NULL}], NEW c \in Cell, NEW d \in Cell,
         c # d, f[d] = NULL, NEW x \in Obj,
         NEW m, IsMove(f, m, c, d)
  PROVE  Card(m, x) = Card(f, x)
<1>1. CASE f[c] = NULL
  <2>1. m = f
    BY <1>1 DEF IsMove
  <2> QED
    BY <2>1
<1>2. CASE f[c] # NULL
  <2> DEFINE g == [f EXCEPT ![c] = NULL]
  <2>1. g \in [Cell -> Obj \cup {NULL}] /\ g[d] = NULL /\ f[c] \in Obj
    BY <1>2
  <2>2. IsPut(g, m, d, f[c]) /\ IsClear(f, g, c)
    BY DEF IsMove, IsPut, IsClear
  <2>3. Card(g, x) = IF x = f[c] THEN Card(f, x) - 1 ELSE Card(f, x)
    <3> HIDE DEF g
    <3> QED
      BY <1>2, <2>2, ClearCount
  <2> HIDE DEF g
  <2>4. Card(m, x) = IF x = f[c] THEN Card(g, x) + 1 ELSE Card(g, x)
    BY <2>1, <2>2, PutCount
  <2>5. Card(f, x) \in Nat
    BY CardType
  <2> QED
    BY <2>3, <2>4, <2>5
<1> QED
  BY <1>1, <1>2

-----------------------------------------------------------------------------
(* The ways a cell changes keep the heap counted. *)

CellTypes ==
    /\ val \in [Cell -> Obj \cup {NULL}]
    /\ refc \in [Obj -> Int]
    /\ lent \in [Obj -> Nat] /\ lost \in [Obj -> Nat]
    /\ dying \subseteq Obj /\ tracked \subseteq Obj

NotWrapped == \A o \in tracked : lent[o] = 0 => refc[o] >= 0

Heap == CellTypes /\ NotWrapped /\ FreeSlotsEmpty /\ HeapInv /\ LedgerInv

\* A slot is a cell, and no handle is a slot.
LEMMA SlotCell ==
  ASSUME NEW o \in Obj, NEW s \in Slot
  PROVE  <<o, s>> \in Cell /\ <<o, s>> \notin Handle /\ <<o, s>> # NULL
BY ConstantsDisjoint DEF Cell

\* The equation of CountOK over RefsOf, and its two unprimed and primed readings.
LEMMA CountIs ==
  ASSUME NEW x
  PROVE  /\ CountOK(x) <=> refc[x] + lent[x] = Card(val, x) + lost[x]
         /\ CountOK(x)' <=> refc'[x] + lent'[x] = Card(val', x) + lost'[x]
         /\ Card(val, x) \in Nat /\ Card(val', x) \in Nat
<1>1. /\ CountOK(x) <=> refc[x] + lent[x] = Card(val, x) + lost[x]
      /\ CountOK(x)' <=> refc'[x] + lent'[x] = Card(val', x) + lost'[x]
  BY DEF CountOK, Refs, Card, RefsOf
<1> QED
  BY <1>1, CardType

\* A count that adds up and was never lent did not wrap.
LEMMA CountedNotWrapped ==
  ASSUME CellTypes', \A x \in tracked' : CountOK(x)'
  PROVE  NotWrapped'
<1> SUFFICES ASSUME NEW x \in tracked', lent'[x] = 0
             PROVE  refc'[x] >= 0
  BY DEF NotWrapped
<1>1. refc'[x] \in Int /\ lost'[x] \in Nat
  BY DEF CellTypes
<1>2. refc'[x] + lent'[x] = Card(val', x) + lost'[x] /\ Card(val', x) \in Nat
  BY CountIs
<1> QED
  BY <1>1, <1>2

\* A step that touches no cell, count or list.
LEMMA SameHeap ==
  ASSUME Heap, UNCHANGED <<val, refc, lent, lost, tracked, dying>>
  PROVE  Heap'
BY DEF Heap, CellTypes, NotWrapped, FreeSlotsEmpty, HeapInv, LedgerInv, CountOK, Refs

\* value_release of one cell.
LEMMA ReleaseCellHeap ==
  ASSUME Heap, NEW c \in Cell, ReleaseCell(c),
         tracked' = tracked, lent' = lent, lost' = lost
  PROVE  Heap'
<1> USE DEF Heap, CellTypes
<1>0. NULL \notin Obj
  BY ConstantsDisjoint
<1>1. CASE val[c] = NULL
  <2>1. val' = val /\ refc' = refc /\ dying' = dying
    BY <1>1 DEF ReleaseCell
  <2> QED
    BY <2>1, SameHeap
<1>2. CASE val[c] # NULL
  <2> DEFINE v == val[c]
  <2>1. v \in Obj /\ v \in tracked
    BY <1>2 DEF HeapInv
  <2>2. /\ val' = [val EXCEPT ![c] = NULL]
        /\ refc' = [refc EXCEPT ![v] = @ - 1]
        /\ dying' = IF refc[v] = 1 THEN dying \cup {v} ELSE dying
    BY <1>2 DEF ReleaseCell
  <2>3. \A x \in Obj : Card(val', x) = IF x = v THEN Card(val, x) - 1 ELSE Card(val, x)
    <3>1. IsClear(val, val', c)
      BY <2>2 DEF IsClear
    <3> QED
      BY <1>2, <3>1, ClearCount
  <2>4. CellTypes'
    BY <2>1, <2>2
  <2>5. FreeSlotsEmpty' /\ LedgerInv'
    BY <2>2, SlotCell DEF FreeSlotsEmpty, LedgerInv
  <2>6. dying' \subseteq tracked'
    BY <2>1, <2>2 DEF HeapInv
  <2>7. \A d \in Cell : val'[d] # NULL => val'[d] \in tracked'
    BY <2>2 DEF HeapInv
  <2>8. \A x \in Obj : refc'[x] = IF x = v THEN refc[x] - 1 ELSE refc[x]
    BY <2>1, <2>2
  <2> HIDE DEF v
  <2>9. ASSUME NEW x \in tracked'
        PROVE  CountOK(x)'
    <3>1. refc[x] + lent[x] = Card(val, x) + lost[x] /\ Card(val, x) \in Nat
      BY CountIs DEF HeapInv
    <3>2. refc[x] \in Int /\ lent[x] \in Nat /\ lost[x] \in Nat
      OBVIOUS
    <3>3. refc'[x] + lent'[x] = Card(val', x) + lost'[x]
      BY <2>3, <2>8, <3>1, <3>2
    <3> QED
      BY <3>3, CountIs
  <2>10. ASSUME NEW x \in tracked'
         PROVE  /\ x \in dying' => refc'[x] <= 0
                /\ refc'[x] = 0 /\ lent'[x] = 0 => x \in dying'
    <3>1. refc[x] \in Int /\ (x \in dying => refc[x] <= 0)
      BY DEF HeapInv
    <3>2. refc[x] = 0 /\ lent[x] = 0 => x \in dying
      BY DEF HeapInv
    <3>3. CASE x = v
      BY <2>2, <2>8, <3>1, <3>3
    <3>4. CASE x # v
      BY <2>2, <2>8, <3>1, <3>2, <3>4
    <3> QED
      BY <3>3, <3>4
  <2>11. HeapInv'
    BY <2>6, <2>7, <2>9, <2>10 DEF HeapInv
  <2> QED
    BY <2>4, <2>5, <2>9, <2>11, CountedNotWrapped
<1> QED
  BY <1>1, <1>2

\* value_retain into an empty cell of a handle or of a listed object.
LEMMA RetainCellHeap ==
  ASSUME Heap, dying = {}, NEW c \in Cell, NEW d \in Cell,
         val[c] # NULL, val[d] = NULL,
         \A o \in Obj \ tracked, s \in Slot : d # <<o, s>>,
         RetainCell(c, d),
         tracked' = tracked, lent' = lent, lost' = lost, dying' = dying
  PROVE  Heap'
<1> USE DEF Heap, CellTypes
<1> DEFINE v == val[c]
<1>1. v \in Obj /\ v \in tracked
  BY DEF HeapInv
<1>2. val' = [val EXCEPT ![d] = v] /\ refc' = [refc EXCEPT ![v] = @ + 1]
  BY DEF RetainCell
<1>3. \A x \in Obj : Card(val', x) = IF x = v THEN Card(val, x) + 1 ELSE Card(val, x)
  <2>1. IsPut(val, val', d, v)
    BY <1>2 DEF IsPut
  <2> HIDE DEF v
  <2> QED
    BY <1>1, <2>1, PutCount
<1>4. CellTypes'
  BY <1>1, <1>2
<1>5. FreeSlotsEmpty' /\ LedgerInv'
  BY <1>2, SlotCell DEF FreeSlotsEmpty, LedgerInv
<1>6. \A e \in Cell : val'[e] # NULL => val'[e] \in tracked'
  BY <1>1, <1>2 DEF HeapInv
<1>7. \A x \in Obj : refc'[x] = IF x = v THEN refc[x] + 1 ELSE refc[x]
  BY <1>1, <1>2
<1> HIDE DEF v
<1>8. ASSUME NEW x \in tracked'
      PROVE  CountOK(x)' /\ ~(refc'[x] = 0 /\ lent'[x] = 0)
  <2>1. refc[x] + lent[x] = Card(val, x) + lost[x] /\ Card(val, x) \in Nat
    BY CountIs DEF HeapInv
  <2>2. refc[x] \in Int /\ lent[x] \in Nat /\ lost[x] \in Nat
    OBVIOUS
  <2>3. refc'[x] + lent'[x] = Card(val', x) + lost'[x]
    BY <1>3, <1>7, <2>1, <2>2
  <2>4. ~(refc[x] = 0 /\ lent[x] = 0)
    BY DEF HeapInv
  <2>5. ~(refc'[x] = 0 /\ lent'[x] = 0)
    BY <1>7, <2>1, <2>2, <2>4
  <2> QED
    BY <2>3, <2>5, CountIs
<1>9. HeapInv'
  BY <1>6, <1>8 DEF HeapInv
<1> QED
  BY <1>4, <1>5, <1>8, <1>9, CountedNotWrapped

\* Moving a value into an empty cell of a handle or of a listed object.
LEMMA MoveCellHeap ==
  ASSUME Heap, NEW c \in Cell, NEW d \in Cell, c # d, val[d] = NULL,
         \A o \in Obj \ tracked, s \in Slot : d # <<o, s>>,
         MoveCell(c, d), UNCHANGED <<refc, lent, lost, tracked, dying>>
  PROVE  Heap'
<1> USE DEF Heap, CellTypes
<1>1. val' = [val EXCEPT ![d] = val[c], ![c] = NULL]
  BY DEF MoveCell
<1>2. \A x \in Obj : Card(val', x) = Card(val, x)
  <2>1. IsMove(val, val', c, d)
    BY <1>1 DEF IsMove
  <2> QED
    BY <2>1, MoveCount
<1>3. \A x \in tracked : CountOK(x)'
  BY <1>2, CountIs DEF HeapInv
<1>4. CellTypes'
  BY <1>1
<1>5. FreeSlotsEmpty' /\ LedgerInv'
  BY <1>1, SlotCell DEF FreeSlotsEmpty, LedgerInv
<1>6. \A e \in Cell : val'[e] # NULL => val'[e] \in tracked'
  BY <1>1 DEF HeapInv
<1>7. HeapInv'
  BY <1>3, <1>6 DEF HeapInv
<1>8. NotWrapped'
  BY DEF NotWrapped
<1> QED
  BY <1>4, <1>5, <1>7, <1>8

\* heap_untrack of an object no cell holds any more.
LEMMA FreeDeadHeap ==
  ASSUME Heap, NEW o \in dying, Refs(o) = {},
         \A s \in Slot : val[<<o, s>>] = NULL,
         val' = val, tracked' = tracked \ {o}, dying' = dying \ {o}, Forgotten(o)
  PROVE  Heap'
<1> USE DEF Heap, CellTypes, Forgotten
<1>1. \A c \in Cell : val'[c] # NULL => val'[c] \in tracked'
  BY DEF HeapInv, Refs
<1>2. \A x \in tracked' : x # o /\ refc'[x] = refc[x] /\ lent'[x] = lent[x] /\ lost'[x] = lost[x]
  OBVIOUS
<1>3. FreeSlotsEmpty' /\ LedgerInv'
  BY DEF FreeSlotsEmpty, LedgerInv
<1>4. \A x \in tracked' : CountOK(x)'
  BY <1>2, CountIs DEF HeapInv
<1>5. HeapInv'
  BY <1>1, <1>2, <1>4 DEF HeapInv
<1>6. NotWrapped'
  BY <1>2 DEF NotWrapped
<1>7. CellTypes'
  OBVIOUS
<1> QED
  BY <1>3, <1>5, <1>6, <1>7

\* heap_track of a new object, held by one handle.
LEMMA NewHeap ==
  ASSUME Heap, NEW o \in Obj \ tracked, NEW h \in Handle, val[h] = NULL,
         val' = [val EXCEPT ![h] = o], refc' = [refc EXCEPT ![o] = 1],
         tracked' = tracked \cup {o}, UNCHANGED <<lent, lost, dying>>
  PROVE  Heap'
<1> USE DEF Heap, CellTypes
<1>0. h \in Cell
  BY DEF Cell
<1>1. Card(val, o) = 0
  <2>1. RefsOf(val, o) = {}
    BY ConstantsDisjoint DEF RefsOf, HeapInv
  <2> QED
    BY <2>1, FS_EmptySet DEF Card
<1>2. \A x \in Obj : Card(val', x) = IF x = o THEN Card(val, x) + 1 ELSE Card(val, x)
  <2>1. IsPut(val, val', h, o)
    BY DEF IsPut
  <2> QED
    BY <1>0, <2>1, PutCount
<1>3. CountOK(o)' /\ refc'[o] = 1
  <2>1. refc'[o] = 1 /\ lent'[o] = 0 /\ lost'[o] = 0
    BY DEF LedgerInv
  <2>2. Card(val', o) = Card(val, o) + 1
    BY <1>2, Zenon
  <2>3. refc'[o] + lent'[o] = Card(val', o) + lost'[o]
    BY <1>1, <2>1, <2>2
  <2> QED
    BY <2>1, <2>3, CountIs
<1>4. ASSUME NEW x \in tracked
      PROVE  CountOK(x)' /\ refc'[x] = refc[x]
  <2>1. x # o /\ Card(val', x) = Card(val, x) /\ refc'[x] = refc[x]
    BY <1>2
  <2> QED
    BY <2>1, CountIs DEF HeapInv
<1>5. o \notin dying
  BY DEF HeapInv
<1>6. \A c \in Cell : val'[c] # NULL => val'[c] \in tracked'
  BY DEF HeapInv
<1>7. FreeSlotsEmpty' /\ LedgerInv'
  BY SlotCell DEF FreeSlotsEmpty, LedgerInv
<1>8. CellTypes'
  <2>1. val' \in [Cell -> Obj \cup {NULL}] /\ refc' \in [Obj -> Int]
    BY <1>0
  <2>2. lent' = lent /\ lost' = lost /\ dying' = dying /\ tracked' \subseteq Obj
    OBVIOUS
  <2> QED
    BY <2>1, <2>2
<1>11. dying' \subseteq tracked'
  BY DEF HeapInv
<1>9. \A x \in tracked' : CountOK(x)'
  BY <1>3, <1>4
<1>10. HeapInv'
  BY <1>3, <1>4, <1>5, <1>6, <1>9, <1>11 DEF HeapInv
<1> QED
  BY <1>7, <1>8, <1>9, <1>10, CountedNotWrapped

\* A copy with no retain, and its entry in the ledger.
LEMMA LendHeap ==
  ASSUME Heap, dying = {}, NEW k \in Handle, NEW h \in Handle,
         val[k] # NULL, val[h] = NULL,
         val' = [val EXCEPT ![h] = val[k]],
         lent' = [lent EXCEPT ![val[k]] = @ + 1],
         refc' = refc, lost' = lost, tracked' = tracked, dying' = dying
  PROVE  Heap'
<1> USE DEF Heap, CellTypes
<1> DEFINE v == val[k]
<1>0. h \in Cell /\ k \in Cell
  BY DEF Cell
<1>1. v \in Obj /\ v \in tracked
  BY <1>0 DEF HeapInv
<1>2. \A x \in Obj : Card(val', x) = IF x = v THEN Card(val, x) + 1 ELSE Card(val, x)
  <2>1. IsPut(val, val', h, v)
    BY DEF IsPut
  <2> HIDE DEF v
  <2> QED
    BY <1>0, <1>1, <2>1, PutCount
<1>3. \A x \in Obj : lent'[x] = IF x = v THEN lent[x] + 1 ELSE lent[x]
  BY <1>1
<1>4. CellTypes'
  BY <1>0, <1>1
<1>5. FreeSlotsEmpty' /\ LedgerInv'
  BY <1>1, SlotCell DEF FreeSlotsEmpty, LedgerInv
<1>6. \A e \in Cell : val'[e] # NULL => val'[e] \in tracked'
  BY <1>0, <1>1 DEF HeapInv
<1> HIDE DEF v
<1>7. ASSUME NEW x \in tracked'
      PROVE  CountOK(x)' /\ ~(refc'[x] = 0 /\ lent'[x] = 0)
  <2>1. refc[x] + lent[x] = Card(val, x) + lost[x] /\ Card(val, x) \in Nat
    BY CountIs DEF HeapInv
  <2>2. refc[x] \in Int /\ lent[x] \in Nat /\ lost[x] \in Nat
    OBVIOUS
  <2>3. refc'[x] + lent'[x] = Card(val', x) + lost'[x]
    <3>1. x \in Obj
      OBVIOUS
    <3>2. CASE x = v
      <4>1. Card(val', x) = Card(val, x) + 1 /\ lent'[x] = lent[x] + 1
        BY <1>2, <1>3, <3>1, <3>2
      <4> QED
        BY <2>1, <2>2, <4>1
    <3>3. CASE x # v
      <4>1. Card(val', x) = Card(val, x) /\ lent'[x] = lent[x]
        BY <1>2, <1>3, <3>1, <3>3
      <4> QED
        BY <2>1, <2>2, <4>1
    <3> QED
      BY <3>2, <3>3
  <2>4. ~(refc[x] = 0 /\ lent[x] = 0)
    BY DEF HeapInv
  <2>5. ~(refc'[x] = 0 /\ lent'[x] = 0)
    BY <1>3, <2>2, <2>4
  <2> QED
    BY <2>3, <2>5, CountIs
<1>8. HeapInv'
  BY <1>6, <1>7 DEF HeapInv
<1> QED
  BY <1>4, <1>5, <1>7, <1>8, CountedNotWrapped

\* A value dropped with no release, and its entry in the ledger.
LEMMA ForgetHeap ==
  ASSUME Heap, NEW h \in Handle, val[h] # NULL,
         val' = [val EXCEPT ![h] = NULL],
         lost' = [lost EXCEPT ![val[h]] = @ + 1],
         refc' = refc, lent' = lent, tracked' = tracked, dying' = dying
  PROVE  Heap'
<1> USE DEF Heap, CellTypes
<1> DEFINE v == val[h]
<1>0. h \in Cell /\ NULL \notin Obj
  BY ConstantsDisjoint DEF Cell
<1>1. v \in Obj /\ v \in tracked
  BY <1>0 DEF HeapInv
<1>2. \A x \in Obj : Card(val', x) = IF x = v THEN Card(val, x) - 1 ELSE Card(val, x)
  <2>1. IsClear(val, val', h)
    BY DEF IsClear
  <2> QED
    BY <1>0, <2>1, ClearCount
<1>3. \A x \in Obj : lost'[x] = IF x = v THEN lost[x] + 1 ELSE lost[x]
  BY <1>1
<1>4. CellTypes'
  BY <1>0, <1>1
<1>5. FreeSlotsEmpty' /\ LedgerInv'
  BY <1>1, SlotCell DEF FreeSlotsEmpty, LedgerInv
<1>6. \A e \in Cell : val'[e] # NULL => val'[e] \in tracked'
  BY DEF HeapInv
<1> HIDE DEF v
<1>7. ASSUME NEW x \in tracked'
      PROVE  CountOK(x)'
  <2>1. refc[x] + lent[x] = Card(val, x) + lost[x] /\ Card(val, x) \in Nat
    BY CountIs DEF HeapInv
  <2>2. refc[x] \in Int /\ lent[x] \in Nat /\ lost[x] \in Nat
    OBVIOUS
  <2>3. refc'[x] + lent'[x] = Card(val', x) + lost'[x]
    <3>1. x \in Obj
      OBVIOUS
    <3>2. CASE x = v
      <4>1. Card(val', x) = Card(val, x) - 1 /\ lost'[x] = lost[x] + 1
        BY <1>2, <1>3, <3>1, <3>2
      <4> QED
        BY <2>1, <2>2, <4>1
    <3>3. CASE x # v
      <4>1. Card(val', x) = Card(val, x) /\ lost'[x] = lost[x]
        BY <1>2, <1>3, <3>1, <3>3
      <4> QED
        BY <2>1, <2>2, <4>1
    <3> QED
      BY <3>2, <3>3
  <2> QED
    BY <2>3, CountIs
<1>8. HeapInv'
  BY <1>6, <1>7 DEF HeapInv
<1> QED
  BY <1>4, <1>5, <1>7, <1>8, CountedNotWrapped

-----------------------------------------------------------------------------
(* The invariant is inductive: one lemma per action. *)

\* Before every step that is not of a sweep.
LEMMA HeapHere ==
  ASSUME IInv, pc \notin {"sweep", "dangling"}
  PROVE  Heap /\ tracked \subseteq Obj /\ (pc # "release" => dying = {})
<1>1. HeapInv /\ LedgerInv
  BY DEF IInv
<1>2. lent \in [Obj -> Nat]
  BY BoundsNatural DEF IInv, TypeOK
<1> QED
  BY <1>1, <1>2 DEF IInv, TypeOK, OpInv, Heap, CellTypes, NotWrapped

\* Outside a collection nothing is coloured.
LEMMA QuietCollect ==
  ASSUME CollectInv, pc \notin {"mark", "sweep"}, pc' \notin {"mark", "sweep"},
         marked' = marked, gray' = gray
  PROVE  CollectInv'
BY DEF CollectInv

\* A readable cell is a handle or belongs to a listed object.
LEMMA ReadableCell ==
  ASSUME Heap, NEW h, NEW c \in Readable(h)
  PROVE  c \in Cell /\ \A o \in Obj \ tracked, s \in Slot : c # <<o, s>>
<1>1. CASE c \in Handle
  BY <1>1, SlotCell DEF Cell
<1>2. CASE c \notin Handle
  <2>1. PICK k \in Live \ {h}, s \in Slot : c = <<val[k], s>>
    BY <1>2 DEF Readable
  <2>2. val[k] \in tracked
    BY DEF Live, Cell, Heap, HeapInv
  <2>3. val[k] \in Obj
    BY <2>2 DEF Heap, CellTypes
  <2> QED
    BY <2>1, <2>2, <2>3 DEF Cell
<1> QED
  BY <1>1, <1>2

LEMMA LoadInv ==
  ASSUME IInv, NEW c \in Cell, NEW h \in Handle, Load(c, h)
  PROVE  IInv'
<1> USE DEF Load, Running
<1>1. Heap /\ dying = {} /\ tracked \subseteq Obj
  BY HeapHere
<1>2. Heap'
  BY <1>1, RetainCellHeap, SlotCell DEF Cell
<1>3. CollectInv'
  BY QuietCollect DEF IInv
<1>4. OpInv'
  BY DEF IInv, OpInv
<1> QED
  BY <1>2, <1>3, <1>4 DEF IInv, TypeOK, Phases, Heap, CellTypes, NotWrapped

LEMMA NewInv ==
  ASSUME IInv, NEW o \in Obj, NEW h \in Handle, New(o, h)
  PROVE  IInv'
<1> USE DEF New, Running
<1>1. Heap /\ dying = {} /\ tracked \subseteq Obj
  BY HeapHere
<1>2. Heap'
  BY <1>1, NewHeap
<1>3. CollectInv'
  BY QuietCollect DEF IInv
<1>4. OpInv'
  <2>1. Refs(o)' = {h}
    BY <1>1, ConstantsDisjoint DEF Heap, CellTypes, HeapInv, Refs, Cell
  <2> QED
    BY <1>1, <2>1, ConstantsDisjoint DEF IInv, OpInv, TypeOK, Cell
<1> QED
  BY <1>2, <1>3, <1>4 DEF IInv, TypeOK, Phases, Heap, CellTypes, NotWrapped, Cell

LEMMA FillMoveInv ==
  ASSUME IInv, NEW h \in Handle, NEW s \in Slot, FillMove(h, s)
  PROVE  IInv'
<1> USE DEF FillMove
<1>1. Heap /\ dying = {} /\ tracked \subseteq Obj
  BY HeapHere
<1> DEFINE d == <<val[dst], s>>
<1>2. dst \in Handle /\ val[dst] \in tracked
  BY <1>1 DEF IInv, OpInv, Heap, HeapInv, Cell
<1>3. d \in Cell /\ d \notin Handle /\ \A o \in Obj \ tracked, t \in Slot : d # <<o, t>>
  BY <1>1, <1>2, SlotCell
<1>4. h \in Cell /\ h # d
  BY <1>3 DEF Cell
<1>5. val[d] = NULL /\ MoveCell(h, d)
  OBVIOUS
<1> HIDE DEF d
<1>6. Heap'
  BY <1>1, <1>3, <1>4, <1>5, MoveCellHeap
<1>7. CollectInv'
  BY QuietCollect DEF IInv
<1>8. OpInv'
  <2>1. h # dst /\ Refs(val[dst]) = {dst} /\ src = NULL /\ val[dst] # NULL
    BY DEF IInv, OpInv
  <2>2. \A c \in Cell : val'[c] = IF c = h THEN NULL ELSE IF c = d THEN val[h] ELSE val[c]
    BY <1>1, <1>3, <1>4, <1>5 DEF MoveCell, Heap, CellTypes
  <2>3. val'[dst] = val[dst] /\ val[h] # val[dst]
    BY <1>2, <1>3, <1>4, <2>1, <2>2 DEF Refs, Cell
  <2>4. Refs(val[dst])' = {dst}
    BY <1>2, <2>1, <2>2, <2>3 DEF Refs
  <2> QED
    BY <1>1, <1>2, <2>1, <2>3, <2>4 DEF OpInv
<1> QED
  BY <1>6, <1>7, <1>8 DEF IInv, TypeOK, Phases, Heap, CellTypes, NotWrapped

LEMMA FillCaptureInv ==
  ASSUME IInv, NEW c \in Cell, NEW s \in Slot, FillCapture(c, s)
  PROVE  IInv'
<1> USE DEF FillCapture
<1>1. Heap /\ dying = {} /\ tracked \subseteq Obj
  BY HeapHere
<1> DEFINE d == <<val[dst], s>>
<1>2. dst \in Handle /\ val[dst] \in tracked
  BY <1>1 DEF IInv, OpInv, Heap, HeapInv, Cell
<1>3. d \in Cell /\ d \notin Handle /\ \A o \in Obj \ tracked, t \in Slot : d # <<o, t>>
  BY <1>1, <1>2, SlotCell
<1>4. val[d] = NULL /\ RetainCell(c, d)
  OBVIOUS
<1> HIDE DEF d
<1>5. Heap'
  BY <1>1, <1>3, <1>4, RetainCellHeap
<1>6. CollectInv'
  BY QuietCollect DEF IInv
<1>7. OpInv'
  <2>1. c # dst /\ Refs(val[dst]) = {dst} /\ src = NULL /\ val[dst] # NULL
    BY DEF IInv, OpInv
  <2>2. \A e \in Cell : val'[e] = IF e = d THEN val[c] ELSE val[e]
    BY <1>1, <1>3, <1>4 DEF RetainCell, Heap, CellTypes
  <2>3. val'[dst] = val[dst] /\ val[c] # val[dst]
    BY <1>2, <1>3, <2>1, <2>2 DEF Refs, Cell
  <2>4. Refs(val[dst])' = {dst}
    BY <1>2, <2>1, <2>2, <2>3 DEF Refs
  <2> QED
    BY <1>1, <1>2, <2>1, <2>3, <2>4 DEF OpInv
<1> QED
  BY <1>5, <1>6, <1>7 DEF IInv, TypeOK, Phases, Heap, CellTypes, NotWrapped

LEMMA FillDoneInv ==
  ASSUME IInv, FillDone
  PROVE  IInv'
<1> USE DEF FillDone
<1>1. CollectInv'
  BY QuietCollect DEF IInv
<1>2. OpInv'
  BY DEF IInv, OpInv
<1>3. Heap'
  BY HeapHere, SameHeap
<1> QED
  BY <1>1, <1>2, <1>3 DEF IInv, TypeOK, Phases, Heap

LEMMA FillFailInv ==
  ASSUME IInv, FillFail
  PROVE  IInv'
<1> USE DEF FillFail
<1>1. Heap /\ dying = {} /\ tracked \subseteq Obj
  BY HeapHere
<1> DEFINE o == val[dst]
<1>2. dst \in Handle /\ dst \in Cell /\ o # NULL /\ Refs(o) = {dst}
  BY DEF IInv, OpInv, Cell
<1>3. \A c \in Cell : val'[c] = IF c = dst THEN NULL ELSE val[c]
  BY <1>1 DEF Heap, CellTypes
<1> HIDE DEF o
<1>4. \A c \in Cell : val'[c] # NULL => val'[c] \in tracked \ {o}
  BY <1>1, <1>2, <1>3 DEF Heap, HeapInv, Refs
<1>5. \A x \in tracked \ {o} : Refs(x)' = Refs(x)
  BY <1>1, <1>2, <1>3, ConstantsDisjoint DEF Refs, o
<1>6. DanglingInv'
  <2>1. \A x \in tracked \ {o} : CountOK(x)'
    BY <1>1, <1>5 DEF Heap, HeapInv, CountOK
  <2>2. tracked' = tracked \ {o}
    BY DEF o
  <2> QED
    BY <1>4, <2>1, <2>2, ConstantsDisjoint DEF DanglingInv
<1>7. FreeSlotsEmpty'
  BY <1>1, <1>2, <1>3, SlotCell DEF Heap, FreeSlotsEmpty, o
<1>8. CollectInv'
  BY DEF IInv, CollectInv
<1>9. OpInv'
  BY <1>1 DEF OpInv
<1>10. TypeOK'
  BY <1>1 DEF IInv, TypeOK, Phases, Heap, CellTypes
<1> QED
  BY <1>6, <1>7, <1>8, <1>9, <1>10 DEF IInv

LEMMA GetSlotInv ==
  ASSUME IInv, NEW h \in Handle, NEW k \in Handle, NEW s \in Slot, GetSlot(h, s, k)
  PROVE  IInv'
<1> USE DEF GetSlot, Running
<1>1. Heap /\ dying = {} /\ tracked \subseteq Obj
  BY HeapHere
<1> DEFINE c == <<val[h], s>>
<1>2. val[h] \in Obj /\ c \in Cell
  BY <1>1, SlotCell DEF Heap, HeapInv, Cell
<1>3. k \in Cell /\ \A o \in Obj \ tracked, t \in Slot : k # <<o, t>>
  BY SlotCell DEF Cell
<1>4. val[c] # NULL /\ RetainCell(c, k)
  OBVIOUS
<1> HIDE DEF c
<1>5. Heap'
  BY <1>1, <1>2, <1>3, <1>4, RetainCellHeap
<1>6. CollectInv'
  BY QuietCollect DEF IInv
<1>7. OpInv'
  BY <1>1, <1>4 DEF IInv, OpInv, RetainCell, TypeOK, Cell
<1> QED
  BY <1>5, <1>6, <1>7 DEF IInv, TypeOK, Phases, Heap, CellTypes, NotWrapped

LEMMA GetSlotDropInv ==
  ASSUME IInv, GetSlotDrop
  PROVE  IInv'
<1> USE DEF GetSlotDrop
<1>1. Heap /\ tracked \subseteq Obj /\ src \in Cell
  BY HeapHere DEF IInv, OpInv, Cell
<1>2. Heap'
  BY <1>1, ReleaseCellHeap
<1>3. CollectInv'
  BY QuietCollect DEF IInv
<1>4. OpInv'
  BY DEF IInv, OpInv
<1> QED
  BY <1>2, <1>3, <1>4 DEF IInv, TypeOK, Phases, Heap, CellTypes, NotWrapped

LEMMA StoreInv ==
  ASSUME IInv, NEW h \in Handle, NEW c \in Cell, Store(h, c)
  PROVE  IInv'
<1> USE DEF Store, Running
<1>1. Heap /\ tracked \subseteq Obj
  BY HeapHere
<1>2. Heap'
  BY <1>1, ReleaseCellHeap
<1>3. CollectInv'
  BY QuietCollect DEF IInv
<1>4. val' = [val EXCEPT ![c] = NULL] /\ val'[c] = NULL
  BY <1>1 DEF ReleaseCell, Heap, CellTypes
<1>5. c \in Readable(h)'
  <2>1. CASE c \in Handle
    BY <2>1 DEF Readable
  <2>2. CASE c \notin Handle
    <3>1. PICK k \in Live \ {h}, s \in Slot : c = <<val[k], s>>
      BY <2>2 DEF Readable
    <3>2. k \in Handle /\ k # c /\ val'[k] = val[k]
      BY <2>2, <3>1, <1>1, <1>4 DEF Live, Heap, CellTypes, Cell
    <3>3. k \in Live' \ {h} /\ c = <<val'[k], s>>
      BY <3>1, <3>2 DEF Live
    <3> QED
      BY <3>3 DEF Readable
  <2> QED
    BY <2>1, <2>2
<1>6. OpInv'
  BY <1>4, <1>5, ConstantsDisjoint DEF OpInv, Cell
<1> QED
  BY <1>2, <1>3, <1>6 DEF IInv, TypeOK, Phases, Heap, CellTypes, NotWrapped

LEMMA ReleaseInv ==
  ASSUME IInv, NEW h \in Handle, Release(h)
  PROVE  IInv'
<1> USE DEF Release
<1>1. Heap /\ tracked \subseteq Obj /\ h \in Cell
  BY HeapHere DEF Cell
<1>2. Heap'
  BY <1>1, ReleaseCellHeap
<1>3. CollectInv'
  BY QuietCollect DEF IInv
<1>4. OpInv'
  BY DEF IInv, OpInv
<1> QED
  BY <1>2, <1>3, <1>4 DEF IInv, TypeOK, Phases, Heap, CellTypes, NotWrapped

\* What may be read does not depend on the slots.
LEMMA ReadableStable ==
  ASSUME NEW h, \A k \in Handle : val'[k] = val[k]
  PROVE  Readable(h)' = Readable(h)
<1>1. Live' = Live /\ \A k \in Live : val'[k] = val[k]
  BY DEF Live
<1> QED
  BY <1>1 DEF Readable

LEMMA ReleaseChildInv ==
  ASSUME IInv, NEW o \in Obj, NEW s \in Slot, ReleaseChild(o, s)
  PROVE  IInv'
<1> USE DEF ReleaseChild
<1>1. Heap /\ tracked \subseteq Obj /\ <<o, s>> \in Cell /\ <<o, s>> \notin Handle
  BY HeapHere, SlotCell DEF IInv, TypeOK
<1>2. Heap'
  BY <1>1, ReleaseCellHeap
<1>3. CollectInv'
  BY QuietCollect DEF IInv
<1>4. \A c \in Cell : val'[c] = IF c = <<o, s>> THEN NULL ELSE val[c]
  BY <1>1 DEF ReleaseCell, Heap, CellTypes
<1>5. Readable(src)' = Readable(src)
  BY <1>1, <1>4, ReadableStable DEF Cell
<1>6. dst # NULL => dst \in Cell
  BY DEF IInv, TypeOK
<1>7. OpInv'
  <2>1. CASE dst = NULL
    BY <2>1 DEF IInv, OpInv
  <2>2. CASE dst # NULL
    <3>1. src \in Handle /\ dst # src /\ val[dst] = NULL /\ dst \in Readable(src)
      BY <2>2 DEF IInv, OpInv
    <3>2. val'[dst] = NULL
      BY <2>2, <3>1, <1>4, <1>6
    <3> QED
      BY <2>2, <3>1, <3>2, <1>5 DEF OpInv
  <2> QED
    BY <2>1, <2>2
<1> QED
  BY <1>2, <1>3, <1>7 DEF IInv, TypeOK, Phases, Heap, CellTypes, NotWrapped

LEMMA FreeDeadInv ==
  ASSUME IInv, NEW o \in Obj, FreeDead(o)
  PROVE  IInv'
<1> USE DEF FreeDead
<1>1. Heap /\ tracked \subseteq Obj
  BY HeapHere
<1>2. Heap'
  BY <1>1, FreeDeadHeap
<1>3. CollectInv'
  BY DEF IInv, CollectInv
<1>4. OpInv'
  BY DEF IInv, OpInv, Readable, Live
<1>5. lent' \in [Obj -> 0..MaxLent]
  BY BoundsNatural DEF IInv, TypeOK, Forgotten
<1> QED
  BY <1>2, <1>3, <1>4, <1>5 DEF IInv, TypeOK, Phases, Heap, CellTypes, NotWrapped

LEMMA ReleaseDoneInv ==
  ASSUME IInv, ReleaseDone
  PROVE  IInv'
<1> USE DEF ReleaseDone
<1>1. CollectInv'
  BY QuietCollect DEF IInv
<1>2. OpInv'
  BY DEF IInv, OpInv
<1>3. Heap'
  BY HeapHere, SameHeap
<1> QED
  BY <1>1, <1>2, <1>3 DEF IInv, TypeOK, Phases, Heap

LEMMA StoreDoneInv ==
  ASSUME IInv, StoreDone
  PROVE  IInv'
<1> USE DEF StoreDone
<1>1. Heap /\ tracked \subseteq Obj
  BY HeapHere
<1>2. src \in Handle /\ src # dst /\ val[dst] = NULL /\ dst \in Readable(src)
  BY DEF IInv, OpInv
<1>3. dst \in Cell /\ \A o \in Obj \ tracked, s \in Slot : dst # <<o, s>>
  BY <1>1, <1>2, ReadableCell
<1>4. Heap'
  BY <1>1, <1>2, <1>3, MoveCellHeap DEF Cell
<1>5. CollectInv'
  BY QuietCollect DEF IInv
<1>6. OpInv'
  BY DEF OpInv
<1> QED
  BY <1>4, <1>5, <1>6 DEF IInv, TypeOK, Phases, Heap, CellTypes, NotWrapped

LEMMA FreeHeldInv ==
  ASSUME IInv, NEW o \in Obj, FreeHeld(o)
  PROVE  IInv'
<1> USE DEF FreeHeld
<1>1. Heap /\ tracked \subseteq Obj
  BY HeapHere
<1>2. lent[o] > lost[o]
  <2>1. refc[o] <= 0 /\ CountOK(o)
    BY <1>1 DEF Heap, HeapInv
  <2>2. Card(val, o) # 0
    <3>1. RefsOf(val, o) # {}
      BY DEF Refs, RefsOf
    <3> QED
      BY <3>1, CardType, FS_EmptySet DEF Card
  <2>3. refc[o] \in Int /\ lent[o] \in Nat /\ lost[o] \in Nat
    BY <1>1 DEF Heap, CellTypes
  <2> QED
    BY <2>1, <2>2, <2>3, CountIs
<1>3. DanglingInv'
  <2>1. ASSUME NEW c \in Cell, val'[c] \in Obj \ tracked'
        PROVE  lent'[val'[c]] > lost'[val'[c]]
    <3>1. val[c] = o
      BY <1>1, <2>1, ConstantsDisjoint DEF Heap, HeapInv
    <3> QED
      BY <1>2, <3>1
  <2>2. \A x \in tracked' : CountOK(x)'
    BY <1>1 DEF Heap, HeapInv, CountOK, Refs
  <2> QED
    BY <2>1, <2>2 DEF DanglingInv
<1>4. CollectInv'
  BY DEF IInv, CollectInv
<1>5. OpInv'
  BY DEF OpInv
<1>6. FreeSlotsEmpty'
  BY <1>1 DEF Heap, FreeSlotsEmpty
<1> QED
  BY <1>3, <1>4, <1>5, <1>6 DEF IInv, TypeOK, Phases

LEMMA LendInv ==
  ASSUME IInv, NEW k \in Handle, NEW h \in Handle, Lend(k, h)
  PROVE  IInv'
<1> USE DEF Lend, Running
<1>1. Heap /\ dying = {} /\ tracked \subseteq Obj
  BY HeapHere
<1>2. Heap'
  BY <1>1, LendHeap
<1>3. CollectInv'
  BY QuietCollect DEF IInv
<1>4. OpInv'
  BY DEF IInv, OpInv
<1>5. lent' \in [Obj -> 0..MaxLent]
  BY BoundsNatural DEF IInv, TypeOK, Cell
<1> QED
  BY <1>2, <1>3, <1>4, <1>5 DEF IInv, TypeOK, Phases, Heap, CellTypes, NotWrapped

LEMMA ForgetInv ==
  ASSUME IInv, NEW h \in Handle, Forget(h)
  PROVE  IInv'
<1> USE DEF Forget
<1>1. Heap /\ tracked \subseteq Obj
  BY HeapHere
<1>2. Heap'
  BY <1>1, ForgetHeap
<1>3. CollectInv'
  BY QuietCollect DEF IInv
<1>4. OpInv'
  BY DEF IInv, OpInv
<1> QED
  BY <1>2, <1>3, <1>4 DEF IInv, TypeOK, Phases, Heap, CellTypes, NotWrapped

LEMMA FailInv ==
  ASSUME IInv, Fail
  PROVE  IInv'
<1> USE DEF Fail, Running
<1>1. Heap'
  BY HeapHere, SameHeap
<1>2. CollectInv'
  BY QuietCollect DEF IInv
<1>3. OpInv'
  BY DEF IInv, OpInv
<1> QED
  BY <1>1, <1>2, <1>3 DEF IInv, TypeOK, Phases, Heap

LEMMA CollectStepInv ==
  ASSUME IInv, Collect
  PROVE  IInv'
<1> USE DEF Collect
<1>1. RootObjs \subseteq tracked
  BY HeapHere DEF Heap, HeapInv, RootObjs, Live, Cell
<1>2. marked' = RootObjs /\ gray' = RootObjs /\ RootObjs' = RootObjs
  BY <1>1 DEF RootObjs, Live
<1>4. \A C : Closed(C)' <=> Closed(C)
  BY DEF Closed
<1>5. CollectInv'
  BY <1>1, <1>2 DEF CollectInv
<1>6. OpInv'
  BY DEF IInv, OpInv
<1>7. Heap'
  BY HeapHere, SameHeap
<1> QED
  BY <1>1, <1>2, <1>5, <1>6, <1>7 DEF IInv, TypeOK, Phases, Heap

LEMMA MarkInv ==
  ASSUME IInv, NEW o \in Obj, Mark(o)
  PROVE  IInv'
<1> USE DEF Mark
<1>1. Succ(o) \subseteq tracked
  BY DEF Succ
<1>2. o \in marked /\ RootObjs' = RootObjs
  BY DEF IInv, CollectInv, RootObjs, Live
<1>3. \A s \in Slot : val[<<o, s>>] # NULL => val[<<o, s>>] \in Succ(o)
  BY HeapHere, SlotCell DEF Heap, HeapInv, Succ
<1>4. ASSUME NEW C \in SUBSET Obj, RootObjs \subseteq C, Closed(C)
      PROVE  marked' \subseteq C
  <2>1. marked \subseteq C
    BY <1>4 DEF IInv, CollectInv
  <2>2. ASSUME NEW v \in Succ(o)
        PROVE  v \in C
    <3>1. PICK s \in Slot : v = val[<<o, s>>]
      BY DEF Succ
    <3>2. v # NULL
      BY <1>1, ConstantsDisjoint DEF IInv, TypeOK
    <3> QED
      BY <1>2, <1>4, <2>1, <3>1, <3>2 DEF Closed
  <2> QED
    BY <2>1, <2>2
<1>5. \A C : Closed(C)' <=> Closed(C)
  BY DEF Closed
<1>6. \A C \in SUBSET Obj : RootObjs' \subseteq C /\ Closed(C)' => marked' \subseteq C
  BY <1>2, <1>4, <1>5
<1>7. \A p \in marked' \ gray', s \in Slot :
        val'[<<p, s>>] # NULL => val'[<<p, s>>] \in marked'
  BY <1>3 DEF IInv, CollectInv
<1>8. CollectInv'
  BY <1>1, <1>2, <1>6, <1>7 DEF IInv, CollectInv
<1>9. OpInv'
  BY DEF IInv, OpInv
<1>10. Heap'
  BY HeapHere, SameHeap
<1> QED
  BY <1>1, <1>8, <1>9, <1>10 DEF IInv, TypeOK, Heap

LEMMA MarkDoneInv ==
  ASSUME IInv, MarkDone
  PROVE  IInv'
<1> USE DEF MarkDone
<1>1. RootObjs' = RootObjs /\ \A C : Closed(C)' <=> Closed(C)
  BY DEF RootObjs, Live, Closed
<1>2. CollectInv'
  BY <1>1 DEF IInv, CollectInv
<1>3. OpInv'
  BY DEF IInv, OpInv
<1>4. \A h \in Handle : val[h] # NULL => val[h] \in marked
  BY DEF IInv, CollectInv, RootObjs, Live
<1>5. \A p \in marked, s \in Slot : val[<<p, s>>] # NULL => val[<<p, s>>] \in marked
  BY DEF IInv, CollectInv
<1>6. dying = {} /\ \A p \in marked : CountOK(p) /\ (lent[p] = 0 => refc[p] # 0)
  BY HeapHere DEF IInv, Heap, HeapInv, CollectInv
<1>7. SweepInv'
  BY <1>4, <1>5, <1>6 DEF SweepInv, CountOK, Refs
<1>8. FreeSlotsEmpty' /\ LedgerInv'
  BY DEF IInv, FreeSlotsEmpty, LedgerInv
<1> QED
  BY <1>2, <1>3, <1>7, <1>8 DEF IInv, TypeOK, Phases

LEMMA SweepSlotInv ==
  ASSUME IInv, NEW o \in Obj, NEW s \in Slot, SweepSlot(o, s)
  PROVE  IInv'
<1> USE DEF SweepSlot
<1> DEFINE d == <<o, s>>
           v == val[d]
<1>1. d \in Cell /\ d \notin Handle /\ o \notin marked
  BY SlotCell
<1>2. v \in Obj /\ v # NULL
  BY <1>1 DEF IInv, TypeOK
<1>3. \A c \in Cell : val'[c] = IF c = d THEN NULL ELSE val[c]
  BY DEF IInv, TypeOK
<1>4. \A h \in Handle : val'[h] = val[h]
  BY <1>1, <1>3 DEF Cell
<1>5. \A p \in marked, t \in Slot : val'[<<p, t>>] = val[<<p, t>>]
  BY <1>1, <1>3, SlotCell DEF IInv, TypeOK
<1>6. \A x \in Obj : /\ Card(val', x) = IF x = v THEN Card(val, x) - 1 ELSE Card(val, x)
                     /\ x = v => Card(val, x) >= 1
                     /\ Card(val, x) \in Nat
  <2>1. IsClear(val, val', d)
    BY DEF IsClear
  <2> HIDE DEF d
  <2> QED
    BY <1>1, <1>2, <2>1, ClearCount, CardType DEF IInv, TypeOK
<1>7. \A x \in Obj :
        /\ refc'[x] = IF x = v /\ v \in marked /\ refc[v] # 0 THEN refc[x] - 1 ELSE refc[x]
        /\ lost'[x] = IF x = v /\ v \in marked /\ refc[v] = 0 THEN lost[x] + 1 ELSE lost[x]
  BY <1>2 DEF AdjustMarkedChild, IInv, TypeOK
<1>8. refc' \in [Obj -> Int] /\ lost' \in [Obj -> Nat]
  BY <1>2 DEF AdjustMarkedChild, IInv, TypeOK
<1>t. \A x \in Obj : refc[x] \in Int /\ lent[x] \in Nat /\ lost[x] \in Nat
  BY BoundsNatural DEF IInv, TypeOK
<1>9. \A x \in marked : /\ x \in Obj /\ (lent[x] = 0 => refc[x] # 0)
                        /\ refc[x] + lent[x] = Card(val, x) + lost[x]
  BY CountIs DEF IInv, TypeOK, SweepInv
<1>10. ASSUME NEW x \in marked
       PROVE  Card(val', x) >= 1
  <2>1. x \in RootObjs \/ \E p \in marked, t \in Slot : val[<<p, t>>] = x
    <3> SUFFICES ASSUME x \notin RootObjs,
                        \A p \in marked, t \in Slot : val[<<p, t>>] # x
                 PROVE  FALSE
      OBVIOUS
    <3>1. RootObjs \subseteq marked \ {x} /\ Closed(marked \ {x})
      BY DEF IInv, CollectInv, SweepInv, Closed
    <3>2. marked \ {x} \in SUBSET Obj
      BY DEF IInv, TypeOK
    <3> QED
      BY <3>1, <3>2 DEF IInv, CollectInv
  <2>2. PICK c \in Cell : val'[c] = x
    <3>1. CASE x \in RootObjs
      BY <3>1, <1>4 DEF RootObjs, Live, Cell
    <3>2. CASE \E p \in marked, t \in Slot : val[<<p, t>>] = x
      BY <3>2, <1>5, SlotCell DEF IInv, TypeOK
    <3> QED
      BY <2>1, <3>1, <3>2
  <2>3. RefsOf(val', x) # {}
    BY <2>2 DEF RefsOf
  <2>4. Card(val', x) # 0
    BY <2>3, CardType, FS_EmptySet DEF Card
  <2> QED
    BY <2>4, CardType
<1> HIDE DEF v, d
<1>11. ASSUME NEW x \in marked
       PROVE  CountOK(x)' /\ (lent'[x] = 0 => refc'[x] # 0)
  <2>1. refc'[x] + lent'[x] = Card(val', x) + lost'[x]
    <3>1. CASE x = v
      <4>1. Card(val', x) = Card(val, x) - 1 /\ Card(val, x) \in Nat
        BY <1>6, <1>9, <3>1
      <4>2. CASE refc[x] # 0
        <5>1. refc'[x] = refc[x] - 1 /\ lost'[x] = lost[x]
          BY <1>7, <1>9, <3>1, <4>2
        <5> QED
          BY <1>9, <1>t, <4>1, <5>1
      <4>3. CASE refc[x] = 0
        <5>1. refc'[x] = refc[x] /\ lost'[x] = lost[x] + 1
          BY <1>7, <1>9, <3>1, <4>3
        <5> QED
          BY <1>9, <1>t, <4>1, <5>1
      <4> QED
        BY <4>2, <4>3
    <3>2. CASE x # v
      <4>1. Card(val', x) = Card(val, x) /\ refc'[x] = refc[x] /\ lost'[x] = lost[x]
        BY <1>6, <1>7, <1>9, <3>2
      <4> QED
        BY <1>9, <4>1
    <3> QED
      BY <3>1, <3>2
  <2>2. lent'[x] = 0 => refc'[x] # 0
    <3>1. lost'[x] \in Nat /\ refc'[x] \in Int
      BY <1>8, <1>9
    <3> QED
      BY <1>10, <2>1, <3>1, CardType
  <2> QED
    BY <2>1, <2>2, CountIs
<1>12. SweepInv'
  <2>1. \A h \in Handle : val'[h] # NULL => val'[h] \in marked'
    BY <1>4 DEF IInv, SweepInv
  <2>2. \A p \in marked', t \in Slot : val'[<<p, t>>] # NULL => val'[<<p, t>>] \in marked'
    BY <1>5 DEF IInv, SweepInv
  <2>3. dying' = {}
    BY DEF IInv, SweepInv
  <2> QED
    BY <1>11, <2>1, <2>2, <2>3 DEF SweepInv
<1>13. RootObjs' = RootObjs
  BY <1>4 DEF RootObjs, Live
<1>14. ASSUME NEW C \in SUBSET Obj, RootObjs' \subseteq C, Closed(C)'
       PROVE  marked' \subseteq C
  <2> DEFINE D == C \cap marked
  <2>1. Closed(D)
    BY <1>5, <1>14 DEF Closed, IInv, SweepInv
  <2>2. RootObjs \subseteq D /\ D \in SUBSET Obj
    BY <1>13, <1>14 DEF IInv, CollectInv
  <2> HIDE DEF D
  <2>3. marked \subseteq D
    BY <2>1, <2>2 DEF IInv, CollectInv
  <2> QED
    BY <2>3 DEF D
<1>15. CollectInv'
  BY <1>13, <1>14 DEF IInv, CollectInv
<1>16. FreeSlotsEmpty'
  BY ZenonT(60), <1>3, SlotCell DEF IInv, FreeSlotsEmpty
<1>19. LedgerInv'
  BY <1>7, <1>9 DEF IInv, CollectInv, LedgerInv
<1>17. OpInv'
  BY DEF IInv, OpInv
<1>18. TypeOK'
  <2>1. \A x \in tracked : lent[x] = 0 => refc'[x] >= 0
    <3> SUFFICES ASSUME NEW x \in tracked, lent[x] = 0
                 PROVE  refc'[x] >= 0
      OBVIOUS
    <3>1. x \in Obj /\ refc[x] >= 0 /\ (x \in marked => refc[x] # 0)
      BY <1>9 DEF IInv, TypeOK
    <3> QED
      BY <1>7, <1>t, <3>1
  <2> QED
    BY <1>8, <2>1 DEF IInv, TypeOK
<1> QED
  BY <1>12, <1>15, <1>16, <1>17, <1>18, <1>19 DEF IInv

LEMMA SweepFreeInv ==
  ASSUME IInv, NEW o \in Obj, SweepFree(o)
  PROVE  IInv'
<1> USE DEF SweepFree, Forgotten
<1>1. SweepInv /\ TypeOK /\ lent \in [Obj -> Nat]
  BY BoundsNatural DEF IInv, TypeOK
<1>2. \A x \in Obj \ {o} : refc'[x] = refc[x] /\ lent'[x] = lent[x] /\ lost'[x] = lost[x]
  BY <1>1 DEF TypeOK
<1>3. SweepInv'
  <2>1. \A x \in marked : x \in Obj \ {o} /\ (CountOK(x)' <=> CountOK(x))
    BY <1>1, <1>2 DEF TypeOK, CountOK, Refs
  <2> QED
    BY <1>1, <1>2, <2>1 DEF SweepInv
<1>4. RootObjs' = RootObjs /\ \A C : Closed(C)' <=> Closed(C)
  BY DEF RootObjs, Live, Closed
<1>5. CollectInv'
  BY <1>4 DEF IInv, CollectInv
<1>6. FreeSlotsEmpty' /\ LedgerInv'
  BY <1>1 DEF IInv, FreeSlotsEmpty, LedgerInv, TypeOK
<1>7. OpInv'
  BY DEF IInv, OpInv
<1>8. TypeOK'
  <2>1. refc' \in [Obj -> Int] /\ lent' \in [Obj -> 0..MaxLent] /\ lost' \in [Obj -> Nat]
    BY <1>1, BoundsNatural DEF TypeOK
  <2>2. \A x \in tracked' : lent'[x] = 0 => refc'[x] >= 0
    BY <1>1, <1>2 DEF TypeOK
  <2> QED
    BY <1>1, <2>1, <2>2 DEF TypeOK
<1> QED
  BY <1>3, <1>5, <1>6, <1>7, <1>8 DEF IInv

LEMMA SweepDoneInv ==
  ASSUME IInv, SweepDone
  PROVE  IInv'
<1> USE DEF SweepDone
<1>1. tracked = marked
  BY DEF IInv, CollectInv
<1>2. FreeSlotsEmpty /\ FreeSlotsEmpty' /\ LedgerInv'
  BY DEF IInv, FreeSlotsEmpty, LedgerInv
<1>3. ASSUME NEW c \in Cell, val[c] # NULL
      PROVE  val[c] \in tracked
  <2>1. CASE c \in Handle
    BY <1>1, <1>3, <2>1 DEF IInv, SweepInv
  <2>2. CASE c \notin Handle
    <3>1. PICK p \in Obj, s \in Slot : c = <<p, s>>
      BY <2>2 DEF Cell
    <3>2. p \in marked
      BY <1>1, <1>2, <1>3, <3>1 DEF FreeSlotsEmpty
    <3> QED
      BY <1>1, <1>3, <3>1, <3>2 DEF IInv, SweepInv
  <2> QED
    BY <2>1, <2>2
<1>4. \A x \in tracked : CountOK(x)' /\ (lent[x] = 0 => refc[x] # 0)
  BY <1>1 DEF IInv, SweepInv, CountOK, Refs
<1>5. HeapInv'
  BY <1>3, <1>4 DEF IInv, SweepInv, HeapInv
<1>6. CollectInv'
  BY DEF IInv, CollectInv
<1>7. OpInv'
  BY DEF IInv, OpInv
<1> QED
  BY <1>2, <1>5, <1>6, <1>7 DEF IInv, TypeOK, Phases

LEMMA InitInv == Init => IInv
<1> SUFFICES ASSUME Init PROVE IInv
  OBVIOUS
<1> USE DEF Init
<1>1. TypeOK
  <2>1. /\ refc \in [Obj -> Int]
        /\ lent \in [Obj -> 0..MaxLent]
        /\ lost \in [Obj -> Nat]
    BY BoundsNatural
  <2> QED
    BY <2>1 DEF TypeOK, Phases
<1>2. FreeSlotsEmpty
  BY SlotCell DEF FreeSlotsEmpty
<1>3. HeapInv /\ LedgerInv
  BY DEF HeapInv, LedgerInv
<1>4. CollectInv
  BY DEF CollectInv
<1>5. OpInv
  BY DEF OpInv
<1> QED
  BY <1>1, <1>2, <1>3, <1>4, <1>5 DEF IInv

LEMMA StutterInv ==
  ASSUME IInv, UNCHANGED vars
  PROVE  IInv'
<1> USE DEF vars
<1>1. RootObjs' = RootObjs /\ Live' = Live /\ \A C : Closed(C)' <=> Closed(C)
  BY DEF RootObjs, Live, Closed
<1>2. CollectInv'
  BY <1>1 DEF IInv, CollectInv
<1>3. OpInv'
  BY <1>1 DEF IInv, OpInv, Readable, Refs
<1>4. FreeSlotsEmpty' /\ TypeOK'
  BY DEF IInv, FreeSlotsEmpty, TypeOK
<1>5. /\ SweepInv' <=> SweepInv
      /\ HeapInv' <=> HeapInv
      /\ DanglingInv' <=> DanglingInv
      /\ LedgerInv' <=> LedgerInv
  BY DEF SweepInv, HeapInv, DanglingInv, LedgerInv, CountOK, Refs
<1> QED
  BY <1>2, <1>3, <1>4, <1>5 DEF IInv

\* Every step of the runtime keeps the invariant.
LEMMA NextInv == IInv /\ [Next]_vars => IInv'
<1> SUFFICES ASSUME IInv, [Next]_vars PROVE IInv'
  OBVIOUS
<1>1. CASE Request
  <2>1. ASSUME NEW c \in Cell, NEW h \in Handle, Load(c, h) PROVE IInv'
    BY <2>1, LoadInv
  <2>2. ASSUME NEW o \in Obj, NEW h \in Handle, New(o, h) PROVE IInv'
    BY <2>2, NewInv
  <2>3. ASSUME NEW h \in Handle, NEW s \in Slot, FillMove(h, s) PROVE IInv'
    BY <2>3, FillMoveInv
  <2>4. ASSUME NEW c \in Cell, NEW s \in Slot, FillCapture(c, s) PROVE IInv'
    BY <2>4, FillCaptureInv
  <2>5. ASSUME NEW h \in Handle, NEW k \in Handle, NEW s \in Slot, GetSlot(h, s, k) PROVE IInv'
    BY <2>5, GetSlotInv
  <2>6. ASSUME NEW h \in Handle, NEW c \in Cell, Store(h, c) PROVE IInv'
    BY <2>6, StoreInv
  <2>7. ASSUME NEW h \in Handle, Release(h) PROVE IInv'
    BY <2>7, ReleaseInv
  <2>8. ASSUME NEW h \in Handle, NEW k \in Handle, Lend(k, h) PROVE IInv'
    BY <2>8, LendInv
  <2>9. ASSUME NEW h \in Handle, Forget(h) PROVE IInv'
    BY <2>9, ForgetInv
  <2> QED
    BY <1>1, <2>1, <2>2, <2>3, <2>4, <2>5, <2>6, <2>7, <2>8, <2>9, FailInv, CollectStepInv
       DEF Request
<1>2. CASE Finish
  <2>1. ASSUME NEW o \in Obj, NEW s \in Slot, ReleaseChild(o, s) PROVE IInv'
    BY <2>1, ReleaseChildInv
  <2>2. ASSUME NEW o \in Obj, FreeDead(o) PROVE IInv'
    BY <2>2, FreeDeadInv
  <2>3. ASSUME NEW o \in Obj, Mark(o) PROVE IInv'
    BY <2>3, MarkInv
  <2>4. ASSUME NEW o \in Obj, NEW s \in Slot, SweepSlot(o, s) PROVE IInv'
    BY <2>4, SweepSlotInv
  <2>5. ASSUME NEW o \in Obj, SweepFree(o) PROVE IInv'
    BY <2>5, SweepFreeInv
  <2>6. ASSUME NEW o \in Obj, FreeHeld(o) PROVE IInv'
    BY <2>6, FreeHeldInv
  <2>7. CASE Undefined
    BY <2>7, StutterInv DEF Undefined
  <2> QED
    BY <1>2, <2>1, <2>2, <2>3, <2>4, <2>5, <2>6, <2>7, FillDoneInv, FillFailInv, GetSlotDropInv, ReleaseDoneInv,
       StoreDoneInv, MarkDoneInv, SweepDoneInv DEF Finish
<1>3. CASE UNCHANGED vars
  BY <1>3, StutterInv
<1> QED
  BY <1>1, <1>2, <1>3 DEF Next

LEMMA Invariant == Spec => []IInv
<1> QED
  BY InitInv, NextInv, PTL DEF Spec

-----------------------------------------------------------------------------
(* Theorems *)

\* The heap's fields keep their types; no count of an object that was never lent
\* wraps below 0.
THEOREM TypeCorrect == Spec => []TypeOK
<1>1. IInv => TypeOK
  BY DEF IInv
<1> QED
  BY <1>1, Invariant, PTL

\* value_retain, value_release and gc_adjust_marked_child_ref account for every
\* reference: a count is off by the slips made with its object, never by more.
THEOREM CountsAreKept == Spec => []CountsAddUp
<1>1. IInv => CountsAddUp
  BY HeapHere DEF IInv, CountsAddUp, Counted, SweepInv, DanglingInv, Heap, HeapInv, CountOK
<1> QED
  BY <1>1, Invariant, PTL

\* Between sweeps the listed objects are closed under the pointers, during a
\* sweep the marked ones are.
LEMMA ClosedKept ==
  ASSUME IInv, pc # "dangling"
  PROVE  ReachableIsTracked
<1>1. CASE pc = "sweep"
  <2>1. marked \in SUBSET tracked /\ marked \in SUBSET Obj
    BY DEF IInv, CollectInv, TypeOK
  <2>2. RootObjs \subseteq marked /\ Closed(marked)
    BY <1>1 DEF IInv, SweepInv, RootObjs, Live, Closed
  <2> QED
    BY <2>1, <2>2 DEF ReachableIsTracked, Reachable
<1>2. CASE pc # "sweep"
  <2>1. tracked \in SUBSET Obj /\ HeapInv
    BY <1>2, HeapHere DEF Heap
  <2>2. RootObjs \subseteq tracked
    BY <2>1 DEF HeapInv, RootObjs, Live, Cell
  <2>3. Closed(tracked)
    BY <2>1, SlotCell DEF HeapInv, Closed
  <2> QED
    BY <2>1, <2>2, <2>3 DEF ReachableIsTracked, Reachable
<1> QED
  BY <1>1, <1>2

SafeUnlessDangling == pc # "dangling" => ReachableIsTracked

\* Once an object was freed too early, all a program can reach is on the list or
\* was lent more often than it was lost.
LEMMA DebtKept ==
  ASSUME IInv
  PROVE  OnlyLentIsFreed
<1>1. CASE pc # "dangling"
  BY <1>1, ClosedKept DEF OnlyLentIsFreed, ReachableIsTracked
<1>2. CASE pc = "dangling"
  <2> DEFINE C == tracked \cup {o \in Obj \ tracked : lent[o] > lost[o]}
  <2>1. DanglingInv /\ FreeSlotsEmpty /\ TypeOK
    BY <1>2 DEF IInv
  <2>2. \A c \in Cell : val[c] # NULL => val[c] \in C
    BY <2>1 DEF DanglingInv, TypeOK
  <2>3. C \in SUBSET Obj
    BY <2>1 DEF TypeOK
  <2>4. RootObjs \subseteq C
    BY <2>2 DEF RootObjs, Live, Cell
  <2>5. Closed(C)
    BY <2>2, <2>3, SlotCell DEF Closed
  <2>6. Reachable \subseteq C
    BY <2>3, <2>4, <2>5 DEF Reachable
  <2> QED
    BY <2>6 DEF OnlyLentIsFreed
<1> QED
  BY <1>1, <1>2

\* An object that is freed while a program can reach it was lent itself: no
\* error, cycle, dropped value or loan of another object makes a use after free.
THEOREM OnlyLoansDangle == Spec => []OnlyLentIsFreed
<1> QED
  BY DebtKept, Invariant, PTL

\* value_release never takes an object from a client that retains every copy it
\* makes, as the machine does: its errors only drop references.
THEOREM NothingReachableIsFreed ==
  ASSUME MaxLent = 0
  PROVE  Spec => []ReachableIsTracked
<1>1. IInv => ReachableIsTracked
  <2> SUFFICES ASSUME IInv, NEW o \in Reachable, o \notin tracked
               PROVE  FALSE
    BY DEF ReachableIsTracked
  <2>1. lent[o] > lost[o]
    BY DebtKept DEF OnlyLentIsFreed
  <2>2. lent[o] \in 0..MaxLent /\ lost[o] \in Nat
    BY DEF IInv, TypeOK, Reachable
  <2> QED
    BY <2>1, <2>2
<1> QED
  BY <1>1, Invariant, PTL

\* What reference counting leaves behind is part of, or hangs below, a cycle, or
\* a slip was made with it: a cascade of value_release misses nothing else.
THEOREM OnlyCyclesRemain == Spec => []GarbageIsCyclicOrSlipped
<1>1. ASSUME IInv, pc = "run", NEW o \in Garbage, ~(lent[o] + lost[o] > 0)
      PROVE  \E p \in Garbage, s \in Slot : val[<<p, s>>] = o
  <2>1. o \in tracked /\ o \in Obj /\ o \notin Reachable
    BY <1>1 DEF Garbage, IInv, TypeOK
  <2>a. Heap /\ dying = {}
    BY <1>1, HeapHere
  <2>b. lent[o] = 0 /\ lost[o] = 0 /\ refc[o] \in Int
    BY <1>1, <2>1, <2>a DEF Heap, CellTypes
  <2>2. refc[o] # 0 /\ refc[o] = Card(val, o)
    BY <2>1, <2>a, <2>b, CountIs DEF Heap, HeapInv
  <2>3. PICK c \in Cell : val[c] = o
    <3>1. RefsOf(val, o) # {}
      BY <2>2, FS_EmptySet DEF Card
    <3> QED
      BY <3>1 DEF RefsOf
  <2>4. PICK C \in SUBSET Obj : RootObjs \subseteq C /\ Closed(C) /\ o \notin C
    BY <2>1 DEF Reachable
  <2>5. c \notin Handle
    BY <2>1, <2>3, <2>4, ConstantsDisjoint DEF RootObjs, Live
  <2>6. PICK p \in Obj, s \in Slot : c = <<p, s>>
    BY <2>5 DEF Cell
  <2>7. val[<<p, s>>] = o /\ o # NULL
    BY <2>1, <2>3, <2>6, ConstantsDisjoint
  <2>8. p \notin C
    BY <2>4, <2>7 DEF Closed
  <2>9. p \in tracked
    BY <2>7, <2>a DEF Heap, FreeSlotsEmpty
  <2>10. p \notin Reachable
    BY <2>4, <2>8 DEF Reachable
  <2> QED
    BY <2>7, <2>9, <2>10 DEF Garbage
<1>2. IInv => GarbageIsCyclicOrSlipped
  BY <1>1 DEF GarbageIsCyclicOrSlipped
<1> QED
  BY <1>2, Invariant, PTL

\* value_gc_collect keeps what the result reaches and nothing else.
THEOREM CollectExact == Spec => CollectKeepsExactlyReachable
<1>1. ASSUME IInv, SafeUnlessDangling', [Next]_vars
      PROVE  [pc = "sweep" /\ pc' = "run" => tracked' = Reachable']_vars
  <2> SUFFICES ASSUME Next, pc = "sweep", pc' = "run"
               PROVE  tracked' = Reachable'
    BY <1>1
  <2>1. SweepDone
    BY DEF Next, Request, Finish, Load, Running, New, FillMove, FillCapture, FillDone, FillFail,
       GetSlot, GetSlotDrop, Store, Release, Lend, Forget, Fail, Collect, ReleaseChild,
       FreeDead, FreeHeld, Undefined, ReleaseDone, StoreDone, Mark, MarkDone, SweepSlot,
       SweepFree
  <2>2. tracked' \subseteq marked
    BY <2>1 DEF SweepDone
  <2>3. RootObjs' = RootObjs /\ \A C : Closed(C)' <=> Closed(C)
    BY <2>1 DEF SweepDone, RootObjs, Live, Closed
  <2>4. marked \subseteq Reachable'
    BY <1>1, <2>3 DEF IInv, CollectInv, TypeOK, Reachable
  <2> QED
    BY <1>1, <2>2, <2>4 DEF SafeUnlessDangling, ReachableIsTracked
<1>2. IInv => SafeUnlessDangling
  BY ClosedKept DEF SafeUnlessDangling
<1> QED
  BY <1>1, <1>2, Invariant, PTL DEF Spec, CollectKeepsExactlyReachable

-----------------------------------------------------------------------------
(* Every step of an operation leaves less to do. *)

Filled == {c \in Obj \X Slot : val[c] # NULL}
EmptySlots == {s \in Slot : val[<<val[dst], s>>] = NULL}

\* What Work counts is finite.
LEMMA CountsFinite ==
  ASSUME TypeOK
  PROVE  /\ IsFiniteSet(Filled) /\ Cardinality(Filled) \in Nat
         /\ IsFiniteSet(tracked) /\ Cardinality(tracked) \in Nat
         /\ IsFiniteSet(EmptySlots) /\ Cardinality(EmptySlots) \in Nat
         /\ IsFiniteSet(Obj \ marked) /\ Cardinality(Obj \ marked) \in Nat
         /\ IsFiniteSet(gray) /\ Cardinality(gray) \in Nat
         /\ Held = Cardinality(Filled) + Cardinality(tracked)
<1>1. IsFiniteSet(Obj \X Slot)
  BY FS_Product, ConstantsFinite
<1>2. Filled \in SUBSET (Obj \X Slot) /\ EmptySlots \in SUBSET Slot
  BY DEF Filled, EmptySlots
<1>3. tracked \in SUBSET Obj /\ Obj \ marked \in SUBSET Obj /\ gray \in SUBSET Obj
  BY DEF TypeOK
<1>4. IsFiniteSet(Filled) /\ IsFiniteSet(tracked) /\ IsFiniteSet(EmptySlots)
  BY <1>1, <1>2, <1>3, FS_Subset, ConstantsFinite
<1>5. IsFiniteSet(Obj \ marked) /\ IsFiniteSet(gray)
  BY <1>3, FS_Subset, ConstantsFinite
<1> QED
  BY <1>4, <1>5, FS_CardinalityType DEF Held, Filled

\* Clearing a slot leaves one filled slot less, clearing a handle none more.
LEMMA ClearHeld ==
  ASSUME TypeOK, NEW c \in Cell, \A e \in Cell : val'[e] = IF e = c THEN NULL ELSE val[e],
         tracked' = tracked
  PROVE  /\ Held' \in Nat /\ Held' <= Held
         /\ c \in Filled => Held' < Held
<1>1. Filled' = Filled \ {c}
  BY DEF Filled, Cell
<1>2. Held' = Cardinality(Filled') + Cardinality(tracked)
  BY DEF Held, Filled
<1>3. Cardinality(Filled') = IF c \in Filled THEN Cardinality(Filled) - 1 ELSE Cardinality(Filled)
  BY <1>1, CountsFinite, FS_RemoveElement
<1>4. IsFiniteSet(Filled')
  BY <1>1, CountsFinite, FS_Subset
<1>5. Cardinality(Filled') \in Nat
  BY <1>4, FS_CardinalityType
<1> QED
  BY <1>2, <1>3, <1>5, CountsFinite

\* Taking an object off the list leaves one less to go through.
LEMMA UntrackHeld ==
  ASSUME TypeOK, NEW o \in tracked, tracked' = tracked \ {o}, val' = val
  PROVE  Held' \in Nat /\ Held' < Held
<1>1. Held' = Cardinality(Filled) + Cardinality(tracked \ {o})
  BY DEF Held, Filled
<1>2. Cardinality(tracked \ {o}) = Cardinality(tracked) - 1
  BY CountsFinite, FS_RemoveElement
<1>3. IsFiniteSet(tracked \ {o})
  BY CountsFinite, FS_Subset
<1>4. Cardinality(tracked \ {o}) \in Nat
  BY <1>3, FS_CardinalityType
<1> QED
  BY <1>1, <1>2, <1>4, CountsFinite

\* The constructor fills an empty slot of the new object.
LEMMA FillWork ==
  ASSUME TypeOK, OpInv, pc = "fill", pc' = pc, dst' = dst, NEW s \in EmptySlots,
         val'[dst] = val[dst],
         \A t \in Slot : val'[<<val[dst], t>>] =
             IF t = s THEN val'[<<val[dst], s>>] ELSE val[<<val[dst], t>>],
         val'[<<val[dst], s>>] # NULL
  PROVE  Work' < Work
<1>1. EmptySlots' = EmptySlots \ {s}
  BY DEF EmptySlots
<1>2. Cardinality(EmptySlots') = Cardinality(EmptySlots) - 1
  BY <1>1, CountsFinite, FS_RemoveElement
<1>3. Work = 1 + Cardinality(EmptySlots) /\ Work' = 1 + Cardinality(EmptySlots')
  BY DEF Work, EmptySlots
<1> QED
  BY <1>2, <1>3, CountsFinite

\* The marking takes one object off the gray ones and whitens none.
LEMMA MarkWork ==
  ASSUME IInv, NEW o \in Obj, Mark(o)
  PROVE  Work' < Work
<1> USE DEF Mark
<1> DEFINE Found == Succ(o) \ marked
           White == Obj \ marked
<1>1. Held' = Held
  BY DEF Held
<1>2. TypeOK /\ gray \subseteq marked
  BY DEF IInv, CollectInv
<1>3. Found \subseteq White /\ Found \cap gray = {}
  BY <1>2 DEF Succ, TypeOK
<1>4. (Obj \ marked)' = White \ Found /\ gray' = (gray \ {o}) \cup Found
  OBVIOUS
<1>5. IsFiniteSet(White) /\ IsFiniteSet(gray)
  BY <1>2, CountsFinite
<1> HIDE DEF White, Found
<1>6. IsFiniteSet(Found) /\ IsFiniteSet(White \ Found) /\ IsFiniteSet(gray \ {o})
  BY <1>3, <1>5, FS_Subset
<1>7. /\ Cardinality(Found) \in Nat /\ Cardinality(White) \in Nat /\ Cardinality(gray) \in Nat
      /\ Cardinality(White \ Found) \in Nat
  BY <1>5, <1>6, FS_CardinalityType
<1>8. Cardinality(White \ Found) = Cardinality(White) - Cardinality(Found)
  <2>1. White = (White \ Found) \cup Found /\ (White \ Found) \cap Found = {}
    BY <1>3
  <2>2. Cardinality(White) = Cardinality(White \ Found) + Cardinality(Found) - Cardinality({})
    BY <1>6, <2>1, FS_Union
  <2> QED
    BY <1>7, <2>2, FS_EmptySet
<1>9. Cardinality(gray') = Cardinality(gray) - 1 + Cardinality(Found)
  <2>1. Cardinality(gray \ {o}) = Cardinality(gray) - 1
    BY <1>5, FS_RemoveElement
  <2>2. (gray \ {o}) \cap Found = {}
    BY <1>3
  <2>3. Cardinality(gray') = Cardinality(gray \ {o}) + Cardinality(Found) - Cardinality({})
    BY <1>4, <1>6, <2>2, FS_Union
  <2> QED
    BY <1>7, <2>1, <2>3, FS_EmptySet
<1>10. Work = 2 + Held + 2 * Cardinality(White) + Cardinality(gray)
  BY DEF Work, White
<1>11. Work' = 2 + Held' + 2 * Cardinality(White \ Found) + Cardinality(gray')
  BY <1>4 DEF Work
<1>12. Held \in Nat
  BY <1>2, CountsFinite
<1> QED
  BY <1>1, <1>7, <1>8, <1>9, <1>10, <1>11, <1>12

\* One step of the runtime after the first of its operation.
LEMMA StepWork ==
  ASSUME IInv, Next, pc \notin {"run", "dangling"}
  PROVE  Work' < Work
<1> USE DEF Running
<1>0. TypeOK /\ OpInv
  BY DEF IInv
<1>c. /\ Cardinality(Filled) \in Nat /\ Cardinality(tracked) \in Nat
      /\ Cardinality(EmptySlots) \in Nat
      /\ Cardinality(Obj \ marked) \in Nat /\ Cardinality(gray) \in Nat
      /\ Held \in Nat
  BY <1>0, CountsFinite
<1>1. ASSUME NEW h \in Handle, NEW s \in Slot, FillMove(h, s)
      PROVE  Work' < Work
  <2> DEFINE d == <<val[dst], s>>
  <2>1. dst \in Handle /\ val[dst] \in Obj /\ h # dst
    BY <1>0, <1>1 DEF OpInv, TypeOK, FillMove, Cell
  <2>2. d \in Cell /\ d \notin Handle /\ h \in Cell /\ dst \in Cell
    BY <2>1, SlotCell DEF Cell
  <2>3. \A e \in Cell : val'[e] = IF e = h THEN NULL ELSE IF e = d THEN val[h] ELSE val[e]
    BY <1>0, <1>1 DEF FillMove, MoveCell, TypeOK
  <2>4. val'[dst] = val[dst]
    BY <2>1, <2>2, <2>3
  <2>5. \A t \in Slot : <<val[dst], t>> \in Cell /\ <<val[dst], t>> # h
    BY <2>1, SlotCell
  <2>6. s \in EmptySlots /\ val'[d] = val[h] /\ val[h] # NULL
    BY <1>1, <2>2, <2>3 DEF FillMove, EmptySlots
  <2>7. \A t \in Slot : val'[<<val[dst], t>>] =
                           IF t = s THEN val'[d] ELSE val[<<val[dst], t>>]
    BY <2>3, <2>5
  <2> QED
    BY <1>0, <1>1, <2>4, <2>6, <2>7, FillWork DEF FillMove
<1>2. ASSUME NEW c \in Cell, NEW s \in Slot, FillCapture(c, s)
      PROVE  Work' < Work
  <2> DEFINE d == <<val[dst], s>>
  <2>1. dst \in Handle /\ val[dst] \in Obj
    BY <1>0, <1>2 DEF OpInv, TypeOK, FillCapture, Cell
  <2>2. d \in Cell /\ d \notin Handle /\ dst \in Cell
    BY <2>1, SlotCell DEF Cell
  <2>3. \A e \in Cell : val'[e] = IF e = d THEN val[c] ELSE val[e]
    BY <1>0, <1>2 DEF FillCapture, RetainCell, TypeOK
  <2>4. val'[dst] = val[dst]
    BY <2>1, <2>2, <2>3
  <2>5. \A t \in Slot : <<val[dst], t>> \in Cell
    BY <2>1, SlotCell
  <2>6. s \in EmptySlots /\ val'[d] = val[c] /\ val[c] # NULL
    BY <1>2, <2>2, <2>3 DEF FillCapture, EmptySlots
  <2>7. \A t \in Slot : val'[<<val[dst], t>>] =
                           IF t = s THEN val'[d] ELSE val[<<val[dst], t>>]
    BY <2>3, <2>5
  <2> QED
    BY <1>0, <1>2, <2>4, <2>6, <2>7, FillWork DEF FillCapture
<1>3. CASE FillDone
  BY <1>3, <1>c DEF FillDone, Work, EmptySlots
<1>f. CASE FillFail
  BY <1>f, <1>c DEF FillFail, Work, EmptySlots
<1>4. CASE GetSlotDrop
  <2>1. src \in Cell
    BY <1>0, <1>4 DEF OpInv, GetSlotDrop, Cell
  <2>2. \A e \in Cell : val'[e] = IF e = src THEN NULL ELSE val[e]
    BY <1>0, <1>4 DEF GetSlotDrop, ReleaseCell, TypeOK
  <2>3. Held' \in Nat /\ Held' <= Held
    BY <1>0, <1>4, <2>1, <2>2, ClearHeld DEF GetSlotDrop
  <2> QED
    BY <1>4, <1>c, <2>3 DEF GetSlotDrop, Work
<1>5. ASSUME NEW o \in Obj, NEW s \in Slot, ReleaseChild(o, s)
      PROVE  Work' < Work
  <2>1. <<o, s>> \in Cell /\ <<o, s>> \in Filled
    BY <1>5, SlotCell DEF ReleaseChild, Filled
  <2>2. \A e \in Cell : val'[e] = IF e = <<o, s>> THEN NULL ELSE val[e]
    BY <1>0, <1>5 DEF ReleaseChild, ReleaseCell, TypeOK
  <2>3. Held' \in Nat /\ Held' < Held
    BY <1>0, <1>5, <2>1, <2>2, ClearHeld DEF ReleaseChild
  <2> QED
    BY <1>5, <1>c, <2>3 DEF ReleaseChild, Work
<1>6. ASSUME NEW o \in Obj, FreeDead(o)
      PROVE  Work' < Work
  <2>1. o \in tracked
    BY <1>6, HeapHere DEF Heap, HeapInv, FreeDead
  <2>2. Held' \in Nat /\ Held' < Held
    BY <1>0, <1>6, <2>1, UntrackHeld DEF FreeDead
  <2> QED
    BY <1>6, <1>c, <2>2 DEF FreeDead, Work
<1>h. ASSUME NEW o \in Obj, FreeHeld(o)
      PROVE  Work' < Work
  BY <1>h, <1>c DEF FreeHeld, Work
<1>7. CASE ReleaseDone \/ StoreDone
  BY <1>7, <1>c DEF ReleaseDone, StoreDone, Work
<1>8. ASSUME NEW o \in Obj, Mark(o)
      PROVE  Work' < Work
  BY <1>8, MarkWork
<1>9. CASE MarkDone
  <2>1. Held' = Held
    BY <1>9 DEF MarkDone, Held
  <2>2. 2 * Cardinality(Obj \ marked) \in Nat
    BY <1>c
  <2> QED
    BY <1>9, <1>c, <2>1, <2>2 DEF MarkDone, Work
<1>10. ASSUME NEW o \in Obj, NEW s \in Slot, SweepSlot(o, s)
       PROVE  Work' < Work
  <2>1. <<o, s>> \in Cell /\ <<o, s>> \in Filled
    BY <1>10, SlotCell DEF SweepSlot, Filled
  <2>2. \A e \in Cell : val'[e] = IF e = <<o, s>> THEN NULL ELSE val[e]
    BY <1>0, <1>10 DEF SweepSlot, TypeOK
  <2>3. Held' \in Nat /\ Held' < Held
    BY <1>0, <1>10, <2>1, <2>2, ClearHeld DEF SweepSlot
  <2> QED
    BY <1>10, <1>c, <2>3 DEF SweepSlot, Work
<1>11. ASSUME NEW o \in Obj, SweepFree(o)
       PROVE  Work' < Work
  <2>1. o \in tracked
    BY <1>11 DEF SweepFree
  <2>2. Held' \in Nat /\ Held' < Held
    BY <1>0, <1>11, <2>1, UntrackHeld DEF SweepFree
  <2> QED
    BY <1>11, <1>c, <2>2 DEF SweepFree, Work
<1>12. CASE SweepDone
  BY <1>12, <1>c DEF SweepDone, Work
<1>13. ~ \/ \E c \in Cell, h \in Handle : Load(c, h)
         \/ \E o \in Obj, h \in Handle : New(o, h)
         \/ \E h, k \in Handle, s \in Slot : GetSlot(h, s, k)
         \/ \E h \in Handle, c \in Cell : Store(h, c)
         \/ \E h \in Handle : Release(h)
         \/ \E h, k \in Handle : Lend(k, h)
         \/ \E h \in Handle : Forget(h)
         \/ Fail \/ Collect \/ Undefined
  BY DEF Load, New, GetSlot, Store, Release, Lend, Forget, Fail, Collect, Undefined
<1> QED
  BY <1>1, <1>2, <1>3, <1>f, <1>4, <1>5, <1>6, <1>h, <1>7, <1>8, <1>9, <1>10, <1>11, <1>12, <1>13
     DEF Next, Request, Finish

\* A cascade of value_release and a collection end on every heap, cycles
\* included: a measure in Nat goes down with each of their steps.
THEOREM OperationsEnd == Spec => WorkShrinks
<1>1. ASSUME IInv, [Next]_vars
      PROVE  [pc # "run" => Work' < Work]_vars
  <2>1. CASE UNCHANGED vars
    BY <2>1
  <2>2. CASE Next /\ pc = "dangling"
    BY <2>2 DEF Next, Request, Finish, Load, Running, New, FillMove, FillCapture, FillDone, FillFail,
       GetSlot, GetSlotDrop, Store, Release, Lend, Forget, Fail, Collect, ReleaseChild,
       FreeDead, FreeHeld, Undefined, ReleaseDone, StoreDone, Mark, MarkDone, SweepSlot,
       SweepFree, SweepDone
  <2>3. CASE Next /\ pc \notin {"run", "dangling"}
    BY <1>1, <2>3, StepWork
  <2> QED
    BY <1>1, <2>1, <2>2, <2>3
<1> QED
  BY <1>1, Invariant, PTL DEF Spec, WorkShrinks

\* The measure of WorkShrinks is a natural number in every state: with
\* OperationsEnd, no operation takes steps for ever.
THEOREM WorkIsNatural == Spec => [](Work \in Nat)
<1>1. IInv => Work \in Nat
  <2> SUFFICES ASSUME IInv PROVE Work \in Nat
    OBVIOUS
  <2>1. TypeOK
    BY DEF IInv
  <2>2. /\ Cardinality(EmptySlots) \in Nat /\ Cardinality(Obj \ marked) \in Nat
        /\ Cardinality(gray) \in Nat /\ Held \in Nat
    BY <2>1, CountsFinite
  <2>3. 2 * Cardinality(Obj \ marked) \in Nat
    BY <2>2
  <2> QED
    BY <2>1, <2>2, <2>3 DEF TypeOK, Phases, Work, EmptySlots
<1> QED
  BY <1>1, Invariant, PTL

=============================================================================
