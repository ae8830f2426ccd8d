----------------------------- MODULE ValueHeap -----------------------------
(***************************************************************************)
(* The composite-value heap of the Mons runtime (src/src/eval.c): arrays,   *)
(* tuples, structs and closures are reference counted, every live one is on *)
(* the global list g_heap_objs, and value_gc_collect marks from the returned *)
(* value and sweeps the list at the end of a call, so that cycles made by   *)
(* assigning to a captured variable go too.                                 *)
(*                                                                         *)
(* A cell is a place that holds a Value.  A handle is a cell outside the     *)
(* heap (operand stack entry, local, environment binding, C variable); a    *)
(* slot is a cell of a heap object (array item, struct field, captured      *)
(* value).  Scalars and strings are not counted: they are all NULL here.    *)
(* Obj is the set of addresses malloc can return, so an address is reused   *)
(* after it was freed.  Items, fields and captures are not told apart: the  *)
(* three kinds are released, marked and swept by the same loop.             *)
(*                                                                         *)
(* The recursion of value_release and of gc_mark_value and the order of     *)
(* g_heap_objs are abstracted to a choice among the objects still to do.    *)
(*                                                                         *)
(* Not every client keeps the discipline of one retain per copy and one      *)
(* release per cell: the interpreter copies ctx->return_value with no retain *)
(* (Lend), and it and the error paths of both back ends drop values with no  *)
(* release (Forget).  lent and lost are a ledger of those slips, kept for    *)
(* the properties: no operation reads them.                                 *)
(***************************************************************************)
EXTENDS Integers, FiniteSets

CONSTANTS
    Obj, Handle, Slot, NULL,
    MaxLent, MaxLost,   \* bounds on the slips made with one object
    MaxSlipped          \* and on the objects slips are made with at a time

ASSUME ConstantsFinite ==
    IsFiniteSet(Obj) /\ IsFiniteSet(Handle) /\ IsFiniteSet(Slot)
ASSUME ConstantsDisjoint ==
    Handle \cap (Obj \X Slot) = {} /\ NULL \notin Obj \cup Handle \cup (Obj \X Slot)

ASSUME BoundsNatural == MaxLent \in Nat /\ MaxLost \in Nat /\ MaxSlipped \in Nat

VARIABLES
    val,      \* what each cell holds: an object or NULL (void, or a scalar)
    refc,     \* the refc field of each object; below 0, the size_t has wrapped
    lent,     \* ledger: how often each object was copied with no retain
    lost,     \* ledger: how often a reference to it was dropped with no release
    tracked,  \* the objects on g_heap_objs that are allocated
    pc,       \* what the runtime is doing
    src, dst, \* the cells the operation in progress still has to deal with
    dying,    \* objects whose count reached 0 and whose children are being released
    marked,   \* objects with the mark bit set by the collection in progress
    gray,     \* marked objects whose children were not visited yet
    failed    \* the program stopped on an error: its handles are being dropped

vars == <<val, refc, lent, lost, tracked, pc, src, dst, dying, marked, gray, failed>>

Cell == Handle \cup (Obj \X Slot)

Phases == {"run", "fill", "drop", "release", "mark", "sweep", "dangling"}

TypeOK ==
    /\ val \in [Cell -> Obj \cup {NULL}]
    /\ refc \in [Obj -> Int]
    /\ lent \in [Obj -> 0..MaxLent]
    /\ lost \in [Obj -> Nat]
    /\ \A o \in tracked : lent[o] = 0 => refc[o] >= 0
    /\ tracked \subseteq Obj
    /\ pc \in Phases
    /\ src \in Handle \cup {NULL}
    /\ dst \in Cell \cup {NULL}
    /\ dying \subseteq Obj
    /\ marked \subseteq Obj
    /\ gray \subseteq Obj
    /\ failed \in BOOLEAN

-----------------------------------------------------------------------------
(* The object graph *)

Refs(o) == {c \in Cell : val[c] = o}

Live == {h \in Handle : val[h] # NULL}

RootObjs == {val[h] : h \in Live}

\* (faulty variant: the loop over the children stops one short)
SuccShort(o) == {val[<<o, s>>] : s \in Slot \ {CHOOSE s \in Slot : TRUE}} \cap tracked

\* The objects the cells of o point to that heap_find finds on the list.
Succ(o) == {val[<<o, s>>] : s \in Slot} \cap tracked

Closed(C) == \A o \in C, s \in Slot : val[<<o, s>>] # NULL => val[<<o, s>>] \in C

\* The objects a program can reach from its handles.
Reachable ==
    {o \in Obj : \A C \in SUBSET Obj : RootObjs \subseteq C /\ Closed(C) => o \in C}

Garbage == tracked \ Reachable

\* The cells a program can name: a handle, or a slot of an object that a
\* handle other than h keeps alive (the closure_held of the running frame).
Readable(h) == Handle \cup {<<val[k], s>> : k \in Live \ {h}, s \in Slot}

-----------------------------------------------------------------------------
Init ==
    /\ val = [c \in Cell |-> NULL]
    /\ refc = [o \in Obj |-> 0]
    /\ lent = [o \in Obj |-> 0]
    /\ lost = [o \in Obj |-> 0]
    /\ tracked = {}
    /\ pc = "run"
    /\ src = NULL
    /\ dst = NULL
    /\ dying = {}
    /\ marked = {}
    /\ gray = {}
    /\ failed = FALSE

Running == pc = "run" /\ ~failed

\* (faulty variant: the cell keeps its pointer, v->kind is not reset)
ReleaseCellTwice(c) ==
    IF val[c] = NULL
    THEN UNCHANGED <<val, refc, dying>>
    ELSE /\ refc' = [refc EXCEPT ![val[c]] = @ - 1]
         /\ dying' = IF refc[val[c]] = 1 THEN dying \cup {val[c]} ELSE dying
         /\ UNCHANGED val

\* (faulty variant: refc-- == 0 in place of --refc == 0)
ReleaseCellLate(c) ==
    /\ val' = [val EXCEPT ![c] = NULL]
    /\ IF val[c] = NULL
       THEN UNCHANGED <<refc, dying>>
       ELSE /\ refc' = [refc EXCEPT ![val[c]] = @ - 1]
            /\ dying' = IF refc[val[c]] = 0 THEN dying \cup {val[c]} ELSE dying

\* The head of value_release: give up the reference of cell c; a count that
\* reaches 0 makes the children of the object next.
ReleaseCell(c) ==
    /\ val' = [val EXCEPT ![c] = NULL]
    /\ IF val[c] = NULL
       THEN UNCHANGED <<refc, dying>>
       ELSE /\ refc' = [refc EXCEPT ![val[c]] = @ - 1]
            /\ dying' = IF refc[val[c]] = 1 THEN dying \cup {val[c]} ELSE dying

\* (faulty variant: the value is copied and not retained)
CopyCell(c, d) ==
    /\ val' = [val EXCEPT ![d] = val[c]]
    /\ refc' = refc

\* value_retain into an empty cell.
RetainCell(c, d) ==
    /\ val' = [val EXCEPT ![d] = val[c]]
    /\ refc' = [refc EXCEPT ![val[c]] = @ + 1]

MoveCell(c, d) == val' = [val EXCEPT ![d] = val[c], ![c] = NULL]

\* LOAD_LOCAL, DUP, GET_UPVALUE, reading a variable in the interpreter.
Load(c, h) ==
    /\ Running
    /\ c \in Readable(h)
    /\ val[c] # NULL /\ val[h] = NULL
    /\ RetainCell(c, h)
    /\ UNCHANGED <<lent, lost, tracked, pc, src, dst, dying, marked, gray, failed>>

\* value_seq_new, value_struct_new, value_closure_new with heap_track.
New(o, h) ==
    /\ Running
    /\ o \notin tracked /\ val[h] = NULL
    /\ val' = [val EXCEPT ![h] = o]
    /\ refc' = [refc EXCEPT ![o] = 1]
    /\ tracked' = tracked \cup {o}
    /\ pc' = "fill"
    /\ dst' = h
    /\ UNCHANGED <<lent, lost, src, dying, marked, gray, failed>>

\* ARRAY_NEW, TUPLE_NEW, STRUCT_NEW pop their operands into the new object.
FillMove(h, s) ==
    /\ pc = "fill"
    /\ h # dst /\ val[h] # NULL
    /\ val[<<val[dst], s>>] = NULL
    /\ MoveCell(h, <<val[dst], s>>)
    /\ UNCHANGED <<refc, lent, lost, tracked, pc, src, dst, dying, marked, gray, failed>>

\* OP_CLOSURE and the interpreter's lambda copy a captured cell.
FillCapture(c, s) ==
    /\ pc = "fill"
    /\ c \in Readable(dst) /\ c # dst
    /\ val[c] # NULL
    /\ val[<<val[dst], s>>] = NULL
    /\ RetainCell(c, <<val[dst], s>>)
    /\ UNCHANGED <<lent, lost, tracked, pc, src, dst, dying, marked, gray, failed>>

FillDone ==
    /\ pc = "fill"
    /\ pc' = "run"
    /\ dst' = NULL
    /\ UNCHANGED <<val, refc, lent, lost, tracked, src, dying, marked, gray, failed>>

\* A captured name is not found: what was captured so far is released again (as if
\* nothing had been), and the closure is freed but not untracked.  The next
\* collection reads it on the list, which is undefined: the model does not follow.
FillFail ==
    /\ pc = "fill"
    /\ \A s \in Slot : val[<<val[dst], s>>] = NULL
    /\ val' = [val EXCEPT ![dst] = NULL]
    /\ tracked' = tracked \ {val[dst]}
    /\ pc' = "dangling"
    /\ UNCHANGED <<refc, lent, lost, src, dst, dying, marked, gray, failed>>

\* GET_FIELD, GET_FIELD_NAMED, INDEX_INT: the component is retained while the
\* container is still held, then the container is released.
GetSlot(h, s, k) ==
    /\ Running
    /\ val[h] # NULL /\ val[k] = NULL
    /\ val[<<val[h], s>>] # NULL
    /\ RetainCell(<<val[h], s>>, k)
    /\ pc' = "drop"
    /\ src' = h
    /\ UNCHANGED <<lent, lost, tracked, dst, dying, marked, gray, failed>>

GetSlotDrop ==
    /\ pc = "drop"
    /\ ReleaseCell(src)
    /\ pc' = "release"
    /\ src' = NULL
    /\ UNCHANGED <<lent, lost, tracked, dst, marked, gray, failed>>

\* STORE_LOCAL, SET_UPVALUE, env_assign: release the old content of c, then
\* move the new value in.
Store(h, c) ==
    /\ Running
    /\ c \in Readable(h) /\ c # h
    /\ ReleaseCell(c)
    /\ pc' = "release"
    /\ src' = h
    /\ dst' = c
    /\ UNCHANGED <<lent, lost, tracked, marked, gray, failed>>

\* POP, the end of a frame, an environment or a temporary; the host dropping
\* the result of a call.
Release(h) ==
    /\ pc = "run"
    /\ val[h] # NULL
    /\ ReleaseCell(h)
    /\ pc' = "release"
    /\ UNCHANGED <<lent, lost, tracked, src, dst, marked, gray, failed>>

\* The loop of value_release over the children of a dead object.
ReleaseChild(o, s) ==
    /\ pc = "release"
    /\ o \in dying /\ val[<<o, s>>] # NULL
    /\ ReleaseCell(<<o, s>>)
    /\ UNCHANGED <<lent, lost, tracked, pc, src, dst, marked, gray, failed>>

\* The memory of o goes back: its fields and its ledger mean nothing any more.
Forgotten(o) ==
    /\ refc' = [refc EXCEPT ![o] = 0]
    /\ lent' = [lent EXCEPT ![o] = 0]
    /\ lost' = [lost EXCEPT ![o] = 0]

\* heap_untrack and free, once every child was released.
FreeDead(o) ==
    /\ pc = "release"
    /\ o \in dying /\ Refs(o) = {}
    /\ \A s \in Slot : val[<<o, s>>] = NULL
    /\ tracked' = tracked \ {o}
    /\ dying' = dying \ {o}
    /\ Forgotten(o)
    /\ UNCHANGED <<val, pc, src, dst, marked, gray, failed>>

\* The same while a cell still holds o.  Whatever the program does with that
\* cell is undefined: the model does not follow it.
FreeHeld(o) ==
    /\ pc = "release"
    /\ o \in dying /\ Refs(o) # {}
    /\ \A s \in Slot : val[<<o, s>>] = NULL
    /\ tracked' = tracked \ {o}
    /\ dying' = dying \ {o}
    /\ pc' = "dangling"
    /\ UNCHANGED <<val, refc, lent, lost, src, dst, marked, gray, failed>>

\* Freed memory is within reach, of a cell or of the list.
Undefined == pc = "dangling" /\ UNCHANGED vars

ReleaseDone ==
    /\ pc = "release"
    /\ dying = {} /\ dst = NULL
    /\ pc' = "run"
    /\ UNCHANGED <<val, refc, lent, lost, tracked, src, dst, dying, marked, gray, failed>>

StoreDone ==
    /\ pc = "release"
    /\ dying = {} /\ dst # NULL
    /\ MoveCell(src, dst)
    /\ pc' = "run"
    /\ src' = NULL
    /\ dst' = NULL
    /\ UNCHANGED <<refc, lent, lost, tracked, dying, marked, gray, failed>>

\* Bound: the objects slips were made with, if one more is made with o.
MaySlip(o) == Cardinality({p \in Obj : lent[p] + lost[p] > 0} \cup {o}) <= MaxSlipped

\* eval_block: the value of a block that returned is ctx->return_value, copied
\* with no retain.  Who asked for the block's value treats the copy as its own
\* (NODE_EXPR_STMT releases it), and the function returns the original.
Lend(k, h) ==
    /\ Running
    /\ val[k] # NULL /\ val[h] = NULL
    /\ lent[val[k]] < MaxLent /\ MaySlip(val[k])
    /\ val' = [val EXCEPT ![h] = val[k]]
    /\ lent' = [lent EXCEPT ![val[k]] = @ + 1]
    /\ UNCHANGED <<refc, lost, tracked, pc, src, dst, dying, marked, gray, failed>>

\* A value dropped with no release: (void)eval_block(...), return_value
\* overwritten in eval_try_stmt, and what an error return was holding.
Forget(h) ==
    /\ pc = "run"
    /\ val[h] # NULL
    /\ lost[val[h]] < MaxLost /\ MaySlip(val[h])
    /\ val' = [val EXCEPT ![h] = NULL]
    /\ lost' = [lost EXCEPT ![val[h]] = @ + 1]
    /\ UNCHANGED <<refc, lent, tracked, pc, src, dst, dying, marked, gray, failed>>

\* vm_fail, eval_fail: from here on values are only dropped.
Fail ==
    /\ Running
    /\ failed' = TRUE
    /\ UNCHANGED <<val, refc, lent, lost, tracked, pc, src, dst, dying, marked, gray>>

\* value_gc_collect(&result, 1), or (NULL, 0) after an error: the caller has
\* dropped every handle but the result.  The roots are marked first.
Collect ==
    /\ pc = "run"
    /\ \A h, k \in Live : h = k /\ ~failed
    /\ marked' = RootObjs \cap tracked
    /\ gray' = RootObjs \cap tracked
    /\ pc' = "mark"
    /\ UNCHANGED <<val, refc, lent, lost, tracked, src, dst, dying, failed>>

\* (faulty variant: the mark bit is not tested, a cycle is visited for ever)
MarkAgain(o) ==
    /\ pc = "mark"
    /\ o \in gray
    /\ marked' = marked \cup Succ(o)
    /\ gray' = (gray \ {o}) \cup Succ(o)
    /\ UNCHANGED <<val, refc, lent, lost, tracked, pc, src, dst, dying, failed>>

\* gc_mark_seq, gc_mark_struct, gc_mark_closure: the loop over the children.
Mark(o) ==
    /\ pc = "mark"
    /\ o \in gray
    /\ marked' = marked \cup Succ(o)
    /\ gray' = (gray \ {o}) \cup (Succ(o) \ marked)
    /\ UNCHANGED <<val, refc, lent, lost, tracked, pc, src, dst, dying, failed>>

MarkDone ==
    /\ pc = "mark"
    /\ gray = {}
    /\ pc' = "sweep"
    /\ UNCHANGED <<val, refc, lent, lost, tracked, src, dst, dying, marked, gray, failed>>

\* (faulty variant: survivors keep the count of references that went away)
KeepRefc(v) == UNCHANGED <<refc, lost>>

\* gc_adjust_marked_child_ref: a survivor loses the reference of a dead cell,
\* unless its count is 0 already: then that reference is one too many for good.
AdjustMarkedChild(v) ==
    IF v \notin marked THEN UNCHANGED <<refc, lost>>
    ELSE IF refc[v] # 0
         THEN refc' = [refc EXCEPT ![v] = @ - 1] /\ lost' = lost
         ELSE refc' = refc /\ lost' = [lost EXCEPT ![v] = @ + 1]

\* The loop over the cells of an unmarked object.
SweepSlot(o, s) ==
    /\ pc = "sweep"
    /\ o \in tracked \ marked
    /\ val[<<o, s>>] # NULL
    /\ val' = [val EXCEPT ![<<o, s>>] = NULL]
    /\ AdjustMarkedChild(val[<<o, s>>])
    /\ UNCHANGED <<lent, tracked, pc, src, dst, dying, marked, gray, failed>>

SweepFree(o) ==
    /\ pc = "sweep"
    /\ o \in tracked \ marked
    /\ \A s \in Slot : val[<<o, s>>] = NULL
    /\ tracked' = tracked \ {o}
    /\ Forgotten(o)
    /\ UNCHANGED <<val, pc, src, dst, dying, marked, gray, failed>>

SweepDone ==
    /\ pc = "sweep"
    /\ tracked \subseteq marked
    /\ pc' = "run"
    /\ marked' = {}
    /\ failed' = FALSE
    /\ UNCHANGED <<val, refc, lent, lost, tracked, src, dst, dying, gray>>

-----------------------------------------------------------------------------
\* What the interpreter, the machine or the host asks of the heap.
Request ==
    \/ \E c \in Cell, h \in Handle : Load(c, h)
    \/ \E o \in Obj, h \in Handle : New(o, h)
    \/ \E h \in Handle, s \in Slot : FillMove(h, s)
    \/ \E c \in Cell, s \in Slot : FillCapture(c, s)
    \/ \E h, k \in Handle, s \in Slot : GetSlot(h, s, k)
    \/ \E h \in Handle : Release(h)
    \/ \E h \in Handle, c \in Cell : Store(h, c)
    \/ \E h, k \in Handle : Lend(k, h)
    \/ \E h \in Handle : Forget(h)
    \/ Fail
    \/ Collect

\* The steps by which an operation that was started runs to its end.
Finish ==
    \/ FillDone
    \/ FillFail
    \/ GetSlotDrop
    \/ \E o \in Obj, s \in Slot : ReleaseChild(o, s)
    \/ \E o \in Obj : FreeDead(o)
    \/ \E o \in Obj : FreeHeld(o)
    \/ Undefined
    \/ ReleaseDone
    \/ StoreDone
    \/ \E o \in Obj : Mark(o)
    \/ MarkDone
    \/ \E o \in Obj, s \in Slot : SweepSlot(o, s)
    \/ \E o \in Obj : SweepFree(o)
    \/ SweepDone

Next == Request \/ Finish

Spec == Init /\ [][Next]_vars

-----------------------------------------------------------------------------
(* Properties *)

\* The objects whose refc is read again: all, until a sweep leaves survivors.
Counted == IF pc = "sweep" THEN marked ELSE tracked

\* Retain, release and the sweep account for every reference: the refc field
\* differs from the number of cells that hold the object by the slips made with
\* that very object and by nothing else, after errors, cascades and collections
\* as well (value_retain, value_release, gc_adjust_marked_child_ref).
CountsAddUp ==
    \A o \in Counted : refc[o] + lent[o] = Cardinality(Refs(o)) + lost[o]

\* What a program can reach is on the heap list, in the middle of a release or
\* of a sweep as well: nothing is used after it was freed.  It holds without Lend
\* only: the copy of return_value in eval_block breaks it.
ReachableIsTracked == Reachable \subseteq tracked

\* Only the unretained copies are to blame: an object that is freed while the
\* program can reach it was lent itself, more often than a reference to it was
\* lost; an error, a cycle, a dropped value or somebody else's copy never suffices.
OnlyLentIsFreed == \A o \in Reachable \ tracked : lent[o] > lost[o]

\* What a value_release cascade leaves behind between two operations is held by
\* other garbage (a cycle, or what hangs below one) or had a slip made with it.
GarbageIsCyclicOrSlipped ==
    pc = "run" =>
        \A o \in Garbage :
            \/ lent[o] + lost[o] > 0
            \/ \E p \in Garbage, s \in Slot : val[<<p, s>>] = o

\* A collection keeps exactly what the result reaches, cycles and the
\* leftovers of an error included ("marks from roots and sweeps unreachable
\* objects (including cycles)", "preserving returned roots").
CollectKeepsExactlyReachable ==
    [][pc = "sweep" /\ pc' = "run" => tracked' = Reachable']_vars

\* What is left to do of an operation: the slots to fill; the cells and objects a
\* cascade or a sweep may still go through, and for a collection the marking.
Held == Cardinality({c \in Obj \X Slot : val[c] # NULL}) + Cardinality(tracked)
Work ==
    CASE pc \in {"run", "dangling"} -> 0
      [] pc = "fill" -> 1 + Cardinality({s \in Slot : val[<<val[dst], s>>] = NULL})
      [] pc = "drop" -> 2 + Held
      [] pc \in {"release", "sweep"} -> 1 + Held
      [] pc = "mark" -> 2 + Held + 2 * Cardinality(Obj \ marked) + Cardinality(gray)

\* A release cascade and a collection end, cycles or not: each step of the loops
\* leaves less to do, so that no object is visited for ever (value_release,
\* gc_mark_seq, gc_mark_struct, gc_mark_closure, value_gc_collect).
WorkShrinks == [][pc # "run" => Work' < Work]_vars

=============================================================================
