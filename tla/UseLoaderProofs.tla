-------------------------- MODULE UseLoaderProofs --------------------------
(***************************************************************************)
(* Theorems about UseLoader, for any files, texts and entries.  The argument: *)
(* each activation waits for the module at the head of its list, which is     *)
(* the path above it on the stack (Waiting), the one being called or one that *)
(* has been loaded (Called), and what its earlier lines and modules asked for  *)
(* is in the program (Covered); so its text goes in behind all it imports.     *)
(***************************************************************************)
EXTENDS UseLoader, SequenceTheorems, FiniteSetTheorems, WellFoundedInduction, TLAPS

Awaits(i, q) ==
    frames[i].mods # <<>> /\ Resolve(frames[i].path, Head(frames[i].mods)) = q

\* Each activation waits for the one above it.
Waiting == \A i \in 1 .. Len(frames) : i < Len(frames) => Awaits(i, frames[i + 1].path)

\* The one on top waits for the path that is called or has been loaded.
Called ==
    /\ call # None => ret = "none"
    /\ call # None /\ frames # <<>> => Awaits(Len(frames), call)
    /\ ret = "ok" /\ frames # <<>> => \E q \in Range(loaded) : Awaits(Len(frames), q)

\* The stack is the list of the activations' paths.
StackListed ==
    /\ Len(stack) = Len(frames)
    /\ \A i \in 1 .. Len(frames) : stack[i] = frames[i].path

\* What the lines read so far asked for is in the program or still to do.
Covered ==
    \A i \in 1 .. Len(frames) :
        /\ Range(frames[i].mods) \subseteq Wanted(frames[i].path, frames[i].line)
        /\ \A m \in Wanted(frames[i].path, frames[i].line) :
              m \in Range(frames[i].mods) \/ Resolve(frames[i].path, m) \in Range(loaded)

\* Modules of the program have been read.
LoadedRead == \A p \in Range(loaded) : Exists(p) /\ TextOf(p) # NotRead

\* The parts of the invariant that are about the lists.
Lists ==
    /\ StackListed
    /\ Waiting
    /\ Covered
    /\ LoadedRead
    /\ EachPathOnce
    /\ ImportsFirst

IInv == TypeOK /\ Lists /\ Called

-----------------------------------------------------------------------------
(* Sequences *)

LEMMA FrontProperties ==
    ASSUME NEW S, NEW s \in Seq(S), s # <<>>
    PROVE  /\ Front(s) \in Seq(S)
           /\ Len(Front(s)) = Len(s) - 1
           /\ \A i \in 1 .. Len(s) - 1 : Front(s)[i] = s[i]
           /\ Last(s) \in S /\ Last(s) = s[Len(s)]
           /\ Len(s) \in 1 .. Len(s)
  <1>1. Len(s) \in Nat \ {0} /\ \A i \in 1 .. Len(s) : s[i] \in S
    BY EmptySeq, ElementOfSeq
  <1>2. \A i \in 1 .. Len(s) - 1 : s[i] \in S
    BY <1>1
  <1>3. 1 \in Int /\ Len(s) - 1 \in Int
    BY <1>1
  <1>4. /\ SubSeq(s, 1, Len(s) - 1) \in Seq(S)
        /\ Len(SubSeq(s, 1, Len(s) - 1)) = IF 1 <= Len(s) - 1 THEN Len(s) - 1 - 1 + 1 ELSE 0
        /\ \A i \in 1 .. Len(s) - 1 - 1 + 1 : SubSeq(s, 1, Len(s) - 1)[i] = s[1 + i - 1]
    BY <1>2, <1>3, SubSeqProperties
  <1> DEFINE n == Len(s)
             t == SubSeq(s, 1, Len(s) - 1)
  <1>5. n \in Nat \ {0} /\ Len(t) = (IF 1 <= n - 1 THEN n - 1 - 1 + 1 ELSE 0)
        /\ \A i \in 1 .. n - 1 - 1 + 1 : t[i] = s[1 + i - 1]
    BY <1>1, <1>4
  <1> HIDE DEF n, t
  <1>6. Len(t) = n - 1 /\ n - 1 - 1 + 1 = n - 1 /\ \A i \in 1 .. n - 1 : 1 + i - 1 = i
    BY <1>5
  <1>7. Len(t) = n - 1 /\ \A i \in 1 .. n - 1 : t[i] = s[i]
    BY <1>5, <1>6
  <1> QED BY <1>1, <1>4, <1>7 DEF Front, Last, n, t

LEMMA RangeAppend ==
    ASSUME NEW S, NEW s \in Seq(S), NEW e \in S
    PROVE  Range(Append(s, e)) = Range(s) \cup {e}
  BY AppendProperties DEF Range

LEMMA HeadOrTail ==
    ASSUME NEW S, NEW s \in Seq(S), s # <<>>
    PROVE  Range(s) = {Head(s)} \cup Range(Tail(s))
  <1>1. Len(s) \in Nat \ {0} /\ Head(s) = s[1] /\ DOMAIN s = 1 .. Len(s)
    BY EmptySeq, LenProperties
  <1>2. DOMAIN Tail(s) = 1 .. Len(s) - 1 /\ \A i \in 1 .. Len(s) - 1 : Tail(s)[i] = s[i + 1]
    BY HeadTailProperties, LenProperties
  <1>3. \A i \in 1 .. Len(s) : i = 1 \/ (i - 1 \in 1 .. Len(s) - 1 /\ s[i] = Tail(s)[i - 1])
    BY <1>1, <1>2
  <1>4. \A i \in 1 .. Len(s) - 1 : i + 1 \in 1 .. Len(s)
    BY <1>1
  <1>5. Range(s) = {s[i] : i \in 1 .. Len(s)}
    BY <1>1 DEF Range
  <1>6. Range(Tail(s)) = {Tail(s)[i] : i \in 1 .. Len(s) - 1}
    BY <1>2 DEF Range
  <1>7. Range(s) \subseteq {Head(s)} \cup Range(Tail(s))
    BY <1>1, <1>3, <1>5, <1>6
  <1>8. Range(Tail(s)) \subseteq Range(s)
    BY <1>2, <1>4, <1>5, <1>6
  <1>9. Head(s) \in Range(s)
    BY <1>1, <1>5
  <1> QED BY <1>7, <1>8, <1>9

LEMMA FunctionIsSeq ==
    ASSUME NEW S, NEW n \in Nat, NEW f \in [1 .. n -> S]
    PROVE  f \in Seq(S) /\ Len(f) = n
  BY SeqDef, LenProperties

-----------------------------------------------------------------------------
(* Paths *)

LEMMA DirnameType ==
    ASSUME NEW p \in Path
    PROVE  Dirname(p) \in Seq(Names \cup {Here})
  <1>1. p \in Seq(Names \cup {Here}) /\ p # <<>>
    BY DEF Path
  <1>2. Front(p) \in Seq(Names \cup {Here})
    BY <1>1, FrontProperties
  <1>3. <<Here>> \in Seq(Names \cup {Here})
    OBVIOUS
  <1> QED BY <1>2, <1>3 DEF Dirname

LEMMA ResolveType ==
    ASSUME NEW p \in Path, NEW m \in Module
    PROVE  Resolve(p, m) \in Path \cup {None}
  <1> DEFINE C == Names \cup {Here}
  <1>1. m \in Seq(C) /\ Len(m) \in Nat \ {0}
    BY EmptySeq, SeqMonotonic DEF Module
  <1>2. \A d \in Seq(C) : d \o m \in Path
    BY <1>1, ConcatProperties, EmptySeq DEF Path
  <1>3. Dirname(p) \o m \in Path
    BY <1>2, DirnameType
  <1>4. <<Here>> \in Seq(C)
    OBVIOUS
  <1>5. <<Here>> \o m \in Path
    BY <1>2, <1>4
  <1> QED BY <1>3, <1>5 DEF Resolve

LEMMA AppendModule ==
    ASSUME NEW b \in Module, NEW n \in Names
    PROVE  Append(b, n) \in Module
  BY AppendProperties, EmptySeq DEF Module

LEMMA ListingType ==
    ASSUME NEW d, NEW b \in Module
    PROVE  Listing(d, b) \in Seq(Module)
  <1> DEFINE there == {n \in Names : Exists(d \o b \o <<n>>)}
             s == Sorted(there)
  <1>1. s \in Seq(Names)
    BY SortedIsSorted, SeqMonotonic
  <1>2. DOMAIN s = 1 .. Len(s) /\ Len(s) \in Nat /\ \A i \in 1 .. Len(s) : s[i] \in Names
    BY <1>1, LenProperties, ElementOfSeq
  <1> HIDE DEF s
  <1>3. [i \in DOMAIN s |-> Append(b, s[i])] \in [1 .. Len(s) -> Module]
    BY <1>2, AppendModule
  <1>4. Listing(d, b) = [i \in DOMAIN s |-> Append(b, s[i])]
    BY DEF Listing, s
  <1> QED BY <1>2, <1>3, <1>4, FunctionIsSeq

LEMMA RequestsType ==
    ASSUME NEW p, NEW line \in Line
    PROVE  Requests(p, line) \in Seq(Module)
  <1>1. CASE line.kind = "module"
    BY <1>1 DEF Requests, Line
  <1>2. CASE line.kind = "items"
    <2>1. line.base \in Module /\ line.items \in Seq(Names)
      BY <1>2 DEF Line
    <2>2. DOMAIN line.items = 1 .. Len(line.items) /\ Len(line.items) \in Nat
          /\ \A i \in 1 .. Len(line.items) : line.items[i] \in Names
      BY <2>1, LenProperties, ElementOfSeq
    <2>3. [i \in DOMAIN line.items |-> Append(line.base, line.items[i])]
             \in [1 .. Len(line.items) -> Module]
      BY <2>1, <2>2, AppendModule
    <2> QED BY <1>2, <2>2, <2>3, FunctionIsSeq DEF Requests
  <1>3. CASE line.kind = "glob"
    <2>1. line.base \in Module
      BY <1>3 DEF Line
    <2> QED BY <1>3, <2>1, ListingType DEF Requests, Listed
  <1>4. CASE line.kind = "invalid"
    BY <1>4, EmptySeq DEF Requests
  <1> QED BY <1>1, <1>2, <1>3, <1>4 DEF Line

-----------------------------------------------------------------------------
(* The disk *)

\* Reading a file changes nothing about the others, or where modules are.
Kept ==
    /\ \A p : Exists(p)' = Exists(p)
    /\ \A p, m : Resolve(p, m)' = Resolve(p, m)
    /\ \A p : Exists(p) /\ TextOf(p) # NotRead =>
          /\ TextOf(p)' = TextOf(p)
          /\ \A k : Wanted(p, k)' = Wanted(p, k)
          /\ Imports(p)' = Imports(p)

LEMMA DiskKept ==
    ASSUME DOMAIN disk' = DOMAIN disk,
           \A f \in DOMAIN disk : disk[f] # NotRead => disk'[f] = disk[f]
    PROVE  Kept
  <1>1. \A p : Exists(p)' = Exists(p)
    BY DEF Exists
  <1>2. \A p, m : Resolve(p, m)' = Resolve(p, m)
    BY <1>1 DEF Resolve
  <1>3. \A d, b : Listing(d, b)' = Listing(d, b)
    <2>1. TAKE d, b
    <2>2. {n \in Names : Exists(d \o b \o <<n>>)'} = {n \in Names : Exists(d \o b \o <<n>>)}
      BY <1>1
    <2> QED BY <2>2 DEF Listing
  <1>4. \A p, l : Requests(p, l)' = Requests(p, l)
    <2>1. \A p, b : Listed(p, b)' = Listed(p, b)
      BY <1>3 DEF Listed
    <2> QED BY <2>1 DEF Requests
  <1>5. ASSUME NEW p, Exists(p), TextOf(p) # NotRead
        PROVE  TextOf(p)' = TextOf(p)
    BY <1>5 DEF Exists, TextOf
  <1>6. ASSUME NEW p, Exists(p), TextOf(p) # NotRead, NEW k
        PROVE  Wanted(p, k)' = Wanted(p, k)
    BY <1>4, <1>5, <1>6 DEF Wanted
  <1>7. ASSUME NEW p, Exists(p), TextOf(p) # NotRead
        PROVE  Imports(p)' = Imports(p)
    <2>1. TextOf(p)' = TextOf(p)
      BY <1>5, <1>7
    <2>2. Wanted(p, Len(TextOf(p)))' = Wanted(p, Len(TextOf(p)))
      BY <1>4, <2>1 DEF Wanted
    <2> QED BY <1>2, <2>2 DEF Imports
  <1> QED BY <1>1, <1>2, <1>5, <1>6, <1>7 DEF Kept

-----------------------------------------------------------------------------
(* Steps *)

LEMMA Lengths ==
    ASSUME TypeOK, StackListed
    PROVE  /\ Len(frames) \in Nat /\ Len(stack) = Len(frames) /\ Len(loaded) \in Nat
           /\ DOMAIN frames = 1 .. Len(frames)
           /\ DOMAIN stack = 1 .. Len(frames)
           /\ DOMAIN loaded = 1 .. Len(loaded)
           /\ \A i \in 1 .. Len(frames) : frames[i] \in Frame /\ stack[i] = frames[i].path
           /\ \A i \in 1 .. Len(loaded) : loaded[i] \in Path
  BY LenProperties, ElementOfSeq DEF TypeOK, StackListed

LEMMA OnTop ==
    ASSUME TypeOK, StackListed, frames # <<>>
    PROVE  /\ Len(frames) \in Nat \ {0} /\ Top = frames[Len(frames)] /\ Top \in Frame
           /\ stack # <<>>
           /\ Last(stack) = Top.path
           /\ Front(frames) \in Seq(Frame) /\ Len(Front(frames)) = Len(frames) - 1
           /\ \A i \in 1 .. Len(frames) - 1 : Front(frames)[i] = frames[i]
           /\ Front(stack) \in Seq(Path) /\ Len(Front(stack)) = Len(frames) - 1
           /\ \A i \in 1 .. Len(frames) - 1 : Front(stack)[i] = stack[i]
  <1>1. frames \in Seq(Frame) /\ stack \in Seq(Path)
    BY DEF TypeOK
  <1>2. Len(frames) \in Nat \ {0}
    BY <1>1, EmptySeq
  <1>3. stack # <<>>
    BY <1>1, <1>2, EmptySeq DEF StackListed
  <1>4. /\ Front(frames) \in Seq(Frame) /\ Len(Front(frames)) = Len(frames) - 1
        /\ \A i \in 1 .. Len(frames) - 1 : Front(frames)[i] = frames[i]
        /\ Last(frames) \in Frame /\ Last(frames) = frames[Len(frames)]
    BY <1>1, FrontProperties
  <1>5. /\ Front(stack) \in Seq(Path) /\ Len(Front(stack)) = Len(stack) - 1
        /\ \A i \in 1 .. Len(stack) - 1 : Front(stack)[i] = stack[i]
        /\ Last(stack) = stack[Len(stack)]
    BY <1>1, <1>3, FrontProperties
  <1>6. Last(stack) = Top.path
    BY <1>2, <1>4, <1>5 DEF Top, StackListed
  <1>7. Len(stack) = Len(frames)
    BY DEF StackListed
  <1> QED BY <1>2, <1>3, <1>4, <1>5, <1>6, <1>7 DEF Top

LEMMA ListsStay ==
    ASSUME TypeOK, Lists, UNCHANGED <<disk, frames, stack, loaded>>
    PROVE  Lists'
  <1>1. Kept
    BY DiskKept
  <1>2. StackListed' /\ EachPathOnce'
    BY DEF Lists, StackListed, EachPathOnce
  <1>3. Waiting'
    BY <1>1 DEF Lists, Waiting, Awaits, Kept
  <1>4. \A i \in 1 .. Len(frames) : Exists(frames[i].path) /\ TextOf(frames[i].path) # NotRead
    BY Lengths DEF TypeOK, Lists
  <1>5. Covered'
    BY <1>1, <1>4 DEF Lists, Covered, Kept
  <1>6. LoadedRead'
    BY <1>1 DEF Lists, LoadedRead, Kept
  <1>7. ImportsFirst'
    <2>1. \A i \in DOMAIN loaded : Exists(loaded[i]) /\ TextOf(loaded[i]) # NotRead
      BY DEF Lists, LoadedRead, Range
    <2> QED BY <1>1, <2>1 DEF Lists, ImportsFirst, Kept
  <1> QED BY <1>2, <1>3, <1>5, <1>6, <1>7 DEF Lists

LEMMA ListsLeft ==
    ASSUME TypeOK, Lists, frames # <<>>, Leave, UNCHANGED <<disk, loaded>>
    PROVE  Lists'
  <1>1. Kept
    BY DiskKept
  <1> DEFINE n == Len(frames) - 1
  <1>2. /\ n \in Nat /\ Len(frames') = n /\ Len(stack') = n /\ n < Len(frames)
        /\ n \in 0 .. Len(frames) /\ \A i \in 1 .. n : i \in 1 .. Len(frames) /\ i < Len(frames)
        /\ \A i \in 1 .. n : frames'[i] = frames[i] /\ stack'[i] = stack[i]
        /\ DOMAIN stack' = 1 .. n
    BY OnTop, LenProperties DEF Lists, Leave
  <1> HIDE DEF n
  <1>3. StackListed'
    BY <1>2 DEF Lists, StackListed
  <1>4. EachPathOnce'
    <2>1. \A i \in DOMAIN stack' : i \in DOMAIN stack /\ stack'[i] = stack[i]
      BY <1>2, Lengths DEF Lists
    <2> QED BY <2>1 DEF Lists, EachPathOnce, IsInjective, Range
  <1>5. Waiting'
    <2>1. ASSUME NEW i \in 1 .. n, i < n
          PROVE  Awaits(i, frames[i + 1].path) /\ frames'[i + 1] = frames[i + 1]
                 /\ frames'[i] = frames[i]
      BY <1>2, <2>1 DEF Lists, Waiting
    <2> QED BY <1>1, <1>2, <2>1 DEF Waiting, Awaits, Kept
  <1>6. Covered'
    <2>1. ASSUME NEW i \in 1 .. n
          PROVE  \A k : \A p : p = frames[i].path => Wanted(p, k)' = Wanted(p, k)
      <3>1. i \in 1 .. Len(frames)
        BY <1>2
      <3>2. Exists(frames[i].path) /\ TextOf(frames[i].path) # NotRead
        BY <3>1, Lengths DEF TypeOK, Lists
      <3> QED BY <1>1, <3>2 DEF Kept
    <2>2. ASSUME NEW i \in 1 .. n
          PROVE  /\ frames'[i] = frames[i]
                 /\ Range(frames[i].mods) \subseteq Wanted(frames[i].path, frames[i].line)
                 /\ \A m \in Wanted(frames[i].path, frames[i].line) :
                       m \in Range(frames[i].mods) \/ Resolve(frames[i].path, m) \in Range(loaded)
      BY <1>2 DEF Lists, Covered
    <2>3. \A p, m : Resolve(p, m)' = Resolve(p, m)
      BY <1>1 DEF Kept
    <2>4. ASSUME NEW i \in 1 .. n
          PROVE  (/\ Range(frames[i].mods) \subseteq Wanted(frames[i].path, frames[i].line)
                  /\ \A m \in Wanted(frames[i].path, frames[i].line) :
                        m \in Range(frames[i].mods) \/ Resolve(frames[i].path, m) \in Range(loaded))'
      <3>1. Wanted(frames[i].path, frames[i].line)' = Wanted(frames[i].path, frames[i].line)
        BY <2>1, <2>2
      <3> QED BY <2>2, <2>3, <3>1
    <2> QED BY <1>2, <2>4 DEF Covered
  <1>7. LoadedRead'
    BY <1>1 DEF Lists, LoadedRead, Kept
  <1>8. ImportsFirst'
    <2>1. \A i \in DOMAIN loaded : Exists(loaded[i]) /\ TextOf(loaded[i]) # NotRead
      BY DEF Lists, LoadedRead, Range
    <2> QED BY <1>1, <2>1 DEF Lists, ImportsFirst, Kept
  <1> QED BY <1>3, <1>4, <1>5, <1>6, <1>7, <1>8 DEF Lists

\* A call that comes back at once, or a module that is called for.
LEMMA CallKeeps ==
    ASSUME IInv, FindCycle \/ SkipLoaded \/ ReadFails \/ NextModule \/ Finish
    PROVE  IInv'
  <1>1. UNCHANGED <<disk, frames, stack, loaded>>
    BY DEF FindCycle, SkipLoaded, ReadFails, NextModule, Finish
  <1>2. Lists'
    BY <1>1, ListsStay DEF IInv
  <1>3. CASE FindCycle
    BY <1>1, <1>2, <1>3 DEF IInv, FindCycle, Fail, TypeOK, Called, Frame, Exists, TextOf
  <1>4. CASE ReadFails
    BY <1>1, <1>2, <1>4 DEF IInv, ReadFails, Fail, TypeOK, Called, Frame, Exists, TextOf
  <1>5. CASE SkipLoaded
    <2>1. frames # <<>> => Awaits(Len(frames), call)
      BY <1>5 DEF IInv, Called, SkipLoaded
    <2>2. frames # <<>> => \E q \in Range(loaded) : Awaits(Len(frames), q)
      BY <1>5, <2>1 DEF SkipLoaded
    <2>3. (frames # <<>> => \E q \in Range(loaded) : Awaits(Len(frames), q))'
      BY <1>1, <2>2 DEF Awaits, Resolve, Exists
    <2>4. Called'
      BY <1>5, <2>3 DEF Called, SkipLoaded
    <2>5. TypeOK'
      BY <1>1, <1>5 DEF IInv, SkipLoaded, TypeOK, Frame, Exists, TextOf
    <2> QED BY <1>2, <2>4, <2>5 DEF IInv
  <1>6. CASE NextModule
    <2> DEFINE q == Resolve(Top.path, Head(Top.mods))
    <2>1. frames # <<>> /\ ret = "none" /\ call = None /\ Top.mods # <<>>
      BY <1>6 DEF NextModule, InProgress
    <2>2. Top \in Frame /\ Top = frames[Len(frames)]
      BY <2>1, OnTop DEF IInv, Lists
    <2>3. Head(Top.mods) \in Module /\ Top.path \in Path
      BY <2>1, <2>2, HeadTailProperties DEF Frame
    <2>4. q \in Path \cup {None}
      BY <2>3, ResolveType
    <2>5. CASE q # None
      <3>1. call' = q /\ ret' = ret /\ err' = err /\ result' = result
        BY <1>6, <2>5 DEF NextModule
      <3>2. Awaits(Len(frames), q)
        BY <2>1, <2>2 DEF Awaits
      <3>3. Awaits(Len(frames), q)' /\ q' = q
        BY <1>1, <3>2 DEF Awaits, Resolve, Exists, Top
      <3>4. Called'
        BY <2>1, <3>1, <3>3 DEF Called
      <3>5. TypeOK'
        BY <1>1, <2>4, <3>1 DEF IInv, TypeOK, Frame, Exists, TextOf
      <3> QED BY <1>2, <3>4, <3>5 DEF IInv
    <2>6. CASE q = None
      BY <1>1, <1>2, <1>6, <2>6 DEF NextModule, Fail, IInv, TypeOK, Called, Frame, Exists, TextOf
    <2> QED BY <2>5, <2>6
  <1>7. CASE Finish
    <2>1. Called'
      BY <1>1, <1>7 DEF IInv, Finish, Called, Awaits, Resolve, Exists
    <2>2. TypeOK'
      BY <1>1, <1>7 DEF IInv, Finish, TypeOK, Frame, Exists, TextOf
    <2> QED BY <1>2, <2>1, <2>2 DEF IInv
  <1> QED BY <1>3, <1>4, <1>5, <1>6, <1>7

\* An activation that fails.
LEMMA LeaveFails ==
    ASSUME IInv, frames # <<>>, Leave, UNCHANGED <<disk, loaded, result>>,
           call' = None, ret' = "fail", err' \in {err, "syntax", "unresolved"}
    PROVE  IInv'
  <1>1. Lists'
    BY ListsLeft DEF IInv
  <1>2. Called'
    BY DEF Called
  <1>3. /\ frames' \in Seq(Frame) /\ stack' \in Seq(Path)
        /\ Len(frames') = Len(frames) - 1 /\ Len(frames) \in Nat \ {0}
        /\ \A i \in 1 .. Len(frames) - 1 : frames'[i] = frames[i]
    BY OnTop DEF IInv, Lists, Leave
  <1>4. \A i \in DOMAIN frames' : i \in DOMAIN frames /\ frames'[i] = frames[i]
    BY <1>3, LenProperties, Lengths DEF IInv, Lists
  <1>5. TypeOK'
    BY <1>3, <1>4 DEF IInv, TypeOK, Exists, TextOf
  <1> QED BY <1>1, <1>2, <1>5 DEF IInv

LEMMA AppendTextKeeps ==
    ASSUME IInv, AppendText
    PROVE  IInv'
  <1> DEFINE n == Len(frames)
             path == Top.path
  <1>1. /\ frames # <<>> /\ call = None /\ ret = "none" /\ Top.mods = <<>>
        /\ Top.line = Len(TextOf(path))
        /\ Leave /\ loaded' = Append(loaded, path) /\ ret' = "ok"
        /\ UNCHANGED <<disk, call, err, result>>
    BY DEF AppendText, InProgress
  <1>2. Kept
    BY <1>1, DiskKept
  <1>3. /\ n \in Nat \ {0} /\ Top = frames[n] /\ Top \in Frame /\ stack[n] = path
        /\ frames' \in Seq(Frame) /\ stack' \in Seq(Path)
        /\ Len(frames') = n - 1 /\ Len(stack') = n - 1
        /\ \A i \in 1 .. n - 1 : frames'[i] = frames[i] /\ stack'[i] = stack[i]
        /\ n \in 1 .. n
    BY <1>1, OnTop, Lengths DEF IInv, Lists, Leave
  <1>4. /\ DOMAIN frames = 1 .. n /\ DOMAIN stack = 1 .. n
        /\ DOMAIN frames' = 1 .. n - 1 /\ DOMAIN stack' = 1 .. n - 1
        /\ \A i \in 1 .. n - 1 : i \in 1 .. n /\ i # n
    BY <1>3, Lengths, LenProperties DEF IInv, Lists
  <1>5. path \in Path /\ Exists(path) /\ TextOf(path) # NotRead
    BY <1>3, <1>4 DEF IInv, TypeOK, Frame
  <1>6. path \in Range(stack) /\ path \notin Range(loaded)
    BY <1>3, <1>4 DEF IInv, Lists, EachPathOnce, Range
  <1>7. Range(loaded') = Range(loaded) \cup {path} /\ loaded' \in Seq(Path)
    BY <1>1, <1>5, RangeAppend, AppendProperties DEF IInv, TypeOK
  <1>8. /\ Len(loaded) \in Nat /\ DOMAIN loaded = 1 .. Len(loaded)
        /\ Len(loaded') = Len(loaded) + 1 /\ DOMAIN loaded' = 1 .. Len(loaded) + 1
        /\ \A i \in 1 .. Len(loaded) : loaded'[i] = loaded[i]
        /\ loaded'[Len(loaded) + 1] = path
    BY <1>1, <1>5, <1>7, AppendProperties, LenProperties DEF IInv, TypeOK
  <1> HIDE DEF n, path
  <1>9. TypeOK'
    <2>1. \A i \in DOMAIN frames' : i \in DOMAIN frames /\ frames'[i] = frames[i]
      BY <1>3, <1>4
    <2> QED BY <1>1, <1>3, <1>7, <2>1 DEF IInv, TypeOK, Exists, TextOf
  <1>10. StackListed'
    BY <1>3, <1>4 DEF IInv, Lists, StackListed, n
  <1>11. EachPathOnce'
    <2>1. \A i \in DOMAIN stack' : i \in DOMAIN stack /\ stack'[i] = stack[i] /\ i # n
      BY <1>3, <1>4
    <2>2. IsInjective(stack')
      BY <2>1 DEF IInv, Lists, EachPathOnce, IsInjective
    <2>3. \A i \in DOMAIN stack' : stack'[i] # path /\ stack'[i] \in Range(stack)
      BY <1>3, <1>4, <2>1 DEF IInv, Lists, EachPathOnce, IsInjective, Range
    <2>4. \A i \in DOMAIN stack' : stack'[i] \notin Range(loaded')
      BY <1>7, <2>3 DEF IInv, Lists, EachPathOnce
    <2>5. \A i \in 1 .. Len(loaded) : loaded[i] # path
      BY <1>6, <1>8 DEF Range
    <2>6. \A i \in 1 .. Len(loaded) + 1 : i \in 1 .. Len(loaded) \/ i = Len(loaded) + 1
      BY <1>8
    <2>7. IsInjective(loaded')
      BY <1>8, <2>5, <2>6 DEF IInv, Lists, EachPathOnce, IsInjective
    <2>8. Range(stack') \cap Range(loaded') = {}
      BY <2>4 DEF Range
    <2> QED BY <2>2, <2>7, <2>8 DEF EachPathOnce
  <1>12. Waiting /\ \A p, m : Resolve(p, m)' = Resolve(p, m)
    BY <1>2 DEF IInv, Lists, Kept
  <1>13. Waiting'
    <2>1. ASSUME NEW i \in 1 .. n - 1, i < n - 1
          PROVE  /\ frames'[i] = frames[i] /\ frames'[i + 1] = frames[i + 1]
                 /\ Awaits(i, frames[i + 1].path)
      BY <1>3, <2>1, <1>12 DEF Waiting, n
    <2> QED BY <1>3, <1>12, <2>1 DEF Waiting, Awaits
  <1>14. Called'
    <2>1. ASSUME frames' # <<>>, NEW q, q = path
          PROVE  Awaits(Len(frames), q)'
      <3>1. n - 1 \in 1 .. n - 1 /\ n - 1 \in 1 .. n /\ n - 1 < n /\ n - 1 + 1 = n
        BY <1>3, <2>1, EmptySeq
      <3>2. Awaits(n - 1, frames[n].path)
        BY <1>3, <1>12, <3>1 DEF Waiting, n
      <3>3. frames[n].path = q
        BY <1>3, <2>1 DEF path
      <3> QED BY <1>3, <1>12, <3>1, <3>2, <3>3 DEF Awaits
    <2>2. path \in Range(loaded') /\ call' = None
      BY <1>1, <1>7
    <2> QED BY <2>1, <2>2 DEF Called
  <1>15. Covered'
    <2>1. ASSUME NEW i \in 1 .. n - 1
          PROVE  (/\ Range(frames[i].mods) \subseteq Wanted(frames[i].path, frames[i].line)
                  /\ \A m \in Wanted(frames[i].path, frames[i].line) :
                        m \in Range(frames[i].mods) \/ Resolve(frames[i].path, m) \in Range(loaded))'
      <3>1. i \in DOMAIN frames /\ i \in 1 .. Len(frames) /\ frames'[i] = frames[i]
        BY <1>3, <1>4 DEF n
      <3>2. Exists(frames[i].path) /\ TextOf(frames[i].path) # NotRead
        BY <3>1 DEF IInv, TypeOK
      <3>3. \A k : \A p : p = frames[i].path => Wanted(p, k)' = Wanted(p, k)
        BY <1>2, <3>2 DEF Kept
      <3>4. Wanted(frames[i].path, frames[i].line)' = Wanted(frames[i].path, frames[i].line)
        BY <3>1, <3>3
      <3>5. /\ Range(frames[i].mods) \subseteq Wanted(frames[i].path, frames[i].line)
            /\ \A m \in Wanted(frames[i].path, frames[i].line) :
                  m \in Range(frames[i].mods) \/ Resolve(frames[i].path, m) \in Range(loaded)
        BY <3>1 DEF IInv, Lists, Covered
      <3> QED BY <1>7, <1>12, <3>1, <3>4, <3>5
    <2> QED BY <1>3, <2>1 DEF Covered
  <1>16. LoadedRead'
    <2>1. \A p \in Range(loaded) \cup {path} : Exists(p) /\ TextOf(p) # NotRead
      BY <1>5 DEF IInv, Lists, LoadedRead
    <2> QED BY <1>2, <1>7, <2>1 DEF LoadedRead, Kept
  <1>17. ImportsFirst'
    <2>1. Imports(path) \subseteq Range(loaded)
      <3>1. n \in 1 .. Len(frames) /\ frames[n].path = path /\ frames[n].mods = <<>>
            /\ frames[n].line = Len(TextOf(path))
        BY <1>1, <1>3 DEF n, path
      <3>2. \A m \in Wanted(path, Len(TextOf(path))) :
               m \in Range(<<>>) \/ Resolve(path, m) \in Range(loaded)
        BY <3>1 DEF IInv, Lists, Covered
      <3>3. Range(<<>>) = {}
        BY DEF Range
      <3> QED BY <3>2, <3>3 DEF Imports
    <2>2. \A p \in Range(loaded) \cup {path} : Imports(p)' = Imports(p)
      BY <1>2, <1>5 DEF IInv, Lists, LoadedRead, Kept
    <2>3. Range(loaded) = {loaded[j] : j \in 1 .. Len(loaded)}
      BY <1>8 DEF Range
    <2>4. ASSUME NEW i \in 1 .. Len(loaded)
          PROVE  Imports(loaded[i]) \subseteq {loaded[j] : j \in 1 .. i - 1}
      BY <1>8 DEF IInv, Lists, ImportsFirst
    <2>5. ASSUME NEW i \in 1 .. Len(loaded) + 1
          PROVE  (Imports(loaded[i]) \subseteq {loaded[j] : j \in 1 .. i - 1})'
      <3>1. CASE i \in 1 .. Len(loaded)
        <4>1. \A j \in 1 .. i - 1 : loaded'[j] = loaded[j]
          BY <1>8, <3>1
        <4>2. \A p : p = loaded[i] => Imports(p)' = Imports(p)
          BY <2>2, <2>3, <3>1
        <4>3. loaded'[i] = loaded[i]
          BY <1>8, <3>1
        <4> QED BY <2>4, <3>1, <4>1, <4>2, <4>3
      <3>2. CASE i = Len(loaded) + 1
        <4>1. loaded'[i] = path /\ i - 1 = Len(loaded)
          BY <1>8, <3>2
        <4>2. {loaded'[j] : j \in 1 .. i - 1} = Range(loaded)
          BY <1>8, <2>3, <4>1
        <4>3. \A p : p = path => Imports(p)' = Imports(p)
          BY <2>2
        <4> QED BY <2>1, <4>1, <4>2, <4>3
      <3> QED BY <1>8, <3>1, <3>2
    <2> QED BY <1>8, <2>5 DEF ImportsFirst
  <1> QED BY <1>9, <1>10, <1>11, <1>13, <1>14, <1>15, <1>16, <1>17 DEF IInv, Lists

\* An activation changes what it has still to do: it goes on to the next
\* module of a line, or to the next line.
LEMMA TopGoesOn ==
    ASSUME IInv, frames # <<>>, NEW line \in Nat, NEW mods \in Seq(Module),
           frames' = [frames EXCEPT ![Len(frames)] =
                         [path |-> Top.path, line |-> line, mods |-> mods]],
           line <= Len(TextOf(Top.path)),
           Range(mods) \subseteq Wanted(Top.path, line),
           \A m \in Wanted(Top.path, line) :
               m \in Range(mods) \/ Resolve(Top.path, m) \in Range(loaded),
           UNCHANGED <<disk, stack, loaded, call, err, result>>,
           call = None, ret' = "none"
    PROVE  IInv'
  <1> DEFINE n == Len(frames)
             path == Top.path
             f == [path |-> path, line |-> line, mods |-> mods]
  <1>1. Kept
    BY DiskKept
  <1>2. /\ n \in Nat \ {0} /\ Top = frames[n] /\ Top \in Frame /\ stack[n] = path
        /\ DOMAIN frames = 1 .. n /\ n \in 1 .. n /\ frames \in Seq(Frame)
        /\ f \in Frame
    <2>1. /\ n \in Nat \ {0} /\ Top = frames[n] /\ Top \in Frame
          /\ DOMAIN frames = 1 .. n
      BY OnTop, Lengths DEF IInv, Lists
    <2>2. frames \in Seq(Frame) /\ n \in 1 .. n
      BY <2>1 DEF IInv, TypeOK
    <2>3. stack[n] = path
      BY <2>1, <2>2 DEF IInv, Lists, StackListed
    <2>4. f \in Frame
      BY <2>1 DEF Frame
    <2> QED BY <2>1, <2>2, <2>3, <2>4
  <1>3. /\ frames' \in Seq(Frame) /\ Len(frames') = n /\ DOMAIN frames' = 1 .. n
        /\ \A i \in 1 .. n : frames'[i] = IF i = n THEN f ELSE frames[i]
    BY <1>2, ExceptSeq, LenProperties
  <1>4. Exists(path) /\ TextOf(path) # NotRead
    BY <1>2 DEF IInv, TypeOK
  <1>5. \A i \in 1 .. n : frames'[i].path = frames[i].path
    BY <1>2, <1>3
  <1> HIDE DEF n, path
  <1>6. Lists
    BY DEF IInv
  <1>7. TypeOK'
    <2>1. ASSUME NEW i \in 1 .. n
          PROVE  (/\ Exists(frames[i].path) /\ TextOf(frames[i].path) # NotRead
                  /\ frames[i].line <= Len(TextOf(frames[i].path)))'
      <3>1. CASE i = n
        BY <1>2, <1>3, <1>4, <3>1 DEF Exists, TextOf, path
      <3>2. CASE i # n
        <4>1. frames'[i] = frames[i] /\ i \in DOMAIN frames
          BY <1>2, <1>3, <3>2
        <4> QED BY <4>1 DEF IInv, TypeOK, Exists, TextOf
      <3> QED BY <3>1, <3>2
    <2>2. frames' \in Seq(Frame) /\ DOMAIN frames' = 1 .. n
      BY <1>3
    <2> QED BY <2>1, <2>2 DEF IInv, TypeOK
  <1>8. StackListed' /\ EachPathOnce'
    BY <1>3, <1>5, <1>6 DEF Lists, StackListed, EachPathOnce, n
  <1>9. Waiting'
    <2>1. ASSUME NEW i \in 1 .. n, i < n
          PROVE  Awaits(i, frames[i + 1].path) /\ frames'[i] = frames[i]
                 /\ frames'[i + 1].path = frames[i + 1].path
      BY <1>2, <1>3, <1>5, <1>6, <2>1 DEF Lists, Waiting, n
    <2>2. \A p, m : Resolve(p, m)' = Resolve(p, m)
      BY <1>1 DEF Kept
    <2> QED BY <1>3, <2>1, <2>2 DEF Waiting, Awaits
  <1>10. Covered'
    <2>1. ASSUME NEW i \in 1 .. n
          PROVE  (/\ Range(frames[i].mods) \subseteq Wanted(frames[i].path, frames[i].line)
                  /\ \A m \in Wanted(frames[i].path, frames[i].line) :
                        m \in Range(frames[i].mods) \/ Resolve(frames[i].path, m) \in Range(loaded))'
      <3>1. \A p, m : Resolve(p, m)' = Resolve(p, m)
        BY <1>1 DEF Kept
      <3>2. Exists(frames[i].path) /\ TextOf(frames[i].path) # NotRead
        BY <1>2 DEF IInv, TypeOK
      <3>3. \A k : \A p : p = frames[i].path => Wanted(p, k)' = Wanted(p, k)
        BY <1>1, <3>2 DEF Kept
      <3>4. CASE i = n
        <4>1. frames'[i].path = path /\ frames'[i].line = line /\ frames'[i].mods = mods
              /\ frames[i].path = path
          BY <1>2, <1>3, <3>4 DEF path
        <4>2. Wanted(frames[i].path, frames[i].line)' = Wanted(path, line)
          BY <3>3, <4>1
        <4> QED BY <3>1, <4>1, <4>2 DEF path
      <3>5. CASE i # n
        <4>1. frames'[i] = frames[i]
          BY <1>3, <3>5
        <4>2. Wanted(frames[i].path, frames[i].line)' = Wanted(frames[i].path, frames[i].line)
          BY <3>3, <4>1
        <4> QED BY <1>6, <3>1, <4>1, <4>2 DEF Lists, Covered, n
      <3> QED BY <3>4, <3>5
    <2> QED BY <1>3, <2>1 DEF Covered
  <1>11. LoadedRead'
    BY <1>1, <1>6 DEF Lists, LoadedRead, Kept
  <1>12. ImportsFirst'
    <2>1. \A i \in DOMAIN loaded : Exists(loaded[i]) /\ TextOf(loaded[i]) # NotRead
      BY <1>6 DEF Lists, LoadedRead, Range
    <2> QED BY <1>1, <1>6, <2>1 DEF Lists, ImportsFirst, Kept
  <1>13. Called'
    BY DEF Called
  <1> QED BY <1>7, <1>8, <1>9, <1>10, <1>11, <1>12, <1>13 DEF IInv, Lists

LEMMA FrameExcept ==
    ASSUME NEW f \in Frame, NEW mods
    PROVE  [f EXCEPT !.mods = mods] = [path |-> f.path, line |-> f.line, mods |-> mods]
  <1>1. f = [path |-> f.path, line |-> f.line, mods |-> f.mods]
    BY DEF Frame
  <1>2. \A p, l, m : [[path |-> p, line |-> l, mods |-> m] EXCEPT !.mods = mods]
                        = [path |-> p, line |-> l, mods |-> mods]
    OBVIOUS
  <1> QED BY <1>1, <1>2

LEMMA ReturnKeeps ==
    ASSUME IInv, Return
    PROVE  IInv'
  <1>1. frames # <<>> /\ call = None /\ UNCHANGED <<disk, loaded, call, err, result>>
    BY DEF IInv, Called, Return
  <1>2. CASE ret = "fail"
    BY <1>1, <1>2, LeaveFails DEF Return
  <1>3. CASE ret = "ok"
    <2> DEFINE n == Len(frames)
    <2>1. /\ Top = frames[n] /\ Top \in Frame /\ n \in DOMAIN frames /\ n \in 1 .. n
      BY <1>1, OnTop, Lengths DEF IInv, Lists
    <2>2. PICK q \in Range(loaded) : Awaits(n, q)
      BY <1>1, <1>3 DEF IInv, Called
    <2>3. Top.mods # <<>> /\ Resolve(Top.path, Head(Top.mods)) \in Range(loaded)
      BY <2>1, <2>2 DEF Awaits
    <2>4. Top.mods \in Seq(Module) /\ Top.line \in Nat
      BY <2>1 DEF Frame
    <2>5. Tail(Top.mods) \in Seq(Module)
          /\ Range(Top.mods) = {Head(Top.mods)} \cup Range(Tail(Top.mods))
      BY <2>3, <2>4, HeadTailProperties, HeadOrTail
    <2>6. /\ Range(Top.mods) \subseteq Wanted(Top.path, Top.line)
          /\ \A m \in Wanted(Top.path, Top.line) :
                m \in Range(Top.mods) \/ Resolve(Top.path, m) \in Range(loaded)
          /\ Top.line <= Len(TextOf(Top.path))
      BY <2>1 DEF IInv, Lists, Covered, TypeOK
    <2>7. frames' = [frames EXCEPT ![n].mods = Tail(@)] /\ ret' = "none" /\ stack' = stack
      BY <1>3 DEF Return
    <2>8. frames' = [frames EXCEPT ![n] =
                        [path |-> Top.path, line |-> Top.line, mods |-> Tail(Top.mods)]]
      <3>1. frames' = [frames EXCEPT ![n] = [frames[n] EXCEPT !.mods = Tail(Top.mods)]]
        BY <2>1, <2>7
      <3>2. [frames[n] EXCEPT !.mods = Tail(Top.mods)]
               = [path |-> Top.path, line |-> Top.line, mods |-> Tail(Top.mods)]
        BY <2>1, FrameExcept
      <3> QED BY <3>1, <3>2
    <2> QED BY <1>1, <2>3, <2>4, <2>5, <2>6, <2>7, <2>8, TopGoesOn
  <1> QED BY <1>2, <1>3 DEF Return

LEMMA NextLineKeeps ==
    ASSUME IInv, NextLine
    PROVE  IInv'
  <1> DEFINE n == Len(frames)
             path == Top.path
             k == Top.line
             line == TextOf(path)[k + 1]
             mods == Requests(path, line)
  <1>1. /\ frames # <<>> /\ call = None /\ ret = "none" /\ Top.mods = <<>>
        /\ k < Len(TextOf(path)) /\ UNCHANGED <<disk, loaded, result>>
    BY DEF NextLine, InProgress
  <1>2. CASE line.kind # "invalid" /\ mods # <<>>
    <2>1. /\ Top = frames[n] /\ Top \in Frame /\ n \in DOMAIN frames /\ n \in 1 .. n
      BY <1>1, OnTop, Lengths DEF IInv, Lists
    <2>2. path \in Path /\ k \in Nat /\ TextOf(path) \in Seq(Line)
      BY <2>1 DEF IInv, TypeOK, Frame, Exists, TextOf
    <2>3. k + 1 \in 1 .. Len(TextOf(path)) /\ k + 1 \in Nat /\ k + 1 <= Len(TextOf(path))
      BY <1>1, <2>2, LenProperties
    <2>4. line \in Line
      BY <2>2, <2>3, ElementOfSeq
    <2>5. mods \in Seq(Module)
      BY <2>4, RequestsType
    <2>6. \A m \in Wanted(path, k) : Resolve(path, m) \in Range(loaded)
      <3>1. Range(<<>>) = {}
        BY DEF Range
      <3> QED BY <1>1, <2>1, <3>1 DEF IInv, Lists, Covered
    <2>7. Wanted(path, k + 1) = Wanted(path, k) \cup Range(mods)
      <3>1. 1 .. k + 1 = 1 .. k \cup {k + 1}
        BY <2>2
      <3> QED BY <3>1 DEF Wanted
    <2>8. /\ Range(mods) \subseteq Wanted(path, k + 1)
          /\ \A m \in Wanted(path, k + 1) :
                m \in Range(mods) \/ Resolve(path, m) \in Range(loaded)
      BY <2>6, <2>7
    <2>9. /\ frames' = [frames EXCEPT ![n] = [path |-> path, line |-> k + 1, mods |-> mods]]
          /\ UNCHANGED <<stack, call, ret, err>>
      BY <1>2 DEF NextLine
    <2> HIDE DEF mods, line
    <2> QED BY <1>1, <2>3, <2>5, <2>8, <2>9, TopGoesOn
  <1>3. CASE ~(line.kind # "invalid" /\ mods # <<>>)
    <2>1. Leave /\ Fail(IF line.kind = "invalid" THEN "syntax" ELSE "unresolved")
      BY <1>3 DEF NextLine
    <2> QED BY <1>1, <2>1, LeaveFails DEF Fail
  <1> QED BY <1>2, <1>3

LEMMA NotReadIsNoText == NotRead \notin Seq(Line)
  <1>1. \A l \in Line : l.kind \in {"module", "items", "glob", "invalid"}
    BY DEF Line
  <1>2. NotRead[1].kind = "not read"
    BY DEF NotRead
  <1>3. NotRead[1] \notin Line
    BY <1>1, <1>2
  <1>4. Len(NotRead) = 1
    BY DEF NotRead
  <1>5. \A s \in Seq(Line) : Len(s) = 1 => s[1] \in Line
    BY ElementOfSeq
  <1> QED BY <1>3, <1>4, <1>5

LEMMA ReadKeeps ==
    ASSUME IInv, Read
    PROVE  IInv'
  <1> DEFINE n == Len(frames)
             file == FileOf(call)
             f == [path |-> call, line |-> 0, mods |-> <<>>]
  <1>1. /\ call # None /\ call \notin Range(stack) /\ call \notin Range(loaded)
        /\ Exists(call) /\ ret = "none"
        /\ stack' = Append(stack, call) /\ frames' = Append(frames, f)
        /\ call' = None /\ UNCHANGED <<loaded, ret, err, result>>
    BY DEF Read, MayRead, IInv, Called
  <1>2. PICK t \in (IF TextOf(call) = NotRead THEN TextsOf(file) ELSE {TextOf(call)}) :
            disk' = [disk EXCEPT ![file] = t]
    BY DEF Read
  <1>3. file \in DOMAIN disk /\ file \in Files
    BY <1>1 DEF Exists, IInv, TypeOK
  <1>4. t \in Seq(Line)
    BY <1>2, <1>3, TextsAreLines DEF IInv, TypeOK, TextOf
  <1>5. t # NotRead
    BY <1>4, NotReadIsNoText
  <1>6. DOMAIN disk' = DOMAIN disk /\ disk'[file] = t
        /\ \A g \in DOMAIN disk : g # file => disk'[g] = disk[g]
    BY <1>2, <1>3
  <1>7. Kept
    BY <1>2, <1>6, DiskKept DEF TextOf
  <1>8. call \in Path /\ f \in Frame
    BY <1>1, EmptySeq DEF IInv, TypeOK, Frame
  <1>9. /\ n \in Nat /\ Len(stack) = n /\ DOMAIN frames = 1 .. n /\ DOMAIN stack = 1 .. n
        /\ \A i \in 1 .. n : stack[i] = frames[i].path
    BY Lengths DEF IInv, Lists
  <1>10. /\ frames' \in Seq(Frame) /\ stack' \in Seq(Path)
         /\ Len(frames') = n + 1 /\ Len(stack') = n + 1
         /\ DOMAIN frames' = 1 .. n + 1 /\ DOMAIN stack' = 1 .. n + 1
         /\ \A i \in 1 .. n : frames'[i] = frames[i] /\ stack'[i] = stack[i]
         /\ frames'[n + 1] = f /\ stack'[n + 1] = call
         /\ Range(stack') = Range(stack) \cup {call}
    BY <1>1, <1>8, <1>9, AppendProperties, LenProperties, RangeAppend DEF IInv, TypeOK
  <1>11. \A i \in 1 .. n + 1 : i \in 1 .. n \/ i = n + 1
    BY <1>9
  <1>12. \A i \in 1 .. n : Exists(frames[i].path) /\ TextOf(frames[i].path) # NotRead
    BY <1>9 DEF IInv, TypeOK
  <1> HIDE DEF n, file, f
  <1>13. TypeOK'
    <2>1. ASSUME NEW i \in 1 .. n + 1
          PROVE  (/\ Exists(frames[i].path) /\ TextOf(frames[i].path) # NotRead
                  /\ frames[i].line <= Len(TextOf(frames[i].path)))'
      <3>1. CASE i \in 1 .. n
        <4>1. \A p : p = frames[i].path => TextOf(p)' = TextOf(p) /\ Exists(p)'
          BY <1>7, <1>12, <3>1 DEF Kept
        <4>2. frames[i].line <= Len(TextOf(frames[i].path)) /\ TextOf(frames[i].path) # NotRead
          BY <1>9, <3>1 DEF IInv, TypeOK
        <4>3. frames'[i] = frames[i]
          BY <1>10, <3>1
        <4>4. TextOf(frames[i].path)' = TextOf(frames[i].path) /\ Exists(frames[i].path)'
          BY <4>1, <4>3
        <4> QED BY <4>2, <4>3, <4>4
      <3>2. CASE i = n + 1
        <4>1. frames'[i].path = call /\ frames'[i].line = 0
          BY <1>10, <3>2 DEF f
        <4>2. Exists(frames[i].path)' /\ TextOf(frames[i].path)' = t
          BY <1>3, <1>6, <4>1 DEF Exists, TextOf, file
        <4>3. 0 <= Len(t)
          BY <1>4, LenProperties
        <4> QED BY <1>5, <4>1, <4>2, <4>3
      <3> QED BY <1>11, <3>1, <3>2
    <2>2. \A g \in DOMAIN disk' : disk'[g] = NotRead \/ disk'[g] \in Seq(Line)
      BY <1>4, <1>6 DEF IInv, TypeOK
    <2> QED BY <1>1, <1>6, <1>10, <2>1, <2>2 DEF IInv, TypeOK
  <1>14. StackListed'
    BY <1>9, <1>10, <1>11 DEF StackListed, f
  <1>15. EachPathOnce'
    <2>1. \A i \in 1 .. n : stack[i] # call
      BY <1>1, <1>9 DEF Range
    <2>2. IsInjective(stack')
      BY <1>9, <1>10, <1>11, <2>1 DEF IInv, Lists, EachPathOnce, IsInjective
    <2> QED BY <1>1, <1>10, <2>2 DEF IInv, Lists, EachPathOnce
  <1>16. \A p, m : Resolve(p, m)' = Resolve(p, m)
    BY <1>7 DEF Kept
  <1>17. Waiting'
    <2>1. ASSUME NEW i \in 1 .. n + 1, i < n + 1
          PROVE  Awaits(i, frames'[i + 1].path) /\ frames'[i] = frames[i]
      <3>1. i \in 1 .. n
        BY <1>9, <2>1
      <3>2. CASE i < n
        BY <1>9, <1>10, <3>1, <3>2 DEF IInv, Lists, Waiting, n
      <3>3. CASE i = n
        <4>1. frames # <<>>
          BY <1>9, <3>1, EmptySeq DEF IInv, TypeOK, n
        <4>2. Awaits(n, call)
          BY <1>1, <4>1 DEF IInv, Called, n
        <4> QED BY <1>10, <3>1, <3>3, <4>2 DEF f
      <3> QED BY <1>9, <3>1, <3>2, <3>3
    <2> QED BY <1>10, <1>16, <2>1 DEF Waiting, Awaits
  <1>18. Covered'
    <2>1. ASSUME NEW i \in 1 .. n + 1
          PROVE  (/\ Range(frames[i].mods) \subseteq Wanted(frames[i].path, frames[i].line)
                  /\ \A m \in Wanted(frames[i].path, frames[i].line) :
                        m \in Range(frames[i].mods) \/ Resolve(frames[i].path, m) \in Range(loaded))'
      <3>1. CASE i \in 1 .. n
        <4>1. frames'[i] = frames[i]
          BY <1>10, <3>1
        <4>2. \A k : \A p : p = frames[i].path => Wanted(p, k)' = Wanted(p, k)
          BY <1>7, <1>12, <3>1 DEF Kept
        <4>3. Wanted(frames[i].path, frames[i].line)' = Wanted(frames[i].path, frames[i].line)
          BY <4>1, <4>2
        <4>4. /\ Range(frames[i].mods) \subseteq Wanted(frames[i].path, frames[i].line)
              /\ \A m \in Wanted(frames[i].path, frames[i].line) :
                    m \in Range(frames[i].mods) \/ Resolve(frames[i].path, m) \in Range(loaded)
          BY <3>1 DEF IInv, Lists, Covered, n
        <4> QED BY <1>1, <1>16, <4>1, <4>3, <4>4
      <3>2. CASE i = n + 1
        <4>1. frames'[i].line = 0 /\ frames'[i].mods = <<>>
          BY <1>10, <3>2 DEF f
        <4>2. Range(<<>>) = {} /\ 1 .. 0 = {}
          BY DEF Range
        <4>3. \A p : Wanted(p, 0)' = {}
          BY <4>2 DEF Wanted
        <4>4. Wanted(frames[i].path, frames[i].line)' = {}
          BY <4>1, <4>3
        <4> QED BY <4>1, <4>2, <4>4
      <3> QED BY <1>11, <3>1, <3>2
    <2> QED BY <1>10, <2>1 DEF Covered
  <1>19. LoadedRead'
    BY <1>1, <1>7 DEF IInv, Lists, LoadedRead, Kept
  <1>20. ImportsFirst'
    <2>1. \A i \in DOMAIN loaded : Exists(loaded[i]) /\ TextOf(loaded[i]) # NotRead
      BY DEF IInv, Lists, LoadedRead, Range
    <2> QED BY <1>1, <1>7, <2>1 DEF IInv, Lists, ImportsFirst, Kept
  <1>21. Called'
    BY <1>1 DEF Called
  <1> QED BY <1>13, <1>14, <1>15, <1>17, <1>18, <1>19, <1>20, <1>21 DEF IInv, Lists

-----------------------------------------------------------------------------
(* Theorems *)

LEMMA Initially == Init => IInv
  <1> SUFFICES ASSUME Init PROVE IInv
    OBVIOUS
  <1>1. call \in Path
    BY EntriesArePaths DEF Init, Path
  <1>2. <<>> \in Seq(Frame) /\ <<>> \in Seq(Path) /\ Len(<<>>) = 0 /\ DOMAIN <<>> = {}
    BY EmptySeq
  <1>3. PICK E \in SUBSET Files : disk \in [E -> {NotRead}]
    BY DEF Init
  <1>4. TypeOK
    BY <1>1, <1>2, <1>3 DEF Init, TypeOK
  <1>5. Lists
    BY <1>2 DEF Init, Lists, StackListed, Waiting, Covered, LoadedRead, EachPathOnce,
             ImportsFirst, IsInjective, Range
  <1>6. Called
    BY DEF Init, Called
  <1> QED BY <1>4, <1>5, <1>6 DEF IInv

LEMMA StepKeeps == IInv /\ [Next]_vars => IInv'
  <1> SUFFICES ASSUME IInv, [Next]_vars PROVE IInv'
    OBVIOUS
  <1>1. CASE FindCycle \/ SkipLoaded \/ ReadFails \/ NextModule \/ Finish
    BY <1>1, CallKeeps
  <1>2. CASE Read
    BY <1>2, ReadKeeps
  <1>3. CASE NextLine
    BY <1>3, NextLineKeeps
  <1>4. CASE AppendText
    BY <1>4, AppendTextKeeps
  <1>5. CASE Return
    BY <1>5, ReturnKeeps
  <1>6. CASE UNCHANGED vars
    <2>1. UNCHANGED <<disk, frames, stack, loaded, call, ret, err, result>>
      BY <1>6 DEF vars
    <2>2. Lists'
      BY <2>1, ListsStay DEF IInv
    <2>3. Called'
      BY <2>1 DEF IInv, Called, Awaits, Resolve, Exists
    <2>4. TypeOK'
      BY <2>1 DEF IInv, TypeOK, Exists, TextOf
    <2> QED BY <2>2, <2>3, <2>4 DEF IInv
  <1> QED BY <1>1, <1>2, <1>3, <1>4, <1>5, <1>6 DEF Next

LEMMA Invariant == Spec => []IInv
  BY Initially, StepKeeps, PTL DEF Spec

\* The variables keep their types: an activation has read its file and is
\* not beyond its last line.
THEOREM LoaderTypeCorrect == Spec => []TypeOK
  <1>1. IInv => TypeOK
    BY DEF IInv
  <1> QED BY Invariant, <1>1, PTL

\* Whatever files there are and however they are spelled, no path gets into
\* the program twice, and what is being loaded is not in it yet.
THEOREM NothingTwice == Spec => []EachPathOnce
  <1>1. IInv => EachPathOnce
    BY DEF IInv, Lists
  <1> QED BY Invariant, <1>1, PTL

\* Whatever a module imports is in the program before it.
THEOREM DependenciesFirst == Spec => []ImportsFirst
  <1>1. IInv => ImportsFirst
    BY DEF IInv, Lists
  <1> QED BY Invariant, <1>1, PTL

\* A path is on the stack because the one below it imports it, so that the
\* error of a cycle is given for nothing else.
THEOREM CyclesAreReal == Spec => []StackIsImportChain
  <1>1. ASSUME IInv
        PROVE  StackIsImportChain
    <2>1. /\ Len(frames) \in Nat /\ Len(stack) = Len(frames)
          /\ DOMAIN frames = 1 .. Len(frames) /\ DOMAIN stack = 1 .. Len(frames)
          /\ \A i \in 1 .. Len(frames) : frames[i] \in Frame /\ stack[i] = frames[i].path
      BY <1>1, Lengths DEF IInv, Lists
    <2>2. stack = [i \in DOMAIN frames |-> frames[i].path]
      <3>1. stack \in [1 .. Len(frames) -> Path]
        BY <1>1, <2>1, LenProperties DEF IInv, TypeOK
      <3> QED BY <2>1, <3>1
    <2>3. ASSUME NEW i \in 1 .. Len(frames), NEW q, Awaits(i, q)
          PROVE  q \in Imports(stack[i])
      <3>1. LET m == Head(frames[i].mods)
            IN  m \in Range(frames[i].mods) /\ Resolve(stack[i], m) = q
        <4>1. frames[i].mods \in Seq(Module) /\ frames[i].mods # <<>>
          BY <2>1, <2>3 DEF Frame, Awaits
        <4> QED BY <2>1, <2>3, <4>1, HeadOrTail DEF Awaits
      <3>2. /\ Range(frames[i].mods) \subseteq Wanted(stack[i], frames[i].line)
            /\ frames[i].line \in Nat /\ frames[i].line <= Len(TextOf(stack[i]))
            /\ TextOf(stack[i]) \in Seq(Line)
        BY <1>1, <2>1 DEF IInv, Lists, Covered, TypeOK, Frame, Exists, TextOf
      <3>3. Len(TextOf(stack[i])) \in Nat
        BY <3>2, LenProperties
      <3>4. 1 .. frames[i].line \subseteq 1 .. Len(TextOf(stack[i]))
        BY <3>2, <3>3
      <3>5. Wanted(stack[i], frames[i].line) \subseteq Wanted(stack[i], Len(TextOf(stack[i])))
        BY <3>4 DEF Wanted
      <3> QED BY <3>1, <3>2, <3>5 DEF Imports
    <2>4. ASSUME NEW i \in 2 .. Len(stack)
          PROVE  stack[i] \in Imports(stack[i - 1])
      <3>1. i - 1 \in 1 .. Len(frames) /\ i - 1 < Len(frames) /\ i - 1 + 1 = i
            /\ i \in 1 .. Len(frames)
        BY <2>1
      <3>2. Awaits(i - 1, stack[i])
        BY <1>1, <2>1, <3>1 DEF IInv, Lists, Waiting
      <3> QED BY <2>3, <3>1, <3>2
    <2>5. ASSUME call # None, stack # <<>>
          PROVE  call \in Imports(Last(stack))
      <3>1. stack \in Seq(Path) /\ frames \in Seq(Frame)
        BY <1>1 DEF IInv, TypeOK
      <3>2. Len(frames) \in 1 .. Len(frames) /\ frames # <<>> /\ Last(stack) = stack[Len(frames)]
        BY <2>1, <2>5, <3>1, EmptySeq DEF Last
      <3>3. Awaits(Len(frames), call)
        BY <1>1, <2>5, <3>2 DEF IInv, Called
      <3> QED BY <2>3, <3>2, <3>3
    <2> QED BY <2>2, <2>4, <2>5 DEF StackIsImportChain
  <1> QED BY Invariant, <1>1, PTL

-----------------------------------------------------------------------------
(* The files that paths name *)

Below == {ss \in Nat \X Nat : ss[1] < ss[2]}

\* Induction, with a set for what is to be shown.
LEMMA AllNumbers ==
    ASSUME NEW S \in SUBSET Nat, 0 \in S, \A n \in S : n + 1 \in S
    PROVE  S = Nat
  <1> SUFFICES ASSUME Nat \ S # {} PROVE FALSE
    OBVIOUS
  <1>1. IsWellFoundedOn(Below, Nat)
    BY NatLessThanWellFounded DEF Below, OpToRel
  <1>2. PICK m \in Nat \ S : \A n \in Nat \ S : ~(<<n, m>> \in Below)
    BY <1>1, WFMin
  <1>3. m # 0 /\ m - 1 \in Nat
    BY <1>2
  <1>4. m - 1 \in S
    <2> DEFINE k == m - 1
    <2>1. k \in Nat /\ k < m /\ m \in Nat
      BY <1>2, <1>3
    <2> HIDE DEF k
    <2>2. <<k, m>> \in Below
      BY <2>1 DEF Below
    <2>3. k \in S
      BY <1>2, <2>1, <2>2
    <2> QED BY <2>3 DEF k
  <1>5. (m - 1) + 1 = m
    BY <1>3
  <1> QED BY <1>2, <1>4, <1>5

\* The recursive function of FileOf, up to n.
Steps(p, n, g) ==
    /\ DOMAIN g = 0 .. n
    /\ g[0] = <<>>
    /\ \A i \in 1 .. n : g[i] = IF p[i] = Here THEN g[i - 1] ELSE Append(g[i - 1], p[i])

LEMMA StepsExist ==
    ASSUME NEW p, NEW n \in Nat
    PROVE  \E g : Steps(p, n, g)
  <1> DEFINE S == {k \in Nat : \E g : Steps(p, k, g)}
  <1>1. 0 \in S
    <2> DEFINE g == [i \in 0 .. 0 |-> <<>>]
    <2>1. Steps(p, 0, g)
      BY DEF Steps
    <2> HIDE DEF g
    <2> QED BY <2>1
  <1>2. ASSUME NEW k \in S
        PROVE  k + 1 \in S
    <2>1. PICK g : Steps(p, k, g)
      OBVIOUS
    <2> DEFINE x == IF p[k + 1] = Here THEN g[k] ELSE Append(g[k], p[k + 1])
               h == [i \in 0 .. k + 1 |-> IF i = k + 1 THEN x ELSE g[i]]
    <2>2. DOMAIN h = 0 .. k + 1 /\ h[0] = <<>> /\ h[k + 1] = x
      BY <2>1 DEF Steps
    <2>3. \A i \in 0 .. k : h[i] = g[i]
      OBVIOUS
    <2> HIDE DEF h
    <2>4. ASSUME NEW i \in 1 .. k + 1
          PROVE  h[i] = IF p[i] = Here THEN h[i - 1] ELSE Append(h[i - 1], p[i])
      <3>1. CASE i = k + 1
        <4>1. i - 1 = k /\ k \in 0 .. k
          BY <3>1
        <4>2. h[i - 1] = g[k]
          BY <2>3, <4>1
        <4> QED BY <2>2, <3>1, <4>2
      <3>2. CASE i # k + 1
        <4>1. i \in 1 .. k /\ i \in 0 .. k /\ i - 1 \in 0 .. k
          BY <3>2
        <4>2. g[i] = IF p[i] = Here THEN g[i - 1] ELSE Append(g[i - 1], p[i])
          BY <2>1, <4>1 DEF Steps
        <4> QED BY <2>3, <4>1, <4>2
      <3> QED BY <3>1, <3>2
    <2>5. Steps(p, k + 1, h)
      BY <2>2, <2>4 DEF Steps
    <2> QED BY <2>5
  <1> HIDE DEF S
  <1>3. S = Nat
    BY <1>1, <1>2, AllNumbers DEF S
  <1> QED BY <1>3 DEF S

LEMMA FileOfSteps ==
    ASSUME NEW A, NEW p \in Seq(A)
    PROVE  \E g : Steps(p, Len(p), g) /\ FileOf(p) = g[Len(p)]
  <1> DEFINE n == Len(p)
             Rec(f) == [i \in 0 .. n |-> IF i = 0 THEN <<>>
                                         ELSE IF p[i] = Here THEN f[i - 1]
                                         ELSE Append(f[i - 1], p[i])]
             r == CHOOSE f : f = Rec(f)
  <1>1. n \in Nat
    OBVIOUS
  <1> HIDE DEF n
  <1>2. PICK g : Steps(p, n, g)
    BY <1>1, StepsExist
  <1>3. \E f : f = Rec(f)
    <2> DEFINE f == [i \in 0 .. n |-> g[i]]
    <2>1. \A i \in 0 .. n : f[i] = IF i = 0 THEN <<>>
                                   ELSE IF p[i] = Here THEN f[i - 1]
                                   ELSE Append(f[i - 1], p[i])
      <3> TAKE i \in 0 .. n
      <3>1. i # 0 => i \in 1 .. n /\ i - 1 \in 0 .. n
        BY <1>1
      <3> QED BY <1>2, <3>1 DEF Steps
    <2>2. f = Rec(f)
      BY <2>1
    <2> HIDE DEF f
    <2> QED BY <2>2
  <1>4. r = Rec(r)
    BY <1>3
  <1>5. FileOf(p) = r[n]
    BY DEF FileOf, n
  <1> HIDE DEF r
  <1>6. DOMAIN r = 0 .. n /\ \A i \in 0 .. n : r[i] = IF i = 0 THEN <<>>
                                   ELSE IF p[i] = Here THEN r[i - 1]
                                   ELSE Append(r[i - 1], p[i])
    BY <1>4
  <1>7. Steps(p, n, r)
    <2>1. \A i \in 1 .. n : i \in 0 .. n /\ i # 0
      BY <1>1
    <2>2. 0 \in 0 .. n
      BY <1>1
    <2> QED BY <1>6, <2>1, <2>2 DEF Steps
  <1> QED BY <1>5, <1>7 DEF n

LEMMA FileOfEmpty == FileOf(<<>>) = <<>>
  <1>1. <<>> \in Seq({}) /\ Len(<<>>) = 0
    OBVIOUS
  <1>2. PICK g : Steps(<<>>, 0, g) /\ FileOf(<<>>) = g[0]
    BY <1>1, FileOfSteps
  <1> QED BY <1>2 DEF Steps

\* The file is found from the path but for its last part.
LEMMA FileOfAppend ==
    ASSUME NEW A, NEW p \in Seq(A), NEW c \in A
    PROVE  FileOf(Append(p, c)) = IF c = Here THEN FileOf(p) ELSE Append(FileOf(p), c)
  <1> DEFINE q == Append(p, c)
             n == Len(p)
  <1>1. /\ n \in Nat /\ q \in Seq(A) /\ Len(q) = n + 1 /\ q[n + 1] = c
        /\ \A i \in 1 .. n : q[i] = p[i]
    BY AppendProperties
  <1>2. PICK g : Steps(p, n, g) /\ FileOf(p) = g[n]
    BY FileOfSteps
  <1>3. PICK h : Steps(q, n + 1, h) /\ FileOf(q) = h[n + 1]
    BY <1>1, FileOfSteps
  <1> HIDE DEF q, n
  <1> DEFINE S == {i \in Nat : i <= n => h[i] = g[i]}
  <1>4. 0 \in S
    BY <1>2, <1>3 DEF Steps
  <1>5. ASSUME NEW i \in S
        PROVE  i + 1 \in S
    <2> SUFFICES ASSUME i + 1 <= n PROVE h[i + 1] = g[i + 1]
      OBVIOUS
    <2> DEFINE j == i + 1
    <2>1. j \in 1 .. n /\ j \in 1 .. n + 1 /\ j - 1 = i /\ h[i] = g[i]
      BY <1>1
    <2> HIDE DEF j
    <2>2. g[j] = IF p[j] = Here THEN g[j - 1] ELSE Append(g[j - 1], p[j])
      BY <1>2, <2>1 DEF Steps
    <2>3. h[j] = IF q[j] = Here THEN h[j - 1] ELSE Append(h[j - 1], q[j])
      BY <1>3, <2>1 DEF Steps
    <2>4. q[j] = p[j]
      BY <1>1, <2>1
    <2> QED BY <2>1, <2>2, <2>3, <2>4 DEF j
  <1> HIDE DEF S
  <1>6. S = Nat
    BY <1>4, <1>5, AllNumbers DEF S
  <1>7. h[n] = g[n]
    BY <1>1, <1>6 DEF S
  <1>8. n + 1 \in 1 .. n + 1 /\ (n + 1) - 1 = n
    BY <1>1
  <1>9. h[n + 1] = IF q[n + 1] = Here THEN h[n] ELSE Append(h[n], q[n + 1])
    BY <1>3, <1>8 DEF Steps
  <1> QED BY <1>1, <1>2, <1>3, <1>7, <1>9 DEF q

\* A path that does not end is as long as its file but for its ".", of which there
\* are names of the file and "." only.
LEMMA FileOfFacts ==
    ASSUME NEW A, NEW p \in Seq(A)
    PROVE  /\ FileOf(p) \in Seq(A \ {Here}) /\ Len(FileOf(p)) <= Len(p)
           /\ Range(p) \subseteq Range(FileOf(p)) \cup {Here}
  <1> DEFINE P(q) == /\ FileOf(q) \in Seq(A \ {Here}) /\ Len(FileOf(q)) <= Len(q)
                     /\ Range(q) \subseteq Range(FileOf(q)) \cup {Here}
             S == {n \in Nat : \A q \in Seq(A) : Len(q) = n => P(q)}
  <1>1. 0 \in S
    <2> SUFFICES ASSUME NEW q \in Seq(A), Len(q) = 0 PROVE P(q)
      OBVIOUS
    <2>1. q = <<>>
      BY EmptySeq
    <2>2. FileOf(q) = q
      BY <2>1, FileOfEmpty
    <2>3. FileOf(q) \in Seq(A \ {Here})
      <3>1. FileOf(q) = <<>>
        BY <2>1, <2>2
      <3>2. \A T : <<>> \in Seq(T)
        OBVIOUS
      <3> QED BY <3>1, <3>2
    <2>4. Len(FileOf(q)) <= Len(q)
      BY <2>2
    <2>5. Range(q) \subseteq Range(FileOf(q)) \cup {Here}
      BY <2>2
    <2> QED BY <2>3, <2>4, <2>5
  <1>2. ASSUME NEW n \in S
        PROVE  n + 1 \in S
    <2> SUFFICES ASSUME NEW q \in Seq(A), Len(q) = n + 1 PROVE P(q)
      OBVIOUS
    <2>1. q # <<>>
      BY EmptySeq
    <2>2. PICK t \in Seq(A), c \in A : q = Append(t, c)
      BY <2>1, SequenceEmptyOrAppend
    <2>3. Len(t) = n
      BY <2>2, AppendProperties
    <2>4. P(t)
      BY <2>3
    <2>5. FileOf(q) = IF c = Here THEN FileOf(t) ELSE Append(FileOf(t), c)
      BY <2>2, FileOfAppend
    <2>6. Range(q) = Range(t) \cup {c}
      BY <2>2, RangeAppend
    <2>7. CASE c = Here
      BY <2>3, <2>4, <2>5, <2>6, <2>7
    <2>8. CASE c # Here
      <3> DEFINE f == FileOf(t)
      <3>1. f \in Seq(A \ {Here}) /\ Len(f) <= n /\ Range(t) \subseteq Range(f) \cup {Here} /\ c \in A \ {Here}
        BY <2>3, <2>4, <2>8
      <3> HIDE DEF f
      <3>2. Append(f, c) \in Seq(A \ {Here}) /\ Len(Append(f, c)) = Len(f) + 1 /\ Len(f) \in Nat
        BY <3>1, AppendProperties
      <3>3. Range(Append(f, c)) = Range(f) \cup {c}
        BY <3>1, RangeAppend
      <3>4. Len(Append(f, c)) <= n + 1
        BY <3>1, <3>2
      <3> QED BY <2>5, <2>6, <2>8, <3>1, <3>2, <3>3, <3>4 DEF f
    <2> QED BY <2>7, <2>8
  <1> HIDE DEF S
  <1>3. S = Nat
    BY <1>1, <1>2, AllNumbers DEF S
  <1> HIDE DEF P
  <1>4. P(p)
    BY <1>3 DEF S
  <1> QED BY <1>4 DEF P

\* The file of a module in a directory.
LEMMA FileOfConcat ==
    ASSUME NEW A, NEW d \in Seq(A), NEW m \in Seq(A \ {Here})
    PROVE  FileOf(d \o m) = FileOf(d) \o m
  <1> DEFINE B == A \ {Here}
             S == {n \in Nat : \A q \in Seq(B) : Len(q) = n => FileOf(d \o q) = FileOf(d) \o q}
  <1>0. FileOf(d) \in Seq(A)
    BY FileOfFacts, SeqMonotonic
  <1>1. 0 \in S
    <2> SUFFICES ASSUME NEW q \in Seq(B), Len(q) = 0 PROVE FileOf(d \o q) = FileOf(d) \o q
      OBVIOUS
    <2>1. q = <<>>
      BY EmptySeq
    <2> QED BY <1>0, <2>1, ConcatEmptySeq
  <1>2. ASSUME NEW n \in S
        PROVE  n + 1 \in S
    <2> SUFFICES ASSUME NEW q \in Seq(B), Len(q) = n + 1 PROVE FileOf(d \o q) = FileOf(d) \o q
      OBVIOUS
    <2>1. q # <<>>
      BY EmptySeq
    <2>2. PICK t \in Seq(B), c \in B : q = Append(t, c)
      BY <2>1, SequenceEmptyOrAppend
    <2>3. Len(t) = n /\ t \in Seq(A) /\ c \in A /\ c # Here
      BY <2>2, AppendProperties, SeqMonotonic
    <2>4. FileOf(d \o t) = FileOf(d) \o t
      BY <2>3
    <2> HIDE DEF S, B
    <2>5. ASSUME NEW u \in Seq(A)
          PROVE  u \o Append(t, c) = Append(u \o t, c) /\ u \o t \in Seq(A)
      <3>1. <<c>> \in Seq(A) /\ Append(t, c) = t \o <<c>>
        BY <2>3, AppendIsConcat
      <3>2. u \o t \in Seq(A) /\ Append(u \o t, c) = (u \o t) \o <<c>>
        BY <2>3, ConcatProperties, AppendIsConcat
      <3>3. u \o (t \o <<c>>) = (u \o t) \o <<c>>
        BY <2>3, <3>1, ConcatAssociative
      <3> QED BY <3>1, <3>2, <3>3
    <2>6. FileOf(Append(d \o t, c)) = Append(FileOf(d \o t), c)
      BY <2>3, <2>5, FileOfAppend
    <2> QED BY <1>0, <2>2, <2>4, <2>5, <2>6
  <1> HIDE DEF S
  <1>3. S = Nat
    BY <1>1, <1>2, AllNumbers DEF S
  <1> QED BY <1>3 DEF S

-----------------------------------------------------------------------------
(* The paths the loader can come to *)

\* A path has no more "." in it than an entry is long.
Spelled(p) == \E e \in Entries : Len(p) <= Len(FileOf(p)) + Len(e)

LEMMA ResolveSpelled ==
    ASSUME NEW p \in Path, NEW m \in Module, Spelled(p), Resolve(p, m) # None
    PROVE  Spelled(Resolve(p, m))
  <1> DEFINE A == Names \cup {Here}
  <1>1. /\ p \in Seq(A) /\ p # <<>> /\ m \in Seq(A)
        /\ m \in Seq(A \ {Here}) /\ Len(m) \in Nat
    <2>1. Names \subseteq A \ {Here}
      BY NamesAreNames
    <2> QED BY <2>1, SeqMonotonic, LenProperties DEF Path, Module
  <1>2. PICK e \in Entries : Len(p) <= Len(FileOf(p)) + Len(e)
    BY DEF Spelled
  <1>3. e \in Seq(A) /\ e # <<>> /\ Len(e) \in Nat \ {0}
    BY EntriesArePaths, EmptySeq
  <1>4. ASSUME NEW d \in Seq(A), Len(d) <= Len(FileOf(d)) + Len(e)
        PROVE  Spelled(d \o m)
    <2>1. FileOf(d \o m) = FileOf(d) \o m
      BY <1>1, <1>4, FileOfConcat
    <2>2. FileOf(d) \in Seq(A \ {Here})
      BY <1>4, FileOfFacts
    <2>3. Len(d \o m) = Len(d) + Len(m) /\ Len(d) \in Nat
      BY <1>1, <1>4, ConcatProperties, LenProperties
    <2>4. Len(FileOf(d) \o m) = Len(FileOf(d)) + Len(m) /\ Len(FileOf(d)) \in Nat
      BY <1>1, <2>2, ConcatProperties, LenProperties
    <2>5. Len(d \o m) <= Len(FileOf(d \o m)) + Len(e)
      BY <1>1, <1>3, <1>4, <2>1, <2>3, <2>4
    <2> QED BY <2>5 DEF Spelled
  <1>5. Len(Front(p)) <= Len(FileOf(Front(p))) + Len(e) /\ Front(p) \in Seq(A)
    <2>1. PICK t \in Seq(A), c \in A : p = Append(t, c)
      BY <1>1, SequenceEmptyOrAppend
    <2>2. Front(p) = t
      <3>1. Front(p) \in Seq(A) /\ Len(Front(p)) = Len(p) - 1
            /\ \A i \in 1 .. Len(p) - 1 : Front(p)[i] = p[i]
        BY <1>1, FrontProperties
      <3>2. Len(p) = Len(t) + 1 /\ Len(t) \in Nat /\ \A i \in 1 .. Len(t) : p[i] = t[i]
        BY <2>1, AppendProperties, LenProperties
      <3>3. Len(Front(p)) = Len(t) /\ \A i \in 1 .. Len(t) : Front(p)[i] = t[i]
        BY <3>1, <3>2
      <3> QED BY <3>1, <3>3, SeqEqual
    <2>3. FileOf(p) = IF c = Here THEN FileOf(t) ELSE Append(FileOf(t), c)
      BY <2>1, FileOfAppend
    <2>4. FileOf(t) \in Seq(A)
      <3>1. FileOf(t) \in Seq(A \ {Here}) /\ A \ {Here} \subseteq A
        BY FileOfFacts
      <3> QED BY <3>1, SeqMonotonic
    <2>5. Len(FileOf(p)) <= Len(FileOf(t)) + 1 /\ Len(FileOf(t)) \in Nat /\ Len(FileOf(p)) \in Nat
      <3>1. Len(Append(FileOf(t), c)) = Len(FileOf(t)) + 1 /\ Len(FileOf(t)) \in Nat
        BY <2>4, AppendProperties, LenProperties
      <3> QED BY <2>3, <3>1
    <2>6. Len(p) = Len(t) + 1 /\ Len(t) \in Nat
      BY <2>1, AppendProperties, LenProperties
    <2>7. Len(t) <= Len(FileOf(t)) + Len(e)
      BY <1>2, <1>3, <2>5, <2>6
    <2> QED BY <2>2, <2>7
  <1>6. /\ <<Here>> \in Seq(A) /\ Len(<<Here>>) <= Len(FileOf(<<Here>>)) + Len(e)
    <2>1. <<>> \in Seq(A) /\ Here \in A /\ Append(<<>>, Here) = <<Here>> /\ <<Here>> \in Seq(A) /\ Len(<<Here>>) = 1
      OBVIOUS
    <2>2. FileOf(<<Here>>) = <<>>
      BY <2>1, FileOfAppend, FileOfEmpty
    <2>3. Len(<<>>) = 0
      OBVIOUS
    <2> QED BY <1>3, <2>1, <2>2, <2>3
  <1> QED BY <1>4, <1>5, <1>6 DEF Resolve, Dirname

\* There are finitely many functions from a finite set to a finite set.
LEMMA FinitelyManyFunctions ==
    ASSUME NEW D, NEW C, IsFiniteSet(D), IsFiniteSet(C)
    PROVE  IsFiniteSet([D -> C])
  <1> DEFINE F == [f \in [D -> C] |-> {<<x, f[x]>> : x \in D}]
  <1>1. IsFiniteSet(SUBSET (D \X C))
    BY FS_Product, FS_SUBSET
  <1>2. F \in [[D -> C] -> SUBSET (D \X C)]
    OBVIOUS
  <1>3. ASSUME NEW f \in [D -> C], NEW g \in [D -> C], F[f] = F[g]
        PROVE  f = g
    <2>1. \A x \in D : f[x] = g[x]
      <3> TAKE x \in D
      <3>1. <<x, f[x]>> \in F[g]
        BY <1>3
      <3> QED BY <3>1
    <2> QED BY <2>1
  <1> HIDE DEF F
  <1>4. F \in Injection([D -> C], SUBSET (D \X C))
    BY <1>2, <1>3 DEF Injection, IsInjective
  <1> QED BY <1>1, <1>4, FS_Injection

LEMMA SpellingsAreFinite == IsFiniteSet(Spellings)
  <1> DEFINE Sequences(f, e) == {[1 .. n -> Range(f) \cup {Here}] : n \in 1 .. Len(f) + Len(e)}
             T(f, e) == {p \in UNION Sequences(f, e) : FileOf(p) = f}
  <1>1. ASSUME NEW f \in Files, NEW e \in Entries
        PROVE  IsFiniteSet(T(f, e))
    <2>1. /\ f \in Seq(Names) /\ DOMAIN f = 1 .. Len(f) /\ Len(f) \in Nat
          /\ Len(e) \in Nat
      BY FilesAreFiles, EntriesArePaths, LenProperties
    <2>2. IsFiniteSet(Range(f) \cup {Here})
      <3>1. IsFiniteSet(DOMAIN f)
        BY <2>1, FS_Interval
      <3>2. f \in Surjection(DOMAIN f, Range(f))
        BY <2>1, LenProperties DEF Surjection, Range
      <3> QED BY <3>1, <3>2, FS_Surjection, FS_AddElement
    <2>3. IsFiniteSet(1 .. Len(f) + Len(e))
      BY <2>1, FS_Interval
    <2> DEFINE I == 1 .. Len(f) + Len(e)
               C == Range(f) \cup {Here}
               g == [n \in I |-> [1 .. n -> C]]
               Q == {[1 .. n -> C] : n \in I}
    <2>4. g \in Surjection(I, Q)
      BY DEF Surjection
    <2>5. \A n \in I : IsFiniteSet([1 .. n -> C])
      <3> TAKE n \in I
      <3>1. IsFiniteSet(1 .. n)
        BY <2>1, FS_Interval
      <3> HIDE DEF C
      <3> QED BY <2>2, <3>1, FinitelyManyFunctions DEF C
    <2> HIDE DEF g, C
    <2>6. IsFiniteSet(Q)
      BY <2>3, <2>4, FS_Surjection
    <2>7. \A S \in Q : IsFiniteSet(S)
      BY <2>5
    <2>8. IsFiniteSet(UNION Q)
      BY <2>6, <2>7, FS_UNION
    <2>9. T(f, e) \subseteq UNION Q
      BY DEF C
    <2> QED BY <2>8, <2>9, FS_Subset
  <1> HIDE DEF T
  <1> DEFINE X == Files \X Entries
             h == [x \in X |-> T(x[1], x[2])]
             P == {T(f, e) : f \in Files, e \in Entries}
  <1>2. IsFiniteSet(X)
    BY DiskIsFinite, FS_Product
  <1>3. h \in Surjection(X, P)
    <2>1. h \in [X -> P]
      OBVIOUS
    <2>2. ASSUME NEW t \in P
          PROVE  \E x \in X : h[x] = t
      <3>1. PICK f \in Files, e \in Entries : t = T(f, e)
        OBVIOUS
      <3>2. <<f, e>> \in X /\ h[<<f, e>>] = T(f, e)
        OBVIOUS
      <3> QED BY <3>1, <3>2
    <2> QED BY <2>1, <2>2 DEF Surjection
  <1> HIDE DEF h
  <1>4. IsFiniteSet(P)
    BY <1>2, <1>3, FS_Surjection
  <1>5. \A S \in P : IsFiniteSet(S)
    BY <1>1
  <1>6. IsFiniteSet(UNION P)
    <2> HIDE DEF P
    <2> QED BY <1>4, <1>5, FS_UNION
  <1>7. Spellings = UNION P
    BY DEF Spellings, T
  <1> QED BY <1>6, <1>7

LEMMA SpelledIsASpelling ==
    ASSUME NEW p \in Path, Spelled(p), FileOf(p) \in Files
    PROVE  p \in Spellings
  <1> DEFINE A == Names \cup {Here}
             f == FileOf(p)
  <1>1. p \in Seq(A) /\ p # <<>> /\ Len(p) \in Nat \ {0}
    BY EmptySeq DEF Path
  <1>2. Range(p) \subseteq Range(f) \cup {Here}
    BY <1>1, FileOfFacts
  <1>3. PICK e \in Entries : Len(p) <= Len(f) + Len(e)
    BY DEF Spelled
  <1>4. Len(f) \in Nat /\ Len(e) \in Nat
    BY FilesAreFiles, EntriesArePaths, LenProperties
  <1>5. Len(p) \in 1 .. Len(f) + Len(e)
    BY <1>1, <1>3, <1>4
  <1>6. p \in [1 .. Len(p) -> Range(p)]
    BY <1>1, LenProperties DEF Range
  <1>7. p \in [1 .. Len(p) -> Range(f) \cup {Here}]
    BY <1>2, <1>6
  <1> HIDE DEF f
  <1>8. p \in UNION {[1 .. n -> Range(f) \cup {Here}] : n \in 1 .. Len(f) + Len(e)}
    BY <1>5, <1>7
  <1>9. f \in Files /\ FileOf(p) = f
    BY DEF f
  <1> DEFINE W(g, d) == {q \in UNION {[1 .. n -> Range(g) \cup {Here}] : n \in 1 .. Len(g) + Len(d)} :
                            FileOf(q) = g}
  <1>10. p \in W(f, e)
    BY <1>8, <1>9
  <1>11. Spellings = UNION {W(g, d) : g \in Files, d \in Entries}
    BY DEF Spellings
  <1> HIDE DEF W
  <1> QED BY <1>9, <1>10, <1>11
-----------------------------------------------------------------------------
(* What is left to do *)

AllSpelled == \A p \in Range(stack) \cup Range(loaded) \cup ({call} \ {None}) : Spelled(p)

\* After the result there is nothing to do.
Ended == result # "none" => frames = <<>> /\ call = None /\ ret # "none"

EInv == IInv /\ AllSpelled /\ Ended

LEMMA EndInit == Init => EInv
  <1> SUFFICES ASSUME Init PROVE AllSpelled /\ Ended
    BY Initially DEF EInv
  <1>1. Range(stack) = {} /\ Range(loaded) = {} /\ call \in Entries
    BY DEF Init, Range
  <1>2. call \in Seq(Names \cup {Here})
    BY <1>1, EntriesArePaths
  <1>3. FileOf(call) \in Seq((Names \cup {Here}) \ {Here})
    BY <1>2, FileOfFacts
  <1>4. Len(call) \in Nat /\ Len(FileOf(call)) \in Nat
    BY <1>2, <1>3, LenProperties
  <1>5. Len(call) <= Len(FileOf(call)) + Len(call)
    BY <1>4
  <1>6. Spelled(call)
    BY <1>1, <1>5 DEF Spelled
  <1> QED BY <1>1, <1>6 DEF AllSpelled, Ended, Init

\* What a step does to the paths that are known.
LEMMA KnownPaths ==
    ASSUME IInv, Next
    PROVE  /\ Range(stack)' \cup Range(loaded)' \subseteq Range(stack) \cup Range(loaded) \cup ({call} \ {None})
           /\ \/ call' \in {call, None}
              \/ \E p \in Range(stack), m \in Module : p \in Path /\ call' = Resolve(p, m)
           /\ AppendText => Range(stack)' \cup Range(loaded)' = Range(stack) \cup Range(loaded)
           /\ Read => /\ Range(stack)' \cup Range(loaded)' = Range(stack) \cup Range(loaded) \cup {call}
                      /\ call \notin Range(stack) \cup Range(loaded)
  <1>0. TypeOK /\ StackListed
    BY DEF IInv, Lists
  <1>1. stack \in Seq(Path) /\ loaded \in Seq(Path) /\ frames \in Seq(Frame)
    BY <1>0 DEF TypeOK
  <1>2. ASSUME frames # <<>>
        PROVE  /\ Top.path \in Path /\ Top.path \in Range(stack)
               /\ Range(stack) = Range(Front(stack)) \cup {Top.path}
    <2>1. /\ stack # <<>> /\ Last(stack) = Top.path /\ Top \in Frame
          /\ Front(stack) \in Seq(Path) /\ Len(Front(stack)) = Len(frames) - 1
          /\ \A i \in 1 .. Len(frames) - 1 : Front(stack)[i] = stack[i]
          /\ Len(frames) \in Nat \ {0} /\ Len(stack) = Len(frames)
      BY <1>0, <1>2, OnTop, Lengths
    <2>2. stack[Len(frames)] = Top.path
      BY <2>1, <1>1 DEF Last
    <2>3. Range(stack) = {stack[i] : i \in 1 .. Len(frames)}
      BY <1>1, <2>1, LenProperties DEF Range
    <2>4. Range(Front(stack)) = {stack[i] : i \in 1 .. Len(frames) - 1}
      BY <2>1, LenProperties DEF Range
    <2>5. 1 .. Len(frames) = 1 .. Len(frames) - 1 \cup {Len(frames)}
      BY <2>1
    <2>6. Range(stack) = Range(Front(stack)) \cup {Top.path}
      BY <2>2, <2>3, <2>4, <2>5
    <2> QED BY <2>1, <2>6 DEF Frame
  <1>3. CASE FindCycle \/ SkipLoaded \/ ReadFails \/ Finish
    <2>1. UNCHANGED <<stack, loaded>> /\ call' \in {call, None}
      BY <1>3 DEF FindCycle, SkipLoaded, ReadFails, Finish, Fail
    <2>2. ~AppendText /\ ~Read
      BY <1>3 DEF FindCycle, SkipLoaded, ReadFails, Finish, AppendText, Read, InProgress, MayRead, Fail
    <2> QED BY <2>1, <2>2
  <1>4. CASE Read
    <2>1. call # None /\ call \notin Range(stack) \cup Range(loaded)
      BY <1>4 DEF Read, MayRead
    <2>2. stack' = Append(stack, call) /\ loaded' = loaded /\ call' = None /\ call \in Path
      BY <1>0, <1>4, <2>1 DEF Read, TypeOK
    <2>3. Range(stack') = Range(stack) \cup {call}
      BY <1>1, <2>2, RangeAppend
    <2>4. ~AppendText
      BY <2>1 DEF AppendText, InProgress
    <2> QED BY <2>1, <2>2, <2>3, <2>4
  <1>5. CASE NextLine
    <2>1. frames # <<>> /\ loaded' = loaded /\ call' \in {call, None} /\ stack' \in {stack, Front(stack)}
      BY <1>5 DEF NextLine, InProgress, Leave, Fail
    <2>2. ~AppendText /\ ~Read
      BY <1>5, <1>0 DEF NextLine, AppendText, Read, InProgress, MayRead
    <2> QED BY <1>2, <2>1, <2>2
  <1>6. CASE NextModule
    <2>1. frames # <<>> /\ UNCHANGED <<stack, loaded>>
      BY <1>6 DEF NextModule, InProgress, Fail
    <2>2. call' = None \/ call' = Resolve(Top.path, Head(Top.mods))
      BY <1>6 DEF NextModule, Fail
    <2>3. Top.mods \in Seq(Module) /\ Top.mods # <<>>
      BY <1>0, <1>6, <2>1, OnTop DEF Frame, NextModule
    <2>4. Head(Top.mods) \in Module
      BY <2>3
    <2>5. ~AppendText /\ ~Read
      BY <1>6 DEF NextModule, AppendText, Read, InProgress, MayRead
    <2> QED BY <1>2, <2>1, <2>2, <2>4, <2>5
  <1>7. CASE AppendText
    <2>1. frames # <<>> /\ loaded' = Append(loaded, Top.path) /\ stack' = Front(stack) /\ call' = call
      BY <1>7 DEF AppendText, InProgress, Leave
    <2>2. Range(loaded') = Range(loaded) \cup {Top.path}
      BY <1>1, <1>2, <2>1, RangeAppend
    <2>3. ~Read
      BY <1>7 DEF AppendText, Read, InProgress, MayRead
    <2> QED BY <1>2, <2>1, <2>2, <2>3
  <1>8. CASE Return
    <2>1. frames # <<>> /\ loaded' = loaded /\ call' = call /\ stack' \in {stack, Front(stack)}
      BY <1>8 DEF Return, Leave
    <2>2. ~AppendText /\ ~Read
      BY <1>8 DEF Return, AppendText, Read, InProgress, MayRead, IInv, Called
    <2> QED BY <1>2, <2>1, <2>2
  <1> QED BY <1>3, <1>4, <1>5, <1>6, <1>7, <1>8 DEF Next

LEMMA EndKeeps == EInv /\ [Next]_vars => EInv'
  <1> SUFFICES ASSUME EInv, [Next]_vars PROVE AllSpelled' /\ Ended'
    BY StepKeeps DEF EInv
  <1>1. CASE UNCHANGED vars
    BY <1>1 DEF vars, EInv, AllSpelled, Ended
  <1>2. CASE Next
    <2>1. AllSpelled'
      <3> DEFINE Known == Range(stack) \cup Range(loaded)
      <3>1. Known' \subseteq Known \cup ({call} \ {None})
        BY <1>2, KnownPaths DEF EInv
      <3>2. \A p \in Known \cup ({call} \ {None}) : Spelled(p)
        BY DEF EInv, AllSpelled
      <3>3. \A p \in Known' : Spelled(p)
        BY <3>1, <3>2
      <3>4. call' # None => Spelled(call')
        <4>1. CASE call' \in {call, None}
          BY <3>2, <4>1
        <4>2. CASE \E p \in Range(stack), m \in Module : p \in Path /\ call' = Resolve(p, m)
          BY <3>2, <4>2, ResolveSpelled
        <4> QED BY <1>2, <4>1, <4>2, KnownPaths DEF EInv
      <3> QED BY <3>3, <3>4 DEF AllSpelled
    <2>2. Ended'
      BY <1>2 DEF Next, EInv, Ended, FindCycle, SkipLoaded, Read, ReadFails, NextLine, NextModule,
         AppendText, Return, Finish, InProgress, MayRead, Fail, IInv, Called
    <2> QED BY <2>1, <2>2
  <1> QED BY <1>1, <1>2

LEMMA EndInvariant == Spec => []EInv
  BY EndInit, EndKeeps, PTL DEF Spec

\* The measure is five natural numbers.
LEMMA PartsAreNat ==
    ASSUME EInv
    PROVE  /\ PathsLeft \in Nat /\ (ret # "fail" => PathsLeft > 0)
           /\ Len(frames) \in Nat /\ LinesLeft \in Nat /\ ModsLeft \in Nat /\ Stage \in Nat
           /\ Cardinality(Readable) \in Nat /\ IsFiniteSet(Readable)
  <1>0. TypeOK /\ StackListed
    BY DEF EInv, IInv, Lists
  <1>1. IsFiniteSet(Readable) /\ Cardinality(Readable) \in Nat
    <2>1. Readable \in SUBSET Spellings
      BY DEF Readable
    <2> QED BY <2>1, SpellingsAreFinite, FS_Subset, FS_CardinalityType
  <1>2. PathsLeft \in Nat /\ (ret # "fail" => PathsLeft > 0)
    BY <1>1 DEF PathsLeft
  <1>3. Len(frames) \in Nat
    BY <1>0, Lengths
  <1>4. frames # <<>> => LinesLeft \in Nat /\ ModsLeft \in Nat
    <2> SUFFICES ASSUME frames # <<>> PROVE LinesLeft \in Nat /\ ModsLeft \in Nat
      OBVIOUS
    <2>1. Top \in Frame /\ Top = frames[Len(frames)] /\ Len(frames) \in Nat \ {0}
      BY <1>0, OnTop
    <2>2. Len(frames) \in DOMAIN frames
      BY <1>0, <2>1, Lengths
    <2>3. /\ Exists(Top.path) /\ TextOf(Top.path) # NotRead /\ Top.line <= Len(TextOf(Top.path))
      BY <1>0, <2>1, <2>2 DEF TypeOK
    <2>4. TextOf(Top.path) \in Seq(Line)
      BY <1>0, <2>3 DEF TypeOK, Exists, TextOf
    <2>5. Top.line \in Nat /\ Top.mods \in Seq(Module)
      BY <2>1 DEF Frame
    <2>6. Len(TextOf(Top.path)) \in Nat /\ Len(Top.mods) \in Nat
      BY <2>4, <2>5, LenProperties
    <2> QED BY <2>3, <2>5, <2>6 DEF LinesLeft, ModsLeft
  <1>5. frames = <<>> => LinesLeft \in Nat /\ ModsLeft \in Nat
    BY DEF LinesLeft, ModsLeft
  <1>6. Stage \in Nat
    BY DEF Stage
  <1> QED BY <1>1, <1>2, <1>3, <1>4, <1>5, <1>6

\* The first of the numbers that differs decides.
LEMMA FirstDecides ==
    ASSUME NEW t1, NEW t2, NEW t3, NEW t4, NEW t5,
           NEW u1, NEW u2, NEW u3, NEW u4, NEW u5,
           \/ t1 < u1
           \/ t1 = u1 /\ t2 < u2
           \/ t1 = u1 /\ t2 = u2 /\ t3 < u3
           \/ t1 = u1 /\ t2 = u2 /\ t3 = u3 /\ t4 < u4
           \/ t1 = u1 /\ t2 = u2 /\ t3 = u3 /\ t4 = u4 /\ t5 < u5
    PROVE  Fewer(<<t1, t2, t3, t4, t5>>, <<u1, u2, u3, u4, u5>>)
  <1> DEFINE t == <<t1, t2, t3, t4, t5>>
             u == <<u1, u2, u3, u4, u5>>
  <1>1. /\ t[1] = t1 /\ t[2] = t2 /\ t[3] = t3 /\ t[4] = t4 /\ t[5] = t5
        /\ u[1] = u1 /\ u[2] = u2 /\ u[3] = u3 /\ u[4] = u4 /\ u[5] = u5
    OBVIOUS
  <1> HIDE DEF t, u
  <1>2. /\ 1 .. 1 - 1 = {} /\ 1 .. 2 - 1 = {1} /\ 1 .. 3 - 1 = {1, 2}
        /\ 1 .. 4 - 1 = {1, 2, 3} /\ 1 .. 5 - 1 = {1, 2, 3, 4}
        /\ 1 .. 5 = {1, 2, 3, 4, 5}
    OBVIOUS
  <1>3. ASSUME NEW i \in 1 .. 5, t[i] < u[i], \A j \in 1 .. i - 1 : t[j] = u[j]
        PROVE  Fewer(t, u)
    BY <1>3 DEF Fewer
  <1>4. t1 < u1 => Fewer(t, u)
    BY <1>1, <1>2, <1>3
  <1>5. t1 = u1 /\ t2 < u2 => Fewer(t, u)
    BY <1>1, <1>2, <1>3
  <1>6. t1 = u1 /\ t2 = u2 /\ t3 < u3 => Fewer(t, u)
    BY <1>1, <1>2, <1>3
  <1>7. t1 = u1 /\ t2 = u2 /\ t3 = u3 /\ t4 < u4 => Fewer(t, u)
    BY <1>1, <1>2, <1>3
  <1>8. t1 = u1 /\ t2 = u2 /\ t3 = u3 /\ t4 = u4 /\ t5 < u5 => Fewer(t, u)
    BY <1>1, <1>2, <1>3
  <1>9. Fewer(t, u)
    BY <1>4, <1>5, <1>6, <1>7, <1>8
  <1> QED BY <1>9 DEF t, u

LEMMA SameLength ==
    ASSUME NEW m \in Nat, NEW n \in Nat, 1 .. m = 1 .. n
    PROVE  m = n
  <1>1. m \in 1 .. n \/ m = 0
    OBVIOUS
  <1>2. n \in 1 .. m \/ n = 0
    OBVIOUS
  <1>3. 1 .. 0 = {}
    OBVIOUS
  <1> QED BY <1>1, <1>2, <1>3

Shorter ==
    \/ PathsLeft' < PathsLeft
    \/ PathsLeft' = PathsLeft /\ Len(frames)' < Len(frames)
    \/ PathsLeft' = PathsLeft /\ Len(frames)' = Len(frames) /\ LinesLeft' < LinesLeft
    \/ /\ PathsLeft' = PathsLeft /\ Len(frames)' = Len(frames) /\ LinesLeft' = LinesLeft
       /\ ModsLeft' < ModsLeft
    \/ /\ PathsLeft' = PathsLeft /\ Len(frames)' = Len(frames) /\ LinesLeft' = LinesLeft
       /\ ModsLeft' = ModsLeft /\ Stage' < Stage

\* Everything but the call and the answer to it stays.
LEMMA OnlyStage ==
    ASSUME UNCHANGED <<disk, frames, stack, loaded>>, ret # "fail" <=> ret' # "fail", Stage' < Stage
    PROVE  Shorter
  BY DEF Shorter, PathsLeft, Readable, LinesLeft, ModsLeft, Top, TextOf

LEMMA StepShortens ==
    ASSUME EInv, Next
    PROVE  Shorter
  <1>0. TypeOK /\ StackListed /\ Ended /\ (call # None => ret = "none")
    BY DEF EInv, IInv, Lists, Called
  <1>1. EInv'
    BY EndKeeps
  <1>2. ASSUME ret # "fail", ret' = "fail"
        PROVE  Shorter
    <2>1. PathsLeft' = 0
      BY <1>2 DEF PathsLeft
    <2>2. PathsLeft \in Nat /\ PathsLeft > 0
      BY <1>2, PartsAreNat
    <2> QED BY <2>1, <2>2 DEF Shorter
  <1>3. CASE FindCycle \/ ReadFails
    BY <1>0, <1>2, <1>3 DEF FindCycle, ReadFails, MayRead, Fail
  <1>4. CASE SkipLoaded
    <2>1. result = "none" /\ result' = "none" /\ ret = "none" /\ ret' = "ok" /\ call # None
      BY <1>0, <1>4 DEF SkipLoaded, Ended
    <2>2. Stage = 2 /\ Stage' = 1
      BY <2>1 DEF Stage
    <2> QED BY <1>4, <2>1, <2>2, OnlyStage DEF SkipLoaded
  <1>5. CASE Read
    <2>1. call # None /\ Exists(call) /\ call \in Path /\ ret = "none" /\ ret' = "none"
      BY <1>0, <1>5 DEF Read, MayRead, TypeOK
    <2>2. FileOf(call) \in Files
      BY <1>0, <2>1 DEF Exists, TypeOK
    <2>3. call \in Readable
      <3>1. Spelled(call)
        BY <2>1 DEF EInv, AllSpelled
      <3>2. call \notin Range(stack) \cup Range(loaded)
        BY <1>5 DEF Read, MayRead
      <3> QED BY <2>1, <2>2, <3>1, <3>2, SpelledIsASpelling DEF Readable
    <2>4. Readable' = Readable \ {call}
      BY <1>5, KnownPaths DEF Readable, EInv
    <2>5. IsFiniteSet(Readable) /\ Cardinality(Readable) \in Nat
      BY PartsAreNat
    <2>6. Cardinality(Readable') = Cardinality(Readable) - 1
      BY <2>3, <2>4, <2>5, FS_RemoveElement
    <2>7. PathsLeft = 1 + Cardinality(Readable) /\ PathsLeft' = 1 + Cardinality(Readable')
      BY <2>1 DEF PathsLeft
    <2>8. PathsLeft' < PathsLeft
      BY <2>5, <2>6, <2>7
    <2> QED BY <2>8 DEF Shorter
  <1>6. CASE NextLine
    <2> DEFINE n == Len(frames)
    <2>1. /\ n \in Nat \ {0} /\ Top = frames[n] /\ n \in DOMAIN frames
          /\ Top.line \in Nat
      <3>1. frames # <<>>
        BY <1>6 DEF NextLine, InProgress
      <3>2. n \in Nat \ {0} /\ Top = frames[n] /\ Top \in Frame /\ n \in DOMAIN frames
        BY <1>0, <3>1, OnTop, Lengths
      <3> QED BY <3>2 DEF Frame
    <2>2. ret = "none"
      BY <1>6 DEF NextLine, InProgress
    <2>3. CASE ret' = "fail"
      BY <1>2, <2>2, <2>3
    <2>4. CASE ret' # "fail"
      <3>1. /\ \E mods : frames' = [frames EXCEPT ![n] =
                              [path |-> Top.path, line |-> Top.line + 1, mods |-> mods]]
            /\ UNCHANGED <<stack, loaded, disk, ret>>
        BY <1>6, <2>4 DEF NextLine, Fail
      <3>2. Len(frames') = n /\ frames' # <<>>
            /\ frames'[n].path = Top.path /\ frames'[n].line = Top.line + 1
        <4>1. Len(frames)' \in Nat /\ DOMAIN frames' = 1 .. Len(frames') /\ DOMAIN frames = 1 .. n
          BY <1>1, <1>0, Lengths DEF EInv, IInv, Lists
        <4>2. DOMAIN frames' = DOMAIN frames
          BY <3>1
        <4>3. Len(frames') = n
          BY <2>1, <4>1, <4>2, SameLength
        <4>4. frames' # <<>>
          BY <2>1, <4>3
        <4> QED BY <2>1, <3>1, <4>3, <4>4
      <3>3. Top' = frames'[n]
        BY <3>2 DEF Top, Last
      <3>4. LinesLeft = Len(TextOf(Top.path)) - Top.line
            /\ LinesLeft' = Len(TextOf(Top.path)) - (Top.line + 1)
        BY <2>1, <3>1, <3>2, <3>3 DEF LinesLeft, TextOf
      <3>5. Len(TextOf(Top.path)) \in Nat
        <4>1. TextOf(Top.path) \in Seq(Line)
          BY <1>0, <2>1 DEF TypeOK, Exists, TextOf
        <4> QED BY <4>1, LenProperties
      <3>6. LinesLeft' < LinesLeft
        BY <2>1, <3>4, <3>5
      <3>7. PathsLeft' = PathsLeft
        BY <3>1 DEF PathsLeft, Readable
      <3> QED BY <3>2, <3>6, <3>7 DEF Shorter
    <2> QED BY <2>3, <2>4
  <1>7. CASE NextModule
    <2>1. ret = "none" /\ call = None /\ result = "none" /\ result' = "none"
      BY <1>7 DEF NextModule, InProgress
    <2>2. CASE ret' = "fail"
      BY <1>2, <2>1, <2>2
    <2>3. CASE ret' # "fail"
      <3>1. ret' = "none" /\ call' # None /\ UNCHANGED <<disk, frames, stack, loaded>>
        BY <1>7, <2>1, <2>3 DEF NextModule, Fail
      <3>2. Stage = 3 /\ Stage' = 2
        BY <2>1, <3>1 DEF Stage
      <3> QED BY <2>1, <3>1, <3>2, OnlyStage
    <2> QED BY <2>2, <2>3
  <1>8. ASSUME frames # <<>>, frames' = Front(frames)
        PROVE  Len(frames') < Len(frames)
    BY <1>0, <1>8, OnTop
  <1>9. CASE AppendText
    <2>1. frames # <<>> /\ frames' = Front(frames) /\ ret = "none" /\ ret' = "ok"
      BY <1>9 DEF AppendText, InProgress, Leave
    <2>2. Readable' = Readable
      BY <1>9, KnownPaths DEF Readable, EInv
    <2>3. PathsLeft' = PathsLeft
      BY <2>1, <2>2 DEF PathsLeft
    <2> QED BY <1>8, <2>1, <2>3 DEF Shorter
  <1>10. CASE Return
    <2>1. frames # <<>> /\ UNCHANGED <<disk, loaded>>
      BY <1>10 DEF Return
    <2>2. CASE ret = "fail"
      <3>1. ret' = "fail" /\ frames' = Front(frames)
        BY <1>10, <2>2 DEF Return, Leave
      <3>2. PathsLeft' = PathsLeft
        BY <2>2, <3>1 DEF PathsLeft
      <3> QED BY <1>8, <2>1, <3>1, <3>2 DEF Shorter
    <2>3. CASE ret # "fail"
      <3> DEFINE n == Len(frames)
      <3>1. /\ ret = "ok" /\ ret' = "none" /\ stack' = stack
            /\ frames' = [frames EXCEPT ![n].mods = Tail(@)]
        BY <1>10, <2>3 DEF Return
      <3>2. /\ n \in Nat \ {0} /\ Top = frames[n] /\ Top \in Frame /\ n \in DOMAIN frames
        BY <1>0, <2>1, OnTop, Lengths
      <3>3. /\ Len(frames') = n /\ frames' # <<>>
            /\ frames'[n].path = Top.path /\ frames'[n].line = Top.line
            /\ frames'[n].mods = Tail(Top.mods)
        <4>1. Len(frames)' \in Nat /\ DOMAIN frames' = 1 .. Len(frames') /\ DOMAIN frames = 1 .. n
          BY <1>1, <1>0, Lengths DEF EInv, IInv, Lists
        <4>2. DOMAIN frames' = DOMAIN frames
          BY <3>1
        <4>3. Len(frames') = n
          BY <3>2, <4>1, <4>2, SameLength
        <4>4. frames' # <<>>
          BY <3>2, <4>3
        <4>5. frames'[n] = [Top EXCEPT !.mods = Tail(@)]
          BY <3>1, <3>2
        <4>6. Top \in [path : Path, line : Nat, mods : Seq(Module)]
          BY <3>2 DEF Frame
        <4> QED BY <4>3, <4>4, <4>5, <4>6
      <3>4. Top' = frames'[n]
        BY <3>3 DEF Top, Last
      <3>5. LinesLeft' = LinesLeft
        BY <2>1, <3>3, <3>4 DEF LinesLeft, TextOf
      <3>6. Top.mods \in Seq(Module) /\ Top.mods # <<>>
        BY <2>1, <3>1, <3>2 DEF EInv, IInv, Called, Awaits, Frame
      <3>7. Len(Tail(Top.mods)) = Len(Top.mods) - 1 /\ Len(Top.mods) \in Nat
        BY <3>6, HeadTailProperties, LenProperties
      <3>8. ModsLeft = Len(Top.mods) /\ ModsLeft' = Len(Top.mods) - 1
        BY <2>1, <3>3, <3>4, <3>7 DEF ModsLeft
      <3>9. PathsLeft' = PathsLeft
        BY <2>1, <3>1 DEF PathsLeft, Readable
      <3> QED BY <3>3, <3>5, <3>7, <3>8, <3>9 DEF Shorter
    <2> QED BY <2>2, <2>3
  <1>11. CASE Finish
    <2>1. result = "none" /\ result' = ret /\ ret # "none" /\ UNCHANGED <<ret, disk, frames, stack, loaded>>
      BY <1>11 DEF Finish
    <2>2. Stage = 1 /\ Stage' = 0
      BY <2>1 DEF Stage
    <2> QED BY <2>1, <2>2, OnlyStage
  <1> QED BY <1>3, <1>4, <1>5, <1>6, <1>7, <1>9, <1>10, <1>11 DEF Next

\* Five numbers.
Works == [1 .. 5 -> Nat]

\* Every step of a load leaves less to do.
THEOREM LoadGetsShorter == Spec => LoadShortens
  <1>1. EInv /\ [Next]_vars => [Fewer(ToDo', ToDo)]_vars
    <2> SUFFICES ASSUME EInv, Next PROVE Fewer(ToDo', ToDo)
      OBVIOUS
    <2>1. Shorter
      BY StepShortens
    <2> QED BY <2>1, FirstDecides DEF ToDo, Shorter
  <1> QED BY <1>1, EndInvariant, PTL DEF Spec, LoadShortens

\* What is left is five natural numbers, and there is no way to have fewer of
\* them for ever: so the recursion of load_with_uses_rec ends.
THEOREM LoadIsBounded ==
    /\ Spec => [](ToDo \in Works)
    /\ IsWellFoundedOn({w \in Works \X Works : Fewer(w[1], w[2])}, Works)
  <1>1. EInv => ToDo \in Works
    <2> SUFFICES ASSUME EInv PROVE ToDo \in Works
      OBVIOUS
    <2>1. /\ PathsLeft \in Nat /\ Len(frames) \in Nat /\ LinesLeft \in Nat
          /\ ModsLeft \in Nat /\ Stage \in Nat
      BY PartsAreNat
    <2> QED BY <2>1 DEF ToDo, Works
  <1>2. Spec => [](ToDo \in Works)
    BY <1>1, EndInvariant, PTL
  <1>3. IsWellFoundedOn({w \in Works \X Works : Fewer(w[1], w[2])}, Works)
    <2> DEFINE L == LexProductOrdering(OpToRel(<, Nat), Nat, 5)
               R == {w \in Works \X Works : Fewer(w[1], w[2])}
    <2>1. IsWellFoundedOn(L, Works)
      BY NatLessThanWellFounded, WFLexProductOrdering DEF Works
    <2>2. R \cap (Works \X Works) \subseteq L
      <3> SUFFICES ASSUME NEW w \in Works \X Works, Fewer(w[1], w[2]) PROVE w \in L
        OBVIOUS
      <3>1. PICK i \in 1 .. 5 : w[1][i] < w[2][i] /\ \A j \in 1 .. i - 1 : w[1][j] = w[2][j]
        BY DEF Fewer
      <3>2. w[1][i] \in Nat /\ w[2][i] \in Nat
        BY DEF Works
      <3>3. <<w[1][i], w[2][i]>> \in OpToRel(<, Nat)
        BY <3>1, <3>2 DEF OpToRel
      <3> QED BY <3>1, <3>3 DEF LexProductOrdering, Works
    <2> HIDE DEF L, R
    <2>3. IsWellFoundedOn(R, Works)
      BY <2>1, <2>2, IsWellFoundedOnSubrelation
    <2> QED BY <2>3 DEF R
  <1> QED BY <1>2, <1>3

=============================================================================
