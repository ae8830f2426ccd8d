----------------------------- MODULE UseLoader -----------------------------
(***************************************************************************)
(* How a program is put together from its modules (src/src/main.c,           *)
(* load_source_with_uses).                                                  *)
(*                                                                         *)
(* A file is named by where it is, a sequence of directory names and its own  *)
(* name, from the directory the program runs in.  The loader knows it by a   *)
(* spelling of that, which may begin with ".": paths are compared as they    *)
(* are spelled.  The text of a file is its lines that begin with "use"; the   *)
(* disk does not change while the loader runs, so that what a file says is    *)
(* chosen when it is read first.                                            *)
(*                                                                         *)
(* load_with_uses_rec is recursive: frames are its activations, call the      *)
(* path it is being called with, ret what the last activation to return      *)
(* returned.                                                               *)
(***************************************************************************)
EXTENDS Naturals, Sequences, SequencesExt, FiniteSets

CONSTANTS
    Names,     \* the names files and directories may have
    Files,     \* the files there may be
    Entries,   \* how the entry may be spelled
    TextsOf(_), \* what a file may say
    Sorted(_)  \* some names in the order of strcmp, by qsort

Here == "."

ASSUME NamesAreNames == Here \notin Names
ASSUME SortedIsSorted ==
    \A S \in SUBSET Names : Sorted(S) \in Seq(S) /\ Range(Sorted(S)) = S
ASSUME FilesAreFiles == Files \subseteq Seq(Names) \ {<<>>}
ASSUME EntriesArePaths == Entries \subseteq Seq(Names \cup {Here}) \ {<<>>}
ASSUME DiskIsFinite == IsFiniteSet(Files) /\ IsFiniteSet(Entries)

Path == Seq(Names \cup {Here}) \ {<<>>}
Module == Seq(Names) \ {<<>>}

\* A use line: of a module, of some modules of a directory, of all of them,
\* or one the loader does not understand.
Line == [kind : {"module"}, base : Module] \cup
        [kind : {"items"}, base : Module, items : Seq(Names)] \cup
        [kind : {"glob"}, base : Module] \cup
        [kind : {"invalid"}]

ASSUME TextsAreLines == \A f \in Files : TextsOf(f) \subseteq Seq(Line)

NotRead == <<[kind |-> "not read"]>>
None == <<>>

VARIABLES
    disk,    \* what each file says that exists
    frames,  \* activations of load_with_uses_rec: path, line, mods to load
    stack,   \* the list of paths that are being loaded
    loaded,  \* the list of paths that have been
    call,    \* the path of the call that begins, or None
    ret,     \* "ok" or "fail" after a return, "none" otherwise
    err,     \* the first error
    result   \* of load_source_with_uses

vars == <<disk, frames, stack, loaded, call, ret, err, result>>

-----------------------------------------------------------------------------
(* Paths *)

\* The file a path names: "." is where one already is.
FileOf(p) ==
    LET upTo[i \in 0 .. Len(p)] ==
            IF i = 0 THEN <<>>
            ELSE IF p[i] = Here THEN upTo[i - 1]
            ELSE Append(upTo[i - 1], p[i])
    IN upTo[Len(p)]

Exists(p) == FileOf(p) \in DOMAIN disk

Dirname(p) == IF Len(p) = 1 THEN <<Here>> ELSE Front(p)

\* resolve_and_load_module: next to the file that asks, or else from here.
Resolve(p, m) ==
    IF Exists(Dirname(p) \o m) THEN Dirname(p) \o m
    ELSE IF Exists(<<Here>> \o m) THEN <<Here>> \o m ELSE None

\* collect_glob_modules: sorted.
Listing(dir, base) ==
    LET there == Sorted({n \in Names : Exists(dir \o base \o <<n>>)})
    IN [i \in DOMAIN there |-> Append(base, there[i])]

Listed(p, base) ==
    IF Listing(Dirname(p), base) # <<>> THEN Listing(Dirname(p), base)
    ELSE Listing(<<Here>>, base)

\* The modules a line asks for, in order.
Requests(p, line) ==
    CASE line.kind = "module" -> <<line.base>>
      [] line.kind = "items" -> [i \in DOMAIN line.items |-> Append(line.base, line.items[i])]
      [] line.kind = "glob" -> Listed(p, line.base)
      [] OTHER -> <<>>

TextOf(p) == disk[FileOf(p)]

\* The modules the first lines of a file ask for.
Wanted(p, k) == UNION {Range(Requests(p, TextOf(p)[i])) : i \in 1 .. k}

\* The paths those of all lines stand for; None is among them if one of the
\* modules cannot be found.
Imports(p) == {Resolve(p, m) : m \in Wanted(p, Len(TextOf(p)))}

-----------------------------------------------------------------------------
Init ==
    /\ disk \in UNION {[E -> {NotRead}] : E \in SUBSET Files}
    /\ frames = <<>> /\ stack = <<>> /\ loaded = <<>>
    /\ call \in Entries
    /\ ret = "none" /\ err = "none" /\ result = "none"

Top == Last(frames)

InProgress == result = "none" /\ call = None /\ ret = "none" /\ frames # <<>>

\* An error in the activation on top, or before there is one.
Fail(e) ==
    /\ err' = e
    /\ ret' = "fail"
    /\ call' = None

\* Mutant: a path that is being loaded passes for one that has been.
FindCycleLate ==
    /\ call # None
    /\ call \in Range(stack)
    /\ ret' = "ok"
    /\ call' = None
    /\ UNCHANGED <<disk, frames, stack, loaded, err, result>>

\* A call with a path that is being loaded.
FindCycle ==
    /\ call # None
    /\ call \in Range(stack)
    /\ Fail("cycle")
    /\ UNCHANGED <<disk, frames, stack, loaded, result>>

\* A call with a path that has been loaded.
SkipLoaded ==
    /\ call # None
    /\ call \notin Range(stack)
    /\ call \in Range(loaded)
    /\ ret' = "ok"
    /\ call' = None
    /\ UNCHANGED <<disk, frames, stack, loaded, err, result>>

\* Mutant: the list of loaded paths is not looked at.
MayReadAgain == call # None /\ call \notin Range(stack)

MayRead == call # None /\ call \notin Range(stack) \cup Range(loaded)

\* Mutant: the first line is taken for read.
ReadFromSecond ==
    /\ MayRead
    /\ Exists(call)
    /\ \E t \in (IF TextOf(call) = NotRead THEN TextsOf(FileOf(call)) ELSE {TextOf(call)}) :
          disk' = [disk EXCEPT ![FileOf(call)] = t]
    /\ stack' = Append(stack, call)
    /\ frames' = Append(frames, [path |-> call, line |-> 1, mods |-> <<>>])
    /\ call' = None
    /\ UNCHANGED <<loaded, ret, err, result>>

\* A call that reads its file.
Read ==
    /\ MayRead
    /\ Exists(call)
    /\ \E t \in (IF TextOf(call) = NotRead THEN TextsOf(FileOf(call)) ELSE {TextOf(call)}) :
          disk' = [disk EXCEPT ![FileOf(call)] = t]
    /\ stack' = Append(stack, call)
    /\ frames' = Append(frames, [path |-> call, line |-> 0, mods |-> <<>>])
    /\ call' = None
    /\ UNCHANGED <<loaded, ret, err, result>>

\* A call that cannot: the path is put on the list and taken off again.
ReadFails ==
    /\ MayRead
    /\ ~Exists(call)
    /\ Fail("unreadable")
    /\ UNCHANGED <<disk, frames, stack, loaded, result>>

\* Mutant: the path stays on the list.
LeaveListed ==
    /\ frames' = Front(frames)
    /\ UNCHANGED stack

\* An activation that fails returns to the one that called it.
Leave ==
    /\ frames' = Front(frames)
    /\ stack' = Front(stack)

\* The next line, when the modules of the last one are loaded.
NextLine ==
    /\ InProgress
    /\ Top.mods = <<>>
    /\ Top.line < Len(TextOf(Top.path))
    /\ LET line == TextOf(Top.path)[Top.line + 1]
           mods == Requests(Top.path, line)
       IN IF line.kind # "invalid" /\ mods # <<>>
          THEN /\ frames' = [frames EXCEPT ![Len(frames)] =
                                [path |-> Top.path, line |-> Top.line + 1, mods |-> mods]]
               /\ UNCHANGED <<stack, call, ret, err>>
          ELSE /\ Leave
               /\ Fail(IF line.kind = "invalid" THEN "syntax" ELSE "unresolved")
    /\ UNCHANGED <<disk, loaded, result>>

\* The next module of a line is called for, or cannot be found.
NextModule ==
    /\ InProgress
    /\ Top.mods # <<>>
    /\ LET path == Resolve(Top.path, Head(Top.mods))
       IN IF path # None
          THEN /\ call' = path
               /\ UNCHANGED <<ret, err>>
          ELSE Fail("unresolved")
    /\ UNCHANGED <<disk, frames, stack, loaded, result>>

\* No more lines: the text of the file is put behind that of its imports.
AppendText ==
    /\ InProgress
    /\ Top.mods = <<>>
    /\ Top.line = Len(TextOf(Top.path))
    /\ Leave
    /\ loaded' = Append(loaded, Top.path)
    /\ ret' = "ok"
    /\ UNCHANGED <<disk, call, err, result>>

\* The caller of an activation goes on with the next module, or fails too.
Return ==
    /\ ret # "none"
    /\ frames # <<>>
    /\ \/ /\ ret = "ok"
          /\ frames' = [frames EXCEPT ![Len(frames)].mods = Tail(@)]
          /\ ret' = "none"
          /\ UNCHANGED stack
       \/ /\ ret = "fail"
          /\ Leave
          /\ UNCHANGED ret
    /\ UNCHANGED <<disk, loaded, call, err, result>>

\* The outermost activation returns: the program, or no program.
Finish ==
    /\ result = "none"
    /\ ret # "none"
    /\ frames = <<>>
    /\ result' = ret
    /\ UNCHANGED <<disk, frames, stack, loaded, call, ret, err>>

Next ==
    \/ FindCycle \/ SkipLoaded \/ Read \/ ReadFails
    \/ NextLine \/ NextModule \/ AppendText \/ Return \/ Finish

Spec == Init /\ [][Next]_vars

-----------------------------------------------------------------------------
Frame == [path : Path, line : Nat, mods : Seq(Module)]

TypeOK ==
    /\ DOMAIN disk \subseteq Files
    /\ \A f \in DOMAIN disk : disk[f] = NotRead \/ disk[f] \in Seq(Line)
    /\ frames \in Seq(Frame)
    /\ \A i \in DOMAIN frames :
          /\ Exists(frames[i].path) /\ TextOf(frames[i].path) # NotRead
          /\ frames[i].line <= Len(TextOf(frames[i].path))
    /\ stack \in Seq(Path) /\ loaded \in Seq(Path)
    /\ call \in Path \cup {None}
    /\ ret \in {"none", "ok", "fail"} /\ result \in {"none", "ok", "fail"}
    /\ err \in {"none", "cycle", "unreadable", "syntax", "unresolved"}

\* The list of paths being loaded is what the activations on the C stack are
\* loading, on every way out of one, and each is there because the one below
\* it imports it.  So a path found on the list is a cycle of imports.
StackIsImportChain ==
    /\ stack = [i \in DOMAIN frames |-> frames[i].path]
    /\ \A i \in 2 .. Len(stack) : stack[i] \in Imports(stack[i - 1])
    /\ call # None /\ stack # <<>> => call \in Imports(Last(stack))

\* No path is in the program twice, and none of those being loaded is.
EachPathOnce ==
    /\ IsInjective(stack) /\ IsInjective(loaded)
    /\ Range(stack) \cap Range(loaded) = {}

\* Everything a module imports is in the program before it: so no module of a
\* program that is loaded imports itself, through whatever others.
ImportsFirst ==
    \A i \in DOMAIN loaded : Imports(loaded[i]) \subseteq {loaded[j] : j \in 1 .. i - 1}

\* The ways to spell the files there are that the loader can come to: it never
\* puts more than one "." before a module, and keeps those of the entry.
Spellings ==
    UNION {{p \in UNION {[1 .. n -> Range(f) \cup {Here}] : n \in 1 .. Len(f) + Len(e)} :
              FileOf(p) = f} : f \in Files, e \in Entries}

\* What is left to do, the heaviest first: the paths that may still be read, the
\* activations, and for the one on top its lines, its modules and where it is
\* with the first of them.  An error leaves only the activations.
Readable == Spellings \ (Range(stack) \cup Range(loaded))
PathsLeft == IF ret = "fail" THEN 0 ELSE 1 + Cardinality(Readable)
LinesLeft == IF frames = <<>> THEN 0 ELSE Len(TextOf(Top.path)) - Top.line
ModsLeft == IF frames = <<>> THEN 0 ELSE Len(Top.mods)
Stage ==
    CASE result # "none" -> 0
      [] result = "none" /\ ret # "none" -> 1
      [] result = "none" /\ ret = "none" /\ call # None -> 2
      [] OTHER -> 3

ToDo == <<PathsLeft, Len(frames), LinesLeft, ModsLeft, Stage>>

Fewer(t, u) == \E i \in 1 .. 5 : t[i] < u[i] /\ \A j \in 1 .. i - 1 : t[j] = u[j]

\* Each step leaves less to do: the recursion of the loader ends whatever the
\* files say, modules that import each other and directories that contain
\* what asks for them included (load_with_uses_rec has no limit of its own).
LoadShortens == [][Fewer(ToDo', ToDo)]_vars

=============================================================================
