-------------------------------- MODULE Repl --------------------------------
(***************************************************************************)
(* The interactive session (src/src/repl.c).                                 *)
(*                                                                         *)
(* The user types lines.  repl_read_paragraph joins them until the braces     *)
(* are balanced; repl_run puts the paragraph behind the session, as it is or  *)
(* as the body of a function of its own, and the whole text is parsed and     *)
(* type checked.  What is accepted becomes the session before it is run.      *)
(* A text is a sequence of pieces: a paragraph, and whether it is wrapped     *)
(* and under which number.  Blank lines mean nothing in a text.              *)
(***************************************************************************)
EXTENDS Integers, Sequences

CONSTANTS
    Lines,         \* the lines the user may type
    MaxLines,      \* bound: how many
    Net(_),        \* how many braces more a line opens than it closes
    Continued(_),  \* its last character is a backslash
    Blank(_),      \* there is nothing else in it
    Command(_),    \* the command it is, or "none"
    Parses(_),     \* parse_tokens on a text
    Accepts(_),    \* type_check_program on a text that parses
    Evaluation(_, _), \* eval_call_by_name on a text and the number of a wrapper
    Failed(_)      \* an outcome is an error

ASSUME LimitIsNat == MaxLines \in Nat
ASSUME NetsAreInts == \A l \in Lines : Net(l) \in Int

VARIABLES
    typed,    \* the number of lines typed
    acc,      \* the lines of the paragraph that is being read
    depth,    \* the braces open in them
    pc,       \* where repl_run is
    session,  \* the text that was accepted
    seq,      \* repl_seq
    trial,    \* commit_src, the text being checked
    answer    \* what was printed last

vars == <<typed, acc, depth, pc, session, seq, trial, answer>>

Piece == [text : Seq(Lines), wrapped : BOOLEAN, number : Nat]
Text == Seq(Piece)

Kinds == {"nothing", "ok", "cleared", "help", "parse error", "type error", "result"}
Nothing == [kind |-> "nothing", outcome |-> "none"]
Says(kind) == [kind |-> kind, outcome |-> "none"]

\* join_session: the paragraph as it is.
Plain(par) == [text |-> par, wrapped |-> FALSE, number |-> 0]

\* build_wrapped: in the braces of a function whose name has the number n.
Wrapped(par, n) == [text |-> par, wrapped |-> TRUE, number |-> n]

-----------------------------------------------------------------------------
Init ==
    /\ typed = 0 /\ acc = <<>> /\ depth = 0
    /\ pc = "read"
    /\ session = <<>> /\ seq = 0 /\ trial = <<>>
    /\ answer = Nothing

\* Back to the prompt.
Prompt ==
    /\ pc' = "read"
    /\ acc' = <<>>
    /\ depth' = 0
    /\ trial' = <<>>

\* (faulty variant: a closing brace too many is owed by the next line)
OpenOwed(l) == depth + Net(l)

\* The braces open after a line, never less than none.
Open(l) == IF depth + Net(l) < 0 THEN 0 ELSE depth + Net(l)

\* repl_read_paragraph: a line, and whether the paragraph is complete.
ReadLine(l) ==
    /\ pc = "read"
    /\ typed < MaxLines
    /\ typed' = typed + 1
    /\ acc' = IF Blank(l) THEN acc ELSE Append(acc, l)
    /\ depth' = Open(l)
    /\ pc' = IF Continued(l) \/ depth' # 0 \/ acc' = <<>> THEN "read" ELSE "paragraph"
    /\ UNCHANGED <<session, seq, trial, answer>>

\* The end of the input leaves the session; an open paragraph is lost.
EndOfInput ==
    /\ pc = "read"
    /\ pc' = "done"
    /\ UNCHANGED <<typed, acc, depth, session, seq, trial, answer>>

Asks(command) == pc = "paragraph" /\ Len(acc) = 1 /\ Command(acc[1]) = command

Quit ==
    /\ Asks("quit")
    /\ pc' = "done"
    /\ UNCHANGED <<typed, acc, depth, session, seq, trial, answer>>

Help ==
    /\ Asks("help")
    /\ Prompt
    /\ answer' = Says("help")
    /\ UNCHANGED <<typed, session, seq>>

Clear ==
    /\ Asks("clear")
    /\ Prompt
    /\ session' = <<>>
    /\ seq' = 0
    /\ answer' = Says("cleared")
    /\ UNCHANGED typed

\* The paragraph is program text: first as declarations, then as a body.
IsSource == pc = "paragraph" /\ (Len(acc) # 1 \/ Command(acc[1]) = "none")
AsDeclarations == Append(session, Plain(acc))

\* (faulty variant: the text of the session is left out)
AsBodyAlone == <<Wrapped(acc, seq)>>

AsBody == Append(session, Wrapped(acc, seq))

Parse ==
    /\ IsSource
    /\ \/ Parses(AsDeclarations) /\ trial' = AsDeclarations
       \/ ~Parses(AsDeclarations) /\ Parses(AsBody) /\ trial' = AsBody
    /\ pc' = "check"
    /\ UNCHANGED <<typed, acc, depth, session, seq, answer>>

ParseFails ==
    /\ IsSource
    /\ ~Parses(AsDeclarations) /\ ~Parses(AsBody)
    /\ Prompt
    /\ answer' = Says("parse error")
    /\ UNCHANGED <<typed, session, seq>>

CheckFails ==
    /\ pc = "check"
    /\ ~Accepts(trial)
    /\ Prompt
    /\ answer' = Says("type error")
    /\ UNCHANGED <<typed, session, seq>>

\* (faulty variant: the paragraph is committed, not the text that was checked)
CommitParagraph ==
    /\ pc = "check"
    /\ Accepts(trial)
    /\ trial[Len(trial)].wrapped
    /\ session' = AsDeclarations
    /\ pc' = "evaluate"
    /\ UNCHANGED <<typed, acc, depth, seq, trial, answer>>

\* (faulty variant: a constant may be declared again, its name is not looked up)
CommitUnchecked ==
    /\ pc = "check"
    /\ ~trial[Len(trial)].wrapped
    /\ session' = trial
    /\ Prompt
    /\ answer' = Says("ok")
    /\ UNCHANGED <<typed, seq>>

\* What is committed is the text that was checked.
CommitDeclarations ==
    /\ pc = "check"
    /\ Accepts(trial)
    /\ ~trial[Len(trial)].wrapped
    /\ session' = trial
    /\ Prompt
    /\ answer' = Says("ok")
    /\ UNCHANGED <<typed, seq>>

CommitBody ==
    /\ pc = "check"
    /\ Accepts(trial)
    /\ trial[Len(trial)].wrapped
    /\ session' = trial
    /\ pc' = "evaluate"
    /\ UNCHANGED <<typed, acc, depth, seq, trial, answer>>

\* (faulty variant: the number is used up by a success only)
EvaluateAgain ==
    /\ pc = "evaluate"
    /\ Prompt
    /\ answer' = [kind |-> "result", outcome |-> Evaluation(session, seq)]
    /\ seq' = IF Failed(Evaluation(session, seq)) THEN seq ELSE seq + 1
    /\ UNCHANGED <<typed, session>>

\* (faulty variant: the name is made once)
EvaluateFirst ==
    /\ pc = "evaluate"
    /\ Prompt
    /\ answer' = [kind |-> "result", outcome |-> Evaluation(session, 0)]
    /\ seq' = seq + 1
    /\ UNCHANGED <<typed, session>>

\* The number is used up whether the evaluation succeeds or not.
Evaluate ==
    /\ pc = "evaluate"
    /\ Prompt
    /\ answer' = [kind |-> "result", outcome |-> Evaluation(session, seq)]
    /\ seq' = seq + 1
    /\ UNCHANGED <<typed, session>>

Next ==
    \/ \E l \in Lines : ReadLine(l)
    \/ EndOfInput \/ Quit \/ Help \/ Clear
    \/ Parse \/ ParseFails
    \/ CheckFails \/ CommitDeclarations \/ CommitBody
    \/ Evaluate

Spec == Init /\ [][Next]_vars

-----------------------------------------------------------------------------
(* Properties *)

TypeOK ==
    /\ typed \in 0 .. MaxLines
    /\ acc \in Seq(Lines)
    /\ depth \in Nat
    /\ pc \in {"read", "paragraph", "check", "evaluate", "done"}
    /\ session \in Text /\ trial \in Text
    /\ seq \in Nat
    /\ answer.kind \in Kinds

\* The session is a program at every prompt: whatever was typed, and however it
\* was answered, the text that the next paragraph is put behind parses and has
\* been accepted as a whole (repl_run commits commit_src, not pending).
SessionAccepted == session # <<>> => Parses(session) /\ Accepts(session)

\* A number is given to one paragraph: an expression never meets the wrapper of
\* an earlier one, one that failed when it was run included (repl_seq++).
NumbersUsedOnce ==
    /\ \A i, j \in DOMAIN session :
          session[i].wrapped /\ session[j].wrapped /\ i < j => session[i].number < session[j].number
    /\ pc # "evaluate" => \A i \in DOMAIN session : session[i].wrapped => session[i].number < seq

\* What stands on the screen is the value of the paragraph accepted last: until
\* something else is answered, the last piece of the session is a wrapper, and the
\* answer is what calling that wrapper by its number gives (fnbuf is made before
\* the text is parsed, and looked up in the program that became the session).
AnswerOfLast ==
    answer.kind = "result" /\ pc # "evaluate" =>
        /\ session # <<>>
        /\ session[Len(session)].wrapped
        /\ answer.outcome = Evaluation(session, session[Len(session)].number)

\* The session grows by what was typed last, at its end, or is dropped as a
\* whole: what the user was told is part of it is not taken back ("session grows
\* with each successful input", README.md).
SessionGrows ==
    [][session' # session =>
          \/ session' = <<>> /\ answer'.kind = "cleared"
          \/ /\ session' = Append(session, session'[Len(session')])
             /\ session'[Len(session')].text = acc]_vars

=============================================================================
