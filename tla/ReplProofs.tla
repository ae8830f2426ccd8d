----------------------------- MODULE ReplProofs -----------------------------
(***************************************************************************)
(* Theorems about the session (Repl), for any lines, any parser, any type     *)
(* checker and any evaluator.                                               *)
(***************************************************************************)
EXTENDS Repl, TLAPS

Increasing ==
    \A i, j \in DOMAIN session :
        session[i].wrapped /\ session[j].wrapped /\ i < j => session[i].number < session[j].number
Below(n) == \A i \in DOMAIN session : session[i].wrapped => session[i].number < n

\* What is being checked is the session and what was typed.
Checked == pc = "check" => trial \in {AsDeclarations, AsBody} /\ Parses(trial)

Numbered == Increasing /\ Below(seq + 1) /\ (pc # "evaluate" => Below(seq))

\* What is evaluated is the wrapper that ends the session.
EndsWrapped ==
    pc = "evaluate" =>
        /\ session # <<>>
        /\ session[Len(session)].wrapped
        /\ session[Len(session)].number = seq

IInv ==
    /\ TypeOK /\ Checked /\ SessionAccepted /\ Numbered
    /\ EndsWrapped /\ AnswerOfLast

-----------------------------------------------------------------------------
\* What Append does to a text.
LEMMA AppendToText ==
    ASSUME NEW s \in Text, NEW p \in Piece
    PROVE  /\ Append(s, p) \in Text
           /\ Len(s) \in Nat /\ Len(Append(s, p)) = Len(s) + 1
           /\ DOMAIN s = 1 .. Len(s) /\ DOMAIN Append(s, p) = 1 .. Len(s) + 1
           /\ Append(s, p)[Len(s) + 1] = p /\ Append(s, p)[Len(Append(s, p))] = p
           /\ \A i \in 1 .. Len(s) : Append(s, p)[i] = s[i]
           /\ Append(s, p) # <<>>
  BY DEF Text

LEMMA PiecesArePieces ==
    ASSUME TypeOK
    PROVE  Plain(acc) \in Piece /\ Wrapped(acc, seq) \in Piece
  BY DEF TypeOK, Plain, Wrapped, Piece

\* The text that is checked ends with what was typed last.
LEMMA TrialIsSessionAndMore ==
    ASSUME TypeOK, Checked, pc = "check"
    PROVE  /\ trial \in Text /\ trial # <<>>
           /\ Len(session) \in Nat /\ Len(trial) = Len(session) + 1
           /\ DOMAIN session = 1 .. Len(session) /\ DOMAIN trial = 1 .. Len(session) + 1
           /\ \A i \in 1 .. Len(session) : trial[i] = session[i]
           /\ trial[Len(trial)].text = acc
           /\ trial[Len(trial)].wrapped => trial[Len(trial)].number = seq
           /\ trial = Append(session, trial[Len(trial)])
  <1>1. PICK p \in Piece : trial = Append(session, p) /\ p \in {Plain(acc), Wrapped(acc, seq)}
    BY PiecesArePieces DEF Checked, AsDeclarations, AsBody
  <1>2. p.text = acc /\ (p.wrapped => p.number = seq)
    BY <1>1 DEF Plain, Wrapped
  <1>3. session \in Text
    BY DEF TypeOK
  <1>4. trial[Len(trial)] = p /\ Len(session) \in Nat
    BY <1>1, <1>3, AppendToText
  <1>5. /\ trial \in Text /\ trial # <<>>
        /\ Len(trial) = Len(session) + 1
        /\ DOMAIN session = 1 .. Len(session) /\ DOMAIN trial = 1 .. Len(session) + 1
        /\ \A i \in 1 .. Len(session) : trial[i] = session[i]
    BY <1>1, <1>3, AppendToText
  <1>6. QED
    BY <1>1, <1>2, <1>4, <1>5

-----------------------------------------------------------------------------
(* The invariant *)

LEMMA InitInv == Init => IInv
  BY LimitIsNat DEF Init, IInv, TypeOK, Checked, SessionAccepted, Numbered, Increasing, Below,
                    EndsWrapped, AnswerOfLast, Text, Nothing, Kinds

LEMMA TypeStep == TypeOK /\ Checked /\ [Next]_vars => TypeOK'
  <1> SUFFICES ASSUME TypeOK, Checked, [Next]_vars
               PROVE  TypeOK'
    OBVIOUS
  <1> USE DEF TypeOK
  <1>1. ASSUME NEW l \in Lines, ReadLine(l)
        PROVE  TypeOK'
    <2>1. depth + Net(l) \in Int
      BY NetsAreInts
    <2>2. depth' \in Nat
      BY <1>1, <2>1 DEF ReadLine, Open
    <2>3. acc' \in Seq(Lines)
      BY <1>1 DEF ReadLine
    <2>4. typed' \in 0 .. MaxLines
      BY <1>1, LimitIsNat DEF ReadLine
    <2>5. QED
      BY <1>1, <2>2, <2>3, <2>4 DEF ReadLine
  <1>2. CASE EndOfInput \/ Quit
    BY <1>2 DEF EndOfInput, Quit
  <1>a. ASSUME Prompt
        PROVE  acc' \in Seq(Lines) /\ depth' \in Nat /\ pc' = "read" /\ trial' \in Text
    BY <1>a DEF Prompt, Text
  <1>b. \A k \in Kinds : Says(k).kind \in Kinds
    BY DEF Says
  <1>c. {"ok", "cleared", "help", "parse error", "type error", "result"} \subseteq Kinds
    BY DEF Kinds
  <1>3. CASE Help \/ ParseFails \/ CheckFails
    BY <1>3, <1>a, <1>b, <1>c DEF Help, ParseFails, CheckFails
  <1>d. CASE Clear
    <2>1. <<>> \in Text
      BY DEF Text
    <2>2. answer'.kind \in Kinds
      BY <1>d, <1>b, <1>c DEF Clear
    <2>3. QED
      BY <1>d, <1>a, <2>1, <2>2 DEF Clear
  <1>4. CASE Parse
    <2>1. AsDeclarations \in Text /\ AsBody \in Text
      BY PiecesArePieces, AppendToText DEF AsDeclarations, AsBody
    <2>2. QED
      BY <1>4, <2>1 DEF Parse
  <1>5. CASE CommitDeclarations
    BY <1>5, <1>a, <1>b, <1>c DEF CommitDeclarations
  <1>6. CASE CommitBody
    BY <1>6 DEF CommitBody
  <1>7. CASE Evaluate
    <2>1. answer'.kind = "result"
      BY <1>7 DEF Evaluate
    <2>2. seq' \in Nat /\ UNCHANGED <<typed, session>>
      BY <1>7 DEF Evaluate
    <2>3. QED
      BY <1>7, <1>a, <1>c, <2>1, <2>2 DEF Evaluate
  <1>8. CASE UNCHANGED vars
    BY <1>8 DEF vars
  <1>9. QED
    BY <1>1, <1>2, <1>3, <1>d, <1>4, <1>5, <1>6, <1>7, <1>8 DEF Next

Stays ==
    /\ UNCHANGED session
    /\ \/ UNCHANGED seq /\ (pc = "evaluate" => pc' = "evaluate")
       \/ pc = "evaluate" /\ pc' = "read" /\ seq' = seq + 1
Drops == session' = <<>> /\ answer' = Says("cleared")
Commits ==
    /\ pc = "check" /\ Accepts(trial)
    /\ session' = trial /\ UNCHANGED seq
    /\ trial[Len(trial)].wrapped => pc' = "evaluate"

\* The session changes by a commit of what was checked, or is dropped.
LEMMA SessionStep == [Next]_vars => Stays \/ Drops \/ Commits
  <1>1. ASSUME NEW l \in Lines, ReadLine(l)
        PROVE  Stays
    BY <1>1 DEF ReadLine, Stays
  <1>2. CASE EndOfInput \/ Quit \/ Parse
    BY <1>2 DEF EndOfInput, Quit, Parse, IsSource, Asks, Stays
  <1>3. CASE Help \/ ParseFails \/ CheckFails
    BY <1>3 DEF Help, ParseFails, CheckFails, IsSource, Asks, Prompt, Stays
  <1>4. CASE Evaluate
    BY <1>4 DEF Evaluate, Prompt, Stays
  <1>5. CASE Clear
    BY <1>5 DEF Clear, Drops
  <1>6. CASE CommitDeclarations
    BY <1>6 DEF CommitDeclarations, Commits
  <1>7. CASE CommitBody
    BY <1>7 DEF CommitBody, Commits
  <1>8. CASE UNCHANGED vars
    BY <1>8 DEF vars, Stays
  <1>9. QED
    BY <1>1, <1>2, <1>3, <1>4, <1>5, <1>6, <1>7, <1>8 DEF Next

LEMMA CheckedStep == TypeOK /\ Checked /\ [Next]_vars => Checked'
  <1> SUFFICES ASSUME TypeOK, Checked, [Next]_vars, pc' = "check"
               PROVE  (trial \in {AsDeclarations, AsBody} /\ Parses(trial))'
    BY DEF Checked
  <1>1. Parse \/ UNCHANGED vars
    BY DEF Next, ReadLine, EndOfInput, Quit, Help, Clear, ParseFails, CheckFails,
           CommitDeclarations, CommitBody, Evaluate, Prompt
  <1>2. CASE Parse
    BY <1>2 DEF Parse, AsDeclarations, AsBody
  <1>3. CASE UNCHANGED vars
    BY <1>3 DEF vars, Checked, AsDeclarations, AsBody
  <1>4. QED
    BY <1>1, <1>2, <1>3

LEMMA AcceptedStep == TypeOK /\ Checked /\ SessionAccepted /\ [Next]_vars => SessionAccepted'
  BY SessionStep DEF SessionAccepted, Checked, Stays, Drops, Commits

LEMMA NumberedStep == TypeOK /\ Checked /\ Numbered /\ [Next]_vars => Numbered'
  <1> SUFFICES ASSUME TypeOK, Checked, Numbered, [Next]_vars
               PROVE  Numbered'
    OBVIOUS
  <1>1. seq \in Nat /\ seq' \in Nat /\ session \in Text
    BY TypeStep DEF TypeOK
  <1>2. \A i \in DOMAIN session : session[i].number \in Nat
    <2>1. \A i \in DOMAIN session : session[i] \in Piece
      BY <1>1 DEF Text
    <2>2. QED
      BY <2>1 DEF Piece
  <1>3. CASE Stays
    <2>1. Increasing' /\ session' = session
      BY <1>3 DEF Stays, Numbered, Increasing
    <2>3. CASE UNCHANGED seq /\ (pc = "evaluate" => pc' = "evaluate")
      <3>1. Below(seq + 1)' /\ (Below(seq) => Below(seq)')
        BY <2>1, <2>3 DEF Numbered, Below
      <3>2. QED
        BY <2>1, <2>3, <3>1 DEF Numbered
    <2>4. CASE pc = "evaluate" /\ pc' = "read" /\ seq' = seq + 1
      <3>1. \A i \in DOMAIN session : session[i].wrapped => session[i].number < seq' + 1
        BY <1>1, <1>2, <2>4 DEF Numbered, Below
      <3>2. Below(seq)' /\ Below(seq + 1)'
        BY <1>3, <2>4, <3>1 DEF Numbered, Below, Stays
      <3>3. QED
        BY <2>1, <3>2 DEF Numbered
    <2>5. QED
      BY <1>3, <2>3, <2>4 DEF Stays
  <1>4. CASE Drops
    <2>1. DOMAIN session' = {}
      BY <1>4 DEF Drops
    <2>2. QED
      BY <2>1 DEF Numbered, Increasing, Below
  <1>5. CASE Commits
    <2>1. Below(seq)
      BY <1>5 DEF Commits, Numbered
    <2>2. /\ Len(session) \in Nat
          /\ DOMAIN session = 1 .. Len(session) /\ DOMAIN session' = 1 .. Len(session) + 1
          /\ \A i \in 1 .. Len(session) : session'[i] = session[i]
          /\ session'[Len(session) + 1].wrapped => session'[Len(session) + 1].number = seq
      BY <1>5, TrialIsSessionAndMore DEF Commits
    <2>3. Increasing'
      BY <1>1, <1>2, <2>1, <2>2 DEF Numbered, Increasing, Below
    <2>4. Below(seq + 1)' /\ seq' = seq
      BY <1>1, <1>2, <1>5, <2>1, <2>2 DEF Commits, Below
    <2>5. pc' # "evaluate" => ~session'[Len(session) + 1].wrapped
      BY <1>5, TrialIsSessionAndMore DEF Commits
    <2>6. pc' # "evaluate" => Below(seq)'
      BY <1>1, <1>2, <2>1, <2>2, <2>4, <2>5 DEF Below
    <2>7. QED
      BY <2>3, <2>4, <2>6 DEF Numbered, Below
  <1>6. QED
    BY <1>3, <1>4, <1>5, SessionStep

\* An evaluation follows the commit of a wrapper at once.
LEMMA EndsWrappedStep == TypeOK /\ Checked /\ EndsWrapped /\ [Next]_vars => EndsWrapped'
  <1> SUFFICES ASSUME TypeOK, Checked, EndsWrapped, [Next]_vars, pc' = "evaluate"
               PROVE  /\ session' # <<>>
                      /\ session'[Len(session')].wrapped
                      /\ session'[Len(session')].number = seq'
    BY DEF EndsWrapped
  <1>1. CommitBody \/ UNCHANGED vars
    BY DEF Next, ReadLine, EndOfInput, Quit, Help, Clear, Parse, ParseFails, CheckFails,
           CommitDeclarations, Evaluate, Prompt
  <1>2. CASE CommitBody
    <2>1. /\ pc = "check" /\ session' = trial /\ seq' = seq
          /\ trial[Len(trial)].wrapped
      BY <1>2 DEF CommitBody
    <2>2. trial # <<>> /\ (trial[Len(trial)].wrapped => trial[Len(trial)].number = seq)
      BY <2>1, TrialIsSessionAndMore
    <2> QED
      BY <2>1, <2>2
  <1>3. CASE UNCHANGED vars
    BY <1>3 DEF vars, EndsWrapped
  <1> QED
    BY <1>1, <1>2, <1>3

Keeps == UNCHANGED <<session, answer>> /\ (pc = "evaluate" => pc' = "evaluate")
Evaluates ==
    /\ pc = "evaluate" /\ UNCHANGED session
    /\ answer' = [kind |-> "result", outcome |-> Evaluation(session, seq)]
SaysElse == answer'.kind # "result"

\* A result is answered by an evaluation only, and the session stays as long as
\* it is not followed by another answer or another evaluation.
LEMMA AnswerStep == [Next]_vars => Keeps \/ Evaluates \/ SaysElse \/ pc' = "evaluate"
  <1>1. ASSUME NEW l \in Lines, ReadLine(l)
        PROVE  Keeps
    BY <1>1 DEF ReadLine, Keeps
  <1>2. CASE EndOfInput \/ Quit \/ Parse
    BY <1>2 DEF EndOfInput, Quit, Parse, IsSource, Asks, Keeps
  <1>3. CASE Help \/ Clear \/ ParseFails \/ CheckFails \/ CommitDeclarations
    <2>1. \E kind \in Kinds \ {"result"} : answer' = Says(kind)
      <3>1. {"ok", "cleared", "help", "parse error", "type error"} \subseteq Kinds \ {"result"}
        BY DEF Kinds
      <3> QED
        BY <1>3, <3>1 DEF Help, Clear, ParseFails, CheckFails, CommitDeclarations
    <2> QED
      BY <2>1 DEF Says, SaysElse
  <1>4. CASE CommitBody
    BY <1>4 DEF CommitBody
  <1>5. CASE Evaluate
    BY <1>5 DEF Evaluate, Prompt, Evaluates
  <1>6. CASE UNCHANGED vars
    BY <1>6 DEF vars, Keeps
  <1> QED
    BY <1>1, <1>2, <1>3, <1>4, <1>5, <1>6 DEF Next

LEMMA AnswerOfLastStep == EndsWrapped /\ AnswerOfLast /\ [Next]_vars => AnswerOfLast'
  <1> SUFFICES ASSUME EndsWrapped, AnswerOfLast, [Next]_vars
               PROVE  AnswerOfLast'
    OBVIOUS
  <1>1. CASE Keeps
    BY <1>1 DEF Keeps, AnswerOfLast
  <1>2. CASE Evaluates
    <2>1. answer'.outcome = Evaluation(session, seq) /\ session' = session
      BY <1>2 DEF Evaluates
    <2>2. session # <<>> /\ session[Len(session)].wrapped /\ session[Len(session)].number = seq
      BY <1>2 DEF Evaluates, EndsWrapped
    <2> QED
      BY <2>1, <2>2 DEF AnswerOfLast
  <1>3. CASE SaysElse \/ pc' = "evaluate"
    BY <1>3 DEF SaysElse, AnswerOfLast
  <1> QED
    BY <1>1, <1>2, <1>3, AnswerStep

LEMMA IndInv == IInv /\ [Next]_vars => IInv'
  BY TypeStep, CheckedStep, AcceptedStep, NumberedStep, EndsWrappedStep, AnswerOfLastStep
  DEF IInv

LEMMA InvHolds == Spec => []IInv
  BY InitInv, IndInv, PTL DEF Spec

-----------------------------------------------------------------------------
\* The variables keep to their types for every parser, checker and evaluator.
THEOREM TypeCorrect == Spec => []TypeOK
  BY InvHolds, PTL DEF IInv

\* The text at every prompt parses and has been accepted as a whole.
THEOREM SessionIsAccepted == Spec => []SessionAccepted
  BY InvHolds, PTL DEF IInv

\* No two paragraphs are wrapped under one number, and the next one is free.
THEOREM NumbersAreUsedOnce == Spec => []NumbersUsedOnce
  <1>1. IInv => NumbersUsedOnce
    BY DEF IInv, Numbered, Increasing, Below, NumbersUsedOnce
  <1>2. QED
    BY <1>1, InvHolds, PTL

\* The value on the screen is that of the wrapper at the end of the session.
THEOREM AnswerIsOfTheLast == Spec => []AnswerOfLast
  BY InvHolds, PTL DEF IInv

\* A paragraph goes behind the session or the session is dropped as a whole.
THEOREM SessionOnlyGrows == Spec => SessionGrows
  <1>1. IInv /\ [Next]_vars =>
            [session' # session =>
                \/ session' = <<>> /\ answer'.kind = "cleared"
                \/ /\ session' = Append(session, session'[Len(session')])
                   /\ session'[Len(session')].text = acc]_vars
    BY SessionStep, TrialIsSessionAndMore DEF IInv, Stays, Drops, Commits, Says
  <1>2. QED
    BY <1>1, InvHolds, PTL DEF Spec, SessionGrows

=============================================================================
