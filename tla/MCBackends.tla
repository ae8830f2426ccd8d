----------------------------- MODULE MCBackends -----------------------------
(***************************************************************************)
(* The programs of the runs of Backends.                                    *)
(***************************************************************************)
EXTENDS Backends

P == INSTANCE TryPrograms

TestsOf(sources) == {Test(s) : s \in sources}

AllTests ==
    TestsOf(P!Smoke \cup P!Disputed \cup P!Tour \cup {P!Identity}
            \cup {P!NestOf(s) : s \in P!NestNames}
            \cup {P!OperandOf(s) : s \in P!OperandNames})
Agreed ==
    {s.name : s \in P!Smoke \cup P!Tour} \cup P!AgreedNests
    \cup {s \in P!OperandNames : s[1] = "safe"}

\* Nests without a return, so that r says what was executed.
FinallyTests ==
    TestsOf({P!NestOf(s) : s \in {t \in P!NestNames : t[1] = "main" /\ t[4] = "note"
                                       /\ "return" \notin {t[2], t[3], t[5]}}})
CrossCallTests == TestsOf({P!CrossCall})
ReturnTests == TestsOf({P!ReturnIntoRegion})
NoNames == {}

-----------------------------------------------------------------------------
(* A property of the smoke programs *)

\* The machine gives every program of tests/vm_smoke.mons the result that
\* vm_run_smoke_table in main.c expects, whichever way its values took through
\* slots, cells of closures, fields, handlers and calls.
SmokeTable ==
    status # "run" => \A row \in P!Rows : row[1] = test.name => status = "ok" /\ result = row[2]

-----------------------------------------------------------------------------
(* A property of the nests *)

RECURSIVE Digits(_)
Digits(i) == IF i < 10 THEN {i} ELSE {i % 10} \cup Digits(i \div 10)

\* "finally always runs" (DESIGN.md): statement 3, the finally block of the
\* inner try statement, was executed, whatever its body and its catch block did.
FinallyRuns == status = "ok" => 3 \in Digits(result.v)

=============================================================================
