---------------------------- MODULE MCUseLoader ----------------------------
(* UseLoader on a directory with a directory in it. *)
EXTENDS UseLoader

MCNames == {"a", "b", "lib", "m"}

MCSorted(S) == SelectSeq(<<"a", "b", "lib", "m">>, LAMBDA n : n \in S)

MCFiles == {<<"m">>, <<"lib", "a">>, <<"lib", "b">>, <<"lib", "m">>}

MCEntries == {<<"m">>, <<"lib", "m">>, <<Here, "m">>}

Use(m) == [kind |-> "module", base |-> m]

\* What a file may ask for: files that are there and files that are not, in
\* ways that come out as one path or as two.
MCLines ==
    {Use(<<"a">>), Use(<<"m">>), Use(<<"lib", "a">>),
     [kind |-> "items", base |-> <<"lib">>, items |-> <<"b", "a">>],
     [kind |-> "glob", base |-> <<"lib">>]}

MCTextsOf(f) ==
    IF Last(f) = "m"
    THEN {<<x, y>> : x \in MCLines, y \in MCLines} \cup {<<x>> : x \in MCLines}
    ELSE {<<>>, <<Use(<<"b">>)>>, <<Use(<<"m">>)>>, <<Use(<<"lib", "b">>)>>,
          <<[kind |-> "invalid"]>>}

=============================================================================
