----------------------------- MODULE TryPrograms -----------------------------
(***************************************************************************)
(* Programs with try statements in every combination, and programs that     *)
(* throw where a frame has operands on the stack.  A program is named by    *)
(* the tuple of the choices that make it.                                   *)
(***************************************************************************)
EXTENDS SmokePrograms

Named(name, stmts, fns) ==
    [name |-> name, src |-> Declared(<<Fn("main", <<>>, Block(stmts, V("r")))>> \o fns)]

\* Statement number k: the digits of r tell which were executed, in order.
Note(k) == Set("r", Add(Bin("mul", V("r"), Num(10)), Num(k)))

\* The statement "if c { stmts; tail } else { 0 }".
When(c, stmts, tail) ==
    ExprStmt(If(<<Branch(c, Block(stmts, tail))>>, Tail1(Num(0))))

\* fn safe(n: int) throws inside and returns n + 1.
Safe == Fn("safe", <<"n">>,
    Block(<<Let("q", Num(0)),
            Try(Stmts(<<Throw(V("n"))>>),
                <<CatchInt("g", Stmts(<<Set("q", Add(V("g"), Num(1)))>>))>>, Absent)>>, V("q")))

\* fn fails(n: int) throws n.
Fails == Fn("fails", <<"n">>,
    Block(<<Try(Stmts(<<Throw(V("n"))>>), <<Catch("g", "bool", Stmts(<<>>))>>, Absent)>>, Num(0)))

\* fn back(n: int) returns n from a try region.
Back == Fn("back", <<"n">>,
    Block(<<Try(Stmts(<<Return(V("n"))>>), <<CatchInt("g", Stmts(<<>>))>>, Absent)>>, Num(0)))

-----------------------------------------------------------------------------
(* A try statement in a try statement *)

Leaf(name, k) ==
    CASE name = "note" -> <<Note(k)>>
      [] name = "throw" -> <<Note(k), Throw(Num(k))>>
      [] name = "throwBool" -> <<Note(k), Throw(BoolLit(TRUE))>>
      [] name = "return" -> <<Note(k), Return(V("r"))>>
      [] name = "call" -> <<Set("r", Add(V("r"), CallFn("safe", <<Num(k)>>)))>>
      [] name = "perhaps" -> <<When(Bin("lt", V("r"), Num(50)), <<Note(k)>>, V("r")), Note(k),
                               When(Bin("gt", V("r"), Num(50)), <<Throw(V("r"))>>, Absent)>>

Final(name, k) == IF name = "none" THEN Absent ELSE Stmts(Leaf(name, k))

\* try { try { x } catch (e: int) { y } finally { z }; 4 } catch (f: int) { h } finally { w }
Nest(x, y, z, h, w) ==
    <<Try(Stmts(<<Try(Stmts(Leaf(x, 1)), <<CatchInt("e", Stmts(Leaf(y, 2)))>>, Final(z, 3)),
                  Note(4)>>),
          <<CatchInt("f", Stmts(Leaf(h, 5)))>>, Final(w, 6))>>

\* The nest alone, in a loop of two rounds, or in a lambda.
Around(place, nest) ==
    CASE place = "main" -> nest
      [] place = "loop" -> <<For("i", ArrayOf(<<Num(1), Num(2)>>), Stmts(nest))>>
      [] place = "lambda" ->
           <<Let("l", Lambda(<<"a">>, Block(nest, Add(V("r"), V("a"))))),
             Set("r", CallFn("l", <<Num(8)>>))>>

Places == {"main", "loop", "lambda"}
Bodies == {"note", "throw", "throwBool", "return", "call", "perhaps"}
Catches == {"note", "throw", "return"}
Finals == {"none", "note", "throw", "return"}

NestOf(s) ==
    Named(s, <<Let("r", Num(0))>> \o Around(s[1], Nest(s[2], s[3], s[4], s[5], s[6])), <<Safe>>)

\* A lambda cannot call a function in the interpreter: fv_walk takes the name
\* of the function for a variable to capture.
NestNames ==
    {s \in Places \X Bodies \X Catches \X Finals \X {"note", "return"} \X {"none", "note"} :
        ~(s[1] = "lambda" /\ s[2] = "call")}

Throws(s) == s[2] = "throw" \/ (s[2] = "perhaps" /\ s[1] = "loop")

\* The compiled code forgets the finally block when a catch block is left by a
\* throw or a return.
SkipsFinally(s) == Throws(s) /\ s[3] \in {"throw", "return"} /\ s[4] # "none"

\* A finally block that throws overrides a pending return in the compiled code,
\* and does not in the interpreter.
OverridesReturn(s) == s[2] = "return" /\ s[4] = "throw"

AgreedNests == {s \in NestNames : ~SkipsFinally(s) /\ ~OverridesReturn(s)}

-----------------------------------------------------------------------------
(* An expression that throws, at a depth of the operand stack *)

\* What fails: nothing is caught on the way, or it is caught and thrown again.
Culprits == {"fails", "thrower", "safe"}
Culprit(name) ==
    CASE name = "fails" -> CallFn("fails", <<Num(4)>>)
      [] name = "thrower" -> If(<<Branch(BoolLit(TRUE), Stmts(<<Throw(Num(5))>>))>>, Tail1(Num(0)))
      [] name = "safe" -> CallFn("safe", <<Num(6)>>)

Positions == {"left", "right", "argument", "element", "field", "index", "nested", "subject"}
At(place, e) ==
    CASE place = "left" -> Add(e, Num(1))
      [] place = "right" -> Add(Num(1), e)
      [] place = "argument" -> CallFn("sum3", <<Num(1), e, Num(2)>>)
      [] place = "element" -> IndexOf(TupleOf(<<Num(1), Num(2), e>>), Num(1))
      [] place = "field" -> FieldOf(Point(Num(1), e), 2)
      [] place = "index" -> IndexOf(ArrayOf(<<Num(1), Num(2)>>), Bin("sub", e, Num(6)))
      [] place = "nested" -> Add(Num(1), CallFn("sum3", <<Num(1), Bin("mul", Num(2), e), Num(3)>>))
      [] place = "subject" -> Match(e, <<Arm(Bind("m"), Absent, Add(V("m"), V("r")))>>)

Sum3 == Fn("sum3", <<"a", "b", "c">>, Tail1(Add(V("a"), Add(V("b"), V("c")))))

\* 1 + { try { r = <culprit at position> } catch (e: int) { r = r + e }; r }
OperandOf(s) ==
    Named(s, <<Let("r", Num(0)),
               Set("r", Add(Num(1),
                   Block(<<Try(Stmts(<<Set("r", At(s[2], Culprit(s[1])))>>),
                               <<CatchInt("e", Stmts(<<Set("r", Add(V("r"), V("e")))>>))>>,
                               Absent)>>, V("r"))))>>, <<Fails, Safe, Sum3>>)

OperandNames == Culprits \X Positions

-----------------------------------------------------------------------------
(* A return from a try region into one of the caller *)

ReturnIntoRegion ==
    Named(<<"back">>,
          <<Let("r", Num(0)),
            Try(Stmts(<<Set("r", CallFn("back", <<Num(5)>>)), Note(1)>>),
                <<CatchInt("e", Stmts(<<Note(2)>>))>>, Absent)>>, <<Back>>)

-----------------------------------------------------------------------------
(* Other features of the language *)

R == Let("r", Num(0))

Tour == {
    Named(<<"guards">>,
          <<R, Let("p", Point(Num(3), Num(4))),
            Set("r", Match(V("p"),
                <<Arm(StructPat("VmPoint", <<FieldPat(1, "u", Absent)>>), Bin("gt", V("u"), Num(3)), Num(1)),
                  Arm(StructPat("VmPoint", <<FieldPat(1, "s", Absent), FieldPat(2, "t", Bind("w"))>>),
                      Absent, Bin("mul", V("s"), V("w")))>>))>>, <<>>),
    Named(<<"upvalues">>,
          <<R, Let("l", Lambda(<<"a">>, Block(
                  <<Let("m", Lambda(<<"b">>, Block(<<Set("a", Add(V("a"), V("b")))>>,
                                                   Add(V("a"), V("r")))))>>,
                  CallFn("m", <<V("a")>>)))),
            Set("r", CallFn("l", <<Num(4)>>))>>, <<>>),
    Named(<<"short circuit">>,
          <<R, When(Bin("or", Bin("gt", Assign("r", Add(V("r"), Num(1))), Num(0)),
                              Bin("gt", Assign("r", Num(9)), Num(0))), <<Note(2)>>, V("r")),
            When(Bin("and", Bin("lt", V("r"), Num(0)), Bin("gt", Assign("r", Num(9)), Num(0))),
                 <<Note(3)>>, V("r"))>>, <<>>),
    Named(<<"division">>,
          <<Let("r", Bin("div", Unary("neg", "int", Num(7)), Num(2))),
            Set("r", Bin("mod", V("r"), Num(0)))>>, <<>>),
    Named(<<"bounds">>, <<R, Set("r", IndexOf(ArrayOf(<<Num(1)>>), Num(1)))>>, <<>>),
    Named(<<"uncaught">>, <<R, Try(Stmts(<<Throw(Num(1))>>), <<Catch("e", "bool", Stmts(<<>>))>>,
                                   Absent)>>, <<>>),
    Named(<<"aliases">>,
          <<R, Let("a", ArrayOf(<<Num(1), Num(2)>>)), Let("b", TupleOf(<<V("a"), V("a")>>)),
            For("x", V("b"), Stmts(<<Set("r", Add(V("r"), IndexOf(V("x"), Num(1))))>>))>>, <<>>)}

\* An array is not equal to itself for the machine.
Identity ==
    Named(<<"identity">>, <<R, Let("a", ArrayOf(<<Num(1)>>)),
                            When(Bin("ne", V("a"), V("a")), <<Note(1)>>, V("r"))>>, <<>>)

=============================================================================
