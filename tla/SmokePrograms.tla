---------------------------- MODULE SmokePrograms ----------------------------
(***************************************************************************)
(* The smoke programs of tests/vm_smoke.mons, as the parser and the type    *)
(* checker hand them to either back end, and what main.c expects of them.   *)
(* Numbers are integers here: the float literal 2.5 is 25.                  *)
(***************************************************************************)
EXTENDS Syntax

Num(i) == Literal("int", i)
BoolLit(b) == Literal("bool", IF b THEN 1 ELSE 0)
V(x) == Ident(x)
Bin(op, l, r) == Binary(op, "int", l, r)
Add(l, r) == Bin("add", l, r)
Stmts(stmts) == Block(stmts, Absent)
Tail1(e) == Block(<<>>, e)
Set(x, e) == ExprStmt(Assign(x, e))
CallFn(f, args) == CallOf(V(f), args)
IfElse(c, t, e) == If(<<Branch(c, Tail1(t))>>, Tail1(e))
ArrayOf(items) == Sequence("array", items)
TupleOf(items) == Sequence("tuple", items)
CatchInt(name, body) == Catch(name, "int", body)
Point(x, y) == StructInit("VmPoint", <<FieldInit(1, x), FieldInit(2, y)>>, Absent)

Declared(fns) ==
    Source(fns, <<Const("K", Num(7)), Const("FLAG", BoolLit(TRUE))>>,
           <<Struct("VmPoint", <<1, 2>>), Struct("VmBumpCounter", <<3>>)>>)

\* A program that is called by its name, with the functions it needs.
Program(name, stmts, tail, fns) ==
    [name |-> <<name>>, src |-> Declared(<<Fn(name, <<>>, Block(stmts, tail))>> \o fns)]

-----------------------------------------------------------------------------
(* Functions and closures *)

\* The functions of stdlib/core.mons that the programs use.
N == V("n")
Helper(name, params, e) == Fn(name, params, Tail1(e))
Least(op, a, b) == IfElse(Bin(op, a, b), a, b)
Helpers == <<
    Helper("neg", <<"n">>, Bin("sub", Num(0), N)),
    Helper("abs_i", <<"n">>, IfElse(Bin("lt", N, Num(0)), CallFn("neg", <<N>>), N)),
    Helper("square", <<"n">>, Bin("mul", N, N)),
    Helper("mul", <<"a", "b">>, Bin("mul", V("a"), V("b"))),
    Helper("sub", <<"a", "b">>, Bin("sub", V("a"), V("b"))),
    Helper("min_int", <<"a", "b">>, Least("lt", V("a"), V("b"))),
    Helper("max_int", <<"a", "b">>, Least("gt", V("a"), V("b"))),
    Helper("clamp_i", <<"v", "lo", "hi">>,
        If(<<Branch(Bin("lt", V("v"), V("lo")), Tail1(V("lo"))),
             Branch(Bin("gt", V("v"), V("hi")), Tail1(V("hi")))>>, Tail1(V("v"))))>>

Twice == Fn("twice", <<"n">>, Tail1(Add(V("n"), V("n"))))
MkAdder == Fn("mk_adder", <<>>, Tail1(Lambda(<<"y">>, Add(V("y"), V("K")))))
MkAdder2 == Fn("mk_adder2", <<>>,
    Block(<<Let("base", V("K"))>>, Lambda(<<"y">>, Add(V("y"), V("base")))))

AssignCapture ==
    Program("smoke_assign_capture",
        <<Let("n", Num(0)),
          Let("f", Lambda(<<"d">>, Block(<<Set("n", Add(V("n"), V("d")))>>, V("n"))))>>,
        Add(CallFn("f", <<Num(3)>>), CallFn("f", <<Num(2)>>)), <<>>)

Closures == {
    Program("smoke", <<Let("base", V("K")), Let("f", Lambda(<<"x">>, Add(V("x"), V("base"))))>>,
            CallFn("f", <<Num(7)>>), <<>>),
    Program("smoke_use_stdlib", <<>>, CallFn("twice", <<Num(6)>>), <<Twice>>),
    Program("smoke_stdlib_helpers",
            <<Let("a", CallFn("abs_i", <<Unary("neg", "int", Num(11))>>)),
              Let("b", CallFn("clamp_i", <<Num(5), Num(0), Num(10)>>)),
              Let("c", CallFn("square", <<Num(3)>>)),
              Let("d", CallFn("mul", <<CallFn("sub",
                  <<CallFn("max_int", <<Num(7), Num(4)>>), CallFn("min_int", <<Num(3), Num(8)>>)>>),
                  Num(2)>>))>>,
            Add(Add(Add(V("a"), V("b")), V("c")), V("d")), Helpers),
    Program("smoke_infer_unary", <<Let("f", Lambda(<<"n">>, Add(N, Num(1))))>>,
            CallFn("f", <<Num(41)>>), <<>>),
    Program("smoke_hof", <<Let("f", CallFn("mk_adder", <<>>))>>, CallFn("f", <<Num(5)>>), <<MkAdder>>),
    Program("smoke_hof_capture", <<Let("f", CallFn("mk_adder2", <<>>))>>, CallFn("f", <<Num(10)>>),
            <<MkAdder2>>),
    Program("smoke_infer_pair",
            <<Let("add", Lambda(<<"a", "b">>, Add(Add(V("a"), Num(0)), V("b"))))>>,
            CallFn("add", <<Num(40), Num(2)>>), <<>>),
    Program("smoke_pipe_closure", <<Let("x", Num(12)), Let("d", Lambda(<<>>, V("x")))>>,
            CallFn("d", <<>>), <<>>),
    Program("smoke_nested",
            <<Let("outer", Lambda(<<"a">>,
                  Block(<<Let("inner", Lambda(<<"b">>, Add(V("a"), V("b"))))>>,
                        CallFn("inner", <<Num(3)>>))))>>,
            CallFn("outer", <<Num(10)>>), <<>>)}

-----------------------------------------------------------------------------
(* Control flow and variables *)

Control == {
    Program("smoke_ctrl",
            <<Let("a", IfElse(Bin("lt", Num(1), Num(0)), Num(10), Num(20))),
              Let("b", IfElse(Bin("and", Bin("eq", V("a"), Num(20)), Bin("eq", Num(1), Num(1))),
                              Num(3), Num(0))),
              Let("c", IfElse(Bin("or", BoolLit(FALSE), BoolLit(TRUE)), Add(V("b"), Num(1)), Num(0))),
              Let("d", If(<<Branch(BoolLit(FALSE), Tail1(Num(0))),
                            Branch(BoolLit(TRUE), Tail1(Num(5)))>>, Tail1(Num(9))))>>,
            IfElse(Unary("not", "bool", BoolLit(FALSE)), Add(Add(V("a"), V("c")), V("d")), Num(0)),
            <<>>),
    Program("smoke_if_return_then", <<>>,
            If(<<Branch(BoolLit(TRUE), Stmts(<<Return(Num(10))>>))>>, Tail1(Num(20))), <<>>),
    Program("smoke_if_return_else", <<>>,
            If(<<Branch(BoolLit(FALSE), Stmts(<<Return(Num(10))>>))>>, Stmts(<<Return(Num(20))>>)),
            <<>>),
    Program("smoke_if_return_mixed", <<>>,
            If(<<Branch(BoolLit(TRUE), Stmts(<<Return(Num(5))>>))>>, Tail1(Num(10))), <<>>),
    Program("smoke_assign", <<Let("x", Num(1)), Set("x", Add(V("x"), Num(4)))>>, V("x"), <<>>),
    Program("smoke_block_expr",
            <<Let("x", Block(<<Let("y", Num(10))>>, Add(V("y"), V("y")))),
              Let("z", IfElse(V("FLAG"), Num(2), Num(0)))>>, Add(V("x"), V("z")), <<>>)}

-----------------------------------------------------------------------------
(* Composite values and match *)

Sum == Method("VmPoint", "sum", <<"self">>,
              Tail1(Add(FieldOf(V("self"), 1), FieldOf(V("self"), 2))))
PointXY == Fn("vm_point_xy", <<>>, Tail1(Point(Num(5), Num(7))))
Bump == Method("VmBumpCounter", "vm_bump", <<"self">>, Tail1(Add(FieldOf(V("self"), 3), Num(1))))

SumLoop(name, items) ==
    Program(name, <<Let("a", items), Let("s", Num(0)),
                    For("x", V("a"), Stmts(<<Set("s", Add(V("s"), V("x")))>>))>>, V("s"), <<>>)

Composites == {
    Program("smoke_struct", <<Let("p", Point(Num(30), Num(12)))>>, MethodCall(2, V("p"), <<>>), <<Sum>>),
    Program("smoke_struct_field_named", <<>>,
            Add(FieldOf(CallFn("vm_point_xy", <<>>), 1), FieldOf(CallFn("vm_point_xy", <<>>), 2)),
            <<PointXY>>),
    Program("smoke_struct_spread",
            <<Let("p", Point(Num(3), Num(4))),
              Let("q", StructInit("VmPoint", <<FieldInit(1, Num(10))>>, V("p")))>>,
            Add(FieldOf(V("q"), 1), FieldOf(V("q"), 2)), <<>>),
    SumLoop("smoke_for_sum", ArrayOf(<<Num(1), Num(2), Num(3), Num(4)>>)),
    SumLoop("smoke_for_tuple_sum", TupleOf(<<Num(1), Num(2), Num(3)>>)),
    Program("smoke_array_index", <<Let("a", ArrayOf(<<Num(10), Num(20), Num(30)>>))>>,
            Add(IndexOf(V("a"), Num(0)), IndexOf(V("a"), Num(2))), <<>>),
    Program("smoke_tuple_index", <<Let("t", TupleOf(<<Num(3), Num(5), Num(7)>>))>>,
            Add(IndexOf(TupleOf(<<Num(10), Num(1)>>), Num(0)),
                Bin("mul", IndexOf(V("t"), Num(0)), IndexOf(V("t"), Num(1)))), <<>>),
    Program("smoke_float_sum", <<>>,
            Binary("add", "float", Literal("float", 25), Literal("float", 25)), <<>>),
    Program("smoke_double_half", <<>>,
            Binary("div", "double", Literal("double", 10), Literal("double", 2)), <<>>),
    Program("smoke_match_bool", <<Let("b", BoolLit(TRUE))>>,
            Match(V("b"), <<Arm(LiteralPat(BoolLit(FALSE)), Absent, Num(0)),
                            Arm(LiteralPat(BoolLit(TRUE)), Absent, Num(7))>>), <<>>),
    Program("smoke_match_int", <<>>,
            Match(Num(3), <<Arm(LiteralPat(Num(0)), Absent, Num(0)),
                            Arm(Bind("n"), Absent, Add(V("n"), Num(10)))>>), <<>>),
    Program("smoke_match_option_none", <<Let("x", Literal("none", 0))>>,
            Match(V("x"), <<Arm(NonePat, Absent, Num(2)), Arm(Wildcard, Absent, Num(0))>>), <<>>),
    Program("smoke_trait_bump",
            <<Let("c", StructInit("VmBumpCounter", <<FieldInit(3, Num(4))>>, Absent))>>,
            MethodCall(2, V("c"), <<>>), <<Bump>>)}

-----------------------------------------------------------------------------
(* Exceptions *)

ThrowInt == Fn("vm_throw_int", <<>>,
    Block(<<Try(Stmts(<<Throw(Num(11))>>), <<CatchInt("e", Stmts(<<Throw(V("e"))>>))>>, Absent)>>, Num(0)))

CrossCall ==
    Program("smoke_try_catch_cross_call",
            <<Let("out", Num(1)),
              Try(Stmts(<<ExprStmt(CallFn("vm_throw_int", <<>>))>>),
                  <<CatchInt("e", Stmts(<<Set("out", Add(V("e"), Num(1)))>>))>>, Absent)>>,
            V("out"), <<ThrowInt>>)

OverriddenReturn ==
    Program("smoke_try_return_overridden_by_finally_throw",
            <<Let("y", Num(0)),
              Try(Stmts(<<Try(Stmts(<<Return(Num(5))>>), <<CatchInt("e", Tail1(Num(0)))>>,
                              Stmts(<<Throw(Num(9))>>))>>),
                  <<CatchInt("e", Stmts(<<Set("y", V("e"))>>))>>, Absent)>>, V("y"), <<>>)

Exceptions == {
    Program("smoke_try_catch_basic",
            <<Let("out", Num(0)),
              Try(Stmts(<<Throw(Num(9))>>), <<CatchInt("e", Stmts(<<Set("out", V("e"))>>))>>, Absent)>>,
            V("out"), <<>>),
    Program("smoke_try_finally",
            <<Let("x", Num(2)),
              Try(Stmts(<<Set("x", Num(4))>>), <<CatchInt("e", Stmts(<<Set("x", V("e"))>>))>>,
                  Stmts(<<Set("x", Add(V("x"), Num(3)))>>))>>, V("x"), <<>>),
    Program("smoke_try_catch_finally",
            <<Let("x", Num(1)),
              Try(Stmts(<<Throw(Num(7))>>), <<CatchInt("e", Stmts(<<Set("x", Add(V("e"), Num(1)))>>))>>,
                  Stmts(<<Set("x", Bin("mul", V("x"), Num(2)))>>))>>, V("x"), <<>>),
    Program("smoke_try_return",
            <<Try(Stmts(<<Return(Num(40))>>), <<CatchInt("e", Tail1(Num(0)))>>,
                  Stmts(<<Let("_k", Num(1))>>))>>, Num(0), <<>>)}

\* What vm_run_smoke_table expects of the machine.
Result(k, v) == [k |-> k, v |-> v]
IntResult ==
    [smoke |-> 14, smoke_use_stdlib |-> 12, smoke_stdlib_helpers |-> 33, smoke_hof |-> 12,
     smoke_hof_capture |-> 17, smoke_infer_unary |-> 42, smoke_infer_pair |-> 42,
     smoke_pipe_closure |-> 12, smoke_nested |-> 13, smoke_ctrl |-> 29,
     smoke_if_return_then |-> 10, smoke_if_return_else |-> 20, smoke_if_return_mixed |-> 5,
     smoke_assign |-> 5, smoke_assign_capture |-> 8, smoke_block_expr |-> 22,
     smoke_struct |-> 42, smoke_struct_field_named |-> 12, smoke_struct_spread |-> 14,
     smoke_for_sum |-> 10, smoke_array_index |-> 40, smoke_tuple_index |-> 25,
     smoke_for_tuple_sum |-> 6, smoke_match_bool |-> 7, smoke_match_int |-> 13,
     smoke_match_option_none |-> 2, smoke_trait_bump |-> 5, smoke_try_catch_basic |-> 9,
     smoke_try_catch_cross_call |-> 12, smoke_try_finally |-> 7,
     smoke_try_catch_finally |-> 16, smoke_try_return |-> 40]
Rows ==
    {<<<<n>>, Result("int", IntResult[n])>> : n \in DOMAIN IntResult}
    \cup {<<<<"smoke_float_sum">>, Result("float", 50)>>,
          <<<<"smoke_double_half">>, Result("double", 5)>>}

\* On all but three of them the back ends are to agree.
Smoke == Closures \cup Control \cup Composites \cup Exceptions
Disputed == {AssignCapture, CrossCall, OverriddenReturn}

=============================================================================
