----------------------------- MODULE MCPlayground -----------------------------
(***************************************************************************)
(* TiaraPlayground for TLC: the sources the user writes.  p is a pointer,   *)
(* n and m are numbers, x and y locals.                                    *)
(***************************************************************************)
EXTENDS TiaraPlayground

p == Id("p")   n == Id("n")   m == Id("m")   x == Id("x")   y == Id("y")   i == Id("i")
Of(k) == Index(p, k)
Add(a, b) == Bin(a, "+", b)
(* Sequences are concatenated for TLC to keep their elements as computed.  *)
ForAll(s, f(_)) == [k \in DOMAIN s |-> f(s[k])] \o <<>>
Pairs(s, t, f(_, _)) ==
    [k \in 1 .. Len(s) * Len(t) |-> f(s[((k - 1) \div Len(t)) + 1], t[((k - 1) % Len(t)) + 1])] \o <<>>

F(body) == Func(<<Param("p", TRUE), Param("n", FALSE), Param("m", FALSE)>>, body)
Value1(e) == F(<<Return(e)>>)

(* Every pair of operators, in both groupings.                             *)
COps == <<"+", "-", "*", "&", "|", "^", "<<", ">>", "==", "<", ">=">>
Groupings == Pairs(COps, COps, LAMBDA o, q : Value1(Bin(Bin(n, o, m), q, Const(3))))
               \o Pairs(COps, COps, LAMBDA o, q : Value1(Bin(n, o, Bin(m, q, Const(2)))))
Unaries == Pairs(<<"-", "!">>, <<"-", "!">>, LAMBDA o, q : Value1(Un(o, Un(q, n))))
             \o Pairs(<<"-", "!">>, COps, LAMBDA o, q : Value1(Bin(Un(o, n), q, Un("-", Const(5)))))
             \o ForAll(COps, LAMBDA q : Value1(Un("!", Bin(n, q, m))))
Addresses == ForAll(<<Const(2), n, Add(n, Const(1)), Cast(m)>>,
                    LAMBDA k : Value1(Bin(Of(k), "-", Of(Bin(n, "-", Const(2))))))

(* Statements on x, in every order.                                        *)
XOp(o, e) == Assign(x, o, e)
X(e) == XOp("=", e)
Count(k, body) == For("i", k, body)
Simple == <<X(Add(x, n)), XOp("-=", Const(2)), XOp("^=", Of(Const(1))), X(Of(n)), IncDec("x", 1),
           Assign(Of(Const(2)), "=", x), Assign(Of(Const(1)), "+=", x), Assign(Of(n), "=", n),
           X(Call("tiara_caa", <<p, x>>)), X(Call("tiara_cas", <<p, n, x>>)),
           X(Call("tiara_andi", <<x, Const(6)>>)),
           ExprCall(Call("tiara_memcpy", <<p, Add(p, Const(16)), Const(16), Const(1)>>)),
           ExprCall(Call("tiara_wait", <<Const(0)>>)),
           ExprCall(Call("tiara_set_result", <<Const(4), x>>))>>
Nested == <<Count(n, <<XOp("+=", Const(2))>>), Count(Const(2), <<X(Add(x, i))>>),
           If(Bin(x, "==", n), <<X(Const(1))>>), If(Un("!", x), <<X(m), Return(n)>>),
           If(Bin(x, "<", m), <<IncDec("x", -1)>>), If(Const(1), <<X(Bin(m, "*", x))>>),
           Count(Const(2), <<Count(n, <<XOp("+=", m)>>), If(x, <<XOp("-=", Const(1))>>)>>),
           Count(n, <<If(Bin(x, ">=", m), <<Return(x)>>), IncDec("x", 1)>>),
           Count(n, <<X(Call("tiara_caa", <<p, x>>))>>),
           If(Bin(x, "<", m), <<X(Call("tiara_cas", <<p, x, n>>))>>)>>
Body(s) == <<Decl("x", m)>> \o s \o <<Return(x)>>
Steps == Simple \o Nested
Bodies == ForAll(Steps, LAMBDA s : F(Body(<<s>>)))
            \o Pairs(Steps, Steps, LAMBDA s, t : F(Body(<<s, t>>)))

(* What the compiler or the assembler refuses, or what only looks right.    *)
Odd == <<F(<<Return(Bin(n, "/", m))>>), F(<<Return(y)>>), F(<<>>), F(<<Return(NoExpr)>>),
        F(<<Return(Of(Const(20)))>>), F(<<Return(Call("tiara_andi", <<n, Un("-", Const(1))>>))>>),
        F(<<Decl("x", NoExpr), Count(Const(2), <<>>), Return(n)>>), F(<<X(n)>>),
        F(<<ExprCall(Call("tiara_caa", <<p, n>>)), Return(NoExpr)>>),
        F(<<If(n, <<Return(m)>>)>>),
        Func([k \in 1 .. MAX_ARGS + 1 |-> Param("a", FALSE)], <<>>)>>
Letters == <<"a", "b", "c", "d", "e", "f", "g", "h">>
TooMany == ForAll(<<6, 7, 8>>, LAMBDA j :
             F([k \in 1 .. j |-> Decl(Letters[k], Const(k))] \o <<Return(Id("a"))>>))
Shifts == ForAll(<<"<<=", ">>=">>, LAMBDA o : F(<<Decl("x", m), XOp(o, Const(2)), Return(x)>>))

(* Tokens with no tree of their own: ++i, i += 1 and i-- as iterations,     *)
(* else, a unary plus, a loop that does not start at 0.                    *)
Replace(ts, old, new) ==
    LET k == CHOOSE j \in 1 .. Len(ts) : SubSeq(ts, j, j + Len(old) - 1) = old
    IN  SubSeq(ts, 1, k - 1) \o new \o SubSeq(ts, k + Len(old), Len(ts))
OneLoop == Source(F(Body(<<Count(n, <<XOp("+=", Const(2))>>)>>)))
Plus == <<Ident("i"), Punct("++"), Punct(")")>>
Iterations == <<<<Punct("++"), Ident("i")>>, <<Ident("i"), Punct("+="), Num(1)>>,
                <<Ident("i"), Punct("--")>>, <<Ident("i"), Punct("="), Num(9)>>, <<>>>>
Untyped == ForAll(Iterations, LAMBDA it : Replace(OneLoop, Plus, Append(it, Punct(")"))))
             \o <<Replace(OneLoop, <<Num(0)>>, <<Num(1)>>), <<>>,
                  Replace(OneLoop, <<Ident("return")>>, <<Ident("return"), Punct("+")>>),
                  Replace(OneLoop, <<Ident("return")>>, <<Ident("else"), Ident("return")>>),
                  Replace(OneLoop, <<Punct(";")>>, <<>>)>>

atomicIncC == Func(<<Param("base_in_counters", FALSE), Param("delta", FALSE)>>,
                   <<Decl("old", Call("tiara_caa", <<Id("base_in_counters"), Id("delta")>>)),
                     Return(Id("old"))>>)
Trees == <<graphWalkC, STARTER_C, atomicIncC>>
           \o Groupings \o Unaries \o Addresses \o Bodies \o Odd \o TooMany \o Shifts
PgSources == {SourceOf(Trees[k]) : k \in DOMAIN Trees}
               \cup {[tokens |-> Untyped[k], fn |-> NoFunc] : k \in DOMAIN Untyped}
Regions == [q \in {"cur_in_graph_pool"} |-> "graph_pool"] @@ [q \in {"base_in_pool"} |-> "pool"]

(* Assembly written by hand: nothing, a label that leads nowhere, a loop    *)
(* that outlasts the step limit, a missing RET, constants, strides.        *)
PgHand ==
    { <<>>, <<To("JUMP", 1, "nowhere"), Ret(1)>>,
       <<Li(4, 63), To("LOOP", 4, "e"), Li(5, 3), Li(6, 4), At(Name("e")), Ret(5)>>,
       <<Li(1, 3), Ld(2, 1, 5)>>,
       <<Code(".const", <<SymOp(Name("N")), IntOp(9)>>), Code("LI", <<r(1), SymOp(Name("N"))>>),
         Code("MEMCPY", <<r(2), r(1), r(3), KeyOp("DST_STRIDE", r(1)), KeyOp("COUNT", r(1)),
                          KeyOp("LEN", SymOp(Name("N")))>>), Ret(1)>>,
       <<Li(1, 200), Ret(1)>>, <<At(Name("a")), At(Name("a")), Ret(1)>> }

PgArgs == {<<8, 3, 5, 0, 0, 0, 0, 0>>, <<16, 2, 250, 0, 0, 0, 0, 0>>}

(* The user compiles and runs a source; or clicks around.                  *)
Edits == {"editAsm", "editArgs", "preset"}
PgAgendas ==
    {<<{"editC"}, {"editArgs"}, {"compile"}, {"assemble"}, {"run"}>>,
     <<{"preset"}, {"assemble", "editArgs"}, {"run", "assemble"}, {"run"}>>,
     <<{"editAsm"}, {"assemble"}, {"run"}, Clicks \ {"editC"}, Clicks \ {"editC"}>>,
     <<{"run"}, {"compile", "step", "reset"}, Clicks \ {"editC"}, {"reset", "assemble", "step"}, {"run"}>>}
=============================================================================
