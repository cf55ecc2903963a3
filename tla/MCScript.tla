------------------------------ MODULE MCScript ------------------------------
(***************************************************************************)
(* Script programs for the compiler and the machine: families of small     *)
(* programs that put every operator, statement and way to leave a loop in  *)
(* every place where the code generator treats them differently.           *)
(***************************************************************************)
EXTENDS Machine, FiniteSetsExt

CONSTANTS c1, c2, none

N(x) == <<Name(x)>>
Is(n) == <<Num(n)>>
Set(x, e) == Assign(<<Name(x)>>, <<e>>)
Prog(main, calls) == [main |-> main, calls |-> calls]

\* a and b are locals, g and t globals, f and k functions; k counts its calls.
Prelude ==
    <<GlobalFun("f", <<"x">>, <<Return(<< <<Name("x"), "-", Num(1)>> >>)>>),
      GlobalFun("k", <<"x", "y">>,
          <<Set("n", <<Name("n"), "+", Num(1)>>), Return(<<N("y"), N("x")>>)>>),
      Set("n", Is(0)), Set("g", Is(4)),
      Local(<<"a", "b">>, <<Is(2), Is(3)>>),
      Set("t", << New(<<Is(6), Is(8)>>) >>),
      Assign(<<Dot(Name("t"), "x")>>, <<Is(7)>>)>>

F(e) == Apply(Name("f"), <<e>>)
K2(e, h) == Apply(Name("k"), <<e, h>>)

Triples ==
    {<<Name("a"), Name("b"), Name("g")>>, <<Name("g"), Num(3), Name("a")>>,
     <<Num(5), F(N("a")), Dot(Name("t"), "x")>>, <<F(N("g")), Name("b"), F(Is(1))>>,
     <<At(Name("t"), Is(1)), Name("g"), K2(N("a"), <<F(N("b"))>>)>>,
     <<Lit("nil"), Not(Name("u")), K2(Is(1), Is(9))>>,
     <<Paren(<<Name("a"), "<", Num(1)>>), K2(Is(1), Is(0)), Lit("true")>>,
     <<Name("b"), LenOf(Name("t")), Paren(<<Name("g"), "-", Name("a"), "*", Num(2)>>)>>}

Ops == {"+", "-", "*", "<", "==", "&&", "||"}

\* The three places a value can go to, and a loop that tests it.
Targets(e) ==
    <<Set("r", e), Set("a", e), Set("s", N("a")), Assign(<<Dot(Name("t"), "y")>>, <<e>>),
      Assign(<<At(Name("t"), N("b"))>>, <<N("b")>>),
      If(<< <<e, <<Set("z", Is(1))>> >> >>, <<Set("z", Is(2))>>)>>

Expressions ==
    {Prog(Prelude \o Targets(<<o[1], op, o[2], oq, o[3]>>), <<>>) : o \in Triples, op \in Ops, oq \in Ops}
    \cup {Prog(Prelude \o Targets(<<Name("a"), op, Name("g"), oq, Num(2), oz, F(Is(3))>>), <<>>) :
            op \in {"+", "*", "<"}, oq \in {"-", "%", "&&", "=="}, oz \in {"*", "+", ">", "||"}}

\* Loops around every way to leave a turn, alone or in an arm of an if.
Leaving == {<<Break>>, <<Continue>>, <<Set("s", <<Name("s"), "*", Num(2)>>)>>,
            <<If(<< <<<<Name("i"), ">", Num(1)>>, <<Break>> >> >>, <<Continue>>)>>}
Body(x, out, els) ==
    <<If(<< <<<<Name(x), "==", Num(2)>>, out>>, <<<<Name(x), "==", Num(3)>>, els>> >>, <<Set("o", N(x))>>),
      Set("s", <<Name("s"), "+", Name(x)>>)>>
Inc(x) == Set(x, <<Name(x), "+", Num(1)>>)

Loops(x, out, els) ==
    {<<While(<<Name(x), "<", Num(4)>>, <<Inc(x)>> \o Body(x, out, els))>>,
     <<For(Set(x, Is(0)), <<Name(x), "<=", Num(4), "&&", Name("s"), "<", Num(20)>>, Inc(x), Body(x, out, els))>>,
     <<Foreach(<<New(<<Is(1), Is(2), Is(3), Is(4)>>)>>, "", x, Body(x, out, els))>>,
     <<Foreach(N("t"), "j", x, Body(x, out, els) \o <<Set("o", N("j"))>>)>>,
     <<For(Set("j", Is(0)), <<Name("j"), "<", Num(2)>>, Inc("j"),
           <<Set(x, Is(0)), While(<<Not(Paren(<<Name(x), ">=", Num(3)>>))>>, <<Inc(x)>> \o Body(x, out, els)),
             If(<< <<<<Name("s"), ">", Num(30)>>, <<Break>> >> >>, <<Set("q", N("s"))>>)>>)>>}

Flow ==
    {Prog(<<Local(<<"i", "j">>, <<Is(0), Is(0)>>), Set("s", Is(0)),
            Set("t", <<New(<<Is(1), Is(2), Is(3)>>)>>)>> \o l \o <<Set("e", N("i"))>>, <<>>) :
       l \in UNION {Loops("i", out, els) : out \in Leaving, els \in Leaving}}

\* Functions: recursion, inner functions, methods, arguments that are missing.
Functions ==
    {Prog(<<GlobalFun("h", <<"x", "y">>,
              <<If(<< <<<<Name("x"), "<", Num(1)>>, <<Return(<<N("y")>>)>> >> >>, <<>>),
                Return(<< <<Apply(Name("h"), << <<Name("x"), "-", Num(1)>>, <<Name("y"), "*", Name("x")>> >>),
                            op, Name("x")>> >>)>>),
            Set("r", <<Num(1), op, Apply(Name("h"), <<Is(3), Is(1)>>)>>)>>,
          <<[f |-> "h", args |-> <<NumV(2), NumV(5)>>]>>) : op \in {"+", "-", "<", "&&"}}
    \cup
    {Prog(<<Set("t", <<New(<<>>)>>), Set("u", <<New(<<>>)>>),
            Assign(<<Dot(Name("t"), "m")>>,
                   << <<Fun(<<"v">>, <<Assign(<<Dot(Name("self"), "v")>>, <<N("v")>>),
                                        Return(<< <<Dot(Name("self"), "v"), op, Num(1)>> >>)>>)>> >>),
            Assign(<<Dot(Name("u"), "m")>>, << <<Dot(Name("t"), "m")>> >>),
            Do(Apply(Dot(Name("u"), "m"), <<Is(2)>>)),
            Set("r", <<Apply(Dot(Name("t"), "m"), <<Is(7)>>)>>),
            LocalFun("q", <<"x">>, <<Local(<<"y">>, << <<Name("x"), op, Num(2)>> >>), Return(<<N("y")>>)>>),
            Assign(<<Name("c"), At(Name("t"), Is(0)), Next1(Name("t"))>>,
                   << <<Apply(Name("q"), <<Is(9)>>)>>, Is(5), <<Name("r"), "+", Num(1)>> >>),
            Set("l", <<LenOf(Name("t"))>>), Set("w", <<Dot(Name("nothing"), "x")>>)>>, <<>>) : op \in Ops}

\* Calls of the host that overlap at their sleeps; one leaves out an argument,
\* one sleeps without a time.
W(op, time) ==
    GlobalFun("w", <<"x", "y">>,
        <<Local(<<"a">>, <<N("y")>>),
          If(<< <<N("a"), <<Set("a", <<Name("a"), op, Name("x")>>)>> >> >>, <<Set("a", Is(7))>>),
          Do(Apply(Name("sleep"), <<time>>)),
          Return(<< <<Name("a"), "+", Apply(Name("v"), <<N("a"), N("x")>>)>> >>)>>)
V(time) ==
    GlobalFun("v", <<"p", "q">>,
        <<Do(Apply(Name("sleep"), <<time>>)), Return(<< <<Name("p"), "*", Name("q")>> >>)>>)
Sleepers ==
    {Prog(<<W(op, time), V(Is(1))>>,
          <<[f |-> "w", args |-> <<NumV(3), NumV(4)>>], [f |-> "w", args |-> <<NumV(5)>>],
            [f |-> "v", args |-> <<NumV(2), NumV(6)>>]>>) : op \in {"+", "*"}, time \in {Is(2), <<Str("now")>>}}

MCPrograms == Expressions \cup Flow \cup Functions \cup Sleepers
MCContexts == {c1, c2}
=============================================================================
