------------------------------ MODULE Language ------------------------------
(***************************************************************************)
(* The script language: its syntax trees, its values, and what a program   *)
(* computes, defined on the tree alone.  Compiler and Machine produce and  *)
(* run instructions; this module says what those have to compute.          *)
(*                                                                         *)
(* The operands and operators of an expression are kept in a flat list, as *)
(* the parser reads them: what binds tighter is part of the meaning.       *)
(***************************************************************************)
EXTENDS Integers, Sequences, SequencesExt

(***************************************************************************)
(* Syntax.  An operand is a constant, a name or a chain of selections and  *)
(* calls; an expression is <<operand, operator, operand, ...>>.            *)
(***************************************************************************)
Num(n) == [k |-> "num", n |-> n]
Str(s) == [k |-> "str", s |-> s]
Lit(w) == [k |-> w]                    \* "nil", "false", "true"
Name(x) == [k |-> "name", x |-> x]
Paren(e) == [k |-> "paren", e |-> e]
Not(o) == [k |-> "not", o |-> o]
LenOf(o) == [k |-> "len", o |-> o]
New(items) == [k |-> "new", items |-> items]       \* [e, e, ...]
Dot(o, x) == [k |-> "dot", o |-> o, x |-> x]       \* o.x
At(o, e) == [k |-> "at", o |-> o, e |-> e]         \* o[e]
Next1(o) == [k |-> "next", o |-> o]                \* o[], only assigned to
Apply(o, args) == [k |-> "call", o |-> o, args |-> args]
Fun(params, b) == [k |-> "fun", params |-> params, b |-> b]

Local(xs, es) == [s |-> "local", xs |-> xs, es |-> es]
LocalFun(x, params, b) == [s |-> "localfun", x |-> x, params |-> params, b |-> b]
GlobalFun(x, params, b) == [s |-> "function", x |-> x, params |-> params, b |-> b]
Assign(ts, es) == [s |-> "assign", ts |-> ts, es |-> es]
Do(o) == [s |-> "do", o |-> o]                     \* a call as a statement
If(arms, other) == [s |-> "if", arms |-> arms, other |-> other]
While(e, b) == [s |-> "while", e |-> e, b |-> b]
For(init, e, inc, b) == [s |-> "for", init |-> init, e |-> e, inc |-> inc, b |-> b]
Foreach(e, key, val, b) == [s |-> "foreach", e |-> e, key |-> key, val |-> val, b |-> b]
Break == [s |-> "break"]
Continue == [s |-> "continue"]
Return(es) == [s |-> "return", es |-> es]

Arithmetic == {"+", "-", "*", "%"}
Comparison == {"<", ">", "<=", ">=", "==", "!="}
Logical == {"&&", "||"}
Binary == Arithmetic \cup Comparison \cup Logical
-----------------------------------------------------------------------------
(***************************************************************************)
(* Values and stores.  A table is the sequence of its entries in the order *)
(* in which they are visited; tables and closures are known by their       *)
(* number.                                                                 *)
(***************************************************************************)
NumV(n) == <<"num", n>>
StrV(s) == <<"str", s>>
BoolV(b) == <<"bool", IF b THEN 1 ELSE 0>>
TblV(t) == <<"tbl", t>>
FunV(f) == <<"fun", f>>
NilV == <<"nil", 0>>

IsTbl(v) == v[1] = "tbl"
IsFun(v) == v[1] = "fun"
IsKey(v) == v[1] \in {"num", "str"}

\* ttisfalse: nil and false, and nothing else.
Falsy(v) == v = NilV \/ v = BoolV(FALSE)

\* obj2fnum, for values the machine does not warn about.
AsNum(v) == IF v[1] = "num" THEN v[2] ELSE 0

\* vm_cmp_quick: with nil every comparison is false; values of two types are
\* "less" in the order of rbtO_rawcmp, which is -1.
Compare(a, b, op) ==
    LET sign == IF a[1] # b[1] THEN -1
                ELSE IF a[1] = "str" THEN (IF a = b THEN 0 ELSE -1)
                ELSE IF a[2] < b[2] THEN -1 ELSE IF a[2] = b[2] THEN 0 ELSE 1
    IN  /\ a # NilV /\ b # NilV
        /\ CASE op = "<" -> sign = -1 [] op = ">" -> sign = 1
             [] op = "<=" -> sign # 1 [] op = ">=" -> sign # -1
             [] op = "==" -> sign = 0 [] op = "!=" -> sign # 0

\* vm_add_quick, vm_minus_quick, vm_multi, vm_remainder.
Arith(a, b, op) ==
    LET x == AsNum(a)  y == AsNum(b)
        m == IF y <= 0 THEN 1 ELSE y
    IN  CASE op = "+" -> NumV(x + y) [] op = "-" -> NumV(x - y) [] op = "*" -> NumV(x * y)
          [] op = "%" -> NumV(IF x >= 0 THEN x % m ELSE -((-x) % m))

\* rbtH_getstr and rbtH_getnum on the entries of a table.
Lookup(entries, key) ==
    LET at == {i \in DOMAIN entries : entries[i][1] = key}
    IN  IF at = {} THEN NilV ELSE entries[CHOOSE i \in at : TRUE][2]

\* rbtH_set: an entry keeps its place, also with the value nil.
Stored(entries, key, v) ==
    LET at == {i \in DOMAIN entries : entries[i][1] = key}
    IN  IF at = {} THEN Append(entries, <<key, v>>)
        ELSE [entries EXCEPT ![CHOOSE i \in at : TRUE] = <<key, v>>]

\* rbtH_setnextnum: the first number from 0 whose value is nil.
FirstFree(entries) ==
    CHOOSE n \in 0..Len(entries) :
        /\ Lookup(entries, NumV(n)) = NilV
        /\ \A j \in 0..(n - 1) : Lookup(entries, NumV(j)) # NilV

\* rbtH_next: the first entry behind i whose value is not nil, or 0.
Following(entries, i) ==
    LET more == {j \in DOMAIN entries : j > i /\ entries[j][2] # NilV}
    IN  IF more = {} THEN 0 ELSE CHOOSE j \in more : \A n \in more : j <= n

\* rbtH_count.
CountOf(entries) == Len(SelectSeq(entries, LAMBDA e : e[2] # NilV))
-----------------------------------------------------------------------------
(***************************************************************************)
(* The meaning of programs.  An environment holds the locals, the globals, *)
(* the tables, the closures, how control leaves a statement and the values *)
(* a function returns.                                                     *)
(***************************************************************************)
Empty == [x \in {} |-> NilV]
EmptyEnv == [loc |-> Empty, glob |-> Empty, tbl |-> <<>>, fun |-> <<>>,
             self |-> NilV, ctl |-> "go", ret |-> <<>>]

Bound(f, x) == IF x \in DOMAIN f THEN f[x] ELSE NilV
Bind(f, x, v) == [y \in DOMAIN f \cup {x} |-> IF y = x THEN v ELSE f[y]]

\* What an expression yields: an environment and values.
Yield1(env, v) == [env |-> env, v |-> v]
\* What comes after it is given both.
Then(y, After(_, _)) == After(y.env, y.v)

\* How tightly an operator binds; operators of one level group to the left.
Tightness(op) == CASE op \in Logical -> 1 [] op \in Comparison -> 2
                   [] op \in {"+", "-"} -> 3 [] OTHER -> 4

\* The operator of a list that is applied last: the last of the loosest ones.
LastApplied(list) ==
    LET ops == {i \in DOMAIN list : i % 2 = 0}
    IN  CHOOSE i \in ops : \A j \in ops :
            \/ Tightness(list[i]) < Tightness(list[j])
            \/ Tightness(list[i]) = Tightness(list[j]) /\ i >= j

RECURSIVE Eval(_, _), Operand(_, _), Run(_, _), RunAll(_, _), Loop(_, _, _), Visit(_, _, _, _)

EvalAll(env, list) ==
    FoldLeft(LAMBDA y, x : Then(Eval(y.env, x), LAMBDA e, v : Yield1(e, Append(y.v, v))),
             Yield1(env, <<>>), list)

\* A call of closure f for the table self; a function that returns nothing is
\* only called as a statement.
Called(env, f, self, args) ==
    LET c == env.fun[f[2]]
        inner == RunAll([env EXCEPT !.loc = [x \in ToSet(c.params) |->
                            LET i == CHOOSE j \in DOMAIN c.params : c.params[j] = x
                            IN  IF i <= Len(args) THEN args[i] ELSE NilV],
                          !.self = self, !.ctl = "go", !.ret = <<>>], c.b)
    IN  [inner EXCEPT !.loc = env.loc, !.self = env.self, !.ctl = "go"]
Result(env) == Yield1(env, IF env.ret = <<>> THEN NilV ELSE env.ret[1])

Closure(env, params, b) ==
    Yield1([env EXCEPT !.fun = Append(@, [params |-> params, b |-> b, self |-> NilV])],
           FunV(Len(env.fun) + 1))

\* Reading a function out of a table makes the table its self.
Fetched(env, t, key) ==
    LET v == IF IsTbl(t) THEN Lookup(env.tbl[t[2]], key) ELSE NilV
    IN  Yield1(IF IsFun(v) THEN [env EXCEPT !.fun[v[2]].self = t] ELSE env, v)

Operand(env, o) ==
    CASE o.k = "num" -> Yield1(env, NumV(o.n))
      [] o.k = "str" -> Yield1(env, StrV(o.s))
      [] o.k = "nil" -> Yield1(env, NilV)
      [] o.k \in {"true", "false"} -> Yield1(env, BoolV(o.k = "true"))
      [] o.k = "name" ->
            Yield1(env, IF o.x = "self" THEN env.self
                        ELSE IF o.x \in DOMAIN env.loc THEN env.loc[o.x] ELSE Bound(env.glob, o.x))
      [] o.k = "paren" -> Eval(env, o.e)
      [] o.k = "not" -> Then(Operand(env, o.o), LAMBDA e, v : Yield1(e, BoolV(Falsy(v))))
      [] o.k = "len" ->
            Then(Operand(env, o.o),
                 LAMBDA e, v : Yield1(e, NumV(IF IsTbl(v) THEN CountOf(e.tbl[v[2]]) ELSE 1)))
      [] o.k = "dot" -> Then(Operand(env, o.o), LAMBDA e, t : Fetched(e, t, StrV(o.x)))
      [] o.k = "at" ->
            Then(Operand(env, o.o), LAMBDA e, t : Then(Eval(e, o.e), LAMBDA f, key : Fetched(f, t, key)))
      [] o.k = "new" ->
            LET id == Len(env.tbl) + 1
                Add(entries, v) == Append(entries, <<NumV(Len(entries)), v>>)
            IN  Then(EvalAll([env EXCEPT !.tbl = Append(@, <<>>)], o.items),
                     LAMBDA e, vs : Yield1([e EXCEPT !.tbl[id] = FoldLeft(Add, <<>>, vs)], TblV(id)))
      [] o.k = "fun" -> Closure(env, o.params, o.b)
      [] o.k = "call" ->
            Then(Operand(env, o.o), LAMBDA e, f :
                 Then(EvalAll(e, o.args), LAMBDA g, args :
                      IF IsFun(f) THEN Result(Called(g, f, g.fun[f[2]].self, args)) ELSE Yield1(g, NilV)))

\* && and || look at the right side only when they have to, and answer with
\* the left side as it is, or with the truth value of the right one.
Eval(env, list) ==
    IF Len(list) = 1 THEN Operand(env, list[1])
    ELSE LET i == LastApplied(list)
             op == list[i]
             Value(v, w) == CASE op \in Logical -> BoolV(~Falsy(w))
                              [] op \in Comparison -> BoolV(Compare(v, w, op))
                              [] OTHER -> Arith(v, w, op)
         IN  Then(Eval(env, SubSeq(list, 1, i - 1)), LAMBDA e, v :
                  IF (op = "&&" /\ Falsy(v)) \/ (op = "||" /\ ~Falsy(v)) THEN Yield1(e, v)
                  ELSE Then(Eval(e, SubSeq(list, i + 1, Len(list))), LAMBDA f, w : Yield1(f, Value(v, w))))

\* The place a target of an assignment denotes: a name, or a table and a key.
Place(env, t) ==
    CASE t.k = "name" -> Yield1(env, <<"name", t.x>>)
      [] t.k = "dot" -> Then(Operand(env, t.o), LAMBDA e, v : Yield1(e, <<"slot", v, StrV(t.x)>>))
      [] t.k = "at" -> Then(Operand(env, t.o), LAMBDA e, v :
                            Then(Eval(e, t.e), LAMBDA f, key : Yield1(f, <<"slot", v, key>>)))
      [] t.k = "next" -> Then(Operand(env, t.o), LAMBDA e, v : Yield1(e, <<"free", v>>))

Put(env, place, v) ==
    CASE place[1] = "name" ->
            IF place[2] \in DOMAIN env.loc THEN [env EXCEPT !.loc[place[2]] = v]
            ELSE [env EXCEPT !.glob = Bind(@, place[2], v)]
      [] ~IsTbl(place[2]) \/ (place[1] = "slot" /\ ~IsKey(place[3])) -> env
      [] place[1] = "slot" -> [env EXCEPT !.tbl[place[2][2]] = Stored(@, place[3], v)]
      [] OTHER -> [env EXCEPT !.tbl[place[2][2]] = Stored(@, NumV(FirstFree(@)), v)]

\* a, b = e, f: the places are found first, then the values, and the last
\* target is stored to first.
Assigned(env, ts, es) ==
    LET places == FoldLeft(LAMBDA y, t : Then(Place(y.env, t), LAMBDA e, p : Yield1(e, Append(y.v, p))),
                           Yield1(env, <<>>), ts)
    IN  Then(places, LAMBDA e, ps : Then(EvalAll(e, es), LAMBDA f, vs :
            FoldLeft(LAMBDA g, i : Put(g, ps[i], vs[i]), f, Reverse([i \in 1..Len(ts) |-> i]))))

Stop(env, ctl) == [env EXCEPT !.ctl = ctl]

Run(env, st) ==
    CASE st.s = "local" ->
            Then(EvalAll([env EXCEPT !.loc = FoldLeft(LAMBDA f, x : Bind(f, x, NilV), @, st.xs)], st.es),
                 LAMBDA e, vs : [e EXCEPT !.loc = FoldLeft(LAMBDA f, i : Bind(f, st.xs[i], vs[i]), @,
                                                           [i \in 1..Len(st.es) |-> i])])
      [] st.s = "localfun" ->
            LET c == Closure(env, st.params, st.b) IN [c.env EXCEPT !.loc = Bind(@, st.x, c.v)]
      [] st.s = "function" ->
            LET c == Closure(env, st.params, st.b) IN [c.env EXCEPT !.glob = Bind(@, st.x, c.v)]
      [] st.s = "assign" -> Assigned(env, st.ts, st.es)
      [] st.s = "do" -> Operand(env, st.o).env
      [] st.s = "if" ->
            IF st.arms = <<>> THEN RunAll(env, st.other)
            ELSE Then(Eval(env, st.arms[1][1]), LAMBDA e, v :
                      IF Falsy(v) THEN Run(e, [st EXCEPT !.arms = Tail(@)]) ELSE RunAll(e, st.arms[1][2]))
      [] st.s = "while" -> Loop(env, st, <<>>)
      [] st.s = "for" -> Loop(Run(env, st.init), st, <<st.inc>>)
      [] st.s = "foreach" ->
            Then(Eval(env, st.e), LAMBDA e, t : IF IsTbl(t) THEN Visit(e, st, t[2], 0) ELSE e)
      [] st.s = "break" -> Stop(env, "break")
      [] st.s = "continue" -> Stop(env, "continue")
      [] st.s = "return" -> Then(EvalAll(env, st.es), LAMBDA e, vs : [e EXCEPT !.ctl = "return", !.ret = vs])

RunAll(env, b) ==
    IF b = <<>> \/ env.ctl # "go" THEN env ELSE RunAll(Run(env, Head(b)), Tail(b))

\* One turn of a loop: break and continue end here, return goes on.
Loop(env, st, inc) ==
    LET Turn(body) ==
            CASE body.ctl = "break" -> Stop(body, "go")
              [] body.ctl = "return" -> body
              [] OTHER -> Loop(RunAll(Stop(body, "go"), inc), st, inc)
    IN  Then(Eval(env, st.e), LAMBDA e, v : IF Falsy(v) THEN e ELSE Turn(RunAll(e, st.b)))

\* foreach from entry i on; a loop without a key variable ends at the first
\* false value, since the value is what the loop tests.
Visit(env, st, t, i) ==
    LET j == Following(env.tbl[t], i)
        entry == env.tbl[t][j]
        keyed == IF st.key = "" THEN env.loc ELSE Bind(env.loc, st.key, entry[1])
        ended == [env EXCEPT !.loc = Bind(IF st.key = "" THEN @ ELSE Bind(@, st.key, NilV), st.val, NilV)]
        Turn(body) ==
            CASE body.ctl = "break" -> Stop(body, "go")
              [] body.ctl = "return" -> body
              [] OTHER -> Visit(Stop(body, "go"), st, t, j)
    IN  IF j = 0 THEN ended
        ELSE IF st.key = "" /\ Falsy(entry[2]) THEN [env EXCEPT !.loc = Bind(@, st.val, entry[2])]
        ELSE Turn(RunAll([env EXCEPT !.loc = Bind(keyed, st.val, entry[2])], st.b))

\* What main leaves behind, and what a call of a global function answers.
AfterMain(prog) == RunAll(EmptyEnv, prog.main)
Answer(prog, call) ==
    LET Asked(env) == Result(Called(env, Bound(env.glob, call.f), NilV, call.args)).v
    IN  Asked(AfterMain(prog))
=============================================================================
