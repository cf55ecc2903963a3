------------------------------ MODULE Compiler ------------------------------
(***************************************************************************)
(* The one-pass compiler of scripts: the recursive descent of parser.c,    *)
(* the code generation of code.c and the operand table of opcode.c.        *)
(*                                                                         *)
(* A function being compiled (FuncState) is a record threaded through all  *)
(* operators: its instructions, the first free register, the names of its  *)
(* locals (whose register is their position), its constants, its inner     *)
(* functions, and the breaks and continues of the loop around the code.    *)
(* Registers and constants count from 0, instructions from 1: all jumps    *)
(* are relative.                                                           *)
(***************************************************************************)
EXTENDS Language

NoPc == 0
Open(params) ==
    [code |-> <<>>, free |-> Len(params), loc |-> params, k |-> <<>>, p |-> <<>>,
     nparam |-> 0, loop |-> FALSE, brk |-> <<>>, cont |-> <<>>]

Ins(op, a, b, c) == [op |-> op, a |-> a, b |-> b, c |-> c, ka |-> 0, kb |-> 0, kc |-> 0]
KaKb(i, ka, kb) == [i EXCEPT !.ka = ka, !.kb = kb]

Emit(fs, i) == [fs EXCEPT !.code = Append(@, i)]
Pc(fs) == Len(fs.code) + 1

(***************************************************************************)
(* Expressions while they are compiled: where the value is, or how to get  *)
(* it.  i is a register, or the number of a constant.                      *)
(***************************************************************************)
Exp(tt, i) == [tt |-> tt, i |-> i, ii |-> 0, kb |-> 0, ra |-> FALSE, rb |-> FALSE]
InReg(r) == Exp("norelocate", r)
IsConstant(e) == e.tt \in {"number", "constant"}
DontMove(e) == e.tt = "local" \/ IsConstant(e)
\* What compiling an expression gives: the function so far and where it is.
Done(fs, e) == [fs |-> fs, e |-> e]

\* What comes after the result v; v is computed before it.
Given(v, After(_)) == CHOOSE r \in {After(x) : x \in {v}} : TRUE

MinOf(x, y) == IF x <= y THEN x ELSE y

\* addk: a constant is kept once.
AddK(fs, v) ==
    IF \E i \in DOMAIN fs.k : fs.k[i] = v
    THEN [fs |-> fs, i |-> (CHOOSE i \in DOMAIN fs.k : fs.k[i] = v) - 1]
    ELSE [fs |-> [fs EXCEPT !.k = Append(@, v)], i |-> Len(fs.k)]

Load(e, reg) ==
    CASE e.tt = "local" -> Ins("MOV", reg, e.i, 0)
      [] e.tt = "global" -> Ins("GETGLOBAL", 0, e.i, reg)
      [] IsConstant(e) -> Ins("LOADK", reg, e.i, 0)
      [] e.tt = "nil" -> Ins("SETNIL", reg, 1, 0)
      [] e.tt = "false" -> Ins("SETFALSE", reg, 0, 0)
      [] e.tt = "true" -> Ins("SETTRUE", reg, 0, 0)
      [] e.tt = "newtable" -> Ins("NEWTABLE", 0, 0, reg)

\* The register that a table read may overwrite: those of the table and of the
\* key when they are temporaries.
IndexReg(fs, e) ==
    LET a == e.ra  b == e.rb \/ e.kb = 1
    IN  IF a /\ b THEN fs.free ELSE IF a THEN e.i ELSE IF b THEN e.ii ELSE MinOf(e.i, e.ii)

Exp2NextReg(d) ==
    LET fs == d.fs  e == d.e IN
    CASE e.tt \in {"norelocate", "call"} -> Done(fs, e)
      [] e.tt = "index" ->
            LET reg == IndexReg(fs, e)
            IN  Done([Emit(fs, KaKb(Ins("GETTABLE", e.ii, e.i, reg), 0, e.kb)) EXCEPT !.free = reg + 1],
                     InReg(reg))
      [] OTHER ->
            LET loaded == IF e.tt = "local" /\ e.i = fs.free THEN fs ELSE Emit(fs, Load(e, fs.free))
            IN  Done([loaded EXCEPT !.free = @ + 1], InReg(fs.free))

Exp2Reg(d) == IF DontMove(d.e) THEN Done(d.fs, d.e) ELSE Exp2NextReg(d)

(***************************************************************************)
(* Operators.                                                              *)
(***************************************************************************)
Priority(op) ==
    CASE op \in {"+", "-"} -> 3 [] op \in {"*", "%"} -> 4
      [] op \in Comparison -> 2 [] op \in Logical -> 1

OpName(op) ==
    CASE op = "+" -> "ADD" [] op = "-" -> "MINUS" [] op = "*" -> "MULTI" [] op = "%" -> "REMAINDER"
      [] op = ">" -> "GT" [] op = "<" -> "LT" [] op = ">=" -> "GE" [] op = "<=" -> "LE"
      [] op = "==" -> "EQ" [] op = "!=" -> "NE" [] op = "&&" -> "AND" [] op = "||" -> "OR"

\* infix_aux_get_reg: the lowest temporary among the operands, or a new one.
ResultReg(fs, v, w) ==
    IF DontMove(v) /\ DontMove(w) THEN fs.free
    ELSE IF DontMove(v) THEN w.i ELSE IF DontMove(w) THEN v.i ELSE MinOf(v.i, w.i)

K(e) == IF IsConstant(e) THEN 1 ELSE 0

\* code_and, code_or: the instruction, and before the code of the right side a
\* jump to the end that is skipped when the right side has to be looked at.
ShortCut(fs, v, w, op, pc, reg) ==
    LET whole == Append(fs.code, Ins(OpName(op), v.i, w.i, reg))
        test == Ins(IF op = "&&" THEN "JTRUE" ELSE "JFALSE", v.i, 1, 0)
        jump == Ins("JMP", 0, Len(whole) + 2 - pc, 0)
    IN  [fs EXCEPT !.code = InsertAt(InsertAt(whole, pc, test), pc + 1, jump), !.free = reg + 1]

Infix(v, right, op, pc) ==
    IF op \in Logical
    THEN LET r == Exp2NextReg(right)
             reg == MinOf(v.i, r.e.i)
         IN  Done(ShortCut(r.fs, v, r.e, op, pc, reg), InReg(reg))
    ELSE LET r == Exp2Reg(right)
             reg == ResultReg(r.fs, v, r.e)
         IN  Done([Emit(r.fs, KaKb(Ins(OpName(op), v.i, r.e.i, reg), K(v), K(r.e))) EXCEPT !.free = reg + 1],
                  InReg(reg))

(***************************************************************************)
(* Jumps.  JTRUE and JFALSE skip b instructions, JMP moves by b, and a     *)
(* comparison followed by JTRUE on its result becomes one instruction.     *)
(***************************************************************************)
CompareOps == {OpName(op) : op \in Comparison}
JumpOf(op) == CASE op = "GT" -> "JGT" [] op = "LT" -> "JLT" [] op = "GE" -> "JGE"
                [] op = "LE" -> "JLE" [] op = "EQ" -> "JEQ" [] op = "NE" -> "JNE"
CompareJumps == {JumpOf(op) : op \in CompareOps}

\* code_jump: the function and the place of the jump.
JumpTrue(d) ==
    LET fs == d.fs  reg == d.e.i  last == fs.code[Len(fs.code)]
    IN  IF last.op \in CompareOps /\ last.c = reg
        THEN [fs |-> [fs EXCEPT !.code[Len(fs.code)] = [last EXCEPT !.op = JumpOf(last.op), !.c = 1]],
              pc |-> Len(fs.code)]
        ELSE [fs |-> Emit(fs, Ins("JTRUE", reg, 1, 0)), pc |-> Pc(fs)]
Jump(fs) == [fs |-> Emit(fs, Ins("JMP", 0, 0, 0)), pc |-> Pc(fs)]

\* code_patch_jmp.
Patch(fs, n, pc) ==
    CASE fs.code[n].op = "JMP" -> [fs EXCEPT !.code[n].b = pc - n]
      [] fs.code[n].op = "JTRUE" -> [fs EXCEPT !.code[n].b = pc - n - 1]
      [] fs.code[n].op \in CompareJumps -> [fs EXCEPT !.code[n].c = pc - n - 1]
PatchAll(fs, ns, pc) == FoldLeft(LAMBDA f, n : Patch(f, n, pc), fs, ns)

(***************************************************************************)
(* Stores.  OpCode_Info says which fields of an instruction are registers  *)
(* it reads and which one it writes (constants are taken for registers     *)
(* there, which only costs an optimisation).  The table ends one entry     *)
(* before CLOSURE_GLOBAL, so Info has no value there; the searches below   *)
(* end at the instruction that made the value, before a function           *)
(* statement, and TLC would stop at one that did not.                      *)
(***************************************************************************)
Info(op) ==
    CASE op \in {"MOV", "LOADK"} -> [out |-> "a", in |-> {"b"}]
      [] op = "SETNIL" -> [out |-> "a", in |-> {"a", "b"}]
      [] op \in {"SETFALSE", "SETTRUE", "NOT", "LEN"} -> [out |-> "a", in |-> {"a"}]
      [] op \in {"ADD", "MINUS", "MULTI", "REMAINDER", "AND", "OR", "GETTABLE"} \cup CompareOps ->
            [out |-> "c", in |-> {"a", "b"}]
      [] op \in {"JTRUE", "JFALSE", "INIT_CALL", "CALL", "FOREACH_BEGIN"} -> [out |-> "", in |-> {"a"}]
      [] op \in CompareJumps \cup {"RETURN"} -> [out |-> "", in |-> {"a", "b"}]
      [] op = "GETGLOBAL" -> [out |-> "c", in |-> {"b"}]
      [] op = "SETGLOBAL" -> [out |-> "", in |-> {"b"}]
      [] op = "CLOSURE" -> [out |-> "b", in |-> {"a"}]
      [] op = "NEWTABLE" -> [out |-> "c", in |-> {}]
      [] op \in {"SETTABLE", "SETTABLE_NEXTNUM", "FOREACH", "FOREACH_NOKEY"} ->
            [out |-> "", in |-> {"a", "b", "c"}]
      [] op = "JMP" -> [out |-> "", in |-> {}]

Reads(i, reg) == \E f \in Info(i.op).in : i[f] = reg
Writes(i, reg) == Info(i.op).out # "" /\ i[Info(i.op).out] = reg

\* The last instruction that Is(i), or NoPc; those before it are not looked at.
LastThat(fs, Is(_)) ==
    LET From(back) == Len(fs.code) - back
    IN  From(CHOOSE back \in 0..Len(fs.code) :
                /\ back = Len(fs.code) \/ Is(fs.code[From(back)])
                /\ \A later \in 0..back - 1 : ~Is(fs.code[From(later)]))

\* Code that reads the register behind the instruction is not noticed.
ProducerRead(fs, reg) == LastThat(fs, LAMBDA i : Writes(i, reg))

\* The instruction the optimisations find when they look back for reg: the
\* last one that writes it, unless one behind it, or itself, reads it.
Producer(fs, reg) ==
    LET last == LastThat(fs, LAMBDA i : Reads(i, reg) \/ Writes(i, reg))
    IN  IF last = NoPc \/ Reads(fs.code[last], reg) THEN NoPc ELSE last

PlainStore(fs, e, reg) ==
    Emit(fs, CASE e.tt = "local" -> Ins("MOV", e.i, reg, 0)
               [] e.tt = "global" -> Ins("SETGLOBAL", 0, e.i, reg)
               [] e.tt = "index" -> KaKb(Ins("SETTABLE", e.ii, e.i, reg), 0, e.kb)
               [] e.tt = "nextnum" -> Ins("SETTABLE_NEXTNUM", e.ii, 0, reg))

\* storetovar: a value for a local is computed in its place, and a local or a
\* constant that goes to a table is stored from where it is.
StoreToVar(fs, e, reg) ==
    LET n == Producer(fs, reg)
        i == fs.code[n]
        direct == [KaKb(Ins("SETTABLE", e.ii, e.i, i.b), 0, e.kb)
                      EXCEPT !.kc = IF i.op = "LOADK" THEN 1 ELSE 0]
    IN  IF e.tt = "local" /\ n # NoPc
        THEN [fs EXCEPT !.code[n] = [i EXCEPT ![Info(i.op).out] = e.i]]
        ELSE IF e.tt = "index" /\ n # NoPc /\ (i.op = "LOADK" \/ (i.op = "MOV" /\ i.b < Len(fs.loc)))
        THEN [fs EXCEPT !.code = RemoveAt(Append(@, direct), n)]
        ELSE PlainStore(fs, e, reg)

-----------------------------------------------------------------------------
(***************************************************************************)
(* The parser.  An operator takes the function so far and returns it with  *)
(* the code of its tree appended.                                          *)
(***************************************************************************)
RECURSIVE Operands(_, _), SubExpr(_, _, _, _), SubLoop(_, _, _, _), ExpList(_, _)
RECURSIVE Block(_, _), Stat(_, _), IfArms(_, _, _)

\* name_var: a local of this function or a global; names of enclosing
\* functions are upvalues, which the machine does not implement.
NameVar(fs, x) ==
    IF \E i \in DOMAIN fs.loc : fs.loc[i] = x
    THEN Done(fs, Exp("local", (CHOOSE i \in DOMAIN fs.loc : fs.loc[i] = x) - 1))
    ELSE LET c == AddK(fs, StrV(x)) IN Done(c.fs, Exp("global", c.i))

ExprOf(fs, list) == SubExpr(fs, list, 1, 0)
ExprNextReg(fs, list) == Exp2NextReg(ExprOf(fs, list))

\* explist: every value in a register of its own, in order.
ExpList(fs, es) == IF es = <<>> THEN fs ELSE ExpList(ExprNextReg(fs, Head(es)).fs, Tail(es))

\* body, function_stat, local_func: an inner function, closed by a RETURN.
\* Only global functions tell how many parameters they have.
Inner(params, b, nparam) ==
    [Emit(Block(Open(params), b), Ins("RETURN", 0, 0, 0)) EXCEPT !.nparam = nparam]
CodeClosure(fs, params, b, nparam, op) ==
    Done([Emit(fs, Ins(op, Len(fs.p), fs.free, 0)) EXCEPT !.p = Append(@, Inner(params, b, nparam)),
                                                          !.free = @ + 1],
         InReg(fs.free))

\* primaryexp: one selection from the operand t, which is in a register.
Selected(t, o) ==
    LET isLocal == t.e.tt = "local"
        ByKey(i) == Done(i.fs, [Exp("index", i.e.i) EXCEPT !.ii = t.e.i, !.ra = isLocal,
                                    !.kb = K(i.e), !.rb = (i.e.tt = "local")])
    IN  CASE o.k = "dot" ->
                LET c == AddK(t.fs, StrV(o.x))
                IN  Done(c.fs, [Exp("index", c.i) EXCEPT !.ii = t.e.i, !.kb = 1, !.ra = isLocal])
          [] o.k = "at" -> ByKey(Exp2Reg(ExprOf(t.fs, o.e)))
          [] o.k = "next" -> Done(t.fs, [Exp("nextnum", 0) EXCEPT !.ii = t.e.i])

\* A call of the function in f: the arguments behind it, and after the call
\* five moves that bring five results down by one register.
CallCode(f, args) ==
    LET r == f.e.i
        ready == Emit(f.fs, Ins("INIT_CALL", r, 0, 0))
        given == IF args = <<>> THEN ready ELSE ExpList(ready, args)
        results == FoldLeft(LAMBDA g, i : Emit(g, Ins("MOV", r + i, r + i + 1, 0)),
                            Emit(given, Ins("CALL", r, 0, 0)), <<0, 1, 2, 3, 4>>)
    IN  Done([results EXCEPT !.free = r + 1], Exp("call", r))

\* constructor: every item goes to the next number of the table t.
Constructed(t, items) ==
    LET Push(r) == [Emit(r.fs, Ins("SETTABLE_NEXTNUM", t.e.i, 0, r.e.i)) EXCEPT !.free = @ - 1]
    IN  Done(FoldLeft(LAMBDA f, e : Push(ExprNextReg(f, e)), t.fs, items), t.e)

Unary(k, r) == Done(Emit(r.fs, Ins(IF k = "not" THEN "NOT" ELSE "LEN", r.e.i, 0, 0)), r.e)

\* simple_expr, prefixexp, primaryexp and the unary operators.
Operands(fs, o) ==
    CASE o.k = "num" -> LET c == AddK(fs, NumV(o.n)) IN Done(c.fs, Exp("number", c.i))
      [] o.k = "str" -> LET c == AddK(fs, StrV(o.s)) IN Done(c.fs, Exp("constant", c.i))
      [] o.k \in {"nil", "false", "true"} -> Done(fs, Exp(o.k, 0))
      [] o.k = "name" -> NameVar(fs, o.x)
      [] o.k = "paren" -> ExprOf(fs, o.e)
      [] o.k \in {"not", "len"} -> Unary(o.k, Exp2NextReg(Operands(fs, o.o)))
      [] o.k \in {"dot", "at", "next"} -> Selected(Exp2Reg(Operands(fs, o.o)), o)
      [] o.k = "call" -> CallCode(Exp2NextReg(Operands(fs, o.o)), o.args)
      [] o.k = "new" -> Constructed(Exp2NextReg(Done(fs, Exp("newtable", 0))), o.items)
      [] o.k = "fun" -> CodeClosure(fs, o.params, o.b, 0, "CLOSURE")

\* subexpr: an operand, then every operator above the priority with its right
\* side, which is read up to an operator that binds no tighter.
SubExpr(fs, list, at, priority) == SubLoop(Operands(fs, list[at]), list, at + 1, priority)

SubLoop(d, list, at, priority) ==
    LET op == list[at]
        Both(left, right) == SubLoop(Infix(left.e, right, op, Pc(left.fs)), list, right.at, priority)
        Right(left) == Both(left, SubExpr(left.fs, list, at + 1, Priority(op)))
    IN  IF at > Len(list) \/ Priority(op) <= priority
        THEN [fs |-> d.fs, e |-> d.e, at |-> at]
        ELSE Right(IF op \in Logical THEN Exp2NextReg(d) ELSE Exp2Reg(d))

(***************************************************************************)
(* Statements.  At their ends the registers of temporaries are given back: *)
(* the parser asserts that free is the number of locals.                   *)
(***************************************************************************)
AddLocal(fs, x) == [fs EXCEPT !.loc = Append(@, x)]
Hidden == ""        \* the locals that foreach reserves have no name

\* local_stat: the values are computed above the new locals and moved down.
LocalStat(fs, xs, es) ==
    LET named == [FoldLeft(AddLocal, fs, xs) EXCEPT !.free = @ + Len(xs)]
        Moved(values, n) ==
            [FoldLeft(LAMBDA f, i : Emit(f, Ins("MOV", n - i, values.free - i, 0)), values,
                      [i \in 1..Len(xs) |-> i]) EXCEPT !.free = n]
    IN  Moved(ExpList(named, es), Len(fs.loc) + Len(xs))

RECURSIVE TargetList(_, _), StoreAll(_, _)
TargetList(t, ts) ==
    LET Found(r) == TargetList(Done(r.fs, Append(t.e, r.e)), Tail(ts))
    IN  IF ts = <<>> THEN t ELSE Found(Operands(t.fs, Head(ts)))
StoreAll(fs, es) ==
    IF es = <<>> THEN fs
    ELSE StoreAll(StoreToVar([fs EXCEPT !.free = @ - 1], Last(es), fs.free - 1), Front(es))
\* assignment: targets, values, and the stores from the last to the first.
AssignStat(fs, ts, es) ==
    LET Stores(t) == [StoreAll(ExpList(t.fs, es), t.e) EXCEPT !.free = fs.free]
    IN  Stores(TargetList(Done(fs, <<>>), ts))

\* A condition and the jump that is taken when it does not hold.
Condition(fs, e) ==
    LET Tested(yes, no) == [fs |-> [no.fs EXCEPT !.free = @ - 1], yes |-> yes.pc, no |-> no.pc]
        Jumped(yes) == Tested(yes, Jump(yes.fs))
    IN  Jumped(JumpTrue(ExprNextReg(fs, e)))

\* if_stat: the arms, each with its jump to the end; the places of those jumps.
IfArms(fs, arms, ends) ==
    IF arms = <<>> THEN [fs |-> fs, ends |-> ends]
    ELSE Given(Condition(fs, arms[1][1]), LAMBDA c : Given(Jump(Block(c.fs, arms[1][2])), LAMBDA end :
              IfArms(Patch(end.fs, c.no, Pc(end.fs)), Tail(arms), Append(ends, end.pc))))

IfStat(fs, arms, other) ==
    Given(IfArms(fs, arms, <<>>), LAMBDA tests : Given(Block(tests.fs, other), LAMBDA whole :
         PatchAll(whole, tests.ends, Pc(whole))))

\* The body of a loop with lists of its own for breaks and continues, and the
\* jump behind it.
LoopBody(fs, b) == Jump(Block([fs EXCEPT !.loop = TRUE, !.brk = <<>>, !.cont = <<>>], b))
\* The end of a loop: breaks and the failed test go behind it, continues to
\* next; the lists of the loop around it are back.
LoopEnd(fs, outer, exit, next) ==
    [PatchAll(PatchAll(Patch(fs, exit, Pc(fs)), fs.brk, Pc(fs)), fs.cont, next)
        EXCEPT !.loop = outer.loop, !.brk = outer.brk, !.cont = outer.cont]

WhileStat(fs, e, b) ==
    Given(Condition(fs, e), LAMBDA c : Given(LoopBody(c.fs, b), LAMBDA back :
         LoopEnd(Patch(back.fs, back.pc, Pc(fs)), fs, c.no, Pc(fs))))

\* A continue goes to the test.
ForEndTest(fs, top, c, stepped, back) ==
    LoopEnd(Patch(Patch(Patch(back.fs, c.yes, Pc(stepped.fs)), stepped.pc, top), back.pc, Pc(c.fs)),
            fs, c.no, top)

\* for_stat: test, increment and body stand in this order; the increment goes
\* to the test at top, the body and its continues to the increment.
ForEnd(fs, top, c, stepped, back) ==
    LoopEnd(Patch(Patch(Patch(back.fs, c.yes, Pc(stepped.fs)), stepped.pc, top), back.pc, Pc(c.fs)),
            fs, c.no, Pc(c.fs))

ForStat(fs, init, e, inc, b) ==
    Given(Stat(fs, init), LAMBDA started : Given(Condition(started, e), LAMBDA c :
    Given(Jump(Stat(c.fs, inc)), LAMBDA stepped :
         ForEnd(fs, Pc(started), c, stepped, LoopBody(stepped.fs, b)))))

\* foreach_stat: the position and the table take two locals without a name, in
\* this order, since FOREACH finds the position below the table.
ForeachStat(fs, e, key, val, b) ==
    LET begun == AddLocal([Emit(fs, Ins("FOREACH_BEGIN", fs.free, 0, 0)) EXCEPT !.free = @ + 1], Hidden)
        Closed(top, no, back) == LoopEnd(Patch(back.fs, back.pc, top), fs, no.pc, top)
        Around(top, no) == Given(LoopBody(no.fs, b), LAMBDA back : Closed(top, no, back))
        Next(held, t, k, v) ==
            Done(Emit(held, IF key = "" THEN Ins("FOREACH_NOKEY", t, 0, v) ELSE Ins("FOREACH", t, k, v)), InReg(k))
        Step(held, t) ==
            LET v == NameVar(held, val).e.i
                k == IF key = "" THEN v ELSE NameVar(held, key).e.i
            IN  Around(Pc(held), Jump(JumpTrue(Next(held, t, k, v)).fs))
        Table(t) == Step(AddLocal(t.fs, Hidden), t.e.i)
    IN  Given(ExprNextReg(begun, e), Table)

ReturnStat(fs, es) ==
    IF es = <<>> THEN Emit(fs, Ins("RETURN", 0, 0, 0))
    ELSE [Emit(ExpList(fs, es), Ins("RETURN", fs.free, Len(es), 0)) EXCEPT !.free = fs.free]

\* break_stat, continue_stat: a jump that the loop patches; outside a loop it
\* stays a jump by 0, which does nothing.
Leave(fs, kind) ==
    LET j == Jump(fs)
    IN  IF ~fs.loop THEN j.fs
        ELSE IF kind = "break" THEN [j.fs EXCEPT !.brk = Append(@, j.pc)]
        ELSE [j.fs EXCEPT !.cont = Append(@, j.pc)]

Stat(fs, st) ==
    CASE st.s = "local" -> LocalStat(fs, st.xs, st.es)
      [] st.s = "localfun" -> CodeClosure(AddLocal(fs, st.x), st.params, st.b, 0, "CLOSURE").fs
      [] st.s = "function" ->
            LET c == AddK(fs, StrV(st.x))
                f == CodeClosure(c.fs, st.params, st.b, Len(st.params), "CLOSURE_GLOBAL")
            IN  [Emit(f.fs, Ins("SETGLOBAL", 0, c.i, f.e.i)) EXCEPT !.free = @ - 1]
      [] st.s = "assign" -> AssignStat(fs, st.ts, st.es)
      [] st.s = "do" -> [Operands(fs, st.o).fs EXCEPT !.free = fs.free]
      [] st.s = "if" -> IfStat(fs, st.arms, st.other)
      [] st.s = "while" -> WhileStat(fs, st.e, st.b)
      [] st.s = "for" -> ForStat(fs, st.init, st.e, st.inc, st.b)
      [] st.s = "foreach" -> ForeachStat(fs, st.e, st.key, st.val, st.b)
      [] st.s = "return" -> ReturnStat(fs, st.es)
      [] OTHER -> Leave(fs, st.s)

\* block; assert_freereg: a statement that leaves a temporary behind is an
\* error of the compiler, which then gives up.
Block(fs, b) ==
    LET Rest(done) ==
            IF done.free = Len(done.loc) THEN Block(done, Tail(b)) ELSE Emit(done, Ins("DIE", 0, 0, 0))
    IN  IF b = <<>> THEN fs ELSE Rest(Stat(fs, Head(b)))

\* script_parse: the whole file as a function without parameters.
Compile(b) == Inner(<<>>, b, 0)
=============================================================================
