------------------------------ MODULE Machine ------------------------------
(***************************************************************************)
(* The virtual machine of scripts (vm.c) and the host's calls into it      *)
(* (script.c): compiled programs run one instruction at a time.            *)
(*                                                                         *)
(* The main function runs first; then the host calls global functions,     *)
(* each in a context of its own taken from a pool.  Only one context runs  *)
(* at a time, until it ends or the library function sleep puts it away; so *)
(* calls overlap at their sleeps.  What programs compute is compared with  *)
(* Language, which knows neither registers nor jumps.                      *)
(***************************************************************************)
EXTENDS Compiler

CONSTANTS Programs,     \* records [main |-> block, calls |-> sequence of [f, args]]
          Contexts,     \* the contexts of the pool
          NoContext,
          StackSize     \* registers of a context

ASSUME MachineAssumption == StackSize \in Nat \ {0} /\ NoContext \notin Contexts

VARIABLES prog,     \* the program of this run
          code,     \* its main function, compiled
          ctx,      \* contexts: registers, active functions, call they answer
          cur,      \* S->ctx: the context that runs
          glob,     \* S->global
          tbl,      \* tables, by their numbers
          fun,      \* closures, by their numbers
          answer    \* what the host's callbacks were given
vars == <<prog, code, ctx, cur, glob, tbl, fun, answer>>

MainCall == 0
Calls == DOMAIN prog.calls
None == <<"none", 0>>
Sleep == FunV(-1)               \* the library's closure

\* A function by the path to it from the main function.
ProtoAt(path) == FoldLeft(LAMBDA p, i : p.p[i + 1], code, path)

Frame(path, base, self) == [path |-> path, base |-> base, pc |-> 1, self |-> self]
Clean == [r \in 0..(StackSize - 1) |-> NilV]
IdleContext == [st |-> "idle", regs |-> Clean, frames |-> <<>>, call |-> MainCall]

Init ==
    /\ prog \in Programs
    /\ code = Compile(prog.main)
    /\ cur = CHOOSE c \in Contexts : TRUE
    /\ ctx = [c \in Contexts |->
                 IF c = cur THEN [IdleContext EXCEPT !.st = "running", !.frames = <<Frame(<<>>, 1, NilV)>>]
                 ELSE IdleContext]
    /\ glob = Empty /\ tbl = <<>> /\ fun = <<>>
    /\ answer = [i \in {MainCall} \cup Calls |-> None]
-----------------------------------------------------------------------------
\* The function, instruction and registers of the running context.
Top == Last(ctx[cur].frames)
Proto == ProtoAt(Top.path)
I == Proto.code[Top.pc]
Reg(r) == ctx[cur].regs[Top.base + r]
Val(k, x) == IF k = 1 THEN Proto.k[x + 1] ELSE Reg(x)

Running(ops) == cur # NoContext /\ I.op \in ops
Jumping(regs, by) ==
    [ctx EXCEPT ![cur].regs = regs, ![cur].frames[Len(ctx[cur].frames)].pc = @ + by]
With(r, v) == [ctx[cur].regs EXCEPT ![Top.base + r] = v]

\* An instruction that writes a register, or nothing, and goes on.
Put1(r, v) == ctx' = Jumping(With(r, v), 1)
Skip == ctx' = Jumping(ctx[cur].regs, 1)
Local1 == UNCHANGED <<prog, code, cur, glob, tbl, fun, answer>>

Move ==
    /\ Running({"MOV", "LOADK", "SETFALSE", "SETTRUE"})
    /\ Put1(I.a, CASE I.op = "MOV" -> Reg(I.b) [] I.op = "LOADK" -> Val(1, I.b)
                   [] OTHER -> BoolV(I.op = "SETTRUE"))
    /\ Local1

SetNil ==
    /\ Running({"SETNIL"})
    /\ ctx' = Jumping([r \in DOMAIN ctx[cur].regs |->
                          IF r - Top.base \in I.a..(I.a + I.b - 1) THEN NilV ELSE ctx[cur].regs[r]], 1)
    /\ Local1

Sign == [ADD |-> "+", MINUS |-> "-", MULTI |-> "*", REMAINDER |-> "%",
         GT |-> ">", LT |-> "<", GE |-> ">=", LE |-> "<=", EQ |-> "==", NE |-> "!=",
         JGT |-> ">", JLT |-> "<", JGE |-> ">=", JLE |-> "<=", JEQ |-> "==", JNE |-> "!="]

Calculate ==
    /\ Running({"ADD", "MINUS", "MULTI", "REMAINDER"})
    /\ Put1(I.c, Arith(Val(I.ka, I.a), Val(I.kb, I.b), Sign[I.op]))
    /\ Local1

CompareValues ==
    /\ Running(CompareOps)
    /\ Put1(I.c, BoolV(Compare(Val(I.ka, I.a), Val(I.kb, I.b), Sign[I.op])))
    /\ Local1

AndOr ==
    /\ Running({"AND", "OR"})
    /\ LET left == ~Falsy(Val(I.ka, I.a))  right == ~Falsy(Val(I.kb, I.b))
       IN  Put1(I.c, BoolV(IF I.op = "AND" THEN left /\ right ELSE left \/ right))
    /\ Local1

NotLen ==
    /\ Running({"NOT", "LEN"})
    /\ Put1(I.a, IF I.op = "NOT" THEN BoolV(Falsy(Reg(I.a)))
                 ELSE NumV(IF IsTbl(Reg(I.a)) THEN CountOf(tbl[Reg(I.a)[2]]) ELSE 1))
    /\ Local1

Branch ==
    /\ Running(CompareJumps \cup {"JMP", "JTRUE", "JFALSE"})
    /\ LET by == CASE I.op = "JMP" -> IF I.b = 0 THEN 1 ELSE I.b
                   [] I.op = "JTRUE" -> IF Falsy(Reg(I.a)) THEN 1 ELSE 1 + I.b
                   [] I.op = "JFALSE" -> IF Falsy(Reg(I.a)) THEN 1 + I.b ELSE 1
                   [] OTHER -> IF Compare(Val(I.ka, I.a), Val(I.kb, I.b), Sign[I.op]) THEN 1 + I.c ELSE 1
       IN  ctx' = Jumping(ctx[cur].regs, by)
    /\ Local1

\* self is the table the running function was fetched from; then the globals
\* of the program and the library.
GetGlobal ==
    /\ Running({"GETGLOBAL"})
    /\ LET x == Proto.k[I.b + 1][2]
       IN  Put1(I.c, IF x = "self" THEN Top.self
                     ELSE IF Bound(glob, x) = NilV /\ x = "sleep" THEN Sleep ELSE Bound(glob, x))
    /\ Local1

SetGlobal ==
    /\ Running({"SETGLOBAL"})
    /\ glob' = Bind(glob, Proto.k[I.b + 1][2], Reg(I.c))
    /\ Skip
    /\ UNCHANGED <<prog, code, cur, tbl, fun, answer>>

\* A closure that is read out of a table is told the table.
GetTable ==
    /\ Running({"GETTABLE"})
    /\ LET t == Val(I.ka, I.a)
           v == IF IsTbl(t) THEN Lookup(tbl[t[2]], Val(I.kb, I.b)) ELSE NilV
       IN  /\ Put1(I.c, v)
           /\ fun' = IF IsFun(v) /\ v # Sleep THEN [fun EXCEPT ![v[2]].self = t] ELSE fun
    /\ UNCHANGED <<prog, code, cur, glob, tbl, answer>>

SetTable ==
    /\ Running({"SETTABLE", "SETTABLE_NEXTNUM"})
    /\ LET t == Val(I.ka, I.a)
           key == IF I.op = "SETTABLE" THEN Val(I.kb, I.b) ELSE NumV(FirstFree(tbl[t[2]]))
       IN  tbl' = IF IsTbl(t) /\ IsKey(key) THEN [tbl EXCEPT ![t[2]] = Stored(@, key, Val(I.kc, I.c))]
                  ELSE tbl
    /\ Skip
    /\ UNCHANGED <<prog, code, cur, glob, fun, answer>>

MakeTable ==
    /\ Running({"NEWTABLE"})
    /\ tbl' = Append(tbl, <<>>)
    /\ Put1(I.c, TblV(Len(tbl) + 1))
    /\ UNCHANGED <<prog, code, cur, glob, fun, answer>>

MakeClosure ==
    /\ Running({"CLOSURE", "CLOSURE_GLOBAL"})
    /\ fun' = Append(fun, [path |-> Append(Top.path, I.a), self |-> NilV])
    /\ Put1(I.b, FunV(Len(fun) + 1))
    /\ UNCHANGED <<prog, code, cur, glob, tbl, answer>>

\* foreach keeps its position in the register below the table.
Foreach1 ==
    /\ Running({"FOREACH", "FOREACH_NOKEY", "FOREACH_BEGIN"})
    /\ LET t == Reg(I.a)
           at == IF IsTbl(t) THEN Following(tbl[t[2]], Reg(I.a - 1)[2]) ELSE 0
           entry == IF at = 0 THEN <<NilV, NilV>> ELSE tbl[t[2]][at]
           moved == IF IsTbl(t) THEN With(I.a - 1, NumV(IF at = 0 THEN -1 ELSE at)) ELSE ctx[cur].regs
           keyed == IF I.op = "FOREACH" THEN [moved EXCEPT ![Top.base + I.b] = entry[1]] ELSE moved
       IN  IF I.op = "FOREACH_BEGIN" THEN Put1(I.a, NumV(-1))
           ELSE ctx' = Jumping([keyed EXCEPT ![Top.base + I.c] = entry[2]], 1)
    /\ Local1

(***************************************************************************)
(* Calls.  The arguments stand behind the closure; INIT_CALL clears the    *)
(* parameters that may not be given.  The callee's registers begin where   *)
(* the arguments are.                                                      *)
(***************************************************************************)
InitCall ==
    /\ Running({"INIT_CALL"})
    /\ LET f == Reg(I.a)
           n == IF ~IsFun(f) THEN 0 ELSE IF f = Sleep THEN 5 ELSE ProtoAt(fun[f[2]].path).nparam
           first == Top.base + I.a + 1
       IN  ctx' = Jumping([r \in DOMAIN ctx[cur].regs |->
                              IF r \in first..(first + n - 1) THEN NilV ELSE ctx[cur].regs[r]], 1)
    /\ Local1

CallScript ==
    /\ Running({"CALL"})
    /\ IsFun(Reg(I.a)) /\ Reg(I.a) # Sleep
    /\ LET f == fun[Reg(I.a)[2]]
       IN  ctx' = [Jumping(ctx[cur].regs, 1) EXCEPT
                      ![cur].frames = Append(@, Frame(f.path, Top.base + I.a + 1, f.self))]
    /\ Local1

\* No function is there to call, or sleep is called without a number.
CallNothing ==
    /\ Running({"CALL"})
    /\ ~IsFun(Reg(I.a)) \/ (Reg(I.a) = Sleep /\ Reg(I.a + 1)[1] # "num")
    /\ Skip /\ Local1

\* The context is not put away.
CallSleepRunning ==
    /\ Running({"CALL"})
    /\ Reg(I.a) = Sleep /\ Reg(I.a + 1)[1] = "num"
    /\ Skip
    /\ cur' = NoContext
    /\ UNCHANGED <<prog, code, glob, tbl, fun, answer>>


\* rbtScript_sleep, rbtScript_save: the context waits behind its CALL.
CallSleep ==
    /\ Running({"CALL"})
    /\ Reg(I.a) = Sleep /\ Reg(I.a + 1)[1] = "num"
    /\ ctx' = [Jumping(ctx[cur].regs, 1) EXCEPT ![cur].st = "asleep"]
    /\ cur' = NoContext
    /\ UNCHANGED <<prog, code, glob, tbl, fun, answer>>

\* The registers with the I.b values that are returned moved down.
Results ==
    [r \in DOMAIN ctx[cur].regs |->
        IF r - Top.base \in 0..(I.b - 1) THEN ctx[cur].regs[r + I.a] ELSE ctx[cur].regs[r]]

ReturnToCaller ==
    /\ Running({"RETURN"}) /\ Len(ctx[cur].frames) > 1
    /\ ctx' = [ctx EXCEPT ![cur].regs = Results, ![cur].frames = Front(@)]
    /\ Local1

\* The context goes back as it is.
FinishUncleaned ==
    /\ Running({"RETURN"}) /\ Len(ctx[cur].frames) = 1
    /\ answer' = [answer EXCEPT ![ctx[cur].call] = Results[Top.base]]
    /\ ctx' = [ctx EXCEPT ![cur] = [IdleContext EXCEPT !.regs = Results]]
    /\ cur' = NoContext
    /\ UNCHANGED <<prog, code, glob, tbl, fun>>


\* The last function of a context ends: the callback of the host is given the
\* first value, and the context goes back to the pool with a clean stack.
Finish ==
    /\ Running({"RETURN"}) /\ Len(ctx[cur].frames) = 1
    /\ answer' = [answer EXCEPT ![ctx[cur].call] = Results[Top.base]]
    /\ ctx' = [ctx EXCEPT ![cur] = IdleContext]
    /\ cur' = NoContext
    /\ UNCHANGED <<prog, code, glob, tbl, fun>>

\* rbtScript_call, from the host's loop: the function is looked up among the
\* globals, its arguments go to the stack of a context from the pool.
Call(i, c) ==
    /\ cur = NoContext /\ answer[MainCall] # None
    /\ i \in Calls /\ answer[i] = None /\ \A d \in Contexts : ctx[d].st # "idle" => ctx[d].call # i
    /\ ctx[c].st = "idle"
    /\ LET call == prog.calls[i]
           f == glob[call.f]
       IN  ctx' = [ctx EXCEPT ![c] =
                      [@ EXCEPT !.st = "running", !.call = i,
                                !.frames = <<Frame(fun[f[2]].path, 1, NilV)>>,
                                !.regs = [r \in DOMAIN @ |->
                                             IF r \in DOMAIN call.args THEN call.args[r] ELSE @[r]]]]
    /\ cur' = c
    /\ UNCHANGED <<prog, code, glob, tbl, fun, answer>>

\* rbtScript_resume, rbtScript_run: its time has come.
Resume(c) ==
    /\ cur = NoContext /\ ctx[c].st = "asleep"
    /\ ctx' = [ctx EXCEPT ![c].st = "running"]
    /\ cur' = c
    /\ UNCHANGED <<prog, code, glob, tbl, fun, answer>>

Instruction ==
    \/ Move \/ SetNil \/ Calculate \/ CompareValues \/ AndOr \/ NotLen \/ Branch
    \/ GetGlobal \/ SetGlobal \/ GetTable \/ SetTable \/ MakeTable \/ MakeClosure \/ Foreach1
    \/ InitCall \/ CallScript \/ CallNothing \/ CallSleep \/ ReturnToCaller \/ Finish

Next ==
    \/ Instruction
    \/ \E c \in Contexts : \E i \in Calls : Call(i, c)
    \/ \E c \in Contexts : Resume(c)

Spec == Init /\ [][Next]_vars

\* The machine runs instructions as long as a context has some, and the timer
\* wakes every sleeper; the host is not obliged to call.
FairSpec ==
    /\ Spec
    /\ WF_vars(Instruction)
    /\ \A c \in Contexts : WF_vars(Resume(c))
-----------------------------------------------------------------------------
IsValue(v) ==
    \/ v[1] \in {"num", "bool", "nil"} /\ v[2] \in Int
    \/ v[1] = "str" /\ v[2] \in STRING
    \/ v[1] = "tbl" /\ v[2] \in DOMAIN tbl
    \/ v[1] = "fun" /\ (v = Sleep \/ v[2] \in DOMAIN fun)

TypeOK ==
    /\ cur \in Contexts \cup {NoContext}
    /\ \A c \in Contexts :
          /\ ctx[c].st \in {"idle", "running", "asleep"}
          /\ (ctx[c].st = "running") <=> (cur = c)
          /\ (ctx[c].st = "idle") <=> (ctx[c].frames = <<>>)
          /\ \A r \in DOMAIN ctx[c].regs : IsValue(ctx[c].regs[r])
          /\ \A n \in DOMAIN ctx[c].frames :
                /\ ctx[c].frames[n].pc \in DOMAIN ProtoAt(ctx[c].frames[n].path).code
                /\ ctx[c].frames[n].base \in DOMAIN ctx[c].regs

\* When the main function has ended, the globals and the tables are those the
\* program means: the register allocation, jumps, short cuts and stores that
\* the compiler chose, and the optimisations of code.c, changed nothing.
MainAgrees ==
    answer[MainCall] # None /\ (\A i \in Calls : answer[i] = None) /\ (\A c \in Contexts : ctx[c].st = "idle")
    => LET Left(env) == <<env.glob, env.tbl>> IN <<glob, tbl>> = Left(AfterMain(prog))

\* The callback of every call of the host gets what its function means,
\* whatever other contexts did while it slept and whoever had its context
\* before.
CallsAgree ==
    \A i \in Calls : answer[i] # None => answer[i] = Answer(prog, prog.calls[i])

\* Every script that was started ends: no jump that was patched wrongly turns
\* a loop that ends into one that does not.
Ends == \A c \in Contexts : ctx[c].st = "running" ~> ctx[c].st = "idle"
=============================================================================
