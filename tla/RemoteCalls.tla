---------------------------- MODULE RemoteCalls ----------------------------
(***************************************************************************)
(* Remote calls of scripts (rbtlib/remote_call.c, script_db_lib.c and      *)
(* script.c): a script asks a database over a connection, its context is   *)
(* put away in the parameter of the call, and the answer resumes it.       *)
(*                                                                         *)
(* Everything but the peers is one thread.  The callback of an answer runs *)
(* the script until it stops again, so that it may make its next call      *)
(* before rbtRpc_apply gives back the parameter of the last one.  A        *)
(* connection is a structure and an order of packets each way; loss takes  *)
(* what was on its way.  The program that embeds the library chooses the   *)
(* connection of a call, and may keep one that is closed until it has      *)
(* connected again (db_mgr.h).  Calls without a callback take no parameter *)
(* and change nothing here.                                                *)
(***************************************************************************)
EXTENDS Integers, Sequences, FiniteSets, SequencesExt

CONSTANTS
    Conns,       \* structures of connections to databases
    Lost,        \* the owner of a parameter that is on no connection's list
    Scripts,     \* the contexts
    None,        \* NULL
    InitParams,  \* NR_RPC_INIT_PARAM
    ReqMax,      \* PKT_REQ_MAX
    MaxCalls,    \* bound: calls in one behaviour
    MaxBreaks    \* bound: connections lost in one behaviour

ASSUME RemoteCallsAssumption ==
    /\ Lost \notin Conns /\ None \notin Scripts /\ None \notin Conns
    /\ None # Lost
    /\ InitParams \in Nat /\ MaxCalls \in Nat /\ MaxBreaks \in Nat
    /\ ReqMax \in Nat /\ ReqMax > 2

VARIABLES
    lastReqId,  \* RpcManager.last_req_id
    free,       \* RpcManager.free_param, last freed first
    total,      \* g_nparam_total
    param,      \* the fields of each struct rpc_param
    hash,       \* RpcManager.hash
    up,         \* the connections that are established
    requests,   \* packets on their way to each peer, or held by it
    answers,    \* packets on their way back
    script,     \* what each context does
    running,    \* Script.ctx
    applying,   \* the parameter whose answer is being handled, or 0
    answer,     \* history: the call that this answer is for
    calls,      \* history: calls made so far
    breaks      \* history: connections lost so far

manager == <<lastReqId, free, total, param, hash>>
wires   == <<up, requests, answers>>
vars    == <<manager, wires, script, running, applying, answer, calls, breaks>>

Params == 1 .. InitParams + MaxCalls
Ids    == 1 .. ReqMax
Calls  == 1 .. MaxCalls

Message == [id : Ids, call : Calls]

\* conn is the list the parameter is on, None for one that is free; ctx is
\* param.obj; call, history, numbers the calls.
Param ==
    [id : Ids \cup {0}, conn : Conns \cup {Lost, None},
     ctx : Scripts \cup {None}, call : Calls \cup {0}]

Unused == [id |-> 0, conn |-> None, ctx |-> None, call |-> 0]

\* RpcManager.busy_param.
Busy == {p \in Params : param[p].conn # None}

TypeOK ==
    /\ lastReqId \in Ids
    /\ free \in Seq(1 .. total)
    /\ total \in InitParams .. InitParams + MaxCalls
    /\ param \in [Params -> Param]
    /\ Busy \subseteq 1 .. total
    /\ hash \in [Ids -> Params \cup {0}]
    /\ up \in SUBSET Conns
    /\ requests \in [Conns -> SUBSET Message]
    /\ answers \in [Conns -> Seq(Message)]
    /\ script \in [Scripts -> {"idle", "running", "waiting", "dropped"}]
    /\ running \in Scripts \cup {None}
    /\ applying \in Params \cup {0}
    /\ answer \in Calls \cup {0}
    /\ calls \in 0 .. MaxCalls
    /\ breaks \in 0 .. MaxBreaks

\* rbtRpc_init.
Init ==
    /\ lastReqId = 1
    /\ free = [i \in 1 .. InitParams |-> InitParams + 1 - i]
    /\ total = InitParams
    /\ param = [p \in Params |-> Unused]
    /\ hash = [i \in Ids |-> 0]
    /\ up = Conns
    /\ requests = [c \in Conns |-> {}]
    /\ answers = [c \in Conns |-> <<>>]
    /\ script = [s \in Scripts |-> "idle"]
    /\ running = None
    /\ applying = 0
    /\ answer = 0
    /\ calls = 0
    /\ breaks = 0

-----------------------------------------------------------------------------
\* Parameters.

\* Mutant of NextParam: a parameter that was allocated is not counted.
NextParamUncounted(p) ==
    \/ /\ free = <<>>
       /\ p = total + 1
       /\ UNCHANGED <<free, total>>
    \/ /\ free # <<>>
       /\ p = Head(free)
       /\ free' = Tail(free)
       /\ UNCHANGED total

\* Mutant of NextParam: the parameter stays on the free list.
NextParamStays(p) ==
    \/ /\ free = <<>>
       /\ p = total + 1
       /\ total' = p
       /\ UNCHANGED free
    \/ /\ free # <<>>
       /\ p = Head(free)
       /\ UNCHANGED <<free, total>>

\* get_next_param: a free parameter, or a new one from RMALLOC.
NextParam(p) ==
    \/ /\ free = <<>>
       /\ p = total + 1
       /\ total' = p
       /\ UNCHANGED free
    \/ /\ free # <<>>
       /\ p = Head(free)
       /\ free' = Tail(free)
       /\ UNCHANGED total

\* get_next_param: the id of the call.  After PKT_REQ_MAX the code stores 1 in
\* both the id and last_req_id and then increments the id.
NewId == IF lastReqId >= ReqMax THEN 2 ELSE lastReqId

\* Mutant of NextReqId: it wraps too early.
NextReqIdEarly == IF lastReqId >= ReqMax - 3 THEN 1 ELSE lastReqId + 1

NextReqId == IF lastReqId >= ReqMax THEN 1 ELSE lastReqId + 1

\* free_param of every parameter of ps, those first called first.
FreeParams(ps) ==
    /\ hash' = [i \in Ids |-> IF \E p \in ps : param[p].id = i THEN 0 ELSE hash[i]]
    /\ param' = [p \in Params |-> IF p \in ps THEN Unused ELSE param[p]]
    /\ \E order \in SetToSeqs(ps) :
          /\ \A i, j \in DOMAIN order :
                i < j => param[order[i]].call <= param[order[j]].call
          /\ free' = order \o free
    /\ UNCHANGED <<lastReqId, total>>

-----------------------------------------------------------------------------
\* Scripts.

\* The main loop is in rbtNet_poll or a process function.
Loop == running = None /\ applying = 0

\* rbtScript_call, of a script that is not waiting.
StartScript(s) ==
    /\ Loop
    /\ script[s] = "idle"
    /\ running' = s
    /\ script' = [script EXCEPT ![s] = "running"]
    /\ UNCHANGED <<manager, wires, applying, answer, calls, breaks>>

\* The end of vm_execute: the context is given back.
Finish(s) ==
    /\ running = s
    /\ running' = None
    /\ script' = [script EXCEPT ![s] = "idle"]
    /\ UNCHANGED <<manager, wires, applying, answer, calls, breaks>>

\* Get, GetAll, Save, Update, Delete and the others: rbtRpc_call over the
\* database connection c, rbtScript_save into the parameter, and a yield.
\* rbtNet_send drops the packet when c is closed; the parameter is taken all
\* the same.
Call(s, c) ==
    /\ running = s
    /\ calls < MaxCalls
    /\ \E p \in Params :
          /\ NextParam(p)
          /\ param' = [param EXCEPT ![p] =
                [id |-> NewId, conn |-> c, ctx |-> s, call |-> calls + 1]]
          /\ hash' = [hash EXCEPT ![NewId] = p]
    /\ lastReqId' = NextReqId
    /\ requests' = IF c \in up
                   THEN [requests EXCEPT ![c] =
                            @ \cup {[id |-> NewId, call |-> calls + 1]}]
                   ELSE requests
    /\ calls' = calls + 1
    /\ running' = None
    /\ script' = [script EXCEPT ![s] = "waiting"]
    /\ UNCHANGED <<up, answers, applying, answer, breaks>>

\* The collector finds a context that nothing refers to any more.
Collect(s) ==
    /\ Loop
    /\ script[s] = "dropped"
    /\ script' = [script EXCEPT ![s] = "idle"]
    /\ UNCHANGED <<manager, wires, running, applying, answer, calls, breaks>>

-----------------------------------------------------------------------------
\* Answers.

\* External: a database answers its requests in any order.
PeerAnswers(c, m) ==
    /\ m \in requests[c]
    /\ requests' = [requests EXCEPT ![c] = @ \ {m}]
    /\ answers' = [answers EXCEPT ![c] = Append(@, m)]
    /\ UNCHANGED <<manager, up, script, running, applying, answer, calls, breaks>>

\* rbtRpc_apply up to the callback, get_back and the like, which resumes the
\* context and runs it.  An answer whose id is not known is dropped.
Apply(c) ==
    /\ Loop
    /\ answers[c] # <<>>
    /\ answers' = [answers EXCEPT ![c] = Tail(@)]
    /\ LET m == Head(answers[c])
           p == hash[m.id]
       IN  \/ /\ p = 0
              /\ UNCHANGED <<script, running, applying, answer>>
           \/ /\ p # 0
              /\ applying' = p
              /\ answer' = m.call
              /\ running' = param[p].ctx
              /\ script' = [script EXCEPT ![param[p].ctx] = "running"]
    /\ UNCHANGED <<manager, up, requests, calls, breaks>>

\* Mutant of ApplyEnd: the parameter is not given back.
ApplyEndForgets ==
    /\ running = None
    /\ applying # 0
    /\ applying' = 0
    /\ UNCHANGED <<manager, wires, script, running, answer, calls, breaks>>

\* rbtRpc_apply after the callback: free_param.
ApplyEnd ==
    /\ running = None
    /\ applying # 0
    /\ FreeParams({applying})
    /\ applying' = 0
    /\ UNCHANGED <<wires, script, running, answer, calls, breaks>>

-----------------------------------------------------------------------------
\* Connections.

OnList(c) == {p \in Params : param[p].conn = c}

\* Mutant of Break: the parameters stay on the list of the connection.
BreakKeepsParams(c) ==
    /\ Loop
    /\ c \in up /\ breaks < MaxBreaks
    /\ up' = up \ {c}
    /\ requests' = [requests EXCEPT ![c] = {}]
    /\ answers' = [answers EXCEPT ![c] = <<>>]
    /\ script' = [s \in Scripts |->
                     IF \E p \in OnList(c) : param[p].ctx = s THEN "dropped" ELSE script[s]]
    /\ breaks' = breaks + 1
    /\ UNCHANGED <<manager, running, applying, answer, calls>>

\* The connection is deleted: rbtRpc_conn_broken gives back its parameters and
\* calls nobody back, so that their contexts are left to the collector.
Break(c) ==
    /\ Loop
    /\ c \in up /\ breaks < MaxBreaks
    /\ FreeParams(OnList(c))
    /\ up' = up \ {c}
    /\ requests' = [requests EXCEPT ![c] = {}]
    /\ answers' = [answers EXCEPT ![c] = <<>>]
    /\ script' = [s \in Scripts |->
                     IF \E p \in OnList(c) : param[p].ctx = s THEN "dropped" ELSE script[s]]
    /\ breaks' = breaks + 1
    /\ UNCHANGED <<running, applying, answer, calls>>

\* The structure is used for a connection again: rbtNet_construct makes its
\* list empty, and whoever called over it while it was closed is forgotten.
Connect(c) ==
    /\ Loop
    /\ c \notin up
    /\ up' = up \cup {c}
    /\ param' = [p \in Params |-> IF param[p].conn = c
                                  THEN [param[p] EXCEPT !.conn = Lost] ELSE param[p]]
    /\ UNCHANGED <<lastReqId, free, total, hash, requests, answers, script,
                   running, applying, answer, calls, breaks>>

-----------------------------------------------------------------------------
Next ==
    \/ \E s \in Scripts : StartScript(s) \/ Finish(s) \/ Collect(s)
    \/ \E s \in Scripts, c \in Conns : Call(s, c)
    \/ \E c \in Conns : \E m \in requests[c] : PeerAnswers(c, m)
    \/ \E c \in Conns : Apply(c) \/ Break(c) \/ Connect(c)
    \/ ApplyEnd

\* A script comes to an end, the loop gets to every readable connection again
\* and again although scripts run in between, and a database answers every
\* request it holds.
Fairness ==
    /\ WF_vars(ApplyEnd)
    /\ \A s \in Scripts : WF_vars(Finish(s))
    /\ \A c \in Conns : SF_vars(Apply(c))
    /\ \A c \in Conns, n \in Calls :
          WF_vars(\E m \in requests[c] : m.call = n /\ PeerAnswers(c, m))

Spec == Init /\ [][Next]_vars /\ Fairness

-----------------------------------------------------------------------------
\* Properties.

\* The callback that rbtRpc_apply calls is given the parameter of the call that
\* the answer is for, and nobody has reused that parameter while the callback
\* was running: the script that is resumed gets its own data.
OwnAnswer == applying # 0 => param[applying].call = answer

\* What is on its way over a connection will find its parameter: the id it
\* carries leads to the call that it was sent for, on that same connection.
OnWire(c) == requests[c] \cup Range(answers[c])

Finds(c, m) ==
    LET p == hash[m.id]
    IN  p # 0 /\ param[p].call = m.call /\ param[p].conn = c

Awaited == \A c \in Conns : \A m \in OnWire(c) : Finds(c, m)

\* Contexts and parameters agree: a script that is waiting is held by one
\* parameter, a parameter that is not being applied holds a waiting script, and
\* a parameter is free once or busy, never both.
Holds(p, s) == param[p].ctx = s /\ p # applying

Accounted ==
    /\ \A s \in Scripts : script[s] = "waiting" =>
          \E p \in Busy : Holds(p, s) /\ \A q \in Busy : Holds(q, s) => q = p
    /\ \A p \in Busy \ {applying} : script[param[p].ctx] = "waiting"
    /\ \A i \in DOMAIN free : /\ free[i] \notin Busy
                              /\ \A j \in DOMAIN free : free[i] = free[j] => i = j
    /\ Len(free) + Cardinality(Busy) = total

\* A call whose parameter is on the list of an established connection.  Who
\* called over a closed one is not among them: when the structure is used again
\* the parameter is on no list.
Pending(n) == \E p \in Busy : param[p].call = n /\ param[p].conn \in up

\* A call over an established connection comes to its end: it is answered and
\* its parameter given back, or its connection breaks.
Answered == \A n \in Calls : Pending(n) ~> ~Pending(n)

\* What is filled into the parameter of a call appears in the callback of that
\* call (remote_call.h:46): no answer on its way leads to the parameter of a call
\* made one or two calls before or after.  Calls this close to each other do not
\* share an id because one of them was open for a whole cycle of the ids.
NotSwapped ==
    \A c \in Conns : \A m \in OnWire(c) :
        LET p == hash[m.id]
        IN  p # 0 /\ param[p].call - m.call \in -2 .. 2 => param[p].call = m.call

=============================================================================
