------------------------------ MODULE MCWorld ------------------------------
(***************************************************************************)
(* The sessions and the global messages of the world server, one at a time: *)
(* a behaviour is about one of them and leaves the other in its first state. *)
(* Nothing is exchanged by symmetry, since properties here are liveness too.  *)
(***************************************************************************)
EXTENDS Session

CONSTANTS ListServers, Players, Gids, Null, NoGid, End, Batch, MaxMsgs, MaxRegs

VARIABLES part, st, serv, bound, gid, next, up, head, plist, busy, cursor,
          nbroadcast, late, slot, due, msgs, regs

messageVars == <<st, serv, bound, gid, next, up, head, plist, busy, cursor,
                 nbroadcast, late, slot, due, msgs, regs>>

PL == INSTANCE PlayerLists WITH Servers <- ListServers, MaxBreaks <- MaxRegs

SessionStep  == part = "sessions" /\ Next /\ UNCHANGED <<part, messageVars>>
MessagesStep == part = "messages" /\ PL!Next /\ UNCHANGED <<part, vars>>

WorldInit == part \in {"sessions", "messages"} /\ Init /\ PL!Init

\* The fairness of both; what is not enabled in a first state needs none.
WorldSpec ==
    /\ WorldInit
    /\ [][SessionStep \/ MessagesStep]_<<part, vars, messageVars>>
    /\ \A c \in Conns :
          /\ WF_vars(part = "sessions" /\ Dispatch(c) /\ UNCHANGED <<part, messageVars>>)
          /\ WF_vars(part = "sessions" /\ ServHandle(c) /\ UNCHANGED <<part, messageVars>>)
    /\ WF_messageVars(part = "messages" /\ PL!Process /\ UNCHANGED <<part, vars>>)

\* Every listed player hears a message (see PlayerLists).
EveryoneHears == PL!EveryoneHears

=============================================================================
