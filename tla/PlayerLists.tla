---------------------------- MODULE PlayerLists ----------------------------
(***************************************************************************)
(* The lists that the world server threads through its Players, at the     *)
(* level of their pointers: the groups of a logical server (player.c), a   *)
(* singly linked list per group id, and its player_list, along which a     *)
(* global message is sent in batches (handle_server.c, process.c).         *)
(*                                                                         *)
(* Sessions are in Session; here a Player is Live from its login to its    *)
(* abort and Gone from then until rbtF_player_destroy frees it, so that    *)
(* what matters is which pointers to it are left.  A bind may come from    *)
(* any server: from one that the player has left meanwhile as well.        *)
(* Each account binds one character (Session has what a second one leaves  *)
(* in G(r)->players), and group ids are positive, as                       *)
(* rbtF_player_enter_group takes them to be.  A list.h list is a sequence. *)
(***************************************************************************)
EXTENDS Integers, Sequences, FiniteSets, SequencesExt, Lists

CONSTANTS
    Players,   \* Player structures, by account
    Servers,   \* ids of logical servers
    Gids,      \* ids of groups
    Null,      \* NULL
    NoGid,     \* Player.curr_gid = -1
    End,       \* &serv->player_list, the end of a cursor's way
    Dangling,  \* a cursor that is left on a Player that was freed
    Batch,     \* players served by one call of broadcast_at: 10
    MaxMsgs,   \* bound: global messages in one behaviour
    MaxBreaks  \* bound: registrations of logical servers after the first

ASSUME PlayerListsAssumption ==
    /\ IsFiniteSet(Players)
    /\ Null \notin Players /\ End \notin Players /\ NoGid \notin Gids
    /\ Dangling \notin Players /\ Dangling # End
    /\ Batch \in Nat \ {0}
    /\ MaxMsgs \in Nat /\ MaxBreaks \in Nat

VARIABLES
    st,      \* whether the Player is Live, Gone or not there
    serv,    \* the server of the player's zone
    bound,   \* players in G(r)->players
    gid,     \* Player.curr_gid
    next,    \* Player.curr_group_next
    up,      \* registered servers
    head,    \* LogicalServer.groups: the first player of each group
    plist,   \* LogicalServer.player_list
    busy,    \* GlobalMessage.pkt of the server's one slot is set
    cursor,  \* GlobalMessage.next
    nbroadcast,
    late,    \* history: servers that listed a player of another server's zone
    slot,    \* history: the number of the message last put in the slot
    due,     \* history: which message is yet to be heard by whom
    msgs,    \* global messages so far
    regs     \* registrations so far

groupVars == <<gid, next, head>>
listVars  == <<late, plist>>
msgVars   == <<busy, cursor, nbroadcast, slot, due>>
vars == <<st, serv, bound, up, listVars, groupVars, msgVars, msgs, regs>>

TypeOK ==
    /\ st \in [Players -> {"None", "Live", "Gone"}]
    /\ serv \in [Players -> Servers]
    /\ bound \in SUBSET Players
    /\ gid \in [Players -> Gids \cup {NoGid}]
    /\ next \in [Players -> Players \cup {Null}]
    /\ up \in SUBSET Servers
    /\ head \in [Servers -> [Gids -> Players \cup {Null}]]
    /\ plist \in [Servers -> Seq(Players)]
    /\ busy \in [Servers -> BOOLEAN]
    /\ cursor \in [Servers -> Players \cup {End, Dangling}]
    /\ nbroadcast \in [Servers -> 0 .. MaxMsgs]
    /\ late \in SUBSET Servers
    /\ slot \in [Servers -> 0 .. MaxMsgs]
    /\ due \in [Servers -> SUBSET ((1 .. MaxMsgs) \X Players)]
    /\ msgs \in 0 .. MaxMsgs
    /\ regs \in Nat

NoGroups == [g \in Gids |-> Null]

Init ==
    /\ st = [a \in Players |-> "None"]
    /\ serv \in [Players -> Servers]
    /\ bound = {}
    /\ gid = [a \in Players |-> NoGid]
    /\ next = [a \in Players |-> Null]
    /\ up = Servers
    /\ head = [s \in Servers |-> NoGroups]
    /\ plist = [s \in Servers |-> <<>>]
    /\ busy = [s \in Servers |-> FALSE]
    /\ cursor = [s \in Servers |-> End]
    /\ nbroadcast = [s \in Servers |-> 0]
    /\ late = {}
    /\ slot = [s \in Servers |-> 0]
    /\ due = [s \in Servers |-> {}]
    /\ msgs = 0
    /\ regs = 0

-----------------------------------------------------------------------------
\* Group lists.

\* The nodes met along curr_group_next from the head of a group.
Node(s, g) ==
    LET n[i \in 0 .. Cardinality(Players)] ==
            IF i = 0 THEN head[s][g]
            ELSE IF n[i - 1] = Null THEN Null ELSE next[n[i - 1]]
    IN  n

Members(s, g) == Range(Node(s, g)) \ {Null}

\* Mutant of Left: the head is not changed when the first player leaves.
LeftKeepsHead(a) ==
    IF serv[a] \in up /\ gid[a] # NoGid
    THEN [gid |-> [gid EXCEPT ![a] = NoGid],
          next |-> [b \in Players |-> IF b = a THEN Null
                                      ELSE IF next[b] = a THEN next[a] ELSE next[b]],
          head |-> head]
    ELSE [gid |-> gid, next |-> next, head |-> head]

\* Mutant of Left: the player before forgets those behind the one that leaves.
LeftCutsTail(a) ==
    LET s == serv[a]
        g == gid[a]
    IN  IF s \in up /\ g # NoGid /\ head[s][g] # Null
        THEN [gid |-> [gid EXCEPT ![a] = NoGid],
              next |-> [b \in Players |-> IF b = a \/ next[b] = a THEN Null
                                          ELSE next[b]],
              head |-> [head EXCEPT ![s][g] = IF @ = a THEN next[a] ELSE @]]
        ELSE [gid |-> gid, next |-> next, head |-> head]

\* rbtF_player_leave_group: the group fields after a left its group.  Without
\* a server or a list for the group, nothing is changed, not even curr_gid.
Left(a) ==
    LET s == serv[a]
        g == gid[a]
        here == s \in up /\ g # NoGid /\ head[s][g] # Null
        unlinked == [b \in Players |->
                        IF b \in Members(s, g) /\ next[b] = a
                        THEN next[a] ELSE next[b]]
    IN  IF ~here
        THEN [gid |-> gid, next |-> next, head |-> head]
        ELSE [gid |-> [gid EXCEPT ![a] = NoGid],
              next |-> [unlinked EXCEPT ![a] = Null],
              head |-> [head EXCEPT ![s][g] = IF @ = a THEN next[a] ELSE @]]

SetGroup(to) == gid' = to.gid /\ next' = to.next /\ head' = to.head

\* handle_add_player_to_group and rbtF_player_enter_group: leave the group the
\* player is in, and become the first of the new one.
EnterGroup(a, g) ==
    LET s == serv[a]
        from == IF gid[a] = NoGid
                THEN [gid |-> gid, next |-> next, head |-> head]
                ELSE Left(a)
    IN  /\ a \in bound /\ s \in up
        /\ SetGroup([gid |-> [from.gid EXCEPT ![a] = g],
                     next |-> [from.next EXCEPT ![a] = from.head[s][g]],
                     head |-> [from.head EXCEPT ![s][g] = a]])
        /\ UNCHANGED <<st, serv, bound, up, listVars, msgVars, msgs, regs>>

\* handle_rm_player_from_group.
LeaveGroup(a, g) ==
    /\ a \in bound /\ serv[a] \in up
    /\ gid[a] = g
    /\ SetGroup(Left(a))
    /\ UNCHANGED <<st, serv, bound, up, listVars, msgVars, msgs, regs>>

-----------------------------------------------------------------------------
\* Players come and go.

\* rbtF_player_destroy: a cursor that is still on the Player dangles.
Freed(a) ==
    cursor' = [s \in Servers |-> IF cursor[s] = a THEN Dangling ELSE cursor[s]]

\* rbtF_player_init, of a new Player or of one whose predecessor is destroyed.
Login(a, s) ==
    /\ st[a] # "Live"
    /\ st' = [st EXCEPT ![a] = "Live"]
    /\ serv' = [serv EXCEPT ![a] = s]
    /\ gid' = [gid EXCEPT ![a] = NoGid]
    /\ next' = [next EXCEPT ![a] = Null]
    /\ Freed(a)
    /\ UNCHANGED <<bound, up, listVars, head, busy, nbroadcast, slot, due, msgs, regs>>

\* Mutant of IsListed: only the list of the own server is looked at.
IsListedHere(a) == a \in Range(plist[serv[a]])

\* The player is in a player_list: !list_empty(&ply->player_list).
IsListed(a) == \E s \in Servers : a \in Range(plist[s])

\* handle_buddy_bind of a live player, unless it is listed already, lists it at
\* the server that sends it, whether that is the server of the player's zone or
\* one that it was entered at in an earlier session and that is late.
Bind(a, s) ==
    /\ st[a] = "Live" /\ s \in up
    /\ bound' = bound \cup {a}
    /\ \/ /\ ~IsListed(a)
          /\ plist' = [plist EXCEPT ![s] = <<a>> \o @]
          /\ late' = late \cup ({s} \ {serv[a]})
       \/ /\ IsListed(a)
          /\ UNCHANGED <<plist, late>>
    /\ UNCHANGED <<st, serv, up, groupVars, msgVars, msgs, regs>>

\* The player after a in the player_list of s.
After(s, a) ==
    LET i == Place(plist[s], a)
    IN  IF i = Len(plist[s]) THEN End ELSE plist[s][i + 1]

\* Mutant of Abort: the cursors are not adjusted.
AbortUnderCursor(a) ==
    /\ bound' = bound \ {a}
    /\ plist' = [t \in Servers |-> Unlinked(plist[t], a)]
    /\ due' = [t \in Servers |-> {d \in due[t] : d[2] # a}]
    /\ SetGroup(Left(a))
    /\ UNCHANGED <<up, late, busy, cursor, nbroadcast, slot, msgs, regs>>

\* rbtF_player_abort when the zone of a is on server s: move the cursor of that
\* server's message past a, unlink a from the player_list it is in, whosever it
\* is, and leave the group.
Abort(a) ==
    LET s == serv[a]
    IN  /\ bound' = bound \ {a}
        /\ cursor' = [cursor EXCEPT ![s] =
                         IF s \in up /\ @ = a /\ a \in Range(plist[s])
                         THEN After(s, a) ELSE @]
        /\ plist' = [t \in Servers |-> Unlinked(plist[t], a)]
        /\ due' = [t \in Servers |-> {d \in due[t] : d[2] # a}]
        /\ SetGroup(Left(a))
        /\ UNCHANGED <<up, late, busy, nbroadcast, slot, msgs, regs>>

\* A logout, or a second login, of a live player.
Leave(a) ==
    /\ st[a] = "Live"
    /\ st' = [st EXCEPT ![a] = "Gone"]
    /\ Abort(a)
    /\ UNCHANGED serv

\* A login before the player is saved: only its zone changes.
LoginWhileSaving(a, s) ==
    /\ st[a] = "Gone" /\ serv[a] # s
    /\ serv' = [serv EXCEPT ![a] = s]
    /\ UNCHANGED <<st, bound, up, listVars, groupVars, msgVars, msgs, regs>>

\* rbtF_player_logout after such a login aborts the player once more.
LeaveTwice(a) ==
    /\ st[a] = "Gone"
    /\ Abort(a)
    /\ UNCHANGED <<st, serv>>

\* rbtF_player_destroy.
Destroy(a) ==
    /\ st[a] = "Gone"
    /\ st' = [st EXCEPT ![a] = "None"]
    /\ Freed(a)
    /\ UNCHANGED <<serv, bound, up, listVars, groupVars, busy, nbroadcast, slot,
                   due, msgs, regs>>

-----------------------------------------------------------------------------
\* Logical servers and their global messages.

\* Mutant of FreshSlot: nbroadcast is reset, and the array is used on.
UsedSlot(s) ==
    /\ nbroadcast' = [nbroadcast EXCEPT ![s] = 0]
    /\ UNCHANGED <<busy, cursor, due>>

\* The new array of messages.
FreshSlot(s) ==
    /\ busy' = [busy EXCEPT ![s] = FALSE]
    /\ cursor' = [cursor EXCEPT ![s] = End]
    /\ nbroadcast' = [nbroadcast EXCEPT ![s] = 0]
    /\ due' = [due EXCEPT ![s] = {}]

\* serv_reg; of a server that is still registered, the groups and the
\* player_list are used on.
Register(s) ==
    /\ regs < MaxBreaks
    /\ regs' = regs + 1
    /\ up' = up \cup {s}
    /\ \/ /\ s \in up
          /\ UNCHANGED <<head, plist, late>>
       \/ /\ s \notin up
          /\ head' = [head EXCEPT ![s] = NoGroups]
          /\ plist' = [plist EXCEPT ![s] = <<>>]
          /\ late' = late \ {s}
    /\ FreshSlot(s)
    /\ UNCHANGED <<st, serv, bound, gid, next, slot, msgs>>

\* rbtF_conn_broken: groups = NULL and every player is out of the player_list.
\* What the server had sent is lost.
Break(s) ==
    /\ s \in up
    /\ up' = up \ {s}
    /\ head' = [head EXCEPT ![s] = NoGroups]
    /\ plist' = [plist EXCEPT ![s] = <<>>]
    /\ due' = [due EXCEPT ![s] = {}]
    /\ UNCHANGED <<st, serv, bound, late, gid, next, busy, cursor, nbroadcast, slot,
                   msgs, regs>>

\* handle_global_message.  The search for a free slot never ends without one
\* once the array has one, so a message replaces one that is still being sent.
GlobalMessage(s) ==
    /\ s \in up /\ plist[s] # <<>>
    /\ msgs < MaxMsgs
    /\ msgs' = msgs + 1
    /\ busy' = [busy EXCEPT ![s] = TRUE]
    /\ cursor' = [cursor EXCEPT ![s] = Head(plist[s])]
    /\ nbroadcast' = [nbroadcast EXCEPT ![s] = @ + 1]
    /\ slot' = [slot EXCEPT ![s] = msgs']
    /\ due' = [due EXCEPT ![s] = @ \cup ({msgs'} \X Range(plist[s]))]
    /\ UNCHANGED <<st, serv, bound, up, listVars, groupVars, regs>>

\* broadcast_at has something to send.
Sending(s) == s \in up /\ nbroadcast[s] > 0 /\ busy[s]

\* The cursor is on a player that is in the list no more: list_del has linked it
\* to itself, so that the loop of broadcast_at meets nobody else and no end.
Circling(s) == cursor[s] \in Players \ Range(plist[s])

\* The players from the cursor on, in the order of the player_list.
Ahead(s) ==
    IF cursor[s] = End THEN <<>>
    ELSE SubSeq(plist[s], Place(plist[s], cursor[s]), Len(plist[s]))

\* Mutant of Served: the loop counts down to one.
ServedOneLess(s) ==
    IF Sending(s) /\ ~Circling(s)
    THEN SubSeq(Ahead(s), 1, IF Len(Ahead(s)) < Batch THEN Len(Ahead(s)) ELSE Batch - 1)
    ELSE <<>>

\* broadcast_at: the next Batch players are sent the message, but the cursor
\* stays where it is.  At the end of the player_list the slot is free again.
Served(s) ==
    IF Sending(s) /\ ~Circling(s)
    THEN SubSeq(Ahead(s), 1, IF Len(Ahead(s)) < Batch THEN Len(Ahead(s)) ELSE Batch)
    ELSE <<>>

Finished(s) == Sending(s) /\ ~Circling(s) /\ Len(Ahead(s)) <= Batch

\* Servers whose cursor leads broadcast_at through freed memory.
Astray == {s \in Servers : Sending(s) /\ cursor[s] = Dangling}

\* What comes of one call of broadcast_at; from freed memory, anything.
Sent(s, read) ==
    IF s \in Astray THEN read[s]
    ELSE [heard |-> Range(Served(s)), done |-> Finished(s)]

\* Mutant of Counted: every message is counted down, sent or not.
CountedAlways(s, read) == busy[s]

\* The messages that broadcast_at counts down.
Counted(s, read) == Sent(s, read).done

\* process, once in every turn of the main loop.
Process ==
    \E read \in [Astray -> [heard : SUBSET Players, done : BOOLEAN]] :
        /\ due' = [s \in Servers |-> due[s] \ ({slot[s]} \X Sent(s, read).heard)]
        /\ busy' = [s \in Servers |-> busy[s] /\ ~Sent(s, read).done]
        /\ nbroadcast' = [s \in Servers |-> IF Counted(s, read) THEN nbroadcast[s] - 1
                                                               ELSE nbroadcast[s]]
        /\ UNCHANGED <<st, serv, bound, up, listVars, groupVars, cursor, slot, msgs, regs>>

-----------------------------------------------------------------------------
Next ==
    \/ \E a \in Players :
        \/ \E g \in Gids : EnterGroup(a, g) \/ LeaveGroup(a, g)
        \/ \E s \in Servers : Login(a, s) \/ LoginWhileSaving(a, s) \/ Bind(a, s)
        \/ Leave(a) \/ LeaveTwice(a) \/ Destroy(a)
    \/ \E s \in Servers : Register(s) \/ Break(s) \/ GlobalMessage(s)
    \/ Process

\* The main loop calls process after every poll.
Spec == Init /\ [][Next]_vars /\ WF_vars(Process)

-----------------------------------------------------------------------------
\* handle_group_call can follow every group list: it ends, it holds only live
\* players of this server that say they are in this group, and nobody twice.
GroupsSound ==
    \A s \in Servers, g \in Gids :
        /\ Node(s, g)[Cardinality(Players)] = Null
        /\ \A a \in Members(s, g) : st[a] = "Live" /\ serv[a] = s /\ gid[a] = g

\* The pointers implement the sets: an entry, a leave or an abort moves one
\* player, whoever is before and behind it in its list and whatever is left in
\* curr_gid and curr_group_next of players that were in a group of a server
\* that broke meanwhile.
Groups == INSTANCE GroupMembership WITH
    members <- [s \in Servers |-> [g \in Gids |-> Members(s, g)]]

GroupsImplemented == Groups!Spec

\* A cursor never points to a Player that left its player_list (and whose
\* memory rbtF_player_destroy frees), whatever players leave during a message,
\* as long as the server has listed players of its own zones only: on a player of
\* another server's zone, who is listed by a late bind, the cursor is left.
CursorListed ==
    \A s \in up \ late : busy[s] => cursor[s] = End \/ cursor[s] \in Range(plist[s])

\* The players of all player_lists are live, and each is in one place of one of
\* them, whatever servers list it and whatever lists are lost or used on.
ListSound ==
    \A s \in Servers :
        /\ IsInjective(plist[s])
        /\ \A a \in Range(plist[s]) :
              /\ st[a] = "Live"
              /\ \A t \in Servers \ {s} : a \notin Range(plist[t])

\* A message that is still to be sent is counted, so that broadcast_at, which
\* looks at the count first, does not pass it over.
BusyIsCounted == \A s \in up : busy[s] => nbroadcast[s] > 0

\* The listed players who have not heard message m of s yet.
Unheard(s, m) == {a \in Players : <<m, a>> \in due[s]}

\* Every player in the list when a message comes hears it, unless the player
\* leaves, the server's registration ends, another message takes the slot first,
\* which drops this one, or the server has listed a player of another zone.
EveryoneHears ==
    \A s \in Servers, m \in 1 .. MaxMsgs :
        Unheard(s, m) # {} ~> Unheard(s, m) = {} \/ slot[s] # m \/ s \in late

=============================================================================
