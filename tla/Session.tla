------------------------------ MODULE Session ------------------------------
(***************************************************************************)
(* The life of a player session in the world server (src/Server):          *)
(* twice_login.c, the parts of player.c, rpc.c, handle_server.c and        *)
(* svr_connection.c that create, move, bind, save and destroy a player,    *)
(* and the FIFO connections to the logical servers that own the zones.     *)
(*                                                                         *)
(* The server is one thread: every packet handler runs to its end, so one  *)
(* handler is one action.  What interleaves is the arrival of packets from *)
(* the gate and from several logical servers, the loss of connections and  *)
(* the passage of time.                                                    *)
(*                                                                         *)
(* G(r)->players leads from a character id (pid) to a Player and holds no   *)
(* reference: an entry whose Player was freed is Dangling.  A logical      *)
(* server may bind an account to any id, to a second one as well.          *)
(*                                                                         *)
(* The groups and the cursors of global messages that rbtF_player_abort    *)
(* also adjusts are in PlayerLists; the user counters, statistics and      *)
(* logs, which no handler here reads, are left out.                        *)
(***************************************************************************)
EXTENDS Integers, Sequences, FiniteSets, Functions

CONSTANTS
    Accounts,     \* accounts that log in through the gate
    Servers,      \* ids of logical servers
    Zones,        \* ids of zones
    Conns,        \* connections a logical server may open
    Pids,         \* ids of characters that logical servers bind to
    NoPlayer,     \* an id that G(r)->players has no entry for
    Dangling,     \* an entry of G(r)->players that leads to freed memory
    NoZone,       \* the zone_id of an account without a Player
    NoServ,       \* "no server": LogicalServer.id = -1, Zone.serv_id = -1
    NoConn,       \* LogicalServer.c = NULL
    SaveTimeout,  \* the 15 seconds of rbtF_player_login
    MaxLogins,    \* bound: logins the gate sends in one behaviour
    MaxBreaks     \* bound: connections of logical servers that break

NoPid == -1       \* the pid of a Player that is not bound

ASSUME SessionAssumption ==
    /\ Pids \subseteq Int
    /\ IsFiniteSet(Pids)
    /\ NoPid \notin Pids
    /\ NoPlayer \notin Accounts
    /\ Dangling \notin Accounts
    /\ NoPlayer # Dangling
    /\ NoZone \notin Zones
    /\ NoServ \notin Servers
    /\ NoConn \notin Conns
    /\ SaveTimeout \in Nat
    /\ MaxLogins \in Nat
    /\ MaxBreaks \in Nat

VARIABLES
    state,    \* Player.state by account; "None" when there is no Player
    zone,     \* Player.zone_id; NoZone when there is no Player
    age,      \* time since Player.come_tm, saturating at SaveTimeout + 1
    pid,      \* Player.pid
    players,  \* G(r)->players: the account of the Player an entry leads to
    listed,   \* the logical server whose player_list holds the player
    stray,    \* history: ids whose entry rbtF_player_abort does not take out
    zserv,    \* Zone.serv_id; NoServ while the zone does not exist
    servc,    \* LogicalServer.c
    a2,       \* ConnectionX.a2 of a registered connection, else NoServ
    toServ,   \* packets sent to the logical server and not yet handled
    fromServ, \* packets of the logical server not yet handled here
    made,     \* external: zones the logical server created on a connection
    online,   \* external: where an account is at the logical server
    home,     \* history: accounts whose last packet on a connection is ENTER
    owed,     \* history: the connection on which a save of a player is due
    logins,   \* logins so far
    breaks    \* breaks so far

entryVars  == <<players, listed, stray>>
playerVars == <<state, zone, age, pid, entryVars>>
tableVars  == <<zserv, servc, a2>>
linkVars   == <<toServ, fromServ>>
peerVars   == <<made, online>>
ghostVars  == <<home, owed>>
boundVars  == <<logins, breaks>>
vars == <<playerVars, tableVars, linkVars, peerVars, ghostVars, boundVars>>

PlayerState == {"None", "OK", "Saving", "Twice"}
ToServMsg   == [t : {"enter", "abort"}, a : Accounts, p : Pids \cup {NoPid}]
FromServMsg == [t : {"bind", "saveok"}, a : Accounts, p : Pids \cup {NoPid}]

TypeOK ==
    /\ state \in [Accounts -> PlayerState]
    /\ zone \in [Accounts -> Zones \cup {NoZone}]
    /\ \A a \in Accounts : state[a] = "None" <=> zone[a] = NoZone
    /\ age \in [Accounts -> 0 .. SaveTimeout + 1]
    /\ pid \in [Accounts -> Pids \cup {NoPid}]
    /\ players \in [Pids -> Accounts \cup {NoPlayer, Dangling}]
    /\ listed \in [Accounts -> Servers \cup {NoServ}]
    /\ stray \in SUBSET Pids
    /\ zserv \in [Zones -> Servers \cup {NoServ}]
    /\ servc \in [Servers -> Conns \cup {NoConn}]
    /\ a2 \in [Conns -> Servers \cup {NoServ}]
    /\ toServ \in [Conns -> Seq(ToServMsg)]
    /\ fromServ \in [Conns -> Seq(FromServMsg)]
    /\ made \in [Conns -> SUBSET Zones]
    /\ online \in [Conns -> [Accounts -> {"out", "in", "role"}]]
    /\ home \in [Conns -> SUBSET Accounts]
    /\ owed \in [Accounts -> Conns \cup {NoConn}]
    /\ logins \in Nat
    /\ breaks \in Nat

Init ==
    /\ state = [a \in Accounts |-> "None"]
    /\ zone = [a \in Accounts |-> NoZone]
    /\ age = [a \in Accounts |-> 0]
    /\ pid = [a \in Accounts |-> NoPid]
    /\ players = [p \in Pids |-> NoPlayer]
    /\ listed = [a \in Accounts |-> NoServ]
    /\ stray = {}
    /\ zserv = [z \in Zones |-> NoServ]
    /\ servc = [s \in Servers |-> NoConn]
    /\ a2 = [c \in Conns |-> NoServ]
    /\ toServ = [c \in Conns |-> <<>>]
    /\ fromServ = [c \in Conns |-> <<>>]
    /\ made = [c \in Conns |-> {}]
    /\ online = [c \in Conns |-> [a \in Accounts |-> "out"]]
    /\ home = [c \in Conns |-> {}]
    /\ owed = [a \in Accounts |-> NoConn]
    /\ logins = 0
    /\ breaks = 0

-----------------------------------------------------------------------------
\* Lookups and packets.

\* rbtF_get_serv: the server is registered and connected.
ServUp(s) == s # NoServ /\ servc[s] # NoConn

\* rbtF_get_zone followed by rbtF_get_serv, and rbtF_get_serv_by_zone.
ZoneUp(z) == z # NoZone /\ ServUp(zserv[z])

ConnOf(z) == servc[zserv[z]]

\* rbtF_send_serv: append to the FIFO connection.
SendServ(c, m) == toServ' = [toServ EXCEPT ![c] = Append(@, m)]

\* ENTER_ZONE; for a p it is followed by the call system.SelectRole, which the
\* logical server answers as it answers the player's own choice of a character.
EnterZone(a, p) == [t |-> "enter", a |-> a, p |-> p]

PlayerAbort(a) == [t |-> "abort", a |-> a, p |-> NoPid]
BindTo(a, p)   == [t |-> "bind", a |-> a, p |-> p]
AbortOk(a)     == [t |-> "saveok", a |-> a, p |-> NoPid]

-----------------------------------------------------------------------------
\* The functions of twice_login.c and player.c.

\* rbtF_player_init and real_login.  Without a server for the zone the player
\* exists but no logical server hears of it.
RealLogin(a, z) ==
    /\ state' = [state EXCEPT ![a] = "OK"]
    /\ zone' = [zone EXCEPT ![a] = z]
    /\ age' = [age EXCEPT ![a] = 0]
    /\ pid' = [pid EXCEPT ![a] = NoPid]
    /\ owed' = [owed EXCEPT ![a] = NoConn]
    /\ \/ /\ ZoneUp(z)
          /\ SendServ(ConnOf(z), EnterZone(a, NoPid))
          /\ home' = [home EXCEPT ![ConnOf(z)] = @ \cup {a}]
       \/ /\ ~ZoneUp(z)
          /\ UNCHANGED <<toServ, home>>

\* rbtF_player_destroy frees the Player: entries that lead to it dangle.
Freed(entries, a) ==
    [p \in Pids |-> IF entries[p] = a THEN Dangling ELSE entries[p]]

\* rbtF_player_destroy when no new login follows.
Destroy(a) ==
    /\ state' = [state EXCEPT ![a] = "None"]
    /\ zone' = [zone EXCEPT ![a] = NoZone]
    /\ age' = [age EXCEPT ![a] = 0]
    /\ pid' = [pid EXCEPT ![a] = NoPid]
    /\ owed' = [owed EXCEPT ![a] = NoConn]
    /\ UNCHANGED <<toServ, home>>

\* Mutant of Unbound: without rbtH_rmnum.
UnboundNever(a) == players

\* rbtF_player_abort takes out the entry of the player's id, if it has one, and
\* whoever the entry leads to.
Unbound(a) ==
    IF pid[a] > 0 THEN [players EXCEPT ![pid[a]] = NoPlayer] ELSE players

\* rbtF_player_abort: out of G(r)->players and out of the player_list.
Abort(a) ==
    /\ players' = Unbound(a)
    /\ listed' = [listed EXCEPT ![a] = NoServ]

\* Mutant of ReportLogout: without rbtF_send_serv.
ReportLogoutUnsent(a) ==
    LET c == ConnOf(zone[a])
    IN  /\ ZoneUp(zone[a])
        /\ home' = [home EXCEPT ![c] = @ \ {a}]
        /\ owed' = [owed EXCEPT ![a] = c]
        /\ UNCHANGED toServ

\* report_logout, when it returns 0: the logical server is asked to save.
ReportLogout(a) ==
    LET c == ConnOf(zone[a])
    IN  /\ ZoneUp(zone[a])
        /\ SendServ(c, PlayerAbort(a))
        /\ home' = [home EXCEPT ![c] = @ \ {a}]
        /\ owed' = [owed EXCEPT ![a] = c]

-----------------------------------------------------------------------------
\* Packets of the gate: logins (rbtF_player_login) and REPORT_LOGOUT.

CountLogin ==
    /\ logins < MaxLogins
    /\ logins' = logins + 1
    /\ UNCHANGED <<stray, fromServ, tableVars, peerVars, breaks>>

\* There is no Player of this account.
FirstLogin(a, z) ==
    /\ state[a] = "None"
    /\ RealLogin(a, z)
    /\ CountLogin
    /\ UNCHANGED <<players, listed>>

\* The last session is not saved yet: remember where to log in, and wait.
LoginWhileSaving(a, z) ==
    /\ state[a] \in {"Saving", "Twice"}
    /\ age[a] <= SaveTimeout
    /\ state' = [state EXCEPT ![a] = "Twice"]
    /\ zone' = [zone EXCEPT ![a] = z]
    /\ CountLogin
    /\ UNCHANGED <<age, pid, players, listed, toServ, ghostVars>>

\* The last session is not saved yet, and come_tm is too long ago: the save is
\* taken for done, the Player destroyed and a new one logged in.
LoginForced(a, z) ==
    /\ state[a] \in {"Saving", "Twice"}
    /\ age[a] > SaveTimeout
    /\ players' = Freed(players, a)
    /\ RealLogin(a, z)
    /\ CountLogin
    /\ UNCHANGED listed

\* A second login of a live player: the old session is aborted and reported to
\* its logical server; the login goes on when the save is confirmed.
LoginAgain(a, z) ==
    /\ state[a] = "OK"
    /\ Abort(a)
    /\ ReportLogout(a)
    /\ state' = [state EXCEPT ![a] = "Twice"]
    /\ zone' = [zone EXCEPT ![a] = z]
    /\ age' = [age EXCEPT ![a] = 0]
    /\ CountLogin
    /\ UNCHANGED pid

\* The same when report_logout fails: nobody can save, so log in at once.
LoginAgainUnreported(a, z) ==
    /\ state[a] = "OK"
    /\ ~ZoneUp(zone[a])
    /\ players' = Freed(Unbound(a), a)
    /\ listed' = [listed EXCEPT ![a] = NoServ]
    /\ RealLogin(a, z)
    /\ CountLogin

\* Mutant of Logout: the state is set before it is tested, so nothing is sent.
LogoutUnreported(a) ==
    /\ state[a] = "OK"
    /\ Abort(a)
    /\ state' = [state EXCEPT ![a] = "Saving"]
    /\ UNCHANGED <<zone, age, pid, stray, linkVars, tableVars, peerVars,
                   ghostVars, boundVars>>

\* rbtF_player_logout of a live player; a failed report is ignored.
Logout(a) ==
    /\ state[a] = "OK"
    /\ Abort(a)
    /\ state' = [state EXCEPT ![a] = "Saving"]
    /\ \/ ReportLogout(a)
       \/ /\ ~ZoneUp(zone[a])
          /\ UNCHANGED <<toServ, ghostVars>>
    /\ UNCHANGED <<zone, age, pid, stray, fromServ, tableVars, peerVars, boundVars>>

\* rbtF_player_logout of a player between two logins: it was reported before.
LogoutTwice(a) ==
    /\ state[a] = "Twice"
    /\ Abort(a)
    /\ state' = [state EXCEPT ![a] = "Saving"]
    /\ UNCHANGED <<zone, age, pid, stray, linkVars, tableVars, peerVars,
                   ghostVars, boundVars>>

-----------------------------------------------------------------------------
\* Packets of the logical servers, in the order they were sent.

\* The next packet of connection c, whose server must be up.
Receive(c, m) ==
    /\ fromServ[c] # <<>>
    /\ ServUp(a2[c])
    /\ Head(fromServ[c]) = m
    /\ fromServ' = [fromServ EXCEPT ![c] = Tail(@)]
    /\ UNCHANGED <<tableVars, peerVars, boundVars>>

\* The Player that handle_buddy_bind goes on with.
Bindable(a) == state[a] = "OK"

\* handle_buddy_bind: the account has chosen its character.  The entry under an
\* id it had before stays.
BuddyBind(c, a, p) ==
    /\ Receive(c, BindTo(a, p))
    /\ \/ /\ Bindable(a)
          /\ pid' = [pid EXCEPT ![a] = p]
          /\ players' = [players EXCEPT ![p] = a]
          /\ stray' = stray \cup ({pid[a]} \ {NoPid, p}) \cup {q \in {p} : q <= 0}
          /\ listed' = [listed EXCEPT ![a] = IF @ = NoServ THEN a2[c] ELSE @]
       \/ /\ ~Bindable(a)
          /\ UNCHANGED <<pid, entryVars>>
    /\ UNCHANGED <<state, zone, age, toServ, ghostVars>>

\* Mutant of SaveOk: the second login is not gone on with.
SaveOkSavingOnly(c, a) ==
    /\ Receive(c, AbortOk(a))
    /\ \/ /\ state[a] = "Saving"
          /\ players' = Freed(players, a)
          /\ Destroy(a)
       \/ /\ state[a] # "Saving"
          /\ UNCHANGED <<state, zone, age, pid, players, toServ, ghostVars>>
    /\ UNCHANGED <<listed, stray>>

\* Mutant of SaveOk: twice_login reads ply->zone_id after the Player is freed.
SaveOkFreedZone(c, a) ==
    /\ Receive(c, AbortOk(a))
    /\ \/ /\ state[a] = "Saving"
          /\ players' = Freed(players, a)
          /\ Destroy(a)
       \/ /\ state[a] = "Twice"
          /\ players' = Freed(players, a)
          /\ RealLogin(a, NoZone)
       \/ /\ state[a] \in {"None", "OK"}
          /\ UNCHANGED <<state, zone, age, pid, players, toServ, ghostVars>>
    /\ UNCHANGED <<listed, stray>>

\* handle_server_buddy_abort_ok and rbtF_player_save_ok.
SaveOk(c, a) ==
    /\ Receive(c, AbortOk(a))
    /\ \/ /\ state[a] = "Saving"
          /\ players' = Freed(players, a)
          /\ Destroy(a)
       \/ /\ state[a] = "Twice"
          /\ players' = Freed(players, a)
          /\ RealLogin(a, zone[a])
       \/ /\ state[a] \in {"None", "OK"}
          /\ UNCHANGED <<state, zone, age, pid, players, toServ, ghostVars>>
    /\ UNCHANGED <<listed, stray>>

\* What handle_create_zone may send for the entry p of G(r)->players: the Player
\* is entered with the id it has now, and a freed one is whatever the memory
\* holds by then.
Entered(p, z) ==
    {m \in [t : {"enter"}, a : Accounts, p : Pids] :
        \/ players[p] = m.a /\ zone[m.a] = z /\ m = EnterZone(m.a, pid[m.a])
        \/ players[p] = Dangling}

\* The entries that are entered: a freed Player may seem to be of another zone.
Found(z) ==
    {f \in SUBSET {p \in Pids : Entered(p, z) # {}} :
        \A p \in Pids \ f : Entered(p, z) = {} \/ players[p] = Dangling}

Sent(found, z) ==
    {s \in [found -> UNION {Entered(p, z) : p \in found}] :
        \A p \in found : s[p] \in Entered(p, z)}

\* handle_create_zone: a new zone, or the zone of a server that came back.  In
\* that case the players bound to characters are entered again, in the order of
\* the hash table.  (A zone that another server created is only logged.)
CreateZone(c, z) ==
    /\ ServUp(a2[c])
    /\ z \notin made[c]
    /\ zserv[z] \in {NoServ, a2[c]}
    /\ zserv' = [zserv EXCEPT ![z] = a2[c]]
    /\ made' = [made EXCEPT ![c] = @ \cup {z}]
    /\ \E found \in IF zserv[z] = a2[c] THEN Found(z) ELSE {{}} :
       \E order \in Bijection(1 .. Cardinality(found), found), sent \in Sent(found, z) :
         /\ toServ' = [toServ EXCEPT ![c] = @ \o [i \in DOMAIN order |-> sent[order[i]]]]
         /\ home' = [home EXCEPT ![c] = @ \cup {sent[p].a : p \in found}]
    /\ UNCHANGED <<playerVars, servc, a2, fromServ, online, owed, boundVars>>

-----------------------------------------------------------------------------
\* Connections of logical servers.

\* serv_reg: a connection registers as server s.  When s is connected already
\* its state is kept and the old connection stays registered too.
ServReg(c, s) ==
    /\ a2[c] = NoServ
    /\ a2' = [a2 EXCEPT ![c] = s]
    /\ servc' = [servc EXCEPT ![s] = c]
    /\ UNCHANGED <<playerVars, zserv, linkVars, peerVars, ghostVars, boundVars>>

\* The connection and all that was under way on it are gone.
Drop(c) ==
    /\ a2' = [a2 EXCEPT ![c] = NoServ]
    /\ toServ' = [toServ EXCEPT ![c] = <<>>]
    /\ fromServ' = [fromServ EXCEPT ![c] = <<>>]
    /\ made' = [made EXCEPT ![c] = {}]
    /\ online' = [online EXCEPT ![c] = [a \in Accounts |-> "out"]]
    /\ home' = [home EXCEPT ![c] = {}]
    /\ owed' = [a \in Accounts |-> IF owed[a] = c THEN NoConn ELSE owed[a]]
    /\ UNCHANGED <<state, zone, age, pid, players, stray, zserv, logins>>

\* rbtF_conn_broken.  Only the current connection of a server takes the server
\* down, with its player_list.
ConnBroken(c) ==
    LET s == a2[c]
    IN  /\ s # NoServ
        /\ breaks < MaxBreaks
        /\ breaks' = breaks + 1
        /\ \/ /\ servc[s] = c
              /\ servc' = [servc EXCEPT ![s] = NoConn]
              /\ listed' = [a \in Accounts |->
                               IF listed[a] = s THEN NoServ ELSE listed[a]]
           \/ /\ servc[s] # c
              /\ UNCHANGED <<servc, listed>>
        /\ Drop(c)

\* rbtF_rpc_process returns -1: a packet of a connection whose server is down
\* gets the connection closed.
DropOrphan(c) ==
    /\ a2[c] # NoServ
    /\ ~ServUp(a2[c])
    /\ fromServ[c] # <<>>
    /\ Drop(c)
    /\ UNCHANGED <<servc, listed, breaks>>

-----------------------------------------------------------------------------
\* External: what a logical server does, as the handlers above expect it.

\* It answers each PLAYER_ABORT, when the player is saved, with ABORT_OK.
ServHandle(c) ==
    /\ toServ[c] # <<>>
    /\ toServ' = [toServ EXCEPT ![c] = Tail(@)]
    /\ LET m == Head(toServ[c])
       IN  \/ /\ m.t = "enter" /\ m.p = NoPid
              /\ online' = [online EXCEPT ![c][m.a] = "in"]
              /\ UNCHANGED fromServ
           \/ /\ m.t = "enter" /\ m.p # NoPid
              /\ online' = [online EXCEPT ![c][m.a] = "role"]
              /\ fromServ' = [fromServ EXCEPT ![c] = Append(@, BindTo(m.a, m.p))]
           \/ /\ m.t = "abort"
              /\ online' = [online EXCEPT ![c][m.a] = "out"]
              /\ fromServ' = [fromServ EXCEPT ![c] = Append(@, AbortOk(m.a))]
    /\ UNCHANGED <<playerVars, tableVars, made, ghostVars, boundVars>>

\* An entered player chooses a character, any one of the account's.
ServBind(c, a, p) ==
    /\ online[c][a] = "in"
    /\ online' = [online EXCEPT ![c][a] = "role"]
    /\ fromServ' = [fromServ EXCEPT ![c] = Append(@, BindTo(a, p))]
    /\ UNCHANGED <<playerVars, tableVars, toServ, made, ghostVars, boundVars>>

\* Time passes for every Player there is.
Tick ==
    /\ age' = [a \in Accounts |->
                  IF state[a] # "None" /\ age[a] <= SaveTimeout
                  THEN age[a] + 1 ELSE age[a]]
    /\ UNCHANGED <<state, zone, pid, entryVars, tableVars, linkVars, peerVars,
                   ghostVars, boundVars>>

-----------------------------------------------------------------------------
GateLogin ==
    \E a \in Accounts, z \in Zones :
        \/ FirstLogin(a, z)
        \/ LoginWhileSaving(a, z)
        \/ LoginForced(a, z)
        \/ LoginAgain(a, z)
        \/ LoginAgainUnreported(a, z)

GateLogout == \E a \in Accounts : Logout(a) \/ LogoutTwice(a)

Dispatch(c) ==
    \/ \E a \in Accounts, p \in Pids : BuddyBind(c, a, p)
    \/ \E a \in Accounts : SaveOk(c, a)
    \/ DropOrphan(c)

Peer ==
    \E c \in Conns :
        \/ \E s \in Servers : ServReg(c, s)
        \/ \E z \in Zones : CreateZone(c, z)
        \/ \E a \in Accounts, p \in Pids : ServBind(c, a, p)
        \/ ConnBroken(c)

Packets ==
    \/ GateLogin
    \/ GateLogout
    \/ \E c \in Conns : Dispatch(c) \/ ServHandle(c)
    \/ Peer

Next == Packets \/ Tick

\* rbtNet_poll returns for every readable connection, and a logical server
\* handles the packets it is sent; nobody has to log in, break or register.
Fairness == \A c \in Conns : WF_vars(Dispatch(c)) /\ WF_vars(ServHandle(c))

Spec == Init /\ [][Next]_vars /\ Fairness

-----------------------------------------------------------------------------
\* Whoever is in a player_list has a live session, and so has whoever
\* G(r)->players leads to, under the id that the Player has: rbtF_player_destroy
\* frees the Player, so anything else is or becomes a dangling pointer.  The
\* entries that handle_buddy_bind leaves behind are excepted: those of an id that
\* a second bind replaced, or that is not positive, which no abort takes out.
NoDanglingPlayer ==
    /\ \A a \in Accounts : listed[a] # NoServ => state[a] = "OK"
    /\ \A p \in Pids \ stray : players[p] # NoPlayer =>
           /\ p > 0 /\ players[p] \in Accounts
           /\ state[players[p]] = "OK" /\ pid[players[p]] = p

\* A logical server hosts an account (the last packet it was sent about it is
\* ENTER_ZONE) only while the account has a live session in a zone of that
\* server.  So an account is never on two logical servers at once, whatever
\* logins, timeouts and reconnects come between.  (handle_create_zone enters
\* whoever G(r)->players leads to, so this holds as long as no bind has left an
\* entry behind.)
HomeIsZone ==
    stray = {} =>
        \A s \in Servers, a \in Accounts :
            servc[s] # NoConn /\ a \in home[servc[s]]
                => state[a] = "OK" /\ zserv[zone[a]] = s

\* A player that waits for its save is not forgotten: the request or its answer
\* is on its way as long as the connection lives.
SaveInFlight ==
    \A a \in Accounts :
        owed[a] # NoConn =>
            \/ PlayerAbort(a) \in Range(toServ[owed[a]])
            \/ AbortOk(a) \in Range(fromServ[owed[a]])

\* A second login that was reported ends: the player leaves the Twice state, or
\* the connection it waits on is lost.
SecondLoginEnds ==
    \A a \in Accounts :
        (state[a] = "Twice" /\ owed[a] # NoConn)
            ~> (state[a] # "Twice" \/ owed[a] = NoConn)

=============================================================================
