--------------------------- MODULE SessionProofs ---------------------------
(***************************************************************************)
(* Theorems about Session for every set of accounts, servers, zones and    *)
(* connections and character ids, and every bound.  The inductive          *)
(* invariant IInv adds to HomeIsZone what it rests on: which connection a  *)
(* server may call its own.                                                *)
(***************************************************************************)
EXTENDS Session, ListLemmas, FiniteSetTheorems

\* The connection of a server is registered as that server's, so two servers
\* never share one.
ConnIsOwn == \A s \in Servers : servc[s] # NoConn => a2[servc[s]] = s

\* A connection that is not registered has no players.
FreshConn == \A c \in Conns : a2[c] = NoServ => home[c] = {}

IInv ==
    /\ TypeOK
    /\ NoDanglingPlayer
    /\ HomeIsZone
    /\ ConnIsOwn
    /\ FreshConn

-----------------------------------------------------------------------------
\* The packets are those of the protocol.
LEMMA PacketTypes ==
    ASSUME NEW a \in Accounts
    PROVE  /\ PlayerAbort(a) \in ToServMsg /\ AbortOk(a) \in FromServMsg
           /\ \A p \in Pids \cup {NoPid} :
                  EnterZone(a, p) \in ToServMsg /\ BindTo(a, p) \in FromServMsg
BY DEF ToServMsg, FromServMsg, PlayerAbort, AbortOk, EnterZone, BindTo

\* What CreateZone enters is sent as a sequence of packets.
LEMMA EntersIsSeq ==
    ASSUME TypeOK, SessionAssumption, NEW z \in Zones,
           NEW found \in SUBSET Pids,
           NEW order \in Bijection(1 .. Cardinality(found), found),
           NEW sent \in Sent(found, z)
    PROVE  /\ \A p \in found : sent[p] \in ToServMsg
           /\ [i \in DOMAIN order |-> sent[order[i]]] \in Seq(ToServMsg)
<1>1. \A p \in found : sent[p] \in ToServMsg
  BY DEF Sent, Entered, ToServMsg
<1>2. IsFiniteSet(found)
  BY FS_Subset DEF SessionAssumption
<1>3. Cardinality(found) \in Nat
  BY <1>2, FS_CardinalityType
<1>4. order \in [1 .. Cardinality(found) -> found]
  BY DEF Bijection, Injection
<1>5. \A i \in 1 .. Cardinality(found) : sent[order[i]] \in ToServMsg
  BY <1>1, <1>4
<1>. QED
  BY <1>1, <1>3, <1>4, <1>5, IsASeq

\* A packet sent keeps the queues typed.
LEMMA SendServType ==
    ASSUME toServ \in [Conns -> Seq(ToServMsg)],
           NEW c \in Conns, NEW m \in ToServMsg, SendServ(c, m)
    PROVE  toServ' \in [Conns -> Seq(ToServMsg)]
<1>1. Append(toServ[c], m) \in Seq(ToServMsg)
  BY AppendProperties
<1>. QED
  BY <1>1 DEF SendServ

\* What RealLogin does to the variables, in a typed state.
LEMMA RealLoginType ==
    ASSUME TypeOK, SessionAssumption,
           NEW a \in Accounts, NEW z \in Zones, RealLogin(a, z)
    PROVE  /\ state' \in [Accounts -> PlayerState]
           /\ zone' \in [Accounts -> Zones \cup {NoZone}]
           /\ \A b \in Accounts : state'[b] = "None" <=> zone'[b] = NoZone
           /\ age' \in [Accounts -> 0 .. SaveTimeout + 1]
           /\ pid' \in [Accounts -> Pids \cup {NoPid}]
           /\ owed' \in [Accounts -> Conns \cup {NoConn}]
           /\ toServ' \in [Conns -> Seq(ToServMsg)]
           /\ home' \in [Conns -> SUBSET Accounts]
<1>1. /\ state' \in [Accounts -> PlayerState]
      /\ zone' \in [Accounts -> Zones \cup {NoZone}]
      /\ \A b \in Accounts : state'[b] = "None" <=> zone'[b] = NoZone
      /\ age' \in [Accounts -> 0 .. SaveTimeout + 1]
      /\ pid' \in [Accounts -> Pids \cup {NoPid}]
      /\ owed' \in [Accounts -> Conns \cup {NoConn}]
  BY DEF TypeOK, RealLogin, PlayerState, SessionAssumption
<1>2. CASE ZoneUp(z)
  <2>1. ConnOf(z) \in Conns
    BY <1>2 DEF TypeOK, ZoneUp, ServUp, ConnOf, SessionAssumption
  <2>2. EnterZone(a, NoPid) \in ToServMsg
    BY PacketTypes
  <2>3. toServ' \in [Conns -> Seq(ToServMsg)]
    BY <1>2, <2>1, <2>2, SendServType DEF TypeOK, RealLogin
  <2>4. home' \in [Conns -> SUBSET Accounts]
    <3>1. home' = [home EXCEPT ![ConnOf(z)] = @ \cup {a}]
      BY <1>2 DEF RealLogin
    <3>2. home[ConnOf(z)] \cup {a} \in SUBSET Accounts
      BY <2>1 DEF TypeOK
    <3>. QED
      BY <2>1, <3>1, <3>2 DEF TypeOK
  <2>. QED
    BY <1>1, <2>3, <2>4
<1>. QED
  BY <1>1, <1>2 DEF TypeOK, RealLogin

\* The same for ReportLogout.
LEMMA ReportLogoutType ==
    ASSUME TypeOK, SessionAssumption, NEW a \in Accounts, ReportLogout(a)
    PROVE  /\ ConnOf(zone[a]) \in Conns
           /\ owed' \in [Accounts -> Conns \cup {NoConn}]
           /\ toServ' \in [Conns -> Seq(ToServMsg)]
           /\ home' \in [Conns -> SUBSET Accounts]
<1>1. ConnOf(zone[a]) \in Conns
  BY DEF TypeOK, ReportLogout, ZoneUp, ServUp, ConnOf, SessionAssumption
<1>2. PlayerAbort(a) \in ToServMsg
  BY PacketTypes
<1>3. toServ' \in [Conns -> Seq(ToServMsg)]
  BY <1>1, <1>2, SendServType DEF TypeOK, ReportLogout
<1>. QED
  BY <1>1, <1>3 DEF TypeOK, ReportLogout

\* The entries of G(r)->players stay typed.
LEMMA EntriesType ==
    ASSUME TypeOK, NEW a \in Accounts
    PROVE  /\ Unbound(a) \in [Pids -> Accounts \cup {NoPlayer, Dangling}]
           /\ Freed(players, a) \in [Pids -> Accounts \cup {NoPlayer, Dangling}]
           /\ Freed(Unbound(a), a) \in [Pids -> Accounts \cup {NoPlayer, Dangling}]
<1>1. Unbound(a) \in [Pids -> Accounts \cup {NoPlayer, Dangling}]
  BY DEF TypeOK, Unbound, NoPid
<1>2. \A e \in [Pids -> Accounts \cup {NoPlayer, Dangling}] :
         Freed(e, a) \in [Pids -> Accounts \cup {NoPlayer, Dangling}]
  BY DEF Freed
<1>. QED
  BY <1>1, <1>2 DEF TypeOK

-----------------------------------------------------------------------------
\* A session that ends or begins leaves no sound entry to its Player, when it
\* had none or its own is taken out.
LEMMA EntriesKeep ==
    ASSUME IInv, SessionAssumption, NEW a \in Accounts,
           \A b \in Accounts \ {a} : state'[b] = state[b] /\ pid'[b] = pid[b],
           stray' = stray,
           \/ /\ listed' = listed /\ state[a] # "OK"
              /\ players' \in {players, Freed(players, a)}
           \/ /\ listed' = [listed EXCEPT ![a] = NoServ]
              /\ players' \in {Unbound(a), Freed(Unbound(a), a)}
    PROVE  NoDanglingPlayer'
<1>. USE DEF IInv, NoDanglingPlayer
<1>1. ASSUME NEW b \in Accounts, listed'[b] # NoServ PROVE state'[b] = "OK"
  <2>1. listed[b] # NoServ /\ b # a
    BY <1>1 DEF TypeOK
  <2>. QED
    BY <2>1
<1>2. \A q \in Pids \ stray : Unbound(a)[q] # NoPlayer =>
         players[q] # a /\ Unbound(a)[q] = players[q] /\ players[q] # NoPlayer
  BY DEF Unbound, TypeOK
<1>3. state[a] # "OK" => \A q \in Pids \ stray : players[q] # a
  BY DEF SessionAssumption
<1>4. \A q \in Pids \ stray : players'[q] # NoPlayer =>
         players[q] # a /\ players'[q] = players[q] /\ players[q] # NoPlayer
  <2>1. CASE players' \in {players, Freed(players, a)} /\ state[a] # "OK"
    BY <1>3, <2>1 DEF Freed
  <2>2. CASE players' \in {Unbound(a), Freed(Unbound(a), a)}
    BY <1>2, <2>2 DEF Freed
  <2>. QED
    BY <2>1, <2>2
<1>5. ASSUME NEW q \in Pids \ stray', players'[q] # NoPlayer
      PROVE  /\ q > 0 /\ players'[q] \in Accounts
             /\ state'[players'[q]] = "OK" /\ pid'[players'[q]] = q
  <2>1. players[q] # a /\ players'[q] = players[q] /\ players[q] # NoPlayer
    BY <1>4, <1>5
  <2>2. q > 0 /\ players[q] \in Accounts /\ state[players[q]] = "OK" /\ pid[players[q]] = q
    BY <1>5, <2>1
  <2>3. \A b \in Accounts \ {a} : state'[b] = state[b] /\ pid'[b] = pid[b]
    OBVIOUS
  <2>. QED
    BY <2>1, <2>2, <2>3
<1>. QED
  BY <1>1, <1>5

-----------------------------------------------------------------------------
\* A new Player keeps the invariant when no logical server hosts the account.
LEMMA RealLoginKeeps ==
    ASSUME IInv, SessionAssumption,
           NEW a \in Accounts, NEW z \in Zones, RealLogin(a, z),
           stray = {} => \A s \in Servers : servc[s] # NoConn => a \notin home[servc[s]],
           UNCHANGED <<tableVars, stray>>
    PROVE  HomeIsZone' /\ ConnIsOwn' /\ FreshConn'
<1>. USE DEF IInv, tableVars
<1>1. /\ state' = [state EXCEPT ![a] = "OK"]
      /\ zone' = [zone EXCEPT ![a] = z]
      /\ zserv' = zserv /\ servc' = servc /\ a2' = a2
  BY DEF RealLogin
<1>2. ConnIsOwn'
  BY <1>1 DEF ConnIsOwn
<1>4. ASSUME NEW c \in Conns, NEW b \in home'[c]
      PROVE  b \in home[c] \/ (b = a /\ ZoneUp(z) /\ c = ConnOf(z))
  BY <1>4 DEF RealLogin, TypeOK
<1>5. FreshConn'
  <2>. SUFFICES ASSUME NEW c \in Conns, a2'[c] = NoServ, NEW b \in home'[c]
                PROVE  FALSE
    BY DEF FreshConn
  <2>1. home[c] = {}
    BY <1>1 DEF FreshConn
  <2>2. ZoneUp(z) /\ c = ConnOf(z)
    BY <1>4, <2>1
  <2>3. a2[c] = zserv[z] /\ zserv[z] \in Servers
    BY <2>2 DEF ConnIsOwn, ZoneUp, ServUp, ConnOf, TypeOK
  <2>. QED
    BY <1>1, <2>3 DEF SessionAssumption
<1>6. HomeIsZone'
  <2>. SUFFICES ASSUME stray' = {}, NEW s \in Servers, NEW b \in Accounts,
                       servc'[s] # NoConn, b \in home'[servc'[s]]
                PROVE  state'[b] = "OK" /\ zserv'[zone'[b]] = s
    BY DEF HomeIsZone
  <2>1. servc[s] \in Conns /\ servc[s] # NoConn
    BY <1>1 DEF TypeOK
  <2>2. CASE b \in home[servc[s]]
    <3>1. b # a /\ state[b] = "OK" /\ zserv[zone[b]] = s
      BY <2>1, <2>2 DEF HomeIsZone
    <3>. QED
      BY <1>1, <3>1 DEF TypeOK
  <2>3. CASE b \notin home[servc[s]]
    <3>1. b = a /\ ZoneUp(z) /\ servc[s] = ConnOf(z)
      BY <1>1, <1>4, <2>1, <2>3
    <3>2. zserv[z] \in Servers /\ servc[zserv[z]] # NoConn
      BY <3>1 DEF ZoneUp, ServUp, TypeOK
    <3>3. zserv[z] = s
      BY <2>1, <3>1, <3>2 DEF ConnIsOwn, ConnOf
    <3>. QED
      BY <1>1, <3>1, <3>3 DEF TypeOK
  <2>. QED
    BY <2>2, <2>3
<1>. QED
  BY <1>2, <1>5, <1>6

\* Asking a server to save an account keeps it, whatever the account turns to.
LEMMA ReportLogoutKeeps ==
    ASSUME IInv, SessionAssumption,
           NEW a \in Accounts, NEW z \in Zones, NEW st \in PlayerState,
           state[a] = "OK", ReportLogout(a),
           state' = [state EXCEPT ![a] = st],
           zone' = [zone EXCEPT ![a] = z],
           UNCHANGED <<tableVars, stray>>
    PROVE  HomeIsZone' /\ ConnIsOwn' /\ FreshConn'
<1>. USE DEF IInv, tableVars
<1>1. ConnIsOwn'
  BY DEF ConnIsOwn
<1>3. FreshConn'
  BY DEF FreshConn, ReportLogout, TypeOK
<1>4. HomeIsZone'
  <2>. SUFFICES ASSUME stray' = {}, NEW s \in Servers, NEW b \in Accounts,
                       servc'[s] # NoConn, b \in home'[servc'[s]]
                PROVE  state'[b] = "OK" /\ zserv'[zone'[b]] = s
    BY DEF HomeIsZone
  <2>1. servc[s] \in Conns /\ servc[s] # NoConn
    BY DEF TypeOK
  <2>2. b \in home[servc[s]]
    BY <2>1 DEF ReportLogout, TypeOK
  <2>3. state[b] = "OK" /\ zserv[zone[b]] = s
    BY <2>1, <2>2 DEF HomeIsZone
  <2>4. b # a
    BY <2>1, <2>3 DEF ReportLogout, ConnOf, TypeOK
  <2>. QED
    BY <2>3, <2>4 DEF TypeOK
<1>. QED
  BY <1>1, <1>3, <1>4

\* Where the server of no current connection knows the account.
LEMMA NotHosted ==
    ASSUME HomeIsZone, NEW a \in Accounts,
           state[a] # "OK" \/ ~ZoneUp(zone[a]),
           TypeOK, SessionAssumption
    PROVE  stray = {} => \A s \in Servers : servc[s] # NoConn => a \notin home[servc[s]]
<1>. SUFFICES ASSUME stray = {},
                     NEW s \in Servers, servc[s] # NoConn, a \in home[servc[s]]
              PROVE  FALSE
  OBVIOUS
<1>1. state[a] = "OK" /\ zserv[zone[a]] = s
  BY DEF HomeIsZone
<1>2. zone[a] \in Zones
  BY <1>1 DEF TypeOK
<1>. QED
  BY <1>1, <1>2 DEF ZoneUp, ServUp, SessionAssumption

\* Each login the gate sends keeps the invariant.
LEMMA GateLoginStep ==
    ASSUME IInv, SessionAssumption, GateLogin
    PROVE  IInv'
<1>. USE DEF IInv
<1>1. PICK a \in Accounts, z \in Zones :
         \/ FirstLogin(a, z)
         \/ LoginWhileSaving(a, z)
         \/ LoginForced(a, z)
         \/ LoginAgain(a, z)
         \/ LoginAgainUnreported(a, z)
  BY DEF GateLogin
<1>2. CASE FirstLogin(a, z) \/ LoginForced(a, z)
  <2>1. /\ RealLogin(a, z) /\ CountLogin /\ state[a] # "OK"
        /\ listed' = listed /\ players' \in {players, Freed(players, a)}
        /\ stray' = stray
    BY <1>2 DEF FirstLogin, LoginForced, CountLogin
  <2>2. TypeOK'
    <3>1. players' \in [Pids -> Accounts \cup {NoPlayer, Dangling}]
      BY <2>1, EntriesType DEF TypeOK
    <3>. QED
      BY <2>1, <3>1, RealLoginType
         DEF TypeOK, CountLogin, tableVars, peerVars
  <2>3. NoDanglingPlayer'
    BY <2>1, EntriesKeep DEF RealLogin, TypeOK
  <2>4. stray = {} => \A s \in Servers : servc[s] # NoConn => a \notin home[servc[s]]
    BY <2>1, NotHosted
  <2>5. UNCHANGED <<tableVars, stray>>
    BY <2>1 DEF CountLogin
  <2>. QED
    BY <2>1, <2>2, <2>3, <2>4, <2>5, RealLoginKeeps
<1>3. CASE LoginWhileSaving(a, z)
  <2>1. /\ state' = [state EXCEPT ![a] = "Twice"]
        /\ zone' = [zone EXCEPT ![a] = z]
        /\ UNCHANGED <<age, pid, players, listed, toServ, ghostVars>>
        /\ CountLogin /\ state[a] # "OK" /\ stray' = stray
    BY <1>3 DEF LoginWhileSaving, CountLogin
  <2>2. TypeOK'
    BY <2>1 DEF TypeOK, PlayerState, CountLogin, tableVars, peerVars, ghostVars,
                SessionAssumption
  <2>3. NoDanglingPlayer'
    BY <2>1, EntriesKeep DEF TypeOK
  <2>4. /\ zserv' = zserv /\ servc' = servc /\ a2' = a2 /\ home' = home
    BY <2>1 DEF CountLogin, tableVars, ghostVars
  <2>5. ConnIsOwn' /\ FreshConn'
    BY <2>4 DEF ConnIsOwn, FreshConn
  <2>7. HomeIsZone'
    BY <2>1, <2>4 DEF HomeIsZone, TypeOK
  <2>. QED
    BY <2>2, <2>3, <2>5, <2>7
<1>4. CASE LoginAgain(a, z)
  <2>1. /\ Abort(a) /\ ReportLogout(a) /\ CountLogin /\ state[a] = "OK"
        /\ state' = [state EXCEPT ![a] = "Twice"]
        /\ zone' = [zone EXCEPT ![a] = z]
        /\ age' = [age EXCEPT ![a] = 0]
        /\ pid' = pid
        /\ UNCHANGED <<tableVars, stray>>
    BY <1>4 DEF LoginAgain, CountLogin
  <2>2. TypeOK'
    BY <2>1, ReportLogoutType, EntriesType
       DEF TypeOK, PlayerState, CountLogin, Abort, tableVars, peerVars,
           SessionAssumption
  <2>3. NoDanglingPlayer'
    BY <2>1, EntriesKeep DEF Abort, TypeOK
  <2>4. "Twice" \in PlayerState
    BY DEF PlayerState
  <2>. QED
    BY <2>1, <2>2, <2>3, <2>4, ReportLogoutKeeps
<1>5. CASE LoginAgainUnreported(a, z)
  <2>1. /\ RealLogin(a, z) /\ CountLogin
        /\ players' = Freed(Unbound(a), a)
        /\ listed' = [listed EXCEPT ![a] = NoServ]
        /\ state[a] = "OK" /\ ~ZoneUp(zone[a]) /\ UNCHANGED <<tableVars, stray>>
    BY <1>5 DEF LoginAgainUnreported, CountLogin
  <2>2. TypeOK'
    BY <2>1, RealLoginType, EntriesType
       DEF TypeOK, CountLogin, tableVars, peerVars
  <2>3. NoDanglingPlayer'
    BY <2>1, EntriesKeep DEF RealLogin, TypeOK
  <2>4. stray = {} => \A s \in Servers : servc[s] # NoConn => a \notin home[servc[s]]
    BY <2>1, NotHosted
  <2>. QED
    BY <2>1, <2>2, <2>3, <2>4, RealLoginKeeps
<1>. QED
  BY <1>1, <1>2, <1>3, <1>4, <1>5

\* Each logout the gate reports keeps the invariant.
LEMMA GateLogoutStep ==
    ASSUME IInv, SessionAssumption, GateLogout
    PROVE  IInv'
<1>. USE DEF IInv
<1>1. PICK a \in Accounts : Logout(a) \/ LogoutTwice(a)
  BY DEF GateLogout
<1>2. /\ Abort(a)
      /\ state' = [state EXCEPT ![a] = "Saving"]
      /\ UNCHANGED <<zone, age, pid, stray, fromServ, tableVars, peerVars, boundVars>>
      /\ state[a] # "None"
  BY <1>1 DEF Logout, LogoutTwice, linkVars
<1>3. NoDanglingPlayer'
  BY <1>2, EntriesKeep DEF Abort, TypeOK
<1>4. CASE ReportLogout(a) /\ state[a] = "OK"
  <2>1. TypeOK'
    BY <1>2, <1>4, ReportLogoutType, EntriesType
       DEF TypeOK, PlayerState, Abort, tableVars, peerVars, boundVars
  <2>2. zone' = [zone EXCEPT ![a] = zone[a]] /\ zone[a] \in Zones
    BY <1>2, <1>4 DEF TypeOK
  <2>3. "Saving" \in PlayerState
    BY DEF PlayerState
  <2>. QED
    BY <1>2, <1>3, <1>4, <2>1, <2>2, <2>3, ReportLogoutKeeps
<1>5. CASE UNCHANGED <<toServ, ghostVars>> /\
           (state[a] # "OK" \/ ~ZoneUp(zone[a]))
  <2>1. TypeOK'
    BY <1>2, <1>5, EntriesType
       DEF TypeOK, PlayerState, Abort, tableVars, peerVars, boundVars, ghostVars
  <2>2. /\ zserv' = zserv /\ servc' = servc /\ a2' = a2 /\ home' = home
    BY <1>2, <1>5 DEF tableVars, ghostVars
  <2>3. ConnIsOwn' /\ FreshConn'
    BY <2>2 DEF ConnIsOwn, FreshConn
  <2>5. stray = {} => \A s \in Servers : servc[s] # NoConn => a \notin home[servc[s]]
    BY <1>5, NotHosted
  <2>6. HomeIsZone'
    BY <1>2, <2>2, <2>5 DEF HomeIsZone, TypeOK
  <2>. QED
    BY <1>3, <2>1, <2>3, <2>6
<1>. QED
  BY <1>1, <1>4, <1>5 DEF Logout, LogoutTwice, linkVars

-----------------------------------------------------------------------------
\* A step that leaves sessions, tables and hosts alone keeps what relates them.
LEMMA HostsStay ==
    ASSUME IInv, UNCHANGED <<state, zone, zserv, servc, a2, home>>,
           stray \subseteq stray'
    PROVE  HomeIsZone' /\ ConnIsOwn' /\ FreshConn'
BY DEF IInv, HomeIsZone, ConnIsOwn, FreshConn

\* Taking the next packet of a connection keeps its queue typed.
LEMMA ReceiveType ==
    ASSUME TypeOK, NEW c \in Conns, NEW m, Receive(c, m)
    PROVE  /\ fromServ' \in [Conns -> Seq(FromServMsg)]
           /\ UNCHANGED <<tableVars, peerVars, boundVars>>
           /\ a2[c] \in Servers
<1>1. Tail(fromServ[c]) \in Seq(FromServMsg)
  BY HeadTailProperties DEF Receive, TypeOK
<1>. QED
  BY <1>1 DEF Receive, TypeOK, ServUp

\* A BUDDY_BIND keeps the invariant: only a live player is bound and listed.
LEMMA BuddyBindStep ==
    ASSUME IInv, SessionAssumption,
           NEW c \in Conns, NEW a \in Accounts, NEW p \in Pids, BuddyBind(c, a, p)
    PROVE  IInv'
<1>. USE DEF IInv
<1>1. /\ fromServ' \in [Conns -> Seq(FromServMsg)]
      /\ UNCHANGED <<tableVars, peerVars, boundVars>>
      /\ a2[c] \in Servers
  BY ReceiveType DEF BuddyBind
<1>2. UNCHANGED <<state, zone, age, toServ, ghostVars, zserv, servc, a2, home>>
  BY <1>1 DEF BuddyBind, tableVars, ghostVars
<1>3. CASE state[a] # "OK"
  <2>1. UNCHANGED <<pid, players, listed, stray>>
    BY <1>3 DEF BuddyBind, Bindable, entryVars
  <2>2. TypeOK' /\ NoDanglingPlayer'
    BY <1>1, <1>2, <2>1
       DEF TypeOK, NoDanglingPlayer, tableVars, peerVars, ghostVars, boundVars
  <2>. QED
    BY <1>2, <2>1, <2>2, HostsStay
<1>4. CASE state[a] = "OK"
  <2>1. /\ pid' = [pid EXCEPT ![a] = p]
        /\ players' = [players EXCEPT ![p] = a]
        /\ stray' = stray \cup ({pid[a]} \ {NoPid, p}) \cup {q \in {p} : q <= 0}
        /\ listed' = [listed EXCEPT ![a] = IF @ = NoServ THEN a2[c] ELSE @]
    BY <1>4 DEF BuddyBind, Bindable
  <2>2. TypeOK'
    BY <1>1, <1>2, <2>1
       DEF TypeOK, tableVars, peerVars, ghostVars, boundVars
  <2>3. \A b \in Accounts : listed'[b] # NoServ => state'[b] = "OK"
    BY <1>2, <1>4, <2>1 DEF NoDanglingPlayer, TypeOK
  <2>4. ASSUME NEW q \in Pids \ stray', players'[q] # NoPlayer
        PROVE  /\ q > 0 /\ players'[q] \in Accounts
               /\ state'[players'[q]] = "OK" /\ pid'[players'[q]] = q
    <3>1. CASE q = p
      BY <1>2, <1>4, <2>1, <2>4, <3>1 DEF TypeOK, SessionAssumption
    <3>2. CASE q # p
      <4>1. players'[q] = players[q] /\ q \notin stray
        BY <2>1, <2>4, <3>2 DEF TypeOK
      <4>2. /\ q > 0 /\ players[q] \in Accounts
            /\ state[players[q]] = "OK" /\ pid[players[q]] = q
        BY <2>4, <4>1 DEF NoDanglingPlayer
      <4>3. players[q] # a
        BY <2>1, <2>4, <3>2, <4>2 DEF SessionAssumption
      <4>. QED
        BY <1>2, <2>1, <4>1, <4>2, <4>3 DEF TypeOK
    <3>. QED
      BY <3>1, <3>2
  <2>5. NoDanglingPlayer'
    BY <2>3, <2>4 DEF NoDanglingPlayer
  <2>. QED
    BY <1>2, <2>1, <2>2, <2>5, HostsStay
<1>. QED
  BY <1>3, <1>4

\* An ABORT_OK keeps the invariant: the player it ends or logs in again is on
\* no logical server.
LEMMA SaveOkStep ==
    ASSUME IInv, SessionAssumption, NEW c \in Conns, NEW a \in Accounts,
           SaveOk(c, a)
    PROVE  IInv'
<1>. USE DEF IInv
<1>1. /\ fromServ' \in [Conns -> Seq(FromServMsg)]
      /\ UNCHANGED <<tableVars, peerVars, boundVars>>
      /\ UNCHANGED <<listed, stray>>
  BY ReceiveType DEF SaveOk
<1>2. CASE state[a] = "Saving" /\ Destroy(a) /\ players' = Freed(players, a)
  <2>1. TypeOK'
    BY <1>1, <1>2, EntriesType
       DEF TypeOK, Destroy, PlayerState, tableVars, peerVars, boundVars
  <2>2. NoDanglingPlayer'
    BY <1>1, <1>2, EntriesKeep DEF Destroy, TypeOK
  <2>3. zserv' = zserv /\ servc' = servc /\ a2' = a2 /\ home' = home
    BY <1>1, <1>2 DEF tableVars, Destroy
  <2>4. ConnIsOwn' /\ FreshConn'
    BY <2>3 DEF ConnIsOwn, FreshConn
  <2>6. HomeIsZone'
    BY <1>1, <1>2, <2>3 DEF HomeIsZone, Destroy, TypeOK
  <2>. QED
    BY <2>1, <2>2, <2>4, <2>6
<1>3. CASE state[a] = "Twice" /\ RealLogin(a, zone[a]) /\ players' = Freed(players, a)
  <2>1. zone[a] \in Zones
    BY <1>3 DEF TypeOK
  <2>2. TypeOK'
    BY <1>1, <1>3, <2>1, RealLoginType, EntriesType
       DEF TypeOK, tableVars, peerVars, boundVars
  <2>3. NoDanglingPlayer'
    BY <1>1, <1>3, EntriesKeep DEF RealLogin, TypeOK
  <2>4. stray = {} => \A s \in Servers : servc[s] # NoConn => a \notin home[servc[s]]
    BY <1>3, NotHosted
  <2>. QED
    BY <1>1, <1>3, <2>1, <2>2, <2>3, <2>4, RealLoginKeeps
<1>4. CASE UNCHANGED <<state, zone, age, pid, players, toServ, ghostVars>>
  <2>1. TypeOK'
    BY <1>1, <1>4 DEF TypeOK, tableVars, peerVars, boundVars, ghostVars
  <2>2. NoDanglingPlayer'
    BY <1>1, <1>4 DEF NoDanglingPlayer
  <2>3. UNCHANGED <<state, zone, zserv, servc, a2, home, stray>>
    BY <1>1, <1>4 DEF tableVars, ghostVars
  <2>. QED
    BY <2>1, <2>2, <2>3, HostsStay
<1>. QED
  BY <1>2, <1>3, <1>4 DEF SaveOk

\* A created zone, and the players entered again with it, keep the invariant:
\* they are live, in that zone, and it stays on the server it was on.
LEMMA CreateZoneStep ==
    ASSUME IInv, SessionAssumption, NEW c \in Conns, NEW z \in Zones,
           CreateZone(c, z)
    PROVE  IInv'
<1>. USE DEF IInv
<1>1. /\ a2[c] \in Servers /\ zserv[z] \in {NoServ, a2[c]}
      /\ zserv' = [zserv EXCEPT ![z] = a2[c]]
      /\ made' = [made EXCEPT ![c] = @ \cup {z}]
      /\ UNCHANGED <<playerVars, servc, a2, fromServ, online, owed, boundVars>>
  BY DEF CreateZone, ServUp, TypeOK
<1>0. PICK found \in IF zserv[z] = a2[c] THEN Found(z) ELSE {{}} :
         \E order \in Bijection(1 .. Cardinality(found), found), sent \in Sent(found, z) :
           /\ toServ' = [toServ EXCEPT ![c] = @ \o [i \in DOMAIN order |-> sent[order[i]]]]
           /\ home' = [home EXCEPT ![c] = @ \cup {sent[p].a : p \in found}]
  BY DEF CreateZone
<1>2. PICK order \in Bijection(1 .. Cardinality(found), found), sent \in Sent(found, z) :
         /\ toServ' = [toServ EXCEPT ![c] = @ \o [i \in DOMAIN order |-> sent[order[i]]]]
         /\ home' = [home EXCEPT ![c] = @ \cup {sent[p].a : p \in found}]
  BY <1>0
<1>3. found \in SUBSET Pids
  BY <1>0 DEF Found
<1>4. /\ \A p \in found : sent[p] \in ToServMsg
      /\ [i \in DOMAIN order |-> sent[order[i]]] \in Seq(ToServMsg)
  BY <1>2, <1>3, EntersIsSeq
<1>5. TypeOK'
  <2>1. toServ' \in [Conns -> Seq(ToServMsg)]
    <3>1. toServ[c] \o [i \in DOMAIN order |-> sent[order[i]]] \in Seq(ToServMsg)
      BY <1>4, ConcatProperties DEF TypeOK
    <3>. QED
      BY <1>2, <3>1 DEF TypeOK
  <2>2. home' \in [Conns -> SUBSET Accounts]
    <3>1. {sent[p].a : p \in found} \in SUBSET Accounts
      BY <1>4 DEF ToServMsg
    <3>2. home[c] \cup {sent[p].a : p \in found} \in SUBSET Accounts
      BY <3>1 DEF TypeOK
    <3>. QED
      BY <1>2, <3>2 DEF TypeOK
  <2>. QED
    BY <1>1, <2>1, <2>2 DEF TypeOK, playerVars, entryVars, boundVars
<1>6. NoDanglingPlayer'
  BY <1>1 DEF NoDanglingPlayer, playerVars, entryVars
<1>7. ConnIsOwn'
  BY <1>1 DEF ConnIsOwn
<1>8. FreshConn'
  BY <1>1, <1>2 DEF FreshConn, TypeOK, SessionAssumption
<1>9. HomeIsZone'
  <2>. SUFFICES ASSUME stray' = {}, NEW t \in Servers, NEW b \in Accounts,
                       servc'[t] # NoConn, b \in home'[servc'[t]]
                PROVE  state'[b] = "OK" /\ zserv'[zone'[b]] = t
    BY DEF HomeIsZone
  <2>1. servc[t] \in Conns /\ servc[t] # NoConn /\ servc' = servc /\ stray = {}
    BY <1>1 DEF TypeOK, playerVars, entryVars
  <2>2. CASE b \in home[servc[t]]
    <3>1. state[b] = "OK" /\ zserv[zone[b]] = t
      BY <2>1, <2>2 DEF HomeIsZone
    <3>2. zone[b] \in Zones
      BY <3>1 DEF TypeOK
    <3>. QED
      BY <1>1, <3>1, <3>2 DEF TypeOK, playerVars, SessionAssumption
  <2>3. CASE b \notin home[servc[t]]
    <3>1. servc[t] = c
      BY <1>2, <2>1, <2>3 DEF TypeOK
    <3>2. PICK p \in found : b = sent[p].a
      BY <1>2, <2>1, <2>3, <3>1 DEF TypeOK
    <3>3. a2[c] = t
      BY <2>1, <3>1 DEF ConnIsOwn
    <3>4. p \in Pids /\ sent[p] \in Entered(p, z) /\ players[p] # NoPlayer
      BY <1>2, <1>3 DEF Sent, Entered, SessionAssumption
    <3>5. players[p] \in Accounts /\ state[players[p]] = "OK"
      BY <2>1, <3>4 DEF NoDanglingPlayer
    <3>6. b = players[p] /\ zone[b] = z
      BY <3>2, <3>4, <3>5 DEF Entered, EnterZone, SessionAssumption
    <3>. QED
      BY <1>1, <3>3, <3>5, <3>6 DEF TypeOK, playerVars
  <2>. QED
    BY <2>2, <2>3
<1>. QED
  BY <1>5, <1>6, <1>7, <1>8, <1>9

-----------------------------------------------------------------------------
\* A registration keeps the invariant: the new connection hosts nobody yet.
LEMMA ServRegStep ==
    ASSUME IInv, SessionAssumption, NEW c \in Conns, NEW s \in Servers,
           ServReg(c, s)
    PROVE  IInv'
<1>. USE DEF IInv
<1>1. /\ a2[c] = NoServ /\ a2' = [a2 EXCEPT ![c] = s]
      /\ servc' = [servc EXCEPT ![s] = c]
      /\ UNCHANGED <<playerVars, zserv, linkVars, peerVars, ghostVars, boundVars>>
  BY DEF ServReg
<1>2. TypeOK'
  BY <1>1 DEF TypeOK, playerVars, entryVars, linkVars, peerVars, ghostVars, boundVars
<1>3. NoDanglingPlayer'
  BY <1>1 DEF NoDanglingPlayer, playerVars, entryVars
<1>4. \A t \in Servers : servc[t] # NoConn => servc[t] # c
  BY <1>1 DEF ConnIsOwn, SessionAssumption
<1>5. ConnIsOwn'
  BY <1>1, <1>4 DEF ConnIsOwn, TypeOK
<1>6. home' = home /\ home[c] = {}
  BY <1>1 DEF FreshConn, ghostVars
<1>7. FreshConn'
  BY <1>1, <1>6 DEF FreshConn, TypeOK, SessionAssumption
<1>8. HomeIsZone'
  BY <1>1, <1>6 DEF HomeIsZone, TypeOK, playerVars, entryVars
<1>. QED
  BY <1>2, <1>3, <1>5, <1>7, <1>8

\* Losing a connection keeps the invariant when it is no server's any more.
LEMMA DropKeeps ==
    ASSUME IInv, SessionAssumption, NEW c \in Conns, Drop(c),
           servc' \in [Servers -> Conns \cup {NoConn}],
           listed' \in [Accounts -> Servers \cup {NoServ}],
           breaks' \in Nat,
           \A s \in Servers : servc'[s] \in {servc[s], NoConn} \ {c},
           \A a \in Accounts : listed'[a] \in {listed[a], NoServ}
    PROVE  IInv'
<1>. USE DEF IInv
<1>1. /\ a2' = [a2 EXCEPT ![c] = NoServ]
      /\ home' = [home EXCEPT ![c] = {}]
      /\ UNCHANGED <<state, zone, age, pid, players, stray, zserv, logins>>
  BY DEF Drop
<1>2. TypeOK'
  <2>1. <<>> \in Seq(ToServMsg) /\ <<>> \in Seq(FromServMsg)
    BY EmptySeq
  <2>2. owed' \in [Accounts -> Conns \cup {NoConn}]
    BY DEF Drop, TypeOK
  <2>. QED
    BY <1>1, <2>1, <2>2 DEF Drop, TypeOK
<1>3. NoDanglingPlayer'
  BY <1>1 DEF NoDanglingPlayer
<1>4. ConnIsOwn'
  BY <1>1 DEF ConnIsOwn, TypeOK
<1>5. FreshConn'
  BY <1>1 DEF FreshConn, TypeOK
<1>6. HomeIsZone'
  BY <1>1 DEF HomeIsZone, TypeOK
<1>. QED
  BY <1>2, <1>3, <1>4, <1>5, <1>6

\* A broken connection takes its server down, and only its own server.
LEMMA ConnBrokenStep ==
    ASSUME IInv, SessionAssumption, NEW c \in Conns, ConnBroken(c)
    PROVE  IInv'
<1>. USE DEF IInv
<1>1. /\ a2[c] \in Servers /\ Drop(c) /\ breaks' = breaks + 1
      /\ servc' = [servc EXCEPT ![a2[c]] = IF @ = c THEN NoConn ELSE @]
      /\ listed' \in [Accounts -> Servers \cup {NoServ}]
      /\ \A a \in Accounts : listed'[a] \in {listed[a], NoServ}
  BY DEF ConnBroken, TypeOK
<1>2. \A s \in Servers : servc'[s] \in {servc[s], NoConn} \ {c}
  BY <1>1 DEF ConnIsOwn, TypeOK, SessionAssumption
<1>3. servc' \in [Servers -> Conns \cup {NoConn}] /\ breaks' \in Nat
  BY <1>1 DEF TypeOK
<1>. QED
  BY <1>1, <1>2, <1>3, DropKeeps

\* Closing a connection whose server is down takes nobody else with it.
LEMMA DropOrphanStep ==
    ASSUME IInv, SessionAssumption, NEW c \in Conns, DropOrphan(c)
    PROVE  IInv'
<1>. USE DEF IInv
<1>1. /\ Drop(c) /\ a2[c] # NoServ /\ servc[a2[c]] = NoConn
      /\ UNCHANGED <<servc, listed, breaks>>
  BY DEF DropOrphan, ServUp
<1>2. \A s \in Servers : servc'[s] \in {servc[s], NoConn} \ {c}
  BY <1>1 DEF ConnIsOwn, SessionAssumption
<1>. QED
  BY <1>1, <1>2, DropKeeps DEF TypeOK

\* What a logical server does with its packets changes nothing here.
LEMMA ServHandleStep ==
    ASSUME IInv, NEW c \in Conns, ServHandle(c)
    PROVE  IInv'
<1>. USE DEF IInv
<1>. DEFINE m == Head(toServ[c])
<1>1. m \in ToServMsg /\ Tail(toServ[c]) \in Seq(ToServMsg)
  BY HeadTailProperties DEF ServHandle, TypeOK
<1>2. m.a \in Accounts /\ m.p \in Pids \cup {NoPid}
  BY <1>1 DEF ToServMsg
<1>3. /\ Append(fromServ[c], AbortOk(m.a)) \in Seq(FromServMsg)
      /\ Append(fromServ[c], BindTo(m.a, m.p)) \in Seq(FromServMsg)
  BY <1>2, PacketTypes, AppendProperties DEF TypeOK
<1>4. /\ toServ' \in [Conns -> Seq(ToServMsg)]
      /\ fromServ' \in [Conns -> Seq(FromServMsg)]
  <2>1. toServ' = [toServ EXCEPT ![c] = Tail(@)]
    BY DEF ServHandle
  <2>2. \/ fromServ' = fromServ
        \/ fromServ' = [fromServ EXCEPT ![c] = Append(@, AbortOk(m.a))]
        \/ fromServ' = [fromServ EXCEPT ![c] = Append(@, BindTo(m.a, m.p))]
    BY DEF ServHandle
  <2>3. toServ' \in [Conns -> Seq(ToServMsg)]
    BY <1>1, <2>1 DEF TypeOK
  <2>4. fromServ' \in [Conns -> Seq(FromServMsg)]
    BY <1>3, <2>2 DEF TypeOK
  <2>. QED
    BY <2>3, <2>4
<1>5. online' \in [Conns -> [Accounts -> {"out", "in", "role"}]]
  <2>1. online[c] \in [Accounts -> {"out", "in", "role"}]
    BY DEF TypeOK
  <2>2. PICK v \in {"in", "role", "out"} : online' = [online EXCEPT ![c][m.a] = v]
    BY DEF ServHandle
  <2>3. [online[c] EXCEPT ![m.a] = v] \in [Accounts -> {"out", "in", "role"}]
    BY <2>1
  <2>. QED
    BY <2>2, <2>3 DEF TypeOK
<1>6. UNCHANGED <<playerVars, tableVars, made, ghostVars, boundVars>>
  BY DEF ServHandle
<1>7. TypeOK' /\ NoDanglingPlayer'
  BY <1>4, <1>5, <1>6
     DEF TypeOK, NoDanglingPlayer, playerVars, entryVars, tableVars, ghostVars, boundVars
<1>8. UNCHANGED <<state, zone, zserv, servc, a2, home, stray>>
  BY <1>6 DEF playerVars, entryVars, tableVars, ghostVars
<1>. QED
  BY <1>7, <1>8, HostsStay

\* A player choosing a character changes nothing here either.
LEMMA ServBindStep ==
    ASSUME IInv, NEW c \in Conns, NEW a \in Accounts, NEW p \in Pids, ServBind(c, a, p)
    PROVE  IInv'
<1>. USE DEF IInv
<1>2. Append(fromServ[c], BindTo(a, p)) \in Seq(FromServMsg)
  BY PacketTypes, AppendProperties DEF TypeOK
<1>3. /\ fromServ' \in [Conns -> Seq(FromServMsg)]
      /\ online' \in [Conns -> [Accounts -> {"out", "in", "role"}]]
  BY <1>2 DEF ServBind, TypeOK
<1>4. UNCHANGED <<playerVars, tableVars, toServ, made, ghostVars, boundVars>>
  BY DEF ServBind
<1>5. TypeOK' /\ NoDanglingPlayer'
  BY <1>3, <1>4
     DEF TypeOK, NoDanglingPlayer, playerVars, entryVars, tableVars, ghostVars, boundVars
<1>6. UNCHANGED <<state, zone, zserv, servc, a2, home, stray>>
  BY <1>4 DEF playerVars, entryVars, tableVars, ghostVars
<1>. QED
  BY <1>5, <1>6, HostsStay

\* Neither does the passage of time.
LEMMA TickStep ==
    ASSUME IInv, SessionAssumption, Tick
    PROVE  IInv'
<1>. USE DEF IInv
<1>1. age' \in [Accounts -> 0 .. SaveTimeout + 1]
  BY DEF Tick, TypeOK, SessionAssumption
<1>2. TypeOK' /\ NoDanglingPlayer'
  BY <1>1 DEF Tick, TypeOK, NoDanglingPlayer,
              entryVars, tableVars, linkVars, peerVars, ghostVars, boundVars
<1>3. UNCHANGED <<state, zone, zserv, servc, a2, home, stray>>
  BY DEF Tick, entryVars, tableVars, ghostVars
<1>. QED
  BY <1>2, <1>3, HostsStay

-----------------------------------------------------------------------------
\* The invariant holds when the server starts: no player, no server.
LEMMA InitInv ==
    ASSUME SessionAssumption, Init
    PROVE  IInv
<1>1. TypeOK
  <2>1. <<>> \in Seq(ToServMsg) /\ <<>> \in Seq(FromServMsg)
    BY EmptySeq
  <2>. QED
    BY <2>1 DEF Init, TypeOK, PlayerState, SessionAssumption
<1>2. NoDanglingPlayer /\ HomeIsZone /\ ConnIsOwn /\ FreshConn
  BY DEF Init, NoDanglingPlayer, HomeIsZone, ConnIsOwn, FreshConn
<1>. QED
  BY <1>1, <1>2 DEF IInv

\* Every step of the world server keeps the invariant.
LEMMA NextInv ==
    ASSUME SessionAssumption, IInv, [Next]_vars
    PROVE  IInv'
<1>1. CASE GateLogin
  BY <1>1, GateLoginStep
<1>2. CASE GateLogout
  BY <1>2, GateLogoutStep
<1>3. CASE \E c \in Conns : Dispatch(c) \/ ServHandle(c)
  BY <1>3, BuddyBindStep, SaveOkStep, DropOrphanStep, ServHandleStep DEF Dispatch
<1>4. CASE Peer
  BY <1>4, ServRegStep, CreateZoneStep, ServBindStep, ConnBrokenStep DEF Peer
<1>5. CASE Tick
  BY <1>5, TickStep
<1>6. CASE UNCHANGED vars
  <2>. USE DEF vars, playerVars, entryVars, tableVars, linkVars, peerVars, ghostVars, boundVars
  <2>1. TypeOK' /\ NoDanglingPlayer'
    BY <1>6 DEF IInv, TypeOK, NoDanglingPlayer
  <2>2. UNCHANGED <<state, zone, zserv, servc, a2, home, stray>>
    BY <1>6
  <2>. QED
    BY <2>1, <2>2, HostsStay DEF IInv
<1>. QED
  BY <1>1, <1>2, <1>3, <1>4, <1>5, <1>6 DEF Next, Packets

\* The inductive invariant of the session life cycle.
THEOREM SessionInv == SessionAssumption => (Spec => []IInv)
<1>. SUFFICES ASSUME SessionAssumption PROVE Spec => []IInv
  OBVIOUS
<1>1. Init => IInv
  BY InitInv
<1>2. IInv /\ [Next]_vars => IInv'
  BY NextInv
<1>. QED
  BY <1>1, <1>2, PTL DEF Spec

\* Every variable of the world server keeps its type.
THEOREM SessionTypeOK == SessionAssumption => (Spec => []TypeOK)
<1>1. IInv => TypeOK
  BY DEF IInv
<1>. QED
  BY <1>1, SessionInv, PTL

\* rbtF_player_destroy never frees a Player that a list still holds.
THEOREM SessionNoDangling == SessionAssumption => (Spec => []NoDanglingPlayer)
<1>1. IInv => NoDanglingPlayer
  BY DEF IInv
<1>. QED
  BY <1>1, SessionInv, PTL

\* An account is hosted only by the server of its zone, whatever logins,
\* timeouts, registrations and broken connections come in whatever order.
THEOREM SessionHome == SessionAssumption => (Spec => []HomeIsZone)
<1>1. IInv => HomeIsZone
  BY DEF IInv
<1>. QED
  BY <1>1, SessionInv, PTL

-----------------------------------------------------------------------------
(* SaveInFlight, on top of the invariant IInv. *)

\* A save is due only of a player that waits for it, so that an ABORT_OK that
\* arrives settles the save or finds that none is due.
Waits == \A a \in Accounts : owed[a] # NoConn => state[a] \in {"Saving", "Twice"}

\* A packet on a connection may yet settle the save of a.
Due(a, c) == PlayerAbort(a) \in Range(toServ[c]) \/ AbortOk(a) \in Range(fromServ[c])

-----------------------------------------------------------------------------
\* The idea of the proof: a step keeps what is due when every save that is owed
\* after it was owed on the same connection before, and is due there still.
LEMMA DueStays ==
    ASSUME SaveInFlight,
           \A a \in Accounts : owed'[a] # NoConn =>
               owed'[a] = owed[a] /\ (Due(a, owed[a]) => Due(a, owed[a])')
    PROVE  SaveInFlight'
BY DEF SaveInFlight, Due

\* A packet that is sent or answered takes nothing off the queues.
LEMMA SentStays ==
    ASSUME TypeOK, NEW c \in Conns, NEW m \in ToServMsg,
           SendServ(c, m) \/ UNCHANGED toServ
    PROVE  \A d \in Conns, n \in ToServMsg :
               n \in Range(toServ[d]) => n \in Range(toServ'[d])
<1>1. CASE SendServ(c, m)
  <2>1. toServ' = [toServ EXCEPT ![c] = Append(@, m)]
    BY <1>1 DEF SendServ
  <2>2. \A n \in Range(toServ[c]) : n \in Range(Append(toServ[c], m))
    BY RangeOfAppend DEF TypeOK
  <2>. QED
    BY <2>1, <2>2 DEF TypeOK
<1>. QED
  BY <1>1

LEMMA AnsweredStays ==
    ASSUME TypeOK, NEW c \in Conns, NEW m \in FromServMsg,
           fromServ' = [fromServ EXCEPT ![c] = Append(@, m)]
    PROVE  /\ m \in Range(fromServ'[c])
           /\ \A d \in Conns : \A n \in Range(fromServ[d]) : n \in Range(fromServ'[d])
<1>1. fromServ'[c] = Append(fromServ[c], m) /\ fromServ[c] \in Seq(FromServMsg)
  BY DEF TypeOK
<1>2. \A d \in Conns \ {c} : fromServ'[d] = fromServ[d]
  BY DEF TypeOK
<1>3. m \in Range(fromServ'[c]) /\ \A n \in Range(fromServ[c]) : n \in Range(fromServ'[c])
  BY <1>1, RangeOfAppend
<1>. QED
  BY <1>2, <1>3

\* A new Player owes nothing, and sending ENTER disturbs no other save.
LEMMA RealLoginSaves ==
    ASSUME IInv, SessionAssumption, Waits, SaveInFlight,
           NEW a \in Accounts, NEW z \in Zones, RealLogin(a, z),
           \A b \in Accounts \ {a}, d \in Conns :
               AbortOk(b) \in Range(fromServ[d]) => AbortOk(b) \in Range(fromServ'[d])
    PROVE  Waits' /\ SaveInFlight'
<1>. USE DEF IInv
<1>1. /\ state' = [state EXCEPT ![a] = "OK"]
      /\ owed' = [owed EXCEPT ![a] = NoConn]
      /\ \/ ZoneUp(z) /\ SendServ(ConnOf(z), EnterZone(a, NoPid))
         \/ UNCHANGED toServ
  BY DEF RealLogin
<1>2. Waits'
  BY <1>1 DEF Waits, TypeOK
<1>3. \A d \in Conns, n \in ToServMsg : n \in Range(toServ[d]) => n \in Range(toServ'[d])
  <2>1. ZoneUp(z) => ConnOf(z) \in Conns
    BY DEF TypeOK, ZoneUp, ServUp, ConnOf, SessionAssumption
  <2>2. EnterZone(a, NoPid) \in ToServMsg
    BY PacketTypes
  <2>. QED
    BY <1>1, <2>1, <2>2, SentStays
<1>4. ASSUME NEW b \in Accounts, owed'[b] # NoConn
      PROVE  owed'[b] = owed[b] /\ (Due(b, owed[b]) => Due(b, owed[b])')
  <2>1. b # a /\ owed'[b] = owed[b] /\ owed[b] \in Conns
    BY <1>1, <1>4 DEF TypeOK
  <2>2. PlayerAbort(b) \in ToServMsg
    BY PacketTypes
  <2>. QED
    BY <1>3, <2>1, <2>2 DEF Due
<1>. QED
  BY <1>2, <1>4, DueStays

\* Asking for a save puts the request on the connection it is owed on.
LEMMA ReportLogoutSaves ==
    ASSUME IInv, SessionAssumption, Waits, SaveInFlight,
           NEW a \in Accounts, NEW st \in {"Saving", "Twice"}, ReportLogout(a),
           state' = [state EXCEPT ![a] = st], UNCHANGED fromServ
    PROVE  Waits' /\ SaveInFlight'
<1>. USE DEF IInv
<1>. DEFINE c == ConnOf(zone[a])
<1>1. /\ c \in Conns /\ SendServ(c, PlayerAbort(a)) /\ owed' = [owed EXCEPT ![a] = c]
  BY ReportLogoutType DEF ReportLogout
<1>2. Waits'
  BY <1>1 DEF Waits, TypeOK
<1>3. \A b \in Accounts : PlayerAbort(b) \in ToServMsg
  BY PacketTypes
<1>4. \A d \in Conns, n \in ToServMsg : n \in Range(toServ[d]) => n \in Range(toServ'[d])
  BY <1>1, <1>3, SentStays
<1>5. PlayerAbort(a) \in Range(toServ'[c])
  <2>. HIDE DEF c
  <2>. QED
    BY <1>1, <1>3, RangeOfAppend DEF SendServ, TypeOK
<1>. HIDE DEF c
<1>6. SaveInFlight'
  <2>. SUFFICES ASSUME NEW b \in Accounts, owed'[b] # NoConn
                PROVE  \/ PlayerAbort(b) \in Range(toServ'[owed'[b]])
                       \/ AbortOk(b) \in Range(fromServ'[owed'[b]])
    BY DEF SaveInFlight
  <2>1. CASE b = a
    BY <1>1, <1>5, <2>1 DEF TypeOK
  <2>2. CASE b # a
    <3>1. owed'[b] = owed[b] /\ owed[b] \in Conns /\ owed[b] # NoConn
      BY <1>1, <2>2 DEF TypeOK
    <3>2. PlayerAbort(b) \in Range(toServ[owed[b]]) \/ AbortOk(b) \in Range(fromServ[owed[b]])
      BY <3>1 DEF SaveInFlight
    <3>. QED
      BY <1>3, <1>4, <3>1, <3>2
  <2>. QED
    BY <2>1, <2>2
<1>. QED
  BY <1>2, <1>6

-----------------------------------------------------------------------------
\* Logins of the gate.
LEMMA GateLoginSaves ==
    ASSUME IInv, SessionAssumption, Waits, SaveInFlight, GateLogin
    PROVE  Waits' /\ SaveInFlight'
<1>1. PICK a \in Accounts, z \in Zones :
         \/ FirstLogin(a, z)
         \/ LoginWhileSaving(a, z)
         \/ LoginForced(a, z)
         \/ LoginAgain(a, z)
         \/ LoginAgainUnreported(a, z)
  BY DEF GateLogin
<1>2. UNCHANGED fromServ
  BY <1>1 DEF FirstLogin, LoginWhileSaving, LoginForced, LoginAgain,
              LoginAgainUnreported, CountLogin
<1>3. CASE RealLogin(a, z)
  BY <1>2, <1>3, RealLoginSaves
<1>4. CASE LoginWhileSaving(a, z)
  <2>1. /\ state' = [state EXCEPT ![a] = "Twice"] /\ UNCHANGED <<owed, toServ, fromServ>>
    BY <1>2, <1>4 DEF LoginWhileSaving, ghostVars
  <2>. QED
    BY <2>1 DEF Waits, SaveInFlight, IInv, TypeOK
<1>5. CASE LoginAgain(a, z)
  <2>1. ReportLogout(a) /\ state' = [state EXCEPT ![a] = "Twice"]
    BY <1>5 DEF LoginAgain
  <2>. QED
    BY <1>2, <2>1, ReportLogoutSaves
<1>. QED
  BY <1>1, <1>3, <1>4, <1>5 DEF FirstLogin, LoginForced, LoginAgainUnreported

\* Logouts.
LEMMA GateLogoutSaves ==
    ASSUME IInv, SessionAssumption, Waits, SaveInFlight, GateLogout
    PROVE  Waits' /\ SaveInFlight'
<1>1. PICK a \in Accounts : Logout(a) \/ LogoutTwice(a)
  BY DEF GateLogout
<1>2. state' = [state EXCEPT ![a] = "Saving"] /\ UNCHANGED fromServ
  BY <1>1 DEF Logout, LogoutTwice, linkVars
<1>3. CASE ReportLogout(a)
  BY <1>2, <1>3, ReportLogoutSaves
<1>4. CASE UNCHANGED <<toServ, ghostVars>>
  BY <1>2, <1>4 DEF Waits, SaveInFlight, IInv, TypeOK, ghostVars
<1>. QED
  BY <1>1, <1>3, <1>4 DEF Logout, LogoutTwice, linkVars

\* A packet that is received was no answer that somebody else waits for.
LEMMA ReceiveSaves ==
    ASSUME TypeOK, NEW c \in Conns, NEW m, Receive(c, m)
    PROVE  \A b \in Accounts, d \in Conns : m # AbortOk(b) =>
               (AbortOk(b) \in Range(fromServ[d]) => AbortOk(b) \in Range(fromServ'[d]))
BY RangeOfTail DEF Receive, TypeOK

LEMMA BuddyBindSaves ==
    ASSUME IInv, SessionAssumption, Waits, SaveInFlight,
           NEW c \in Conns, NEW a \in Accounts, NEW p \in Pids, BuddyBind(c, a, p)
    PROVE  Waits' /\ SaveInFlight'
<1>1. /\ Receive(c, BindTo(a, p))
      /\ UNCHANGED <<state, owed, toServ>>
  BY DEF BuddyBind, ghostVars
<1>2. \A b \in Accounts, d \in Conns :
         AbortOk(b) \in Range(fromServ[d]) => AbortOk(b) \in Range(fromServ'[d])
  BY <1>1, ReceiveSaves DEF IInv, AbortOk, BindTo
<1>3. SaveInFlight'
  BY <1>1, <1>2 DEF SaveInFlight, IInv, TypeOK
<1>. QED
  BY <1>1, <1>3 DEF Waits

\* An ABORT_OK settles what is owed to its player, or nothing was owed.
LEMMA SaveOkSaves ==
    ASSUME IInv, SessionAssumption, Waits, SaveInFlight,
           NEW c \in Conns, NEW a \in Accounts, SaveOk(c, a)
    PROVE  Waits' /\ SaveInFlight'
<1>1. Receive(c, AbortOk(a))
  BY DEF SaveOk
<1>2. \A b \in Accounts \ {a}, d \in Conns :
         AbortOk(b) \in Range(fromServ[d]) => AbortOk(b) \in Range(fromServ'[d])
  BY <1>1, ReceiveSaves DEF IInv, AbortOk
<1>3. CASE state[a] = "Twice" /\ RealLogin(a, zone[a])
  BY <1>2, <1>3, RealLoginSaves DEF IInv, TypeOK
<1>4. CASE state[a] = "Saving" /\ Destroy(a)
  <2>1. /\ state' = [state EXCEPT ![a] = "None"]
        /\ owed' = [owed EXCEPT ![a] = NoConn] /\ UNCHANGED toServ
    BY <1>4 DEF Destroy
  <2>2. SaveInFlight'
    BY <1>2, <2>1 DEF SaveInFlight, IInv, TypeOK
  <2>. QED
    BY <2>1, <2>2 DEF Waits, IInv, TypeOK
<1>5. CASE state[a] \in {"None", "OK"} /\ UNCHANGED <<state, toServ, ghostVars>>
  <2>1. owed' = owed /\ owed[a] = NoConn
    BY <1>5 DEF Waits, ghostVars
  <2>2. SaveInFlight'
    BY <1>2, <1>5, <2>1 DEF SaveInFlight, IInv, TypeOK
  <2>. QED
    BY <1>5, <2>1, <2>2 DEF Waits
<1>. QED
  BY <1>3, <1>4, <1>5 DEF SaveOk

-----------------------------------------------------------------------------
\* The players entered again with a zone stand behind what was sent before.
LEMMA CreateZoneSaves ==
    ASSUME IInv, SessionAssumption, Waits, SaveInFlight,
           NEW c \in Conns, NEW z \in Zones, CreateZone(c, z)
    PROVE  Waits' /\ SaveInFlight'
<1>1. UNCHANGED <<state, owed, fromServ>>
  BY DEF CreateZone, playerVars
<1>2. PICK q \in Seq(ToServMsg) : toServ' = [toServ EXCEPT ![c] = @ \o q]
  <2>1. PICK found \in IF zserv[z] = a2[c] THEN Found(z) ELSE {{}} :
           \E order \in Bijection(1 .. Cardinality(found), found), sent \in Sent(found, z) :
             /\ toServ' = [toServ EXCEPT ![c] = @ \o [i \in DOMAIN order |-> sent[order[i]]]]
             /\ home' = [home EXCEPT ![c] = @ \cup {sent[p].a : p \in found}]
    BY DEF CreateZone
  <2>2. found \in SUBSET Pids
    BY <2>1 DEF Found
  <2>4. PICK order \in Bijection(1 .. Cardinality(found), found), sent \in Sent(found, z) :
           toServ' = [toServ EXCEPT ![c] = @ \o [i \in DOMAIN order |-> sent[order[i]]]]
    BY <2>1
  <2>3. [i \in DOMAIN order |-> sent[order[i]]] \in Seq(ToServMsg)
    BY <2>2, <2>4, EntersIsSeq DEF IInv
  <2>. QED
    BY <2>4, <2>3
<1>3. \A d \in Conns : \A n \in Range(toServ[d]) : n \in Range(toServ'[d])
  BY <1>2, RangeOfConcat DEF IInv, TypeOK
<1>4. SaveInFlight'
  BY <1>1, <1>3 DEF SaveInFlight, IInv, TypeOK
<1>. QED
  BY <1>1, <1>4 DEF Waits

\* A connection that is gone owes nothing more; the others are as they were.
LEMMA DropSaves ==
    ASSUME IInv, SessionAssumption, Waits, SaveInFlight, NEW c \in Conns, Drop(c)
    PROVE  Waits' /\ SaveInFlight'
<1>1. /\ toServ' = [toServ EXCEPT ![c] = <<>>]
      /\ fromServ' = [fromServ EXCEPT ![c] = <<>>]
      /\ owed' = [a \in Accounts |-> IF owed[a] = c THEN NoConn ELSE owed[a]]
      /\ state' = state
  BY DEF Drop
<1>2. SaveInFlight'
  BY <1>1 DEF SaveInFlight, IInv, TypeOK
<1>. QED
  BY <1>1, <1>2 DEF Waits

\* A logical server turns the request it takes into the answer.
LEMMA ServHandleSaves ==
    ASSUME IInv, SessionAssumption, Waits, SaveInFlight,
           NEW c \in Conns, ServHandle(c)
    PROVE  Waits' /\ SaveInFlight'
<1>. USE DEF IInv
<1>. DEFINE m == Head(toServ[c])
<1>1. /\ toServ[c] \in Seq(ToServMsg) /\ toServ[c] # <<>>
      /\ toServ' = [toServ EXCEPT ![c] = Tail(@)]
      /\ UNCHANGED <<state, owed>>
  BY DEF ServHandle, TypeOK, playerVars, ghostVars
<1>2. m \in ToServMsg
  BY <1>1, HeadTailProperties
<1>3. \/ UNCHANGED fromServ /\ m.t # "abort"
      \/ \E n \in FromServMsg : /\ fromServ' = [fromServ EXCEPT ![c] = Append(@, n)]
                                /\ m.t = "abort" => n = AbortOk(m.a)
  <2>1. m.a \in Accounts /\ m.p \in Pids \cup {NoPid}
    BY <1>2 DEF ToServMsg
  <2>2. AbortOk(m.a) \in FromServMsg /\ BindTo(m.a, m.p) \in FromServMsg
    BY <2>1, PacketTypes
  <2>. QED
    BY <2>2 DEF ServHandle
<1>4. \A b \in Accounts : m = PlayerAbort(b) => m.t = "abort" /\ m.a = b
  BY DEF PlayerAbort
<1>. HIDE DEF m
<1>5. \A d \in Conns : \A n \in Range(fromServ[d]) : n \in Range(fromServ'[d])
  BY <1>3, AnsweredStays
<1>6. m.t = "abort" => AbortOk(m.a) \in Range(fromServ'[c])
  BY <1>3, AnsweredStays
<1>7. ASSUME NEW b \in Accounts, owed[b] # NoConn, Due(b, owed[b])
      PROVE  \/ PlayerAbort(b) \in Range(toServ'[owed[b]])
             \/ AbortOk(b) \in Range(fromServ'[owed[b]])
  <2>1. owed[b] \in Conns
    BY <1>7 DEF TypeOK
  <2>2. CASE AbortOk(b) \in Range(fromServ[owed[b]])
    BY <1>5, <2>1, <2>2
  <2>3. CASE PlayerAbort(b) \in Range(toServ[owed[b]]) /\ owed[b] # c
    BY <1>1, <2>1, <2>3 DEF TypeOK
  <2>4. CASE PlayerAbort(b) \in Range(toServ[c]) /\ owed[b] = c
    <3>1. CASE PlayerAbort(b) = m
      BY <1>4, <1>6, <2>4, <3>1
    <3>2. CASE PlayerAbort(b) # m
      <4>1. PlayerAbort(b) \in Range(Tail(toServ[c]))
        BY <1>1, <2>4, <3>2, RangeOfTail DEF m
      <4>. QED
        BY <1>1, <2>4, <4>1 DEF TypeOK
    <3>. QED
      BY <3>1, <3>2
  <2>. QED
    BY <1>7, <2>2, <2>3, <2>4 DEF Due
<1>8. SaveInFlight'
  BY <1>1, <1>7 DEF SaveInFlight, Due
<1>. QED
  BY <1>1, <1>8 DEF Waits

\* A bind that a logical server sends stands behind its answers.
LEMMA ServBindSaves ==
    ASSUME IInv, SessionAssumption, Waits, SaveInFlight,
           NEW c \in Conns, NEW a \in Accounts, NEW p \in Pids,
           ServBind(c, a, p)
    PROVE  Waits' /\ SaveInFlight'
<1>1. /\ fromServ' = [fromServ EXCEPT ![c] = Append(@, BindTo(a, p))]
      /\ UNCHANGED <<state, owed, toServ>>
  BY DEF ServBind, playerVars, ghostVars
<1>2. BindTo(a, p) \in FromServMsg
  BY PacketTypes
<1>3. \A d \in Conns : \A n \in Range(fromServ[d]) : n \in Range(fromServ'[d])
  BY <1>1, <1>2, AnsweredStays DEF IInv
<1>4. SaveInFlight'
  BY <1>1, <1>3 DEF SaveInFlight, IInv, TypeOK
<1>. QED
  BY <1>1, <1>4 DEF Waits

-----------------------------------------------------------------------------
\* Every step keeps what is due.
LEMMA NextSaves ==
    ASSUME SessionAssumption, IInv, Waits, SaveInFlight, [Next]_vars
    PROVE  Waits' /\ SaveInFlight'
<1>1. CASE GateLogin \/ GateLogout
  BY <1>1, GateLoginSaves, GateLogoutSaves
<1>2. CASE \E c \in Conns : Dispatch(c) \/ ServHandle(c)
  BY <1>2, BuddyBindSaves, SaveOkSaves, DropSaves, ServHandleSaves
     DEF Dispatch, DropOrphan
<1>3. ASSUME NEW c \in Conns, NEW s \in Servers, ServReg(c, s)
      PROVE  Waits' /\ SaveInFlight'
  BY <1>3 DEF ServReg, playerVars, linkVars, ghostVars, Waits, SaveInFlight
<1>4. CASE Peer
  BY <1>3, <1>4, CreateZoneSaves, ServBindSaves, DropSaves DEF Peer, ConnBroken
<1>5. CASE Tick
  BY <1>5 DEF Tick, linkVars, ghostVars, Waits, SaveInFlight
<1>6. CASE UNCHANGED vars
  BY <1>6 DEF vars, playerVars, linkVars, ghostVars, Waits, SaveInFlight
<1>. QED
  BY <1>1, <1>2, <1>4, <1>5, <1>6 DEF Next, Packets

\* While a player waits for a save that was asked for, the request or its answer
\* is on the connection it was asked on, through second logins, timeouts, lost
\* connections and zones that come back: no save is forgotten by the FIFO links.
THEOREM SessionSaveInFlight == SessionAssumption => (Spec => []SaveInFlight)
<1>. SUFFICES ASSUME SessionAssumption PROVE Spec => []SaveInFlight
  OBVIOUS
<1>1. Init => IInv /\ Waits /\ SaveInFlight
  <2>1. Init => Waits /\ SaveInFlight
    BY DEF Init, Waits, SaveInFlight
  <2>. QED
    BY <2>1, InitInv
<1>2. IInv /\ Waits /\ SaveInFlight /\ [Next]_vars => (IInv /\ Waits /\ SaveInFlight)'
  BY NextInv, NextSaves
<1>. QED
  BY <1>1, <1>2, PTL DEF Spec

=============================================================================
