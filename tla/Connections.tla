---------------------------- MODULE Connections ----------------------------
(***************************************************************************)
(* The network layer (rbtlib/net_manager.c, connection.c): the pool of     *)
(* Connection structures and its free list, the batches of epoll events,   *)
(* the packets of a readable connection, soft and hard closing, the        *)
(* connections that do not register in time, and the pointers to           *)
(* connections that the world server keeps (boot.c, svr_connection.c and   *)
(* rpc.c), which rbtF_conn_broken has to clear before a structure is used  *)
(* for another connection.                                                 *)
(*                                                                         *)
(* The main loop is one thread.  epoll is edge-triggered: what peers do    *)
(* between two calls of epoll_wait is gathered in the edges of a           *)
(* connection and returned in some order in one batch.  inbox is the       *)
(* socket and the read buffer together; unread says that some of it is     *)
(* still in the socket, eof that the end of the stream is.  A packet is a  *)
(* kind; the bytes, the sequence numbers and the rpc answers are not here. *)
(* The server accepts connections as rbtNet_listen offers it.              *)
(***************************************************************************)
EXTENDS Integers, Sequences, FiniteSets, SequencesExt, Lists

CONSTANTS
    Structs,      \* the elements of g_Conn
    None,         \* NULL
    Listener,     \* the data.ptr of the listening socket
    AuthTimeout,  \* the 10 seconds a connection has to register
    MaxConns,     \* bound: connections made in one behaviour
    MaxPackets    \* bound: packets peers send in one behaviour

ASSUME ConnectionsAssumption ==
    /\ IsFiniteSet(Structs) /\ Cardinality(Structs) >= MaxConns
    /\ None \notin Structs /\ Listener \notin Structs
    /\ AuthTimeout \in Nat /\ MaxConns \in Nat \ {0} /\ MaxPackets \in Nat

VARIABLES
    conn,      \* the fields of each Connection
    free,      \* g_FreeConn, last freed first
    unauthed,  \* NetManager.unauthed_list, oldest first
    gate,      \* G(r)->gate
    servc,     \* the c of the one logical server
    batch,     \* events of this rbtNet_poll still to be handled, next one last
    cur,       \* the connection being processed, and its events
    pc,        \* where the main loop is
    backlog,   \* connections that wait to be accepted
    made,      \* history: connections made so far, the id of the last
    sent,      \* packets peers sent so far
    told,      \* history: calls of conn_broken for each connection
    closed,    \* history: the ids of closed connections
    quiet      \* history: those that rbtNet_close closed

vars == <<conn, free, unauthed, gate, servc, batch, cur, pc, backlog, made,
          sent, told, closed, quiet>>

Ids   == 1 .. MaxConns
Kinds == {"reg", "data", "huge"}
Edges == {"read", "write", "hup"}

Connection ==
    [status : {"established", "closed"}, id : 0 .. MaxConns, authed : BOOLEAN,
     role : {"none", "gate", "serv"}, active : BOOLEAN, queue : Nat,
     inbox : Seq(Kinds), unread : BOOLEAN, eof : BOOLEAN,
     age : 0 .. AuthTimeout, edges : SUBSET Edges]

TypeOK ==
    /\ conn \in [Structs -> Connection]
    /\ free \in Seq(Structs) /\ unauthed \in Seq(Structs)
    /\ gate \in Structs /\ servc \in Structs \cup {None}
    /\ batch \in Seq([c : Structs \cup {Listener}, id : 0 .. MaxConns,
                      ev : SUBSET Edges])
    /\ cur \in [c : Structs \cup {None}, ev : SUBSET Edges]
    /\ pc \in {"wait", "next", "accept", "read", "packets", "write", "sweep"}
    /\ backlog \in 0 .. MaxConns /\ made \in 0 .. MaxConns
    /\ sent \in 0 .. MaxPackets
    /\ told \in [Ids -> Nat] /\ closed \in SUBSET Ids /\ quiet \in SUBSET Ids

\* A structure of the pool that no connection uses.
Unused ==
    [status |-> "closed", id |-> 0, authed |-> FALSE, role |-> "none",
     active |-> FALSE, queue |-> 0, inbox |-> <<>>, unread |-> FALSE,
     eof |-> FALSE, age |-> 0, edges |-> {}]

\* rbtNet_construct.
Fresh(n) == [Unused EXCEPT !.status = "established", !.id = n]

\* The connection to the gate: authed at once, and made known to it.
GateConn(n) == [Fresh(n) EXCEPT !.authed = TRUE, !.role = "gate", !.queue = 1]

Established(c) == conn[c].status = "established"

NoEvent == [c |-> None, ev |-> {}]

\* g_FreeConn at the start: the structures in the order of the array.
Pool == CHOOSE order \in SetToSeqs(Structs) : TRUE

\* The server has booted: it is connected to the gate.
Init ==
    /\ conn = [c \in Structs |-> IF c = Head(Pool) THEN GateConn(1) ELSE Unused]
    /\ free = Tail(Pool)
    /\ unauthed = <<>>
    /\ gate = Head(Pool)
    /\ servc = None
    /\ batch = <<>>
    /\ cur = NoEvent
    /\ pc = "wait"
    /\ backlog = 0
    /\ made = 1
    /\ sent = 0
    /\ told = [i \in Ids |-> 0]
    /\ closed = {}
    /\ quiet = {}

-----------------------------------------------------------------------------
\* Deleting a connection.

\* Mutant of Broken: the logical server keeps the connection.
BrokenKeepsServ(c, cs) ==
    LET freed == [Unused EXCEPT !.id = cs[c].id]
        tell == told' = [told EXCEPT ![cs[c].id] = @ + 1]
    IN  \/ /\ cs[c].role = "gate"
           /\ made' = made + 1
           /\ gate' = free[1]
           /\ conn' = [cs EXCEPT ![free[1]] = GateConn(made + 1), ![c] = freed]
           /\ free' = <<c>> \o Tail(free)
           /\ tell
           /\ UNCHANGED servc
        \/ /\ cs[c].role # "gate"
           /\ conn' = [cs EXCEPT ![c] = freed]
           /\ free' = <<c>> \o free
           /\ tell
           /\ UNCHANGED <<gate, servc, made>>

\* rbtF_conn_broken of the world server and then rbtNet_conn_free.  cs are the
\* fields of the connections, with c closed already.
Broken(c, cs) ==
    LET freed == [Unused EXCEPT !.id = cs[c].id]
        tell == told' = [told EXCEPT ![cs[c].id] = @ + 1]
    IN  \/ /\ cs[c].role = "gate"        \* boot_gate: connect again, at once
           /\ made' = made + 1
           /\ gate' = free[1]
           /\ conn' = [cs EXCEPT ![free[1]] = GateConn(made + 1), ![c] = freed]
           /\ free' = <<c>> \o Tail(free)
           /\ tell
           /\ UNCHANGED servc
        \/ /\ cs[c].role # "gate"
           /\ servc' = IF cs[c].role = "serv" /\ servc = c THEN None ELSE servc
           /\ conn' = [cs EXCEPT ![c] = freed]
           /\ free' = <<c>> \o free
           /\ tell
           /\ UNCHANGED <<gate, made>>

\* Mutants of Delete: it does not look whether the connection is closed already;
\* it leaves the connection among the unauthed ones.
DeleteAgain(c, cs) ==
    /\ unauthed' = Unlinked(unauthed, c)
    /\ closed' = closed \cup {cs[c].id}
    /\ \/ /\ cs[c].active
          /\ quiet' = quiet \cup {cs[c].id}
          /\ conn' = [cs EXCEPT ![c] = [Unused EXCEPT !.id = cs[c].id]]
          /\ free' = <<c>> \o free
          /\ UNCHANGED <<gate, servc, made, told>>
       \/ /\ ~cs[c].active
          /\ Broken(c, cs)
          /\ UNCHANGED quiet

DeleteStaysUnauthed(c, cs) ==
    \/ /\ cs[c].status = "closed"
       /\ conn' = cs
       /\ UNCHANGED <<free, unauthed, gate, servc, made, told, closed, quiet>>
    \/ /\ cs[c].status = "established"
       /\ closed' = closed \cup {cs[c].id}
       /\ \/ /\ cs[c].active
             /\ quiet' = quiet \cup {cs[c].id}
             /\ conn' = [cs EXCEPT ![c] = [Unused EXCEPT !.id = cs[c].id]]
             /\ free' = <<c>> \o free
             /\ UNCHANGED <<gate, servc, made, told>>
          \/ /\ ~cs[c].active
             /\ Broken(c, cs)
             /\ UNCHANGED quiet
       /\ UNCHANGED unauthed

\* iconn_del.  A connection that is closed already is left alone, and one that
\* rbtNet_close closes is not reported.
Delete(c, cs) ==
    \/ /\ cs[c].status = "closed"
       /\ conn' = cs
       /\ UNCHANGED <<free, unauthed, gate, servc, made, told, closed, quiet>>
    \/ /\ cs[c].status = "established"
       /\ unauthed' = Unlinked(unauthed, c)
       /\ closed' = closed \cup {cs[c].id}
       /\ \/ /\ cs[c].active
             /\ quiet' = quiet \cup {cs[c].id}
             /\ conn' = [cs EXCEPT ![c] = [Unused EXCEPT !.id = cs[c].id]]
             /\ free' = <<c>> \o free
             /\ UNCHANGED <<gate, servc, made, told>>
          \/ /\ ~cs[c].active
             /\ Broken(c, cs)
             /\ UNCHANGED quiet

Kept == UNCHANGED <<free, unauthed, gate, servc, made, told, closed, quiet>>

-----------------------------------------------------------------------------
\* External: what peers do, seen at the next epoll_wait.

Outside == UNCHANGED <<free, unauthed, gate, servc, batch, cur, pc, made, told,
                       closed, quiet>>

\* Connections made or sure to be made: the gate, when lost, is replaced.
GateLost ==
    /\ Established(gate) /\ conn[gate].role = "gate"
    /\ "hup" \in conn[gate].edges \/ conn[gate].eof \/ "data" \in Range(conn[gate].inbox)

Bounded(n) == made + backlog + (IF GateLost THEN 1 ELSE 0) + n <= MaxConns

PeerConnects ==
    /\ pc = "wait"
    /\ Bounded(1)
    /\ backlog' = backlog + 1
    /\ UNCHANGED <<conn, sent>> /\ Outside

PeerSends(c, k) ==
    /\ pc = "wait"
    /\ Established(c) /\ ~conn[c].eof /\ sent < MaxPackets
    /\ conn[c].role = "gate" /\ k = "data" => GateLost \/ Bounded(1)
    /\ sent' = sent + 1
    /\ conn' = [conn EXCEPT ![c].inbox = Append(@, k), ![c].unread = TRUE,
                            ![c].edges = @ \cup {"read"}]
    /\ UNCHANGED backlog /\ Outside

\* The peer takes what it was sent, so that a socket that was full is writable.
PeerReads(c) ==
    /\ pc = "wait"
    /\ Established(c) /\ ~conn[c].eof /\ conn[c].queue > 0
    /\ "write" \notin conn[c].edges
    /\ conn' = [conn EXCEPT ![c].edges = @ \cup {"write"}]
    /\ UNCHANGED <<backlog, sent>> /\ Outside

\* The peer closes its end: the stream ends after what it has sent.
PeerCloses(c) ==
    /\ pc = "wait"
    /\ Established(c) /\ ~conn[c].eof
    /\ conn[c].role = "gate" => GateLost \/ Bounded(1)
    /\ conn' = [conn EXCEPT ![c].eof = TRUE, ![c].edges = @ \cup {"read"}]
    /\ UNCHANGED <<backlog, sent>> /\ Outside

\* The connection is reset.
PeerResets(c) ==
    /\ pc = "wait"
    /\ Established(c) /\ "hup" \notin conn[c].edges
    /\ conn[c].role = "gate" => GateLost \/ Bounded(1)
    /\ conn' = [conn EXCEPT ![c].edges = @ \cup {"hup"}]
    /\ UNCHANGED <<backlog, sent>> /\ Outside

\* A second of the clock, for the connections whose age matters.
Waiting(c) == Established(c) /\ ~conn[c].authed /\ conn[c].age < AuthTimeout

Tick ==
    /\ pc = "wait"
    /\ \E c \in Structs : Waiting(c)
    /\ conn' = [c \in Structs |->
                   IF Waiting(c) THEN [conn[c] EXCEPT !.age = @ + 1] ELSE conn[c]]
    /\ UNCHANGED <<backlog, sent>> /\ Outside

-----------------------------------------------------------------------------
\* rbtNet_poll.

\* epoll_wait: the edges of all connections, and of the listener, in any order.
Poll ==
    /\ pc = "wait"
    /\ LET events == {[c |-> c, id |-> conn[c].id, ev |-> conn[c].edges] :
                         c \in {d \in Structs : conn[d].edges # {}}}
           accepts == IF backlog = 0 THEN {}
                      ELSE {[c |-> Listener, id |-> 0, ev |-> {"read"}]}
       IN  batch' \in SetToSeqs(events \cup accepts)
    /\ conn' = [c \in Structs |-> [conn[c] EXCEPT !.edges = {}]]
    /\ pc' = "next"
    /\ UNCHANGED <<cur, backlog, sent>> /\ Kept

\* The next event of the batch, from its end; after the last one the sweep.
NextEvent ==
    /\ pc = "next"
    /\ \/ /\ batch = <<>>
          /\ pc' = "sweep"
          /\ UNCHANGED <<batch, cur>>
       \/ /\ batch # <<>>
          /\ batch' = Front(batch)
          /\ LET e == Last(batch)
             IN  \/ /\ e.c = Listener
                    /\ pc' = "accept"
                    /\ UNCHANGED cur
                 \/ /\ e.c # Listener
                    /\ cur' = [c |-> e.c, ev |-> e.ev]
                    /\ pc' = IF "read" \in e.ev /\ Established(e.c)
                             THEN "read" ELSE "write"
    /\ UNCHANGED <<conn, backlog, sent>> /\ Kept

\* Mutant of ReadData: reading nothing is no error.
ReadNothing ==
    /\ pc = "read"
    /\ conn' = [conn EXCEPT ![cur.c].unread = FALSE]
    /\ pc' = "packets"
    /\ UNCHANGED <<cur, batch, backlog, sent>> /\ Kept

\* read_data: everything that is in the socket.  When that is nothing the peer
\* has closed, and the connection is deleted; an end of the stream that is read
\* together with the last bytes goes unnoticed.
ReadData ==
    LET c == cur.c
    IN  /\ pc = "read"
        /\ \/ /\ conn[c].unread
              /\ conn' = [conn EXCEPT ![c].unread = FALSE]
              /\ pc' = "packets"
              /\ UNCHANGED cur /\ Kept
           \/ /\ ~conn[c].unread
              /\ Delete(c, conn)
              /\ pc' = "next"
              /\ cur' = NoEvent
        /\ UNCHANGED <<batch, backlog, sent>>

\* listen_wake_up: accept until the backlog is empty, each with iconn_add.
Accept ==
    /\ pc = "accept"
    /\ \/ /\ backlog = 0
          /\ pc' = "next"
          /\ UNCHANGED <<conn, free, unauthed, backlog, made>>
       \/ /\ backlog > 0
          /\ backlog' = backlog - 1
          /\ made' = made + 1
          /\ conn' = [conn EXCEPT ![free[1]] = Fresh(made + 1)]
          /\ unauthed' = Append(unauthed, free[1])
          /\ free' = Tail(free)
          /\ UNCHANGED pc
    /\ UNCHANGED <<gate, servc, batch, cur, sent, told, closed, quiet>>

\* rbtNet_send: dropped unless the connection is established; the socket takes
\* some of what is queued.
Sent(c, cs) ==
    IF cs[c].status # "established" THEN {cs}
    ELSE {[cs EXCEPT ![c].queue = n] : n \in 0 .. cs[c].queue + 1}

\* rbtNet_close.  rbtNet_set_status does not set ZOMBIE: the status stays what
\* it is.  What is queued is written, and with nothing left c is deleted.
Close(c, cs) ==
    \E n \in 0 .. cs[c].queue :
        LET left == [cs EXCEPT ![c].queue = n, ![c].active = TRUE]
        IN  \/ n = 0 /\ Delete(c, left)
            \/ n > 0 /\ conn' = left /\ Kept

\* Mutant of ServReg: it deletes the connection that was registered before.
ServRegDeletes(c, cs) ==
    LET reg == [cs EXCEPT ![c].authed = TRUE, ![c].role = "serv"]
    IN  /\ servc' = c
        /\ unauthed' = Unlinked(unauthed, c)
        /\ conn' = IF servc \in {None, c} THEN reg
                   ELSE [reg EXCEPT ![servc] = [Unused EXCEPT !.id = cs[servc].id]]
        /\ free' = IF servc \in {None, c} THEN free ELSE <<servc>> \o free
        /\ UNCHANGED <<gate, made, told, closed, quiet>>

\* serv_reg.  A server that was registered over another connection is told, and
\* that connection is left as it is.
ServReg(c, cs) ==
    /\ unauthed' = Unlinked(unauthed, c)
    /\ servc' = c
    /\ \E before \in IF servc = None THEN {cs} ELSE Sent(servc, cs) :
          conn' \in Sent(c, [before EXCEPT ![c].authed = TRUE, ![c].age = 0,
                                             ![c].role = "serv"])
    /\ UNCHANGED <<free, gate, made, told, closed, quiet>>

\* One turn of the loop of rbtNet_process over the packets of c: the packet is
\* taken from the buffer and given to rbtF_rpc_process.
ReadPacket ==
    LET c == cur.c
        k == Head(conn[c].inbox)
        cs == [conn EXCEPT ![c].inbox = Tail(@)]
        role == conn[c].role
    IN  /\ pc = "packets" /\ conn[c].inbox # <<>>
        /\ \/ /\ k = "huge"                       \* rbtNet_close and break
              /\ Close(c, cs)
              /\ pc' = "write"
              /\ UNCHANGED cur
           \/ /\ k = "reg" /\ role = "none"
              /\ ServReg(c, cs)
              /\ UNCHANGED <<pc, cur>>
           \/ /\ k = "data" /\ role = "serv" /\ servc # None
              /\ conn' \in Sent(gate, cs)         \* something for a player
              /\ Kept
              /\ UNCHANGED <<pc, cur>>
           \/ /\ \/ k = "data" /\ role = "none"   \* return 0
                 \/ k = "reg" /\ role # "none"
              /\ conn' = cs
              /\ Kept
              /\ UNCHANGED <<pc, cur>>
           \/ /\ \/ k = "data" /\ role = "gate"   \* return -1
                 \/ k = "data" /\ role = "serv" /\ servc = None
                 \/ k = "reg" /\ role = "none"    \* a wrong key
              /\ Delete(c, cs)
              /\ pc' = "next"
              /\ cur' = NoEvent
        /\ UNCHANGED <<batch, backlog, sent>>

\* There is no further packet.
ReadEnd ==
    /\ pc = "packets" /\ conn[cur.c].inbox = <<>>
    /\ pc' = "write"
    /\ UNCHANGED <<conn, batch, cur, backlog, sent>> /\ Kept

\* Mutant of Write: a packet is taken from the queue although it is empty.
WriteEmpty ==
    /\ pc = "write"
    /\ conn' = IF "write" \in cur.ev THEN [conn EXCEPT ![cur.c].queue = @ - 1] ELSE conn
    /\ pc' = "next"
    /\ cur' = NoEvent
    /\ UNCHANGED <<batch, backlog, sent>> /\ Kept

\* write_data, as much as the socket takes, and what rbtNet_poll does after
\* rbtNet_process: a connection that hung up is deleted.  (It is then to delete
\* a drained zombie, but no connection is a zombie.)
Write ==
    LET c == cur.c
    IN  /\ pc = "write"
        /\ \E n \in IF "write" \in cur.ev THEN 0 .. conn[c].queue ELSE {conn[c].queue} :
             LET cs == [conn EXCEPT ![c].queue = n]
             IN  \/ "hup" \in cur.ev /\ Delete(c, cs)
                 \/ "hup" \notin cur.ev /\ conn' = cs /\ Kept
        /\ pc' = "next"
        /\ cur' = NoEvent
        /\ UNCHANGED <<batch, backlog, sent>>

\* Mutant of Sweep: the connection is taken from the list and not deleted.
SweepForgets ==
    /\ pc = "sweep"
    /\ \/ /\ unauthed # <<>> /\ conn[Head(unauthed)].age >= AuthTimeout
          /\ unauthed' = Tail(unauthed)
          /\ UNCHANGED <<pc, conn, free, gate, servc, made, told, closed, quiet>>
       \/ /\ (unauthed # <<>> => conn[Head(unauthed)].age < AuthTimeout)
          /\ pc' = "wait"
          /\ UNCHANGED conn /\ Kept
    /\ UNCHANGED <<batch, cur, backlog, sent>>

\* The end of rbtNet_poll: the connections that did not register in time.
Sweep ==
    /\ pc = "sweep"
    /\ \/ /\ unauthed # <<>> /\ conn[Head(unauthed)].age >= AuthTimeout
          /\ Delete(Head(unauthed), conn)
          /\ UNCHANGED pc
       \/ /\ (unauthed # <<>> => conn[Head(unauthed)].age < AuthTimeout)
          /\ pc' = "wait"
          /\ UNCHANGED conn /\ Kept
    /\ UNCHANGED <<batch, cur, backlog, sent>>

-----------------------------------------------------------------------------
Loop ==
    \/ Poll \/ NextEvent \/ Accept \/ ReadData \/ ReadPacket \/ ReadEnd
    \/ Write \/ Sweep

Peers ==
    \/ PeerConnects
    \/ \E c \in Structs :
        \/ \E k \in Kinds : PeerSends(c, k)
        \/ PeerReads(c) \/ PeerCloses(c) \/ PeerResets(c)

Next == Loop \/ Peers \/ Tick

\* The main loop never stops, and time passes while it waits.
Spec == Init /\ [][Next]_vars /\ WF_vars(Loop) /\ SF_vars(Tick)

\* The same, and peers read what they are sent.
DrainSpec == Spec /\ \A c \in Structs : SF_vars(PeerReads(c))

-----------------------------------------------------------------------------
\* No structure is lost or in use twice: the free list holds the closed ones,
\* each once, however connections are closed.
FreeSound ==
    /\ IsInjective(free)
    /\ \A c \in Structs : Established(c) <=> c \notin Range(free)

\* An event of a batch is handled on the connection it is for, although other
\* events of the batch close connections and make new ones: the structure was
\* not used again meanwhile.
EventFresh ==
    \A e \in Range(batch) :
        e.c # Listener => Established(e.c) /\ conn[e.c].id = e.id

\* The upper layer is told once of each connection that broke, and never of
\* one that is open or that rbtNet_close closed.
ToldOnce ==
    \A i \in Ids : told[i] = IF i \in closed /\ i \notin quiet THEN 1 ELSE 0

\* The pointers of the world server are to connections that are open, of the
\* right kind, unless rbtNet_close has closed one of them without a word.
PointersLive ==
    quiet = {} =>
        /\ Established(gate) /\ conn[gate].role = "gate"
        /\ servc # None => Established(servc) /\ conn[servc].role = "serv"

\* Who is waiting to be authed is open and not authed, and everyone who is not
\* authed waits.
UnauthedSound ==
    /\ IsInjective(unauthed)
    /\ \A c \in Structs :
          c \in Range(unauthed) <=> Established(c) /\ ~conn[c].authed

\* A connection that does not register is closed.
UnauthedCloses ==
    \A i \in Ids :
        (\E c \in Structs : Established(c) /\ conn[c].id = i /\ ~conn[c].authed)
            ~> (i \in closed \/ \E c \in Structs : conn[c].id = i /\ conn[c].authed)

\* A peer that closes is noticed, and its connection deleted, when the end of
\* its stream comes by itself: nothing it sent before is still in the socket.
CloseNoticed ==
    \A i \in Ids :
        (\E c \in Structs : Established(c) /\ conn[c].id = i /\ conn[c].eof /\
            ~conn[c].unread /\ "read" \in conn[c].edges) ~> i \in closed

\* A connection that rbtNet_close was called for is closed when everything
\* queued has been written (net_manager.h:52).
DrainedCloses ==
    \A c \in Structs, i \in Ids :
        (Established(c) /\ conn[c].active /\ conn[c].id = i) ~> i \in closed

=============================================================================
