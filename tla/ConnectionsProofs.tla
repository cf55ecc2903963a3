------------------------- MODULE ConnectionsProofs -------------------------
(***************************************************************************)
(* Theorems about Connections for any finite set of structures that is as   *)
(* large as the bound on connections, and any bounds: the free list and the *)
(* list of the unauthed connections, the events of a batch, what the world  *)
(* server is told, and its pointers to connections.                         *)
(***************************************************************************)
EXTENDS Connections, ListLemmas, FiniteSetTheorems

-----------------------------------------------------------------------------
\* The invariant, first what is about the structures and the lists.

\* An open connection has an id of its own, which was given and is not closed.
Owned ==
    /\ \A c \in Structs : Established(c) => conn[c].id \in (1 .. made) \ closed
    /\ \A c, d \in Structs :
          Established(c) /\ Established(d) /\ conn[c].id = conn[d].id => c = d

Past == closed \subseteq 1 .. made /\ quiet \subseteq closed

\* Nobody but the gate has its role; who has a role is authed.
GateOnly ==
    \A c \in Structs :
        /\ Established(c) /\ conn[c].role = "gate" => c = gate
        /\ conn[c].role # "none" => conn[c].authed

\* Only an open connection gets events.
Silent == \A c \in Structs : conn[c].edges # {} => Established(c)

Net == FreeSound /\ UnauthedSound /\ ToldOnce /\ PointersLive /\ Owned /\ Past /\
       GateOnly /\ Silent

\* Then what is about the events that are being handled.

\* Each connection has one event in a batch; the one being processed has none left.
OneEach == \A i, j \in DOMAIN batch : batch[i].c = batch[j].c => i = j

Turn ==
    /\ pc \in {"wait", "sweep"} => batch = <<>>
    /\ pc \in {"wait", "next", "accept", "sweep"} => cur = NoEvent
    /\ pc \in {"read", "packets", "write"} =>
          cur.c \in Structs /\ \A e \in Range(batch) : e.c # cur.c
    /\ pc \in {"read", "packets"} => Established(cur.c)
    /\ pc # "wait" => \A c \in Structs : conn[c].edges = {}

\* A connection that is readable has something to read, or the end of its stream.
Readable(c) == conn[c].unread \/ conn[c].eof

Reading ==
    /\ \A c \in Structs : "read" \in conn[c].edges => Readable(c)
    /\ \A e \in Range(batch) : e.c # Listener /\ "read" \in e.ev => Readable(e.c)
    /\ pc = "read" => Readable(cur.c)

\* The gate will be lost by what has arrived from it, in the socket or the batch.
Doomed ==
    /\ Established(gate) /\ conn[gate].role = "gate"
    /\ \/ "hup" \in conn[gate].edges \/ conn[gate].eof
       \/ "data" \in Range(conn[gate].inbox)
       \/ \E e \in Range(batch) : e.c = gate /\ "hup" \in e.ev
       \/ cur.c = gate /\ "hup" \in cur.ev

\* So there is a structure for each connection that must be made.
Room == made + backlog <= MaxConns /\ (Doomed => made + backlog < MaxConns)

Events == EventFresh /\ OneEach /\ Turn /\ Reading /\ Room

IInv == TypeOK /\ Net /\ Events

-----------------------------------------------------------------------------
\* What the fields of the connections keep of one of them.
SameNet(c, cs) ==
    /\ cs[c].status = conn[c].status /\ cs[c].id = conn[c].id
    /\ cs[c].authed = conn[c].authed /\ cs[c].role = conn[c].role

\* A step that only changes what is buffered, queued or signalled keeps Net.
LEMMA NetTouched ==
    ASSUME TypeOK, Net, Kept, conn' \in [Structs -> Connection],
           \A c \in Structs : SameNet(c, conn'),
           \A c \in Structs : conn'[c].edges # {} => Established(c)
    PROVE  Net'
<1>. USE DEF Net, SameNet, Kept
<1>1. \A c \in Structs : Established(c)' <=> Established(c)
  BY DEF Established
<1>2. FreeSound'
  BY <1>1 DEF FreeSound
<1>3. UnauthedSound'
  BY <1>1 DEF UnauthedSound
<1>4. ToldOnce' /\ Past'
  BY DEF ToldOnce, Past
<1>5. PointersLive'
  BY <1>1 DEF PointersLive, TypeOK
<1>6. Owned'
  BY <1>1 DEF Owned
<1>7. GateOnly'
  BY <1>1 DEF GateOnly
<1>8. Silent'
  BY <1>1 DEF Silent
<1>. QED
  BY <1>2, <1>3, <1>4, <1>5, <1>6, <1>7, <1>8

\* The structures and the lists after connection c was closed and, when the gate
\* was lost, n was taken for the connection that replaces it.
LEMMA NetClosed ==
    ASSUME TypeOK, Net, NEW c \in Structs, Established(c),
           NEW n \in Range(free) \cup {None}, n # None => c = gate,
           conn'[c].status = "closed", conn'[c].role = "none", conn'[c].edges = {},
           \A d \in Structs \ {c, n} : SameNet(d, conn') /\ conn'[d].edges = conn[d].edges,
           n # None => /\ conn'[n].status = "established" /\ conn'[n].id = made + 1
                       /\ conn'[n].role = "gate" /\ conn'[n].authed /\ conn'[n].edges = {},
           IsInjective(free'), Range(free') = (Range(free) \ {n}) \cup {c},
           IsInjective(unauthed'), Range(unauthed') = Range(unauthed) \ {c},
           closed' = closed \cup {conn[c].id},
           made' = IF n = None THEN made ELSE made + 1,
           gate' = IF n = None THEN gate ELSE n
    PROVE  FreeSound' /\ UnauthedSound' /\ Owned' /\ GateOnly' /\ Silent' /\ closed' \subseteq 1 .. made'
<1>. USE DEF Net, SameNet
<1>1. /\ n # None => n \in Structs /\ ~Established(n)
      /\ n # c /\ None \notin Structs /\ made \in Nat
      /\ conn[c].id \in 1 .. made /\ conn[c].id \notin closed
  BY ConnectionsAssumption, RangeOfSeq DEF ConnectionsAssumption, FreeSound, TypeOK, Owned
<1>2. ~Established(c)' /\ (n # None => Established(n)')
  BY DEF Established
<1>3. \A d \in Structs \ {c, n} : Established(d)' <=> Established(d)
  BY DEF Established
<1>4. FreeSound'
  BY <1>1, <1>2, <1>3 DEF FreeSound
<1>5. UnauthedSound'
  BY <1>1, <1>2, <1>3 DEF UnauthedSound
<1>6. closed' \subseteq 1 .. made'
  <2>1. made' = made \/ made' = made + 1
    OBVIOUS
  <2>2. 1 .. made \subseteq 1 .. made'
    BY <1>1, <2>1
  <2>. QED
    BY <1>1, <2>2 DEF Past
<1>7. Owned'
  <2>1. \A d \in Structs \ {c, n} : Established(d)' =>
           /\ conn'[d].id = conn[d].id /\ conn[d].id \in 1 .. made
           /\ conn[d].id \notin closed /\ conn[d].id # conn[c].id
    BY <1>3 DEF Owned
  <2>2. n # None => conn'[n].id = made + 1 /\ made' = made + 1 /\ made + 1 \notin closed'
    BY <1>1 DEF Past
  <2>3. \A d \in Structs : Established(d)' => conn'[d].id \in (1 .. made') \ closed'
    BY <1>1, <1>2, <2>1, <2>2
  <2>4. ASSUME NEW d \in Structs, NEW e \in Structs,
               Established(d)', Established(e)', conn'[d].id = conn'[e].id
        PROVE  d = e
    <3>1. CASE d # n /\ e # n
      BY <1>2, <1>3, <2>1, <2>4, <3>1 DEF Owned
    <3>2. CASE d = n \/ e = n
      BY <1>1, <1>2, <2>1, <2>2, <2>4, <3>2
    <3>. QED
      BY <3>1, <3>2
  <2>. QED
    BY <2>3, <2>4 DEF Owned
<1>8. GateOnly'
  BY <1>1, <1>2, <1>3 DEF GateOnly
<1>9. Silent'
  BY <1>1, <1>2, <1>3 DEF Silent
<1>. QED
  BY <1>4, <1>5, <1>6, <1>7, <1>8, <1>9

-----------------------------------------------------------------------------
\* Deleting a connection.

\* While fewer connections were made than there are structures, one is free.
LEMMA OneIsFree ==
    ASSUME TypeOK, FreeSound, Owned, made < MaxConns
    PROVE  free # <<>>
<1>. SUFFICES ASSUME free = <<>> PROVE FALSE
  OBVIOUS
<1>1. \A c \in Structs : Established(c)
  BY DEF FreeSound, Range
<1>. DEFINE f == [c \in Structs |-> conn[c].id]
<1>2. f \in Injection(Structs, 1 .. made)
  BY <1>1 DEF Injection, IsInjective, Owned
<1>3. made \in Nat /\ MaxConns \in Nat /\ Cardinality(Structs) >= MaxConns
  BY ConnectionsAssumption DEF ConnectionsAssumption, TypeOK
<1>4. IsFiniteSet(1 .. made) /\ Cardinality(1 .. made) = made
  BY <1>3, FS_Interval
<1>5. Cardinality(Structs) <= Cardinality(1 .. made)
  BY <1>2, <1>4, FS_Injection
<1>6. Cardinality(Structs) \in Nat
  BY ConnectionsAssumption, FS_CardinalityType DEF ConnectionsAssumption
<1>. QED
  BY <1>3, <1>4, <1>5, <1>6

\* What may be changed in the fields of c before it is deleted.
Touched(c, cs) ==
    /\ cs \in [Structs -> Connection]
    /\ \A d \in Structs \ {c} : cs[d] = conn[d]
    /\ SameNet(c, cs)

\* What a step that deletes c leaves of the others: those that are open stay as
\* they are, and the gate is what it was or a new connection.
Spared(c) ==
    /\ \A d \in Structs \ {c} : Established(d) => conn'[d] = conn[d]
    /\ ~Established(c)'
    /\ \A d \in Structs : conn'[d].edges # {} => d # c /\ Established(d)
    /\ \/ /\ made' = made /\ gate' = gate
          /\ \A d \in Structs \ {c} : conn'[d] = conn[d]
       \/ /\ made' = made + 1 /\ c = gate /\ conn[c].role = "gate"
          /\ gate' \in Range(free) /\ conn'[gate'] = GateConn(made + 1)

LEMMA UnusedIs ==
    ASSUME NEW i \in 0 .. MaxConns
    PROVE  /\ [Unused EXCEPT !.id = i] \in Connection
           /\ Unused.status = "closed" /\ Unused.role = "none" /\ Unused.edges = {}
           /\ [Unused EXCEPT !.id = i].status = "closed"
           /\ [Unused EXCEPT !.id = i].role = "none"
           /\ [Unused EXCEPT !.id = i].edges = {}
<1>1. <<>> \in Seq(Kinds) /\ 0 \in 0 .. AuthTimeout
  BY ConnectionsAssumption, EmptySeq DEF ConnectionsAssumption
<1>. QED
  BY <1>1 DEF Unused, Connection

LEMMA GateConnIs ==
    ASSUME NEW i \in 0 .. MaxConns
    PROVE  /\ GateConn(i) \in Connection /\ GateConn(i).status = "established"
           /\ GateConn(i).id = i /\ GateConn(i).role = "gate" /\ GateConn(i).authed
           /\ GateConn(i).edges = {} /\ ~GateConn(i).eof /\ GateConn(i).inbox = <<>>
<1>1. <<>> \in Seq(Kinds) /\ 0 \in 0 .. AuthTimeout
  BY ConnectionsAssumption, EmptySeq DEF ConnectionsAssumption
<1>. QED
  BY <1>1 DEF GateConn, Fresh, Unused, Connection

NetType ==
    /\ conn \in [Structs -> Connection]
    /\ free \in Seq(Structs) /\ unauthed \in Seq(Structs)
    /\ gate \in Structs /\ servc \in Structs \cup {None} /\ made \in 0 .. MaxConns
    /\ told \in [Ids -> Nat] /\ closed \in SUBSET Ids /\ quiet \in SUBSET Ids

\* A connection that is deleted and is not replaced.
LEMMA DeleteSimply ==
    ASSUME TypeOK, Net, NEW c \in Structs, NEW cs, Established(c), Touched(c, cs),
           Delete(c, cs), cs[c].active \/ conn[c].role # "gate"
    PROVE  Net' /\ NetType' /\ Spared(c)
<1>. USE DEF Net
<1>. DEFINE i == conn[c].id
            freed == [Unused EXCEPT !.id = i]
<1>1. /\ i \in 1 .. made /\ i \in Ids /\ i \in 0 .. MaxConns /\ i \notin closed
      /\ c \notin Range(free) /\ None \notin Structs
  BY ConnectionsAssumption DEF ConnectionsAssumption, Owned, TypeOK, Ids, FreeSound
<1>2. /\ cs[c].status = "established" /\ cs[c].id = i /\ cs[c].role = conn[c].role
      /\ cs \in [Structs -> Connection] /\ \A d \in Structs \ {c} : cs[d] = conn[d]
  BY DEF Touched, SameNet, Established
<1>3. /\ unauthed' = Unlinked(unauthed, c) /\ closed' = closed \cup {i}
      /\ conn' = [cs EXCEPT ![c] = freed] /\ free' = <<c>> \o free
      /\ UNCHANGED <<gate, made>>
  BY <1>2 DEF Delete, Broken
<1>4. \/ cs[c].active /\ quiet' = quiet \cup {i} /\ UNCHANGED <<servc, told>>
      \/ /\ ~cs[c].active /\ quiet' = quiet /\ told' = [told EXCEPT ![i] = @ + 1]
         /\ servc' = IF conn[c].role = "serv" /\ servc = c THEN None ELSE servc
  BY <1>2 DEF Delete, Broken
<1>5. /\ freed \in Connection /\ freed.status = "closed" /\ freed.role = "none"
      /\ freed.edges = {}
  BY <1>1, UnusedIs
<1>. HIDE DEF freed
<1>6. conn'[c] = freed /\ \A d \in Structs \ {c} : conn'[d] = conn[d]
  BY <1>2, <1>3
<1>7. /\ free' \in Seq(Structs) /\ IsInjective(free') /\ Range(free') = Range(free) \cup {c}
  BY <1>1, <1>3, Pushed DEF TypeOK, FreeSound
<1>8. /\ unauthed' \in Seq(Structs) /\ IsInjective(unauthed')
      /\ Range(unauthed') = Range(unauthed) \ {c}
  BY <1>3, UnlinkedFrom DEF TypeOK, UnauthedSound
<1>9. FreeSound' /\ UnauthedSound' /\ Owned' /\ GateOnly' /\ Silent' /\ closed' \subseteq 1 .. made'
  <2>1. None \in Range(free) \cup {None} /\ Range(free') = (Range(free) \ {None}) \cup {c}
    BY <1>1, <1>7, RangeOfSeq DEF TypeOK
  <2>2. \A d \in Structs \ {c, None} : SameNet(d, conn') /\ conn'[d].edges = conn[d].edges
    BY <1>6 DEF SameNet
  <2>3. conn'[c].status = "closed" /\ conn'[c].role = "none" /\ conn'[c].edges = {}
    BY <1>5, <1>6
  <2>4. /\ made' = (IF None = None THEN made ELSE made + 1)
        /\ gate' = (IF None = None THEN gate ELSE None)
        /\ closed' = closed \cup {conn[c].id}
    BY <1>3
  <2>. QED
    BY <1>7, <1>8, <2>1, <2>2, <2>3, <2>4, NetClosed
<1>10. ToldOnce' /\ quiet' \subseteq closed'
  <2>1. quiet' \subseteq closed'
    BY <1>3, <1>4 DEF Past
  <2>2. CASE cs[c].active
    BY <1>1, <1>3, <1>4, <2>2 DEF ToldOnce, Past, TypeOK
  <2>3. CASE ~cs[c].active
    <3>1. i \notin quiet /\ told[i] = 0 /\ told \in [Ids -> Nat]
      BY <1>1 DEF ToldOnce, Past, TypeOK
    <3>2. told'[i] = 1 /\ i \in closed' /\ i \notin quiet'
      BY <1>1, <1>3, <1>4, <2>3, <3>1
    <3>3. ASSUME NEW j \in Ids, j # i
          PROVE  told'[j] = told[j] /\ (j \in closed' <=> j \in closed) /\ quiet' = quiet
      BY <1>3, <1>4, <2>3, <3>1, <3>3
    <3>. HIDE DEF i
    <3>4. ToldOnce'
      BY <3>2, <3>3 DEF ToldOnce
    <3>. QED
      BY <2>1, <3>4
  <2>. QED
    BY <2>1, <2>2, <2>3
<1>11. PointersLive'
  <2>1. CASE cs[c].active
    BY <1>4, <2>1 DEF PointersLive
  <2>2. CASE ~cs[c].active /\ quiet = {}
    <3>1. conn[c].role # "gate" /\ Established(gate) /\ conn[gate].role = "gate" /\ gate \in Structs
      BY <2>2 DEF PointersLive, TypeOK
    <3>2. Established(gate)' /\ conn'[gate'].role = "gate"
      BY <1>3, <1>6, <3>1 DEF Established
    <3>3. ASSUME servc' # None PROVE Established(servc)' /\ conn'[servc'].role = "serv"
      <4>1. servc' = servc /\ servc \in Structs /\ Established(servc) /\ conn[servc].role = "serv"
        BY <1>4, <2>2, <3>3 DEF PointersLive, TypeOK
      <4>2. servc # c
        BY <1>1, <1>4, <2>2, <3>3, <4>1
      <4>. QED
        BY <1>6, <4>1, <4>2 DEF Established
    <3>. QED
      BY <3>2, <3>3 DEF PointersLive
  <2>3. CASE ~cs[c].active /\ quiet # {}
    BY <1>4, <2>3 DEF PointersLive
  <2>. QED
    BY <2>1, <2>2, <2>3
<1>12. NetType'
  <2>1. conn' \in [Structs -> Connection]
    BY <1>2, <1>3, <1>5
  <2>2. told' \in [Ids -> Nat]
    BY <1>1, <1>4 DEF TypeOK
  <2>3. closed' \in SUBSET Ids /\ quiet' \in SUBSET Ids
    BY <1>1, <1>3, <1>4 DEF TypeOK
  <2>. QED
    BY <1>3, <1>4, <1>7, <1>8, <2>1, <2>2, <2>3 DEF NetType, TypeOK
<1>13. Spared(c)
  <2>1. \A d \in Structs : conn'[d].edges # {} => d # c /\ Established(d)
    BY <1>5, <1>6 DEF Silent
  <2>. QED
    BY <1>3, <1>5, <1>6, <2>1 DEF Spared, Established
<1>. QED
  BY <1>9, <1>10, <1>11, <1>12, <1>13 DEF Past

\* The gate is deleted, and connected again on the structure that was freed last.
LEMMA DeleteGate ==
    ASSUME TypeOK, Net, NEW c \in Structs, NEW cs, Established(c), Touched(c, cs),
           Delete(c, cs), ~cs[c].active, conn[c].role = "gate", made < MaxConns
    PROVE  Net' /\ NetType' /\ Spared(c)
<1>. USE DEF Net
<1>. DEFINE i == conn[c].id
            n == free[1]
            freed == [Unused EXCEPT !.id = i]
            new == GateConn(made + 1)
<1>1. /\ i \in 1 .. made /\ i \in Ids /\ i \in 0 .. MaxConns /\ i \notin closed
      /\ c \notin Range(free) /\ None \notin Structs /\ c = gate
      /\ made + 1 \in 0 .. MaxConns /\ made \in Nat
  BY ConnectionsAssumption
     DEF ConnectionsAssumption, Owned, TypeOK, Ids, FreeSound, GateOnly
<1>2. /\ cs[c].status = "established" /\ cs[c].id = i /\ cs[c].role = "gate"
      /\ cs \in [Structs -> Connection] /\ \A d \in Structs \ {c} : cs[d] = conn[d]
  BY DEF Touched, SameNet, Established
<1>3. /\ unauthed' = Unlinked(unauthed, c) /\ closed' = closed \cup {i}
      /\ conn' = [cs EXCEPT ![n] = new, ![c] = freed] /\ free' = <<c>> \o Tail(free)
      /\ made' = made + 1 /\ gate' = n /\ quiet' = quiet /\ servc' = servc
      /\ told' = [told EXCEPT ![i] = @ + 1]
  BY <1>2 DEF Delete, Broken
<1>4. free # <<>>
  BY OneIsFree
<1>5. /\ Tail(free) \in Seq(Structs) /\ IsInjective(Tail(free)) /\ n \in Structs
      /\ n \in Range(free) /\ Range(Tail(free)) = Range(free) \ {n}
  BY <1>4, Popped DEF TypeOK, FreeSound
<1>6. ~Established(n) /\ n # c
  BY <1>1, <1>5 DEF FreeSound
<1>7. /\ free' \in Seq(Structs) /\ IsInjective(free')
      /\ Range(free') = (Range(free) \ {n}) \cup {c}
  <2>. DEFINE t == Tail(free)
  <2>1. t \in Seq(Structs) /\ IsInjective(t) /\ Range(t) = Range(free) \ {n} /\ c \notin Range(t)
    BY <1>1, <1>5
  <2>2. free' = <<c>> \o t
    BY <1>3
  <2>. HIDE DEF t
  <2>. QED
    BY <2>1, <2>2, Pushed
<1>8. /\ unauthed' \in Seq(Structs) /\ IsInjective(unauthed')
      /\ Range(unauthed') = Range(unauthed) \ {c}
  BY <1>3, UnlinkedFrom DEF TypeOK, UnauthedSound
<1>9. /\ freed \in Connection /\ freed.status = "closed" /\ freed.role = "none"
      /\ freed.edges = {}
  BY <1>1, UnusedIs
<1>10. /\ new \in Connection /\ new.status = "established" /\ new.id = made + 1
       /\ new.role = "gate" /\ new.authed /\ new.edges = {}
  BY <1>1, GateConnIs
<1>. HIDE DEF freed, new, n
<1>11. /\ conn'[c] = freed /\ conn'[n] = new
       /\ \A d \in Structs \ {c, n} : conn'[d] = conn[d]
  BY <1>2, <1>3, <1>5, <1>6
<1>12. FreeSound' /\ UnauthedSound' /\ Owned' /\ GateOnly' /\ Silent' /\ closed' \subseteq 1 .. made'
  <2>1. n # None /\ n \in Range(free) \cup {None}
    BY <1>1, <1>5
  <2>2. \A d \in Structs \ {c, n} : SameNet(d, conn') /\ conn'[d].edges = conn[d].edges
    BY <1>11 DEF SameNet
  <2>3. conn'[c].status = "closed" /\ conn'[c].role = "none" /\ conn'[c].edges = {}
    BY <1>9, <1>11
  <2>4. /\ conn'[n].status = "established" /\ conn'[n].id = made + 1
        /\ conn'[n].role = "gate" /\ conn'[n].authed /\ conn'[n].edges = {}
    BY <1>10, <1>11
  <2>5. /\ made' = (IF n = None THEN made ELSE made + 1)
        /\ gate' = (IF n = None THEN gate ELSE n)
        /\ closed' = closed \cup {conn[c].id}
    BY <1>3, <2>1 DEF n
  <2>. QED
    BY <1>1, <1>7, <1>8, <2>1, <2>2, <2>3, <2>4, <2>5, NetClosed
<1>13. ToldOnce' /\ quiet' \subseteq closed'
  BY <1>1, <1>3 DEF ToldOnce, Past, TypeOK
<1>14. PointersLive'
  <2>1. Established(gate)' /\ conn'[gate'].role = "gate"
    BY <1>3, <1>10, <1>11 DEF Established
  <2>2. ASSUME quiet' = {}, servc' # None
        PROVE  Established(servc)' /\ conn'[servc'].role = "serv"
    <3>1. servc \in Structs /\ Established(servc) /\ conn[servc].role = "serv"
      BY <1>3, <2>2 DEF PointersLive, TypeOK
    <3>2. servc # c /\ servc # n
      BY <1>6, <3>1
    <3>. QED
      BY <1>3, <1>11, <3>1, <3>2 DEF Established
  <2>. QED
    BY <2>1, <2>2 DEF PointersLive
<1>15. NetType'
  <2>1. conn' \in [Structs -> Connection]
    BY <1>2, <1>3, <1>9, <1>10
  <2>2. told' \in [Ids -> Nat]
    BY <1>1, <1>3 DEF TypeOK
  <2>3. closed' \in SUBSET Ids /\ quiet' \in SUBSET Ids
    BY <1>1, <1>3 DEF TypeOK
  <2>. QED
    BY <1>1, <1>3, <1>5, <1>7, <1>8, <2>1, <2>2, <2>3 DEF NetType, TypeOK
<1>16. Spared(c)
  <2>1. \A d \in Structs \ {c} : Established(d) => conn'[d] = conn[d]
    BY <1>6, <1>11
  <2>2. ~Established(c)'
    BY <1>9, <1>11 DEF Established
  <2>3. gate' \in Range(free) /\ conn'[gate'] = GateConn(made + 1)
    BY <1>3, <1>5, <1>11 DEF new
  <2>4. \A d \in Structs : conn'[d].edges # {} => d # c /\ Established(d)
    BY <1>9, <1>10, <1>11 DEF Silent
  <2>. QED
    BY <1>1, <1>3, <2>1, <2>2, <2>3, <2>4 DEF Spared
<1>. QED
  BY <1>12, <1>13, <1>14, <1>15, <1>16 DEF Past

LEMMA DeleteNet ==
    ASSUME TypeOK, Net, NEW c \in Structs, NEW cs, Established(c), Touched(c, cs),
           Delete(c, cs), conn[c].role = "gate" /\ ~cs[c].active => made < MaxConns
    PROVE  Net' /\ NetType' /\ Spared(c)
BY DeleteSimply, DeleteGate

-----------------------------------------------------------------------------
\* The events of a batch.

LEMMA NoEventIs ==
    /\ NoEvent \in [c : Structs \cup {None}, ev : SUBSET Edges]
    /\ NoEvent.c \notin Structs /\ NoEvent.ev = {}
BY ConnectionsAssumption DEF ConnectionsAssumption, NoEvent

LEMMA EventOf ==
    ASSUME TypeOK, NEW e \in Range(batch)
    PROVE  /\ e.c \in Structs \cup {Listener} /\ e.id \in 0 .. MaxConns /\ e.ev \in SUBSET Edges
           /\ Listener \notin Structs
<1>1. e \in [c : Structs \cup {Listener}, id : 0 .. MaxConns, ev : SUBSET Edges]
  BY RangeOfSeq DEF TypeOK
<1>. QED
  BY <1>1, ConnectionsAssumption DEF ConnectionsAssumption

\* A connection is deleted that has no event left, and the loop goes on.
LEMMA DeleteEvents ==
    ASSUME IInv, NEW c \in Structs, Established(c), Spared(c), Net',
           \A e \in Range(batch) : e.c # c,
           conn[c].role = "gate" => made + backlog < MaxConns \/ made' = made,
           batch' = batch, backlog' = backlog, pc # "wait",
           \/ cur' = NoEvent /\ (pc' = "next" \/ (pc' = "sweep" /\ batch = <<>>))
           \/ cur' = cur /\ cur.c = c /\ pc' = "write"
    PROVE  Events'
<1>. USE DEF IInv
<1>1. \A d \in Structs : conn'[d].edges = {}
  BY DEF Spared, Events, Turn
<1>2. ASSUME NEW e \in Range(batch), e.c # Listener
      PROVE  /\ e.c \in Structs /\ Established(e.c) /\ conn'[e.c] = conn[e.c]
             /\ Established(e.c)' /\ conn[e.c].id = e.id
  <2>1. e.c \in Structs \ {c} /\ Established(e.c) /\ conn[e.c].id = e.id
    BY <1>2, EventOf DEF Events, EventFresh
  <2>. QED
    BY <2>1 DEF Spared, Established
<1>3. EventFresh'
  BY <1>2 DEF EventFresh
<1>4. OneEach'
  BY DEF Events, OneEach
<1>5. Turn'
  BY <1>1 DEF Turn
<1>6. Reading'
  BY <1>1, <1>2 DEF Events, Reading, Readable
<1>7. Room'
  <2>0. made \in Nat /\ backlog \in Nat /\ MaxConns \in Nat /\ gate \in Structs
    BY ConnectionsAssumption DEF ConnectionsAssumption, TypeOK
  <2>1. CASE made' = made /\ gate' = gate /\ \A d \in Structs \ {c} : conn'[d] = conn[d]
    <3>1. ASSUME Doomed' PROVE Doomed
      <4>1. gate # c /\ conn'[gate] = conn[gate]
        BY <2>0, <2>1, <3>1 DEF Doomed, Spared
      <4>2. cur'.c # gate
        BY <2>0, <4>1, NoEventIs
      <4>. QED
        BY <2>1, <3>1, <4>1, <4>2 DEF Doomed, Established
    <3>. QED
      BY <2>0, <2>1, <3>1 DEF Events, Room
  <2>2. CASE /\ made' = made + 1 /\ c = gate /\ conn[c].role = "gate"
             /\ gate' \in Range(free) /\ conn'[gate'] = GateConn(made + 1)
    <3>1. made + backlog < MaxConns /\ made + 1 \in 0 .. MaxConns
      BY <2>0, <2>2
    <3>2. gate' \in Structs /\ ~Established(gate')
      BY <2>2, RangeOfSeq DEF Net, FreeSound, TypeOK
    <3>3. ~Doomed'
      <4>1. conn'[gate'].edges = {} /\ ~conn'[gate'].eof /\ conn'[gate'].inbox = <<>>
        BY <2>2, <3>1, GateConnIs
      <4>2. \A e \in Range(batch) : e.c # gate'
        BY <1>2, <3>2, EventOf
      <4>3. cur'.c # gate'
        BY <3>2, NoEventIs
      <4>4. "data" \notin Range(conn'[gate'].inbox)
        BY <4>1 DEF Range
      <4>. QED
        BY <4>1, <4>2, <4>3, <4>4 DEF Doomed
    <3>. QED
      BY <2>0, <2>2, <3>1, <3>3 DEF Room
  <2>. QED
    BY <2>1, <2>2 DEF Spared
<1>. QED
  BY <1>3, <1>4, <1>5, <1>6, <1>7 DEF Events

-----------------------------------------------------------------------------
\* What peers do while the main loop waits.

\* While it waits, no event is pending: the gate is lost by what has arrived.
LEMMA WaitDoomed ==
    ASSUME IInv, pc = "wait"
    PROVE  /\ Doomed <=> GateLost
           /\ batch = <<>> /\ cur = NoEvent /\ \A e \in Range(batch) : FALSE
           /\ made \in Nat /\ backlog \in Nat /\ MaxConns \in Nat /\ gate \in Structs
           /\ Bounded(1) => made + backlog < MaxConns
<1>. USE DEF IInv
<1>1. batch = <<>> /\ cur = NoEvent
  BY DEF Events, Turn
<1>2. \A e \in Range(batch) : FALSE
  BY <1>1 DEF Range
<1>3. made \in Nat /\ backlog \in Nat /\ MaxConns \in Nat /\ gate \in Structs
  BY ConnectionsAssumption DEF ConnectionsAssumption, TypeOK
<1>4. cur.c # gate
  BY <1>1, <1>3, NoEventIs
<1>5. Doomed <=> GateLost
  BY <1>2, <1>4 DEF Doomed, GateLost
<1>6. Bounded(1) => made + backlog < MaxConns
  <2>1. CASE GateLost
    BY <1>3, <2>1 DEF Bounded
  <2>2. CASE ~GateLost
    BY <1>3, <2>2 DEF Bounded
  <2>. QED
    BY <2>1, <2>2
<1>. QED
  BY <1>1, <1>2, <1>3, <1>5, <1>6

LEMMA PeerKeeps ==
    ASSUME IInv, pc = "wait", Outside, backlog' = backlog, sent' \in 0 .. MaxPackets,
           conn' \in [Structs -> Connection],
           \A d \in Structs : SameNet(d, conn'),
           \A d \in Structs : conn'[d].edges # {} => Established(d),
           \A d \in Structs : "read" \in conn'[d].edges => conn'[d].unread \/ conn'[d].eof,
           conn'[gate] = conn[gate] \/ ~Doomed' \/ made + backlog < MaxConns
    PROVE  IInv'
<1>. USE DEF IInv, Outside
<1>1. Kept
  BY DEF Kept
<1>2. Net'
  BY <1>1, NetTouched
<1>3. batch = <<>> /\ batch' = <<>> /\ cur' = cur /\ pc' = "wait" /\ \A e \in Range(batch) : FALSE
  BY WaitDoomed
<1>4. TypeOK'
  BY DEF TypeOK
<1>5. EventFresh' /\ OneEach'
  BY <1>3 DEF EventFresh, OneEach
<1>6. Turn' /\ Reading'
  BY <1>3 DEF Events, Turn, Reading, Readable
<1>7. Room'
  <2>1. conn'[gate] = conn[gate] /\ Doomed' => Doomed
    BY <1>3 DEF Doomed, Established
  <2>. QED
    BY <2>1 DEF Events, Room
<1>. QED
  BY <1>2, <1>4, <1>5, <1>6, <1>7 DEF Events

\* A change of one open connection, when the gate is not lost by it or there is room.
LEMMA PeerMoves ==
    ASSUME IInv, pc = "wait", Outside, backlog' = backlog, sent' \in 0 .. MaxPackets,
           NEW c \in Structs, Established(c), NEW new \in Connection,
           conn' = [conn EXCEPT ![c] = new],
           /\ new.status = conn[c].status /\ new.id = conn[c].id
           /\ new.authed = conn[c].authed /\ new.role = conn[c].role,
           "read" \in new.edges => new.unread \/ new.eof,
           conn[c].role = "gate" => ~Doomed' \/ made + backlog < MaxConns
    PROVE  IInv'
<1>. USE DEF IInv
<1>1. conn' \in [Structs -> Connection] /\ conn'[c] = new
      /\ \A d \in Structs \ {c} : conn'[d] = conn[d]
  BY DEF TypeOK
<1>2. \A d \in Structs : SameNet(d, conn')
  BY <1>1 DEF SameNet
<1>3. \A d \in Structs : conn'[d].edges # {} => Established(d)
  BY <1>1 DEF Net, Silent
<1>4. \A d \in Structs : "read" \in conn'[d].edges => conn'[d].unread \/ conn'[d].eof
  BY <1>1 DEF Events, Reading, Readable
<1>5. conn'[gate] = conn[gate] \/ ~Doomed' \/ made + backlog < MaxConns
  <2>1. CASE c # gate
    BY <1>1, <2>1 DEF TypeOK
  <2>2. CASE c = gate /\ conn[c].role # "gate"
    <3>1. gate' = gate /\ conn'[gate'].role # "gate"
      BY <1>1, <2>2 DEF Outside
    <3>. QED
      BY <3>1 DEF Doomed
  <2>. QED
    BY <2>1, <2>2
<1>. QED
  BY <1>1, <1>2, <1>3, <1>4, <1>5, PeerKeeps

LEMMA PeersStep ==
    ASSUME IInv, Peers
    PROVE  IInv'
<1>. USE DEF IInv
<1>1. pc = "wait"
  BY DEF Peers, PeerConnects, PeerSends, PeerReads, PeerCloses, PeerResets
<1>2. \A c \in Structs : conn[c] \in Connection
  BY DEF TypeOK
<1>3. ASSUME GateLost \/ Bounded(1) PROVE made + backlog < MaxConns
  BY <1>1, <1>3, WaitDoomed DEF Events, Room
<1>4. sent \in 0 .. MaxPackets /\ MaxPackets \in Nat
  BY ConnectionsAssumption DEF ConnectionsAssumption, TypeOK
<1>5. CASE PeerConnects
  <2>1. Outside /\ conn' = conn /\ sent' = sent /\ backlog' = backlog + 1 /\ Bounded(1)
    BY <1>5 DEF PeerConnects
  <2>2. Kept /\ UNCHANGED <<batch, cur, pc>>
    BY <2>1 DEF Outside, Kept
  <2>3. Net'
    BY <2>1, <2>2, NetTouched DEF SameNet, TypeOK, Net, Silent
  <2>4. /\ made + backlog' <= MaxConns
        /\ GateLost => made + backlog' < MaxConns
    BY <1>1, <2>1, WaitDoomed DEF Bounded
  <2>5. Doomed' => Doomed
    BY <2>1, <2>2 DEF Doomed, Established, Kept
  <2>6. Room'
    BY <1>1, <2>2, <2>4, <2>5, WaitDoomed DEF Room, Kept
  <2>7. TypeOK'
    <3>1. backlog' \in 0 .. MaxConns
      BY <1>1, <2>1, <2>4, WaitDoomed
    <3>. QED
      BY <2>1, <2>2, <3>1 DEF TypeOK, Kept
  <2>8. EventFresh' /\ OneEach' /\ Turn' /\ Reading'
    BY <2>1, <2>2 DEF Events, EventFresh, OneEach, Turn, Reading, Readable, Established
  <2>. QED
    BY <2>3, <2>6, <2>7, <2>8 DEF Events
<1>6. ASSUME NEW c \in Structs, NEW k \in Kinds, PeerSends(c, k) PROVE IInv'
  <2>. DEFINE new == [conn[c] EXCEPT !.inbox = Append(@, k), !.unread = TRUE,
                                     !.edges = @ \cup {"read"}]
  <2>1. /\ Outside /\ backlog' = backlog /\ Established(c) /\ sent' = sent + 1
        /\ sent < MaxPackets /\ conn' = [conn EXCEPT ![c] = new]
        /\ conn[c].role = "gate" /\ k = "data" => GateLost \/ Bounded(1)
    BY <1>6 DEF PeerSends
  <2>2. new \in Connection
    <3>. DEFINE longer == Append(conn[c].inbox, k)
                edges == conn[c].edges \cup {"read"}
    <3>1. longer \in Seq(Kinds)
      BY <1>2, AppendProperties DEF Connection
    <3>2. edges \in SUBSET Edges
      BY <1>2 DEF Connection, Edges
    <3>3. new = [conn[c] EXCEPT !.inbox = longer, !.unread = TRUE, !.edges = edges]
      OBVIOUS
    <3>. HIDE DEF new, longer, edges
    <3>. QED
      BY <1>2, <3>1, <3>2, <3>3 DEF Connection
  <2>3. ASSUME conn[c].role = "gate", k # "data", Doomed' PROVE made + backlog < MaxConns
    <3>1. c = gate /\ gate' = gate /\ conn'[gate] = new
      BY <2>1, <2>3 DEF Net, GateOnly, Outside, TypeOK
    <3>2. "data" \in Range(new.inbox) => "data" \in Range(conn[c].inbox)
      <4>1. conn[c].inbox \in Seq(Kinds)
        BY <1>2 DEF Connection
      <4>2. /\ Len(Append(conn[c].inbox, k)) = Len(conn[c].inbox) + 1
            /\ Append(conn[c].inbox, k)[Len(conn[c].inbox) + 1] = k
            /\ \A i \in 1 .. Len(conn[c].inbox) : Append(conn[c].inbox, k)[i] = conn[c].inbox[i]
        BY <4>1, AppendProperties
      <4>3. new.inbox = Append(conn[c].inbox, k)
        BY <1>2 DEF Connection
      <4>. QED
        BY <2>3, <4>1, <4>2, <4>3 DEF Range
    <3>3. new.eof = conn[c].eof /\ ("hup" \in new.edges => "hup" \in conn[c].edges)
      BY <1>2 DEF Connection
    <3>4. Doomed
      BY <2>1, <2>3, <3>1, <3>2, <3>3 DEF Doomed, Established, Outside
    <3>. QED
      BY <3>4 DEF Events, Room
  <2>4. /\ new.status = conn[c].status /\ new.id = conn[c].id
        /\ new.authed = conn[c].authed /\ new.role = conn[c].role /\ new.unread
    BY <1>2 DEF Connection
  <2>. HIDE DEF new
  <2>5. sent' \in 0 .. MaxPackets
    BY <1>4, <2>1
  <2>6. conn[c].role = "gate" => ~Doomed' \/ made + backlog < MaxConns
    BY <1>3, <2>1, <2>3
  <2>. QED
    BY <1>1, <2>1, <2>2, <2>4, <2>5, <2>6, PeerMoves
<1>7. ASSUME NEW c \in Structs, PeerReads(c) PROVE IInv'
  <2>. DEFINE new == [conn[c] EXCEPT !.edges = @ \cup {"write"}]
  <2>1. /\ Outside /\ backlog' = backlog /\ Established(c) /\ sent' = sent
        /\ conn' = [conn EXCEPT ![c] = new]
    BY <1>7 DEF PeerReads
  <2>2. new \in Connection
    BY <1>2 DEF Connection, Edges
  <2>3. ASSUME conn[c].role = "gate", Doomed' PROVE made + backlog < MaxConns
    <3>1. c = gate /\ gate' = gate /\ conn'[gate] = new
      BY <2>1, <2>3 DEF Net, GateOnly, Outside, TypeOK
    <3>2. Doomed
      BY <1>2, <2>1, <2>3, <3>1 DEF Doomed, Established, Outside, Connection
    <3>. QED
      BY <3>2 DEF Events, Room
  <2>4. /\ new.status = conn[c].status /\ new.id = conn[c].id
        /\ new.authed = conn[c].authed /\ new.role = conn[c].role
        /\ "read" \in new.edges => new.unread \/ new.eof
    BY <1>2 DEF Connection, Events, Reading, Readable
  <2>. HIDE DEF new
  <2>. QED
    BY <1>1, <1>4, <2>1, <2>2, <2>3, <2>4, PeerMoves
<1>8. ASSUME NEW c \in Structs, PeerCloses(c) PROVE IInv'
  <2>. DEFINE new == [conn[c] EXCEPT !.eof = TRUE, !.edges = @ \cup {"read"}]
  <2>1. /\ Outside /\ backlog' = backlog /\ Established(c) /\ sent' = sent
        /\ conn' = [conn EXCEPT ![c] = new]
        /\ conn[c].role = "gate" => GateLost \/ Bounded(1)
    BY <1>8 DEF PeerCloses
  <2>2. /\ new \in Connection /\ new.eof
        /\ new.status = conn[c].status /\ new.id = conn[c].id
        /\ new.authed = conn[c].authed /\ new.role = conn[c].role
    BY <1>2 DEF Connection, Edges
  <2>. HIDE DEF new
  <2>. QED
    BY <1>1, <1>3, <1>4, <2>1, <2>2, PeerMoves
<1>9. ASSUME NEW c \in Structs, PeerResets(c) PROVE IInv'
  <2>. DEFINE new == [conn[c] EXCEPT !.edges = @ \cup {"hup"}]
  <2>1. /\ Outside /\ backlog' = backlog /\ Established(c) /\ sent' = sent
        /\ conn' = [conn EXCEPT ![c] = new]
        /\ conn[c].role = "gate" => GateLost \/ Bounded(1)
    BY <1>9 DEF PeerResets
  <2>2. /\ new \in Connection
        /\ new.status = conn[c].status /\ new.id = conn[c].id
        /\ new.authed = conn[c].authed /\ new.role = conn[c].role
        /\ "read" \in new.edges => new.unread \/ new.eof
    BY <1>2 DEF Connection, Edges, Events, Reading, Readable
  <2>. HIDE DEF new
  <2>. QED
    BY <1>1, <1>3, <1>4, <2>1, <2>2, PeerMoves
<1>. QED
  BY <1>5, <1>6, <1>7, <1>8, <1>9 DEF Peers

LEMMA TickStep ==
    ASSUME IInv, Tick
    PROVE  IInv'
<1>. USE DEF IInv
<1>1. pc = "wait" /\ Outside /\ backlog' = backlog /\ sent' \in 0 .. MaxPackets
  BY DEF Tick, TypeOK
<1>2. ASSUME NEW c \in Structs
      PROVE  /\ conn'[c] \in Connection /\ SameNet(c, conn')
             /\ conn'[c].edges = conn[c].edges /\ conn'[c].unread = conn[c].unread
             /\ conn'[c].eof = conn[c].eof /\ conn'[c].inbox = conn[c].inbox
  <2>1. conn[c] \in Connection
    BY DEF TypeOK
  <2>2. CASE Waiting(c)
    <3>1. conn'[c] = [conn[c] EXCEPT !.age = @ + 1]
      BY <2>2 DEF Tick
    <3>2. conn[c].age + 1 \in 0 .. AuthTimeout
      BY <2>1, <2>2, ConnectionsAssumption DEF ConnectionsAssumption, Waiting, Connection
    <3>. QED
      BY <2>1, <3>1, <3>2 DEF Connection, SameNet
  <2>3. CASE ~Waiting(c)
    <3>1. conn'[c] = conn[c]
      BY <2>3 DEF Tick
    <3>. QED
      BY <2>1, <3>1 DEF SameNet
  <2>. QED
    BY <2>2, <2>3
<1>3. conn' \in [Structs -> Connection]
  BY <1>2 DEF Tick
<1>4. ~Doomed' \/ made + backlog < MaxConns
  <2>1. Doomed' => Doomed
    BY <1>1, <1>2 DEF Outside, Doomed, Established, SameNet, TypeOK
  <2>. QED
    BY <2>1 DEF Events, Room
<1>. QED
  BY <1>1, <1>2, <1>3, <1>4, PeerKeeps DEF Net, Silent, Events, Reading, Readable

-----------------------------------------------------------------------------
\* The main loop.

\* epoll_wait gives each connection that has edges one event.
LEMMA PollStep ==
    ASSUME IInv, Poll
    PROVE  IInv'
<1>. USE DEF IInv
<1>. DEFINE ready == {d \in Structs : conn[d].edges # {}}
            event(d) == [c |-> d, id |-> conn[d].id, ev |-> conn[d].edges]
            events == {event(d) : d \in ready}
            accepts == IF backlog = 0 THEN {} ELSE {[c |-> Listener, id |-> 0, ev |-> {"read"}]}
            all == events \cup accepts
            S == [c : Structs \cup {Listener}, id : 0 .. MaxConns, ev : SUBSET Edges]
<1>1. /\ pc = "wait" /\ batch' \in SetToSeqs(all) /\ pc' = "next"
      /\ conn' = [d \in Structs |-> [conn[d] EXCEPT !.edges = {}]]
      /\ UNCHANGED <<cur, backlog, sent>> /\ Kept
  BY DEF Poll
<1>2. IsFiniteSet(all)
  <2>1. IsFiniteSet(ready)
    BY ConnectionsAssumption, FS_Subset DEF ConnectionsAssumption
  <2>2. IsFiniteSet(events)
    <3>. DEFINE f == [d \in ready |-> event(d)]
    <3>1. f \in Surjection(ready, events)
      BY DEF Surjection
    <3>. QED
      BY <2>1, <3>1, FS_Surjection
  <2>3. IsFiniteSet(accepts)
    BY FS_EmptySet, FS_Singleton
  <2>. HIDE DEF events, accepts
  <2>. QED
    BY <2>2, <2>3, FS_Union
<1>3. \A e \in events : /\ e.c \in Structs /\ e.id = conn[e.c].id /\ e.ev = conn[e.c].edges
                        /\ e = event(e.c) /\ conn[e.c].edges # {} /\ e \in S
  <2>. SUFFICES ASSUME NEW d \in ready
                PROVE  /\ event(d).c = d /\ event(d).id = conn[d].id
                       /\ event(d).ev = conn[d].edges /\ event(d) \in S
    OBVIOUS
  <2>1. conn[d] \in Connection
    BY DEF TypeOK
  <2>2. conn[d].id \in 0 .. MaxConns /\ conn[d].edges \in SUBSET Edges
    BY <2>1 DEF Connection
  <2>. QED
    BY <2>2
<1>4. \A e \in accepts : e.c = Listener /\ e.ev = {"read"} /\ e \in S
                         /\ e = [c |-> Listener, id |-> 0, ev |-> {"read"}]
  BY ConnectionsAssumption DEF ConnectionsAssumption, Edges
<1>5. Listener \notin Structs
  BY ConnectionsAssumption DEF ConnectionsAssumption
<1>. HIDE DEF events, accepts
<1>6. \A e, f \in all : e.c = f.c => e = f
  BY <1>3, <1>4, <1>5
<1>7. /\ Cardinality(all) \in Nat /\ batch' \in [1 .. Cardinality(all) -> all]
      /\ \A i, j \in 1 .. Cardinality(all) : i # j => batch'[i] # batch'[j]
  BY <1>1, <1>2, FS_CardinalityType DEF SetToSeqs
<1>. HIDE DEF all
<1>8. \A e \in Range(batch') : e \in all
  BY <1>7 DEF Range
<1>9. batch' \in Seq(S)
  <2>1. \A e \in all : e \in S
    BY <1>3, <1>4 DEF all
  <2>. HIDE DEF S
  <2>2. \A i \in 1 .. Cardinality(all) : batch'[i] \in S
    BY <1>7, <2>1
  <2>3. batch' \in [1 .. Cardinality(all) -> S]
    BY <1>7, <2>2
  <2>. QED
    BY <1>7, <2>3, SeqDef
<1>10. OneEach'
  BY <1>6, <1>7 DEF OneEach
<1>11. ASSUME NEW d \in Structs
       PROVE  /\ conn'[d] \in Connection /\ SameNet(d, conn') /\ conn'[d].edges = {}
              /\ conn'[d].unread = conn[d].unread /\ conn'[d].eof = conn[d].eof
              /\ conn'[d].inbox = conn[d].inbox
  <2>1. conn[d] \in Connection /\ conn'[d] = [conn[d] EXCEPT !.edges = {}]
    BY <1>1 DEF TypeOK
  <2>. QED
    BY <2>1 DEF Connection, SameNet
<1>12. conn' \in [Structs -> Connection]
  BY <1>1, <1>11
<1>13. Net'
  BY <1>1, <1>11, <1>12, NetTouched
<1>14. TypeOK'
  BY <1>1, <1>9, <1>12 DEF TypeOK, Kept
<1>15. ASSUME NEW e \in Range(batch'), e.c # Listener
       PROVE  /\ e.c \in Structs /\ e.id = conn[e.c].id /\ e.ev = conn[e.c].edges
              /\ conn[e.c].edges # {}
  BY <1>3, <1>4, <1>8, <1>15 DEF all
<1>16. EventFresh'
  <2>. SUFFICES ASSUME NEW e \in Range(batch'), e.c # Listener
                PROVE  Established(e.c)' /\ conn'[e.c].id = e.id
    BY DEF EventFresh
  <2>1. Established(e.c)
    BY <1>15 DEF Net, Silent
  <2>. QED
    BY <1>11, <1>15, <2>1 DEF SameNet, Established
<1>17. Reading'
  <2>1. ASSUME NEW e \in Range(batch'), e.c # Listener, "read" \in e.ev PROVE Readable(e.c)'
    BY <1>11, <1>15, <2>1 DEF Events, Reading, Readable
  <2>. QED
    BY <1>1, <1>11, <2>1 DEF Reading
<1>18. Turn'
  BY <1>1, <1>11 DEF Events, Turn
<1>19. Room'
  <2>1. ASSUME Doomed' PROVE Doomed
    <3>1. gate \in Structs /\ gate' = gate /\ cur' = cur /\ gate # Listener
      BY <1>1, <1>5 DEF TypeOK, Kept
    <3>2. Established(gate) /\ conn[gate].role = "gate"
      BY <1>11, <2>1, <3>1 DEF Doomed, Established, SameNet
    <3>3. (\E e \in Range(batch') : e.c = gate /\ "hup" \in e.ev) => "hup" \in conn[gate].edges
      BY <1>15, <3>1
    <3>. QED
      BY <1>11, <2>1, <3>1, <3>2, <3>3 DEF Doomed
  <2>. QED
    BY <1>1, <2>1 DEF Events, Room, Kept
<1>. QED
  BY <1>10, <1>13, <1>14, <1>16, <1>17, <1>18, <1>19 DEF Events

\* The next event of a batch is the last.
LEMMA FrontOf ==
    ASSUME NEW S, NEW q \in Seq(S), q # <<>>
    PROVE  /\ Front(q) \in Seq(S) /\ Len(Front(q)) = Len(q) - 1 /\ Len(q) \in Nat /\ Len(q) > 0
           /\ \A i \in 1 .. Len(q) - 1 : Front(q)[i] = q[i]
           /\ Last(q) \in Range(q) /\ Last(q) = q[Len(q)]
           /\ \A e \in Range(Front(q)) : e \in Range(q)
<1>. DEFINE t == Front(q)
<1>1. Len(q) \in Nat /\ Len(q) > 0
  BY EmptySeq, LenProperties
<1>2. PICK n \in Nat : Len(q) = n + 1
  <2>1. Len(q) - 1 \in Nat /\ Len(q) = (Len(q) - 1) + 1
    BY <1>1
  <2>. QED
    BY <2>1
<1>3. t = SubSeq(q, 1, n)
  <2>1. Len(q) - 1 = n
    BY <1>2
  <2>. QED
    BY <2>1 DEF Front
<1>4. t \in Seq(S) /\ Len(t) = n /\ \A i \in 1 .. n : t[i] = q[i]
  <2>1. 1 \in 1 .. Len(q) + 1 /\ n \in 0 .. Len(q)
    BY <1>2
  <2>2. /\ SubSeq(q, 1, n) \in Seq(S)
        /\ Len(SubSeq(q, 1, n)) = (IF 1 <= n THEN n - 1 + 1 ELSE 0)
        /\ \A i \in 1 .. n - 1 + 1 : SubSeq(q, 1, n)[i] = q[1 + i - 1]
    BY <2>1, SubSeqProperties
  <2>. HIDE DEF t
  <2>3. (IF 1 <= n THEN n - 1 + 1 ELSE 0) = n
    BY <1>2
  <2>4. t \in Seq(S) /\ Len(t) = n
    BY <1>3, <2>2, <2>3, Zenon
  <2>5. ASSUME NEW i \in 1 .. n PROVE t[i] = q[i]
    <3>1. i \in 1 .. n - 1 + 1 /\ 1 + i - 1 = i
      BY <1>2
    <3>2. t[i] = q[1 + i - 1]
      BY <1>3, <2>2, <3>1
    <3>. QED
      BY <3>1, <3>2
  <2>. QED
    BY <2>4, <2>5
<1>. HIDE DEF t
<1>5. Len(t) = Len(q) - 1 /\ Len(q) - 1 = n
  BY <1>2, <1>4
<1>6. \A e \in Range(t) : e \in Range(q)
  BY <1>2, <1>4 DEF Range
<1>7. Last(q) = q[Len(q)] /\ Last(q) \in Range(q)
  BY <1>1 DEF Last, Range
<1>. QED
  BY <1>1, <1>4, <1>5, <1>6, <1>7 DEF t

LEMMA NextEventStep ==
    ASSUME IInv, NextEvent
    PROVE  IInv'
<1>. USE DEF IInv
<1>1. /\ pc = "next" /\ conn' = conn /\ UNCHANGED <<backlog, sent>> /\ Kept
      /\ cur = NoEvent /\ \A d \in Structs : conn[d].edges = {}
  BY DEF NextEvent, Events, Turn
<1>2. Net'
  BY <1>1, NetTouched DEF SameNet, TypeOK
<1>3. \A d : Established(d)' <=> Established(d)
  BY <1>1 DEF Established
<1>4. CASE batch = <<>>
  <2>1. pc' = "sweep" /\ UNCHANGED <<batch, cur>>
    BY <1>4 DEF NextEvent
  <2>2. TypeOK'
    BY <1>1, <2>1 DEF TypeOK, Kept
  <2>3. EventFresh' /\ OneEach' /\ Reading'
    BY <1>1, <1>3, <2>1 DEF Events, EventFresh, OneEach, Reading, Readable
  <2>4. Turn'
    BY <1>1, <1>4, <2>1 DEF Turn
  <2>5. Room'
    BY <1>1, <1>3, <2>1 DEF Events, Room, Doomed, Kept
  <2>. QED
    BY <1>2, <2>2, <2>3, <2>4, <2>5 DEF Events
<1>5. CASE batch # <<>>
  <2>. DEFINE e == Last(batch)
  <2>1. /\ batch' = Front(batch)
        /\ \/ e.c = Listener /\ pc' = "accept" /\ UNCHANGED cur
           \/ /\ e.c # Listener /\ cur' = [c |-> e.c, ev |-> e.ev]
              /\ pc' = IF "read" \in e.ev /\ Established(e.c) THEN "read" ELSE "write"
    BY <1>5 DEF NextEvent
  <2>2. /\ batch' \in Seq([c : Structs \cup {Listener}, id : 0 .. MaxConns, ev : SUBSET Edges])
        /\ Len(batch') = Len(batch) - 1 /\ Len(batch) \in Nat /\ Len(batch) > 0
        /\ \A i \in 1 .. Len(batch) - 1 : batch'[i] = batch[i]
        /\ e \in Range(batch) /\ e = batch[Len(batch)]
        /\ \A f \in Range(batch') : f \in Range(batch)
    BY <1>5, <2>1, FrontOf DEF TypeOK
  <2>. HIDE DEF e
  <2>3. /\ e.c \in Structs \cup {Listener} /\ e.ev \in SUBSET Edges /\ Listener \notin Structs
    BY <2>2, EventOf
  <2>4. TypeOK'
    <3>1. cur' \in [c : Structs \cup {None}, ev : SUBSET Edges]
      BY <2>1, <2>3 DEF TypeOK
    <3>. QED
      BY <1>1, <2>1, <2>2, <3>1 DEF TypeOK, Kept
  <2>5. DOMAIN batch' = 1 .. Len(batch) - 1 /\ DOMAIN batch = 1 .. Len(batch)
    BY <2>2 DEF TypeOK
  <2>6. OneEach'
    <3>. SUFFICES ASSUME NEW i \in 1 .. Len(batch) - 1, NEW j \in 1 .. Len(batch) - 1,
                         batch'[i].c = batch'[j].c
                  PROVE  i = j
      BY <2>5 DEF OneEach
    <3>1. i \in DOMAIN batch /\ j \in DOMAIN batch /\ batch[i].c = batch[j].c
      BY <2>2, <2>5
    <3>. QED
      BY <3>1 DEF Events, OneEach
  <2>7. \A f \in Range(batch') : f.c # e.c
    <3>. SUFFICES ASSUME NEW f \in Range(batch') PROVE f.c # e.c
      OBVIOUS
    <3>1. PICK i \in 1 .. Len(batch) - 1 : f = batch[i]
      BY <2>2, <2>5 DEF Range
    <3>2. i \in DOMAIN batch /\ Len(batch) \in DOMAIN batch /\ i # Len(batch)
      BY <2>2, <2>5
    <3>. QED
      BY <2>2, <3>1, <3>2 DEF Events, OneEach
  <2>8. EventFresh'
    BY <1>1, <1>3, <2>2 DEF Events, EventFresh
  <2>9. Turn'
    BY <1>1, <1>3, <2>1, <2>3, <2>7 DEF Turn
  <2>10. Reading'
    BY <1>1, <2>1, <2>2 DEF Events, Reading, Readable
  <2>11. Room'
    <3>1. cur'.c = gate /\ "hup" \in cur'.ev => \E f \in Range(batch) : f.c = gate /\ "hup" \in f.ev
      BY <1>1, <2>1, <2>2, NoEventIs DEF TypeOK
    <3>2. Doomed' => Doomed
      BY <1>1, <1>3, <2>2, <3>1 DEF Doomed, Kept
    <3>. QED
      BY <1>1, <3>2 DEF Events, Room, Kept
  <2>. QED
    BY <1>2, <2>4, <2>6, <2>8, <2>9, <2>10, <2>11 DEF Events
<1>. QED
  BY <1>4, <1>5

-----------------------------------------------------------------------------
\* A connection that is processed.

\* cs differ from the fields of the connections in what is queued, buffered or
\* read of them, and in the connection being processed in no more.
Quietly(cs) ==
    /\ cs \in [Structs -> Connection]
    /\ \A d \in Structs :
          /\ SameNet(d, cs) /\ cs[d].edges = conn[d].edges /\ cs[d].eof = conn[d].eof
          /\ d # cur.c => cs[d].unread = conn[d].unread
          /\ "data" \in Range(cs[d].inbox) => "data" \in Range(conn[d].inbox)

LEMMA QuietlyQueued ==
    ASSUME NEW cs, Quietly(cs), NEW d \in Structs, NEW n \in Nat
    PROVE  Quietly([cs EXCEPT ![d].queue = n])
<1>. DEFINE new == [cs EXCEPT ![d].queue = n]
<1>1. cs[d] \in Connection
  BY DEF Quietly
<1>2. /\ [cs[d] EXCEPT !.queue = n] \in Connection
      /\ new = [cs EXCEPT ![d] = [cs[d] EXCEPT !.queue = n]]
  BY <1>1 DEF Connection
<1>3. /\ new \in [Structs -> Connection]
      /\ \A e \in Structs \ {d} : new[e] = cs[e]
      /\ new[d].status = cs[d].status /\ new[d].id = cs[d].id
      /\ new[d].authed = cs[d].authed /\ new[d].role = cs[d].role
      /\ new[d].edges = cs[d].edges /\ new[d].eof = cs[d].eof
      /\ new[d].unread = cs[d].unread /\ new[d].inbox = cs[d].inbox
  BY <1>1, <1>2 DEF Quietly, Connection
<1>. HIDE DEF new
<1>4. ASSUME NEW e \in Structs
      PROVE  /\ SameNet(e, new) /\ new[e].edges = conn[e].edges /\ new[e].eof = conn[e].eof
             /\ e # cur.c => new[e].unread = conn[e].unread
             /\ "data" \in Range(new[e].inbox) => "data" \in Range(conn[e].inbox)
  <2>1. /\ SameNet(e, cs) /\ cs[e].edges = conn[e].edges /\ cs[e].eof = conn[e].eof
        /\ e # cur.c => cs[e].unread = conn[e].unread
        /\ "data" \in Range(cs[e].inbox) => "data" \in Range(conn[e].inbox)
    BY DEF Quietly
  <2>2. CASE e = d
    BY <1>3, <2>1, <2>2 DEF SameNet
  <2>3. CASE e # d
    BY <1>3, <2>1, <2>3 DEF SameNet
  <2>. QED
    BY <2>2, <2>3
<1>5. Quietly(new)
  BY <1>3, <1>4 DEF Quietly
<1>. QED
  BY <1>5 DEF new

\* What rbtNet_send leaves.
LEMMA QuietlySent ==
    ASSUME NEW cs, Quietly(cs), NEW d \in Structs, NEW after \in Sent(d, cs)
    PROVE  Quietly(after)
<1>1. CASE after = cs
  BY <1>1
<1>2. ASSUME NEW n \in 0 .. cs[d].queue + 1, after = [cs EXCEPT ![d].queue = n]
      PROVE  Quietly(after)
  <2>1. n \in Nat
    BY DEF Quietly, Connection
  <2>. QED
    BY <1>2, <2>1, QuietlyQueued
<1>. QED
  BY <1>1, <1>2 DEF Sent

\* The connection goes on to be processed, or is done with.
Onward ==
    \/ cur' = cur /\ pc' = "packets" /\ pc # "write"
    \/ cur' = cur /\ pc' = "write"
    \/ cur' = NoEvent /\ pc' = "next"

\* A step of the connection being processed that closes none.
LEMMA LoopKeeps ==
    ASSUME IInv, Net', NetType', gate' = gate, made' = made, UNCHANGED <<batch, backlog, sent>>,
           pc \in {"read", "packets", "write"}, Onward,
           \A d \in Structs :
              /\ conn'[d].status = conn[d].status /\ conn'[d].id = conn[d].id
              /\ conn'[d].role = "gate" => conn[d].role = "gate"
              /\ conn'[d].edges = conn[d].edges /\ conn'[d].eof = conn[d].eof
              /\ d # cur.c => conn'[d].unread = conn[d].unread
              /\ "data" \in Range(conn'[d].inbox) => "data" \in Range(conn[d].inbox)
    PROVE  IInv'
<1>. USE DEF IInv
<1>1. \A d \in Structs : (Established(d)' <=> Established(d)) /\ conn[d].edges = {}
  BY DEF Established, Events, Turn
<1>2. \A e \in Range(batch) : e.c # Listener => e.c \in Structs /\ e.c # cur.c
  BY EventOf DEF Events, Turn
<1>3. cur' \in [c : Structs \cup {None}, ev : SUBSET Edges] /\ (cur' = cur \/ cur' = NoEvent)
  BY NoEventIs DEF Onward, TypeOK
<1>4. TypeOK'
  BY <1>3 DEF TypeOK, NetType, Onward
<1>5. EventFresh' /\ OneEach'
  BY <1>1, <1>2 DEF Events, EventFresh, OneEach
<1>6. Turn'
  BY <1>1, <1>3 DEF Events, Turn, Onward
<1>7. Reading'
  BY <1>1, <1>2 DEF Events, Reading, Readable, Onward
<1>8. Room'
  <2>1. gate \in Structs /\ NoEvent.c # gate
    BY NoEventIs DEF TypeOK
  <2>2. Doomed' => Doomed
    BY <1>1, <1>3, <2>1 DEF Doomed
  <2>. QED
    BY <2>2 DEF Events, Room
<1>. QED
  BY <1>4, <1>5, <1>6, <1>7, <1>8 DEF Events

LEMMA LoopTouched ==
    ASSUME IInv, Quietly(conn'), Kept, UNCHANGED <<batch, backlog, sent>>,
           pc \in {"read", "packets", "write"}, Onward
    PROVE  IInv'
<1>. USE DEF IInv
<1>1. Net'
  <2>1. \A d \in Structs : conn'[d].edges # {} => Established(d)
    BY DEF Quietly, Net, Silent
  <2>2. conn' \in [Structs -> Connection] /\ \A d \in Structs : SameNet(d, conn')
    BY DEF Quietly
  <2>. QED
    BY <2>1, <2>2, NetTouched
<1>2. NetType'
  BY DEF Quietly, Kept, NetType, TypeOK
<1>. QED
  BY <1>1, <1>2, LoopKeeps DEF Quietly, SameNet, Kept

\* A step that deletes the connection being processed: a gate is doomed then, and
\* there is a structure for the connection that replaces it.
LEMMA LoopDeletes ==
    ASSUME IInv, pc \in {"read", "packets", "write"}, Established(cur.c),
           NEW cs, Touched(cur.c, cs), Delete(cur.c, cs), UNCHANGED <<batch, backlog, sent>>,
           conn[cur.c].role = "gate" => cs[cur.c].active \/ Doomed,
           \/ cur' = NoEvent /\ pc' = "next"
           \/ cur' = cur /\ pc' = "write"
    PROVE  IInv'
<1>. USE DEF IInv
<1>. DEFINE c == cur.c
<1>1. c \in Structs /\ \A e \in Range(batch) : e.c # c
  BY DEF Events, Turn
<1>2. made \in Nat /\ backlog \in Nat /\ MaxConns \in Nat
  BY ConnectionsAssumption DEF ConnectionsAssumption, TypeOK
<1>3. conn[c].role = "gate" => cs[c].active \/ made + backlog < MaxConns
  BY DEF Events, Room
<1>4. Net' /\ NetType' /\ Spared(c)
  BY <1>1, <1>2, <1>3, DeleteNet
<1>5. cs[c].active => made' = made
  BY <1>1 DEF Delete, Touched, SameNet, Established
<1>6. Events'
  BY <1>1, <1>3, <1>4, <1>5, DeleteEvents
<1>7. TypeOK'
  BY <1>4, NoEventIs DEF NetType, TypeOK
<1>. QED
  BY <1>4, <1>6, <1>7

\* What a step of the connection being processed may rely on.
LEMMA Processing ==
    ASSUME IInv, pc \in {"read", "packets", "write"}
    PROVE  /\ cur.c \in Structs /\ conn[cur.c] \in Connection /\ conn \in [Structs -> Connection]
           /\ pc # "write" => Established(cur.c)
           /\ conn[cur.c].role = "gate" /\ Established(cur.c) => cur.c = gate
           /\ gate \in Structs /\ servc \in Structs \cup {None}
           /\ Quietly(conn)
BY DEF IInv, Events, Turn, TypeOK, Net, GateOnly, Quietly, SameNet

LEMMA ReadDataStep ==
    ASSUME IInv, ReadData
    PROVE  IInv'
<1>. DEFINE c == cur.c
<1>1. pc = "read" /\ UNCHANGED <<batch, backlog, sent>>
  BY DEF ReadData
<1>2. /\ c \in Structs /\ conn[c] \in Connection /\ conn \in [Structs -> Connection]
      /\ Established(c) /\ (conn[c].role = "gate" => c = gate)
  BY <1>1, Processing
<1>3. CASE /\ conn' = [conn EXCEPT ![c].unread = FALSE]
           /\ pc' = "packets" /\ UNCHANGED cur /\ Kept
  <2>. DEFINE new == [conn[c] EXCEPT !.unread = FALSE]
  <2>1. /\ new \in Connection /\ new.status = conn[c].status /\ new.id = conn[c].id
        /\ new.authed = conn[c].authed /\ new.role = conn[c].role
        /\ new.edges = conn[c].edges /\ new.eof = conn[c].eof /\ new.inbox = conn[c].inbox
    BY <1>2 DEF Connection
  <2>2. conn' = [conn EXCEPT ![c] = new]
    BY <1>3
  <2>. HIDE DEF new
  <2>3. conn' \in [Structs -> Connection] /\ conn'[c] = new
        /\ \A d \in Structs \ {c} : conn'[d] = conn[d]
    BY <1>2, <2>1, <2>2
  <2>4. Quietly(conn')
    BY <2>1, <2>3 DEF Quietly, SameNet
  <2>. QED
    BY <1>1, <1>3, <2>4, LoopTouched DEF Onward
<1>4. CASE ~conn[c].unread /\ Delete(c, conn) /\ pc' = "next" /\ cur' = NoEvent
  <2>1. Touched(c, conn)
    BY <1>2 DEF Touched, SameNet
  <2>2. conn[c].eof
    BY <1>1, <1>4 DEF IInv, Events, Reading, Readable
  <2>3. conn[c].role = "gate" => Doomed
    BY <1>2, <2>2 DEF Doomed
  <2>. QED
    BY <1>1, <1>2, <1>4, <2>1, <2>3, LoopDeletes
<1>. QED
  BY <1>3, <1>4 DEF ReadData

LEMMA ReadEndStep ==
    ASSUME IInv, ReadEnd
    PROVE  IInv'
<1>1. /\ pc = "packets" /\ pc' = "write" /\ conn' = conn /\ Kept
      /\ UNCHANGED <<batch, cur, backlog, sent>>
  BY DEF ReadEnd
<1>2. Quietly(conn)
  BY <1>1, Processing
<1>3. Quietly(conn')
  BY <1>1, <1>2
<1>. QED
  BY <1>1, <1>3, LoopTouched DEF Onward

LEMMA WriteStep ==
    ASSUME IInv, Write
    PROVE  IInv'
<1>. DEFINE c == cur.c
<1>1. /\ pc = "write" /\ UNCHANGED <<batch, backlog, sent>> /\ pc' = "next" /\ cur' = NoEvent
  BY DEF Write
<1>2. /\ c \in Structs /\ conn[c] \in Connection /\ conn \in [Structs -> Connection]
      /\ (conn[c].role = "gate" /\ Established(c) => c = gate) /\ Quietly(conn)
  BY <1>1, Processing
<1>3. PICK n \in Nat :
         LET cs == [conn EXCEPT ![c].queue = n]
         IN  \/ "hup" \in cur.ev /\ Delete(c, cs)
             \/ "hup" \notin cur.ev /\ conn' = cs /\ Kept
  <2>1. \A n \in IF "write" \in cur.ev THEN 0 .. conn[c].queue ELSE {conn[c].queue} : n \in Nat
    BY <1>2 DEF Connection
  <2>. QED
    BY <2>1 DEF Write
<1>. DEFINE cs == [conn EXCEPT ![c].queue = n]
<1>4. Quietly(cs)
  BY <1>2, QuietlyQueued
<1>5. Touched(c, cs)
  BY <1>2, <1>4 DEF Touched, Quietly
<1>6. cs[c].status = conn[c].status
  BY <1>5 DEF Touched, SameNet
<1>7. ("hup" \in cur.ev /\ Delete(c, cs)) \/ (conn' = cs /\ Kept)
  BY <1>3
<1>. HIDE DEF cs
<1>8. CASE conn' = cs /\ Kept
  BY <1>1, <1>4, <1>8, LoopTouched DEF Onward
<1>9. CASE "hup" \in cur.ev /\ Delete(c, cs) /\ Established(c)
  <2>1. conn[c].role = "gate" => Doomed
    BY <1>2, <1>9 DEF Doomed
  <2>. QED
    BY <1>1, <1>5, <1>9, <2>1, LoopDeletes
<1>10. CASE Delete(c, cs) /\ ~Established(c)
  <2>1. conn' = cs /\ Kept
    BY <1>2, <1>6, <1>10 DEF Delete, Kept, Established, Connection
  <2>. QED
    BY <1>8, <2>1
<1>. QED
  BY <1>7, <1>8, <1>9, <1>10

\* The oldest unauthed connection is not the gate's.
LEMMA SweepStep ==
    ASSUME IInv, Sweep
    PROVE  IInv'
<1>. USE DEF IInv
<1>1. pc = "sweep" /\ UNCHANGED <<batch, cur, backlog, sent>> /\ batch = <<>> /\ cur = NoEvent
  BY DEF Sweep, Events, Turn
<1>2. \A e \in Range(batch) : FALSE
  BY <1>1 DEF Range
<1>3. CASE unauthed # <<>> /\ Delete(Head(unauthed), conn) /\ UNCHANGED pc
  <2>. DEFINE c == Head(unauthed)
  <2>1. c \in Range(unauthed) /\ c \in Structs
    BY <1>3, Popped DEF TypeOK, Net, UnauthedSound
  <2>2. Established(c) /\ conn[c].role # "gate"
    BY <2>1 DEF Net, UnauthedSound, GateOnly
  <2>3. Touched(c, conn)
    BY <2>1 DEF Touched, SameNet, TypeOK
  <2>4. Net' /\ NetType' /\ Spared(c)
    BY <1>3, <2>1, <2>2, <2>3, DeleteNet
  <2>5. Events'
    BY <1>1, <1>2, <1>3, <2>1, <2>2, <2>4, DeleteEvents
  <2>6. TypeOK'
    BY <1>1, <1>3, <2>4, NoEventIs DEF NetType, TypeOK
  <2>. QED
    BY <2>4, <2>5, <2>6
<1>4. CASE pc' = "wait" /\ UNCHANGED conn /\ Kept
  <2>1. Net'
    BY <1>4, NetTouched DEF SameNet, TypeOK, Net, Silent
  <2>2. TypeOK'
    BY <1>1, <1>4 DEF TypeOK, Kept
  <2>3. Events'
    BY <1>1, <1>2, <1>4 DEF Events, EventFresh, OneEach, Turn, Reading, Readable,
                            Room, Doomed, Established, Kept
  <2>. QED
    BY <2>1, <2>2, <2>3
<1>. QED
  BY <1>3, <1>4 DEF Sweep

LEMMA FreshIs ==
    ASSUME NEW i \in 0 .. MaxConns
    PROVE  /\ Fresh(i) \in Connection /\ Fresh(i).status = "established"
           /\ Fresh(i).id = i /\ Fresh(i).role = "none" /\ ~Fresh(i).authed
           /\ Fresh(i).edges = {}
<1>1. <<>> \in Seq(Kinds) /\ 0 \in 0 .. AuthTimeout
  BY ConnectionsAssumption, EmptySeq DEF ConnectionsAssumption
<1>. QED
  BY <1>1 DEF Fresh, Unused, Connection

\* There is a structure for each connection that waits to be accepted.
LEMMA AcceptStep ==
    ASSUME IInv, Accept
    PROVE  IInv'
<1>. USE DEF IInv
<1>1. /\ pc = "accept" /\ cur = NoEvent /\ \A d \in Structs : conn[d].edges = {}
      /\ UNCHANGED <<gate, servc, batch, cur, sent, told, closed, quiet>>
  BY DEF Accept, Events, Turn
<1>2. made \in Nat /\ backlog \in Nat /\ MaxConns \in Nat /\ gate \in Structs
  BY ConnectionsAssumption DEF ConnectionsAssumption, TypeOK
<1>3. CASE pc' = "next" /\ UNCHANGED <<conn, free, unauthed, backlog, made>>
  <2>1. Net'
    BY <1>1, <1>3, NetTouched DEF SameNet, TypeOK, Kept
  <2>2. TypeOK'
    BY <1>1, <1>3 DEF TypeOK
  <2>3. EventFresh' /\ OneEach' /\ Turn' /\ Reading' /\ Room'
    BY <1>1, <1>3 DEF Events, EventFresh, OneEach, Turn, Reading, Readable,
                      Room, Doomed, Established
  <2>. QED
    BY <2>1, <2>2, <2>3 DEF Events
<1>4. CASE /\ backlog > 0 /\ backlog' = backlog - 1 /\ made' = made + 1
           /\ conn' = [conn EXCEPT ![free[1]] = Fresh(made + 1)]
           /\ unauthed' = Append(unauthed, free[1]) /\ free' = Tail(free)
           /\ UNCHANGED pc
  <2>. USE DEF Net
  <2>. DEFINE n == free[1]
              new == Fresh(made + 1)
  <2>1. made < MaxConns /\ made + 1 \in 0 .. MaxConns
    BY <1>2, <1>4 DEF Events, Room
  <2>2. free # <<>>
    BY <2>1, OneIsFree
  <2>3. /\ free' \in Seq(Structs) /\ IsInjective(free') /\ n \in Structs
        /\ n \in Range(free) /\ Range(free') = Range(free) \ {n}
    BY <1>4, <2>2, Popped DEF TypeOK, FreeSound
  <2>4. ~Established(n) /\ n \notin Range(unauthed)
    BY <2>3 DEF FreeSound, UnauthedSound
  <2>5. /\ unauthed' \in Seq(Structs) /\ IsInjective(unauthed')
        /\ Range(unauthed') = Range(unauthed) \cup {n}
    BY <1>4, <2>3, <2>4, Appended DEF TypeOK, UnauthedSound
  <2>6. /\ new \in Connection /\ new.status = "established" /\ new.id = made + 1
        /\ new.role = "none" /\ ~new.authed /\ new.edges = {}
    BY <2>1, FreshIs
  <2>7. conn' = [conn EXCEPT ![n] = new]
    BY <1>4
  <2>. HIDE DEF n, new
  <2>8. /\ conn' \in [Structs -> Connection] /\ conn'[n] = new
        /\ \A d \in Structs \ {n} : conn'[d] = conn[d]
    BY <2>3, <2>6, <2>7 DEF TypeOK
  <2>9. \A d \in Structs : Established(d)' <=> Established(d) \/ d = n
    BY <2>6, <2>8 DEF Established
  <2>10. FreeSound' /\ UnauthedSound' /\ GateOnly' /\ Silent'
    <3>1. FreeSound'
      BY <2>3, <2>4, <2>9 DEF FreeSound
    <3>2. UnauthedSound'
      BY <2>4, <2>5, <2>6, <2>8, <2>9 DEF UnauthedSound
    <3>3. GateOnly'
      BY <1>1, <2>6, <2>8, <2>9 DEF GateOnly
    <3>4. Silent'
      BY <2>6, <2>8, <2>9 DEF Silent
    <3>. QED
      BY <3>1, <3>2, <3>3, <3>4
  <2>11. Past' /\ ToldOnce'
    <3>1. 1 .. made \subseteq 1 .. made'
      BY <1>2, <1>4
    <3>. QED
      BY <1>1, <3>1 DEF Past, ToldOnce
  <2>12. Owned'
    <3>1. \A d \in Structs \ {n} : Established(d)' =>
             /\ conn'[d].id = conn[d].id /\ conn[d].id \in 1 .. made /\ conn[d].id \notin closed
      BY <2>8, <2>9 DEF Owned
    <3>2. conn'[n].id = made + 1 /\ made' = made + 1 /\ made + 1 \notin closed'
      BY <1>1, <1>2, <1>4, <2>6, <2>8 DEF Past
    <3>3. \A d \in Structs : Established(d)' => conn'[d].id \in (1 .. made') \ closed'
      BY <1>1, <1>2, <3>1, <3>2
    <3>4. ASSUME NEW d \in Structs, NEW e \in Structs,
                 Established(d)', Established(e)', conn'[d].id = conn'[e].id
          PROVE  d = e
      <4>1. CASE d # n /\ e # n
        BY <2>9, <3>1, <3>4, <4>1 DEF Owned
      <4>2. CASE d = n \/ e = n
        BY <1>2, <3>1, <3>2, <3>4, <4>2
      <4>. QED
        BY <4>1, <4>2
    <3>. QED
      BY <3>3, <3>4 DEF Owned
  <2>13. PointersLive'
    BY <1>1, <2>4, <2>8, <2>9 DEF PointersLive, TypeOK
  <2>14. TypeOK'
    <3>1. backlog' \in 0 .. MaxConns /\ made' \in 0 .. MaxConns
      BY <1>2, <1>4, <2>1 DEF TypeOK
    <3>. QED
      BY <1>1, <1>4, <2>3, <2>5, <2>8, <3>1 DEF TypeOK
  <2>15. \A e \in Range(batch) : e.c # Listener =>
            e.c \in Structs /\ Established(e.c) /\ e.c # n /\ conn'[e.c] = conn[e.c]
    BY <2>4, <2>8, EventOf DEF Events, EventFresh
  <2>16. EventFresh' /\ OneEach' /\ Reading'
    BY <1>1, <1>4, <2>6, <2>8, <2>9, <2>15 DEF Events, EventFresh, OneEach, Reading, Readable
  <2>17. Turn'
    BY <1>1, <1>4, <2>6, <2>8 DEF Turn
  <2>18. Room'
    <3>1. Doomed' => gate # n
      BY <1>1, <2>6, <2>8 DEF Doomed
    <3>2. Doomed' => Doomed
      BY <1>1, <1>2, <2>8, <3>1 DEF Doomed, Established
    <3>3. made' + backlog' = made + backlog
      BY <1>2, <1>4
    <3>. QED
      BY <3>2, <3>3 DEF Events, Room
  <2>. QED
    BY <2>10, <2>11, <2>12, <2>13, <2>14, <2>16, <2>17, <2>18 DEF Events
<1>. QED
  BY <1>3, <1>4 DEF Accept

-----------------------------------------------------------------------------
\* A packet.

\* A server registers on a connection that had no role.
LEMMA ServRegStep ==
    ASSUME IInv, pc = "packets", NEW cs, Quietly(cs), conn[cur.c].role = "none",
           ServReg(cur.c, cs), UNCHANGED <<pc, cur, batch, backlog, sent>>
    PROVE  IInv'
<1>. USE DEF IInv
<1>. DEFINE c == cur.c
<1>1. c \in Structs /\ Established(c) /\ servc \in Structs \cup {None} /\ gate \in Structs
  BY Processing
<1>2. PICK before \in IF servc = None THEN {cs} ELSE Sent(servc, cs) :
         conn' \in Sent(c, [before EXCEPT ![c].authed = TRUE, ![c].age = 0, ![c].role = "serv"])
  BY DEF ServReg
<1>3. Quietly(before)
  BY <1>1, <1>2, QuietlySent
<1>. DEFINE reg == [before EXCEPT ![c].authed = TRUE, ![c].age = 0, ![c].role = "serv"]
<1>4. before[c] \in Connection /\ before \in [Structs -> Connection]
  BY <1>1, <1>3 DEF Quietly
<1>5. /\ reg \in [Structs -> Connection] /\ reg[c].queue \in Nat
      /\ \A d \in Structs \ {c} : reg[d] = before[d]
      /\ reg[c].status = before[c].status /\ reg[c].id = before[c].id
      /\ reg[c].authed /\ reg[c].role = "serv"
      /\ reg[c].edges = before[c].edges /\ reg[c].eof = before[c].eof
      /\ reg[c].inbox = before[c].inbox
  <2>. DEFINE new == [before[c] EXCEPT !.authed = TRUE, !.age = 0, !.role = "serv"]
  <2>1. 0 \in 0 .. AuthTimeout
    BY ConnectionsAssumption DEF ConnectionsAssumption
  <2>2. /\ new \in Connection /\ new.queue \in Nat
        /\ new.status = before[c].status /\ new.id = before[c].id
        /\ new.authed /\ new.role = "serv" /\ new.edges = before[c].edges
        /\ new.eof = before[c].eof /\ new.inbox = before[c].inbox
    BY <1>4, <2>1 DEF Connection
  <2>3. reg = [before EXCEPT ![c] = new]
    BY <1>1, <1>4 DEF Connection
  <2>. HIDE DEF reg, new
  <2>. QED
    BY <1>1, <1>4, <2>2, <2>3
<1>. HIDE DEF reg
<1>6. conn' = reg \/ \E n \in Nat : conn' = [reg EXCEPT ![c].queue = n]
  <2>1. \A n \in 0 .. reg[c].queue + 1 : n \in Nat
    BY <1>5
  <2>. QED
    BY <1>2, <2>1 DEF Sent, reg
<1>7. /\ conn' \in [Structs -> Connection]
      /\ \A d \in Structs \ {c} : conn'[d] = before[d]
      /\ conn'[c].status = before[c].status /\ conn'[c].id = before[c].id
      /\ conn'[c].authed /\ conn'[c].role = "serv"
      /\ conn'[c].edges = before[c].edges /\ conn'[c].eof = before[c].eof
      /\ conn'[c].inbox = before[c].inbox
  <2>1. CASE conn' = reg
    BY <1>5, <2>1
  <2>2. CASE \E n \in Nat : conn' = [reg EXCEPT ![c].queue = n]
    <3>. PICK n \in Nat : conn' = [reg EXCEPT ![c].queue = n]
      BY <2>2
    <3>. DEFINE new == [reg[c] EXCEPT !.queue = n]
    <3>0. reg[c] \in Connection
      BY <1>1, <1>5
    <3>1. /\ new \in Connection
          /\ new.status = reg[c].status /\ new.id = reg[c].id
          /\ new.authed = reg[c].authed /\ new.role = reg[c].role
          /\ new.edges = reg[c].edges /\ new.eof = reg[c].eof /\ new.inbox = reg[c].inbox
      BY <3>0 DEF Connection
    <3>2. conn' = [reg EXCEPT ![c] = new]
      BY <2>2
    <3>. HIDE DEF new
    <3>3. /\ conn' \in [Structs -> Connection] /\ conn'[c] = new
          /\ \A d \in Structs \ {c} : conn'[d] = reg[d]
      BY <1>1, <1>5, <3>1, <3>2
    <3>. QED
      BY <1>5, <3>1, <3>3
  <2>. QED
    BY <1>6, <2>1, <2>2
<1>8. ASSUME NEW d \in Structs
      PROVE  /\ conn'[d].status = conn[d].status /\ conn'[d].id = conn[d].id
             /\ conn'[d].edges = conn[d].edges /\ conn'[d].eof = conn[d].eof
             /\ d # c => /\ conn'[d].authed = conn[d].authed /\ conn'[d].role = conn[d].role
                         /\ conn'[d].unread = conn[d].unread
             /\ "data" \in Range(conn'[d].inbox) => "data" \in Range(conn[d].inbox)
  <2>1. CASE d = c
    BY <1>3, <1>7, <2>1 DEF Quietly, SameNet
  <2>2. CASE d # c
    BY <1>3, <1>7, <2>2 DEF Quietly, SameNet
  <2>. QED
    BY <2>1, <2>2
<1>9. \A d \in Structs : Established(d)' <=> Established(d)
  BY <1>8 DEF Established
<1>10. /\ servc' = c /\ UNCHANGED <<free, gate, made, told, closed, quiet>>
       /\ unauthed' \in Seq(Structs) /\ IsInjective(unauthed')
       /\ Range(unauthed') = Range(unauthed) \ {c}
  BY UnlinkedFrom DEF ServReg, TypeOK, Net, UnauthedSound
<1>. USE DEF Net
<1>11. FreeSound' /\ ToldOnce' /\ Past' /\ Owned' /\ Silent'
  BY <1>8, <1>9, <1>10 DEF FreeSound, ToldOnce, Past, Owned, Silent
<1>12. UnauthedSound'
  BY <1>1, <1>7, <1>8, <1>9, <1>10 DEF UnauthedSound
<1>13. GateOnly'
  BY <1>7, <1>8, <1>9, <1>10 DEF GateOnly
<1>14. PointersLive'
  BY <1>1, <1>7, <1>8, <1>9, <1>10 DEF PointersLive
<1>15. NetType'
  BY <1>1, <1>7, <1>10 DEF NetType, TypeOK
<1>. QED
  BY <1>7, <1>8, <1>10, <1>11, <1>12, <1>13, <1>14, <1>15, LoopKeeps DEF Onward

LEMMA ReadPacketStep ==
    ASSUME IInv, ReadPacket
    PROVE  IInv'
<1>. DEFINE c == cur.c
            q == conn[c].inbox
            k == Head(q)
            cs == [conn EXCEPT ![c].inbox = Tail(@)]
            role == conn[c].role
<1>1. pc = "packets" /\ q # <<>> /\ UNCHANGED <<batch, backlog, sent>>
  BY DEF ReadPacket
<1>2. /\ c \in Structs /\ conn[c] \in Connection /\ conn \in [Structs -> Connection]
      /\ Established(c) /\ (role = "gate" => c = gate) /\ gate \in Structs
  BY <1>1, Processing
<1>3. q \in Seq(Kinds)
  BY <1>2 DEF Connection
<1>4. Tail(q) \in Seq(Kinds) /\ k \in Range(q) /\ \A m \in Range(Tail(q)) : m \in Range(q)
  <2>. HIDE DEF q
  <2>. DEFINE t == Tail(q)
  <2>1. /\ t \in Seq(Kinds) /\ Len(t) = Len(q) - 1 /\ Len(q) \in Nat /\ Len(q) > 0
        /\ \A i \in 1 .. Len(t) : t[i] = q[i + 1]
    BY <1>1, <1>3, HeadTailProperties, EmptySeq, LenProperties
  <2>2. k \in Range(q)
    BY <1>3, <2>1 DEF Range
  <2>. HIDE DEF t
  <2>3. \A m \in Range(t) : m \in Range(q)
    BY <1>3, <2>1 DEF Range
  <2>. QED
    BY <2>1, <2>2, <2>3 DEF t
<1>5. Quietly(cs) /\ Touched(c, cs)
  <2>. DEFINE new == [conn[c] EXCEPT !.inbox = Tail(@)]
  <2>1. /\ new \in Connection /\ new.status = conn[c].status /\ new.id = conn[c].id
        /\ new.authed = conn[c].authed /\ new.role = conn[c].role
        /\ new.edges = conn[c].edges /\ new.eof = conn[c].eof /\ new.inbox = Tail(q)
        /\ new.unread = conn[c].unread
    BY <1>2, <1>4 DEF Connection
  <2>2. cs = [conn EXCEPT ![c] = new]
    BY <1>2
  <2>. HIDE DEF new, cs
  <2>3. cs \in [Structs -> Connection] /\ cs[c] = new
        /\ \A d \in Structs \ {c} : cs[d] = conn[d]
    BY <1>2, <2>1, <2>2
  <2>. HIDE DEF q
  <2>4. "data" \in Range(cs[c].inbox) => "data" \in Range(conn[c].inbox)
    BY <1>4, <2>1, <2>3 DEF q
  <2>5. SameNet(c, cs) /\ \A d \in Structs \ {c} : SameNet(d, cs)
    BY <2>1, <2>3 DEF SameNet
  <2>. QED
    BY <2>1, <2>3, <2>4, <2>5 DEF Quietly, Touched
<1>. HIDE DEF cs
<1>6. CASE Close(c, cs) /\ pc' = "write" /\ UNCHANGED cur
  <2>1. PICK n \in 0 .. cs[c].queue :
           LET left == [cs EXCEPT ![c].queue = n, ![c].active = TRUE]
           IN  \/ n = 0 /\ Delete(c, left)
               \/ n > 0 /\ conn' = left /\ Kept
    BY <1>6 DEF Close
  <2>. DEFINE queued == [cs EXCEPT ![c].queue = n]
              left == [cs EXCEPT ![c].queue = n, ![c].active = TRUE]
  <2>2. n \in Nat
    BY <1>2, <1>5 DEF Quietly, Connection
  <2>3. Quietly(queued)
    BY <1>2, <1>5, <2>2, QuietlyQueued
  <2>4. queued \in [Structs -> Connection] /\ queued[c] \in Connection
    BY <1>2, <2>3 DEF Quietly
  <2>. DEFINE new == [queued[c] EXCEPT !.active = TRUE]
  <2>5. /\ new \in Connection /\ new.active
        /\ new.status = queued[c].status /\ new.id = queued[c].id
        /\ new.authed = queued[c].authed /\ new.role = queued[c].role
        /\ new.edges = queued[c].edges /\ new.eof = queued[c].eof
        /\ new.inbox = queued[c].inbox /\ new.unread = queued[c].unread
    BY <2>4 DEF Connection
  <2>6. left = [queued EXCEPT ![c] = new]
    OBVIOUS
  <2>7. \A d \in Structs \ {c} : queued[d] = conn[d]
    BY <1>2, <1>5 DEF Touched
  <2>8. (Delete(c, left)) \/ (conn' = left /\ Kept)
    BY <2>1
  <2>. HIDE DEF left, queued, new
  <2>9. /\ left \in [Structs -> Connection] /\ left[c] = new
        /\ \A d \in Structs \ {c} : left[d] = queued[d]
    BY <1>2, <2>4, <2>5, <2>6
  <2>10. Quietly(left)
    <3>1. \A d \in Structs \ {c} :
             /\ SameNet(d, left) /\ left[d].edges = conn[d].edges /\ left[d].eof = conn[d].eof
             /\ left[d].unread = conn[d].unread /\ left[d].inbox = conn[d].inbox
      BY <2>7, <2>9 DEF SameNet
    <3>2. /\ SameNet(c, left) /\ left[c].edges = conn[c].edges /\ left[c].eof = conn[c].eof
          /\ "data" \in Range(left[c].inbox) => "data" \in Range(conn[c].inbox)
      BY <1>2, <2>3, <2>5, <2>9 DEF Quietly, SameNet
    <3>. QED
      BY <2>9, <3>1, <3>2 DEF Quietly
  <2>11. Touched(c, left) /\ left[c].active
    BY <1>2, <2>5, <2>7, <2>9, <2>10 DEF Touched, Quietly
  <2>12. CASE Delete(c, left)
    BY <1>1, <1>2, <1>6, <2>11, <2>12, LoopDeletes
  <2>13. CASE conn' = left /\ Kept
    BY <1>1, <1>6, <2>10, <2>13, LoopTouched DEF Onward
  <2>. QED
    BY <2>8, <2>12, <2>13
<1>7. CASE k = "reg" /\ role = "none" /\ ServReg(c, cs) /\ UNCHANGED <<pc, cur>>
  BY <1>1, <1>5, <1>7, ServRegStep
<1>8. CASE conn' \in Sent(gate, cs) /\ Kept /\ UNCHANGED <<pc, cur>>
  <2>1. Quietly(conn')
    BY <1>2, <1>5, <1>8, QuietlySent
  <2>. QED
    BY <1>1, <1>8, <2>1, LoopTouched DEF Onward
<1>9. CASE conn' = cs /\ Kept /\ UNCHANGED <<pc, cur>>
  BY <1>1, <1>5, <1>9, LoopTouched DEF Onward
<1>10. CASE /\ \/ k = "data" /\ role = "gate"
               \/ k = "data" /\ role = "serv" /\ servc = None
               \/ k = "reg" /\ role = "none"
            /\ Delete(c, cs) /\ pc' = "next" /\ cur' = NoEvent
  <2>1. role = "gate" => Doomed
    BY <1>2, <1>4, <1>10 DEF Doomed
  <2>. QED
    BY <1>1, <1>2, <1>5, <1>10, <2>1, LoopDeletes
<1>. QED
  BY <1>6, <1>7, <1>8, <1>9, <1>10 DEF ReadPacket, cs

-----------------------------------------------------------------------------
\* The whole specification.

\* The array g_Conn has each structure once.
LEMMA PoolIs ==
    /\ Pool \in Seq(Structs) /\ IsInjective(Pool) /\ Range(Pool) = Structs /\ Pool # <<>>
    /\ 1 \in 0 .. MaxConns
<1>. DEFINE n == Cardinality(Structs)
<1>1. /\ IsFiniteSet(Structs) /\ n \in Nat /\ n >= 1 /\ ExistsBijection(1 .. n, Structs)
      /\ 1 \in 0 .. MaxConns
  BY ConnectionsAssumption, FS_CardinalityType DEF ConnectionsAssumption
<1>. HIDE DEF n
<1>2. SetToSeqs(Structs) = {f \in [1 .. n -> Structs] : \A i, j \in 1 .. n : i # j => f[i] # f[j]}
  BY DEF SetToSeqs, n
<1>3. \E order : order \in SetToSeqs(Structs)
  <2>1. PICK f : f \in Bijection(1 .. n, Structs)
    BY <1>1 DEF ExistsBijection
  <2>2. f \in SetToSeqs(Structs)
    BY <1>2, <2>1 DEF Bijection, Injection, IsInjective
  <2>. QED
    BY <2>2
<1>4. Pool \in SetToSeqs(Structs)
  BY <1>3 DEF Pool
<1>5. Pool \in [1 .. n -> Structs] /\ \A i, j \in 1 .. n : i # j => Pool[i] # Pool[j]
  BY <1>2, <1>4
<1>6. Pool \in Seq(Structs) /\ Len(Pool) = n
  BY <1>1, <1>5, SeqDef
<1>7. IsInjective(Pool)
  BY <1>5 DEF IsInjective
<1>8. Range(Pool) = Structs
  <2>1. Pool \in Injection(1 .. n, Structs)
    BY <1>5, <1>7 DEF Injection
  <2>2. Cardinality(1 .. n) = Cardinality(Structs)
    BY <1>1, FS_Interval DEF n
  <2>3. Pool \in Surjection(1 .. n, Structs)
    BY <1>1, <2>1, <2>2, FS_Injection
  <2>. QED
    BY <1>5, <2>3 DEF Surjection, Range
<1>9. Pool # <<>>
  BY <1>1, <1>6
<1>. QED
  BY <1>1, <1>6, <1>7, <1>8, <1>9

LEMMA InitIInv == Init => IInv
<1>. SUFFICES ASSUME Init PROVE IInv
  OBVIOUS
<1>. DEFINE g == Pool[1]
            new == GateConn(1)
<1>1. /\ free \in Seq(Structs) /\ IsInjective(free) /\ g \in Structs
      /\ Range(free) = Structs \ {g} /\ gate = g
  BY PoolIs, Popped DEF Init
<1>2. /\ new \in Connection /\ new.status = "established" /\ new.id = 1
      /\ new.role = "gate" /\ new.authed /\ new.edges = {} /\ ~new.eof /\ new.inbox = <<>>
  BY PoolIs, GateConnIs
<1>3. /\ Unused \in Connection /\ Unused.status = "closed" /\ Unused.role = "none"
      /\ Unused.edges = {}
  <2>1. <<>> \in Seq(Kinds) /\ 0 \in 0 .. AuthTimeout /\ 0 \in 0 .. MaxConns
    BY ConnectionsAssumption, EmptySeq DEF ConnectionsAssumption
  <2>. QED
    BY <2>1 DEF Unused, Connection
<1>4. conn = [c \in Structs |-> IF c = g THEN new ELSE Unused]
  BY PoolIs DEF Init
<1>. HIDE DEF g, new
<1>5. /\ unauthed = <<>> /\ servc = None /\ batch = <<>> /\ cur = NoEvent /\ pc = "wait"
      /\ backlog = 0 /\ made = 1 /\ sent = 0 /\ told = [i \in Ids |-> 0]
      /\ closed = {} /\ quiet = {}
  BY DEF Init
<1>6. Range(unauthed) = {} /\ IsInjective(unauthed) /\ \A e \in Range(batch) : FALSE
  BY <1>5 DEF Range, IsInjective
<1>7. \A c \in Structs : Established(c) <=> c = g
  BY <1>2, <1>3, <1>4 DEF Established
<1>8. TypeOK
  <2>1. conn \in [Structs -> Connection]
    BY <1>2, <1>3, <1>4
  <2>2. 0 \in 0 .. MaxPackets /\ 0 \in 0 .. MaxConns /\ 1 \in 0 .. MaxConns
    BY PoolIs, ConnectionsAssumption DEF ConnectionsAssumption
  <2>. QED
    BY <1>1, <1>5, <2>1, <2>2, NoEventIs DEF TypeOK
<1>9. FreeSound /\ Silent /\ GateOnly /\ Past
  BY <1>1, <1>2, <1>3, <1>4, <1>5, <1>7 DEF FreeSound, Silent, GateOnly, Past
<1>10. UnauthedSound
  BY <1>2, <1>4, <1>6, <1>7 DEF UnauthedSound
<1>11. Owned
  BY <1>1, <1>2, <1>4, <1>5, <1>7 DEF Owned
<1>12. ToldOnce
  BY <1>5 DEF ToldOnce
<1>13. PointersLive
  BY <1>1, <1>2, <1>4, <1>5, <1>7 DEF PointersLive
<1>14. EventFresh /\ OneEach
  BY <1>5, <1>6 DEF EventFresh, OneEach
<1>15. Turn
  BY <1>5 DEF Turn
<1>16. Reading
  BY <1>2, <1>3, <1>4, <1>5, <1>6 DEF Reading
<1>17. Room
  <2>1. ~Doomed
    <3>1. conn[gate] = new /\ Range(new.inbox) = {} /\ cur.c # gate
      BY <1>1, <1>2, <1>4, <1>5, NoEventIs DEF Range
    <3>. QED
      BY <1>2, <1>6, <3>1 DEF Doomed
  <2>2. 1 + 0 <= MaxConns
    BY PoolIs
  <2>. QED
    BY <1>5, <2>1, <2>2 DEF Room
<1>. QED
  BY <1>8, <1>9, <1>10, <1>11, <1>12, <1>13, <1>14, <1>15, <1>16, <1>17 DEF IInv, Net, Events

LEMMA NextIInv == IInv /\ [Next]_vars => IInv'
<1>. SUFFICES ASSUME IInv, [Next]_vars PROVE IInv'
  OBVIOUS
<1>1. CASE Loop
  BY <1>1, PollStep, NextEventStep, AcceptStep, ReadDataStep, ReadPacketStep, ReadEndStep,
     WriteStep, SweepStep DEF Loop
<1>2. CASE Peers
  BY <1>2, PeersStep
<1>3. CASE Tick
  BY <1>3, TickStep
<1>4. CASE UNCHANGED vars
  <2>1. TypeOK'
    BY <1>4 DEF vars, TypeOK, IInv
  <2>2. FreeSound' /\ UnauthedSound' /\ ToldOnce' /\ PointersLive'
    BY <1>4 DEF vars, IInv, Net, FreeSound, UnauthedSound, ToldOnce, PointersLive, Established
  <2>3. Owned' /\ Past' /\ GateOnly' /\ Silent'
    BY <1>4 DEF vars, IInv, Net, Owned, Past, GateOnly, Silent, Established
  <2>4. EventFresh' /\ OneEach' /\ Turn' /\ Reading' /\ Room'
    BY <1>4 DEF vars, IInv, Events, EventFresh, OneEach, Turn, Reading, Readable, Room,
                Doomed, Established
  <2>. QED
    BY <2>1, <2>2, <2>3, <2>4 DEF IInv, Net, Events
<1>. QED
  BY <1>1, <1>2, <1>3, <1>4 DEF Next

\* The inductive invariant holds in every behaviour of the network layer, for any
\* pool that is as large as the bound on connections.
THEOREM ConnectionsInv == Spec => []IInv
BY InitIInv, NextIInv, PTL DEF Spec

\* Every variable keeps its type: in particular a free structure is there whenever
\* a connection is accepted or the gate is connected again (iconn_add), and the
\* gate pointer is to a structure.
THEOREM ConnectionsTypes == Spec => []TypeOK
<1>1. IInv => TypeOK
  BY DEF IInv
<1>. QED
  BY <1>1, ConnectionsInv, PTL

\* g_FreeConn holds the structures that are closed, each once, however connections
\* are closed: iconn_del frees none twice and loses none.
THEOREM ConnectionsFree == Spec => []FreeSound
<1>1. IInv => FreeSound
  BY DEF IInv, Net
<1>. QED
  BY <1>1, ConnectionsInv, PTL

\* The events that rbtNet_poll has still to handle are for the connections that
\* they came for: a structure is not used again before its event is handled.
THEOREM ConnectionsEvents == Spec => []EventFresh
<1>1. IInv => EventFresh
  BY DEF IInv, Events
<1>. QED
  BY <1>1, ConnectionsInv, PTL

\* conn_broken is called once for each connection that breaks and for no other.
THEOREM ConnectionsTold == Spec => []ToldOnce
<1>1. IInv => ToldOnce
  BY DEF IInv, Net
<1>. QED
  BY <1>1, ConnectionsInv, PTL

\* As long as rbtNet_close has closed nothing without a word, G(r)->gate and the c
\* of the logical server are open connections of the right kind.
THEOREM ConnectionsPointers == Spec => []PointersLive
<1>1. IInv => PointersLive
  BY DEF IInv, Net
<1>. QED
  BY <1>1, ConnectionsInv, PTL

\* The unauthed_list holds the open connections that are not authed, each once.
THEOREM ConnectionsUnauthed == Spec => []UnauthedSound
<1>1. IInv => UnauthedSound
  BY DEF IInv, Net
<1>. QED
  BY <1>1, ConnectionsInv, PTL

=============================================================================
