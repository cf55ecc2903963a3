----------------------------- MODULE MCSession -----------------------------
(***************************************************************************)
(* Session for the invariants: accounts, servers, zones and connections are *)
(* exchangeable there.                                                       *)
(***************************************************************************)
EXTENDS Session, TLC

Alike == Permutations(Accounts) \cup Permutations(Servers)
             \cup Permutations(Zones) \cup Permutations(Conns)

\* Behaviours go on with one account that has a Player, among all servers and
\* zones, or with several on one server that has one zone.
OneAccountOrOneServer ==
    \/ Cardinality({a \in Accounts : state[a] # "None"}) <= 1
    \/ /\ \E s \in Servers : \A c \in Conns : a2[c] \in {s, NoServ}
       /\ \E z \in Zones :
             /\ \A x \in Zones \ {z} : zserv[x] = NoServ
             /\ \A a \in Accounts : zone[a] \in {z, NoZone}

=============================================================================
