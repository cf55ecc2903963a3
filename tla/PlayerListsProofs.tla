------------------------- MODULE PlayerListsProofs -------------------------
(***************************************************************************)
(* Theorems about PlayerLists for any finite set of players and any servers, *)
(* groups and bounds: the player_lists, the cursor of a message in one of    *)
(* them, the count of messages, and then the groups: GroupsSound and          *)
(* GroupsImplemented.                                                         *)
(***************************************************************************)
EXTENDS PlayerLists, ListLemmas, FiniteSetTheorems

\* There are no more messages in the slots than were accepted.
CountedOnce == \A s \in Servers : nbroadcast[s] <= msgs

\* Unless it was late, a server has listed players of its own zones only: so that
\* the abort of a listed player looks at the cursor that may be on it.
OwnListed == \A s \in up \ late, a \in Players : a \in Range(plist[s]) => serv[a] = s

IInv == TypeOK /\ CountedOnce /\ OwnListed /\ ListSound /\ CursorListed /\ BusyIsCounted

LEMMA BeginsSound == Init => IInv
  <1> SUFFICES ASSUME Init PROVE IInv
    OBVIOUS
  <1>1. TypeOK
    BY PlayerListsAssumption DEF Init, TypeOK, NoGroups
  <1>2. CountedOnce /\ CursorListed /\ BusyIsCounted
    BY PlayerListsAssumption DEF Init, CountedOnce, CursorListed, BusyIsCounted
  <1>3. ListSound /\ OwnListed
    BY DEF Init, ListSound, OwnListed, IsInjective, Range
  <1> QED
    BY <1>1, <1>2, <1>3 DEF IInv

\* rbtF_player_leave_group keeps the types of the group fields.
LEMMA LeftType ==
    ASSUME TypeOK, NEW a \in Players
    PROVE /\ Left(a).gid \in [Players -> Gids \cup {NoGid}]
          /\ Left(a).next \in [Players -> Players \cup {Null}]
          /\ Left(a).head \in [Servers -> [Gids -> Players \cup {Null}]]
  <1> DEFINE g == gid[a]
             s == serv[a]
             unlinked == [b \in Players |-> IF b \in Members(s, g) /\ next[b] = a THEN next[a] ELSE next[b]]
  <1>1. s \in Servers /\ unlinked \in [Players -> Players \cup {Null}]
    BY DEF TypeOK
  <1>2. CASE s \in up /\ g # NoGid /\ head[s][g] # Null
    <2>1. Left(a) = [gid |-> [gid EXCEPT ![a] = NoGid], next |-> [unlinked EXCEPT ![a] = Null],
                     head |-> [head EXCEPT ![s][g] = IF @ = a THEN next[a] ELSE @]]
      BY <1>2 DEF Left
    <2> HIDE DEF unlinked, s, g
    <2>2. g \in Gids /\ next[a] \in Players \cup {Null}
      BY <1>2 DEF TypeOK, g
    <2> QED
      BY <1>1, <2>1, <2>2 DEF TypeOK
  <1>3. CASE ~(s \in up /\ g # NoGid /\ head[s][g] # Null)
    BY <1>3 DEF Left, TypeOK
  <1> QED
    BY <1>2, <1>3

\* The cursors are left alone, or those on a Player that is not live dangle.
CursorsKept ==
    \A s \in Servers :
        cursor'[s] = cursor[s] \/ cursor[s] \in {a \in Players : st[a] # "Live"}

\* What only changes groups, or bound, or the zone of a player that is not live.
LEMMA GroupsOnly ==
    ASSUME IInv, TypeOK', UNCHANGED <<up, late, plist, busy, nbroadcast, msgs>>, CursorsKept,
           \A a \in Players : (st'[a] = st[a] /\ serv'[a] = serv[a]) \/ st[a] # "Live"
    PROVE IInv'
  <1>1. CountedOnce' /\ BusyIsCounted'
    BY DEF IInv, CountedOnce, BusyIsCounted
  <1>2. \A s \in Servers : \A a \in Range(plist[s]) : a \in Players /\ st[a] = "Live"
    BY DEF IInv, TypeOK, ListSound, Range
  <1>3. ListSound' /\ OwnListed'
    BY <1>2 DEF IInv, TypeOK, ListSound, OwnListed
  <1>4. CursorListed'
    <2> SUFFICES ASSUME NEW t \in up \ late, busy[t]
                 PROVE cursor'[t] = End \/ cursor'[t] \in Range(plist[t])
      BY DEF CursorListed
    <2>1. t \in Servers /\ (cursor[t] = End \/ cursor[t] \in Range(plist[t]))
      BY DEF IInv, TypeOK, CursorListed
    <2>2. cursor[t] \notin {a \in Players : st[a] # "Live"}
      BY <1>2, <2>1, PlayerListsAssumption
    <2> QED
      BY <2>1, <2>2 DEF CursorsKept
  <1> QED
    BY <1>1, <1>3, <1>4 DEF IInv

LEMMA EnterGroupKeeps ==
    ASSUME IInv, NEW a \in Players, NEW g \in Gids, EnterGroup(a, g) PROVE IInv'
  <1> DEFINE from == IF gid[a] = NoGid THEN [gid |-> gid, next |-> next, head |-> head] ELSE Left(a)
  <1>1. /\ from.gid \in [Players -> Gids \cup {NoGid}]
        /\ from.next \in [Players -> Players \cup {Null}]
        /\ from.head \in [Servers -> [Gids -> Players \cup {Null}]]
    BY LeftType DEF IInv, TypeOK
  <1>2. /\ gid' = [from.gid EXCEPT ![a] = g]
        /\ next' = [from.next EXCEPT ![a] = from.head[serv[a]][g]]
        /\ head' = [from.head EXCEPT ![serv[a]][g] = a]
        /\ UNCHANGED <<st, serv, bound, up, late, plist, busy, cursor, nbroadcast, slot, due, msgs, regs>>
    BY DEF EnterGroup, SetGroup, listVars, msgVars
  <1> HIDE DEF from
  <1>3. TypeOK'
    BY <1>1, <1>2 DEF IInv, TypeOK
  <1> QED
    BY <1>2, <1>3, GroupsOnly DEF CursorsKept

LEMMA LeaveGroupKeeps ==
    ASSUME IInv, NEW a \in Players, NEW g \in Gids, LeaveGroup(a, g) PROVE IInv'
  <1>1. TypeOK'
    BY LeftType DEF LeaveGroup, SetGroup, listVars, msgVars, IInv, TypeOK
  <1> QED
    BY <1>1, GroupsOnly DEF LeaveGroup, listVars, msgVars, CursorsKept

LEMMA SessionKeeps ==
    ASSUME IInv, NEW a \in Players, NEW s \in Servers,
           Login(a, s) \/ LoginWhileSaving(a, s) \/ Destroy(a)
    PROVE IInv'
  <1>1. TypeOK'
    BY DEF Login, LoginWhileSaving, Destroy, Freed, listVars, groupVars, msgVars, IInv, TypeOK
  <1>2. CursorsKept
    BY DEF Login, LoginWhileSaving, Destroy, Freed, msgVars, CursorsKept
  <1> QED
    BY <1>1, <1>2, GroupsOnly
       DEF Login, LoginWhileSaving, Destroy, listVars, groupVars, msgVars, IInv, TypeOK

\* A player that is put before the others of a list.
LEMMA PutBefore ==
    ASSUME NEW old \in Seq(Players), IsInjective(old), NEW a \in Players, a \notin Range(old)
    PROVE LET list == <<a>> \o old
          IN  list \in Seq(Players) /\ IsInjective(list) /\ Range(list) = Range(old) \cup {a}
  <1> DEFINE list == <<a>> \o old
  <1>1. DOMAIN old = 1 .. Len(old) /\ Len(old) \in Nat
    OBVIOUS
  <1>2. /\ list \in Seq(Players) /\ Len(list) = Len(old) + 1
        /\ \A i \in 1 .. Len(old) + 1 : list[i] = IF i <= 1 THEN a ELSE old[i - 1]
    BY <1>1, ConcatProperties
  <1> HIDE DEF list
  <1>3. list[1] = a /\ \A i \in 1 .. Len(old) : list[i + 1] = old[i]
    BY <1>1, <1>2
  <1>4. IsInjective(list)
    <2>1. DOMAIN list = 1 .. Len(old) + 1
      BY <1>1, <1>2
    <2>2. \A i, j \in 1 .. Len(old) : old[i] # a /\ (old[i] = old[j] => i = j)
      BY <1>1 DEF IsInjective, Range
    <2>3. \A i, j \in 1 .. Len(old) + 1 : list[i] = list[j] => i = j
      BY <1>1, <1>2, <2>2
    <2> QED
      BY <2>1, <2>3 DEF IsInjective
  <1>5. Range(list) = Range(old) \cup {a}
    <2>1. DOMAIN list = 1 .. Len(old) + 1 /\ \A i \in 1 .. Len(old) : i + 1 \in DOMAIN list
      BY <1>1, <1>2
    <2>2. \A x \in Range(old) : x \in Range(list)
      BY <1>1, <1>3, <2>1 DEF Range
    <2>3. 1 \in DOMAIN list /\ a \in Range(list)
      BY <1>1, <1>3, <2>1 DEF Range
    <2>4. \A i \in DOMAIN list : i = 1 \/ (i - 1 \in DOMAIN old /\ list[i] = old[i - 1])
      BY <1>1, <1>2, <2>1
    <2>5. \A x \in Range(list) : x \in Range(old) \cup {a}
      BY <1>3, <2>4 DEF Range
    <2> QED
      BY <2>2, <2>3, <2>5
  <1> QED
    BY <1>2, <1>4, <1>5 DEF list

\* handle_buddy_bind puts a live player that nobody lists before the others of the
\* list of the server that sends it, which is late when it is not the player's.
LEMMA BindKeeps == ASSUME IInv, NEW a \in Players, NEW s \in Servers, Bind(a, s) PROVE IInv'
  <1>1. /\ s \in up /\ st[a] = "Live" /\ bound' = bound \cup {a}
        /\ plist \in [Servers -> Seq(Players)]
        /\ UNCHANGED <<st, serv, up, gid, next, head, busy, cursor, nbroadcast, slot, due, msgs, regs>>
    BY DEF Bind, groupVars, msgVars, IInv, TypeOK
  <1>2. CASE UNCHANGED <<plist, late>>
    <2>1. TypeOK'
      BY <1>1, <1>2 DEF IInv, TypeOK
    <2> QED
      BY <1>1, <1>2, <2>1, GroupsOnly DEF CursorsKept
  <1>3. CASE /\ ~IsListed(a)
             /\ plist' = [plist EXCEPT ![s] = <<a>> \o @]
             /\ late' = late \cup ({s} \ {serv[a]})
    <2>1. /\ <<a>> \o plist[s] \in Seq(Players) /\ IsInjective(<<a>> \o plist[s])
          /\ Range(<<a>> \o plist[s]) = Range(plist[s]) \cup {a}
      BY <1>1, <1>3, PutBefore DEF IInv, ListSound, IsListed
    <2>2. /\ plist'[s] \in Seq(Players) /\ IsInjective(plist'[s])
          /\ Range(plist'[s]) = Range(plist[s]) \cup {a}
      BY <1>1, <1>3, <2>1
    <2>3. \A t \in Servers \ {s} : plist'[t] = plist[t]
      BY <1>1, <1>3
    <2>4. TypeOK'
      <3>1. plist' \in [Servers -> Seq(Players)]
        BY <1>1, <1>3, <2>1
      <3>2. late' \in SUBSET Servers
        BY <1>3 DEF IInv, TypeOK
      <3> QED
        BY <1>1, <3>1, <3>2 DEF IInv, TypeOK
    <2>5. CountedOnce' /\ BusyIsCounted'
      BY <1>1 DEF IInv, CountedOnce, BusyIsCounted
    <2>6. \A t \in Servers : Range(plist[t]) \subseteq Range(plist'[t])
      BY <2>2, <2>3
    <2>7. CursorListed'
      BY <1>1, <1>3, <2>6 DEF IInv, TypeOK, CursorListed
    <2>8. ListSound'
      <3>1. \A t \in Servers : a \notin Range(plist[t])
        BY <1>3 DEF IsListed
      <3>2. \A t \in Servers : IsInjective(plist'[t])
        BY <2>2, <2>3 DEF IInv, ListSound
      <3>3. \A t \in Servers : \A b \in Range(plist'[t]) : (b = a /\ t = s) \/ (b \in Range(plist[t]) /\ b # a)
        BY <2>2, <2>3, <3>1
      <3>4. \A t \in Servers : \A b \in Range(plist'[t]) : st'[b] = "Live"
        BY <1>1, <3>3 DEF IInv, ListSound
      <3>5. \A t \in Servers : \A b \in Range(plist'[t]) : \A u \in Servers \ {t} : b \notin Range(plist'[u])
        BY <3>3 DEF IInv, ListSound
      <3> QED
        BY <3>2, <3>4, <3>5 DEF ListSound
    <2>9. OwnListed'
      BY <1>1, <1>3, <2>2, <2>3 DEF IInv, OwnListed
    <2> QED
      BY <2>4, <2>5, <2>7, <2>8, <2>9 DEF IInv
  <1> QED
    BY <1>2, <1>3 DEF Bind

\* rbtF_player_abort: a cursor on the player moves on before the list is unlinked,
\* and the lists of servers that were not late only have players of their zones.
LEMMA AbortKeeps ==
    ASSUME IInv, NEW a \in Players, Abort(a), UNCHANGED serv,
           st' \in [Players -> {"None", "Live", "Gone"}], \A b \in Players \ {a} : st'[b] = st[b]
    PROVE IInv'
  <1> DEFINE s == serv[a]
  <1>1. /\ cursor' = [cursor EXCEPT ![s] = IF s \in up /\ @ = a /\ a \in Range(plist[s]) THEN After(s, a) ELSE @]
        /\ plist' = [t \in Servers |-> Unlinked(plist[t], a)]
        /\ UNCHANGED <<up, late, busy, nbroadcast, slot, msgs, regs>>
        /\ due' = [t \in Servers |-> {d \in due[t] : d[2] # a}] /\ bound' = bound \ {a} /\ SetGroup(Left(a))
    BY DEF Abort
  <1>2. \A t \in Servers : /\ plist'[t] \in Seq(Players) /\ IsInjective(plist'[t])
                           /\ Range(plist'[t]) = Range(plist[t]) \ {a}
    BY <1>1, UnlinkedFrom DEF IInv, TypeOK, ListSound
  <1>3. ASSUME a \in Range(plist[s]), s \in Servers
        PROVE After(s, a) = End \/ After(s, a) \in Range(plist[s]) \ {a}
    <2> DEFINE old == plist[s]
               i == Place(old, a)
    <2>1. old \in Seq(Players) /\ IsInjective(old) /\ DOMAIN old = 1 .. Len(old) /\ Len(old) \in Nat
      BY <1>3 DEF IInv, TypeOK, ListSound
    <2>2. i \in 1 .. Len(old) /\ old[i] = a
      BY <1>3, <2>1, PlaceOf
    <2>3. After(s, a) = IF i = Len(old) THEN End ELSE old[i + 1]
      BY DEF After
    <2> HIDE DEF old, i
    <2>4. CASE i # Len(old)
      <3>2. old[i + 1] \in Range(old) \ {a}
        BY <2>1, <2>2, <2>4, PlaceBehind
      <3> QED
        BY <2>3, <2>4, <3>2 DEF old
    <2> QED
      BY <2>3, <2>4
  <1>4. TypeOK'
    <2>1. cursor' \in [Servers -> Players \cup {End, Dangling}]
      BY <1>1, <1>3 DEF IInv, TypeOK, Range
    <2>2. plist' \in [Servers -> Seq(Players)]
      BY <1>1, <1>2
    <2>3. /\ gid' \in [Players -> Gids \cup {NoGid}] /\ next' \in [Players -> Players \cup {Null}]
          /\ head' \in [Servers -> [Gids -> Players \cup {Null}]]
      BY <1>1, LeftType DEF SetGroup, IInv
    <2>4. due' \in [Servers -> SUBSET ((1 .. MaxMsgs) \X Players)]
      BY <1>1 DEF IInv, TypeOK
    <2> QED
      BY <1>1, <2>1, <2>2, <2>3, <2>4 DEF IInv, TypeOK
  <1>5. ListSound' /\ OwnListed'
    <2>1. \A t \in Servers : \A b \in Range(plist[t]) : b \in Players
      BY DEF IInv, TypeOK, Range
    <2>2. \A t \in Servers : \A b \in Range(plist'[t]) : b \in Range(plist[t]) /\ st'[b] = st[b]
      BY <1>2, <2>1
    <2>3. ListSound'
      BY <1>2, <2>2 DEF IInv, ListSound
    <2>4. OwnListed'
      BY <1>1, <2>2 DEF IInv, TypeOK, OwnListed
    <2> QED
      BY <2>3, <2>4
  <1>6. CursorListed'
    <2> SUFFICES ASSUME NEW t \in up \ late, busy[t]
                 PROVE cursor'[t] = End \/ cursor'[t] \in Range(plist'[t])
      BY <1>1 DEF CursorListed
    <2>1. t \in Servers /\ (cursor[t] = End \/ cursor[t] \in Range(plist[t]))
      BY DEF IInv, TypeOK, CursorListed
    <2>2. CASE cursor[t] # a
      <3>1. cursor'[t] = cursor[t]
        BY <1>1, <2>1, <2>2 DEF IInv, TypeOK
      <3> QED
        BY <1>2, <2>1, <2>2, <3>1
    <2>3. CASE cursor[t] = a
      <3>1. a \in Range(plist[t]) /\ t = s
        BY <2>1, <2>3, PlayerListsAssumption DEF IInv, OwnListed
      <3>2. cursor'[t] = After(s, a)
        BY <1>1, <2>1, <2>3, <3>1 DEF IInv, TypeOK
      <3> QED
        BY <1>2, <1>3, <2>1, <3>1, <3>2
    <2> QED
      BY <2>2, <2>3
  <1>7. CountedOnce' /\ BusyIsCounted'
    BY <1>1 DEF IInv, CountedOnce, BusyIsCounted
  <1> QED
    BY <1>4, <1>5, <1>6, <1>7 DEF IInv

LEMMA LeaveKeeps == ASSUME IInv, NEW a \in Players, Leave(a) \/ LeaveTwice(a) PROVE IInv'
  BY AbortKeeps DEF Leave, LeaveTwice, IInv, TypeOK

\* serv_reg allocates a new array of messages, and rbtF_conn_broken empties the list.
LEMMA RegisterKeeps == ASSUME IInv, NEW s \in Servers, Register(s) \/ Break(s) PROVE IInv'
  <1>0. /\ UNCHANGED <<st, serv>> /\ plist \in [Servers -> Seq(Players)]
        /\ \A t \in Servers : plist'[t] = plist[t] \/ plist'[t] = <<>>
    BY DEF Register, Break, IInv, TypeOK
  <1>1. ListSound'
    <2>1. \A t \in Servers : IsInjective(plist'[t]) /\ Range(plist'[t]) \subseteq Range(plist[t])
      <3> SUFFICES ASSUME NEW t \in Servers
                   PROVE IsInjective(plist'[t]) /\ Range(plist'[t]) \subseteq Range(plist[t])
        OBVIOUS
      <3>1. CASE plist'[t] = plist[t]
        BY <3>1 DEF IInv, ListSound
      <3>2. CASE plist'[t] = <<>>
        BY <3>2 DEF IsInjective, Range
      <3> QED
        BY <1>0, <3>1, <3>2
    <2>2. \A t \in Servers : \A b \in Range(plist'[t]) : b \in Range(plist[t])
      BY <2>1
    <2>3. \A t \in Servers : \A b \in Range(plist'[t]) : st'[b] = "Live"
      BY <1>0, <2>2 DEF IInv, ListSound
    <2>4. \A t \in Servers : \A b \in Range(plist'[t]) : \A u \in Servers \ {t} : b \notin Range(plist'[u])
      BY <2>2 DEF IInv, ListSound
    <2> QED
      BY <2>1, <2>3, <2>4 DEF ListSound
  <1>2. CASE Register(s)
    <2>1. TypeOK'
      <3>1. /\ head' \in [Servers -> [Gids -> Players \cup {Null}]]
            /\ plist' \in [Servers -> Seq(Players)] /\ late' \in SUBSET Servers
        <4>1. NoGroups \in [Gids -> Players \cup {Null}] /\ <<>> \in Seq(Players)
          BY DEF NoGroups
        <4>2. CASE UNCHANGED <<head, plist, late>>
          BY <4>2 DEF IInv, TypeOK
        <4>3. CASE /\ head' = [head EXCEPT ![s] = NoGroups]
                   /\ plist' = [plist EXCEPT ![s] = <<>>] /\ late' = late \ {s}
          BY <4>1, <4>3 DEF IInv, TypeOK
        <4> QED
          BY <1>2, <4>2, <4>3 DEF Register
      <3>2. /\ busy' \in [Servers -> BOOLEAN]
            /\ cursor' \in [Servers -> Players \cup {End, Dangling}]
            /\ due' \in [Servers -> SUBSET ((1 .. MaxMsgs) \X Players)]
        BY <1>2 DEF Register, FreshSlot, IInv, TypeOK
      <3>3. nbroadcast' \in [Servers -> 0 .. MaxMsgs]
        BY <1>2, PlayerListsAssumption DEF Register, FreshSlot, IInv, TypeOK
      <3> QED
        BY <1>2, <3>1, <3>2, <3>3 DEF Register, IInv, TypeOK
    <2>2. CountedOnce' /\ CursorListed' /\ BusyIsCounted'
      <3>1. /\ ~busy'[s] /\ nbroadcast'[s] = 0 /\ up' = up \cup {s} /\ UNCHANGED msgs
            /\ \A t \in Servers \ {s} : /\ busy'[t] = busy[t] /\ cursor'[t] = cursor[t]
                                        /\ nbroadcast'[t] = nbroadcast[t]
        BY <1>2 DEF Register, FreshSlot, IInv, TypeOK
      <3>2. \A t \in Servers \ {s} : plist'[t] = plist[t] /\ (t \in late' <=> t \in late)
        BY <1>2 DEF Register, IInv, TypeOK
      <3>3. CountedOnce'
        <4>1. 0 <= msgs /\ \A t \in Servers : nbroadcast[t] <= msgs
          BY PlayerListsAssumption DEF IInv, TypeOK, CountedOnce
        <4> QED
          BY <3>1, <4>1 DEF CountedOnce
      <3>5. BusyIsCounted'
        BY <3>1 DEF IInv, TypeOK, BusyIsCounted
      <3>4. CursorListed'
        BY <3>1, <3>2 DEF IInv, TypeOK, CursorListed
      <3> QED
        BY <3>3, <3>4, <3>5
    <2>3. OwnListed'
      <3>1. CASE s \in up
        <4>1. UNCHANGED <<up, late, plist, serv>>
          BY <1>2, <3>1 DEF Register, IInv, TypeOK
        <4> QED
          BY <4>1 DEF IInv, OwnListed
      <3>2. CASE s \notin up
        <4>1. Range(plist'[s]) = {}
          BY <1>2, <3>2 DEF Register, IInv, TypeOK, Range
        <4>2. \A t \in up \ late : t # s /\ plist'[t] = plist[t]
          BY <1>2, <3>2 DEF Register, IInv, TypeOK
        <4>3. up' \ late' = (up \ late) \cup {s} /\ UNCHANGED serv
          BY <1>2, <3>2 DEF Register, IInv, TypeOK
        <4> QED
          BY <4>1, <4>2, <4>3 DEF IInv, OwnListed
      <3> QED
        BY <3>1, <3>2
    <2> QED
      BY <1>1, <2>1, <2>2, <2>3 DEF IInv
  <1>3. CASE Break(s)
    <2>1. TypeOK'
      BY <1>3 DEF Break, NoGroups, IInv, TypeOK
    <2>2. CountedOnce' /\ CursorListed' /\ BusyIsCounted' /\ OwnListed'
      BY <1>3 DEF Break, IInv, TypeOK, CountedOnce, CursorListed, BusyIsCounted, OwnListed
    <2> QED
      BY <1>1, <2>1, <2>2 DEF IInv
  <1> QED
    BY <1>2, <1>3

LEMMA GlobalMessageKeeps == ASSUME IInv, NEW s \in Servers, GlobalMessage(s) PROVE IInv'
  <1>1. /\ s \in up /\ plist[s] \in Seq(Players) /\ plist[s] # <<>> /\ msgs < MaxMsgs /\ msgs' = msgs + 1
        /\ busy' = [busy EXCEPT ![s] = TRUE] /\ cursor' = [cursor EXCEPT ![s] = Head(plist[s])]
        /\ nbroadcast' = [nbroadcast EXCEPT ![s] = @ + 1] /\ slot' = [slot EXCEPT ![s] = msgs']
        /\ due' = [due EXCEPT ![s] = @ \cup ({msgs'} \X Range(plist[s]))]
        /\ UNCHANGED <<st, serv, bound, up, late, plist, gid, next, head, regs>>
    BY DEF GlobalMessage, groupVars, listVars, IInv, TypeOK
  <1>2. Head(plist[s]) \in Range(plist[s]) /\ Range(plist[s]) \subseteq Players
    BY <1>1, HeadTailProperties DEF Range
  <1>3. TypeOK'
    <2>1. nbroadcast[s] + 1 \in 0 .. MaxMsgs /\ msgs' \in 1 .. MaxMsgs
      BY <1>1, PlayerListsAssumption DEF IInv, TypeOK, CountedOnce
    <2>2. slot' \in [Servers -> 0 .. MaxMsgs]
      BY <1>1, <2>1 DEF IInv, TypeOK
    <2>3. due' \in [Servers -> SUBSET ((1 .. MaxMsgs) \X Players)]
      <3>1. {msgs'} \X Range(plist[s]) \in SUBSET ((1 .. MaxMsgs) \X Players)
        BY <1>2, <2>1
      <3> QED
        BY <1>1, <3>1, Zenon DEF IInv, TypeOK
    <2> QED
      BY <1>1, <1>2, <2>1, <2>2, <2>3 DEF IInv, TypeOK
  <1>4. CountedOnce'
    BY <1>1, PlayerListsAssumption DEF IInv, TypeOK, CountedOnce
  <1>5. CursorListed' /\ ListSound' /\ OwnListed'
    BY <1>1, <1>2 DEF IInv, TypeOK, CursorListed, ListSound, OwnListed
  <1>6. BusyIsCounted'
    BY <1>1, PlayerListsAssumption DEF IInv, TypeOK, BusyIsCounted
  <1> QED
    BY <1>3, <1>4, <1>5, <1>6 DEF IInv

\* broadcast_at counts a message down only when it looked at it, through whatever
\* memory its cursor leads it.
LEMMA ProcessKeeps == ASSUME IInv, Process PROVE IInv'
  <1>1. PICK read \in [Astray -> [heard : SUBSET Players, done : BOOLEAN]] :
            /\ due' = [s \in Servers |-> due[s] \ ({slot[s]} \X Sent(s, read).heard)]
            /\ busy' = [s \in Servers |-> busy[s] /\ ~Sent(s, read).done]
            /\ nbroadcast' = [s \in Servers |-> IF Counted(s, read) THEN nbroadcast[s] - 1
                                                                    ELSE nbroadcast[s]]
            /\ UNCHANGED <<st, serv, bound, up, late, plist, gid, next, head, cursor, slot, msgs, regs>>
    BY DEF Process, listVars, groupVars
  <1>2. \A s \in Servers : Counted(s, read) => nbroadcast[s] > 0
    BY DEF Counted, Sent, Astray, Finished, Sending
  <1>3. \A s \in Servers : nbroadcast'[s] \in 0 .. MaxMsgs /\ nbroadcast'[s] <= msgs
    BY <1>1, <1>2, PlayerListsAssumption DEF IInv, TypeOK, CountedOnce
  <1>4. TypeOK'
    <2>1. due' \in [Servers -> SUBSET ((1 .. MaxMsgs) \X Players)] /\ busy' \in [Servers -> BOOLEAN]
      BY <1>1, Zenon DEF IInv, TypeOK
    <2> QED
      BY <1>1, <1>3, <2>1 DEF IInv, TypeOK
  <1>5. CountedOnce'
    BY <1>1, <1>3 DEF CountedOnce
  <1>6. ListSound' /\ CursorListed' /\ OwnListed'
    BY <1>1 DEF IInv, TypeOK, ListSound, CursorListed, OwnListed
  <1>7. BusyIsCounted'
    BY <1>1 DEF Counted, IInv, TypeOK, BusyIsCounted
  <1> QED
    BY <1>4, <1>5, <1>6, <1>7 DEF IInv

LEMMA StepKeeps == IInv /\ [Next]_vars => IInv'
  <1> SUFFICES ASSUME IInv, [Next]_vars PROVE IInv'
    OBVIOUS
  <1>1. ASSUME NEW a \in Players, NEW g \in Gids, EnterGroup(a, g) \/ LeaveGroup(a, g) PROVE IInv'
    BY <1>1, EnterGroupKeeps, LeaveGroupKeeps
  <1>2. ASSUME NEW a \in Players, NEW s \in Servers, Login(a, s) \/ LoginWhileSaving(a, s) PROVE IInv'
    BY <1>2, SessionKeeps
  <1>3. ASSUME NEW a \in Players, NEW s \in Servers, Bind(a, s) PROVE IInv'
    BY <1>3, BindKeeps
  <1>4. ASSUME NEW a \in Players, Leave(a) \/ LeaveTwice(a) PROVE IInv'
    BY <1>4, LeaveKeeps
  <1>5. ASSUME NEW a \in Players, Destroy(a) PROVE IInv'
    <2>1. serv[a] \in Servers
      BY DEF IInv, TypeOK
    <2> QED
      BY <1>5, <2>1, SessionKeeps
  <1>6. ASSUME NEW s \in Servers, Register(s) \/ Break(s) PROVE IInv'
    BY <1>6, RegisterKeeps
  <1>7. ASSUME NEW s \in Servers, GlobalMessage(s) PROVE IInv'
    BY <1>7, GlobalMessageKeeps
  <1>8. CASE Process
    BY <1>8, ProcessKeeps
  <1>9. CASE UNCHANGED vars
    <2>1. TypeOK'
      BY <1>9 DEF vars, listVars, groupVars, msgVars, IInv, TypeOK
    <2> QED
      BY <1>9, <2>1, GroupsOnly DEF vars, listVars, groupVars, msgVars, CursorsKept
  <1> QED
    BY <1>1, <1>2, <1>3, <1>4, <1>5, <1>6, <1>7, <1>8, <1>9 DEF Next

\* The inductive invariant holds in every reachable state.
THEOREM ListsInv == Spec => []IInv
  BY BeginsSound, StepKeeps, PTL DEF Spec

\* The fields and lists have their types; in particular the count of messages is
\* never lowered below zero, which broadcast_at does without a look.
THEOREM ListsTypeOK == Spec => []TypeOK
  <1>1. IInv => TypeOK
    BY DEF IInv
  <1> QED
    BY <1>1, ListsInv, PTL

\* Every player in a player_list is live and in one place of one list, through late
\* binds, logins to other zones, second logouts, lost servers and second registrations.
THEOREM ListsSound == Spec => []ListSound
  <1>1. IInv => ListSound
    BY DEF IInv
  <1> QED
    BY <1>1, ListsInv, PTL

\* The cursor of a message of a server that has listed players of its own zones is on
\* a player that is listed, or at the end, whoever leaves and is freed meanwhile.
THEOREM ListsCursor == Spec => []CursorListed
  <1>1. IInv => CursorListed
    BY DEF IInv
  <1> QED
    BY <1>1, ListsInv, PTL

\* broadcast_at passes over no message, whatever is registered or replaced.
THEOREM ListsCounted == Spec => []BusyIsCounted
  <1>1. IInv => BusyIsCounted
    BY DEF IInv
  <1> QED
    BY <1>1, ListsInv, PTL
-----------------------------------------------------------------------------
(* The groups, on top of IInv.  GInv gives every list of a group as a sequence *)
(* of players that the pointers thread; the rest says what a handler makes of  *)
(* that sequence, and that Members, which follows the pointers, is its range.  *)

\* q is the way from first along nx.
Threaded(q, first, nx) ==
    /\ first = IF q = <<>> THEN Null ELSE q[1]
    /\ \A i \in 1 .. Len(q) : nx[q[i]] = IF i = Len(q) THEN Null ELSE q[i + 1]

\* Nobody is in a list twice, so that a list is not longer than there are players.
LEMMA NoLonger ==
    ASSUME NEW q \in Seq(Players), IsInjective(q)
    PROVE /\ Cardinality(Players) \in Nat
          /\ Len(q) \in 0 .. Cardinality(Players)
  <1>1. q \in [1 .. Len(q) -> Players] /\ Len(q) \in Nat
    OBVIOUS
  <1>2. q \in Injection(1 .. Len(q), Players)
    BY <1>1 DEF Injection, IsInjective
  <1>3. IsFiniteSet(Players)
    BY PlayerListsAssumption DEF PlayerListsAssumption
  <1>4. Cardinality(1 .. Len(q)) <= Cardinality(Players)
    BY <1>2, <1>3, FS_Injection
  <1>5. Cardinality(1 .. Len(q)) = Len(q)
    <2> DEFINE l == Len(q)
    <2>1. l \in Nat
      OBVIOUS
    <2> HIDE DEF l
    <2>2. 1 \in Int /\ l \in Int /\ Cardinality(1 .. l) = IF 1 > l THEN 0 ELSE l - 1 + 1
      BY <2>1, FS_Interval
    <2> QED
      BY <2>1, <2>2 DEF l
  <1>6. Cardinality(Players) \in Nat
    BY <1>3, FS_CardinalityType
  <1> QED
    BY <1>1, <1>4, <1>5, <1>6

\* What a loop along the pointers of a list meets: the list, and then NULL.
LEMMA Followed ==
    ASSUME NEW q \in Seq(Players), IsInjective(q), NEW first, NEW nx, Threaded(q, first, nx)
    PROVE LET n[i \in 0 .. Cardinality(Players)] ==
                  IF i = 0 THEN first ELSE IF n[i - 1] = Null THEN Null ELSE nx[n[i - 1]]
          IN  n[Cardinality(Players)] = Null /\ Range(n) \ {Null} = Range(q)
  <1> DEFINE N == Cardinality(Players)
             L == Len(q)
             Body(f) == [i \in 0 .. N |-> IF i = 0 THEN first
                                          ELSE IF f[i - 1] = Null THEN Null ELSE nx[f[i - 1]]]
             F == [i \in 0 .. N |-> IF i < L THEN q[i + 1] ELSE Null]
             n == CHOOSE f : f = Body(f)
  <1>1. N \in Nat /\ L \in 0 .. N
    BY NoLonger
  <1>2. \A i \in 1 .. L : q[i] \in Players /\ q[i] # Null
    BY PlayerListsAssumption, ElementOfSeq DEF PlayerListsAssumption
  <1>3. first = (IF L = 0 THEN Null ELSE q[1])
        /\ \A i \in 1 .. L : nx[q[i]] = IF i = L THEN Null ELSE q[i + 1]
    <2>1. q = <<>> <=> L = 0
      OBVIOUS
    <2> QED
      BY <2>1 DEF Threaded
  <1>4. F = Body(F)
    <2> SUFFICES ASSUME NEW i \in 0 .. N PROVE F[i] = Body(F)[i]
      OBVIOUS
    <2> HIDE DEF N, L
    <2>1. CASE i = 0
      BY <1>1, <1>3, <2>1
    <2>2. CASE i # 0
      <3>1. i - 1 \in 0 .. N /\ F[i - 1] = IF i - 1 < L THEN q[(i - 1) + 1] ELSE Null
        BY <1>1, <2>2
      <3>2. (i - 1) + 1 = i
        BY <2>2
      <3>3. Body(F)[i] = IF F[i - 1] = Null THEN Null ELSE nx[F[i - 1]]
        BY <2>2
      <3>4. CASE i - 1 < L
        <4>1. i \in 1 .. L
          BY <1>1, <2>2, <3>4
        <4>2. F[i - 1] = q[i]
          BY <3>1, <3>2, <3>4
        <4>3. Body(F)[i] = nx[q[i]]
          BY <1>2, <3>3, <4>1, <4>2
        <4> QED
          BY <1>1, <1>3, <4>1, <4>3
      <3>5. CASE ~(i - 1 < L)
        BY <1>1, <2>2, <3>1, <3>3, <3>5
      <3> QED
        BY <3>4, <3>5
    <2> QED
      BY <2>1, <2>2
  <1> HIDE DEF F
  <1>5. n = Body(n)
    BY <1>4
  <1> HIDE DEF n
  <1>6. 0 .. N \subseteq {i \in 0 .. N : n[i] = F[i]}
    <2> DEFINE T == {i \in 0 .. N : n[i] = F[i]}
    <2>0. \A i \in 0 .. N : n[i] = Body(n)[i] /\ F[i] = Body(F)[i]
      BY <1>4, <1>5
    <2>1. 0 \in T
      BY <1>1, <2>0
    <2>2. \A i \in 0 .. N - 1 : i \in T => i + 1 \in T
      <3> SUFFICES ASSUME NEW i \in 0 .. N - 1, n[i] = F[i] PROVE n[i + 1] = F[i + 1]
        BY <1>1
      <3>1. i + 1 \in 0 .. N /\ i + 1 # 0 /\ (i + 1) - 1 = i
        BY <1>1
      <3>2. n[i + 1] = IF n[i] = Null THEN Null ELSE nx[n[i]]
        BY <2>0, <3>1, Zenon
      <3>3. F[i + 1] = IF F[i] = Null THEN Null ELSE nx[F[i]]
        BY <2>0, <3>1, Zenon
      <3> QED
        BY <3>2, <3>3
    <2> HIDE DEF T
    <2> QED
      BY <1>1, <2>1, <2>2, IntervalInduction DEF T
  <1>7. DOMAIN n = 0 .. N /\ \A i \in 0 .. N : n[i] = IF i < L THEN q[i + 1] ELSE Null
    BY <1>5, <1>6 DEF F
  <1>8. n[N] = Null
    BY <1>1, <1>7
  <1>9. Range(n) \ {Null} = Range(q)
    <2>1. ASSUME NEW x \in Range(q) PROVE x \in Range(n) \ {Null}
      <3>1. PICK i \in 1 .. L : x = q[i]
        BY DEF Range
      <3>2. i - 1 \in 0 .. N /\ i - 1 < L /\ (i - 1) + 1 = i
        BY <1>1, <3>1
      <3>3. n[i - 1] = x
        BY <1>7, <3>1, <3>2
      <3> QED
        BY <1>2, <1>7, <3>1, <3>2, <3>3 DEF Range
    <2>2. ASSUME NEW x \in Range(n), x # Null PROVE x \in Range(q)
      <3>1. PICK i \in 0 .. N : x = n[i]
        BY <1>7 DEF Range
      <3>2. i < L /\ x = q[i + 1]
        BY <1>7, <2>2, <3>1
      <3>3. i + 1 \in DOMAIN q
        BY <1>1, <3>2
      <3> QED
        BY <3>2, <3>3 DEF Range
    <2> QED
      BY <2>1, <2>2
  <1> QED
    BY <1>8, <1>9 DEF n

-----------------------------------------------------------------------------
\* When the pointer that leads to a player, be it the head or one of another player,
\* is set to the pointer of that player, the way leads along the rest of the list.
LEMMA ThreadedWithout ==
    ASSUME NEW q \in Seq(Players), IsInjective(q), NEW first, NEW nx, Threaded(q, first, nx),
           NEW a \in Players, NEW nx2,
           \A b \in Range(q) \ {a} : nx2[b] = IF nx[b] = a THEN nx[a] ELSE nx[b]
    PROVE Threaded(Unlinked(q, a), IF first = a THEN nx[a] ELSE first, nx2)
  <1> DEFINE L == Len(q)
             first2 == IF first = a THEN nx[a] ELSE first
  <1>0. a # Null
    BY PlayerListsAssumption DEF PlayerListsAssumption
  <1>1. L \in Nat /\ DOMAIN q = 1 .. L /\ (q = <<>> <=> L = 0)
    OBVIOUS
  <1>2. /\ first = (IF L = 0 THEN Null ELSE q[1])
        /\ \A i \in 1 .. L : nx[q[i]] = IF i = L THEN Null ELSE q[i + 1]
    BY <1>1 DEF Threaded
  <1> HIDE DEF L
  <1>3. CASE a \notin Range(q)
    <2>1. Unlinked(q, a) = q
      BY <1>3 DEF Unlinked
    <2>2. \A i \in 1 .. L : q[i] # a /\ q[i] \in Range(q)
      BY <1>1, <1>3 DEF Range
    <2>3. first # a
      <3>1. L # 0 => 1 \in 1 .. L
        BY <1>1
      <3> QED
        BY <1>0, <1>2, <2>2, <3>1
    <2>4. \A i \in 1 .. L : nx[q[i]] # a
      <3> SUFFICES ASSUME NEW i \in 1 .. L PROVE nx[q[i]] # a
        OBVIOUS
      <3>1. CASE i = L
        BY <1>0, <1>2, <3>1
      <3>2. CASE i # L
        <4>1. i + 1 \in 1 .. L
          BY <1>1, <3>2
        <4> QED
          BY <1>2, <2>2, <3>2, <4>1
      <3> QED
        BY <3>1, <3>2
    <2>5. \A i \in 1 .. L : nx2[q[i]] = nx[q[i]]
      BY <2>2, <2>4
    <2> QED
      BY <1>1, <1>2, <2>1, <2>3, <2>5 DEF Threaded, L
  <1>4. CASE a \in Range(q)
    <2>1. PICK i \in 1 .. L : q[i] = a
      BY <1>1, <1>4 DEF Range
    <2> DEFINE r == Unlinked(q, a)
    <2>2. /\ r \in Seq(Players) /\ Len(r) = L - 1
          /\ \A j \in 1 .. L - 1 : r[j] = q[IF j < i THEN j ELSE j + 1]
      BY <2>1, UnlinkedAt DEF L
    <2> HIDE DEF r
    <2>3. \A j, k \in 1 .. L : q[j] = q[k] => j = k
      BY <1>1 DEF IsInjective
    <2>4. \A j \in 1 .. L : j # i => q[j] \in Range(q) \ {a}
      BY <1>1, <2>1, <2>3 DEF Range
    <2>5. nx[a] = IF i = L THEN Null ELSE q[i + 1]
      BY <1>2, <2>1
    <2>6. first2 = IF L - 1 = 0 THEN Null ELSE r[1]
      <3>1. first = q[1] /\ L # 0 /\ 1 \in 1 .. L
        BY <1>1, <1>2, <2>1
      <3>2. CASE i = 1
        <4>1. first2 = IF 1 = L THEN Null ELSE q[2]
          BY <2>1, <2>5, <3>1, <3>2
        <4>2. CASE L = 1
          BY <4>1, <4>2
        <4>3. CASE L # 1
          <5>1. 1 \in 1 .. L - 1 /\ ~(1 < i)
            BY <1>1, <3>1, <3>2, <4>3
          <5>2. r[1] = q[2]
            BY <2>2, <5>1
          <5> QED
            BY <1>1, <4>1, <4>3, <5>2
        <4> QED
          BY <4>2, <4>3
      <3>3. CASE i # 1
        <4>1. 1 \in 1 .. L - 1 /\ 1 < i /\ L - 1 # 0
          BY <1>1, <2>1, <3>3
        <4>2. r[1] = q[1]
          BY <2>2, <4>1
        <4>3. q[1] # a
          BY <2>1, <2>3, <3>1, <3>3
        <4> QED
          BY <3>1, <4>1, <4>2, <4>3
      <3> QED
        BY <3>2, <3>3
    <2>7. ASSUME NEW j \in 1 .. L - 1
          PROVE nx2[r[j]] = IF j = L - 1 THEN Null ELSE r[j + 1]
      <3> DEFINE k == IF j < i THEN j ELSE j + 1
      <3>1. k \in 1 .. L /\ k # i /\ r[j] = q[k]
        BY <1>1, <2>1, <2>2
      <3>2. nx2[q[k]] = IF nx[q[k]] = a THEN nx[a] ELSE nx[q[k]]
        BY <2>4, <3>1
      <3>3. nx[q[k]] = IF k = L THEN Null ELSE q[k + 1]
        BY <1>2, <3>1
      <3>4. CASE j < i
        <4>1. k = j /\ k # L /\ j + 1 \in 1 .. L
          BY <1>1, <2>1, <3>4
        <4>2. nx[q[j]] = q[j + 1]
          BY <3>3, <4>1
        <4>3. CASE j + 1 = i
          <5>1. nx2[r[j]] = IF i = L THEN Null ELSE q[i + 1]
            BY <2>1, <2>5, <3>1, <3>2, <4>1, <4>2, <4>3
          <5>2. CASE i = L
            BY <1>1, <4>3, <5>1, <5>2
          <5>3. CASE i # L
            <6>1. i \in 1 .. L - 1 /\ ~(i < i) /\ j # L - 1
              BY <1>1, <2>1, <4>3, <5>3
            <6>2. r[j + 1] = q[i + 1]
              BY <2>2, <4>3, <6>1
            <6> QED
              BY <5>1, <5>3, <6>1, <6>2
          <5> QED
            BY <5>2, <5>3
        <4>4. CASE j + 1 # i
          <5>1. j + 1 \in 1 .. L - 1 /\ j + 1 < i /\ j # L - 1
            BY <1>1, <2>1, <3>4, <4>4
          <5>2. q[j + 1] # a
            BY <2>1, <2>3, <4>1, <4>4
          <5>3. r[j + 1] = q[j + 1]
            BY <2>2, <5>1
          <5> QED
            BY <3>1, <3>2, <4>1, <4>2, <5>1, <5>2, <5>3
        <4> QED
          BY <4>3, <4>4
      <3>5. CASE ~(j < i)
        <4>1. k = j + 1 /\ (k = L <=> j = L - 1)
          BY <1>1, <3>5
        <4>2. CASE j = L - 1
          BY <1>0, <3>1, <3>2, <3>3, <4>1, <4>2
        <4>3. CASE j # L - 1
          <5>1. j + 1 \in 1 .. L - 1 /\ ~(j + 1 < i) /\ k + 1 \in 1 .. L /\ k + 1 # i /\ k + 1 = (j + 1) + 1
            BY <1>1, <2>1, <3>5, <4>1, <4>3
          <5>2. q[k + 1] # a
            BY <2>1, <2>3, <5>1
          <5>3. r[j + 1] = q[k + 1]
            <6>1. r[j + 1] = q[IF j + 1 < i THEN j + 1 ELSE (j + 1) + 1]
              BY <2>2, <5>1
            <6> QED
              BY <5>1, <6>1, Zenon
          <5> HIDE DEF k
          <5> QED
            BY <3>1, <3>2, <3>3, <4>1, <4>3, <5>2, <5>3
        <4> QED
          BY <4>2, <4>3
      <3> QED
        BY <3>4, <3>5
    <2>8. r = <<>> <=> L - 1 = 0
      BY <1>1, <2>2
    <2> HIDE DEF first2
    <2>9. Threaded(r, first2, nx2)
      BY <2>2, <2>6, <2>7, <2>8 DEF Threaded
    <2> QED
      BY <2>9 DEF r, first2
  <1> QED
    BY <1>3, <1>4

\* A player that points to the first of a list, and is not in it, can be put before it.
LEMMA ThreadedBefore ==
    ASSUME NEW q \in Seq(Players), NEW first, NEW nx, Threaded(q, first, nx),
           NEW a \in Players, NEW nx2, nx2[a] = first, \A b \in Range(q) : nx2[b] = nx[b]
    PROVE Threaded(<<a>> \o q, a, nx2)
  <1> DEFINE L == Len(q)
             t == <<a>> \o q
  <1>1. L \in Nat /\ DOMAIN q = 1 .. L /\ (q = <<>> <=> L = 0)
    OBVIOUS
  <1>2. /\ first = (IF L = 0 THEN Null ELSE q[1])
        /\ \A i \in 1 .. L : nx[q[i]] = IF i = L THEN Null ELSE q[i + 1]
    BY <1>1 DEF Threaded
  <1>3. /\ t \in Seq(Players) /\ Len(t) = L + 1 /\ t # <<>>
        /\ \A i \in 1 .. L + 1 : t[i] = IF i <= 1 THEN a ELSE q[i - 1]
    BY ConcatProperties
  <1> HIDE DEF t, L
  <1>4. t[1] = a /\ \A i \in 1 .. L : t[i + 1] = q[i]
    BY <1>1, <1>3
  <1>5. ASSUME NEW i \in 1 .. L + 1 PROVE nx2[t[i]] = IF i = L + 1 THEN Null ELSE t[i + 1]
    <2>1. CASE i = 1
      <3>1. CASE L = 0
        BY <1>2, <1>4, <2>1, <3>1
      <3>2. CASE L # 0
        <4>1. 1 \in 1 .. L /\ i # L + 1
          BY <1>1, <2>1, <3>2
        <4> QED
          BY <1>2, <1>4, <2>1, <3>2, <4>1
      <3> QED
        BY <3>1, <3>2
    <2>2. CASE i # 1
      <3>1. i - 1 \in 1 .. L /\ (i - 1) + 1 = i /\ (i - 1 = L <=> i = L + 1)
        BY <1>1, <2>2
      <3>2. t[i] = q[i - 1]
        BY <1>4, <3>1
      <3>3. q[i - 1] \in Range(q)
        BY <1>1, <3>1 DEF Range
      <3>4. nx2[t[i]] = IF i = L + 1 THEN Null ELSE q[i]
        BY <1>2, <3>1, <3>2, <3>3
      <3>5. CASE i # L + 1
        <4>1. i \in 1 .. L
          BY <1>1, <3>5
        <4> QED
          BY <1>4, <3>4, <3>5, <4>1
      <3> QED
        BY <3>4, <3>5
    <2> QED
      BY <2>1, <2>2
  <1>6. Threaded(t, a, nx2)
    BY <1>3, <1>4, <1>5 DEF Threaded
  <1> QED
    BY <1>6 DEF t

\* The way does not depend on the pointers of other players.
LEMMA ThreadedElsewhere ==
    ASSUME NEW q \in Seq(Players), NEW first, NEW nx, Threaded(q, first, nx),
           NEW nx2, \A b \in Range(q) : nx2[b] = nx[b]
    PROVE Threaded(q, first, nx2)
  <1>1. \A i \in 1 .. Len(q) : q[i] \in Range(q)
    BY DEF Range
  <1> QED
    BY <1>1 DEF Threaded

\* Whom the pointers of a list lead to, is in it.
LEMMA OnTheWay ==
    ASSUME NEW q \in Seq(Players), NEW first, NEW nx, Threaded(q, first, nx), NEW a \in Players
    PROVE /\ first = a => a \in Range(q)
          /\ \A b \in Range(q) : nx[b] = a => a \in Range(q)
          /\ a \in Range(q) => first # Null
  <1> DEFINE L == Len(q)
  <1>1. L \in Nat /\ DOMAIN q = 1 .. L /\ (q = <<>> <=> L = 0)
    OBVIOUS
  <1>2. /\ first = (IF L = 0 THEN Null ELSE q[1])
        /\ \A i \in 1 .. L : nx[q[i]] = IF i = L THEN Null ELSE q[i + 1]
    BY <1>1 DEF Threaded
  <1>3. a # Null /\ \A i \in 1 .. L : q[i] # Null /\ q[i] \in Range(q)
    BY PlayerListsAssumption, ElementOfSeq DEF PlayerListsAssumption, Range
  <1>4. L # 0 => 1 \in 1 .. L
    BY <1>1
  <1> HIDE DEF L
  <1>5. first = a => a \in Range(q)
    BY <1>2, <1>3, <1>4
  <1>6. ASSUME NEW b \in Range(q), nx[b] = a PROVE a \in Range(q)
    <2>1. PICK i \in 1 .. L : b = q[i]
      BY <1>1 DEF Range
    <2>2. i # L /\ a = q[i + 1]
      BY <1>2, <1>3, <1>6, <2>1
    <2>3. i + 1 \in 1 .. L
      BY <1>1, <2>1, <2>2
    <2> QED
      BY <1>3, <2>2, <2>3
  <1>7. a \in Range(q) => first # Null
    <2>1. a \in Range(q) => L # 0
      BY <1>1 DEF Range
    <2> QED
      BY <1>2, <1>3, <1>4, <2>1
  <1> QED
    BY <1>5, <1>6, <1>7

-----------------------------------------------------------------------------
\* q is the list of a group: its players, each once and linked in this order.
GroupList(q, s, g) ==
    /\ IsInjective(q)
    /\ Threaded(q, head[s][g], next)
    /\ \A a \in Range(q) : st[a] = "Live" /\ serv[a] = s /\ gid[a] = g

Chained == \A s \in Servers, g \in Gids : \E q \in Seq(Players) : GroupList(q, s, g)

\* Only live players are bound, and a server that is not there has no groups.
BoundLive == \A a \in bound : st[a] = "Live"
DownEmpty == \A s \in Servers \ up : head[s] = NoGroups

GInv == IInv /\ BoundLive /\ DownEmpty /\ Chained

\* What GroupsSound and the refinement follow is the list.
LEMMA MembersOf ==
    ASSUME NEW s, NEW g, NEW q \in Seq(Players), IsInjective(q), Threaded(q, head[s][g], next)
    PROVE Node(s, g)[Cardinality(Players)] = Null /\ Members(s, g) = Range(q)
  BY Followed DEF Members, Node

LEMMA MembersOfNext ==
    ASSUME NEW s, NEW g, NEW q \in Seq(Players), IsInjective(q), Threaded(q, head'[s][g], next')
    PROVE Members(s, g)' = Range(q)
  BY Followed DEF Members, Node

\* rbtF_player_leave_group unlinks the player from the list it is in and leaves all
\* others alone; where the group of the player is not there any more, it is in none.
LEMMA LeftMoves ==
    ASSUME GInv, NEW a \in Players, NEW s \in Servers, NEW g \in Gids,
           NEW q \in Seq(Players), GroupList(q, s, g)
    PROVE /\ Threaded(Unlinked(q, a), Left(a).head[s][g], Left(a).next)
          /\ \A b \in Players \ {a} : Left(a).gid[b] = gid[b]
  <1> DEFINE s0 == serv[a]
             g0 == gid[a]
             here == s0 \in up /\ g0 # NoGid /\ head[s0][g0] # Null
  <1>1. /\ IsInjective(q) /\ Threaded(q, head[s][g], next)
        /\ \A b \in Range(q) : b \in Players /\ st[b] = "Live" /\ serv[b] = s /\ gid[b] = g
    BY DEF GroupList, Range
  <1>2. s0 \in Servers /\ g0 \in Gids \cup {NoGid} /\ TypeOK /\ NoGid \notin Gids /\ a # Null
    BY PlayerListsAssumption DEF GInv, IInv, TypeOK, PlayerListsAssumption
  <1>3. CASE here
    <2> DEFINE unlinked == [b \in Players |-> IF b \in Members(s0, g0) /\ next[b] = a THEN next[a] ELSE next[b]]
    <2>1. Left(a) = [gid |-> [gid EXCEPT ![a] = NoGid], next |-> [unlinked EXCEPT ![a] = Null],
                     head |-> [head EXCEPT ![s0][g0] = IF @ = a THEN next[a] ELSE @]]
      BY <1>3 DEF Left
    <2>2. Left(a).head[s][g] = IF head[s][g] = a THEN next[a] ELSE head[s][g]
      <3>1. CASE s = s0 /\ g = g0
        BY <1>2, <2>1, <3>1 DEF TypeOK
      <3>2. CASE ~(s = s0 /\ g = g0)
        <4>1. head[s][g] # a
          BY <1>1, <3>2, OnTheWay
        <4>2. Left(a).head[s][g] = head[s][g]
          BY <1>2, <2>1, <3>2 DEF TypeOK
        <4> QED
          BY <4>1, <4>2
      <3> QED
        BY <3>1, <3>2
    <2>3. ASSUME NEW b \in Range(q) \ {a}
          PROVE Left(a).next[b] = IF next[b] = a THEN next[a] ELSE next[b]
      <3>1. Left(a).next[b] = unlinked[b]
        BY <1>1, <2>1
      <3>2. CASE next[b] = a
        <4>1. s = s0 /\ g = g0
          BY <1>1, <3>2, OnTheWay
        <4>2. Members(s, g) = Range(q)
          BY <1>1, MembersOf
        <4> QED
          BY <1>1, <3>1, <3>2, <4>1, <4>2
      <3>3. CASE next[b] # a
        BY <1>1, <3>1, <3>3
      <3> QED
        BY <3>2, <3>3
    <2>4. Threaded(Unlinked(q, a), Left(a).head[s][g], Left(a).next)
      BY <1>1, <2>2, <2>3, ThreadedWithout
    <2>5. \A b \in Players \ {a} : Left(a).gid[b] = gid[b]
      BY <1>2, <2>1 DEF TypeOK
    <2> QED
      BY <2>4, <2>5
  <1>4. CASE ~here
    <2>1. a \notin Range(q)
      <3> SUFFICES ASSUME a \in Range(q) PROVE FALSE
        OBVIOUS
      <3>1. s0 = s /\ g0 = g /\ head[s][g] # Null
        BY <1>1, OnTheWay
      <3>2. s \in up
        BY <3>1 DEF GInv, DownEmpty, NoGroups
      <3> QED
        BY <1>2, <1>4, <3>1, <3>2
    <2>2. Left(a) = [gid |-> gid, next |-> next, head |-> head]
      BY <1>4 DEF Left
    <2> QED
      BY <1>1, <2>1, <2>2 DEF Unlinked
  <1> QED
    BY <1>3, <1>4

-----------------------------------------------------------------------------
LEMMA BothSets ==
    ASSUME NEW s \in Servers, NEW g \in Gids, NEW q \in Seq(Players), GroupList(q, s, g),
           NEW r \in Seq(Players), GroupList(r, s, g)'
    PROVE Members(s, g) = Range(q) /\ Members(s, g)' = Range(r)
  <1>1. IsInjective(q) /\ Threaded(q, head[s][g], next) /\ IsInjective(r) /\ Threaded(r, head'[s][g], next')
    BY DEF GroupList
  <1>2. Members(s, g) = Range(q)
    BY <1>1, MembersOf
  <1>3. Members(s, g)' = Range(r)
    BY <1>1, MembersOfNext
  <1> QED
    BY <1>2, <1>3

\* rbtF_player_enter_group takes the player out of every list and puts it first.
LEMMA EnterGroupMoves ==
    ASSUME GInv, NEW a \in Players, NEW h \in Gids, EnterGroup(a, h),
           NEW s \in Servers, NEW g \in Gids
    PROVE /\ \E r \in Seq(Players) : GroupList(r, s, g)'
          /\ Members(s, g)' = IF s = serv[a] /\ g = h THEN Members(s, g) \cup {a}
                                                      ELSE Members(s, g) \ {a}
  <1> DEFINE from == IF gid[a] = NoGid THEN [gid |-> gid, next |-> next, head |-> head] ELSE Left(a)
             fg == from.gid
             fn == from.next
             fh == from.head
             t == serv[a]
  <1>1. /\ fg \in [Players -> Gids \cup {NoGid}]
        /\ fn \in [Players -> Players \cup {Null}]
        /\ fh \in [Servers -> [Gids -> Players \cup {Null}]]
    BY LeftType DEF GInv, IInv, TypeOK
  <1>2. /\ gid' = [fg EXCEPT ![a] = h]
        /\ next' = [fn EXCEPT ![a] = fh[t][h]]
        /\ head' = [fh EXCEPT ![t][h] = a]
        /\ a \in bound /\ UNCHANGED <<st, serv>>
    BY DEF EnterGroup, SetGroup, listVars, msgVars
  <1>3. t \in Servers /\ st[a] = "Live"
    BY <1>2 DEF GInv, IInv, TypeOK, BoundLive
  <1>4. PICK q \in Seq(Players) : GroupList(q, s, g)
    BY DEF GInv, Chained
  <1>5. /\ IsInjective(q) /\ Threaded(q, head[s][g], next)
        /\ \A b \in Range(q) : b \in Players /\ st[b] = "Live" /\ serv[b] = s /\ gid[b] = g
    BY <1>4 DEF GroupList, Range
  <1> DEFINE r == Unlinked(q, a)
  <1>6. /\ Threaded(r, fh[s][g], fn)
        /\ \A b \in Players \ {a} : fg[b] = gid[b]
    <2>1. CASE gid[a] = NoGid
      <3>1. a \notin Range(q)
        BY <1>5, <2>1, PlayerListsAssumption DEF PlayerListsAssumption
      <3> QED
        BY <1>5, <2>1, <3>1 DEF Unlinked
    <2>2. CASE gid[a] # NoGid
      BY <1>4, <2>2, LeftMoves
    <2> QED
      BY <2>1, <2>2
  <1>7. r \in Seq(Players) /\ IsInjective(r) /\ Range(r) = Range(q) \ {a}
    BY <1>5, UnlinkedFrom
  <1> HIDE DEF from, fg, fn, fh, r
  <1>8. \A b \in Range(r) : /\ b \in Players /\ b # a /\ next'[b] = fn[b]
                            /\ st'[b] = "Live" /\ serv'[b] = s /\ gid'[b] = g
    BY <1>1, <1>2, <1>5, <1>6, <1>7
  <1>9. CASE s = t /\ g = h
    <2> DEFINE p == <<a>> \o r
    <2>1. p \in Seq(Players) /\ IsInjective(p) /\ Range(p) = Range(r) \cup {a}
      BY <1>7, Pushed
    <2>2. next'[a] = fh[s][g] /\ head'[s][g] = a /\ gid'[a] = g
      BY <1>1, <1>2, <1>3, <1>9
    <2>3. Threaded(p, head'[s][g], next')
      BY <1>6, <1>7, <1>8, <2>2, ThreadedBefore
    <2> HIDE DEF p
    <2>4. GroupList(p, s, g)'
      BY <1>2, <1>3, <1>8, <1>9, <2>1, <2>2, <2>3 DEF GroupList
    <2>5. Range(p) = Range(q) \cup {a}
      BY <1>7, <2>1
    <2> QED
      BY <1>4, <1>9, <2>1, <2>4, <2>5, BothSets
  <1>10. CASE ~(s = t /\ g = h)
    <2>1. head'[s][g] = fh[s][g]
      BY <1>1, <1>2, <1>3, <1>10
    <2>2. Threaded(r, head'[s][g], next')
      BY <1>6, <1>7, <1>8, <2>1, ThreadedElsewhere
    <2>3. GroupList(r, s, g)'
      BY <1>7, <1>8, <2>2 DEF GroupList
    <2> QED
      BY <1>4, <1>7, <1>10, <2>3, BothSets
  <1> QED
    BY <1>9, <1>10

\* A handler that leaves the group takes the player out of every list.
LEMMA LeftGroupMoves ==
    ASSUME GInv, NEW a \in Players, SetGroup(Left(a)), UNCHANGED serv,
           \A b \in Players \ {a} : st'[b] = st[b], NEW s \in Servers, NEW g \in Gids
    PROVE /\ \E r \in Seq(Players) : GroupList(r, s, g)'
          /\ Members(s, g)' = Members(s, g) \ {a}
  <1>1. PICK q \in Seq(Players) : GroupList(q, s, g)
    BY DEF GInv, Chained
  <1>2. /\ IsInjective(q)
        /\ \A b \in Range(q) : b \in Players /\ st[b] = "Live" /\ serv[b] = s /\ gid[b] = g
    BY <1>1 DEF GroupList, Range
  <1> DEFINE r == Unlinked(q, a)
  <1>3. /\ Threaded(r, head'[s][g], next')
        /\ \A b \in Players \ {a} : gid'[b] = gid[b]
    BY <1>1, LeftMoves DEF SetGroup
  <1>4. r \in Seq(Players) /\ IsInjective(r) /\ Range(r) = Range(q) \ {a}
    BY <1>2, UnlinkedFrom
  <1> HIDE DEF r
  <1>5. GroupList(r, s, g)'
    BY <1>2, <1>3, <1>4 DEF GroupList
  <1> QED
    BY <1>1, <1>4, <1>5, BothSets

\* Where the fields of live players stay, so do the lists.
LEMMA NobodyMoves ==
    ASSUME GInv, UNCHANGED head,
           \A a \in Players : st[a] = "Live" => /\ st'[a] = st[a] /\ serv'[a] = serv[a]
                                                /\ gid'[a] = gid[a] /\ next'[a] = next[a],
           NEW s \in Servers, NEW g \in Gids
    PROVE /\ \E r \in Seq(Players) : GroupList(r, s, g)'
          /\ Members(s, g)' = Members(s, g)
  <1>1. PICK q \in Seq(Players) : GroupList(q, s, g)
    BY DEF GInv, Chained
  <1>2. /\ IsInjective(q) /\ Threaded(q, head[s][g], next)
        /\ \A b \in Range(q) : b \in Players /\ st[b] = "Live" /\ serv[b] = s /\ gid[b] = g
    BY <1>1 DEF GroupList, Range
  <1>3. Threaded(q, head'[s][g], next')
    BY <1>2, ThreadedElsewhere
  <1>4. GroupList(q, s, g)'
    BY <1>2, <1>3 DEF GroupList
  <1> QED
    BY <1>1, <1>4, BothSets

\* A server that is lost, or registers anew, has no groups.
LEMMA ClearedMoves ==
    ASSUME GInv, UNCHANGED <<st, serv, gid, next>>, NEW t \in Servers,
           head' = head \/ head' = [head EXCEPT ![t] = NoGroups],
           NEW s \in Servers, NEW g \in Gids
    PROVE /\ \E r \in Seq(Players) : GroupList(r, s, g)'
          /\ Members(s, g)' = IF head'[s] = head[s] THEN Members(s, g) ELSE {}
          /\ head'[s] = NoGroups => Members(s, g)' = {}
  <1>1. PICK q \in Seq(Players) : GroupList(q, s, g)
    BY DEF GInv, Chained
  <1>2. head'[s] = head[s] \/ head'[s] = NoGroups
    BY DEF GInv, IInv, TypeOK
  <1>3. ASSUME head'[s] = NoGroups PROVE GroupList(<<>>, s, g)' /\ Members(s, g)' = {}
    <2>1. /\ <<>> \in Seq(Players) /\ IsInjective(<<>>) /\ Range(<<>>) = {}
          /\ Threaded(<<>>, head'[s][g], next')
      BY <1>3 DEF IsInjective, Range, Threaded, NoGroups
    <2>2. GroupList(<<>>, s, g)'
      BY <2>1 DEF GroupList
    <2> QED
      BY <1>1, <2>1, <2>2, BothSets
  <1>4. ASSUME head'[s] = head[s] PROVE GroupList(q, s, g)' /\ Members(s, g)' = Members(s, g)
    <2>1. GroupList(q, s, g)'
      BY <1>1, <1>4 DEF GroupList
    <2> QED
      BY <1>1, <2>1, BothSets
  <1>5. <<>> \in Seq(Players)
    OBVIOUS
  <1>6. NoGroups = head'[s] => Members(s, g)' = {}
    BY <1>3
  <1>7. CASE head'[s] = head[s]
    BY <1>1, <1>4, <1>6, <1>7
  <1>8. CASE head'[s] # head[s]
    BY <1>2, <1>3, <1>5, <1>8
  <1> QED
    BY <1>7, <1>8

-----------------------------------------------------------------------------
\* What members stands for in Groups.
Sets == [s \in Servers |-> [g \in Gids |-> Members(s, g)]]

LEMMA SetsBegin == Init => GInv /\ Groups!Init
  <1> SUFFICES ASSUME Init PROVE GInv /\ Groups!Init
    OBVIOUS
  <1>1. IInv
    BY BeginsSound
  <1>2. BoundLive /\ DownEmpty
    BY DEF Init, BoundLive, DownEmpty
  <1>3. ASSUME NEW s \in Servers, NEW g \in Gids PROVE GroupList(<<>>, s, g) /\ Members(s, g) = {}
    <2>1. /\ <<>> \in Seq(Players) /\ IsInjective(<<>>) /\ Range(<<>>) = {}
      BY DEF IsInjective, Range
    <2>2. Threaded(<<>>, head[s][g], next)
      BY DEF Threaded, Init, NoGroups
    <2> QED
      BY <2>1, <2>2, MembersOf DEF GroupList
  <1>4. <<>> \in Seq(Players)
    OBVIOUS
  <1>5. Chained
    BY <1>3, <1>4 DEF Chained
  <1>6. Groups!Init
    BY <1>3 DEF Groups!Init
  <1> QED
    BY <1>1, <1>2, <1>5, <1>6 DEF GInv

\* The step from one set of groups to the next, for each action.
LEMMA EnterGroupRefines ==
    ASSUME GInv, NEW a \in Players, NEW h \in Gids, EnterGroup(a, h)
    PROVE Chained' /\ Groups!Enter(a, serv[a], h)
  <1>1. Chained'
    BY EnterGroupMoves DEF Chained
  <1>2. \A s \in Servers, g \in Gids :
            Members(s, g)' = IF s = serv[a] /\ g = h THEN Members(s, g) \cup {a} ELSE Members(s, g) \ {a}
    BY EnterGroupMoves
  <1>3. Sets' = [s \in Servers |-> [g \in Gids |->
                    IF s = serv[a] /\ g = h THEN Sets[s][g] \cup {a} ELSE Sets[s][g] \ {a}]]
    BY <1>2 DEF Sets
  <1> QED
    BY <1>1, <1>3 DEF Groups!Enter, Sets

LEMMA LeftGroupRefines ==
    ASSUME GInv, NEW a \in Players, SetGroup(Left(a)), UNCHANGED serv,
           \A b \in Players \ {a} : st'[b] = st[b]
    PROVE Chained' /\ Groups!Leave(a)
  <1>1. Chained'
    BY LeftGroupMoves DEF Chained
  <1>2. \A s \in Servers, g \in Gids : Members(s, g)' = Members(s, g) \ {a}
    BY LeftGroupMoves
  <1>3. Sets' = [s \in Servers |-> [g \in Gids |-> Sets[s][g] \ {a}]]
    BY <1>2 DEF Sets
  <1> QED
    BY <1>1, <1>3 DEF Groups!Leave, Sets

LEMMA NobodyRefines ==
    ASSUME GInv, UNCHANGED head,
           \A a \in Players : st[a] = "Live" => /\ st'[a] = st[a] /\ serv'[a] = serv[a]
                                                /\ gid'[a] = gid[a] /\ next'[a] = next[a]
    PROVE Chained' /\ Sets' = Sets
  <1>1. Chained'
    BY NobodyMoves DEF Chained
  <1>2. \A s \in Servers, g \in Gids : Members(s, g)' = Members(s, g)
    BY NobodyMoves
  <1> QED
    BY <1>1, <1>2 DEF Sets

LEMMA RegisterRefines ==
    ASSUME GInv, NEW t \in Servers, Register(t) PROVE Chained' /\ Sets' = Sets
  <1>1. /\ UNCHANGED <<st, serv, gid, next>>
        /\ head' = head \/ head' = [head EXCEPT ![t] = NoGroups]
        /\ t \notin up => head[t] = NoGroups
    BY DEF Register, GInv, DownEmpty
  <1>2. head' = head
    BY <1>1 DEF Register, GInv, IInv, TypeOK
  <1> QED
    BY <1>1, <1>2, NobodyRefines

LEMMA BreakRefines ==
    ASSUME GInv, NEW t \in Servers, Break(t) PROVE Chained' /\ Groups!Clear(t)
  <1>1. UNCHANGED <<st, serv, gid, next>> /\ head' = [head EXCEPT ![t] = NoGroups]
    BY DEF Break
  <1>2. Chained'
    BY <1>1, ClearedMoves DEF Chained
  <1>3. \A s \in Servers, g \in Gids :
            /\ head'[s] = head[s] => Members(s, g)' = Members(s, g)
            /\ head'[s] = NoGroups => Members(s, g)' = {}
    BY <1>1, ClearedMoves
  <1>4. \A s \in Servers : head'[s] = IF s = t THEN NoGroups ELSE head[s]
    BY <1>1 DEF GInv, IInv, TypeOK
  <1>5. Sets' = [Sets EXCEPT ![t] = [g \in Gids |-> {}]]
    BY <1>3, <1>4 DEF Sets
  <1> QED
    BY <1>2, <1>5 DEF Groups!Clear, Sets

\* A step keeps the lists, and is one of the groups or none.
LEMMA GroupStep ==
    ASSUME GInv, [Next]_vars PROVE GInv' /\ [Groups!Next]_Sets
  <1>1. IInv'
    BY StepKeeps DEF GInv
  <1>2. ASSUME NEW a \in Players, NEW g \in Gids, EnterGroup(a, g)
        PROVE GInv' /\ [Groups!Next]_Sets
    <2>1. Chained' /\ Groups!Enter(a, serv[a], g) /\ serv[a] \in Servers
      BY <1>2, EnterGroupRefines DEF GInv, IInv, TypeOK
    <2>2. BoundLive' /\ DownEmpty'
      <3>1. UNCHANGED <<st, bound, up>>
        BY <1>2 DEF EnterGroup
      <3>2. serv[a] \in up
        BY <1>2 DEF EnterGroup
      <3>3. \A s \in Servers \ up : head'[s] = head[s]
        <4> DEFINE from == IF gid[a] = NoGid THEN [gid |-> gid, next |-> next, head |-> head] ELSE Left(a)
        <4>1. from.head = head \/ \E x : from.head = [head EXCEPT ![serv[a]] = x]
          <5>1. Left(a).head = head \/ \E x : Left(a).head = [head EXCEPT ![serv[a]] = x]
            BY DEF Left
          <5> QED
            BY <5>1
        <4>2. head' = [from.head EXCEPT ![serv[a]][g] = a]
          BY <1>2 DEF EnterGroup, SetGroup
        <4> HIDE DEF from
        <4> QED
          BY <3>2, <4>1, <4>2 DEF GInv, IInv, TypeOK
      <3> QED
        BY <3>1, <3>3 DEF GInv, BoundLive, DownEmpty
    <2> QED
      BY <1>1, <2>1, <2>2 DEF GInv, Groups!Next
  <1>3. ASSUME NEW a \in Players, SetGroup(Left(a)), UNCHANGED <<serv, up>>,
               \A b \in Players \ {a} : st'[b] = st[b],
               bound' = bound \ {a} \/ (UNCHANGED <<st, bound>>)
        PROVE GInv' /\ [Groups!Next]_Sets
    <2>1. Chained' /\ Groups!Leave(a)
      BY <1>3, LeftGroupRefines
    <2>2. BoundLive'
      BY <1>3 DEF GInv, IInv, TypeOK, BoundLive
    <2>3. DownEmpty'
      <3>1. head' = head \/ (serv[a] \in up /\ \E x : head' = [head EXCEPT ![serv[a]] = x])
        BY <1>3 DEF Left, SetGroup
      <3>2. \A s \in Servers \ up : head'[s] = head[s]
        BY <3>1 DEF GInv, IInv, TypeOK
      <3> QED
        BY <1>3, <3>2 DEF GInv, DownEmpty
    <2> QED
      BY <1>1, <2>1, <2>2, <2>3 DEF GInv, Groups!Next
  <1>4. ASSUME UNCHANGED <<head, up>>, bound' = bound,
               \A a \in Players : st[a] = "Live" => /\ st'[a] = st[a] /\ serv'[a] = serv[a]
                                                    /\ gid'[a] = gid[a] /\ next'[a] = next[a]
        PROVE GInv' /\ [Groups!Next]_Sets
    <2>1. Chained' /\ Sets' = Sets
      BY <1>4, NobodyRefines
    <2>2. BoundLive' /\ DownEmpty'
      BY <1>4 DEF GInv, IInv, TypeOK, BoundLive, DownEmpty
    <2> QED
      BY <1>1, <2>1, <2>2 DEF GInv
  <1>5. ASSUME NEW a \in Players, NEW g \in Gids, LeaveGroup(a, g)
        PROVE GInv' /\ [Groups!Next]_Sets
    BY <1>3, <1>5 DEF LeaveGroup
  <1>6. ASSUME NEW a \in Players, Leave(a) \/ LeaveTwice(a)
        PROVE GInv' /\ [Groups!Next]_Sets
    <2>1. /\ SetGroup(Left(a)) /\ UNCHANGED <<serv, up>> /\ bound' = bound \ {a}
          /\ \A b \in Players \ {a} : st'[b] = st[b]
      BY <1>6 DEF Leave, LeaveTwice, Abort, GInv, IInv, TypeOK
    <2> QED
      BY <1>3, <2>1
  <1>7. ASSUME NEW a \in Players, NEW s \in Servers, Login(a, s) \/ LoginWhileSaving(a, s)
        PROVE GInv' /\ [Groups!Next]_Sets
    BY <1>4, <1>7 DEF Login, LoginWhileSaving, groupVars, GInv, IInv, TypeOK
  <1>8. ASSUME NEW a \in Players, Destroy(a)
        PROVE GInv' /\ [Groups!Next]_Sets
    BY <1>4, <1>8 DEF Destroy, groupVars, GInv, IInv, TypeOK
  <1>9. ASSUME NEW a \in Players, NEW s \in Servers, Bind(a, s)
        PROVE GInv' /\ [Groups!Next]_Sets
    <2>1. /\ UNCHANGED <<st, serv, up, gid, next, head>> /\ st[a] = "Live" /\ bound' = bound \cup {a}
      BY <1>9 DEF Bind, groupVars
    <2>2. Chained' /\ Sets' = Sets
      BY <2>1, NobodyRefines
    <2> QED
      BY <1>1, <2>1, <2>2 DEF GInv, BoundLive, DownEmpty
  <1>10. ASSUME NEW s \in Servers, Register(s)
         PROVE GInv' /\ [Groups!Next]_Sets
    <2>1. Chained' /\ Sets' = Sets
      BY <1>10, RegisterRefines
    <2>2. BoundLive' /\ DownEmpty'
      BY <1>10 DEF Register, GInv, IInv, TypeOK, BoundLive, DownEmpty
    <2> QED
      BY <1>1, <2>1, <2>2 DEF GInv
  <1>11. ASSUME NEW s \in Servers, Break(s)
         PROVE GInv' /\ [Groups!Next]_Sets
    <2>1. Chained' /\ Groups!Clear(s)
      BY <1>11, BreakRefines
    <2>2. BoundLive' /\ DownEmpty'
      BY <1>11 DEF Break, GInv, IInv, TypeOK, BoundLive, DownEmpty
    <2> QED
      BY <1>1, <2>1, <2>2 DEF GInv, Groups!Next
  <1>12. ASSUME NEW s \in Servers, GlobalMessage(s)
         PROVE GInv' /\ [Groups!Next]_Sets
    BY <1>4, <1>12 DEF GlobalMessage, groupVars
  <1>13. CASE Process
    BY <1>4, <1>13 DEF Process, groupVars
  <1>14. CASE UNCHANGED vars
    BY <1>4, <1>14 DEF vars, groupVars
  <1> QED
    BY <1>2, <1>5, <1>6, <1>7, <1>8, <1>9, <1>10, <1>11, <1>12, <1>13, <1>14 DEF Next

\* In every reachable state the pointers of every group thread a list of live players
\* of its server that are in the group.
THEOREM GroupsInv == Spec => []GInv
  <1>1. Init => GInv
    BY SetsBegin
  <1>2. GInv /\ [Next]_vars => GInv'
    BY GroupStep
  <1> QED
    BY <1>1, <1>2, PTL DEF Spec

\* handle_group_call comes to the end of every list of a group, after at most as many
\* steps as there are players, and meets nobody that was freed, is on another server
\* or in another group.
THEOREM GroupsAlwaysSound == Spec => []GroupsSound
  <1>1. GInv => GroupsSound
    <2> SUFFICES ASSUME GInv, NEW s \in Servers, NEW g \in Gids
                 PROVE /\ Node(s, g)[Cardinality(Players)] = Null
                       /\ \A a \in Members(s, g) : st[a] = "Live" /\ serv[a] = s /\ gid[a] = g
      BY DEF GroupsSound
    <2>1. PICK q \in Seq(Players) : GroupList(q, s, g)
      BY DEF GInv, Chained
    <2> QED
      BY <2>1, MembersOf DEF GroupList
  <1> QED
    BY <1>1, GroupsInv, PTL

\* The pointers implement the sets of GroupMembership: each handler is one of its
\* steps, or none, also where curr_gid and curr_group_next are stale.
THEOREM GroupsRefined == Spec => GroupsImplemented
  <1>1. Init => Groups!Init
    BY SetsBegin
  <1>2. GInv /\ [Next]_vars => [Groups!Next]_Sets
    BY GroupStep
  <1>3. Spec => Groups!Init /\ [][Groups!Next]_Sets
    BY <1>1, <1>2, GroupsInv, PTL DEF Spec
  <1>4. GroupsImplemented <=> Groups!Init /\ [][Groups!Next]_Sets
    BY DEF GroupsImplemented, Groups!Spec, Sets
  <1> QED
    BY <1>3, <1>4
=============================================================================
