----------------------------- MODULE HashTable -----------------------------
(***************************************************************************)
(* The table of the library (table.c): a vector for the numbers from 0, and *)
(* an array of nodes for all other keys, in which keys that collide are    *)
(* chained through free nodes.  A table is a map from keys to values that     *)
(* can be visited entry by entry; the two parts, the chains and the resize *)
(* must not show.                                                          *)
(***************************************************************************)
EXTENDS Integers, Sequences, FiniteSets, FiniteSetsExt

CONSTANTS Strs,         \* string keys, each named by its hash
          Nums,         \* number keys that are stored to
          Vals,         \* values other than nil
          MaxNum        \* bound: the next number is asked for below it

ASSUME TableAssumption == Strs \subseteq Nat /\ Nums \subseteq Int /\ MaxNum \in Nat

VARIABLES table,       \* the table
          stored,      \* what was stored under every key
          hidden,      \* history: the keys over whose nodes the vector has grown
          place,       \* where a visit of all entries is
          visited,     \* the entries it was given, in order
          lasting      \* the keys that had a value since it began
tableVars == <<table, stored, hidden, place, visited, lasting>>

Nil == "nil"
NumKeys == Nums \cup 0..MaxNum
Keys == ({"str"} \X Strs) \cup ({"num"} \X NumKeys)
NoKey == <<"nil", 0>>
Null == 0                               \* no next node
FreeNode == [key |-> NoKey, val |-> Nil, next |-> Null]

\* rbtH_init, vector_init, table_init; last is the highest node that may be free.
FreshTable(vsize, tsize) ==
    [vec |-> [i \in 1..vsize |-> Nil], node |-> [n \in 1..tsize |-> FreeNode], last |-> tsize]

\* hash_object: of a string its hash, of a number its absolute value.
Hash(key) == IF key[2] < 0 THEN -key[2] ELSE key[2]
MainPosition(tab, key) == (Hash(key) % Len(tab.node)) + 1
InVector(tab, key) == key[1] = "num" /\ key[2] >= 0 /\ key[2] < Len(tab.vec)

\* getstr, getnum: from each node the walk to that of a key, or to Null.
Along(tab, key) ==
    LET from[n \in 0..Len(tab.node)] ==
            IF n = Null \/ tab.node[n].key = key THEN n ELSE from[tab.node[n].next]
    IN  from
NodeOf(tab, key) == Along(tab, key)[MainPosition(tab, key)]

\* rbtH_get and its variants.
Get(tab, key) ==
    IF InVector(tab, key) THEN tab.vec[key[2] + 1]
    ELSE IF NodeOf(tab, key) = Null THEN Nil ELSE tab.node[NodeOf(tab, key)].val
-----------------------------------------------------------------------------
\* get_free_pos: a node without a value that was used keeps its next, so only
\* one without a key is free; 0 when there is none.
FreePos(tab) ==
    LET free == {n \in 1..tab.last : tab.node[n].val = Nil /\ tab.node[n].key = NoKey}
    IN  IF free = {} THEN Null ELSE Max(free)

\* newkey with free node fn: a key that is not at its main position is moved
\* to fn, and another one that is gets the new key chained behind it.
Before(tab, m) ==
    LET from[n \in DOMAIN tab.node] ==
            IF tab.node[n].next \in {Null, m} THEN n ELSE from[tab.node[n].next]
    IN  from

PlacedUnlinked(tab, fn, key, val) ==
    LET mp == MainPosition(tab, key)
        mine == [key |-> key, val |-> val, next |-> Null]
    IN  IF tab.node[mp].val = Nil
        THEN [tab.node EXCEPT ![mp].key = key, ![mp].val = val]
        ELSE IF MainPosition(tab, tab.node[mp].key) # mp
        THEN [tab.node EXCEPT ![fn] = tab.node[mp], ![mp] = mine]
        ELSE [tab.node EXCEPT ![fn] = [mine EXCEPT !.next = tab.node[mp].next], ![mp].next = fn]

Placed(tab, fn, key, val) ==
    LET mp == MainPosition(tab, key)
        other == MainPosition(tab, tab.node[mp].key)
        pre == Before(tab, mp)[other]
        moved == [tab.node EXCEPT ![fn] = tab.node[mp], ![pre].next = fn]
        mine == [key |-> key, val |-> val, next |-> Null]
    IN  IF tab.node[mp].val = Nil
        THEN [tab.node EXCEPT ![mp].key = key, ![mp].val = val]
        ELSE IF other # mp
        THEN [(IF pre = mp THEN [tab.node EXCEPT ![fn] = tab.node[mp]] ELSE moved) EXCEPT ![mp] = mine]
        ELSE [tab.node EXCEPT ![fn] = [mine EXCEPT !.next = tab.node[mp].next], ![mp].next = fn]

\* compute_size: the vector is the largest power of two of which at least half
\* would be used, by the entries of the vector and of the nodes together.
Used(tab) == Cardinality({i \in DOMAIN tab.vec : tab.vec[i] # Nil})
             + Cardinality({n \in DOMAIN tab.node : tab.node[n].val # Nil})
Below(tab, size) ==
    Cardinality({i \in DOMAIN tab.vec : tab.vec[i] # Nil /\ i - 1 < size})
    + Cardinality({n \in DOMAIN tab.node : tab.node[n].val # Nil /\ tab.node[n].key \in {"num"} \X (0 .. size - 1)})
VectorSize(tab) == Max({p \in {1, 2, 4, 8, 16} : Below(tab, p) >= p \div 2})

\* rbtH_set and its variants, and the store to the place they return, if it takes
\* no resize.
Put(tab, key, val) ==
    IF InVector(tab, key) THEN [tab EXCEPT !.vec[key[2] + 1] = val]
    ELSE IF NodeOf(tab, key) # Null THEN [tab EXCEPT !.node[NodeOf(tab, key)].val = val]
    ELSE [tab EXCEPT !.last = FreePos(tab), !.node = Placed(tab, FreePos(tab), key, val)]

\* resize: everything is entered again, the vector first, so that the value of a
\* node replaces that of the vector; two nodes for each entry that is left to
\* them, and two more, are room enough.
Entries(tab) ==
    [i \in DOMAIN tab.vec |-> [key |-> <<"num", i - 1>>, val |-> tab.vec[i]]]
    \o [n \in DOMAIN tab.node |-> [key |-> tab.node[n].key, val |-> tab.node[n].val]]
Enter(tab, entries) ==
    LET entered[i \in 0..Len(entries)] ==
            IF i = 0 THEN tab
            ELSE IF entries[i].val = Nil THEN entered[i - 1]
            ELSE Put(entered[i - 1], entries[i].key, entries[i].val)
    IN  entered
Resized(tab) ==
    LET vsize == VectorSize(tab)
        tsize == 2 * (Used(tab) - Below(tab, vsize) + 1)
    IN  Enter(FreshTable(vsize, tsize), Entries(tab))[Len(Entries(tab))]

Store(tab, key, val) ==
    IF InVector(tab, key) \/ NodeOf(tab, key) # Null \/ FreePos(tab) # Null THEN Put(tab, key, val)
    ELSE Put(Resized(tab), key, val)

IsNew(tab, key) == ~InVector(tab, key) /\ NodeOf(tab, key) = Null

\* rbtH_setnextnum: the first number of the vector without a value; a full
\* vector grows by two, and nodes with the numbers it grows over stay: only the
\* new place of the vector is cleared, which is nil already.
NextNum(tab) ==
    LET free == {i \in DOMAIN tab.vec : tab.vec[i] = Nil}
    IN  IF free = {} THEN Len(tab.vec) ELSE Min(free) - 1
StoreNext(tab, val) ==
    LET grown == IF NextNum(tab) = Len(tab.vec) THEN [tab EXCEPT !.vec = @ \o <<Nil, Nil>>] ELSE tab
    IN  [grown EXCEPT !.vec[NextNum(tab) + 1] = val]
Covered(tab) ==
    IF NextNum(tab) < Len(tab.vec) THEN {}
    ELSE {tab.node[n].key : n \in DOMAIN tab.node}
         \cap {<<"num", Len(tab.vec)>>, <<"num", Len(tab.vec) + 1>>}

\* rbtH_next: the position behind i that has a value, or End; positions count
\* from 0 through the vector and the nodes.
End == -1
ValueAt(tab, i) == IF i < Len(tab.vec) THEN tab.vec[i + 1] ELSE tab.node[i - Len(tab.vec) + 1].val
KeyAt(tab, i) == IF i < Len(tab.vec) THEN <<"num", i>> ELSE tab.node[i - Len(tab.vec) + 1].key
FollowingShort(tab, i) ==
    LET more == {j \in (i + 1)..(Len(tab.vec) + Len(tab.node) - 2) : ValueAt(tab, j) # Nil}
    IN  IF more = {} THEN End ELSE Min(more)

Following(tab, i) ==
    LET more == {j \in (i + 1)..(Len(tab.vec) + Len(tab.node) - 1) : ValueAt(tab, j) # Nil}
    IN  IF more = {} THEN End ELSE Min(more)

\* rbtH_count.
CountOfKeys(tab) == Cardinality({i \in DOMAIN tab.vec : tab.vec[i] # Nil})
                    + Cardinality({n \in DOMAIN tab.node : tab.node[n].key # NoKey})

CountTable(tab) == Used(tab)
-----------------------------------------------------------------------------
NotVisiting == -2

TableInit ==
    /\ table = FreshTable(1, 1)
    /\ stored = [k \in Keys |-> Nil]
    /\ hidden = {}
    /\ place = NotVisiting /\ visited = <<>> /\ lasting = {}

\* A store, or with nil the removal of rbtH_rmstr and rbtH_rmnum.  A key that
\* is new to the table may move others: a visit under way is over.
TableSet(k, v) ==
    /\ k[1] = "str" \/ k[2] \in Nums
    /\ table' = Store(table, k, v)
    /\ stored' = [stored EXCEPT ![k] = v]
    /\ lasting' = IF v = Nil THEN lasting \ {k} ELSE lasting
    /\ place' = IF IsNew(table, k) THEN NotVisiting ELSE place
    /\ UNCHANGED <<hidden, visited>>

\* t[] = v: numbers that were stored to nodes before are not looked at.
TableSetNext(v) ==
    /\ NextNum(table) < MaxNum
    /\ table' = StoreNext(table, v)
    /\ stored' = [stored EXCEPT ![<<"num", NextNum(table)>>] = v]
    /\ hidden' = hidden \cup Covered(table)
    /\ place' = NotVisiting
    /\ UNCHANGED <<visited, lasting>>

TableClean ==
    /\ table' = FreshTable(Len(table.vec), Len(table.node))
    /\ stored' = [k \in Keys |-> Nil]
    /\ hidden' = {}
    /\ lasting' = {}
    /\ UNCHANGED <<place, visited>>

TableBegin ==
    /\ place = NotVisiting
    /\ place' = -1 /\ visited' = <<>>
    /\ lasting' = {k \in Keys : stored[k] # Nil}
    /\ UNCHANGED <<table, stored, hidden>>

TableVisit ==
    /\ place # NotVisiting
    /\ LET next == Following(table, place)
       IN  IF next = End
           THEN place' = NotVisiting /\ lasting' = {} /\ visited' = <<>>
           ELSE /\ place' = next
                /\ visited' = Append(visited, <<KeyAt(table, next), ValueAt(table, next)>>)
                /\ UNCHANGED lasting
    /\ UNCHANGED <<table, stored, hidden>>

TableNext ==
    \/ \E k \in Keys : \E v \in Vals \cup {Nil} : TableSet(k, v)
    \/ \E v \in Vals : TableSetNext(v)
    \/ TableClean \/ TableBegin \/ TableVisit

TableSpec == TableInit /\ [][TableNext]_tableVars
-----------------------------------------------------------------------------
\* Under every key the table finds what was stored there last, whatever was
\* removed, reused, moved or resized in between, unless the vector has grown over
\* the key's node, so that it finds the place of the vector instead.
IsMap == \A k \in Keys \ hidden : Get(table, k) = stored[k]

\* The count is that of the keys with a value, and no key has two entries, but for
\* the keys that the vector has grown over: of such a key there are at most two.
Counted ==
    LET there == Cardinality({k \in Keys \ hidden : stored[k] # Nil})
    IN  CountTable(table) \in there .. there + 2 * Cardinality(hidden)

\* A visit gives no key twice and only values that are stored now, and when it
\* ends it has given every key that had a value all along, although values
\* were stored and removed while it went on; but for hidden keys.
GivesOnce ==
    TableVisit =>
        IF Following(table, place) = End
        THEN lasting \ hidden \subseteq {visited[i][1] : i \in DOMAIN visited}
        ELSE LET given == visited'[Len(visited')]
             IN  given[1] \notin hidden =>
                     /\ given[2] = stored[given[1]]
                     /\ \A i \in DOMAIN visited : visited[i][1] # given[1]
EachOnce == [][GivesOnce]_tableVars
=============================================================================
