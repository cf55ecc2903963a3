----------------------------- MODULE Collector -----------------------------
(***************************************************************************)
(* The garbage collector (gc.c), which works in steps between the handlers    *)
(* of the program, with what the program does to its objects in between:     *)
(* storing and erasing references, finding strings among the interned ones  *)
(* (string.c), putting contexts of scripts away (script.c, remote_call.c,   *)
(* script_misc.c), creating zones (handle_server.c).                          *)
(***************************************************************************)
EXTENDS Naturals, FiniteSets

CONSTANTS Root,         \* the object of the program, r->_G
          Tables,       \* objects with a gc_traverse: tables, contexts, ...
          Old,          \* those that are in the root at first
          Strings,      \* strings, by what they say
          Zones,
          MaxHandlers   \* bound: what the program does to its objects

ASSUME CollectorAssumption ==
    /\ Root \notin Tables \cup Strings /\ Tables \cap Strings = {}
    /\ Old \subseteq Tables /\ MaxHandlers \in Nat

VARIABLES mark,         \* of each object, "free" when there is none
          white,        \* currentwhite
          status,       \* gc_status
          gclist, gray, \* the two lists of objects
          queue,        \* gc_queue, as the set of what is in it
          full,         \* what is left of a full collection
          refs,         \* what an object refers to
          held,         \* the contexts in busy_param and sleep_list_busy
          name,         \* zones[].name
          handlers,     \* how many there were
          scanned       \* history: traversed in this cycle, or new since it began
heap == <<mark, white, status, gclist, gray>>
gcVars == <<mark, white, status, gclist, gray, queue, full, refs, held, name, handlers, scanned>>

Parents == {Root} \cup Tables           \* the objects with a gc_traverse
Objects == Parents \cup Strings
NoName == "none"
Whites == {"white 0", "white 1"}        \* marks; currentwhite is the one of this cycle
OtherWhite == CHOOSE w \in Whites : w # white

\* What can be followed from the objects of a set.
ReachFrom(from) ==
    {o \in Objects : \A closed \in SUBSET Objects :
        (from \subseteq closed /\ \A p \in closed \cap Parents : refs[p] \subseteq closed) => o \in closed}
Reach == ReachFrom({Root} \cup held)

GcTypeOK ==
    /\ mark \in [Objects -> {"free", "stable"} \cup Whites] /\ white \in Whites
    /\ status \in {"PAUSE", "MARK", "SWEEP"} /\ full \in {"no", "finish", "whole"}
    /\ gclist \subseteq Objects /\ gray \subseteq Objects /\ queue \subseteq Parents
    /\ refs \in [Parents -> SUBSET Objects] /\ held \subseteq Tables
    /\ name \in [Zones -> Strings \cup {NoName}]
    /\ scanned \subseteq Parents /\ handlers \in 0..MaxHandlers
-----------------------------------------------------------------------------
\* rbtC_mark of each object of a set: one that is marked already is left, one
\* that is stable keeps its mark and is queued again each time.
Marked(m, w, set) == [o \in Objects |-> IF o \in set /\ m[o] # "stable" THEN w ELSE m[o]]
QueuedAgain(m, w, set) == set \cap Parents
Queued(m, w, set) == {o \in set \cap Parents : m[o] # w}
MarkAllEarly(set) ==
    IF status = "SWEEP" THEN UNCHANGED <<mark, queue>>
    ELSE mark' = Marked(mark, white, set) /\ queue' = queue \cup Queued(mark, white, set)

MarkAll(set) ==
    /\ mark' = Marked(mark, white, set)
    /\ queue' = queue \cup Queued(mark, white, set)

\* rbtC_link of an object that did not exist.
Link(o) ==
    /\ mark' = [mark EXCEPT ![o] = white]
    /\ gclist' = gclist \cup {o}
    /\ scanned' = scanned \cup ({o} \cap Parents)

\* Handlers of the program run between the steps, but not inside a full collection.
Handler == full = "no" /\ handlers < MaxHandlers /\ handlers' = handlers + 1

\* setvalue and the other macros that store.
StoreValue(t, o) ==
    /\ Handler /\ {t, o} \subseteq Reach /\ t \in Parents
    /\ refs' = [refs EXCEPT ![t] = @ \cup {o}]
    /\ MarkAll({o})
    /\ UNCHANGED <<white, status, gclist, gray, full, held, name, scanned>>

EraseValue(t, o) ==
    /\ Handler /\ t \in Reach \cap Parents /\ o \in refs[t]
    /\ refs' = [refs EXCEPT ![t] = @ \ {o}]
    /\ UNCHANGED <<heap, queue, full, held, name, scanned>>

\* Where a new table or context is, does not matter.
Unused == CHOOSE o \in Tables : mark[o] = "free"
Room == \E o \in Tables : mark[o] = "free"

\* A new table, stored at once.
StoreTable(t) ==
    /\ Handler /\ t \in Reach \cap Parents /\ Room
    /\ Link(Unused)
    /\ refs' = [refs EXCEPT ![t] = @ \cup {Unused}, ![Unused] = {}]
    /\ UNCHANGED <<white, status, gray, queue, full, held, name>>

\* rbtS_init_len or rbtS_concatenate, then a store: an interned string that
\* nothing refers to any more comes back to life.
StoreString(t, s) ==
    /\ Handler /\ t \in Reach \cap Parents
    /\ refs' = [refs EXCEPT ![t] = @ \cup {s}]
    /\ IF mark[s] = "free" THEN Link(s) /\ UNCHANGED queue
       ELSE MarkAll({s}) /\ UNCHANGED <<gclist, scanned>>
    /\ UNCHANGED <<white, status, gray, full, held, name>>

\* rbtC_stable.
MakeStable(o) ==
    /\ Handler /\ o \in Reach \ {Root} /\ mark[o] # "stable"
    /\ mark' = [mark EXCEPT ![o] = "stable"]
    /\ UNCHANGED <<white, status, gclist, gray, queue, full, refs, held, name, scanned>>

\* get_ctx for a script, which stores what it works on in its registers and
\* is put away by rbtRpc_call or rbtScript_sleep.
SaveContext(used) ==
    /\ Handler /\ Room /\ used \subseteq Reach
    /\ mark' = [Marked(mark, white, used) EXCEPT ![Unused] = white]
    /\ queue' = queue \cup Queued(mark, white, used)
    /\ gclist' = gclist \cup {Unused} /\ scanned' = scanned \cup {Unused}
    /\ refs' = [refs EXCEPT ![Unused] = used]
    /\ held' = held \cup {Unused}
    /\ UNCHANGED <<white, status, gray, full, name>>

\* It is resumed and ends: nothing holds the context.
EndContext(c) ==
    /\ Handler /\ c \in held
    /\ held' = held \ {c}
    /\ UNCHANGED <<heap, queue, full, refs, name, scanned>>

\* handle_create_zone with rbtS_init_io: the name is read before the zone is
\* looked up; an interned string is returned as it is.
ReadName(s) ==
    IF mark[s] = "free" THEN Link(s) ELSE UNCHANGED <<mark, gclist, scanned>>
CreateZone(z, s) ==
    /\ Handler /\ name[z] = NoName
    /\ ReadName(s)
    /\ name' = [name EXCEPT ![z] = s]
    /\ UNCHANGED <<white, status, gray, queue, full, refs, held>>
CreateZoneAgain(s) ==
    /\ Handler
    /\ ReadName(s)
    /\ UNCHANGED <<white, status, gray, queue, full, refs, held, name>>
-----------------------------------------------------------------------------
\* rbtC_begin with traverse_rabbit.
GcBegin ==
    /\ status = "PAUSE"
    /\ gray' = gclist /\ gclist' = {}
    /\ white' = OtherWhite
    /\ mark' = Marked(mark, white', {Root} \cup held)
    /\ queue' = queue \cup Queued(mark, white', {Root} \cup held)
    /\ scanned' = {}
    /\ status' = "MARK"
    /\ UNCHANGED <<full, refs, held, name, handlers>>

\* What the gc_traverse of an object marks; that of the root (server.c) also
\* marks the names of zones.
Children(o) == refs[o] \cup IF o = Root THEN {name[z] : z \in Zones} \ {NoName} ELSE {}

MarkStep ==
    /\ status = "MARK"
    /\ \E o \in queue :
          /\ mark' = Marked(mark, white, Children(o))
          /\ queue' = (queue \ {o}) \cup Queued(mark, white, Children(o))
          /\ scanned' = scanned \cup {o}
          /\ status' = IF queue' = {} THEN "SWEEP" ELSE status
    /\ UNCHANGED <<white, gclist, gray, full, refs, held, name, handlers>>

\* A stable object leaves the lists, one that was not marked is released.
Released(o) == mark[o] \notin {white, "stable"}
SweepStep ==
    /\ status = "SWEEP" /\ gray # {}
    /\ \E o \in gray :
          /\ gray' = gray \ {o}
          /\ gclist' = IF mark[o] = white THEN gclist \cup {o} ELSE gclist
          /\ mark' = IF Released(o) THEN [mark EXCEPT ![o] = "free"] ELSE mark
    /\ status' = IF gray' = {} THEN "PAUSE" ELSE status
    /\ full' = IF gray' # {} THEN full ELSE IF full = "finish" THEN "whole" ELSE "no"
    /\ UNCHANGED <<white, queue, refs, held, name, handlers, scanned>>

\* The part of rbtC_auto_gc that calls rbtC_full_gc: a cycle that was begun is
\* ended, and another one follows.
StartFullAtOnce ==
    /\ full = "no" /\ full' = "whole"
    /\ UNCHANGED <<heap, queue, refs, held, name, handlers, scanned>>

StartFull ==
    /\ full = "no"
    /\ full' = IF status = "PAUSE" THEN "whole" ELSE "finish"
    /\ UNCHANGED <<heap, queue, refs, held, name, handlers, scanned>>

CollectorInit ==
    /\ white = "white 0" /\ status = "PAUSE" /\ full = "no"
    /\ mark = [o \in Objects |-> IF o \in {Root} \cup Old THEN white ELSE "free"]
    /\ gclist = {Root} \cup Old /\ scanned = {Root} \cup Old
    /\ refs = [p \in Parents |-> IF p = Root THEN Old ELSE {}]
    /\ gray = {} /\ queue = {} /\ held = {}
    /\ name = [z \in Zones |-> NoName] /\ handlers = 0

Collect == GcBegin \/ MarkStep \/ SweepStep
CollectorNext ==
    \/ \E t \in Parents, o \in Objects : StoreValue(t, o) \/ EraseValue(t, o)
    \/ \E t \in Parents : StoreTable(t) \/ \E s \in Strings : StoreString(t, s)
    \/ \E o \in Objects : MakeStable(o)
    \/ \E used \in SUBSET Objects : SaveContext(used)
    \/ \E c \in Tables : EndContext(c)
    \/ \E s \in Strings : CreateZoneAgain(s) \/ \E z \in Zones : CreateZone(z, s)
    \/ StartFull \/ Collect

CollectorSpec == CollectorInit /\ [][CollectorNext]_gcVars /\ WF_gcVars(Collect)
-----------------------------------------------------------------------------
\* Nothing that the program can get at from its root or from a script that
\* waits has been released, whatever was stored between the steps of a cycle.
Safe == \A o \in Reach : mark[o] # "free"

\* Where stable tables refer to each other in a ring, marking never ends.
StableRing == \E o \in Tables : /\ mark[o] = "stable"
                                /\ \E p \in refs[o] \cap Tables : mark[p] = "stable" /\ o \in ReachFrom({p})

\* A full collection comes to its end, if there is no such ring.
FullEnds == []~StableRing => (full # "no" ~> full = "no")

\* When it has, what is left can be reached, is kept as stable, or is the name
\* of a zone.
FullExact ==
    [][full = "whole" /\ full' = "no" =>
        \A o \in Objects :
            \/ mark'[o] \in {"free", "stable"}
            \/ \E z \in Zones : name[z] = o
            \/ o \in ReachFrom({Root} \cup held \cup {p \in Parents : mark[p] = "stable"})]_gcVars

\* handle_server.c keeps the name of a zone for the logs.
NameKept == \A z \in Zones : name[z] = NoName \/ mark[name[z]] # "free"
=============================================================================
