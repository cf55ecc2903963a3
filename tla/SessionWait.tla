---------------------------- MODULE SessionWait ----------------------------
(***************************************************************************)
(* Session with a clock for each save: how long ago the logical server was *)
(* asked to save the player.  rbtF_player_login has no such clock: it      *)
(* compares the current time with come_tm, which rbtF_player_init sets at  *)
(* login and rbtF_player_logout leaves alone.                              *)
(***************************************************************************)
EXTENDS Session

VARIABLE wait  \* history: time since the save was asked for, saturating

WInit == Init /\ wait = [a \in Accounts |-> 0]

WNext ==
    \/ /\ Packets
       /\ wait' = [a \in Accounts |-> IF owed'[a] = owed[a] THEN wait[a] ELSE 0]
    \/ /\ Tick
       /\ wait' = [a \in Accounts |-> IF wait[a] <= SaveTimeout
                                      THEN wait[a] + 1 ELSE wait[a]]

WSpec == WInit /\ [][WNext]_<<vars, wait>>

\* A save that is due is given SaveTimeout before a login takes it for done
\* (twice_login.c:92: "15 seconds later, the save has not returned, regard it
\* as saved"), so that the next session does not load the character before the
\* last one is saved.
NoRushedLogin ==
    [][\A a \in Accounts, z \in Zones :
          LoginForced(a, z) /\ owed[a] # NoConn => wait[a] > SaveTimeout
      ]_<<vars, wait>>

=============================================================================
