-------------------------- MODULE GroupMembership --------------------------
(***************************************************************************)
(* What the groups of the logical servers promise (player.h: "a player can *)
(* be in one group at a time, a singly linked list suffices"): sets of     *)
(* players, each player in at most one of them.                            *)
(***************************************************************************)
CONSTANTS Players, Servers, Gids

VARIABLE members  \* the players of each group of each server

Init == members = [s \in Servers |-> [g \in Gids |-> {}]]

\* A player enters a group and leaves the one it was in, and nobody else moves.
Enter(a, s, g) ==
    members' = [t \in Servers |-> [h \in Gids |->
                   IF t = s /\ h = g THEN members[t][h] \cup {a}
                                     ELSE members[t][h] \ {a}]]

\* A player leaves its group, and nobody else does.
Leave(a) ==
    members' = [t \in Servers |-> [h \in Gids |-> members[t][h] \ {a}]]

\* A server is gone, with all its groups.
Clear(s) == members' = [members EXCEPT ![s] = [g \in Gids |-> {}]]

Next ==
    \/ \E a \in Players : Leave(a) \/ \E s \in Servers, g \in Gids : Enter(a, s, g)
    \/ \E s \in Servers : Clear(s)

Spec == Init /\ [][Next]_members

=============================================================================
