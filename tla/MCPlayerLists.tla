--------------------------- MODULE MCPlayerLists ---------------------------
(* Instances of PlayerLists for TLC. *)
EXTENDS PlayerLists, TLC

Alike == Permutations(Players) \cup Permutations(Gids) \cup Permutations(Servers)

\* Groups and messages share no state: behaviours go on where nobody is in a group
\* or there was no message yet.
MessageOrGroups == msgs = 0 \/ gid = [a \in Players |-> NoGid]

=============================================================================
