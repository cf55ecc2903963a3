------------------------------- MODULE Lists -------------------------------
(***************************************************************************)
(* The lists of rbtlib/list.h as sequences of what is linked in: the        *)
(* player_list of a logical server and the unauthed_list of the network.    *)
(***************************************************************************)
EXTENDS Integers, Sequences, SequencesExt

\* list_del of a node, which is in one list; one that is in none is left alone.
Place(list, a) == CHOOSE j \in DOMAIN list : list[j] = a
Unlinked(list, a) == IF a \in Range(list) THEN RemoveAt(list, Place(list, a)) ELSE list

=============================================================================
