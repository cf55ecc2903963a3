----------------------------- MODULE MCLibrary -----------------------------
(***************************************************************************)
(* The data structures of the library, one at a time: they share no state,   *)
(* so a behaviour works on one and leaves the others in their first state.   *)
(***************************************************************************)
EXTENDS HashTable, Collector, Packets, Amf

VARIABLE part

TableStep == part = "table" /\ TableNext /\ UNCHANGED <<part, gcVars, packetVars, amfVars>>
CollectorStep == part = "collector" /\ CollectorNext /\ UNCHANGED <<part, tableVars, packetVars, amfVars>>
PacketStep == part = "packets" /\ PacketNext /\ UNCHANGED <<part, tableVars, gcVars, amfVars>>
AmfStep == part = "codec" /\ AmfNext /\ UNCHANGED <<part, tableVars, gcVars, packetVars>>

LibraryInit ==
    /\ part \in {"table", "collector", "packets", "codec"}
    /\ TableInit /\ CollectorInit /\ PacketInit /\ AmfInit
    /\ part # "codec" => writer = "server" /\ value = NilValue
LibraryNext == TableStep \/ CollectorStep \/ PacketStep \/ AmfStep

\* The fairness of CollectorSpec, for the behaviours that are about it.
CollectorTurns == part = "collector" /\ Collect /\ UNCHANGED <<part, tableVars, packetVars, amfVars>>
LibrarySpec ==
    LibraryInit /\ [][LibraryNext]_<<part, tableVars, gcVars, packetVars, amfVars>> /\ WF_gcVars(CollectorTurns)
=============================================================================
