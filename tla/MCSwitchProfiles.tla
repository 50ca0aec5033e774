------------------------- MODULE MCSwitchProfiles -------------------------
EXTENDS SwitchProfiles, TLC
MCRequests == {0 :> 0, 1 :> 1, 0 :> 2 @@ 1 :> 1}
MCDefaults == 0 :> 0 @@ 1 :> 1
MCStartWord == {0}
MCPeerWords == {{0}, {1}}
MCSubKeys == {<<p, 0>> : p \in Peers}
=============================================================================
