--------------------------- MODULE MCProfileSync ---------------------------
EXTENDS ProfileSync, TLC
CONSTANTS k1, v1, v2
MCRequests == {OhPeers, Peers}
Plain(v) == <<k1, "plain">> :> v
Oh(v) == <<k1, "oh">> :> v
MCBatches == {Plain(v1), Plain(None), Oh(v2), Oh(None), Plain(v1) @@ Oh(v2)}
CallerSymmetry == Permutations(Callers)
=============================================================================
