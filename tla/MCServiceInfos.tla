--------------------------- MODULE MCServiceInfos ---------------------------
EXTENDS ServiceInfos, TLC
CONSTANTS own, peer, u1, s1, s2, v1, v2
Key(d, s) == [udid |-> d, userId |-> u1, serviceId |-> s]
MCKeys == {Key(own, s1), Key(own, s2), Key(peer, s1)}
MCUserInfos == {Key(own, s1), [udid |-> own, userId |-> u1, serviceId |-> AnyId],
                [udid |-> peer, userId |-> AnyId, serviceId |-> AnyId]}
InfoSymmetry == Permutations(Infos)
=============================================================================
