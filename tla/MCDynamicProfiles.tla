-------------------------- MODULE MCDynamicProfiles --------------------------
EXTENDS DynamicProfiles, TLC

\* One profile of every kind on each device; the peer's characteristic is one
\* that a repair looks for.
MCLocalNames == {"dev", "svr", "char"}
MCPeerNames == {"peerDev", "peerSvr", "peerChar"}
MCKind == [n \in MCLocalNames |-> n]
          @@ ("peerDev" :> "dev" @@ "peerSvr" :> "svr" @@ "peerChar" :> "char")

\* At the start both devices have their profiles without a user, but for the
\* local characteristic; the peer's characteristic was written here.
StartNames == {"dev", "svr"} \cup MCPeerNames
MCBefore == [k \in Keys |-> IF k[1] \in StartNames /\ k[2] = NoUser
                            THEN <<NoUser, CHOOSE v \in Values : TRUE>> ELSE None]
MCOthers == {Plain("peerDev"), Plain("peerSvr")}

\* Others may write the local characteristic, of a user or not, and the peer's.
MCForeignKeys(us) == {<<"char", u>> : u \in us} \cup {Plain("peerChar")}
PlainAndUser == MCForeignKeys({NoUser, CHOOSE u \in Users : TRUE})

TaskSymmetry == Permutations(Tasks)
=============================================================================
