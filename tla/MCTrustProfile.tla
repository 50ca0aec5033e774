--------------------------- MODULE MCTrustProfile ---------------------------
EXTENDS TrustProfile, TLC

\* Two devices that trust this one, two users there, LNN and plain ACLs.
Me == [dev |-> "me", user |-> "u0", acct |-> "x", tok |-> "a"]
Me2 == [dev |-> "me", user |-> "u0", acct |-> "x", tok |-> "b"]
PeerA == [dev |-> "A", user |-> "u1", acct |-> "x", tok |-> "a"]
PeerA2 == [dev |-> "A", user |-> "u2", acct |-> "x", tok |-> "a"]
PeerB == [dev |-> "B", user |-> "u1", acct |-> "y", tok |-> "a"]

Ask(q, e, d, s, l) == [acer |-> q, acee |-> e, dev |-> d, attr |-> "k",
                       status |-> s, lnn |-> l]

OneDevice == {Ask(Me, PeerA, "A", 1, FALSE), Ask(Me2, PeerA, "A", 0, FALSE),
              Ask(Me2, PeerA, "A", 1, FALSE)}
\* Another user of A, an LNN ACL with the parties the other way round, and a
\* second device whose ACL shares the accesser.
TwoDevices == OneDevice \cup {Ask(Me, PeerA2, "A", 0, FALSE),
                              Ask(PeerA, Me, "A", 1, TRUE),
                              Ask(Me, PeerB, "B", 1, FALSE)}

Symmetry == Permutations(Threads)
=============================================================================
