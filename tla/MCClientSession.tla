--------------------------- MODULE MCClientSession ---------------------------
EXTENDS ClientSession, TLC

UserSymmetry == Permutations(Users)
=============================================================================
