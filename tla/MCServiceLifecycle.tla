------------------------- MODULE MCServiceLifecycle -------------------------
EXTENDS ServiceLifecycle, TLC

\* A call carries a dynamic profile, a switch, or both at once.
AnyBatch == {{"dynamic"}, {"switch"}, Kinds}

=============================================================================
