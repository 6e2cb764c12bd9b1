------------------------- MODULE MCProcessLifecycle -------------------------
EXTENDS ProcessLifecycleProofs, TLC
=============================================================================
