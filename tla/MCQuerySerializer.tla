-------------------------- MODULE MCQuerySerializer --------------------------
EXTENDS QuerySerializerProofs, TLC
=============================================================================
