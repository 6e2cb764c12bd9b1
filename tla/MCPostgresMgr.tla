--------------------------- MODULE MCPostgresMgr ---------------------------
(* Two peers, one catch-up slot beyond the one the code needs, a           *)
(* replication timeout of one poll.                                        *)
EXTENDS PostgresMgrWrites, TLC

CONSTANTS p1, p2

MCPeers == {p1, p2}
MCTaskSlots == {1, 2}
MCSymmetry == Permutations(MCPeers)
=============================================================================
