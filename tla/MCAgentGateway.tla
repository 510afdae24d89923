--------------------------- MODULE MCAgentGateway ---------------------------
(* TLC instance of AgentGateway: two workers, two turns, two connections.   *)
EXTENDS AgentGateway, TLC

CONSTANTS w1, w2, s1, f1, f2, c1, c2

MCWorker == {w1, w2}
MCServer == {s1}
MCFile == {f1, f2}
MCConn == {c1, c2}

Symmetry == Permutations(MCWorker)
            \cup Permutations(MCFile) \cup Permutations(MCConn)
=============================================================================
