-------------------------- MODULE MCKnowledgeIndex --------------------------
(* Two versions with chunks, two requests and two workers.                 *)
EXTENDS KnowledgeIndex, TLC

CONSTANTS v1, v2, c1, c2, w1, w2

MCVersions == {v1, v2}
MCClients == {c1, c2}
MCWorkers == {w1, w2}

(* Nothing fails, or anything may; and a process that is only restarted.   *)
NoneOrAll == {{}, Faults}
OnlyRestart == {{"restart"}}

Symmetry == Permutations(MCVersions) \cup Permutations(MCClients) \cup Permutations(MCWorkers)
=============================================================================
