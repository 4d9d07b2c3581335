------------------------------ MODULE MCTaskStore ------------------------------
(* Small instances of TaskStore: two files, and transactions over one or   *)
(* both of them.                                                           *)
EXTENDS TaskStore

CONSTANTS snapshot, journal, v1, v2

(* A created task, a transition, an appended event.                        *)
TaskPlans == {
    [touch |-> <<snapshot, journal>>, writes |-> <<<<snapshot, v1>>, <<journal, v1>>>>],
    [touch |-> <<snapshot, journal>>, writes |-> <<<<snapshot, v2>>, <<journal, v2>>>>],
    [touch |-> <<journal>>, writes |-> <<<<journal, v1>>>>] }

Kills(at) == {<<"kill", l>> : l \in at}
Errors(at) == {<<"error", l>> : l \in at}
Interrupts(at) == {<<"interrupt", l>> : l \in at}

AllKills == Kills(PCs \ {"idle"})
AllErrors == Errors({"scan", "made", "body", "undo"})
KillsAndErrors == AllKills \cup AllErrors

Everything == Kills(PCs) \cup Errors(PCs) \cup Interrupts(PCs)
================================================================================
