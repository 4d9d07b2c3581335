----------------------------- MODULE MCTaskService -----------------------------
(* Small instances of TaskService: one task, one decision, two callers.    *)
EXTENDS TaskService

CONSTANTS T, d1, k1, k2

Kills(at) == {<<"kill", l>> : l \in at}
Errors(at) == {<<"error", l>> : l \in at}

KillsAndErrors == Kills({"enter", "scan", "made", "body", "undo", "clean", "rm", "leave"})
                    \cup Errors({"body", "undo"})

Create(t, to, key) == [op |-> "create", task |-> t, to |-> to, key |-> key]
Transition(t, to, key, cas) ==
    [op |-> "transition", task |-> t, to |-> to, key |-> key, cas |-> cas]
Decide(d, t) == [op |-> "decide", dec |-> d, task |-> t, key |-> NoKey]
Resolve(d, by) == [op |-> "resolve", dec |-> d, by |-> by, key |-> NoKey]

TaskCommands == {Create(T, "working", k1), Transition(T, "ready", k2, FALSE),
                 Transition(T, "blocked", NoKey, TRUE), Transition(T, "completed", NoKey, TRUE)}
DecisionCommands == {Decide(d1, T), Resolve(d1, "alice"), Resolve(d1, "bob")}
AllCommands == TaskCommands \cup DecisionCommands
================================================================================
