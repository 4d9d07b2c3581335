---------------------------- MODULE MCGovernedState ----------------------------
(* Instances of GovernedState: a project that is about to be closed, with a *)
(* task that is done, another that may join it and a pending decision, and  *)
(* a new project.                                                           *)
EXTENDS GovernedState

CONSTANTS t1, t2, d0, d1, e1, lead, other

MCBaseTasks == t1 :> "completed" @@ t2 :> "open"
MCBaseDecisions == d0 :> "approved" @@ d1 :> "pending"

Assoc(type, id) == [type |-> type, id |-> id]
Role(op, actor) == [type |-> op, role |-> "Accountable", actor |-> actor]
Phase(to, approvals) ==
    [type |-> "phase", to |-> to, reopen |-> to = "EXECUTION", refs |-> {e1},
     approvals |-> approvals, by |-> lead, reason |-> TRUE]
Passed(from, to, tasks, decs, approved) ==
    [type |-> "evaluated", from |-> from, to |-> to, tasks |-> tasks, decisions |-> decs,
     approved |-> approved, receipts |-> {}, refs |-> {}, accountable |-> lead]

(* Created, chartered and started with the approval d0.                     *)
NewBase ==
    << [type |-> "created", owner |-> TRUE],
       [type |-> "evidence", ref |-> e1, kind |-> "charter"],
       Role("raci.assigned", lead) >>

ClosingBase == NewBase \o
    << Passed("DISCOVERY", "PLANNING", <<>>, <<>>, {}), Phase("PLANNING", {}),
       Assoc("task.associated", t1), Assoc("decision.associated", d0),
       Passed("PLANNING", "EXECUTION", t1 :> Unknown, d0 :> "approved", {d0}),
       Phase("EXECUTION", {d0}),
       Assoc("decision.disassociated", d0),
       [Passed("EXECUTION", "CLOSING", t1 :> Done("completed"), <<>>, {})
            EXCEPT !.receipts = {<<t1, 2>>}],
       Phase("CLOSING", {}), Assoc("decision.associated", d1) >>

MCWrites ==
    {Phase("CLOSED", {d1}), Phase("EXECUTION", {d1}), Assoc("task.associated", t2),
     Assoc("task.disassociated", t1), Role("raci.assigned", other),
     [type |-> "public", fits |-> FALSE]}

MCCalls ==
    [kind : {"dod"}, refs : {{e1}}]
    \cup [kind : {"override"}, gate : {"dod_final_closing"}, actor : {lead},
          by : {lead, d1}, refs : {{e1}}]
================================================================================
