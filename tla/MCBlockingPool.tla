----------------------------- MODULE MCBlockingPool -----------------------------
(* Two processes on one vault: a server with a worker and a thread that    *)
(* is none, each with a TaskStore of its own, and a command line.          *)
EXTENDS BlockingPool, TLC

CONSTANTS t1, t2, t3, P, Q

MCProcessOf == [t \in Threads |-> IF t = t3 THEN Q ELSE P]

H(p, l, f, id, prj) == [process |-> p, level |-> l, file |-> f, id |-> id, project |-> prj]

Mutation(p) == H(p, 1, "mutation", "rlock", "none")
Store(p, id) == H(p, 2, "tasks", id, "none")
Project(p, id) == H(p, 3, id, "rlock", id)

AllHandles == {Mutation(P), Mutation(Q), Store(P, "store1"), Store(P, "store2"),
               Store(Q, "store3"), Project(P, "alpha"), Project(Q, "alpha")}

CallSymmetry == Permutations(Calls)
================================================================================
