----------------------------- MODULE MCInfraBroker -----------------------------
(* Small instances of InfraBroker.                                         *)
EXTENDS InfraBroker, TLC

CONSTANTS r1, r2, k1, k2, P

Write(k, a) == [op |-> "replicate", key |-> k, approval |-> a, run |-> NoRun]
TryDry == [op |-> "dry-run", key |-> NoKey, approval |-> NoApproval, run |-> NoRun]
Inspect(r) == [op |-> "verify", key |-> NoKey, approval |-> NoApproval, run |-> r]

(* Workers and runs are alike, here and in the properties.                 *)
Alike == Permutations(Workers) \cup Permutations(Runs)

OneKey == {Write(k1, P), Inspect(r1)}
TwoKeys == {Write(k1, P), Write(k2, P), Write(k2, NoApproval), TryDry,
            Inspect(r1), Inspect(r2)}
================================================================================
