------------------------------- MODULE EventLog -------------------------------
(***************************************************************************)
(* What a project's event ledger promises its callers, whatever files,     *)
(* locks, crashes and repairs lie underneath: one sequence of events that  *)
(* only grows, each event linked to the one before it, and a set of        *)
(* acknowledged events that never leaves the sequence.                     *)
(***************************************************************************)
EXTENDS Integers, Sequences

CONSTANT NoKey   \* an event without idempotency key

VARIABLES
    log,    \* the events, in sequence order
    acked   \* the events some call has returned to its caller

vars == <<log, acked>>

(* The event at position i carries sequence number i and the hash of the   *)
(* event before it; the first one carries the empty hash (0).              *)
Linked(s, i) ==
    /\ s[i].seq = i
    /\ s[i].prev = IF i = 1 THEN 0 ELSE s[i-1].uid

(* An append never stores a second event under an idempotency key that the *)
(* sequence already holds; an imported event is exempt, as in the code.    *)
KeyIsNew(s, i) ==
    s[i].key = NoKey \/ s[i].imported \/ \A j \in 1..(i-1) : s[j].key # s[i].key

Init ==
    /\ log = <<>>
    /\ acked = {}

Extend ==
    /\ Len(log') = Len(log) + 1
    /\ \A i \in 1..Len(log) : log'[i] = log[i]
    /\ Linked(log', Len(log'))
    /\ KeyIsNew(log', Len(log'))
    /\ acked' = acked

Acknowledge ==
    /\ acked \subseteq acked'
    /\ \A e \in acked' : \E i \in 1..Len(log) : log[i] = e
    /\ log' = log

Next == Extend \/ Acknowledge

Spec == Init /\ [][Next]_vars
===============================================================================
