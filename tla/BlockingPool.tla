------------------------------ MODULE BlockingPool ------------------------------
(***************************************************************************)
(* The bounded worker pool of core/mutation.py: the coroutines of one      *)
(* process hand blocking operations to its worker threads through          *)
(* run_blocking.  A call polls for a slot, submits its operation, and      *)
(* polls the future; it may be cancelled whenever it sleeps.  The          *)
(* operations take the locks of LockHierarchy, in competition with each    *)
(* other and with the threads of other processes.                          *)
(***************************************************************************)
EXTENDS LockHierarchy, Integers, FiniteSets

CONSTANTS
    Server,         \* the process of the event loop
    Workers,        \* those of its threads that run the operations
    Calls, NoCall   \* calls of run_blocking

VARIABLES
    call,    \* what each call asks for, how far it is and what it reports
    job,     \* the future of each call
    does,    \* the call whose operation a worker runs
    slots    \* value of _blocking_slots

(* The operations that have a slot.                                        *)
Admitted == {c \in Calls : job[c].st \in {"pending", "running"}}

poolVars == <<call, job, does, slots>>

(* _blocking_worker_limit: as many slots as threads.                       *)
Limit == Cardinality(Workers)

ASSUME PoolAssumption ==
    /\ Workers \subseteq {t \in Threads : ProcessOf[t] = Server}
    /\ IsFiniteSet(Workers) /\ IsFiniteSet(Calls) /\ NoCall \notin Calls

NewCall(mutation) ==
    [pc |-> "queued", mutation |-> mutation, out |-> "none"]

NoJob == [st |-> "none", ok |-> FALSE]

PoolInit ==
    /\ Init
    /\ call \in [Calls -> {NewCall(mutation) : mutation \in BOOLEAN}]
    /\ job = [c \in Calls |-> NoJob]
    /\ does = [w \in Workers |-> NoCall]
    /\ slots = Limit

Ends(c, out) == call' = [call EXCEPT ![c].pc = "ended", ![c].out = out]

CancelQueued(c) ==
    /\ call[c].pc = "queued"
    /\ Ends(c, "cancelled")
    /\ UNCHANGED <<vars, job, does, slots>>

(* A slot and the submission, without an await in between.                 *)
Submit(c) ==
    /\ call[c].pc = "queued" /\ slots > 0
    /\ slots' = slots - 1
    /\ job' = [job EXCEPT ![c].st = "pending"]
    /\ call' = [call EXCEPT ![c].pc = "polling"]
    /\ UNCHANGED <<vars, does>>

(* submit raises; the slot is given back.                                  *)
SubmitFails(c) ==
    /\ call[c].pc = "queued" /\ slots > 0
    /\ Ends(c, "failed")
    /\ UNCHANGED <<vars, job, does, slots>>

Run(w, c) ==
    /\ does[w] = NoCall /\ job[c].st = "pending"
    /\ does' = [does EXCEPT ![w] = c]
    /\ job' = [job EXCEPT ![c].st = "running"]
    /\ UNCHANGED <<vars, call, slots>>

(* The operation ends, and the worker gives the slot back ...              *)
Finish(w, ok) == LET c == does[w] IN
    /\ c # NoCall /\ job[c].st = "running"
    /\ held[w] = <<>> /\ want[w] = NoWant
    /\ job' = [job EXCEPT ![c] = [st |-> "leaving", ok |-> ok]]
    /\ slots' = slots + 1
    /\ UNCHANGED <<vars, call, does>>

(* ... before it sets the result of the future and is free itself.         *)
Deliver(w) == LET c == does[w] IN
    /\ c # NoCall /\ job[c].st = "leaving"
    /\ job' = [job EXCEPT ![c].st = "done"]
    /\ does' = [does EXCEPT ![w] = NoCall]
    /\ UNCHANGED <<vars, call, slots>>

(* Mutant: a cancelled read gives its slot back, running or not.           *)
AbandonAndRelease(c) ==
    /\ call[c].pc = "polling" /\ ~call[c].mutation
    /\ job' = [job EXCEPT ![c].st = IF @ = "pending" THEN "cancelled" ELSE @]
    /\ slots' = slots + 1
    /\ Ends(c, "cancelled")
    /\ UNCHANGED <<vars, does>>

(* A read is cancelled: its operation is withdrawn if no worker has it     *)
(* yet, and abandoned otherwise.                                           *)
Abandon(c) ==
    /\ call[c].pc = "polling" /\ ~call[c].mutation
    /\ IF job[c].st = "pending"
       THEN job' = [job EXCEPT ![c].st = "cancelled"] /\ slots' = slots + 1
       ELSE UNCHANGED <<job, slots>>
    /\ Ends(c, "cancelled")
    /\ UNCHANGED <<vars, does>>

(* Mutant: the caller of a mutation is let go too.                         *)
HeedAtOnce(c) ==
    /\ call[c].pc = "polling" /\ call[c].mutation
    /\ Ends(c, "cancelled")
    /\ UNCHANGED <<vars, job, does, slots>>

(* A mutation is cancelled: its caller goes on waiting for the outcome.    *)
Heed(c) ==
    /\ call[c].pc = "polling" /\ call[c].mutation
    /\ call' = [call EXCEPT ![c].pc = "joining"]
    /\ UNCHANGED <<vars, job, does, slots>>

Return(c) ==
    /\ call[c].pc \in {"polling", "joining"} /\ job[c].st = "done"
    /\ Ends(c, IF ~job[c].ok THEN "failed"
               ELSE IF call[c].pc = "joining" THEN "cancelled" ELSE "ok")
    /\ UNCHANGED <<vars, job, does, slots>>

(* A worker is inside an operation; threads of other processes are free.   *)
Operates(t) == t \in Workers => does[t] # NoCall /\ job[does[t]].st = "running"

LockStep(t) ==
    /\ Operates(t)
    /\ Step(t) \/ Release(t) \/ \E h \in Handles : Ask(t, h)
    /\ UNCHANGED poolVars

(* A process is killed.  The server is started again with an empty pool,   *)
(* and the calls it had taken on are gone.                                 *)
Crash(p) ==
    /\ Kill(p)
    /\ IF p # Server THEN UNCHANGED poolVars ELSE
        /\ call' = [c \in Calls |-> IF call[c].pc \in {"polling", "joining"}
                                    THEN [call[c] EXCEPT !.pc = "lost"] ELSE call[c]]
        /\ job' = [c \in Calls |-> IF call[c].pc = "ended" /\ job[c].st = "done"
                                   THEN job[c] ELSE NoJob]
        /\ does' = [w \in Workers |-> NoCall]
        /\ slots' = Limit

PoolNext ==
    \/ \E c \in Calls :
        \/ CancelQueued(c) \/ Submit(c) \/ SubmitFails(c)
        \/ Abandon(c) \/ Heed(c) \/ Return(c)
        \/ \E w \in Workers : Run(w, c)
    \/ \E w \in Workers : Deliver(w) \/ \E ok \in BOOLEAN : Finish(w, ok)
    \/ \E t \in Threads : LockStep(t)
    \/ \E p \in Processes : Crash(p)

PoolSpec == PoolInit /\ [][PoolNext]_<<vars, poolVars>>

-----------------------------------------------------------------------------
(* Every variable of the pool has its type.                                *)
PoolTypeOK ==
    /\ call \in [Calls -> [pc : {"queued", "polling", "joining", "ended", "lost"},
                           mutation : BOOLEAN,
                           out : {"none", "ok", "failed", "cancelled"}]]
    /\ job \in [Calls -> [st : {"none", "pending", "running", "leaving", "done", "cancelled"},
                          ok : BOOLEAN]]
    /\ does \in [Workers -> Calls \cup {NoCall}]
    /\ slots \in Int

(* Every slot is free or taken by one operation that has not ended: no     *)
(* slot is lost with a cancelled or killed call, and none is given back    *)
(* twice, which the semaphore would answer with a ValueError.              *)
SlotsAccounted ==
    slots + Cardinality(Admitted) = Limit

(* What a mutation reports is true of its operation: it has ended with     *)
(* that outcome, or was never submitted (mutation.py:112, "mutations keep  *)
(* observing the future until the outcome is known").                      *)
TruthfulOutcome == \A c \in Calls :
    call[c].mutation /\ call[c].pc = "ended" =>
        IF job[c].st = "done"
        THEN call[c].out = "failed" <=> ~job[c].ok
        ELSE job[c].st = "none" /\ call[c].out # "ok"
================================================================================
