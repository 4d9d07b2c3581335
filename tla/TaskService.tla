------------------------------ MODULE TaskService ------------------------------
(***************************************************************************)
(* Tasks and decisions (core/task_service.py, core/decision_service.py)    *)
(* over the transactional files of TaskStore.                              *)
(*                                                                         *)
(* A task is a snapshot, a journal of events, one completion receipt per   *)
(* completing revision and a checkpoint at every CheckpointEvery-th event. *)
(* A decision is a file bound to a task revision, and a receipt once it is *)
(* resolved.  A caller may read the task first (get_task takes no lock) and*)
(* pass the revision it saw as expected_revision; it then makes one call   *)
(* with a store of its own, which the model follows through every write of *)
(* the transaction and through faults.                                     *)
(***************************************************************************)
EXTENDS TaskStore

CONSTANTS
    Tasks, Decisions,
    Keys, NoKey,      \* idempotency keys
    States,           \* the task states in use
    CheckpointEvery,  \* 5 in the code
    Commands,         \* the calls that are made
    MaxRevision       \* bound on the revisions of a task

VARIABLES
    call,   \* the command each store serves
    seen,   \* the snapshot its caller had read before, of which task, and
            \* whether it was "clean": not of a transaction still under way
    acked,  \* <<task, event>> pairs that were answered
    late    \* decisions whose expires_at has passed

svcVars == <<call, seen, acked, late>>
vars == <<storeVars, svcVars>>

NoCall == [op |-> "none"]
Snap(t) == <<"snapshot", t>>
Events(t) == <<"events", t>>
Receipt(t, rev) == <<"receipt", t, rev>>
Checkpoint(t, n) == <<"checkpoint", t, n>>
Decided(d) == <<"decision", d>>
DecisionReceipt(d) == <<"decision-receipt", d>>

Revisions == 1..MaxRevision

ServiceFiles ==
    {Snap(t) : t \in Tasks} \cup {Events(t) : t \in Tasks}
    \cup {Receipt(t, n) : t \in Tasks, n \in Revisions}
    \cup {Checkpoint(t, n) : t \in Tasks, n \in Revisions}
    \cup {Decided(d) : d \in Decisions} \cup {DecisionReceipt(d) : d \in Decisions}

(* What they hold: PowerTask, TaskEvent, TaskCompletionReceipt, Decision    *)
(* and DecisionReceipt (a checkpoint is a snapshot).                       *)
KeysOrNone == Keys \cup {NoKey}

Snapshots == [rev : Revisions, st : States]
TaskEvents == [key : KeysOrNone, cmd : {"create", "transition"} \X States \X Nat,
               result : Snapshots]
Actors == {"nobody"} \cup {c.by : c \in {k \in Commands : k.op = "resolve"}}
DecisionFiles == [task : Tasks, rev : Revisions, status : {"pending", "resolved"},
                  by : Actors]
DecisionReceipts == [rev : Revisions, by : Actors]

ServiceImages ==
    Snapshots \cup Seq(TaskEvents) \cup (Tasks \X Revisions)
    \cup DecisionFiles \cup DecisionReceipts

(* The calls: create_task, transition_task, create_decision,               *)
(* resolve_decision; "cas" passes expected_revision.                       *)
ServiceCommands ==
    [op : {"create"}, task : Tasks, to : States, key : KeysOrNone]
    \cup [op : {"transition"}, task : Tasks, to : States, key : KeysOrNone, cas : BOOLEAN]
    \cup [op : {"decide"}, dec : Decisions, task : Tasks, key : {NoKey}]
    \cup [op : {"resolve"}, dec : Decisions, by : Actors, key : {NoKey}]

ASSUME ServiceAssumption ==
    /\ MaxRevision \in Nat \ {0}
    /\ ServiceFiles \subseteq Files
    /\ Commands \subseteq ServiceCommands

Terminal == {"completed", "failed", "canceled", "rejected"}

(* VALID_TRANSITIONS; a task may also be "moved" to the state it is in.    *)
From(st, to) == {st} \X to
Moves == UNION {
    From("backlog", {"ready", "submitted", "working", "canceled"}),
    From("ready", {"backlog", "working", "input-required", "auth-required",
                   "blocked", "canceled", "rejected"}),
    From("submitted", {"backlog", "ready", "working", "input-required",
                       "auth-required", "blocked", "canceled", "rejected"}),
    From("working", {"ready", "completed", "failed", "blocked",
                     "input-required", "auth-required", "canceled"}),
    From("input-required", {"working", "ready", "canceled", "failed"}),
    From("auth-required", {"working", "ready", "canceled", "failed", "rejected"}),
    From("blocked", {"ready", "working", "canceled", "failed"}) }

CanTransition(from, to) == from = to \/ <<from, to>> \in Moves

-----------------------------------------------------------------------------
(* The callers.                                                            *)

ServiceInit ==
    /\ Init
    /\ call = [s \in Stores |-> NoCall]
    /\ seen = [s \in Stores |-> NoFile]
    /\ acked = {}
    /\ late = {}

(* get_task: no lock, whatever is on disk.                                 *)
ReadTask(s, t) ==
    /\ pc[s] = "idle"
    /\ file[Snap(t)] # NoFile
    /\ seen' = [seen EXCEPT ![s] =
                    [of |-> t, at |-> file[Snap(t)],
                     clean |-> file[Snap(t)] = truth[Snap(t)]]]
    /\ UNCHANGED <<storeVars, call, acked, late>>

Call(s, c) ==
    /\ Enter(s)
    /\ made + Cardinality({r \in Stores : pc[r] # "idle"}) < MaxTx
    /\ (c.op = "transition" /\ c.cas) => seen[s] # NoFile /\ seen[s].of = c.task
    /\ call' = [call EXCEPT ![s] = c]
    /\ UNCHANGED <<seen, acked, late>>

(* The clock passes a decision's expires_at.                               *)
Expire(d) ==
    /\ d \notin late
    /\ late' = late \cup {d}
    /\ UNCHANGED <<storeVars, call, seen, acked>>

-----------------------------------------------------------------------------
(* What a call does once it holds the lock.                                *)

Journal(t) == IF file[Events(t)] = NoFile THEN <<>> ELSE file[Events(t)]

(* _find_idempotent_result: the first event with the key decides.          *)
Keyed(c) == {i \in 1..Len(Journal(c.task)) :
    /\ c.key # NoKey /\ Journal(c.task)[i].key = c.key
    /\ \A j \in 1..(i-1) : Journal(c.task)[j].key # c.key}

(* command_sha256: what was asked for, the key left out.                   *)
Fingerprint(c, exp) == <<c.op, c.to, exp>>

Expected(s) == IF call[s].op = "transition" /\ call[s].cas THEN seen[s].at.rev ELSE 0

Replay(s) ==
    /\ call[s].op \in {"create", "transition"}
    /\ file[Snap(call[s].task)] # NoFile
    /\ \E i \in Keyed(call[s]) :
        Journal(call[s].task)[i].cmd = Fingerprint(call[s], Expected(s))

(* Mutant: the journal is not asked for the key.                           *)
KeyFreeUnchecked(s) == TRUE

KeyFree(s) == Keyed(call[s]) = {}

Result(rev, to) == [rev |-> rev, st |-> to]
EventOf(s, rev) == [key |-> call[s].key, cmd |-> Fingerprint(call[s], Expected(s)),
                    result |-> Result(rev, call[s].to)]

CreateOK(s) ==
    /\ call[s].op = "create"
    /\ file[Snap(call[s].task)] = NoFile
    /\ call[s].to \notin Terminal

CreatePlan(s) == LET t == call[s].task IN
    [touch |-> <<Snap(t), Events(t)>>,
     writes |-> << <<Snap(t), Result(1, call[s].to)>>,
                   <<Events(t), Append(Journal(t), EventOf(s, 1))>> >>]

(* Mutant: the revision is compared with "at most".                        *)
RevisionMatchesLoosely(s, now) == call[s].cas => seen[s].at.rev <= now.rev

RevisionMatches(s, now) == call[s].cas => seen[s].at.rev = now.rev

(* infra_* checks and the receipt handed over by the caller are left out.  *)
TransitionOK(s) == LET c == call[s]
                       now == file[Snap(c.task)] IN
    /\ c.op = "transition"
    /\ now # NoFile /\ Journal(c.task) # <<>>
    /\ KeyFree(s)
    /\ RevisionMatches(s, now)
    /\ c.to = "completed" => c.cas
    /\ CanTransition(now.st, c.to)
    /\ now.rev < MaxRevision

(* Mutant: a completion does not write its receipt.                        *)
ReceiptWritesNone(t, rev, to) == <<>>

ReceiptWrites(t, rev, to) ==
    IF to = "completed" THEN << <<Receipt(t, rev), <<t, rev>>>> >> ELSE <<>>

(* Mutant: the event records the revision it started from.                 *)
TransitionPlanStale(s) ==
    LET c == call[s]
        rev == file[Snap(c.task)].rev
    IN [touch |-> <<Snap(c.task), Events(c.task)>>,
        writes |-> << <<Snap(c.task), Result(rev + 1, c.to)>>,
                      <<Events(c.task), Append(Journal(c.task), EventOf(s, rev))>> >>]

(* Mutant: the journal is written anew instead of extended.                *)
TransitionPlanOverwrites(s) ==
    LET c == call[s]
        rev == file[Snap(c.task)].rev + 1
    IN [touch |-> <<Snap(c.task), Events(c.task)>>,
        writes |-> << <<Snap(c.task), Result(rev, c.to)>>,
                      <<Events(c.task), <<EventOf(s, rev)>> >> >>]

(* save_task: the snapshot, the receipt, the journal, the checkpoint.      *)
TransitionPlan(s) ==
    LET c == call[s]
        rev == file[Snap(c.task)].rev + 1
        n == Len(Journal(c.task)) + 1
        receipt == ReceiptWrites(c.task, rev, c.to)
        check == IF n % CheckpointEvery = 0 THEN <<Checkpoint(c.task, n)>> ELSE <<>>
    IN [touch |-> <<Snap(c.task), Events(c.task)>> \o check
                    \o [i \in 1..Len(receipt) |-> receipt[i][1]],
        writes |-> << <<Snap(c.task), Result(rev, c.to)>> >> \o receipt
                    \o << <<Events(c.task), Append(Journal(c.task), EventOf(s, rev))>> >>
                    \o [i \in 1..Len(check) |-> <<check[i], Result(rev, c.to)>>]]

DecideOK(s) == LET c == call[s] IN
    /\ c.op = "decide"
    /\ file[Decided(c.dec)] = NoFile
    /\ file[Snap(c.task)] # NoFile
    /\ c.dec \notin late

DecidePlan(s) == LET c == call[s] IN
    [touch |-> <<Decided(c.dec)>>,
     writes |-> << <<Decided(c.dec),
        [task |-> c.task, rev |-> file[Snap(c.task)].rev, status |-> "pending",
         by |-> "nobody"]>> >>]

BoundTo(dec) == file[Snap(dec.task)].rev = dec.rev

(* The actor, authority and proposal checks refuse more.                   *)
ResolveOK(s) == LET c == call[s]
                    dec == file[Decided(c.dec)] IN
    /\ c.op = "resolve"
    /\ dec # NoFile
    /\ dec.status = "pending" /\ c.dec \notin late
    /\ file[Snap(dec.task)] # NoFile
    /\ BoundTo(dec)

(* Mutant: resolving a decision counts as a revision of its task.          *)
ResolvePlanRevises(s) ==
    LET c == call[s]
        dec == file[Decided(c.dec)]
        now == file[Snap(dec.task)]
    IN [touch |-> <<Snap(dec.task), Decided(c.dec), DecisionReceipt(c.dec)>>,
        writes |-> << <<Snap(dec.task), Result(now.rev + 1, now.st)>>,
                      <<Decided(c.dec), [dec EXCEPT !.status = "resolved", !.by = c.by]>>,
                      <<DecisionReceipt(c.dec), [rev |-> dec.rev, by |-> c.by]>> >>]

ResolvePlan(s) == LET c == call[s]
                      dec == file[Decided(c.dec)] IN
    [touch |-> <<Decided(c.dec), DecisionReceipt(c.dec)>>,
     writes |-> << <<Decided(c.dec), [dec EXCEPT !.status = "resolved", !.by = c.by]>>,
                   <<DecisionReceipt(c.dec), [rev |-> dec.rev, by |-> c.by]>> >>]

ResolveAgain(s) == LET c == call[s] IN
    /\ c.op = "resolve"
    /\ file[Decided(c.dec)] # NoFile
    /\ file[Decided(c.dec)].status = "resolved" /\ file[Decided(c.dec)].by = c.by

-----------------------------------------------------------------------------
Writes(s) ==
    \/ CreateOK(s) /\ Begin(s, CreatePlan(s))
    \/ TransitionOK(s) /\ Begin(s, TransitionPlan(s))
    \/ DecideOK(s) /\ Begin(s, DecidePlan(s))
    \/ ResolveOK(s) /\ Begin(s, ResolvePlan(s))

StartWriting(s) == Writes(s) /\ UNCHANGED svcVars

Answers(s, e) == acked' = acked \cup {<<call[s].task, e>>}

(* A retry is answered with the result of the first attempt.               *)
AnswerReplay(s) ==
    /\ Decline(s) /\ Replay(s)
    /\ \E i \in Keyed(call[s]) : Answers(s, Journal(call[s].task)[i])
    /\ UNCHANGED <<call, seen, late>>

(* A conflict, a stale revision, an illegal transition, a missing file;    *)
(* a decision that is already resolved this way is answered unchanged.     *)
Refuse(s) ==
    /\ Decline(s)
    /\ ~Replay(s)
    /\ ~(CreateOK(s) \/ TransitionOK(s) \/ DecideOK(s) \/ ResolveOK(s))
    /\ UNCHANGED svcVars

(* The caller of a finished or killed call reads again before the next one.*)
Gone(s) ==
    /\ call' = [call EXCEPT ![s] = NoCall]
    /\ seen' = [seen EXCEPT ![s] = NoFile]

(* The call comes back; a task command that committed is answered.         *)
Finish(s) ==
    /\ Leave(s)
    /\ IF job[s].ok /\ call[s].op \in {"create", "transition"}
       THEN Answers(s, LET j == Journal(call[s].task) IN j[Len(j)])
       ELSE UNCHANGED acked
    /\ Gone(s) /\ UNCHANGED late

(* The steps of TaskStore, faults included; a call may end in them.        *)
Running(s) ==
    /\ RefuseBlocked(s) \/ Acquire(s) \/ Recovery(s) \/ Work(s) \/ Fault(s)
    /\ IF pc'[s] = "idle" THEN Gone(s) ELSE UNCHANGED <<call, seen>>
    /\ UNCHANGED <<acked, late>>

ServiceNext ==
    \/ \E s \in Stores :
        \/ \E t \in Tasks : ReadTask(s, t)
        \/ \E c \in Commands : Call(s, c)
        \/ StartWriting(s) \/ AnswerReplay(s) \/ Refuse(s) \/ Finish(s)
        \/ Running(s)
    \/ \E d \in Decisions : Expire(d)

ServiceSpec == ServiceInit /\ [][ServiceNext]_vars

-----------------------------------------------------------------------------
Opened == \E s \in Stores : pc[s] = "open"

(* Under the lock a snapshot is the result its last event recorded, and    *)
(* revisions count the events, whatever was killed before.                 *)
SnapshotFollowsJournal == Opened => \A t \in Tasks :
    LET j == Journal(t) IN
    /\ file[Snap(t)] = NoFile <=> j = <<>>
    /\ j # <<>> => file[Snap(t)] = j[Len(j)].result
    /\ \A i \in 1..Len(j) : j[i].result.rev = i

(* A command that is retried under one idempotency key, after an answer    *)
(* or after a kill, has one effect.                                        *)
OneEffectPerKey == \A t \in Tasks : \A i, j \in 1..Len(Journal(t)) :
    (Journal(t)[i].key = Journal(t)[j].key /\ i # j) => Journal(t)[i].key = NoKey

(* What was answered is in the journal of whoever opens it later.          *)
AnsweredIsKept == Opened => \A p \in acked :
    \E i \in 1..Len(Journal(p[1])) : Journal(p[1])[i] = p[2]

(* No task is completed without the receipt of that revision.  A decision  *)
(* file that says resolved and the receipt of the resolution are both      *)
(* there or both absent, whatever was killed between them.                 *)
ReceiptsMatch == Opened =>
    /\ \A t \in Tasks :
        (file[Snap(t)] # NoFile /\ file[Snap(t)].st = "completed")
            => file[Receipt(t, file[Snap(t)].rev)] = <<t, file[Snap(t)].rev>>
    /\ \A d \in Decisions :
        (file[Decided(d)] # NoFile /\ file[Decided(d)].status = "resolved")
            <=> file[DecisionReceipt(d)] # NoFile

(* A decision is resolved at the revision of its task that it was          *)
(* requested for (resolve_decision).                                       *)
DecidedOnItsRevision ==
    [][\A d \in Decisions :
        (/\ file[Decided(d)] # NoFile /\ file'[Decided(d)] # NoFile
         /\ file[Decided(d)].status = "pending"
         /\ file'[Decided(d)].status = "resolved")
            => file[Snap(file[Decided(d)].task)].rev = file[Decided(d)].rev]_vars

(* The step in which s accepts a transition with expected_revision.        *)
Applies(s) ==
    /\ pc[s] = "open" /\ pc'[s] = "made"
    /\ call[s].op = "transition" /\ call[s].cas

(* A transition with expected_revision applies to the very task state its  *)
(* caller had read, unless that was of a transaction not committed yet.    *)
AppliesToSeen ==
    [][\A s \in Stores :
        (Applies(s) /\ seen[s].clean) => file[Snap(call[s].task)] = seen[s].at]_vars
================================================================================
