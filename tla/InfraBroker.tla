------------------------------ MODULE InfraBroker ------------------------------
(***************************************************************************)
(* The admission of writes in core/infra_broker.py.                        *)
(*                                                                         *)
(* REPLICATE copies a snapshot (a run, named by its content) to a remote   *)
(* host, which cannot be undone and must not be repeated blindly.  Before  *)
(* the transfer the broker writes an admission, an idempotency record, an  *)
(* approval marker and a reservation in the run record; every attempt has  *)
(* an owner token that fences earlier attempts with the same key.  VERIFY  *)
(* compares the remote side and resolves a run whose outcome is unknown.   *)
(*                                                                         *)
(* Every file is read and written on its own: a step below is one such     *)
(* access, and requests of several threads and daemons interleave between  *)
(* them.  Steps under _state_lock need it free; the rollback of a stale    *)
(* admission and the resolution of a run keep it for several writes.  A    *)
(* key stands for an idempotency key of one principal.                     *)
(***************************************************************************)
EXTENDS Naturals, FiniteSets

CONSTANTS
    Workers, NoWorker,      \* request threads, of one or more daemons
    Runs, NoRun,            \* the contents that the source roots may have
    Keys, NoKey,
    Approvals, NoApproval,  \* one-time approvals; NoApproval: a standing one
    Requests,               \* the requests that are made
    DryRunRequired,         \* dry_run_policy = "required"
    None,                   \* no such file
    ClocksAgree,            \* the wall clock does not gain on the monotonic one
    MaxAttempts             \* bound on the calls

Request ==
    [op : {"replicate"}, key : Keys, approval : Approvals \cup {NoApproval}, run : {NoRun}]
    \cup [op : {"dry-run"}, key : {NoKey}, approval : {NoApproval}, run : {NoRun}]
    \cup [op : {"verify"}, key : {NoKey}, approval : {NoApproval}, run : Runs]

ASSUME BrokerAssumption ==
    /\ NoWorker \notin Workers
    /\ NoRun \notin Runs
    /\ NoKey \notin Keys
    /\ NoApproval \notin Approvals
    /\ Requests \subseteq Request
    /\ DryRunRequired \in BOOLEAN
    /\ ClocksAgree \in BOOLEAN
    /\ MaxAttempts \in Nat

Tokens == 1..MaxAttempts
DryRunKinds == {"dry-passed", "dry-failed", "dry-blocked"}
ReceiptKinds == {"written", "verified"} \cup DryRunKinds
Receipt == [kind : ReceiptKinds, token : Tokens, key : Keys \cup {NoKey}, run : Runs]

(* The files.                                                              *)
AdmissionFile == [st : {"prepared", "started"}, approval : Approvals \cup {NoApproval},
                  run : Runs, token : Tokens]
IdemFile == [st : {"in-progress", "completed"}, approval : Approvals \cup {NoApproval},
             run : Runs, token : Tokens, receipt : Receipt \cup {None}]
RunFile == [dry : BOOLEAN, dryReceipt : Receipt \cup {None}, wip : BOOLEAN,
            key : Keys \cup {NoKey}, token : 0..MaxAttempts, done : BOOLEAN,
            receipt : Receipt \cup {None}]
UseFile == [key : Keys, token : Tokens]

ASSUME NoneAssumption ==
    None \notin AdmissionFile \cup IdemFile \cup RunFile \cup UseFile \cup Receipt

VARIABLES
    adm,       \* admissions/: per key
    idem,      \* idempotency/: per key
    run,       \* runs/: per run
    use,       \* approval-uses/: per one-time approval
    receipts,  \* receipts/: the ids on disk
    lock,      \* who keeps _state_lock and its file lock over several steps
    remote,    \* what the receiver has of each run
    pc, job,   \* the request of each worker: where it is, its local variables
    attempts,  \* calls so far; the number of a call is its owner token
    begun,     \* transfers begun so far, with their key, token and approval
    answered   \* keys and runs that REPLICATE answered with OK

files == <<adm, idem, run, use, receipts>>
outer == <<remote, attempts, begun, answered>>
vars == <<adm, idem, run, use, receipts, lock, remote, pc, job,
          attempts, begun, answered>>

ReceiptOf(kind, t, k, r) == [kind |-> kind, token |-> t, key |-> k, run |-> r]

FreshRun == [dry |-> FALSE, dryReceipt |-> None, wip |-> FALSE, key |-> NoKey,
             token |-> 0, done |-> FALSE, receipt |-> None]

NoJob == [op |-> "none", key |-> NoKey, approval |-> NoApproval, run |-> NoRun,
          token |-> 0, adm |-> None, recovering |-> FALSE, seen |-> FALSE,
          claimed |-> FALSE, reserved |-> FALSE, late |-> FALSE,
          owner |-> 0, receipt |-> None, todo |-> {}]

Init ==
    /\ adm = [k \in Keys |-> None]
    /\ idem = [k \in Keys |-> None]
    /\ run = [r \in Runs |-> None]
    /\ use = [a \in Approvals |-> None]
    /\ receipts = {}
    /\ lock = NoWorker
    /\ remote = [r \in Runs |-> "absent"]
    /\ pc = [w \in Workers |-> "idle"]
    /\ job = [w \in Workers |-> NoJob]
    /\ attempts = 0
    /\ begun = {}
    /\ answered = {}

-----------------------------------------------------------------------------
At(w, l) == pc[w] = l
Locked(w, l) == At(w, l) /\ lock = NoWorker /\ UNCHANGED lock
Go(w, l) == pc' = [pc EXCEPT ![w] = l]
Keep(w, j) == job' = [job EXCEPT ![w] = j]
End(w) == Go(w, "idle") /\ Keep(w, NoJob)

Call(w, q) ==
    /\ At(w, "idle") /\ attempts < MaxAttempts
    /\ attempts' = attempts + 1
    /\ Keep(w, [NoJob EXCEPT !.op = q.op, !.key = q.key, !.approval = q.approval,
                             !.run = q.run, !.token = attempts'])
    /\ Go(w, "enter")
    /\ UNCHANGED <<files, lock, remote, begun, answered>>

-----------------------------------------------------------------------------
(* _ensure_state_capacity first rolls back prepared admissions that are    *)
(* older than an hour.  A prepared admission may be that old at any time,  *)
(* but if the clocks agree the deadline of its request (set before, at     *)
(* most an hour off) is over then.  job.todo = {k}: the key in hand.       *)

(* _load_run_record takes a record for missing that names the receipt of a  *)
(* blocked dry run, whose id begins with ibr_ and not with ir_.            *)
Legible(r) ==
    run[r] # None /\ run[r].dryReceipt # None => run[r].dryReceipt.kind # "dry-blocked"

Claim(k, r) == run[r] # None /\ run[r].wip /\ ~run[r].done /\ run[r].key = k

Expires(v, k) == ClocksAgree /\ job[v].token = adm[k].token

RollbackRun(w, k) ==
    /\ At(w, "enter") /\ lock = NoWorker
    /\ adm[k] # None /\ adm[k].st = "prepared" /\ Legible(adm[k].run)
    /\ lock' = w
    /\ LET r == adm[k].run IN
       run' = IF Claim(k, r) /\ run[r].token = adm[k].token
              THEN [run EXCEPT ![r].wip = FALSE, ![r].key = NoKey, ![r].token = 0]
              ELSE run
    /\ job' = [v \in Workers |->
                 [job[v] EXCEPT !.todo = IF v = w THEN {k} ELSE @,
                                !.late = @ \/ Expires(v, k)]]
    /\ Go(w, "roll-idem")
    /\ UNCHANGED <<adm, idem, use, receipts, outer>>

RollbackIdem(w) ==
    /\ At(w, "roll-idem")
    /\ \E k \in job[w].todo :
        idem' = IF /\ idem[k] # None /\ idem[k].st = "in-progress"
                   /\ idem[k].run = adm[k].run /\ idem[k].approval = adm[k].approval
                   /\ idem[k].token = adm[k].token
                THEN [idem EXCEPT ![k] = None] ELSE idem
    /\ Go(w, "roll-use")
    /\ UNCHANGED <<adm, run, use, receipts, lock, job, outer>>

Marks(a, k, t) == a \in Approvals /\ use[a] # None /\ use[a].key = k /\ use[a].token = t

RollbackUse(w) ==
    /\ At(w, "roll-use")
    /\ \E k \in job[w].todo : LET a == adm[k].approval IN
        use' = IF Marks(a, k, adm[k].token) THEN [use EXCEPT ![a] = None] ELSE use
    /\ Go(w, "roll-adm")
    /\ UNCHANGED <<adm, idem, run, receipts, lock, job, outer>>

RollbackAdm(w) ==
    /\ At(w, "roll-adm")
    /\ \E k \in job[w].todo : adm' = [adm EXCEPT ![k] = None]
    /\ lock' = NoWorker
    /\ Keep(w, [job[w] EXCEPT !.todo = {}]) /\ Go(w, "enter")
    /\ UNCHANGED <<idem, run, use, receipts, outer>>

Rollback(w) ==
    (\E k \in Keys : RollbackRun(w, k)) \/ RollbackIdem(w) \/ RollbackUse(w) \/ RollbackAdm(w)

(* ... and then serves the request.                                        *)
Admit(w) ==
    /\ At(w, "enter")
    /\ Go(w, CASE job[w].op = "replicate" -> "read"
               [] job[w].op = "dry-run" -> "dry-snapshot"
               [] job[w].op = "verify" -> "compare")
    /\ UNCHANGED <<files, lock, job, outer>>

-----------------------------------------------------------------------------
(* REPLICATE up to its intent: _admit_and_execute reads what earlier       *)
(* attempts left, takes a snapshot and checks the run.                     *)

(* What every refusal and every error outside a rollback does.             *)
Refuse(w) == End(w) /\ UNCHANGED <<files, lock, outer>>

ReadAdmission(w) ==
    /\ At(w, "read")
    /\ Keep(w, [job[w] EXCEPT !.adm = adm[job[w].key]])
    /\ Go(w, "replay")
    /\ UNCHANGED <<files, lock, outer>>

(* The admission that w read is one of the same request, not started yet.  *)
Resumes(w) == LET a == job[w].adm IN
    a # None /\ a.st = "prepared" /\ a.approval = job[w].approval

(* A completed record is replayed if run and receipt bear it out.          *)
Replayable(k) ==
    /\ idem[k] # None /\ idem[k].st = "completed"
    /\ LET r == idem[k].run IN
        /\ Legible(r) /\ run[r].done /\ ~run[r].wip
        /\ run[r].receipt = idem[k].receipt
        /\ idem[k].receipt \in receipts /\ idem[k].receipt.key = k

Replay(w) == LET k == job[w].key IN
    /\ At(w, "replay")
    /\ Replayable(k) /\ idem[k].approval = job[w].approval
    /\ Keep(w, [job[w] EXCEPT !.run = idem[k].run]) /\ Go(w, "forget")
    /\ UNCHANGED <<files, lock, outer>>

(* The replay removes an admission that was left, whoever owns it.         *)
Forget(w) ==
    /\ Locked(w, "forget")
    /\ adm' = [adm EXCEPT ![job[w].key] = None]
    /\ answered' = answered \cup {<<job[w].key, job[w].run>>}
    /\ End(w)
    /\ UNCHANGED <<idem, run, use, receipts, remote, attempts, begun>>

(* A record in progress is taken over from an admission that was only      *)
(* prepared; without any record the request is new, unless its admission   *)
(* has been started.                                                       *)
Recovers(w) == LET i == idem[job[w].key] IN
    /\ i # None /\ i.st = "in-progress" /\ i.approval = job[w].approval
    /\ Resumes(w) /\ job[w].adm.run = i.run

IsNew(w) ==
    /\ idem[job[w].key] = None
    /\ job[w].adm # None => job[w].adm.st # "started"

GoOn(w) ==
    /\ At(w, "replay")
    /\ Recovers(w) \/ IsNew(w)
    /\ Keep(w, [job[w] EXCEPT !.recovering = Recovers(w)])
    /\ Go(w, "snapshot")
    /\ UNCHANGED <<files, lock, outer>>

Unknown(w) ==
    /\ At(w, "replay")
    /\ ~Recovers(w) /\ ~IsNew(w)
    /\ ~(Replayable(job[w].key) /\ idem[job[w].key].approval = job[w].approval)
    /\ Refuse(w)

(* A prepared admission names the run to go on with; otherwise the sources *)
(* are copied, whatever they hold by now, and the run is recorded; an      *)
(* existing record is kept.                                                *)
Snapshot(w) ==
    /\ Locked(w, "snapshot")
    /\ IF job[w].adm # None
       THEN /\ Resumes(w) /\ Legible(job[w].adm.run)
            /\ Keep(w, [job[w] EXCEPT !.run = job[w].adm.run])
            /\ UNCHANGED run
       ELSE \E r \in Runs :
            /\ Legible(r)
            /\ Keep(w, [job[w] EXCEPT !.run = r])
            /\ run' = IF run[r] = None THEN [run EXCEPT ![r] = FreshRun] ELSE run
    /\ Go(w, "check")
    /\ UNCHANGED <<adm, idem, use, receipts, outer>>

(* Mutant: the result in the run record is enough.                         *)
DryRunOKByFlag(r) == DryRunRequired => run[r].dry

DryRunOK(r) == DryRunRequired =>
    run[r].dry /\ run[r].dryReceipt \in receipts /\ run[r].dryReceipt.kind = "dry-passed"

(* Not copied yet, not being copied by others, and tried with a dry run.   *)
MayWrite(w) == LET r == job[w].run IN
    /\ ~run[r].done
    /\ run[r].wip => job[w].adm # None /\ job[w].adm.run = r
    /\ DryRunOK(r)

Check(w) ==
    /\ At(w, "check")
    /\ Legible(job[w].run) /\ MayWrite(w)
    /\ Keep(w, [job[w] EXCEPT !.seen = run[job[w].run].wip]) /\ Go(w, "prepare")
    /\ UNCHANGED <<files, lock, outer>>

-----------------------------------------------------------------------------
(* REPLICATE from its intent to the transfer.                              *)

(* Mutant: any admission of the key will do.                               *)
OwnsAny(w) == adm[job[w].key] # None

Owns(w) == LET a == adm[job[w].key] IN a # None /\ a.token = job[w].token
OwnsPrepared(w) == Owns(w) /\ adm[job[w].key].st = "prepared"

Admission(w) == [st |-> "prepared", approval |-> job[w].approval, run |-> job[w].run,
                 token |-> job[w].token]

(* _prepare_admission: creates it, or fences the one that is there.        *)
Prepare(w) == LET a == adm[job[w].key] IN
    /\ Locked(w, "prepare")
    /\ a # None => /\ a.approval = job[w].approval /\ a.run = job[w].run
                   /\ a.st = "prepared"
    /\ adm' = [adm EXCEPT ![job[w].key] = Admission(w)]
    /\ Go(w, "claim")
    /\ UNCHANGED <<idem, run, use, receipts, job, outer>>

(* _claim_idempotency: creates the record, or takes one in progress over.  *)
Claims(w) == LET i == idem[job[w].key] IN
    /\ OwnsPrepared(w)
    /\ i # None => /\ job[w].recovering /\ i.st = "in-progress"
                   /\ i.approval = job[w].approval /\ i.run = job[w].run

ClaimIdem(w) ==
    /\ Locked(w, "claim")
    /\ Claims(w)
    /\ idem' = [idem EXCEPT ![job[w].key] =
            [st |-> "in-progress", approval |-> job[w].approval, run |-> job[w].run,
             token |-> job[w].token, receipt |-> None]]
    /\ Keep(w, [job[w] EXCEPT !.claimed = ~job[w].recovering, !.reserved = job[w].seen])
    /\ Go(w, "approve")
    /\ UNCHANGED <<adm, run, use, receipts, outer>>

(* _claim_one_time_approval: the marker of the same key is taken over.     *)
Approves(w) == LET a == job[w].approval IN
    (a # NoApproval /\ use[a] # None) => use[a].key = job[w].key

Approve(w) == LET a == job[w].approval IN
    /\ Locked(w, "approve")
    /\ Approves(w)
    /\ use' = IF a = NoApproval THEN use
              ELSE [use EXCEPT ![a] = [key |-> job[w].key, token |-> job[w].token]]
    /\ Go(w, "reserve")
    /\ UNCHANGED <<adm, idem, run, receipts, job, outer>>

(* Mutant: the reservation is not compared with what Check saw.            *)
ReservesUnchecked(w) == OwnsPrepared(w) /\ ~run[job[w].run].done

(* _reserve_run_for_write, or _rebind_run_reservation if the run was seen  *)
(* reserved already.                                                       *)
Reserves(w) == LET r == job[w].run IN
    /\ OwnsPrepared(w)
    /\ ~run[r].done
    /\ run[r].wip <=> job[w].seen
    /\ job[w].seen => run[r].key = job[w].key

Reserve(w) == LET r == job[w].run IN
    /\ Locked(w, "reserve")
    /\ Legible(r) /\ Reserves(w)
    /\ run' = [run EXCEPT ![r].wip = TRUE, ![r].key = job[w].key, ![r].token = job[w].token]
    /\ Keep(w, [job[w] EXCEPT !.reserved = TRUE]) /\ Go(w, "start")
    /\ UNCHANGED <<adm, idem, use, receipts, outer>>

(* _mark_admission_started: from here on only VERIFY resolves the run.     *)
Start(w) ==
    /\ Locked(w, "start")
    /\ OwnsPrepared(w)
    /\ adm' = [adm EXCEPT ![job[w].key].st = "started"]
    /\ Go(w, "execute")
    /\ UNCHANGED <<idem, run, use, receipts, job, outer>>

-----------------------------------------------------------------------------
(* The way back before anything has been sent.                             *)

(* The except branch: a check fails, or an approval or the policy has been *)
(* withdrawn meanwhile.  An attempt that resumed another one and has not   *)
(* reserved the run leaves everything as it is.                            *)
GiveUp(w) ==
    /\ pc[w] \in {"approve", "reserve", "start"}
    /\ job[w].reserved \/ job[w].claimed
    /\ Go(w, IF job[w].reserved THEN "release" ELSE "drop-idem")
    /\ UNCHANGED <<files, lock, job, outer>>

(* _execute_operation fails before a process could be started.             *)
NothingSent(w) ==
    /\ At(w, "execute")
    /\ Go(w, "release")
    /\ UNCHANGED <<files, lock, job, outer>>

(* _release_pre_execution_reservation: nothing unless the token is still   *)
(* that of the reservation and of the admission.                           *)
MayRelease(w) == LET r == job[w].run IN
    Legible(r) /\ ~run[r].done /\ run[r].key = job[w].key /\ run[r].token = job[w].token /\ Owns(w)

Release(w) == LET r == job[w].run IN
    /\ Locked(w, "release")
    /\ IF MayRelease(w)
       THEN /\ run' = [run EXCEPT ![r].wip = FALSE, ![r].key = NoKey, ![r].token = 0]
            /\ Go(w, "drop-idem") /\ UNCHANGED job
       ELSE End(w) /\ UNCHANGED run
    /\ UNCHANGED <<adm, idem, use, receipts, outer>>

DropIdem(w) == LET i == idem[job[w].key] IN
    /\ Locked(w, "drop-idem")
    /\ idem' = IF i # None /\ i.st = "in-progress" /\ i.token = job[w].token
               THEN [idem EXCEPT ![job[w].key] = None] ELSE idem
    /\ Go(w, "drop-use")
    /\ UNCHANGED <<adm, run, use, receipts, job, outer>>

DropUse(w) == LET a == job[w].approval IN
    /\ Locked(w, "drop-use")
    /\ use' = IF Owns(w) /\ Marks(a, job[w].key, job[w].token)
              THEN [use EXCEPT ![a] = None] ELSE use
    /\ Go(w, "drop-adm")
    /\ UNCHANGED <<adm, idem, run, receipts, job, outer>>

DropAdm(w) ==
    /\ Locked(w, "drop-adm")
    /\ adm' = IF Owns(w) THEN [adm EXCEPT ![job[w].key] = None] ELSE adm
    /\ End(w)
    /\ UNCHANGED <<idem, run, use, receipts, outer>>

GoBack(w) == GiveUp(w) \/ NothingSent(w) \/ Release(w) \/ DropIdem(w) \/ DropUse(w) \/ DropAdm(w)

-----------------------------------------------------------------------------
(* The transfer and its record.                                            *)

BeginTransfer(w) == LET r == job[w].run IN
    /\ At(w, "execute") /\ ~job[w].late
    /\ remote' = [remote EXCEPT ![r] = "partial"]
    /\ begun' = begun \cup {[run |-> r, key |-> job[w].key, token |-> job[w].token,
                            approval |-> job[w].approval]}
    /\ Go(w, "transfer")
    /\ UNCHANGED <<files, lock, job, attempts, answered>>

(* Mutant: the exit status of the transfer is not looked at.               *)
EndUnchecked(w) ==
    /\ At(w, "transfer")
    /\ \E got \in {"partial", "complete"} : remote' = [remote EXCEPT ![job[w].run] = got]
    /\ Go(w, "record")
    /\ UNCHANGED <<files, lock, job, attempts, begun, answered>>

EndTransfer(w) ==
    /\ At(w, "transfer")
    /\ remote' = [remote EXCEPT ![job[w].run] = "complete"]
    /\ Go(w, "record")
    /\ UNCHANGED <<files, lock, job, attempts, begun, answered>>

(* The receipt, then the run; a receipt that VERIFY has put in stays.      *)
Record(w) == LET mine == ReceiptOf("written", job[w].token, job[w].key, job[w].run) IN
    /\ At(w, "record")
    /\ receipts' = receipts \cup {mine}
    /\ Keep(w, [job[w] EXCEPT !.owner = job[w].token, !.receipt = mine])
    /\ Go(w, "record-run")
    /\ UNCHANGED <<adm, idem, run, use, lock, outer>>

RecordRun(w) == LET r == job[w].run IN
    /\ Locked(w, "record-run")
    /\ Legible(r)
    /\ run' = [run EXCEPT ![r].dry = TRUE, ![r].wip = FALSE, ![r].key = NoKey,
                          ![r].token = 0, ![r].done = TRUE,
                          ![r].receipt = IF run[r].done THEN @ ELSE job[w].receipt]
    /\ Go(w, "complete")
    /\ UNCHANGED <<adm, idem, use, receipts, job, outer>>

(* _complete_idempotency, for the writer itself or on behalf of it.        *)
CompletionReceipt(w) ==
    IF job[w].receipt # None THEN job[w].receipt
    ELSE ReceiptOf("verified", job[w].token, job[w].key, job[w].run)

Complete(w) == LET k == job[w].key IN
    /\ Locked(w, "complete")
    /\ idem[k] # None /\ idem[k].st = "in-progress" /\ idem[k].token = job[w].owner
    /\ idem' = [idem EXCEPT ![k].st = "completed", ![k].receipt = CompletionReceipt(w)]
    /\ Go(w, "settle")
    /\ UNCHANGED <<adm, run, use, receipts, job, outer>>

DropOwned(k, t) == adm' = IF adm[k] # None /\ adm[k].token = t
                          THEN [adm EXCEPT ![k] = None] ELSE adm

SettleWriter(w) ==
    /\ Locked(w, "settle") /\ job[w].op = "replicate"
    /\ DropOwned(job[w].key, job[w].owner)
    /\ answered' = answered \cup {<<job[w].key, job[w].run>>}
    /\ End(w)
    /\ UNCHANGED <<idem, run, use, receipts, remote, attempts, begun>>

-----------------------------------------------------------------------------
(* RSYNC_DRY_RUN: the snapshot, the result in the run record, the receipt. *)

DrySnapshot(w) ==
    /\ Locked(w, "dry-snapshot")
    /\ \E r \in Runs :
        /\ Legible(r)
        /\ Keep(w, [job[w] EXCEPT !.run = r])
        /\ run' = IF run[r] = None THEN [run EXCEPT ![r] = FreshRun] ELSE run
    /\ Go(w, "dry-run")
    /\ UNCHANGED <<adm, idem, use, receipts, outer>>

(* The receiver refuses (dry-failed), or network, host key, time, output or *)
(* the runtime are in the way: that is a block, and the id of its receipt  *)
(* goes into the record all the same.                                      *)
DryRun(w) == LET r == job[w].run IN
    /\ Locked(w, "dry-run")
    /\ Legible(r)
    /\ \E kind \in DryRunKinds :
        LET mine == ReceiptOf(kind, job[w].token, NoKey, r) IN
        /\ run' = [run EXCEPT ![r].dry = @ \/ kind = "dry-passed", ![r].dryReceipt = mine]
        /\ Keep(w, [job[w] EXCEPT !.receipt = mine])
    /\ Go(w, "dry-receipt")
    /\ UNCHANGED <<adm, idem, use, receipts, outer>>

DryReceipt(w) ==
    /\ At(w, "dry-receipt")
    /\ receipts' = receipts \cup {job[w].receipt}
    /\ End(w)
    /\ UNCHANGED <<adm, idem, run, use, lock, outer>>

-----------------------------------------------------------------------------
(* VERIFY: an exact inventory of the receiver resolves the run.            *)

(* Mutant: an inventory that differs is accepted.                          *)
CompareLoosely(w) == LET r == job[w].run IN
    /\ At(w, "compare")
    /\ run[r] # None /\ Legible(r)
    /\ Go(w, "resolve")
    /\ UNCHANGED <<files, lock, job, outer>>

Compare(w) == LET r == job[w].run IN
    /\ At(w, "compare")
    /\ run[r] # None /\ Legible(r)
    /\ remote[r] = "complete"
    /\ Go(w, "resolve")
    /\ UNCHANGED <<files, lock, job, outer>>

(* The one admission that the reservation belongs to, with its record.     *)
Unresolved(r, k) ==
    /\ run[r].wip /\ ~run[r].done /\ run[r].key = k
    /\ adm[k] # None /\ adm[k].run = r /\ adm[k].token = run[r].token
    /\ idem[k] # None /\ idem[k].st = "in-progress" /\ idem[k].run = r
    /\ idem[k].approval = adm[k].approval

(* The receipt, then the run, under one lock.                              *)
Resolve(w) == LET r == job[w].run IN
    /\ At(w, "resolve") /\ lock = NoWorker
    /\ Legible(r)
    /\ \E k \in Keys :
        LET its == ReceiptOf("verified", job[w].token, k, r) IN
        /\ Unresolved(r, k)
        /\ receipts' = receipts \cup {its}
        /\ Keep(w, [job[w] EXCEPT !.key = k, !.owner = adm[k].token, !.receipt = its])
    /\ lock' = w
    /\ Go(w, "resolve-run")
    /\ UNCHANGED <<adm, idem, run, use, outer>>

ResolveRun(w) == LET r == job[w].run IN
    /\ At(w, "resolve-run")
    /\ run' = [run EXCEPT ![r].wip = FALSE, ![r].key = NoKey, ![r].token = 0,
                          ![r].done = TRUE, ![r].receipt = job[w].receipt]
    /\ lock' = NoWorker
    /\ Go(w, "complete")
    /\ UNCHANGED <<adm, idem, use, receipts, job, outer>>

SettleVerified(w) ==
    /\ Locked(w, "settle") /\ job[w].op = "verify"
    /\ DropOwned(job[w].key, job[w].owner)
    /\ Keep(w, [job[w] EXCEPT !.todo = @ \ {job[w].key}])
    /\ Go(w, IF job[w].todo = {} THEN "list" ELSE "others")
    /\ UNCHANGED <<idem, run, use, receipts, outer>>

(* _reconcile_resolved_admissions, also where the run was done already: it *)
(* lists the admissions that still name the run.                           *)
ListOthers(w) ==
    /\ \/ At(w, "list")
       \/ At(w, "resolve") /\ Legible(job[w].run) /\ run[job[w].run].done
    /\ Keep(w, [job[w] EXCEPT !.todo =
                    {k \in Keys : adm[k] # None /\ adm[k].run = job[w].run}])
    /\ Go(w, "others")
    /\ UNCHANGED <<files, lock, outer>>

SameAttempt(k, r) ==
    /\ idem[k] # None /\ adm[k] # None
    /\ idem[k].run = r /\ idem[k].approval = adm[k].approval

(* A record in progress gets a receipt and is completed.                   *)
Reconcile(w) ==
    /\ At(w, "others")
    /\ \E k \in job[w].todo :
        /\ SameAttempt(k, job[w].run)
        /\ Keep(w, [job[w] EXCEPT !.key = k, !.owner = adm[k].token])
        /\ Go(w, IF idem[k].st = "completed" THEN "settle" ELSE "complete")
        /\ receipts' = IF idem[k].st = "completed" THEN receipts
                       ELSE receipts \cup {CompletionReceipt(w)'}
    /\ UNCHANGED <<adm, idem, run, use, lock, outer>>

SkipOther(w) ==
    /\ At(w, "others")
    /\ \E k \in job[w].todo :
        /\ ~SameAttempt(k, job[w].run)
        /\ Keep(w, [job[w] EXCEPT !.todo = @ \ {k}])
    /\ UNCHANGED <<pc, files, lock, outer>>

Verified(w) ==
    /\ At(w, "others") /\ job[w].todo = {}
    /\ Refuse(w)

-----------------------------------------------------------------------------
(* The daemon of w is killed; or an early return or an error ends the      *)
(* request: a check fails, policy, approval, credentials or host key do    *)
(* not allow it, the deadline passes, the transfer fails, a file cannot be *)
(* read or written.  What the receiver has of an interrupted transfer is   *)
(* not known.  (An error within a rollback ends the rollback only: that is *)
(* a stop and another call.)                                               *)
Stop(w) ==
    /\ ~At(w, "idle")
    /\ lock' = IF lock = w THEN NoWorker ELSE lock
    /\ IF At(w, "transfer")
       THEN \E got \in {"partial", "complete"} : remote' = [remote EXCEPT ![job[w].run] = got]
       ELSE UNCHANGED remote
    /\ End(w)
    /\ UNCHANGED <<files, attempts, begun, answered>>

Replicate(w) ==
    \/ ReadAdmission(w) \/ Replay(w) \/ Forget(w) \/ GoOn(w) \/ Unknown(w)
    \/ Snapshot(w) \/ Check(w)
    \/ Prepare(w) \/ ClaimIdem(w) \/ Approve(w) \/ Reserve(w) \/ Start(w)
    \/ BeginTransfer(w) \/ EndTransfer(w) \/ Record(w) \/ RecordRun(w)

Verify(w) ==
    \/ Compare(w) \/ Resolve(w) \/ ResolveRun(w) \/ SettleVerified(w)
    \/ ListOthers(w) \/ Reconcile(w) \/ SkipOther(w) \/ Verified(w)

Step(w) ==
    \/ Rollback(w) \/ Admit(w) \/ Replicate(w) \/ GoBack(w)
    \/ Complete(w) \/ SettleWriter(w)
    \/ DrySnapshot(w) \/ DryRun(w) \/ DryReceipt(w) \/ Verify(w)
    \/ Stop(w)

Next == \E w \in Workers : Step(w) \/ \E q \in Requests : Call(w, q)

Spec == Init /\ [][Next]_vars

-----------------------------------------------------------------------------
(* A run is sent at most once, whatever is retried, killed, fenced, rolled *)
(* back or requested under another key ("the broker never silently retries *)
(* an unknown write"); a key and a one-time approval pay for one transfer, *)
(* the approval under whatever keys it is used.                            *)
AtMostOneTransfer == \A b, c \in begun :
    \/ b.run = c.run
    \/ b.key = c.key
    \/ b.approval = c.approval /\ b.approval # NoApproval
    => b = c

(* While w sends, the run is reserved for it and the key is its own: nobody *)
(* else resumes, releases or reserves it; and as long as the record of the *)
(* key is in progress its admission is there, started, so that VERIFY can  *)
(* resolve the run should w be killed.  (A VERIFY that settles an admission*)
(* of an earlier run of the key may have completed the record by mistake:  *)
(* _complete_idempotency compares the token, but not the run.)             *)
TransferIsFenced == \A w \in Workers : At(w, "transfer") =>
    LET r == job[w].run  i == idem[job[w].key] IN
    /\ run[r].wip /\ run[r].token = job[w].token /\ run[r].key = job[w].key
    /\ i # None /\ i.token = job[w].token
    /\ i.st = "in-progress" => Owns(w) /\ adm[job[w].key].st = "started"

(* A run counts as replicated, and a caller is told so, only if the        *)
(* receiver has it and the receipt is on disk.                             *)
DoneIsSent ==
    /\ \A r \in Runs : run[r] # None /\ run[r].done =>
        remote[r] = "complete" /\ run[r].receipt \in receipts
    /\ \A p \in answered : run[p[2]].done

(* Nothing is sent before a dry run of the same content has passed and its *)
(* receipt has been kept.                                                  *)
DryRunFirst == DryRunRequired => \A b \in begun :
    \E x \in receipts : x.kind = "dry-passed" /\ x.run = b.run

(* The broker implements the single transfer: whatever happens to its      *)
(* files, contents are sent once each, and REPLICATE answers OK, be it from*)
(* a record of an earlier attempt, only if a transfer under that very key  *)
(* has put that run on the receiver, where nothing overwrites it.          *)
Bare(b) == [run |-> b.run, key |-> b.key, approval |-> b.approval]
Sent == {Bare(b) : b \in begun}
OnReceiver == {r \in Runs : remote[r] = "complete"}
Single == INSTANCE SingleTransfer WITH sent <- Sent, arrived <- OnReceiver, told <- answered
ImplementsSingleTransfer == Single!Spec
================================================================================
