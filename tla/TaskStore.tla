------------------------------- MODULE TaskStore -------------------------------
(***************************************************************************)
(* The transactional file store of core/task_store.py, which tasks,        *)
(* decisions and memory mutations share.                                   *)
(*                                                                         *)
(* A store is one TaskStore object of one process.  Its callers hold the   *)
(* vault's task lock (flock on tasks/.lock) over everything they do.  A    *)
(* transaction leaves a directory tasks/.tx/<id> while it runs: backups of *)
(* the files it declares, and a manifest that is "prepared" before and     *)
(* "committed" after the body.  A store that was never locked before       *)
(* reconciles whatever directories it finds.                               *)
(*                                                                         *)
(* Files and their contents are opaque here; a digest is the image it was  *)
(* computed from.  TaskService.tla says which plans tasks and decisions    *)
(* run.                                                                    *)
(***************************************************************************)
EXTENDS Integers, Sequences, FiniteSets

CONSTANTS
    Stores,         \* TaskStore objects
    NoStore,        \* nobody holds the lock
    LongLived,      \* those used for more than one outermost lock()
    Files, Images,  \* files of the vault, and what they may hold
    NoFile,         \* a file that is not there
    Plans,          \* the transactions that are run
    FaultPoints,    \* <<fault, pc>>: where a "kill", an "error" (any
                    \* Exception) or an "interrupt" (KeyboardInterrupt) strikes
    MaxTx,          \* bound on transactions
    MaxFaults       \* bound on faults

VARIABLES
    file,    \* the canonical files
    tx,      \* the directories under tasks/.tx
    lock,    \* holder of the flock
    pc, mem, job,
    made,    \* transactions started so far (source of their ids)
    truth,   \* the files as the last committed transaction left them
    faults

A == INSTANCE AtomicStore WITH content <- truth

ASSUME StoreAssumption == NoStore \notin Stores /\ LongLived \subseteq Stores
ASSUME StoreBounds == MaxTx \in Nat /\ MaxFaults \in Nat
ASSUME StoreImages == NoFile \notin Images
ASSUME StorePlans == Plans \subseteq A!Plan

disk == <<file, tx>>
storeVars == <<disk, lock, pc, mem, job, made, truth, faults>>

TxIds == 1..MaxTx
NoPlan == [touch |-> <<>>, writes |-> <<>>]
NoTx == [there |-> FALSE, man |-> "none", baks |-> FALSE, touch |-> <<>>,
         pre |-> <<>>, post |-> <<>>]
Fresh == [recovered |-> FALSE, blocked |-> FALSE]
NoJob == [id |-> 0, todo |-> {}, plan |-> NoPlan, left |-> <<>>, ok |-> FALSE]

PCs == {"idle", "enter", "scan", "open", "made", "body", "undo", "clean", "rm", "leave"}
Holding == PCs \ {"idle", "enter"}

Entries == {i \in TxIds : tx[i].there}
Recovering(s) == ~mem[s].recovered

-----------------------------------------------------------------------------
Init ==
    /\ file = [f \in Files |-> NoFile]
    /\ tx = [i \in TxIds |-> NoTx]
    /\ lock = NoStore
    /\ pc = [s \in Stores |-> "idle"]
    /\ mem = [s \in Stores |-> Fresh]
    /\ job = [s \in Stores |-> NoJob]
    /\ made = 0
    /\ truth = [f \in Files |-> NoFile]
    /\ faults = 0

To(s, label) == pc' = [pc EXCEPT ![s] = label]

(* The object is dropped with its caller unless the caller keeps it.       *)
Forget(s) == mem' = [mem EXCEPT ![s] = IF s \in LongLived THEN @ ELSE Fresh]

Return(s) ==
    /\ lock' = IF lock = s THEN NoStore ELSE lock
    /\ To(s, "idle")
    /\ job' = [job EXCEPT ![s] = NoJob]

-----------------------------------------------------------------------------
(* lock(): the flock, then recover() the first time.                       *)

Enter(s) ==
    /\ pc[s] = "idle"
    /\ To(s, "enter")
    /\ UNCHANGED <<disk, lock, mem, job, made, truth, faults>>

RefuseBlocked(s) ==
    /\ pc[s] = "enter" /\ mem[s].blocked
    /\ To(s, "idle") /\ Forget(s)
    /\ UNCHANGED <<disk, lock, job, made, truth, faults>>

Acquire(s) ==
    /\ pc[s] = "enter" /\ ~mem[s].blocked
    /\ lock = NoStore
    /\ lock' = s
    /\ IF mem[s].recovered
       THEN To(s, "open") /\ UNCHANGED job
       ELSE To(s, "scan") /\ job' = [job EXCEPT ![s].todo = Entries]
    /\ UNCHANGED <<disk, mem, made, truth, faults>>

Seen(s, i) == job' = [job EXCEPT ![s].todo = @ \ {i}]
Block(s) == mem' = [mem EXCEPT ![s].blocked = TRUE]

SkipUnmanifested(s) == \E i \in job[s].todo :
    /\ pc[s] = "scan"
    /\ tx[i].man = "none"
    /\ Seen(s, i) /\ Block(s)
    /\ UNCHANGED <<disk, lock, pc, made, truth, faults>>

(* _reconcile_tx: every file still at its image after the transaction,     *)
(* or every file still at its image before it, or neither.                 *)
IsPost(t, f) == t.man = "committed" /\ t.post[f] # NoFile /\ file[f] = t.post[f]
AllPost(t) == \A f \in A!RangeOf(t.touch) : IsPost(t, f)
AllPre(t) == \A f \in A!RangeOf(t.touch) : ~IsPost(t, f) /\ file[f] = t.pre[f]
Settled(t) == t.touch # <<>> /\ (AllPost(t) \/ AllPre(t))

KeepSettled(s) == \E i \in job[s].todo :
    /\ pc[s] = "scan"
    /\ tx[i].man # "none" /\ Settled(tx[i])
    /\ To(s, "clean")
    /\ job' = [job EXCEPT ![s].todo = @ \ {i}, ![s].id = i]
    /\ UNCHANGED <<disk, lock, mem, made, truth, faults>>

UndoPrepared(s) == \E i \in job[s].todo :
    /\ pc[s] = "scan"
    /\ tx[i].man = "prepared" /\ ~Settled(tx[i])
    /\ To(s, "undo")
    /\ job' = [job EXCEPT ![s].todo = @ \ {i}, ![s].id = i, ![s].left = tx[i].touch]
    /\ UNCHANGED <<disk, lock, mem, made, truth, faults>>

GiveUpMixed(s) == \E i \in job[s].todo :
    /\ pc[s] = "scan"
    /\ tx[i].man = "committed" /\ ~Settled(tx[i])
    /\ Seen(s, i) /\ Block(s)
    /\ UNCHANGED <<disk, lock, pc, made, truth, faults>>

(* Mutant: what could not be reconciled is left for the next process.      *)
EndScanAnyway(s) ==
    /\ pc[s] = "scan" /\ job[s].todo = {}
    /\ To(s, "open")
    /\ mem' = [mem EXCEPT ![s].recovered = TRUE]
    /\ UNCHANGED <<disk, lock, job, made, truth, faults>>

EndScan(s) ==
    /\ pc[s] = "scan" /\ job[s].todo = {}
    /\ IF mem[s].blocked
       THEN Return(s) /\ Forget(s)
       ELSE /\ To(s, "open")
            /\ mem' = [mem EXCEPT ![s].recovered = TRUE]
            /\ UNCHANGED <<lock, job>>
    /\ UNCHANGED <<disk, made, truth, faults>>

-----------------------------------------------------------------------------
(* _transaction_locked.                                                    *)

(* The caller reads, and returns or raises without writing.                *)
Decline(s) ==
    /\ pc[s] = "open"
    /\ To(s, "leave")
    /\ UNCHANGED <<disk, lock, mem, job, made, truth, faults>>

Begin(s, p) ==
    /\ pc[s] = "open" /\ made < MaxTx
    /\ made' = made + 1
    /\ tx' = [tx EXCEPT ![made + 1] = [NoTx EXCEPT !.there = TRUE]]
    /\ To(s, "made")
    /\ job' = [job EXCEPT ![s].id = made + 1, ![s].plan = p, ![s].left = <<>>]
    /\ UNCHANGED <<file, lock, mem, truth, faults>>

(* Mutant: the preimages are those of the files that are written first.    *)
PrepareFirst(s) ==
    /\ pc[s] = "made"
    /\ LET p == job[s].plan
           t == IF p.touch = <<>> THEN <<>> ELSE <<p.touch[1]>>
       IN tx' = [tx EXCEPT ![job[s].id] =
              [there |-> TRUE, man |-> "prepared", baks |-> TRUE, touch |-> t,
               pre |-> [f \in A!RangeOf(t) |-> file[f]], post |-> <<>>]]
    /\ To(s, "body")
    /\ job' = [job EXCEPT ![s].left = job[s].plan.writes]
    /\ UNCHANGED <<file, lock, mem, made, truth, faults>>

(* Backups of the declared files, then the prepared manifest.              *)
Prepare(s) ==
    /\ pc[s] = "made"
    /\ LET t == job[s].plan.touch
       IN tx' = [tx EXCEPT ![job[s].id] =
              [there |-> TRUE, man |-> "prepared", baks |-> TRUE, touch |-> t,
               pre |-> [f \in A!RangeOf(t) |-> file[f]], post |-> <<>>]]
    /\ To(s, "body")
    /\ job' = [job EXCEPT ![s].left = job[s].plan.writes]
    /\ UNCHANGED <<file, lock, mem, made, truth, faults>>

Write(s) ==
    /\ pc[s] = "body" /\ job[s].left # <<>>
    /\ file' = [file EXCEPT ![Head(job[s].left)[1]] = Head(job[s].left)[2]]
    /\ job' = [job EXCEPT ![s].left = Tail(@)]
    /\ UNCHANGED <<tx, lock, pc, mem, made, truth, faults>>

(* Mutant: the transaction commits before its body has ended.              *)
CommitEarly(s) ==
    /\ pc[s] = "body"
    /\ tx' = [tx EXCEPT ![job[s].id].man = "committed",
                        ![job[s].id].post = [f \in A!RangeOf(tx[job[s].id].touch) |-> file[f]]]
    /\ truth' = file
    /\ To(s, "clean")
    /\ job' = [job EXCEPT ![s].ok = TRUE]
    /\ UNCHANGED <<file, lock, mem, made, faults>>

(* Mutant: the digests of the committed manifest are the old ones.         *)
CommitOldDigests(s) ==
    /\ pc[s] = "body" /\ job[s].left = <<>>
    /\ tx' = [tx EXCEPT ![job[s].id].man = "committed",
                        ![job[s].id].post = tx[job[s].id].pre]
    /\ truth' = file
    /\ To(s, "clean")
    /\ job' = [job EXCEPT ![s].ok = TRUE]
    /\ UNCHANGED <<file, lock, mem, made, faults>>

Commit(s) ==
    /\ pc[s] = "body" /\ job[s].left = <<>>
    /\ tx' = [tx EXCEPT ![job[s].id].man = "committed",
                        ![job[s].id].post = [f \in A!RangeOf(tx[job[s].id].touch) |-> file[f]]]
    /\ truth' = file
    /\ To(s, "clean")
    /\ job' = [job EXCEPT ![s].ok = TRUE]
    /\ UNCHANGED <<file, lock, mem, made, faults>>

(* _rollback_tx, one file at a time; the backup of a file that existed     *)
(* must still be there.                                                    *)
CanUndo(t, f) == t.pre[f] = NoFile \/ t.baks

Undo(s) == LET t == tx[job[s].id] IN
    /\ pc[s] = "undo" /\ job[s].left # <<>>
    /\ CanUndo(t, Head(job[s].left))
    /\ file' = [file EXCEPT ![Head(job[s].left)] = t.pre[Head(job[s].left)]]
    /\ job' = [job EXCEPT ![s].left = Tail(@)]
    /\ UNCHANGED <<tx, lock, pc, mem, made, truth, faults>>

(* Mutant: a finished rollback starts over.                                *)
UndoneAgain(s) ==
    /\ pc[s] = "undo" /\ job[s].left = <<>>
    /\ job' = [job EXCEPT ![s].left = tx[job[s].id].touch]
    /\ UNCHANGED <<disk, lock, pc, mem, made, truth, faults>>

Undone(s) ==
    /\ pc[s] = "undo" /\ job[s].left = <<>>
    /\ To(s, "clean")
    /\ UNCHANGED <<disk, lock, mem, job, made, truth, faults>>

(* A rollback that fails keeps the evidence and blocks this object.        *)
StopUndo(s) ==
    /\ Block(s)
    /\ To(s, IF Recovering(s) THEN "scan" ELSE "leave")
    /\ job' = [job EXCEPT ![s].left = <<>>]
    /\ UNCHANGED <<disk, lock, made, truth>>

UndoStuck(s) ==
    /\ pc[s] = "undo" /\ job[s].left # <<>>
    /\ ~CanUndo(tx[job[s].id], Head(job[s].left))
    /\ StopUndo(s)
    /\ UNCHANGED faults

(* shutil.rmtree removes the files in any order, the directory last.       *)
Removing(s) == pc[s] \in {"clean", "rm"}

RemoveManifest(s) ==
    /\ Removing(s) /\ tx[job[s].id].man # "none"
    /\ tx' = [tx EXCEPT ![job[s].id].man = "none"]
    /\ To(s, "rm")
    /\ UNCHANGED <<file, lock, mem, job, made, truth, faults>>

RemoveBackups(s) ==
    /\ Removing(s) /\ tx[job[s].id].baks
    /\ tx' = [tx EXCEPT ![job[s].id].baks = FALSE]
    /\ To(s, "rm")
    /\ UNCHANGED <<file, lock, mem, job, made, truth, faults>>

Cleaned(s) ==
    /\ To(s, IF Recovering(s) THEN "scan" ELSE "leave")
    /\ UNCHANGED <<lock, job, made, truth, file>>

RemoveDirectory(s) ==
    /\ pc[s] = "rm"
    /\ tx[job[s].id].man = "none" /\ ~tx[job[s].id].baks
    /\ tx' = [tx EXCEPT ![job[s].id] = NoTx]
    /\ Cleaned(s)
    /\ UNCHANGED <<mem, faults>>

Leave(s) ==
    /\ pc[s] = "leave"
    /\ Return(s) /\ Forget(s)
    /\ UNCHANGED <<disk, made, truth, faults>>

-----------------------------------------------------------------------------
(* Faults.                                                                 *)

Strikes(s, fault) ==
    /\ faults < MaxFaults
    /\ <<fault, pc[s]>> \in FaultPoints
    /\ faults' = faults + 1

(* The process dies; the kernel drops its flock; another object will be    *)
(* made by another process.                                                *)
Kill(s) ==
    /\ Strikes(s, "kill")
    /\ Return(s)
    /\ mem' = [mem EXCEPT ![s] = Fresh]
    /\ UNCHANGED <<disk, made, truth>>

(* A manifest that cannot be read or fails its validation.                 *)
ScanFails(s) == \E i \in job[s].todo :
    /\ pc[s] = "scan" /\ Strikes(s, "error")
    /\ Seen(s, i) /\ Block(s)
    /\ UNCHANGED <<disk, lock, pc, made, truth>>

(* An exception that recover() lets through: the flock is given back.      *)
RecoverFails(s) ==
    /\ pc[s] = "scan" /\ Strikes(s, "error")
    /\ Return(s) /\ Forget(s)
    /\ UNCHANGED <<disk, made, truth>>

(* `except Exception` does not see a KeyboardInterrupt: an object that is  *)
(* kept keeps the flock, although it is in no call any more; the file of   *)
(* one that is dropped is closed.                                          *)
RecoverInterrupted(s) ==
    /\ pc[s] \in {"scan", "undo", "clean", "rm"} /\ Recovering(s)
    /\ Strikes(s, "interrupt")
    /\ lock' = IF s \in LongLived THEN lock ELSE NoStore
    /\ To(s, "idle") /\ Forget(s)
    /\ job' = [job EXCEPT ![s] = NoJob]
    /\ UNCHANGED <<disk, made, truth>>

(* A caller that is interrupted while it waits for the flock.              *)
WaitInterrupted(s) ==
    /\ pc[s] = "enter" /\ Strikes(s, "interrupt")
    /\ To(s, "idle") /\ Forget(s)
    /\ UNCHANGED <<disk, lock, job, made, truth>>

(* lock() is left before its caller got anywhere.                          *)
EntryFails(s) == RecoverFails(s) \/ RecoverInterrupted(s) \/ WaitInterrupted(s)

(* Before its try block a transaction leaves its directory behind.         *)
PrepareFails(s) ==
    /\ pc[s] = "made" /\ (Strikes(s, "error") \/ Strikes(s, "interrupt"))
    /\ To(s, "leave")
    /\ UNCHANGED <<disk, lock, mem, job, made, truth>>

BodyFails(s) ==
    /\ pc[s] = "body" /\ Strikes(s, "error")
    /\ To(s, "undo")
    /\ job' = [job EXCEPT ![s].left = tx[job[s].id].touch]
    /\ UNCHANGED <<disk, lock, mem, made, truth>>

UndoFails(s) ==
    /\ pc[s] = "undo" /\ Strikes(s, "error")
    /\ StopUndo(s)

(* rmtree ignores errors; recovery.log that cannot be written blocks.  An  *)
(* interrupt leaves what a transaction has not removed yet.                *)
CleanFails(s) ==
    /\ Removing(s)
    /\ Strikes(s, "error") \/ (~Recovering(s) /\ Strikes(s, "interrupt"))
    /\ Cleaned(s)
    /\ IF Recovering(s) THEN Block(s) \/ UNCHANGED mem ELSE UNCHANGED mem
    /\ UNCHANGED tx

(* In a transaction `except Exception` does not see a KeyboardInterrupt    *)
(* either, `finally` does.                                                 *)
Interrupt(s) ==
    /\ pc[s] \in {"body", "undo"} /\ ~Recovering(s)
    /\ Strikes(s, "interrupt")
    /\ To(s, "clean")
    /\ job' = [job EXCEPT ![s].left = <<>>]
    /\ UNCHANGED <<disk, lock, mem, made, truth>>

-----------------------------------------------------------------------------
Recovery(s) ==
    \/ SkipUnmanifested(s) \/ KeepSettled(s) \/ UndoPrepared(s)
    \/ GiveUpMixed(s) \/ EndScan(s)

Work(s) ==
    \/ Prepare(s) \/ Write(s) \/ Commit(s)
    \/ Undo(s) \/ Undone(s) \/ UndoStuck(s)
    \/ RemoveManifest(s) \/ RemoveBackups(s) \/ RemoveDirectory(s)

Fault(s) ==
    \/ Kill(s) \/ ScanFails(s) \/ PrepareFails(s) \/ BodyFails(s) \/ UndoFails(s)
    \/ CleanFails(s) \/ Interrupt(s)
    \/ EntryFails(s)

(* Everything but the call itself and what it decides to write.            *)
Inside(s) ==
    \/ RefuseBlocked(s) \/ Acquire(s) \/ Recovery(s) \/ Work(s) \/ Leave(s)

Next == \E s \in Stores :
    \/ Enter(s) \/ Inside(s) \/ Fault(s)
    \/ Decline(s)
    \/ \E p \in Plans : Begin(s, p)

Spec == Init /\ [][Next]_storeVars

(* Every thread that is inside a call keeps running; the kernel hands the  *)
(* flock to a waiter again and again as long as it keeps being released.   *)
Fairness == \A s \in Stores :
    /\ WF_storeVars(Inside(s) \/ Decline(s))
    /\ SF_storeVars(Acquire(s))

LiveSpec == Spec /\ Fairness

-----------------------------------------------------------------------------
(* Every variable has its type.                                            *)
TypeOK ==
    /\ file \in [Files -> Images \cup {NoFile}]
    /\ truth \in [Files -> Images \cup {NoFile}]
    /\ lock \in Stores \cup {NoStore}
    /\ pc \in [Stores -> PCs]
    /\ mem \in [Stores -> [recovered : BOOLEAN, blocked : BOOLEAN]]
    /\ made \in 0..MaxTx /\ faults \in 0..MaxFaults
    /\ \A i \in TxIds :
        /\ tx[i].there \in BOOLEAN /\ tx[i].baks \in BOOLEAN
        /\ tx[i].man \in {"none", "prepared", "committed"}
        /\ tx[i].touch \in Seq(Files)
    /\ \A s \in Stores :
        /\ job[s].id \in 0..MaxTx /\ job[s].todo \subseteq TxIds
        /\ job[s].plan \in A!Plan
        /\ job[s].left \in Seq(Files) \cup Seq(Files \X Images)
        /\ job[s].ok \in BOOLEAN

(* Whoever has taken the lock and got past recover() finds every file as   *)
(* the last committed transaction left it: nothing of a transaction that   *)
(* was killed or failed is left, nothing of a committed one is missing.    *)
OpensOnCommitted == \A s \in Stores : pc[s] = "open" => file = truth

(* A directory whose transaction committed is recognised as committed; it  *)
(* is never "mixed", which only an operator can repair.                    *)
CommittedSettles == \A s \in Stores : \A i \in job[s].todo :
    (pc[s] = "scan" /\ tx[i].man = "committed") => Settled(tx[i])

(* A store that met what it could not reconcile, or whose rollback failed, *)
(* opens no transaction any more; the scan that found it goes on with the  *)
(* other directories.                                                      *)
FailsClosed == \A s \in Stores :
    mem[s].blocked => pc[s] \notin {"open", "made", "body"}

(* The committed content changes by whole transactions only.               *)
ImplementsAtomicStore == A!Spec

(* A kept object holds the flock although it is not inside lock().         *)
LockLeaked == \E s \in LongLived : lock = s /\ pc[s] \in {"idle", "enter"}

(* Every call that has begun comes back, whatever strikes it or others,    *)
(* unless an interrupted recovery leaves the flock with a kept object for  *)
(* good: that object then waits for itself (lock, :215-228).               *)
CallsReturn ==
    \/ \A s \in Stores : pc[s] = "enter" ~> pc[s] = "idle"
    \/ <>[]LockLeaked
================================================================================
