----------------------------- MODULE GenerationIndex -----------------------------
(***************************************************************************)
(* The search index of core/generation_index.py and the note mutations of  *)
(* core/memory_api.py that publish it.                                     *)
(*                                                                         *)
(* An index is an immutable SQLite file, a generation.  A second database, *)
(* generation-state.db, has a row per generation and the pointer to the    *)
(* active one.  sync_vault_atomically builds a file in staging/, moves it  *)
(* into generations/, commits row and pointer in one transaction, reads    *)
(* the pointer back and removes old generations.  A note mutation runs it  *)
(* inside its file transaction.  Files, state database and notes are three *)
(* stores, written one after the other.                                    *)
(*                                                                         *)
(* The notes are one value; the SHA-256 of an inventory is that value.     *)
(* Every commit of the state database changes its file fingerprint.        *)
(***************************************************************************)
EXTENDS Integers, FiniteSets

CONSTANTS
    Callers,      \* threads or processes that publish
    Readers,      \* requests, each with the cache of its process
    None,
    Versions,     \* what the notes may hold
    Retain,       \* RETAIN_READY_GENERATIONS
    Deployments,  \* values of serial: do callers hold the vault lock?
    FaultPoints,  \* [BOOLEAN -> set of <<fault, pc>>], by serial
    MaxGens,      \* bound on generations
    MaxFaults,    \* bound on faults
    MaxEdits      \* bound on edits by other programs, by serial

VARIABLES
    serial,   \* every caller goes through execute_vault_mutation
    note,     \* the notes of the vault
    pre,      \* preimage kept by an open note transaction, or None
    gen,      \* row and file of each generation
    active,   \* the pointer
    vault,    \* holder of the vault lock
    dbLock,   \* holder of the write lock of the state database
    pc, job,  \* callers
    rd,       \* readers
    faults, edits

ASSUME IndexSets == None \notin Versions /\ None \notin Callers /\ None \notin 1..MaxGens
ASSUME IndexBounds ==
    /\ MaxGens \in Nat /\ MaxFaults \in Nat /\ Retain \in Nat \ {0}
    /\ MaxEdits \in [BOOLEAN -> Nat]
ASSUME IndexDeployments == Deployments \subseteq BOOLEAN

stores == <<note, pre, gen, active>>
locks == <<vault, dbLock>>
bounds == <<serial, faults, edits>>
indexVars == <<stores, locks, pc, job, rd, bounds>>

Gens == 1..MaxGens
PCs == {"idle", "lock", "recover", "write", "reap", "reaping", "inventory", "record",
        "build", "project", "check", "move", "commit", "readback", "retain",
        "retaining", "published", "receipt", "fail", "undo", "ok", "failed", "broken"}

NoGen == [state |-> "none", done |-> 0, file |-> "none", text |-> None]
NoJob == [kind |-> "none", g |-> 0, snap |-> None, proj |-> None, todo |-> {},
          claimed |-> {}, published |-> FALSE, agreed |-> FALSE, edited |-> FALSE]
NoRead == [pc |-> "idle", fp |-> FALSE, g |-> None, window |-> {}, cache |-> None]

Removed(x) == [x EXCEPT !.file = "none", !.text = None]
InState(s) == {g \in Gens : gen[g].state = s}
Newest(S, n) == {g \in S : Cardinality({h \in S : gen[h].done > gen[g].done}) < n}

(* resolve_active_generation does not raise.                               *)
Resolvable ==
    active # None => gen[active].state = "ready" /\ gen[active].file = "generation"

-----------------------------------------------------------------------------
Init ==
    /\ serial \in Deployments
    /\ note \in Versions
    /\ pre = None
    /\ gen = [g \in Gens |-> NoGen]
    /\ active = None
    /\ vault = None /\ dbLock = None
    /\ pc = [c \in Callers |-> "idle"]
    /\ job = [c \in Callers |-> NoJob]
    /\ rd = [r \in Readers |-> NoRead]
    /\ faults = 0 /\ edits = 0

To(c, label) == pc' = [pc EXCEPT ![c] = label]

(* A commit of the state database: cached fingerprints no longer match.    *)
Committed == rd' = [r \in Readers |->
    [rd[r] EXCEPT !.fp = FALSE, !.cache = None,
                  !.window = IF rd[r].pc = "idle" THEN {} ELSE @ \cup {active'}]]

(* sync_vault_atomically raised: the call ends, or the mutation around it  *)
(* goes to its except clause.                                              *)
Raised(c) == IF job[c].kind = "sync" THEN "failed"
             ELSE IF pre = None THEN "broken" ELSE "undo"

-----------------------------------------------------------------------------
(* The callers: `power sync` and _apply_note_mutation.                     *)

Start(c, kind) ==
    /\ pc[c] = "idle"
    /\ ~serial => kind = "sync"
    /\ To(c, IF serial THEN "lock" ELSE "reap")
    /\ job' = [job EXCEPT ![c] = [NoJob EXCEPT !.kind = kind]]
    /\ UNCHANGED <<stores, locks, rd, bounds>>

TakeLock(c) ==
    /\ pc[c] = "lock" /\ vault = None
    /\ vault' = c
    /\ To(c, IF job[c].kind = "note" THEN "recover" ELSE "reap")
    /\ UNCHANGED <<stores, dbLock, job, rd, bounds>>

Leave(c) ==
    /\ pc[c] \in {"ok", "failed", "broken"}
    /\ To(c, "idle")
    /\ job' = [job EXCEPT ![c] = NoJob]
    /\ vault' = IF vault = c THEN None ELSE vault
    /\ UNCHANGED <<stores, dbLock, rd, bounds>>

(* TaskStore.lock: what a killed mutation left is rolled back (see         *)
(* TaskStore!OpensOnCommitted).                                            *)
RollBackNote ==
    /\ note' = IF pre = None THEN note ELSE pre
    /\ pre' = None

Recover(c) ==
    /\ pc[c] = "recover"
    /\ RollBackNote
    /\ To(c, "write")
    /\ UNCHANGED <<gen, active, locks, job, rd, bounds>>

(* Task operations recover the same store without the vault lock.  As in   *)
(* Edit, a change is not to what an unfinished build has recorded.         *)
RecoverElsewhere ==
    /\ pre # None
    /\ pre = note \/ \A c \in Callers : pre # job[c].snap
    /\ \A c \in Callers : job[c].kind = "note" => pc[c] \in {"lock", "recover"}
    /\ RollBackNote
    /\ UNCHANGED <<gen, active, locks, pc, job, rd, bounds>>

Serves(v) == active # None /\ gen[active].text = v

WriteNote(c, v) ==
    /\ pc[c] = "write" /\ v # note
    /\ pre' = note /\ note' = v
    /\ job' = [job EXCEPT ![c].agreed = Serves(note)]
    /\ To(c, "reap")
    /\ UNCHANGED <<gen, active, locks, rd, bounds>>

AppendReceipt(c) ==
    /\ pc[c] = "receipt"
    /\ pre' = None
    /\ To(c, "ok")
    /\ UNCHANGED <<note, gen, active, locks, job, rd, bounds>>

(* Mutant: the index published before the rollback stays.                  *)
UndoKeepsIndex(c) ==
    /\ pc[c] = "undo"
    /\ RollBackNote
    /\ To(c, "failed")
    /\ UNCHANGED <<gen, active, locks, job, rd, bounds>>

(* The transaction rolls the note back; if its index was published, the    *)
(* except clause publishes one of the restored notes.                      *)
Undo(c) ==
    /\ pc[c] = "undo"
    /\ RollBackNote
    /\ To(c, IF job[c].published THEN "reap" ELSE "failed")
    /\ UNCHANGED <<gen, active, locks, job, rd, bounds>>

-----------------------------------------------------------------------------
(* _reap_stale_build_artifacts: one transaction over all stale rows, with  *)
(* the unlinks inside it.                                                  *)

(* Any row may have been building for longer than the lease.               *)
ScanStale(c) == \E stale \in SUBSET (InState("building") \ {active}) :
    /\ pc[c] = "reap"
    /\ job' = [job EXCEPT ![c].todo = stale]
    /\ To(c, IF stale = {} THEN "inventory" ELSE "reaping")
    /\ UNCHANGED <<stores, locks, rd, bounds>>

(* Mutant: a row is claimed whatever has become of it.                     *)
ClaimAny(c) == \E g \in job[c].todo :
    /\ pc[c] = "reaping" /\ dbLock \in {None, c}
    /\ dbLock' = c
    /\ job' = [job EXCEPT ![c].todo = @ \ {g}, ![c].claimed = @ \cup {g}]
    /\ gen' = [gen EXCEPT ![g] = Removed(@)]
    /\ UNCHANGED <<note, pre, active, vault, pc, rd, bounds>>

ClaimStale(c) == \E g \in job[c].todo :
    /\ pc[c] = "reaping" /\ dbLock \in {None, c}
    /\ dbLock' = c
    /\ IF gen[g].state = "building"
       THEN /\ job' = [job EXCEPT ![c].todo = @ \ {g}, ![c].claimed = @ \cup {g}]
            /\ gen' = [gen EXCEPT ![g] = Removed(@)]
       ELSE /\ job' = [job EXCEPT ![c].todo = @ \ {g}]
            /\ UNCHANGED gen
    /\ UNCHANGED <<note, pre, active, vault, pc, rd, bounds>>

(* The rows of a transaction of this caller are committed.                 *)
CommitRows(c, state, label) ==
    /\ job[c].todo = {}
    /\ gen' = [g \in Gens |->
                IF g \in job[c].claimed THEN [gen[g] EXCEPT !.state = state] ELSE gen[g]]
    /\ dbLock' = IF dbLock = c THEN None ELSE dbLock
    /\ job' = [job EXCEPT ![c].claimed = {}]
    /\ To(c, label)
    /\ UNCHANGED <<note, pre, active, vault, bounds>>

ReapCommit(c) ==
    /\ pc[c] = "reaping"
    /\ CommitRows(c, "failed", "inventory") /\ Committed

-----------------------------------------------------------------------------
(* Building.                                                               *)

TakeInventory(c) ==
    /\ pc[c] = "inventory"
    /\ job' = [job EXCEPT ![c].snap = note]
    /\ To(c, IF Resolvable THEN "record" ELSE Raised(c))
    /\ UNCHANGED <<stores, locks, rd, bounds>>

RecordBuilding(c) == \E g \in InState("none") :
    /\ pc[c] = "record" /\ dbLock = None
    /\ \A h \in InState("none") : g <= h
    /\ gen' = [gen EXCEPT ![g].state = "building"]
    /\ job' = [job EXCEPT ![c].g = g]
    /\ To(c, "build")
    /\ UNCHANGED <<note, pre, active, locks, bounds>>
    /\ Committed

(* The active index is the starting point, so it is resolved first; that   *)
(* call is not inside the try block.                                       *)
Build(c) ==
    /\ pc[c] = "build"
    /\ IF Resolvable
       THEN /\ gen' = [gen EXCEPT ![job[c].g].file = "staging",
                                  ![job[c].g].text = note]
            /\ To(c, "project")
       ELSE To(c, Raised(c)) /\ UNCHANGED gen
    /\ UNCHANGED <<note, pre, active, locks, job, rd, bounds>>

(* The projection of the sources is a second scan of the notes.            *)
Project(c) ==
    /\ pc[c] = "project"
    /\ job' = [job EXCEPT ![c].proj = note]
    /\ To(c, "check")
    /\ UNCHANGED <<stores, locks, rd, bounds>>

(* Mutant: nothing is compared with the inventory.                         *)
CheckNothing(c) ==
    /\ pc[c] = "check"
    /\ To(c, "move")
    /\ UNCHANGED <<stores, locks, job, rd, bounds>>

(* _assert_source_snapshot_unchanged and _validate_staging.                *)
Check(c) ==
    /\ pc[c] = "check"
    /\ To(c, IF note = job[c].snap /\ job[c].proj = job[c].snap THEN "move" ELSE "fail")
    /\ UNCHANGED <<stores, locks, job, rd, bounds>>

-----------------------------------------------------------------------------
(* _publish and _cleanup_generations.                                      *)

Move(c) == LET g == job[c].g IN
    /\ pc[c] = "move"
    /\ IF gen[g].file = "staging"
       THEN gen' = [gen EXCEPT ![g].file = "generation"] /\ To(c, "commit")
       ELSE To(c, "fail") /\ UNCHANGED gen
    /\ UNCHANGED <<note, pre, active, locks, job, rd, bounds>>

(* completed_at is read from the wall clock, which does not step back.     *)
Later == Cardinality({g \in Gens : gen[g].done # 0}) + 1

Publish(c) == LET g == job[c].g IN
    /\ pc[c] = "commit" /\ dbLock = None
    /\ gen[g].state = "building"
    /\ gen' = [gen EXCEPT ![g].state = "ready", ![g].done = Later]
    /\ active' = g
    /\ job' = [job EXCEPT ![c].snap = None, ![c].proj = None]
    /\ To(c, "readback")
    /\ UNCHANGED <<note, pre, locks, bounds>>
    /\ Committed

(* The reaper revoked the build after its file was moved.                  *)
PublishRevoked(c) ==
    /\ pc[c] = "commit" /\ dbLock = None
    /\ gen[job[c].g].state # "building"
    /\ gen' = [gen EXCEPT ![job[c].g] = Removed(@)]
    /\ To(c, "fail")
    /\ UNCHANGED <<note, pre, active, locks, job, rd, bounds>>

ReadBack(c) ==
    /\ pc[c] = "readback"
    /\ To(c, IF active = job[c].g /\ Resolvable THEN "retain" ELSE "fail")
    /\ UNCHANGED <<stores, locks, job, rd, bounds>>

(* Mutant: one generation less is kept.                                    *)
ScanOneLess(c) ==
    /\ pc[c] = "retain"
    /\ LET old == InState("ready") \ Newest(InState("ready"), Retain - 1) IN
        /\ job' = [job EXCEPT ![c].todo = old]
        /\ To(c, IF old = {} THEN "published" ELSE "retaining")
    /\ UNCHANGED <<stores, locks, rd, bounds>>

ScanReady(c) ==
    /\ pc[c] = "retain"
    /\ LET old == InState("ready") \ Newest(InState("ready"), Retain) IN
        /\ job' = [job EXCEPT ![c].todo = old]
        /\ To(c, IF old = {} THEN "published" ELSE "retaining")
    /\ UNCHANGED <<stores, locks, rd, bounds>>

RemoveOld(c) == \E g \in job[c].todo :
    /\ pc[c] = "retaining" /\ dbLock \in {None, c}
    /\ dbLock' = c
    /\ gen' = [gen EXCEPT ![g] = Removed(@)]
    /\ job' = [job EXCEPT ![c].todo = @ \ {g}, ![c].claimed = @ \cup {g}]
    /\ UNCHANGED <<note, pre, active, vault, pc, rd, bounds>>

RetainCommit(c) ==
    /\ pc[c] = "retaining"
    /\ CommitRows(c, "superseded", "published") /\ Committed

(* A mutation goes on to its receipt; one that has published before was    *)
(* restoring the index and raises the first error.                         *)
Report(c) ==
    /\ pc[c] = "published"
    /\ To(c, IF job[c].kind = "sync" THEN "ok"
             ELSE IF job[c].published THEN "failed" ELSE "receipt")
    /\ job' = [job EXCEPT ![c].published = TRUE]
    /\ UNCHANGED <<stores, locks, rd, bounds>>

(* _record_failure, whatever the state of the row, and the staging file.   *)
RecordFailure(c) == LET g == job[c].g IN
    /\ pc[c] = "fail" /\ dbLock = None
    /\ gen' = [gen EXCEPT ![g] = [(IF @.file = "staging" THEN Removed(@) ELSE @)
                                    EXCEPT !.state = "failed"]]
    /\ job' = [job EXCEPT ![c].snap = None, ![c].proj = None]
    /\ To(c, Raised(c))
    /\ UNCHANGED <<note, pre, active, locks, bounds>>
    /\ Committed

-----------------------------------------------------------------------------
(* resolve_active_generation, and a request that uses the path afterwards. *)

Fingerprint(r) ==
    /\ rd[r].pc = "idle"
    /\ rd' = [rd EXCEPT ![r].pc = "cache", ![r].fp = TRUE, ![r].window = {active}]
    /\ UNCHANGED <<stores, locks, pc, job, bounds>>

AskCache(r) ==
    /\ rd[r].pc = "cache"
    /\ LET c == rd[r].cache
           hit == c # None /\ rd[r].fp /\ gen[c].file = "generation"
       IN rd' = [rd EXCEPT ![r].pc = IF hit THEN "held" ELSE "read",
                           ![r].g = IF hit THEN c ELSE None]
    /\ UNCHANGED <<stores, locks, pc, job, bounds>>

EndRead(r) == rd' = [rd EXCEPT ![r] = [NoRead EXCEPT !.cache = rd[r].cache]]

ReadRow(r) ==
    /\ rd[r].pc = "read"
    /\ IF active # None /\ gen[active].state = "ready"
       THEN rd' = [rd EXCEPT ![r].pc = "verify", ![r].g = active]
       ELSE EndRead(r)
    /\ UNCHANGED <<stores, locks, pc, job, bounds>>

(* Mutant: the cache entry is good for the state database as it is now.    *)
VerifyFileCachesLate(r) ==
    /\ rd[r].pc = "verify"
    /\ IF gen[rd[r].g].file = "generation"
       THEN rd' = [rd EXCEPT ![r].pc = "held", ![r].cache = rd[r].g]
       ELSE EndRead(r)
    /\ UNCHANGED <<stores, locks, pc, job, bounds>>

VerifyFile(r) ==
    /\ rd[r].pc = "verify"
    /\ IF gen[rd[r].g].file = "generation"
       THEN rd' = [rd EXCEPT ![r].pc = "held",
                             ![r].cache = IF rd[r].fp THEN rd[r].g ELSE None]
       ELSE EndRead(r)
    /\ UNCHANGED <<stores, locks, pc, job, bounds>>

Release(r) ==
    /\ rd[r].pc = "held"
    /\ EndRead(r)
    /\ UNCHANGED <<stores, locks, pc, job, bounds>>

-----------------------------------------------------------------------------
(* Faults, and programs that edit notes without POWER.                     *)

Strikes(fault, at) ==
    /\ faults < MaxFaults
    /\ <<fault, at>> \in FaultPoints[serial]
    /\ faults' = faults + 1
    /\ UNCHANGED <<serial, edits>>

FreeLocks(c) ==
    /\ vault' = IF vault = c THEN None ELSE vault
    /\ dbLock' = IF dbLock = c THEN None ELSE dbLock

(* SQLite drops the uncommitted transaction, the kernel the locks.         *)
Kill(c) ==
    /\ pc[c] # "idle" /\ Strikes("kill", pc[c])
    /\ FreeLocks(c)
    /\ To(c, "idle")
    /\ job' = [job EXCEPT ![c] = NoJob]
    /\ UNCHANGED <<stores, rd>>

(* An OSError or sqlite3.Error, by where it is handled.                    *)
Handled(c) ==
    CASE pc[c] \in {"recover", "write"} -> "failed"
      [] pc[c] \in {"reap", "reaping"} -> "inventory"
      [] pc[c] \in {"inventory", "record", "fail"} -> Raised(c)
      [] pc[c] = "receipt" -> "undo"
      [] OTHER -> "fail"

Error(c) ==
    /\ pc[c] # "idle" /\ Strikes("error", pc[c])
    /\ To(c, Handled(c))
    /\ job' = [job EXCEPT ![c].todo = {}, ![c].claimed = {}]
    /\ dbLock' = IF dbLock = c THEN None ELSE dbLock
    /\ UNCHANGED <<stores, vault, rd>>

(* unlink fails for one generation: the next one is tried.                 *)
UnlinkFails(c) == \E g \in job[c].todo :
    /\ pc[c] = "retaining" /\ Strikes("unlink", pc[c])
    /\ job' = [job EXCEPT ![c].todo = @ \ {g}]
    /\ UNCHANGED <<stores, locks, pc, rd>>

(* The row is claimed all the same, and the file stays.                    *)
ReapUnlinkFails(c) == \E g \in job[c].todo :
    /\ pc[c] = "reaping" /\ dbLock \in {None, c} /\ gen[g].state = "building"
    /\ Strikes("unlink", pc[c])
    /\ dbLock' = c
    /\ job' = [job EXCEPT ![c].todo = @ \ {g}, ![c].claimed = @ \cup {g}]
    /\ UNCHANGED <<stores, vault, pc, rd>>

(* No edit takes the notes back to what an unfinished build has recorded:  *)
(* rows are not compared with the hashes of the inventory.                 *)
Edit(v) ==
    /\ edits < MaxEdits[serial] /\ v # note
    /\ \A c \in Callers : v # job[c].snap
    /\ edits' = edits + 1
    /\ note' = v
    /\ job' = [c \in Callers |-> [job[c] EXCEPT !.edited = job[c].kind = "note"]]
    /\ UNCHANGED <<pre, gen, active, locks, pc, rd, serial, faults>>

-----------------------------------------------------------------------------
Sync(c) ==
    \/ ScanStale(c) \/ ClaimStale(c) \/ ReapCommit(c)
    \/ TakeInventory(c) \/ RecordBuilding(c) \/ Build(c) \/ Project(c) \/ Check(c)
    \/ Move(c) \/ Publish(c) \/ PublishRevoked(c) \/ ReadBack(c)
    \/ ScanReady(c) \/ RemoveOld(c) \/ RetainCommit(c) \/ Report(c)
    \/ RecordFailure(c)

Mutation(c) ==
    \/ TakeLock(c) \/ Leave(c) \/ Recover(c) \/ AppendReceipt(c) \/ Undo(c)
    \/ \E v \in Versions : WriteNote(c, v)

Read(r) ==
    Fingerprint(r) \/ AskCache(r) \/ ReadRow(r) \/ VerifyFile(r) \/ Release(r)

Fault(c) == Kill(c) \/ Error(c) \/ UnlinkFails(c) \/ ReapUnlinkFails(c)

Next ==
    \/ \E c \in Callers :
        \/ \E kind \in {"sync", "note"} : Start(c, kind)
        \/ Sync(c) \/ Mutation(c) \/ Fault(c)
    \/ \E r \in Readers : Read(r)
    \/ \E v \in Versions : Edit(v)
    \/ RecoverElsewhere

Spec == Init /\ [][Next]_indexVars

-----------------------------------------------------------------------------
(* The pointer names a generation that is ready and whose file is there:   *)
(* no search fails, and the next sync can start.  Publishers, reapers and  *)
(* retention of other callers, and what kills leave, do not break it.      *)
PointerReadable == Resolvable

(* The generations published after g.                                      *)
After(g) == {h \in Gens : gen[h].done > gen[g].done}

(* A request that has resolved a path can open it until Retain further     *)
(* generations have been published since it began: current and previous    *)
(* are kept.                                                               *)
HeldFileStays == \A r \in Readers :
    (rd[r].pc = "held" /\ gen[rd[r].g].file # "generation")
        => Cardinality(rd[r].window \cap After(rd[r].g)) >= Retain

(* What resolve_active_generation returns, from its cache or not, was the  *)
(* active generation at some time during the call.                         *)
ResolvesWithinCall == \A r \in Readers : rd[r].pc = "held" => rd[r].g \in rd[r].window

(* What is about to become active was built from one inventory: its rows,  *)
(* read while other programs edit notes, and its projection, read by a     *)
(* second scan, hold what the row in the state database says they hold.    *)
PublishesOneSnapshot == \A c \in Callers :
    (pc[c] = "commit" /\ gen[job[c].g].file = "generation")
        => gen[job[c].g].text = job[c].snap /\ job[c].proj = job[c].snap

(* A note mutation that succeeded is served by the active generation; one  *)
(* that failed and was rolled back is not (if no other program edited the  *)
(* notes meanwhile, and the index agreed with them before).                *)
NoteAndIndexAgree == \A c \in Callers :
    /\ job[c].kind = "note" /\ ~job[c].edited
    /\ pc[c] = "ok" \/ (pc[c] = "failed" /\ job[c].agreed)
    => Serves(note)
================================================================================
