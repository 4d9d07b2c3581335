--------------------------- MODULE ProjectEventStore ---------------------------
(***************************************************************************)
(* One project's hash-chained ledger (core/project_store.py) with the      *)
(* batch import of core/project_ingestion.py.                              *)
(*                                                                         *)
(* The partitions events_000001.jsonl, ... and the active events.jsonl are *)
(* read one after the other, so their newline-terminated lines form one    *)
(* sequence, `ledger`.  `archives` says where each partition ends in it,   *)
(* and `tail` is what follows the last newline of the active file: nothing,*)
(* bytes that do not parse (Torn), or a whole record that only lacks its   *)
(* newline.                                                                *)
(*                                                                         *)
(* A process is one thread of one OS process; every call is cut at the     *)
(* points where a kill or an I/O error leaves different bytes on disk, and *)
(* where a reader that takes no lock can look.  An event hash is the       *)
(* unique serial number `uid` of the event it was computed from (SHA-256   *)
(* taken as collision free), 0 stands for the empty hash.                  *)
(***************************************************************************)
EXTENDS Integers, Sequences, FiniteSets

CONSTANTS
    Procs,        \* callers that take the project lock
    Verifiers,    \* callers of verify(), which takes no lock
    None,         \* "no process holds the lock"
    Keys, NoKey,  \* idempotency keys; NoKey is idempotency_key = None
    Ids, NoId,    \* explicit event ids; NoId is event_id = None
    DetId,        \* generate_deterministic_event_id, [Keys -> Ids]
    Bodies,       \* command fingerprints
    Cmds,         \* commands callers append
    Batches,      \* sequences of commands found in imported chains
    Kinds,        \* which calls are made
    Torn, NoTail, \* the two special values of tail
    FaultPoints,  \* program points at which a kill or an OSError may strike
    MaxCalls,     \* bound on the writing calls
    MaxFaults     \* bound on kills and I/O errors

Command == [key : Keys \cup {NoKey}, eid : Ids \cup {NoId}, body : Bodies]
EventId == Ids \cup Nat
Event == [seq : Nat \ {0}, uid : Nat \ {0}, prev : Nat,
          key : Keys \cup {NoKey}, eid : EventId, body : Bodies,
          imported : BOOLEAN]

ASSUME ProcsAssumption == None \notin Procs
ASSUME KeyAssumption == NoKey \notin Keys /\ NoId \notin Ids /\ NoId \notin Nat
ASSUME DetIdAssumption == DetId \in [Keys -> Ids]
ASSUME CmdAssumption == Cmds \subseteq Command
ASSUME BatchAssumption == Batches \subseteq Seq(Command)
ASSUME TailAssumption == Torn # NoTail /\ Torn \notin Event /\ NoTail \notin Event
ASSUME BoundAssumption == MaxCalls \in Nat /\ MaxFaults \in Nat

VARIABLES
    ledger,   \* the complete lines of all partitions and the active file
    archives, \* one [upto, torn] per rotated partition, oldest first
    active,   \* does events.jsonl exist?
    tail,     \* what follows the last newline of events.jsonl
    lock,     \* holder of the Level 3 project lock
    pc, op,   \* where each process is, and in which call
    goal,     \* the content a process is bringing the ledger to
    res,      \* what the call will return
    built,    \* events built so far (source of uid)
    acked,    \* events some call has returned
    batch,    \* the last batch a verified replay returned, and whether its last
              \* record was still loose: without its newline
    scan,     \* the state of each unlocked verify()
    calls, faults

disk == <<ledger, archives, active, tail>>
local == <<pc, op, goal, res>>
ghost == <<acked, batch>>
vars == <<disk, lock, local, built, ghost, scan, calls, faults>>

NoOp == [kind |-> "none", cmds |-> <<>>, exp |-> -1]
NoBatch == [out |-> <<>>, loose |-> FALSE]
NoScan == [pc |-> "idle", parts |-> 0, has |-> FALSE,
           out |-> <<>>, loose |-> FALSE, ok |-> FALSE]

Locked == {"recover", "rewrite", "check", "write", "rotate", "create",
           "read", "ret", "fail"}

-----------------------------------------------------------------------------
(* Reading the files.                                                      *)

LastUid(s) == IF s = <<>> THEN 0 ELSE s[Len(s)].uid

(* How many lines the first n partitions hold.                             *)
UpTo(n) == IF n = 0 THEN 0 ELSE archives[n].upto
Archived == UpTo(Len(archives))

(* A line of the active file counts as soon as it parses: verify and       *)
(* replay strip the newline before they look.                              *)
Visible == IF tail \in Event THEN Append(ledger, tail) ELSE ledger

Unreadable(n) == \E k \in 1..n : archives[k].torn

(* The checks of verify() that this model can make fail.                   *)
Linked(s) == \A i \in 1..Len(s) :
    /\ s[i].seq = i
    /\ s[i].prev = IF i = 1 THEN 0 ELSE s[i-1].uid

IdsDiffer(s) == \A i, j \in 1..Len(s) : s[i].eid = s[j].eid => i = j

ChainOK(s) == Linked(s) /\ IdsDiffer(s)

VerifyOK == tail # Torn /\ ~Unreadable(Len(archives)) /\ ChainOK(Visible)

-----------------------------------------------------------------------------
(* Building events.                                                        *)

IdOf(c, uid) ==
    IF c.eid # NoId THEN c.eid
    ELSE IF c.key # NoKey THEN DetId[c.key]
    ELSE uid

Made(s, cs, i, imp) ==
    [seq |-> Len(s) + i, uid |-> built + i,
     prev |-> IF i = 1 THEN LastUid(s) ELSE built + i - 1,
     key |-> cs[i].key, eid |-> IdOf(cs[i], built + i), body |-> cs[i].body,
     imported |-> imp]

(* The chain of the commands cs, built onto s with fresh hashes.           *)
Built(s, cs, imp) == s \o [i \in 1..Len(cs) |-> Made(s, cs, i, imp)]

(* The idempotency scan: an event with the command's key or its event_id.  *)
(* Mutant: only event ids are compared.                                    *)
MatchesIdOnly(c, e) == c.eid # NoId /\ e.eid = c.eid

Matches(c, e) == \/ c.key # NoKey /\ e.key = c.key
                 \/ c.eid # NoId /\ e.eid = c.eid
FirstMatch(c) ==
    {i \in 1..Len(ledger) :
        /\ Matches(c, ledger[i])
        /\ \A j \in 1..(i-1) : ~Matches(c, ledger[j])}

-----------------------------------------------------------------------------
Init ==
    /\ ledger = <<>> /\ archives = <<>> /\ active = FALSE /\ tail = NoTail
    /\ lock = None
    /\ pc = [p \in Procs |-> "idle"]
    /\ op = [p \in Procs |-> NoOp]
    /\ goal = [p \in Procs |-> <<>>]
    /\ res = [p \in Procs |-> {}]
    /\ built = 0 /\ acked = {} /\ batch = NoBatch
    /\ scan = [v \in Verifiers |-> NoScan]
    /\ calls = 0 /\ faults = 0

Goto(p, l) == pc' = [pc EXCEPT ![p] = l]

-----------------------------------------------------------------------------
(* Calls.  A governed append names the head its caller evaluated, a chain  *)
(* that is imported was cut at some head: both are the head at the time of *)
(* the call, which may be stale when the lock is granted.                  *)

Call(p, o) ==
    /\ pc[p] = "idle"
    /\ o.kind \in Kinds
    /\ o.kind = "read" \/ calls < MaxCalls
    /\ op' = [op EXCEPT ![p] = o]
    /\ Goto(p, "wait")
    /\ calls' = IF o.kind = "read" THEN calls ELSE calls + 1
    /\ UNCHANGED <<disk, lock, goal, res, built, ghost, scan, faults>>

CallAppend(p) == \E c \in Cmds : Call(p, [kind |-> "append", cmds |-> <<c>>, exp |-> -1])

CallGoverned(p) ==
    \E c \in Cmds :
        Call(p, [kind |-> "governed", cmds |-> <<c>>, exp |-> LastUid(Visible)])

CallImport(p) ==
    \E cs \in Batches : Call(p, [kind |-> "import", cmds |-> cs, exp |-> LastUid(Visible)])

CallRotate(p) == Call(p, [kind |-> "rotate", cmds |-> <<>>, exp |-> -1])

CallRead(p) == Call(p, [kind |-> "read", cmds |-> <<>>, exp |-> -1])

(* project_lock: thread lock and flock in one, both exclusive, both tried  *)
(* until a deadline.                                                       *)
Entry(kind) == CASE kind = "rotate" -> "rotate"
                 [] kind = "read" -> "read"
                 [] OTHER -> "recover"

Acquire(p) ==
    /\ pc[p] = "wait" /\ lock = None
    /\ lock' = p
    /\ Goto(p, Entry(op[p].kind))
    /\ UNCHANGED <<disk, op, goal, res, built, ghost, scan, calls, faults>>

(* Mutant: the lock is waited for without a deadline.                      *)
LockTimeoutNever(p) == FALSE /\ UNCHANGED vars

LockTimeout(p) ==
    /\ pc[p] = "wait" /\ lock # None
    /\ Goto(p, "idle")
    /\ op' = [op EXCEPT ![p] = NoOp]
    /\ UNCHANGED <<disk, lock, goal, res, built, ghost, scan, calls, faults>>

-----------------------------------------------------------------------------
(* recover_torn_tail: an unterminated tail is cut off by emptying the file *)
(* (O_TRUNC) and writing its complete lines again.                         *)

RecoverNothing(p) ==
    /\ pc[p] = "recover" /\ tail = NoTail
    /\ Goto(p, "check")
    /\ UNCHANGED <<disk, lock, op, goal, res, built, ghost, scan, calls, faults>>

(* Mutant: the cut is made one line too early.                             *)
RecoverTruncateLastLine(p) ==
    /\ pc[p] = "recover" /\ tail # NoTail
    /\ LET keep == IF Len(ledger) > Archived THEN Len(ledger) - 1 ELSE Archived
       IN  goal' = [goal EXCEPT ![p] = SubSeq(ledger, 1, keep)]
    /\ ledger' = SubSeq(ledger, 1, Archived)
    /\ tail' = NoTail
    /\ Goto(p, "rewrite")
    /\ UNCHANGED <<archives, active, lock, op, res, built, ghost, scan, calls, faults>>

RecoverTruncate(p) ==
    /\ pc[p] = "recover" /\ tail # NoTail
    /\ goal' = [goal EXCEPT ![p] = ledger]
    /\ ledger' = SubSeq(ledger, 1, Archived)
    /\ tail' = NoTail
    /\ Goto(p, "rewrite")
    /\ UNCHANGED <<archives, active, lock, op, res, built, ghost, scan, calls, faults>>

-----------------------------------------------------------------------------
(* Writing lines.  A line reaches the file in two steps, so that a fault   *)
(* or a reader in between finds either bytes that do not parse or a record *)
(* that lacks its newline.                                                 *)

BeginLine(p) ==
    /\ pc[p] \in {"rewrite", "write"}
    /\ Len(ledger) < Len(goal[p]) /\ tail = NoTail
    /\ tail' \in {Torn, goal[p][Len(ledger) + 1]}
    /\ active' = TRUE
    /\ UNCHANGED <<ledger, archives, lock, local, built, ghost, scan, calls, faults>>

EndLine(p) ==
    /\ pc[p] \in {"rewrite", "write"}
    /\ Len(ledger) < Len(goal[p]) /\ tail # NoTail
    /\ ledger' = Append(ledger, goal[p][Len(ledger) + 1])
    /\ tail' = NoTail
    /\ UNCHANGED <<archives, active, lock, local, built, ghost, scan, calls, faults>>

(* The last line is written and fsynced.                                   *)
Rewritten(p) ==
    /\ pc[p] = "rewrite" /\ Len(ledger) = Len(goal[p])
    /\ goal' = [goal EXCEPT ![p] = <<>>]
    /\ Goto(p, "check")
    /\ UNCHANGED <<disk, lock, op, res, built, ghost, scan, calls, faults>>

Written(p) ==
    /\ pc[p] = "write" /\ Len(ledger) = Len(goal[p])
    /\ goal' = [goal EXCEPT ![p] = <<>>]
    /\ Goto(p, "ret")
    /\ UNCHANGED <<disk, lock, op, res, built, ghost, scan, calls, faults>>

-----------------------------------------------------------------------------
(* With the lock held and the tail repaired: verify the whole ledger,      *)
(* compare the head, look for the same request, build the new events.      *)

Appending(p) == op[p].kind \in {"append", "governed"}
(* Mutant: the expected head is not compared.                              *)
HeadIgnored(p) == TRUE
HeadUnchanged(p) == op[p].exp \in {-1, LastUid(ledger)}
Conflicts(p) == \E i \in FirstMatch(op[p].cmds[1]) : ledger[i].body # op[p].cmds[1].body

(* Mutant: the ids of the batch are not compared with those stored.        *)
FreshIdsUnchecked(p) == TRUE

(* import_project_events refuses an event_id the ledger or the batch has.  *)
FreshIds(p) ==
    LET s == Built(ledger, op[p].cmds, TRUE)
    IN  \A i \in 1..Len(s), j \in (Len(ledger) + 1)..Len(s) :
            i # j => s[i].eid # s[j].eid

Refused(p) ==
    \/ ~VerifyOK
    \/ ~HeadUnchanged(p)
    \/ Appending(p) /\ Conflicts(p)
    \/ op[p].kind = "import" /\ ~FreshIds(p)

Refuse(p) ==
    /\ pc[p] = "check" /\ Refused(p)
    /\ Goto(p, "fail")
    /\ UNCHANGED <<disk, lock, op, goal, res, built, ghost, scan, calls, faults>>

(* An idempotent replay returns the event the earlier call stored.         *)
AnswerStored(p) ==
    /\ pc[p] = "check" /\ ~Refused(p) /\ Appending(p)
    /\ FirstMatch(op[p].cmds[1]) # {}
    /\ res' = [res EXCEPT ![p] = {ledger[i] : i \in FirstMatch(op[p].cmds[1])}]
    /\ Goto(p, "ret")
    /\ UNCHANGED <<disk, lock, op, goal, built, ghost, scan, calls, faults>>

Build(p) ==
    /\ pc[p] = "check" /\ ~Refused(p)
    /\ Appending(p) => FirstMatch(op[p].cmds[1]) = {}
    /\ LET cs == op[p].cmds
           s  == Built(ledger, cs, op[p].kind = "import")
       IN  /\ goal' = [goal EXCEPT ![p] = s]
           /\ res' = [res EXCEPT ![p] = {s[i] : i \in (Len(ledger) + 1)..Len(s)}]
           /\ built' = built + Len(cs)
    /\ Goto(p, "write")
    /\ UNCHANGED <<disk, lock, op, ghost, scan, calls, faults>>

-----------------------------------------------------------------------------
(* rotate: rename the active file to the next partition, create a new one. *)
(* It looks at the file's size only, never at its last byte.               *)

RotateNothing(p) ==
    /\ pc[p] = "rotate"
    /\ ~active \/ (Len(ledger) = Archived /\ tail = NoTail)
    /\ Goto(p, "ret")
    /\ UNCHANGED <<disk, lock, op, goal, res, built, ghost, scan, calls, faults>>

RotateRename(p) ==
    /\ pc[p] = "rotate"
    /\ active /\ (Len(ledger) > Archived \/ tail # NoTail)
    /\ ledger' = Visible
    /\ archives' = Append(archives, [upto |-> Len(Visible), torn |-> tail = Torn])
    /\ active' = FALSE /\ tail' = NoTail
    /\ Goto(p, "create")
    /\ UNCHANGED <<lock, op, goal, res, built, ghost, scan, calls, faults>>

RotateCreate(p) ==
    /\ pc[p] = "create"
    /\ active' = TRUE
    /\ Goto(p, "ret")
    /\ UNCHANGED <<ledger, archives, tail, lock, op, goal, res, built, ghost, scan, calls, faults>>

-----------------------------------------------------------------------------
(* read_verified_replay: verify and replay under the lock, no repair.      *)
ReadVerified(p) ==
    /\ pc[p] = "read"
    /\ IF VerifyOK
       THEN batch' = [out |-> Visible, loose |-> tail \in Event] /\ Goto(p, "ret")
       ELSE batch' = batch /\ Goto(p, "fail")
    /\ UNCHANGED <<disk, lock, op, goal, res, built, acked, scan, calls, faults>>

(* The lock is released and the caller has its answer, or an exception.    *)
Return(p) ==
    /\ pc[p] \in {"ret", "fail"}
    /\ lock' = None
    /\ acked' = IF pc[p] = "ret" THEN acked \cup res[p] ELSE acked
    /\ op' = [op EXCEPT ![p] = NoOp]
    /\ goal' = [goal EXCEPT ![p] = <<>>]
    /\ res' = [res EXCEPT ![p] = {}]
    /\ Goto(p, "idle")
    /\ UNCHANGED <<disk, built, batch, scan, calls, faults>>

-----------------------------------------------------------------------------
(* Faults.  A kill releases the flock with the process and leaves the      *)
(* files as they are; a failed write raises through the open file.         *)

Kill(p) ==
    /\ pc[p] \in FaultPoints /\ faults < MaxFaults
    /\ faults' = faults + 1
    /\ lock' = IF lock = p THEN None ELSE lock
    /\ op' = [op EXCEPT ![p] = NoOp]
    /\ goal' = [goal EXCEPT ![p] = <<>>]
    /\ res' = [res EXCEPT ![p] = {}]
    /\ Goto(p, "idle")
    /\ UNCHANGED <<disk, built, ghost, scan, calls>>

WriteError(p) ==
    /\ pc[p] \in FaultPoints \cap {"rewrite", "write"} /\ faults < MaxFaults
    /\ faults' = faults + 1
    /\ goal' = [goal EXCEPT ![p] = <<>>]
    /\ Goto(p, "fail")
    /\ UNCHANGED <<disk, lock, op, res, built, ghost, scan, calls>>

-----------------------------------------------------------------------------
(* verify() without the lock: list the partitions, look for the active     *)
(* file, then read what was listed.                                        *)

ListPartitions(v) ==
    /\ scan[v].pc = "idle"
    /\ scan' = [scan EXCEPT ![v] =
                   [pc |-> "listing", parts |-> Len(archives), has |-> FALSE,
                    out |-> <<>>, loose |-> FALSE, ok |-> FALSE]]
    /\ UNCHANGED <<disk, lock, local, built, ghost, calls, faults>>

ListActive(v) ==
    /\ scan[v].pc = "listing"
    /\ scan' = [scan EXCEPT ![v].pc = "reading", ![v].has = active]
    /\ UNCHANGED <<disk, lock, local, built, ghost, calls, faults>>

(* A listed active file that is gone is an error; one that was rotated     *)
(* meanwhile is read in its new, shorter state.                            *)
Scanned(v) ==
    SubSeq(ledger, 1, UpTo(scan[v].parts))
        \o IF scan[v].has THEN SubSeq(Visible, Archived + 1, Len(Visible)) ELSE <<>>

(* Does the last record that is read lack its newline?                     *)
Loose(v) == scan[v].has /\ tail \in Event

(* Every listed file opens, and every line in it parses.                   *)
FilesOK(v) ==
    /\ ~Unreadable(scan[v].parts)
    /\ scan[v].has => active /\ tail # Torn

(* Mutant: each file is checked, the links between files are not.          *)
ReadListedUnlinked(v) ==
    /\ scan[v].pc = "reading"
    /\ scan' = [scan EXCEPT ![v].pc = "done", ![v].out = Scanned(v),
                            ![v].loose = Loose(v), ![v].ok = FilesOK(v)]
    /\ UNCHANGED <<disk, lock, local, built, ghost, calls, faults>>

ReadListed(v) ==
    /\ scan[v].pc = "reading"
    /\ scan' = [scan EXCEPT ![v].pc = "done", ![v].out = Scanned(v),
                            ![v].loose = Loose(v),
                            ![v].ok = FilesOK(v) /\ ChainOK(Scanned(v))]
    /\ UNCHANGED <<disk, lock, local, built, ghost, calls, faults>>

EndScan(v) ==
    /\ scan[v].pc = "done"
    /\ scan' = [scan EXCEPT ![v] = NoScan]
    /\ UNCHANGED <<disk, lock, local, built, ghost, calls, faults>>

-----------------------------------------------------------------------------
Request(p) == \/ CallAppend(p) \/ CallGoverned(p) \/ CallImport(p)
              \/ CallRotate(p) \/ CallRead(p)

Step(p) == \/ Acquire(p) \/ LockTimeout(p)
           \/ RecoverNothing(p) \/ RecoverTruncate(p)
           \/ BeginLine(p) \/ EndLine(p) \/ Rewritten(p) \/ Written(p)
           \/ Refuse(p) \/ AnswerStored(p) \/ Build(p)
           \/ RotateNothing(p) \/ RotateRename(p) \/ RotateCreate(p)
           \/ ReadVerified(p) \/ Return(p)

Fault(p) == Kill(p) \/ WriteError(p)

Verify(v) == ListPartitions(v) \/ ListActive(v) \/ ReadListed(v) \/ EndScan(v)

Next == \/ \E p \in Procs : Request(p) \/ Step(p) \/ Fault(p)
        \/ \E v \in Verifiers : Verify(v)

Spec == Init /\ [][Next]_vars

(* A process that is not killed keeps running.                             *)
FairSpec == Spec /\ \A p \in Procs : WF_vars(Step(p))

-----------------------------------------------------------------------------
(* Properties.                                                             *)

(* The events of the ledger; while a repair is rewriting the active file,  *)
(* the events it is putting back.                                          *)
Content == IF \E p \in Procs : pc[p] = "rewrite"
           THEN goal[CHOOSE p \in Procs : pc[p] = "rewrite"]
           ELSE ledger

IsPrefixOf(s, t) == Len(s) <= Len(t) /\ \A i \in 1..Len(s) : s[i] = t[i]

(* Every variable has its type.                                            *)
TypeOK ==
    /\ ledger \in Seq(Event)
    /\ archives \in Seq([upto : Nat, torn : BOOLEAN])
    /\ active \in BOOLEAN
    /\ tail \in Event \cup {Torn, NoTail}
    /\ lock \in Procs \cup {None}
    /\ pc \in [Procs -> Locked \cup {"idle", "wait"}]
    /\ op \in [Procs -> [kind : {"none", "append", "governed", "import", "rotate", "read"},
                         cmds : Seq(Command), exp : Int]]
    /\ goal \in [Procs -> Seq(Event)]
    /\ res \in [Procs -> SUBSET Event]
    /\ built \in Nat
    /\ acked \subseteq Event
    /\ batch \in [out : Seq(Event), loose : BOOLEAN]
    /\ scan \in [Verifiers -> [pc : {"idle", "listing", "reading", "done"},
                               parts : Nat, has : BOOLEAN,
                               out : Seq(Event), loose : BOOLEAN, ok : BOOLEAN]]
    /\ calls \in 0..MaxCalls
    /\ faults \in 0..MaxFaults

(* At most one process is between the acquisition and the release of the   *)
(* project lock (project_lock).                                            *)
LockExclusive == \A p \in Procs : pc[p] \in Locked => lock = p

(* The ledger passes its own verification whatever calls, kills and write  *)
(* errors came before, its repair included: sequence numbers without gaps, *)
(* each event carrying the hash of the one before, no event_id twice.      *)
LedgerVerifies == ChainOK(Content)

(* An append never stores two events under one idempotency key, however    *)
(* often it is retried after a failure that hid its first outcome          *)
(* (_append_unchecked, step 3).                                            *)
OneEventPerKey ==
    \A i, j \in 1..Len(Content) :
        /\ i < j
        /\ Content[i].key = Content[j].key
        /\ Content[i].key # NoKey
        => Content[j].imported

(* Event e is in s at its own sequence number.                             *)
At(e, s) == e.seq \in 1..Len(s) /\ s[e.seq] = e

(* An event that some call returned to its caller stays in the ledger, at  *)
(* its own sequence number, through every later repair and rotation.       *)
AckedDurable == \A e \in acked : At(e, Content)

(* The records of s up to number n are in the ledger, at their places.      *)
Holds(s, n) == \A i \in 1..n : i <= Len(Content) /\ Content[i] = s[i]

(* How many records of what was read had their newline.                    *)
Complete(r) == Len(r.out) - (IF r.loose THEN 1 ELSE 0)

(* What read_verified_replay certified stays in the ledger.  A last record *)
(* is excepted only if it lacked its newline when it was read.             *)
VerifiedReadLasts == Holds(batch.out, Complete(batch))

(* A verify() that takes no lock may miss events or fail, but what it      *)
(* calls valid is never a chain that the ledger does not hold, but for a   *)
(* last record that lacked its newline when it was read.                   *)
VerifyNeverInvents ==
    \A v \in Verifiers : scan[v].ok => Holds(scan[v].out, Complete(scan[v]))

(* A governed append takes effect only directly after the head its caller  *)
(* evaluated, even if other writers ran between evaluation and lock.       *)
GovernedOnEvaluatedHead ==
    [][\A p \in Procs :
         op[p].kind = "governed" /\ pc[p] = "write" /\ Len(ledger') > Len(ledger)
         => ledger'[Len(ledger')].prev = op[p].exp]_vars

(* The store implements the abstract event log.                            *)
Log == INSTANCE EventLog WITH log <- Content
ImplementsLog == Log!Spec

(* Every call returns or is killed: no caller waits for ever, neither for  *)
(* the lock nor inside it.                                                 *)
CallsReturn == \A p \in Procs : pc[p] # "idle" ~> pc[p] = "idle"
===============================================================================
