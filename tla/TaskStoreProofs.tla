----------------------------- MODULE TaskStoreProofs -----------------------------
(***************************************************************************)
(* Machine-checked theorems about TaskStore, for any number of stores,     *)
(* files, images, plans, transactions and faults.                          *)
(*                                                                         *)
(* The argument: a store opens only when no directory is left (StoreInv),  *)
(* so that there is at most one, that of the last transaction.  Its        *)
(* manifest says how the files may differ from the committed content       *)
(* (DiskInv): not at all without a manifest, by a part of its own writes   *)
(* when it is prepared, not at all again when it is committed.  Recovery,  *)
(* rollback and removal keep that wherever a process dies.                 *)
(***************************************************************************)
EXTENDS TaskStore, SequenceTheorems, TLAPS

-----------------------------------------------------------------------------
(* The inductive invariant behind the types.                               *)

Content == Images \cup {NoFile}

(* A directory's images are those of the files it declares, or none yet.   *)
Pictures == {<<>>} \cup UNION {[F -> Content] : F \in SUBSET Files}

Directory == [there : BOOLEAN, man : {"none", "prepared", "committed"}, baks : BOOLEAN,
              touch : Seq(Files), pre : Pictures, post : Pictures]

Job == [id : 0..MaxTx, todo : SUBSET TxIds, plan : A!Plan,
        left : Seq(Files) \cup Seq(Files \X Images), ok : BOOLEAN]

Memory == [recovered : BOOLEAN, blocked : BOOLEAN]

Shape ==
    /\ file \in [Files -> Content] /\ truth \in [Files -> Content]
    /\ tx \in [TxIds -> Directory]
    /\ lock \in Stores \cup {NoStore}
    /\ pc \in [Stores -> PCs]
    /\ mem \in [Stores -> Memory]
    /\ job \in [Stores -> Job]
    /\ made \in 0..MaxTx /\ faults \in 0..MaxFaults

Working == {"made", "body", "undo", "clean", "rm"}

LockHeld == \A s \in Stores : pc[s] \in Holding => lock = s

(* The directory of the transaction that s runs or reconciles.             *)
Mine(s) == tx[job[s].id]

JobInv(s) ==
    /\ pc[s] \in Working => job[s].id \in TxIds
    /\ pc[s] = "body" => /\ job[s].left \in Seq(Files \X Images)
                         /\ Mine(s).man = "prepared"
    /\ pc[s] = "undo" => /\ job[s].left \in Seq(Files)
                         /\ A!RangeOf(job[s].left) \subseteq A!RangeOf(Mine(s).touch)
                         /\ Mine(s).man = "prepared"

PicturesTaken == \A i \in TxIds :
    tx[i].man # "none" => tx[i].pre \in [A!RangeOf(tx[i].touch) -> Content]

TypeInv == Shape /\ LockHeld /\ PicturesTaken /\ \A s \in Stores : JobInv(s)

-----------------------------------------------------------------------------
(* Sequences.                                                              *)

(* What RangeOf gives: the elements of a sequence, and for a sequence that *)
(* is worked off from the front, its head and what is left.                *)
LEMMA RangeFacts ==
    ASSUME NEW S, NEW q \in Seq(S)
    PROVE  /\ A!RangeOf(q) \subseteq S
           /\ q = <<>> => A!RangeOf(q) = {}
           /\ q # <<>> => /\ Head(q) \in A!RangeOf(q)
                          /\ Tail(q) \in Seq(S)
                          /\ A!RangeOf(q) = {Head(q)} \cup A!RangeOf(Tail(q))
<1>1. A!RangeOf(q) \subseteq S
  BY ElementOfSeq DEF A!RangeOf
<1>2. q = <<>> => A!RangeOf(q) = {}
  BY DEF A!RangeOf
<1>3. ASSUME q # <<>>
      PROVE  /\ Head(q) \in A!RangeOf(q)
             /\ Tail(q) \in Seq(S)
             /\ A!RangeOf(q) = {Head(q)} \cup A!RangeOf(Tail(q))
  <2>1. /\ Tail(q) \in Seq(S) /\ Len(Tail(q)) = Len(q) - 1
        /\ \A i \in 1..Len(Tail(q)) : Tail(q)[i] = q[i + 1]
        /\ Len(q) \in Nat \ {0} /\ Head(q) = q[1]
    BY <1>3, HeadTailProperties, EmptySeq
  <2>2. Head(q) \in A!RangeOf(q)
    BY <2>1 DEF A!RangeOf
  <2>3. A!RangeOf(Tail(q)) \subseteq A!RangeOf(q)
    BY <2>1 DEF A!RangeOf
  <2>4. A!RangeOf(q) \subseteq {Head(q)} \cup A!RangeOf(Tail(q))
    <3>1. ASSUME NEW i \in 1..Len(q), i # 1 PROVE q[i] \in A!RangeOf(Tail(q))
      <4>1. i - 1 \in 1..Len(Tail(q)) /\ Tail(q)[i - 1] = q[i]
        BY <2>1, <3>1
      <4>2. QED BY <4>1 DEF A!RangeOf
    <3>2. QED BY <2>1, <3>1 DEF A!RangeOf
  <2>5. QED BY <2>1, <2>2, <2>3, <2>4
<1>4. QED BY <1>1, <1>2, <1>3

-----------------------------------------------------------------------------
(* Types.                                                                  *)

LEMMA Records ==
    /\ NoPlan \in A!Plan
    /\ NoTx \in Directory
    /\ NoJob \in Job
    /\ Fresh \in Memory
<1>1. <<>> \in Seq(Files) /\ <<>> \in Seq(Files \X Images)
  BY EmptySeq
<1>2. NoPlan \in A!Plan
  BY <1>1 DEF NoPlan, A!Plan
<1>3. NoTx \in Directory
  BY <1>1 DEF NoTx, Directory, Pictures
<1>4. NoJob \in Job
  BY <1>1, <1>2, StoreBounds DEF NoJob, Job
<1>5. QED BY <1>2, <1>3, <1>4 DEF Fresh, Memory

LEMMA InitTypes == Init => TypeInv
<1> SUFFICES ASSUME Init PROVE TypeInv
  OBVIOUS
<1>1. Shape
  BY Records, StoreBounds DEF Init, Shape, Content, PCs
<1>2. LockHeld /\ PicturesTaken /\ \A s \in Stores : JobInv(s)
  BY DEF Init, LockHeld, Holding, PicturesTaken, NoTx, JobInv, Working
<1>3. QED BY <1>1, <1>2 DEF TypeInv

(* A store that has no lock is not affected by what the holder s does to   *)
(* its own state.                                                          *)
LEMMA OthersWait ==
    ASSUME TypeInv, NEW s \in Stores, pc[s] \in Holding \/ lock = NoStore,
           NEW r \in Stores \ {s}
    PROVE  pc[r] \in {"idle", "enter"}
BY StoreAssumption DEF TypeInv, LockHeld, Holding, Shape

(* What a store may do, one step of the code at a time, whatever           *)
(* transactions its callers run: TaskService brings its own.               *)
Act(s) ==
    \/ Enter(s) \/ Inside(s) \/ Fault(s) \/ Decline(s)
    \/ \E p \in A!Plan : Begin(s, p)

Step == \E s \in Stores : Act(s)

LEMMA NextIsStep == Next => Step
BY StorePlans DEF Next, Step, Act

(* Every step leaves the state well shaped.                                *)
LEMMA ShapeStep ==
    ASSUME TypeInv, NEW s \in Stores, Act(s)
    PROVE  Shape'
<1> USE Records DEF TypeInv, PCs
<1>0. Shape /\ JobInv(s) /\ job[s] \in Job
  BY DEF Shape
<1>a. ASSUME Block(s) PROVE mem' \in [Stores -> Memory]
  <2>1. [mem[s] EXCEPT !.blocked = TRUE] \in Memory
    BY <1>0 DEF Shape, Memory
  <2>2. QED BY <1>0, <1>a, <2>1 DEF Block, Shape
<1>b. ASSUME NEW i PROVE [job EXCEPT ![s].todo = @ \ {i}] \in [Stores -> Job]
  <2>1. job[s].todo \ {i} \in SUBSET TxIds
    BY <1>0 DEF Job
  <2>2. QED BY <1>0, <2>1 DEF Shape, Job
<1>c. ASSUME NEW i \in job[s].todo, NEW l \in Seq(Files) \cup Seq(Files \X Images)
      PROVE  [job EXCEPT ![s].todo = @ \ {i}, ![s].id = i, ![s].left = l] \in [Stores -> Job]
  <2>1. job[s].todo \ {i} \in SUBSET TxIds /\ i \in 0..MaxTx
    BY <1>0, StoreBounds DEF Job, TxIds
  <2>2. QED BY <1>0, <2>1 DEF Shape, Job
<1>d. ASSUME Return(s) PROVE lock' \in Stores \cup {NoStore} /\ pc' \in [Stores -> PCs]
                             /\ job' \in [Stores -> Job]
  BY <1>0, <1>d DEF Return, To, Shape
<1>e. ASSUME Forget(s) PROVE mem' \in [Stores -> Memory]
  BY <1>0, <1>e DEF Forget, Shape
<1>1. CASE Enter(s)
  BY <1>0, <1>1 DEF Enter, To, Shape, disk
<1>2. CASE RefuseBlocked(s)
  BY <1>0, <1>2 DEF RefuseBlocked, Return, Forget, To, Shape, disk, Memory
<1>3. CASE Acquire(s)
  <2>1. [job EXCEPT ![s].todo = Entries] \in [Stores -> Job]
    BY <1>0 DEF Shape, Job, Entries
  <2>2. QED BY <1>0, <1>3, <2>1 DEF Acquire, To, Shape, disk
<1>4. CASE SkipUnmanifested(s)
  <2>1. PICK i \in job[s].todo : Seen(s, i) /\ Block(s)
    BY <1>4 DEF SkipUnmanifested
  <2>2. job' \in [Stores -> Job]
    BY <2>1, <1>b DEF Seen
  <2>3. QED BY <1>0, <1>4, <1>a, <2>1, <2>2 DEF SkipUnmanifested, Shape, disk
<1>5. CASE KeepSettled(s)
  <2>1. PICK i \in job[s].todo :
          job' = [job EXCEPT ![s].todo = @ \ {i}, ![s].id = i]
    BY <1>5 DEF KeepSettled
  <2>2. i \in 0..MaxTx /\ job[s].todo \ {i} \in SUBSET TxIds
    BY <1>0, StoreBounds DEF Job, TxIds
  <2>3. job' \in [Stores -> Job]
    BY <1>0, <2>1, <2>2 DEF Shape, Job
  <2>4. QED BY <1>0, <1>5, <2>3 DEF KeepSettled, To, Shape, disk
<1>6. CASE UndoPrepared(s)
  <2>1. PICK i \in job[s].todo :
          job' = [job EXCEPT ![s].todo = @ \ {i}, ![s].id = i, ![s].left = tx[i].touch]
    BY <1>6 DEF UndoPrepared
  <2>2. tx[i].touch \in Seq(Files)
    BY <1>0 DEF Job, Shape, Directory
  <2>3. job' \in [Stores -> Job]
    BY <2>1, <2>2, <1>c
  <2>4. QED BY <1>0, <1>6, <2>3 DEF UndoPrepared, To, Shape, disk
<1>7. CASE GiveUpMixed(s)
  <2>1. PICK i \in job[s].todo : Seen(s, i) /\ Block(s)
    BY <1>7 DEF GiveUpMixed
  <2>2. job' \in [Stores -> Job]
    BY <2>1, <1>b DEF Seen
  <2>3. QED BY <1>0, <1>7, <1>a, <2>1, <2>2 DEF GiveUpMixed, Shape, disk
<1>8. CASE EndScan(s)
  <2>1. CASE Return(s) /\ Forget(s)
    BY <1>0, <1>8, <1>d, <1>e, <2>1 DEF EndScan, Shape, disk
  <2>2. CASE To(s, "open") /\ mem' = [mem EXCEPT ![s].recovered = TRUE]
             /\ UNCHANGED <<lock, job>>
    BY <1>0, <1>8, <2>2 DEF EndScan, To, Shape, disk, Memory
  <2>3. QED BY <1>8, <2>1, <2>2 DEF EndScan
<1>9. CASE Decline(s)
  BY <1>0, <1>9 DEF Decline, To, Shape, disk
<1>10. CASE \E p \in A!Plan : Begin(s, p)
  <2>1. PICK p \in A!Plan : Begin(s, p)
    BY <1>10
  <2>2. [NoTx EXCEPT !.there = TRUE] \in Directory /\ p \in A!Plan
        /\ <<>> \in Seq(Files) /\ made + 1 \in 0..MaxTx
    <3>1. [NoTx EXCEPT !.there = TRUE] \in Directory
      BY DEF Directory
    <3>2. made + 1 \in 0..MaxTx
      <4>1. made < MaxTx
        BY <2>1 DEF Begin
      <4>2. QED BY <1>0, <4>1, StoreBounds DEF Shape
    <3>3. QED BY <3>1, <3>2, EmptySeq
  <2>3. tx' \in [TxIds -> Directory]
    BY <1>0, <2>1, <2>2 DEF Begin, Shape
  <2>4. job' \in [Stores -> Job]
    BY <1>0, <2>1, <2>2 DEF Begin, Shape, Job
  <2>5. QED BY <1>0, <2>1, <2>2, <2>3, <2>4 DEF Begin, To, Shape
<1>11. CASE Prepare(s)
  <2> DEFINE t == job[s].plan.touch
             d == [there |-> TRUE, man |-> "prepared", baks |-> TRUE, touch |-> t,
                   pre |-> [f \in A!RangeOf(t) |-> file[f]], post |-> <<>>]
  <2>1. t \in Seq(Files) /\ job[s].plan.writes \in Seq(Files \X Images)
    BY <1>0 DEF Job, A!Plan
  <2>2. A!RangeOf(t) \in SUBSET Files
    BY <2>1, RangeFacts
  <2>3. [f \in A!RangeOf(t) |-> file[f]] \in [A!RangeOf(t) -> Content]
    BY <1>0, <2>2 DEF Shape
  <2>4. d \in Directory
    BY <2>1, <2>2, <2>3 DEF Directory, Pictures
  <2>5. tx' = [tx EXCEPT ![job[s].id] = d]
        /\ job' = [job EXCEPT ![s].left = job[s].plan.writes]
        /\ To(s, "body")
        /\ UNCHANGED <<file, lock, mem, made, truth, faults>>
    BY <1>11 DEF Prepare
  <2> HIDE DEF d
  <2>6. tx' \in [TxIds -> Directory] /\ job' \in [Stores -> Job]
    BY <1>0, <2>1, <2>4, <2>5 DEF Shape, Job
  <2>7. QED BY <1>0, <2>5, <2>6 DEF To, Shape
<1>12. CASE Write(s)
  <2>1. /\ job[s].left \in Seq(Files \X Images) /\ job[s].left # <<>>
    BY <1>0, <1>12 DEF Write, JobInv
  <2>2. Head(job[s].left) \in Files \X Images /\ Tail(job[s].left) \in Seq(Files \X Images)
    BY <2>1, HeadTailProperties
  <2>3. file' \in [Files -> Content]
    BY <1>0, <1>12, <2>2 DEF Write, Shape, Content
  <2>4. job' \in [Stores -> Job]
    BY <1>0, <1>12, <2>2 DEF Write, Shape, Job
  <2>5. QED BY <1>0, <1>12, <2>3, <2>4 DEF Write, Shape
<1>13. CASE Commit(s)
  <2>1. job[s].id \in TxIds
    BY <1>0, <1>13 DEF Commit, JobInv, Working
  <2> DEFINE r == A!RangeOf(Mine(s).touch)
  <2>2. r \in SUBSET Files /\ Mine(s) \in Directory
    BY <1>0, <2>1, RangeFacts DEF Shape, Directory, Mine
  <2>3. [f \in r |-> file[f]] \in [r -> Content]
    BY <1>0, <2>2 DEF Shape
  <2>4. [f \in r |-> file[f]] \in Pictures
    BY <2>2, <2>3 DEF Pictures
  <2>5. tx' = [tx EXCEPT ![job[s].id].man = "committed",
                         ![job[s].id].post = [f \in r |-> file[f]]]
    BY <1>13 DEF Commit, Mine
  <2> HIDE DEF r
  <2>6. tx' \in [TxIds -> Directory]
    BY <1>0, <2>1, <2>4, <2>5 DEF Shape, Directory
  <2>7. QED BY <1>0, <1>13, <2>6 DEF Commit, To, Shape, Job
<1>14. CASE Undo(s)
  <2>1. /\ job[s].left \in Seq(Files) /\ job[s].left # <<>>
        /\ A!RangeOf(job[s].left) \subseteq A!RangeOf(Mine(s).touch)
        /\ Mine(s).pre \in [A!RangeOf(Mine(s).touch) -> Content]
    BY <1>0, <1>14 DEF Undo, JobInv, PicturesTaken, Working, Mine
  <2>2. /\ Head(job[s].left) \in A!RangeOf(job[s].left)
        /\ Head(job[s].left) \in Files
        /\ Tail(job[s].left) \in Seq(Files)
    BY <2>1, RangeFacts
  <2>3. file' \in [Files -> Content]
    BY <1>0, <1>14, <2>1, <2>2 DEF Undo, Shape, Mine
  <2>4. job' \in [Stores -> Job]
    BY <1>0, <1>14, <2>2 DEF Undo, Shape, Job
  <2>5. QED BY <1>0, <1>14, <2>3, <2>4 DEF Undo, Shape
<1>15. CASE Undone(s)
  BY <1>0, <1>15 DEF Undone, To, Shape, disk
<1>16. ASSUME StopUndo(s), faults' \in 0..MaxFaults PROVE Shape'
  <2>1. job' \in [Stores -> Job]
    BY <1>0, <1>16, EmptySeq DEF StopUndo, Shape, Job
  <2>2. QED BY <1>0, <1>16, <2>1 DEF StopUndo, Block, To, Shape, disk, Memory
<1>17. CASE UndoStuck(s)
  BY <1>0, <1>16, <1>17 DEF UndoStuck, Shape
<1>18. CASE RemoveManifest(s)
  BY <1>0, <1>18 DEF RemoveManifest, To, Shape, Directory
<1>19. CASE RemoveBackups(s)
  BY <1>0, <1>19 DEF RemoveBackups, To, Shape, Directory
<1>20. CASE RemoveDirectory(s)
  BY <1>0, <1>20 DEF RemoveDirectory, Cleaned, To, Shape
<1>21. CASE Leave(s)
  BY <1>0, <1>21 DEF Leave, Return, Forget, To, Shape, disk
<1>22. ASSUME NEW fault, Strikes(s, fault) PROVE faults' \in 0..MaxFaults
  BY <1>0, <1>22, StoreBounds DEF Strikes, Shape
<1>23. CASE Kill(s)
  BY <1>0, <1>22, <1>23 DEF Kill, Return, To, Shape, disk
<1>24. CASE ScanFails(s)
  <2>1. PICK i \in job[s].todo : Seen(s, i) /\ Block(s)
    BY <1>24 DEF ScanFails
  <2>2. job' \in [Stores -> Job]
    BY <2>1, <1>b DEF Seen
  <2>3. QED BY <1>0, <1>22, <1>24, <1>a, <2>1, <2>2 DEF ScanFails, Shape, disk
<1>25. CASE PrepareFails(s)
  BY <1>0, <1>22, <1>25 DEF PrepareFails, To, Shape, disk
<1>26. CASE BodyFails(s)
  <2>1. Mine(s).touch \in Seq(Files)
    BY <1>0, <1>26 DEF BodyFails, JobInv, Working, Shape, Directory, Mine
  <2>2. job' \in [Stores -> Job]
    BY <1>0, <1>26, <2>1 DEF BodyFails, Shape, Job, Mine
  <2>3. QED BY <1>0, <1>22, <1>26, <2>2 DEF BodyFails, To, Shape, disk
<1>27. CASE UndoFails(s)
  BY <1>16, <1>22, <1>27 DEF UndoFails
<1>28. CASE CleanFails(s)
  <2>1. mem' \in [Stores -> Memory]
    BY <1>0, <1>28, <1>a, Zenon DEF CleanFails, Shape
  <2>2. pc' \in [Stores -> PCs]
    BY <1>0, <1>28 DEF CleanFails, Cleaned, To, Shape
  <2>3. QED BY <1>0, <1>22, <1>28, <2>1, <2>2 DEF CleanFails, Cleaned, Shape
<1>29. CASE Interrupt(s)
  <2>1. job' \in [Stores -> Job]
    BY <1>0, <1>29, EmptySeq DEF Interrupt, Shape, Job
  <2>2. QED BY <1>0, <1>22, <1>29, <2>1 DEF Interrupt, To, Shape, disk
<1>30. CASE EntryFails(s)
  <2>1. PICK fault : Strikes(s, fault)
    BY <1>30 DEF EntryFails, RecoverFails, RecoverInterrupted, WaitInterrupted
  <2>2. QED
    BY <1>0, <1>22, <1>30, <2>1, Records
       DEF EntryFails, RecoverFails, RecoverInterrupted, WaitInterrupted, Return, Forget, To,
           Shape, disk
<1>31. QED
  BY <1>1, <1>2, <1>3, <1>4, <1>5, <1>6, <1>7, <1>8, <1>9, <1>10, <1>11, <1>12, <1>13,
     <1>14, <1>15, <1>17, <1>18, <1>19, <1>20, <1>21, <1>23, <1>24, <1>25, <1>26, <1>27,
     <1>28, <1>29, <1>30
     DEF Act, Inside, Recovery, Work, Fault

(* A step of s is nobody else's: the program counters, objects and jobs of *)
(* the other stores are theirs, and only the holder of the lock touches    *)
(* the disk.                                                               *)
LEMMA Frame ==
    ASSUME TypeInv, NEW s \in Stores, Act(s)
    PROVE  /\ \A r \in Stores \ {s} :
                pc'[r] = pc[r] /\ mem'[r] = mem[r] /\ job'[r] = job[r]
           /\ pc[s] \in {"idle", "enter"} => UNCHANGED <<file, tx, truth, made>>
<1>0. /\ pc \in [Stores -> PCs] /\ mem \in [Stores -> Memory] /\ job \in [Stores -> Job]
  BY DEF TypeInv, Shape
<1>1. CASE Enter(s)
  BY <1>0, <1>1 DEF Enter, To, disk
<1>2. CASE RefuseBlocked(s)
  BY <1>0, <1>2 DEF RefuseBlocked, Return, Forget, To, disk
<1>3. CASE Acquire(s)
  BY <1>0, <1>3 DEF Acquire, To, disk
<1>4. CASE SkipUnmanifested(s)
  BY <1>0, <1>4 DEF SkipUnmanifested, Seen, Block, disk
<1>5. CASE KeepSettled(s)
  BY <1>0, <1>5 DEF KeepSettled, To, disk
<1>6. CASE UndoPrepared(s)
  BY <1>0, <1>6 DEF UndoPrepared, To, disk
<1>7. CASE GiveUpMixed(s)
  BY <1>0, <1>7 DEF GiveUpMixed, Seen, Block, disk
<1>8. CASE EndScan(s)
  BY <1>0, <1>8 DEF EndScan, Return, Forget, To, disk
<1>9. CASE Decline(s)
  BY <1>0, <1>9 DEF Decline, To, disk
<1>10. CASE \E p \in A!Plan : Begin(s, p)
  BY <1>0, <1>10 DEF Begin, To, disk
<1>11. CASE Prepare(s)
  BY <1>0, <1>11 DEF Prepare, To, disk
<1>12. CASE Write(s)
  BY <1>0, <1>12 DEF Write, disk
<1>13. CASE Commit(s)
  BY <1>0, <1>13 DEF Commit, To, disk
<1>14. CASE Undo(s)
  BY <1>0, <1>14 DEF Undo, disk
<1>15. CASE Undone(s)
  BY <1>0, <1>15 DEF Undone, To, disk
<1>16. CASE UndoStuck(s)
  BY <1>0, <1>16 DEF UndoStuck, StopUndo, Block, To, disk
<1>17. CASE RemoveManifest(s)
  BY <1>0, <1>17 DEF RemoveManifest, Removing, To, disk
<1>18. CASE RemoveBackups(s)
  BY <1>0, <1>18 DEF RemoveBackups, Removing, To, disk
<1>19. CASE RemoveDirectory(s)
  BY <1>0, <1>19 DEF RemoveDirectory, Cleaned, To, disk
<1>20. CASE Leave(s)
  BY <1>0, <1>20 DEF Leave, Return, Forget, To, disk
<1>21. CASE Kill(s)
  BY <1>0, <1>21 DEF Kill, Return, To, disk
<1>22. CASE ScanFails(s)
  BY <1>0, <1>22 DEF ScanFails, Seen, Block, disk
<1>23. CASE PrepareFails(s)
  BY <1>0, <1>23 DEF PrepareFails, To, disk
<1>24. CASE BodyFails(s)
  BY <1>0, <1>24 DEF BodyFails, To, disk
<1>25. CASE UndoFails(s)
  BY <1>0, <1>25 DEF UndoFails, StopUndo, Block, To, disk
<1>26. CASE CleanFails(s)
  BY <1>0, <1>26 DEF CleanFails, Removing, Cleaned, Block, To, disk
<1>27. CASE Interrupt(s)
  BY <1>0, <1>27 DEF Interrupt, To, disk
<1>28. CASE EntryFails(s)
  BY <1>0, <1>28
     DEF EntryFails, RecoverFails, RecoverInterrupted, WaitInterrupted, Return, Forget, To,
         disk
<1>29. QED
  BY <1>1, <1>2, <1>3, <1>4, <1>5, <1>6, <1>7, <1>8, <1>9, <1>10, <1>11, <1>12,
     <1>13, <1>14, <1>15, <1>16, <1>17, <1>18, <1>19, <1>20, <1>21, <1>22,
     <1>23, <1>24, <1>25, <1>26, <1>27, <1>28
     DEF Act, Inside, Recovery, Work, Fault

(* Whoever is past the flock holds it.                                     *)
LEMMA LockStep ==
    ASSUME TypeInv, NEW s \in Stores, Act(s)
    PROVE  LockHeld'
<1>0. /\ pc \in [Stores -> PCs] /\ lock \in Stores \cup {NoStore} /\ NoStore \notin Stores
      /\ \A r \in Stores : pc[r] \in Holding => lock = r
  BY StoreAssumption DEF TypeInv, Shape, LockHeld
<1> SUFFICES ASSUME NEW r \in Stores, pc'[r] \in Holding PROVE lock' = r
  BY DEF LockHeld
<1>a. r # s => pc'[r] = pc[r]
  BY Frame
<1> USE DEF Holding, PCs
<1>1. CASE Enter(s)
  BY <1>0, <1>a, <1>1 DEF Enter, To, disk
<1>2. CASE RefuseBlocked(s)
  BY <1>0, <1>a, <1>2 DEF RefuseBlocked, Return, Forget, To, disk
<1>3. CASE Acquire(s)
  BY <1>0, <1>a, <1>3 DEF Acquire, To, disk
<1>4. CASE SkipUnmanifested(s)
  BY <1>0, <1>a, <1>4 DEF SkipUnmanifested, Seen, Block, disk
<1>5. CASE KeepSettled(s)
  BY <1>0, <1>a, <1>5 DEF KeepSettled, To, disk
<1>6. CASE UndoPrepared(s)
  BY <1>0, <1>a, <1>6 DEF UndoPrepared, To, disk
<1>7. CASE GiveUpMixed(s)
  BY <1>0, <1>a, <1>7 DEF GiveUpMixed, Seen, Block, disk
<1>8. CASE EndScan(s)
  BY <1>0, <1>a, <1>8 DEF EndScan, Return, Forget, To, disk
<1>9. CASE Decline(s)
  BY <1>0, <1>a, <1>9 DEF Decline, To, disk
<1>10. CASE \E p \in A!Plan : Begin(s, p)
  BY <1>0, <1>a, <1>10 DEF Begin, To, disk
<1>11. CASE Prepare(s)
  BY <1>0, <1>a, <1>11 DEF Prepare, To, disk
<1>12. CASE Write(s)
  BY <1>0, <1>a, <1>12 DEF Write, disk
<1>13. CASE Commit(s)
  BY <1>0, <1>a, <1>13 DEF Commit, To, disk
<1>14. CASE Undo(s)
  BY <1>0, <1>a, <1>14 DEF Undo, disk
<1>15. CASE Undone(s)
  BY <1>0, <1>a, <1>15 DEF Undone, To, disk
<1>16. CASE UndoStuck(s)
  BY <1>0, <1>a, <1>16 DEF UndoStuck, StopUndo, Block, To, disk
<1>17. CASE RemoveManifest(s)
  BY <1>0, <1>a, <1>17 DEF RemoveManifest, Removing, To, disk
<1>18. CASE RemoveBackups(s)
  BY <1>0, <1>a, <1>18 DEF RemoveBackups, Removing, To, disk
<1>19. CASE RemoveDirectory(s)
  BY <1>0, <1>a, <1>19 DEF RemoveDirectory, Cleaned, To, disk
<1>20. CASE Leave(s)
  BY <1>0, <1>a, <1>20 DEF Leave, Return, Forget, To, disk
<1>21. CASE Kill(s)
  BY <1>0, <1>a, <1>21 DEF Kill, Return, To, disk
<1>22. CASE ScanFails(s)
  BY <1>0, <1>a, <1>22 DEF ScanFails, Seen, Block, disk
<1>23. CASE PrepareFails(s)
  BY <1>0, <1>a, <1>23 DEF PrepareFails, To, disk
<1>24. CASE BodyFails(s)
  BY <1>0, <1>a, <1>24 DEF BodyFails, To, disk
<1>25. CASE UndoFails(s)
  BY <1>0, <1>a, <1>25 DEF UndoFails, StopUndo, Block, To, disk
<1>26. CASE CleanFails(s)
  BY <1>0, <1>a, <1>26 DEF CleanFails, Removing, Cleaned, Block, To, disk
<1>27. CASE Interrupt(s)
  BY <1>0, <1>a, <1>27 DEF Interrupt, To, disk
<1>28. CASE EntryFails(s)
  BY <1>0, <1>a, <1>28
     DEF EntryFails, RecoverFails, RecoverInterrupted, WaitInterrupted, Return, Forget, To,
         disk
<1>29. QED
  BY <1>1, <1>2, <1>3, <1>4, <1>5, <1>6, <1>7, <1>8, <1>9, <1>10, <1>11, <1>12,
     <1>13, <1>14, <1>15, <1>16, <1>17, <1>18, <1>19, <1>20, <1>21, <1>22,
     <1>23, <1>24, <1>25, <1>26, <1>27, <1>28
     DEF Act, Inside, Recovery, Work, Fault

(* The images of a directory are taken with its manifest, and stay.        *)
LEMMA PicturesStep ==
    ASSUME TypeInv, NEW s \in Stores, Act(s)
    PROVE  PicturesTaken'
<1>0. /\ file \in [Files -> Content] /\ tx \in [TxIds -> Directory] /\ job[s] \in Job
      /\ PicturesTaken /\ JobInv(s)
  BY DEF TypeInv, Shape
<1> SUFFICES ASSUME NEW i \in TxIds, tx'[i].man # "none"
             PROVE  tx'[i].pre \in [A!RangeOf(tx'[i].touch) -> Content]
  BY DEF PicturesTaken
<1>1. CASE UNCHANGED tx
  BY <1>0, <1>1 DEF PicturesTaken
<1>2. CASE \E p \in A!Plan : Begin(s, p)
  <2>1. PICK p \in A!Plan : Begin(s, p)
    BY <1>2
  <2>2. tx'[i] = IF i = made + 1 THEN [NoTx EXCEPT !.there = TRUE] ELSE tx[i]
    BY <1>0, <2>1 DEF Begin
  <2>3. QED BY <1>0, <2>2 DEF PicturesTaken, NoTx
<1>3. CASE Prepare(s)
  <2> DEFINE t == job[s].plan.touch
             d == [there |-> TRUE, man |-> "prepared", baks |-> TRUE, touch |-> t,
                   pre |-> [f \in A!RangeOf(t) |-> file[f]], post |-> <<>>]
  <2>1. A!RangeOf(t) \subseteq Files
    BY <1>0, RangeFacts DEF Job, A!Plan
  <2>2. d.pre \in [A!RangeOf(t) -> Content] /\ d.touch = t
    BY <1>0, <2>1
  <2>3. tx' = [tx EXCEPT ![job[s].id] = d]
    BY <1>3 DEF Prepare
  <2> HIDE DEF d
  <2>4. QED BY <1>0, <2>2, <2>3 DEF PicturesTaken
<1>4. CASE Commit(s)
  <2> DEFINE new == [f \in A!RangeOf(tx[job[s].id].touch) |-> file[f]]
  <2>1. tx' = [tx EXCEPT ![job[s].id].man = "committed", ![job[s].id].post = new]
    BY <1>4 DEF Commit
  <2> HIDE DEF new
  <2>2. tx[job[s].id].man = "prepared"
    BY <1>0, <1>4 DEF Commit, JobInv, Mine
  <2>3. tx'[i].pre = tx[i].pre /\ tx'[i].touch = tx[i].touch /\ tx[i].man # "none"
    BY <1>0, <2>1, <2>2 DEF Directory
  <2>4. QED BY <1>0, <2>3 DEF PicturesTaken
<1>5. CASE RemoveManifest(s)
  BY <1>0, <1>5 DEF RemoveManifest, PicturesTaken, Directory
<1>6. CASE RemoveBackups(s)
  BY <1>0, <1>6 DEF RemoveBackups, PicturesTaken, Directory
<1>7. CASE RemoveDirectory(s)
  <2>1. tx'[i] = IF i = job[s].id THEN NoTx ELSE tx[i]
    BY <1>0, <1>7 DEF RemoveDirectory
  <2>2. QED BY <1>0, <2>1 DEF PicturesTaken, NoTx
<1>8. QED
  BY <1>1, <1>2, <1>3, <1>4, <1>5, <1>6, <1>7
     DEF Act, Inside, Recovery, Work, Fault, Enter, RefuseBlocked, Acquire, SkipUnmanifested,
         KeepSettled, UndoPrepared, GiveUpMixed, EndScan, Decline, Write, Undo, Undone,
         UndoStuck, StopUndo, Leave, Kill, ScanFails, PrepareFails, BodyFails, UndoFails,
         CleanFails, Interrupt,
         EntryFails, RecoverFails, RecoverInterrupted, WaitInterrupted, disk

(* What a store is working on stays in step with its directory.            *)
LEMMA JobStep ==
    ASSUME TypeInv, NEW s \in Stores, Act(s)
    PROVE  \A r \in Stores : JobInv(r)'
<1>0. /\ pc \in [Stores -> PCs] /\ tx \in [TxIds -> Directory] /\ job \in [Stores -> Job]
      /\ job[s] \in Job /\ JobInv(s) /\ made \in 0..MaxTx
  BY DEF TypeInv, Shape
<1>1. ASSUME NEW r \in Stores \ {s} PROVE JobInv(r)'
  <2>1. pc'[r] = pc[r] /\ job'[r] = job[r] /\ JobInv(r)
    BY Frame DEF TypeInv
  <2>2. CASE pc[r] \in {"idle", "enter"}
    BY <2>1, <2>2 DEF JobInv, Working
  <2>3. CASE pc[r] \notin {"idle", "enter"}
    <3>1. pc[s] \in {"idle", "enter"}
      BY <2>3, <1>0, OthersWait DEF Holding
    <3>2. tx' = tx
      BY <3>1, Frame
    <3>3. QED BY <2>1, <3>2 DEF JobInv, Mine
  <2>4. QED BY <2>2, <2>3
<1>2. JobInv(s)'
  <2>1. CASE pc'[s] \notin Working
    BY <2>1 DEF JobInv, Working
  <2>2. CASE KeepSettled(s) 
    BY <1>0, <2>2 DEF KeepSettled, To, JobInv, Job
  <2>3. CASE UndoPrepared(s)
    <3>1. PICK i \in job[s].todo :
            /\ tx[i].man = "prepared"
            /\ job' = [job EXCEPT ![s].todo = @ \ {i}, ![s].id = i, ![s].left = tx[i].touch]
      BY <2>3 DEF UndoPrepared
    <3>2. i \in TxIds /\ tx[i].touch \in Seq(Files)
      BY <1>0 DEF Job, Directory
    <3>3. job'[s].id = i /\ job'[s].left = tx[i].touch
      BY <1>0, <3>1 DEF Job
    <3>4. pc'[s] = "undo" /\ tx' = tx
      BY <1>0, <2>3 DEF UndoPrepared, To, disk
    <3>5. QED BY <3>1, <3>2, <3>3, <3>4 DEF JobInv, Mine
  <2>4. CASE \E p \in A!Plan : Begin(s, p)
    <3>1. made < MaxTx /\ MaxTx \in Nat
      BY <2>4, StoreBounds DEF Begin
    <3>2. made + 1 \in TxIds
      BY <1>0, <3>1 DEF TxIds
    <3>3. job'[s].id = made + 1 /\ pc'[s] = "made"
      BY <1>0, <2>4 DEF Begin, To, Job
    <3>4. QED BY <3>2, <3>3 DEF JobInv
  <2>5. CASE Prepare(s)
    <3>1. job'[s].id = job[s].id /\ job'[s].left = job[s].plan.writes /\ pc'[s] = "body"
      BY <1>0, <2>5 DEF Prepare, To, Job
    <3>2. job[s].plan.writes \in Seq(Files \X Images)
      BY <1>0 DEF Job, A!Plan
    <3>3. job[s].id \in TxIds
      BY <1>0, <2>5 DEF Prepare, JobInv, Working
    <3>4. tx'[job[s].id].man = "prepared"
      BY <1>0, <2>5, <3>3 DEF Prepare
    <3>5. QED BY <3>1, <3>2, <3>3, <3>4 DEF JobInv, Mine
  <2>6. CASE Write(s)
    <3>1. job[s].left \in Seq(Files \X Images) /\ job[s].left # <<>>
          /\ job[s].id \in TxIds /\ Mine(s).man = "prepared"
      BY <1>0, <2>6 DEF Write, JobInv, Working
    <3>2. Tail(job[s].left) \in Seq(Files \X Images)
      BY <3>1, HeadTailProperties
    <3>3. job'[s].id = job[s].id /\ job'[s].left = Tail(job[s].left) /\ pc'[s] = "body"
          /\ tx' = tx
      BY <1>0, <2>6 DEF Write, Job
    <3>4. QED BY <3>1, <3>2, <3>3 DEF JobInv, Mine
  <2>7. CASE Undo(s)
    <3>1. job[s].left \in Seq(Files) /\ job[s].left # <<>>
          /\ A!RangeOf(job[s].left) \subseteq A!RangeOf(Mine(s).touch)
          /\ job[s].id \in TxIds /\ Mine(s).man = "prepared"
      BY <1>0, <2>7 DEF Undo, JobInv, Working
    <3>2. /\ Tail(job[s].left) \in Seq(Files)
          /\ A!RangeOf(Tail(job[s].left)) \subseteq A!RangeOf(job[s].left)
      BY <3>1, RangeFacts
    <3>3. job'[s].id = job[s].id /\ job'[s].left = Tail(job[s].left) /\ pc'[s] = "undo"
          /\ tx' = tx
      BY <1>0, <2>7 DEF Undo, Job
    <3>4. QED BY <3>1, <3>2, <3>3 DEF JobInv, Mine
  <2>8. CASE BodyFails(s)
    <3>1. job[s].id \in TxIds /\ Mine(s).man = "prepared" /\ Mine(s).touch \in Seq(Files)
      BY <1>0, <2>8 DEF BodyFails, JobInv, Working, Mine, Directory
    <3>2. job'[s].id = job[s].id /\ job'[s].left = Mine(s).touch /\ pc'[s] = "undo"
          /\ tx' = tx
      BY <1>0, <2>8 DEF BodyFails, To, Job, disk, Mine
    <3>3. QED BY <3>1, <3>2 DEF JobInv, Mine
  <2>9. CASE /\ pc'[s] \in {"clean", "rm"} /\ pc[s] \in Working
             /\ job'[s].id = job[s].id
    BY <1>0, <2>9 DEF JobInv, Working
  <2>10. QED
    <3>1. \/ Commit(s) \/ Undone(s) \/ RemoveManifest(s) \/ RemoveBackups(s) \/ Interrupt(s)
          => /\ pc'[s] \in {"clean", "rm"} /\ pc[s] \in Working
             /\ job'[s].id = job[s].id
      BY <1>0 DEF Commit, Undone, RemoveManifest, RemoveBackups, Removing, Interrupt, To,
                  Working, Job
    <3>2. \/ Enter(s) \/ RefuseBlocked(s) \/ Acquire(s) \/ SkipUnmanifested(s)
          \/ GiveUpMixed(s) \/ EndScan(s) \/ Decline(s) \/ UndoStuck(s)
          \/ RemoveDirectory(s) \/ Leave(s) \/ Kill(s) \/ ScanFails(s)
          \/ PrepareFails(s) \/ UndoFails(s) \/ CleanFails(s) \/ EntryFails(s)
          => pc'[s] \notin Working
      BY <1>0 DEF Enter, RefuseBlocked, Acquire, SkipUnmanifested, GiveUpMixed, EndScan,
                  Decline, UndoStuck, StopUndo, RemoveDirectory, Cleaned, Leave, Kill,
                  ScanFails, PrepareFails, UndoFails, CleanFails, EntryFails, RecoverFails,
                  RecoverInterrupted, WaitInterrupted, Return, To, Working
    <3>3. QED BY <2>1, <2>2, <2>3, <2>4, <2>5, <2>6, <2>7, <2>8, <2>9, <3>1, <3>2
                 DEF Act, Inside, Recovery, Work, Fault
<1>3. QED BY <1>1, <1>2

LEMMA TypeStep == TypeInv /\ [Step]_storeVars => TypeInv'
<1>1. ASSUME TypeInv, NEW s \in Stores, Act(s) PROVE TypeInv'
  BY <1>1, ShapeStep, LockStep, PicturesStep, JobStep DEF TypeInv
<1>2. ASSUME TypeInv, UNCHANGED storeVars PROVE TypeInv'
  BY <1>2 DEF TypeInv, storeVars, disk, Shape, LockHeld, PicturesTaken, JobInv, Mine
<1>3. QED BY <1>1, <1>2 DEF Step

LEMMA TypeInvariant == Spec => []TypeInv
<1>1. TypeInv /\ [Next]_storeVars => TypeInv'
  BY TypeStep, NextIsStep
<1>2. QED BY <1>1, InitTypes, PTL DEF Spec

(* Every reachable state is well typed, for any stores, plans and faults,  *)
(* with long-lived objects and interrupts.                                 *)
THEOREM TypeCorrect == Spec => []TypeOK
<1>1. TypeInv => TypeOK
  BY DEF TypeInv, Shape, TypeOK, Content, Memory, Directory, Job
<1>2. QED BY <1>1, TypeInvariant, PTL

(* A store that met something it could not reconcile, or whose rollback    *)
(* failed, never opens or runs a transaction again, whatever strikes.      *)
THEOREM BlockedStoresStop == Spec => []FailsClosed
<1>1. Init => FailsClosed
  BY DEF Init, FailsClosed
<1>2. ASSUME TypeInv, FailsClosed, NEW s \in Stores, Act(s)
      PROVE  FailsClosed'
  <2>0. /\ pc \in [Stores -> PCs] /\ mem \in [Stores -> Memory]
        /\ mem[s].blocked => pc[s] \notin {"open", "made", "body"}
    BY <1>2 DEF TypeInv, Shape, FailsClosed
  <2>1. ASSUME NEW r \in Stores \ {s}
        PROVE  mem'[r].blocked => pc'[r] \notin {"open", "made", "body"}
    BY <1>2, Frame DEF FailsClosed
  <2>2. \/ pc'[s] \notin {"open", "made", "body"}
        \/ pc[s] \in {"open", "made", "body"} /\ mem' = mem
        \/ ~mem[s].blocked /\ mem' = mem
        \/ ~mem[s].blocked /\ mem' = [mem EXCEPT ![s].recovered = TRUE]
    <3>1. \/ Enter(s) \/ RefuseBlocked(s) \/ SkipUnmanifested(s) \/ KeepSettled(s)
          \/ UndoPrepared(s) \/ GiveUpMixed(s) \/ Decline(s) \/ Commit(s) \/ Undo(s)
          \/ Undone(s) \/ UndoStuck(s) \/ RemoveManifest(s) \/ RemoveBackups(s)
          \/ RemoveDirectory(s) \/ Leave(s)
          => pc'[s] \notin {"open", "made", "body"}
      BY <2>0 DEF Enter, RefuseBlocked, SkipUnmanifested, KeepSettled, UndoPrepared,
                  GiveUpMixed, Decline, Commit, Undo, Undone, UndoStuck, StopUndo,
                  RemoveManifest, RemoveBackups, RemoveDirectory, Cleaned, Leave, Return, To
    <3>2. Fault(s) => pc'[s] \notin {"open", "made", "body"}
      BY <2>0 DEF Fault, Kill, ScanFails, PrepareFails, BodyFails, UndoFails, StopUndo,
                  CleanFails, Cleaned, Interrupt, EntryFails, RecoverFails,
                  RecoverInterrupted, WaitInterrupted, Return, To
    <3>3. Acquire(s) => ~mem[s].blocked /\ mem' = mem
      BY DEF Acquire
    <3>4. ASSUME EndScan(s)
          PROVE  \/ pc'[s] \notin {"open", "made", "body"}
                 \/ ~mem[s].blocked /\ mem' = [mem EXCEPT ![s].recovered = TRUE]
      <4>1. CASE mem[s].blocked
        BY <2>0, <3>4, <4>1 DEF EndScan, Return, To
      <4>2. CASE ~mem[s].blocked
        BY <3>4, <4>2 DEF EndScan
      <4>3. QED BY <4>1, <4>2
    <3>5. Prepare(s) \/ Write(s) \/ (\E p \in A!Plan : Begin(s, p))
          => pc[s] \in {"open", "made", "body"} /\ mem' = mem
      BY DEF Prepare, Write, Begin
    <3>6. QED BY <1>2, <3>1, <3>2, <3>3, <3>4, <3>5 DEF Act, Inside, Recovery, Work
  <2>3. mem'[s].blocked => pc'[s] \notin {"open", "made", "body"}
    BY <2>0, <2>2 DEF Memory
  <2>4. QED BY <2>1, <2>3 DEF FailsClosed
<1>3. TypeInv /\ FailsClosed /\ [Next]_storeVars => FailsClosed'
  <2>1. FailsClosed /\ UNCHANGED storeVars => FailsClosed'
    BY DEF storeVars, FailsClosed
  <2>2. QED BY <1>2, <2>1, NextIsStep DEF Step
<1>4. QED BY <1>1, <1>3, TypeInvariant, PTL DEF Spec

-----------------------------------------------------------------------------
(* What the transactions promise needs the following of the processes.     *)

(* Every call opens a store of its own, which reconciles the directories   *)
(* it finds before it does anything else.                                  *)
OneCallPerStore == LongLived = {}

(* Kills strike anywhere and exceptions anywhere else, but what follows a  *)
(* commit or a rollback, the removal of the directory, goes through unless *)
(* the process dies, and no KeyboardInterrupt skips the rollback.          *)
CleanupGoesThrough ==
    /\ \A at \in PCs : <<"interrupt", at>> \notin FaultPoints
    /\ <<"error", "clean">> \notin FaultPoints /\ <<"error", "rm">> \notin FaultPoints

Faithful == OneCallPerStore /\ CleanupGoesThrough

(* A transaction writes files it has declared, each once.                  *)
PlansDeclare == \A p \in Plans : A!Declared(p)

(* The step of a store whose transactions do.                              *)
Runnable == {p \in A!Plan : A!Declared(p)}

Runs(s) ==
    \/ Enter(s) \/ Inside(s) \/ Fault(s) \/ Decline(s)
    \/ \E p \in Runnable : Begin(s, p)

RunStep == \E s \in Stores : Runs(s)

LEMMA NextRuns == PlansDeclare /\ Next => RunStep
BY StorePlans DEF PlansDeclare, Next, RunStep, Runs, Runnable

LEMMA RunsAct == ASSUME NEW s \in Stores, Runs(s) PROVE Act(s)
BY DEF Runs, Act, Runnable

(* A transaction writes every file it has declared, and there is one.      *)
PlansWriteAll == \A p \in Plans :
    /\ p.touch # <<>>
    /\ \A f \in A!RangeOf(p.touch) : \E w \in A!RangeOf(p.writes) : w[1] = f

-----------------------------------------------------------------------------
(* The inductive invariant behind atomicity.  There is at most one         *)
(* directory, since a store that leaves one behind does not open; its      *)
(* manifest says how the files differ from the last committed content.     *)

InPlace == \A f \in Files : file[f] = truth[f]

(* With no manifest nothing has been written, or all of it is settled.     *)
NoManifestInv == (\A i \in TxIds : tx[i].man = "none") => InPlace

(* A prepared manifest has the images to go back to, and their backups as  *)
(* long as there is something to go back from.                             *)
PreparedInv(i) == tx[i].man = "prepared" =>
    /\ \A f \in A!RangeOf(tx[i].touch) : tx[i].pre[f] = truth[f]
    /\ \A f \in Files \ A!RangeOf(tx[i].touch) : file[f] = truth[f]
    /\ ~tx[i].baks => InPlace

(* A committed manifest describes the files as they are.                   *)
CommittedInv(i) == tx[i].man = "committed" =>
    /\ InPlace
    /\ \A f \in A!RangeOf(tx[i].touch) : tx[i].post[f] = truth[f]

DiskInv ==
    /\ \A i \in TxIds : ~tx[i].there => tx[i].man = "none"
    /\ \A i \in Entries : i = made
    /\ NoManifestInv
    /\ \A i \in TxIds : PreparedInv(i) /\ CommittedInv(i)

(* The writes of a running body that are done, and those that are not.     *)
BodyInv(s) ==
    LET p == job[s].plan
        left == A!RangeOf(job[s].left)
        done == A!RangeOf(p.writes) \ left
    IN  /\ A!Declared(p) /\ Mine(s).touch = p.touch /\ Mine(s).baks
        /\ left \subseteq A!RangeOf(p.writes)
        /\ \A j, k \in 1..Len(job[s].left) : job[s].left[j][1] = job[s].left[k][1] => j = k
        /\ \A w \in done : file[w[1]] = w[2]
        /\ \A f \in Files : (\A w \in done : w[1] # f) => file[f] = truth[f]

StoreInv(s) ==
    /\ pc[s] \in {"idle", "enter", "scan"} => ~mem[s].recovered
    /\ pc[s] \in {"open", "made", "body"} => mem[s].recovered
    /\ pc[s] \in {"idle", "enter"} => ~mem[s].blocked
    /\ pc[s] = "scan" => /\ job[s].todo \subseteq Entries
                         /\ ~mem[s].blocked => Entries \subseteq job[s].todo
    /\ pc[s] = "open" => Entries = {}
    /\ pc[s] \in Working => Entries = {job[s].id}
    /\ pc[s] \in Working /\ ~mem[s].recovered => job[s].todo = {}
    /\ pc[s] = "made" => Mine(s).man = "none" /\ A!Declared(job[s].plan)
    /\ pc[s] \in {"clean", "rm"} => InPlace
    /\ pc[s] = "undo" => \A f \in Files \ A!RangeOf(job[s].left) : file[f] = truth[f]
    /\ pc[s] = "body" => BodyInv(s)

Inv == DiskInv /\ \A s \in Stores : StoreInv(s)

LEMMA InitInv == Init => Inv
<1> SUFFICES ASSUME Init PROVE Inv
  OBVIOUS
<1>1. DiskInv
  BY DEF Init, DiskInv, NoTx, Entries, NoManifestInv, InPlace, PreparedInv, CommittedInv
<1>2. ASSUME NEW s \in Stores PROVE StoreInv(s)
  BY DEF Init, StoreInv, Fresh, Working
<1>3. QED BY <1>1, <1>2 DEF Inv

(* The directory somebody works on is the only one, and the last.          *)
LEMMA OnlyOne ==
    ASSUME TypeInv, DiskInv, NEW s \in Stores, StoreInv(s)
    PROVE  /\ pc[s] \in Working => /\ Entries = {job[s].id} /\ job[s].id = made
                                  /\ job[s].id \in TxIds /\ Mine(s).there
           /\ pc[s] = "scan" => \A i \in job[s].todo : i = made /\ Entries = {i}
           /\ \A i \in TxIds : i # made => ~tx[i].there /\ tx[i].man = "none"
<1>1. pc[s] \in Working => Entries = {job[s].id}
  BY DEF StoreInv
<1>2. \A i \in Entries : i = made
  BY DEF DiskInv
<1>3. pc[s] = "scan" => job[s].todo \subseteq Entries
  BY DEF StoreInv
<1>4. \A i \in TxIds : i # made => ~tx[i].there /\ tx[i].man = "none"
  BY DEF DiskInv, Entries
<1>5. pc[s] \in Working => job[s].id \in TxIds /\ Mine(s).there
  BY <1>1 DEF Entries, Mine
<1>6. QED BY <1>1, <1>2, <1>3, <1>4, <1>5

(* Another store's part of the invariant is not disturbed.                 *)
LEMMA OthersStep ==
    ASSUME TypeInv, Inv, NEW s \in Stores, Act(s), NEW r \in Stores \ {s}
    PROVE  StoreInv(r)'
<1>1. pc'[r] = pc[r] /\ mem'[r] = mem[r] /\ job'[r] = job[r] /\ StoreInv(r)
  BY Frame DEF Inv
<1>2. CASE pc[r] \in {"idle", "enter"}
  BY <1>1, <1>2 DEF StoreInv, Working
<1>3. CASE pc[r] \notin {"idle", "enter"}
  <2>1. pc \in [Stores -> PCs]
    BY DEF TypeInv, Shape
  <2>2. pc[s] \in {"idle", "enter"}
    BY <1>3, <2>1, OthersWait DEF Holding
  <2>3. UNCHANGED <<file, tx, truth, made>>
    BY <2>2, Frame
  <2>4. Entries' = Entries /\ InPlace' = InPlace /\ Mine(r)' = Mine(r)
    BY <1>1, <2>3 DEF Entries, InPlace, Mine
  <2>5. BodyInv(r)' = BodyInv(r)
    BY <1>1, <2>3, <2>4 DEF BodyInv
  <2>6. QED BY <1>1, <2>3, <2>4, <2>5 DEF StoreInv
<1>4. QED BY <1>2, <1>3

LEMMA DiskSame ==
    ASSUME DiskInv, UNCHANGED <<file, tx, truth, made>>
    PROVE  DiskInv' /\ Entries' = Entries /\ InPlace' = InPlace
BY DEF DiskInv, Entries, NoManifestInv, InPlace, PreparedInv, CommittedInv

(* lock() and recover(): a store opens only when nothing is left behind.   *)
LEMMA RecoverStep ==
    ASSUME Faithful, TypeInv, Inv, NEW s \in Stores,
           \/ Enter(s) \/ RefuseBlocked(s) \/ Acquire(s) \/ Recovery(s) \/ Decline(s)
           \/ Leave(s) \/ Kill(s) \/ ScanFails(s) \/ PrepareFails(s) \/ EntryFails(s)
    PROVE  DiskInv' /\ StoreInv(s)'
<1>0. /\ pc \in [Stores -> PCs] /\ mem \in [Stores -> Memory] /\ job \in [Stores -> Job]
      /\ tx \in [TxIds -> Directory]
      /\ job[s] \in Job /\ mem[s] \in Memory
      /\ DiskInv /\ StoreInv(s) /\ LongLived = {}
  BY DEF TypeInv, Shape, Inv, Faithful, OneCallPerStore
<1>1. UNCHANGED <<file, tx, truth, made>>
  BY DEF Enter, RefuseBlocked, Acquire, Recovery, SkipUnmanifested, KeepSettled, UndoPrepared,
         GiveUpMixed, EndScan, Decline, Leave, Kill, ScanFails, PrepareFails, EntryFails,
         RecoverFails, RecoverInterrupted, WaitInterrupted, disk
<1>2. DiskInv' /\ Entries' = Entries /\ InPlace' = InPlace
  BY <1>0, <1>1, DiskSame
<1>3. ASSUME pc'[s] = "idle", mem'[s] = Fresh PROVE StoreInv(s)'
  BY <1>3 DEF StoreInv, Fresh, Working
<1>4. ASSUME Forget(s) PROVE mem'[s] = Fresh
  BY <1>0, <1>4 DEF Forget
<1>5. CASE Enter(s)
  BY <1>0, <1>2, <1>5 DEF Enter, To, StoreInv, Working
<1>6. CASE RefuseBlocked(s)
  BY <1>0, <1>6 DEF RefuseBlocked, StoreInv
<1>7. CASE Acquire(s)
  <2>1. ~mem[s].recovered
    BY <1>0, <1>7 DEF Acquire, StoreInv
  <2>2. pc'[s] = "scan" /\ job'[s].todo = Entries /\ mem' = mem
    BY <1>0, <1>7, <2>1 DEF Acquire, To, Job
  <2>3. QED BY <1>2, <2>1, <2>2 DEF StoreInv, Working
<1>8. ASSUME NEW i \in job[s].todo, pc[s] = "scan", Seen(s, i), Block(s), pc' = pc
      PROVE  StoreInv(s)'
  <2>1. pc'[s] = "scan" /\ job'[s].todo = job[s].todo \ {i} /\ mem'[s].blocked
        /\ mem'[s].recovered = mem[s].recovered
    BY <1>0, <1>8 DEF Seen, Block, Job, Memory
  <2>2. ~mem[s].recovered /\ job[s].todo \subseteq Entries
    BY <1>0, <1>8 DEF StoreInv
  <2>3. QED BY <1>2, <2>1, <2>2 DEF StoreInv, Working
<1>9. CASE SkipUnmanifested(s) \/ GiveUpMixed(s) \/ ScanFails(s)
  BY <1>2, <1>8, <1>9 DEF SkipUnmanifested, GiveUpMixed, ScanFails
<1>10. CASE KeepSettled(s)
  <2>1. PICK i \in job[s].todo :
          /\ pc[s] = "scan" /\ tx[i].man # "none" /\ Settled(tx[i])
          /\ To(s, "clean") /\ mem' = mem
          /\ job' = [job EXCEPT ![s].todo = @ \ {i}, ![s].id = i]
    BY <1>10 DEF KeepSettled
  <2>2. i = made /\ Entries = {i} /\ i \in TxIds
    BY <1>0, <2>1, OnlyOne DEF Job
  <2>3. job[s].todo \subseteq {i} /\ ~mem[s].recovered
    BY <1>0, <2>1, <2>2 DEF StoreInv
  <2>4. pc'[s] = "clean" /\ job'[s].todo = {} /\ job'[s].id = i
    BY <1>0, <2>1, <2>3 DEF To, Job
  <2>5. InPlace
    <3>1. tx[i].man \in {"prepared", "committed"} /\ tx[i].touch \in Seq(Files)
          /\ PreparedInv(i) /\ CommittedInv(i)
      BY <1>0, <2>1, <2>2 DEF Directory, DiskInv
    <3>2. CASE tx[i].man = "committed"
      BY <3>1, <3>2 DEF CommittedInv
    <3>3. CASE tx[i].man = "prepared"
      <4>1. \A f : ~IsPost(tx[i], f)
        BY <3>3 DEF IsPost
      <4>2. Head(tx[i].touch) \in A!RangeOf(tx[i].touch)
        BY <2>1, <3>1, RangeFacts DEF Settled
      <4>3. AllPre(tx[i])
        BY <2>1, <4>1, <4>2 DEF Settled, AllPost
      <4>4. QED BY <3>1, <3>3, <4>3 DEF AllPre, PreparedInv, InPlace
    <3>4. QED BY <3>1, <3>2, <3>3
  <2>6. QED BY <1>2, <2>1, <2>2, <2>3, <2>4, <2>5 DEF StoreInv
<1>11. CASE UndoPrepared(s)
  <2>1. PICK i \in job[s].todo :
          /\ pc[s] = "scan" /\ tx[i].man = "prepared"
          /\ To(s, "undo") /\ mem' = mem
          /\ job' = [job EXCEPT ![s].todo = @ \ {i}, ![s].id = i, ![s].left = tx[i].touch]
    BY <1>11 DEF UndoPrepared
  <2>2. i = made /\ Entries = {i} /\ i \in TxIds
    BY <1>0, <2>1, OnlyOne DEF Job
  <2>3. job[s].todo \subseteq {i} /\ ~mem[s].recovered
    BY <1>0, <2>1, <2>2 DEF StoreInv
  <2>4. pc'[s] = "undo" /\ job'[s].todo = {} /\ job'[s].id = i /\ job'[s].left = tx[i].touch
    BY <1>0, <2>1, <2>3 DEF To, Job
  <2>5. \A f \in Files \ A!RangeOf(tx[i].touch) : file[f] = truth[f]
    BY <1>0, <2>1, <2>2 DEF DiskInv, PreparedInv
  <2>6. QED BY <1>1, <1>2, <2>1, <2>2, <2>3, <2>4, <2>5 DEF StoreInv
<1>12. CASE EndScan(s)
  <2>1. CASE mem[s].blocked
    BY <1>0, <1>2, <1>3, <1>4, <1>12, <2>1 DEF EndScan, Return, To
  <2>2. CASE ~mem[s].blocked
    <3>1. Entries = {}
      BY <1>0, <1>12, <2>2 DEF EndScan, StoreInv
    <3>2. pc'[s] = "open" /\ mem'[s].recovered
      BY <1>0, <1>12, <2>2 DEF EndScan, To, Memory
    <3>3. QED BY <1>2, <3>1, <3>2 DEF StoreInv, Working
  <2>3. QED BY <2>1, <2>2
<1>13. CASE Decline(s) \/ PrepareFails(s)
  <2>1. pc'[s] = "leave"
    BY <1>0, <1>13 DEF Decline, PrepareFails, To
  <2>2. QED BY <1>2, <2>1 DEF StoreInv, Working
<1>14. CASE Leave(s)
  BY <1>0, <1>2, <1>3, <1>4, <1>14 DEF Leave, Return, To
<1>15. CASE Kill(s)
  BY <1>0, <1>2, <1>3, <1>15 DEF Kill, Return, To
<1>16. CASE EntryFails(s)
  BY <1>0, <1>2, <1>3, <1>4, <1>16
     DEF EntryFails, RecoverFails, RecoverInterrupted, WaitInterrupted, Return, To
<1>17. QED
  BY <1>2, <1>5, <1>6, <1>7, <1>9, <1>10, <1>11, <1>12, <1>13, <1>14, <1>15, <1>16
     DEF Recovery

(* The directory that is worked on is the only one that says anything.     *)
LEMMA AtWork ==
    ASSUME TypeInv, Inv, NEW s \in Stores, pc[s] \in Working
    PROVE  /\ pc \in [Stores -> PCs] /\ mem \in [Stores -> Memory] /\ job \in [Stores -> Job]
           /\ tx \in [TxIds -> Directory] /\ job[s] \in Job /\ mem[s] \in Memory
           /\ file \in [Files -> Content]
           /\ DiskInv /\ StoreInv(s) /\ JobInv(s)
           /\ job[s].id = made /\ made \in TxIds /\ Entries = {made} /\ tx[made].there
           /\ Mine(s) = tx[made] /\ tx[made] \in Directory
           /\ \A i \in TxIds : i # made => ~tx[i].there /\ tx[i].man = "none"
BY OnlyOne DEF TypeInv, Shape, Inv, Mine

(* What is shown of the disk when one directory is worked on.              *)
LEMMA OneDirectory ==
    ASSUME made' \in TxIds, \A i \in TxIds : i # made' => ~tx'[i].there /\ tx'[i].man = "none",
           ~tx'[made'].there => tx'[made'].man = "none",
           tx'[made'].man = "none" => InPlace',
           PreparedInv(made)', CommittedInv(made)'
    PROVE  DiskInv'
<1>1. ASSUME NEW i \in TxIds PROVE PreparedInv(i)' /\ CommittedInv(i)'
  BY DEF PreparedInv, CommittedInv
<1>2. QED BY <1>1 DEF DiskInv, Entries, NoManifestInv

(* Starting a transaction, and the manifest with the images to go back to. *)
LEMMA StartStep ==
    ASSUME Faithful, TypeInv, Inv, NEW s \in Stores,
           (\E p \in Runnable : Begin(s, p)) \/ Prepare(s)
    PROVE  DiskInv' /\ StoreInv(s)'
<1>0. /\ pc \in [Stores -> PCs] /\ mem \in [Stores -> Memory] /\ job \in [Stores -> Job]
      /\ tx \in [TxIds -> Directory] /\ job[s] \in Job /\ made \in 0..MaxTx
      /\ file \in [Files -> Content]
      /\ DiskInv /\ StoreInv(s)
  BY DEF TypeInv, Shape, Inv
<1>1. CASE \E p \in Runnable : Begin(s, p)
  <2>1. PICK p \in A!Plan : A!Declared(p) /\ Begin(s, p)
    BY <1>1 DEF Runnable
  <2>2. Entries = {} /\ mem[s].recovered
    BY <1>0, <2>1 DEF Begin, StoreInv
  <2>3. \A i \in TxIds : ~tx[i].there /\ tx[i].man = "none"
    BY <1>0, <2>2 DEF Entries, DiskInv
  <2>4. InPlace
    BY <1>0, <2>3 DEF DiskInv, NoManifestInv
  <2>5. made + 1 \in TxIds
    <3>1. made < MaxTx
      BY <2>1 DEF Begin
    <3>2. QED BY <1>0, <3>1, StoreBounds DEF TxIds
  <2>6. made' = made + 1 /\ UNCHANGED <<file, truth, mem>>
        /\ tx' = [tx EXCEPT ![made + 1] = [NoTx EXCEPT !.there = TRUE]]
    BY <2>1 DEF Begin
  <2>7. \A i \in TxIds : tx'[i].man = "none" /\ (tx'[i].there <=> i = made')
    BY <1>0, <2>3, <2>5, <2>6 DEF NoTx
  <2>8. Entries' = {made'} /\ InPlace' /\ made' \in TxIds
    BY <2>4, <2>5, <2>6, <2>7 DEF Entries, InPlace
  <2>9. DiskInv'
    BY <2>7, <2>8, OneDirectory DEF PreparedInv, CommittedInv
  <2>10. pc'[s] = "made" /\ job'[s].id = made' /\ job'[s].plan = p
    BY <1>0, <2>1 DEF Begin, To, Job
  <2>11. QED BY <2>1, <2>2, <2>5, <2>6, <2>7, <2>8, <2>9, <2>10 DEF StoreInv, Mine
<1>2. CASE Prepare(s)
  <2> DEFINE p == job[s].plan
             d == [there |-> TRUE, man |-> "prepared", baks |-> TRUE, touch |-> p.touch,
                   pre |-> [f \in A!RangeOf(p.touch) |-> file[f]], post |-> <<>>]
  <2>1. pc[s] = "made" /\ pc[s] \in Working
    BY <1>2 DEF Prepare, Working
  <2>2. /\ job[s].id = made /\ made \in TxIds /\ Entries = {made} /\ Mine(s) = tx[made]
        /\ \A i \in TxIds : i # made => ~tx[i].there /\ tx[i].man = "none"
    BY <2>1, AtWork
  <2>3. tx[made].man = "none" /\ A!Declared(p) /\ mem[s].recovered
    BY <1>0, <2>1, <2>2 DEF StoreInv
  <2>4. InPlace
    BY <1>0, <2>2, <2>3 DEF DiskInv, NoManifestInv
  <2>5. p.touch \in Seq(Files) /\ p.writes \in Seq(Files \X Images) /\ A!Declared(p)
    BY <1>0, <2>3 DEF Job, A!Plan
  <2>6. A!RangeOf(p.touch) \subseteq Files
    BY <2>5, RangeFacts
  <2>7. tx' = [tx EXCEPT ![made] = d] /\ UNCHANGED <<file, truth, made, mem>>
        /\ job' = [job EXCEPT ![s].left = p.writes] /\ pc'[s] = "body"
    BY <1>0, <1>2, <2>2 DEF Prepare, To
  <2>8. tx'[made] = d /\ \A i \in TxIds : i # made => tx'[i] = tx[i]
    BY <1>0, <2>2, <2>7
  <2>9. d.there /\ d.man = "prepared" /\ d.baks /\ d.touch = p.touch
        /\ \A f \in A!RangeOf(p.touch) : d.pre[f] = file[f]
    OBVIOUS
  <2> HIDE DEF d
  <2>10. PreparedInv(made)' /\ CommittedInv(made)'
    BY <2>4, <2>6, <2>7, <2>8, <2>9 DEF PreparedInv, CommittedInv, InPlace
  <2>11. DiskInv'
    BY <2>2, <2>7, <2>8, <2>9, <2>10, OneDirectory
  <2>12. job'[s].plan = p /\ job'[s].id = made /\ job'[s].left = p.writes
    BY <1>0, <2>2, <2>7 DEF Job
  <2>13. Mine(s)' = d /\ Entries' = {made}
    BY <2>2, <2>7, <2>8, <2>9, <2>12 DEF Mine, Entries
  <2>14. BodyInv(s)'
    <3>1. \A j, k \in 1..Len(p.writes) : p.writes[j][1] = p.writes[k][1] => j = k
      BY <2>5 DEF A!Declared
    <3>2. file' = file /\ truth' = truth
      BY <2>7
    <3> HIDE DEF p
    <3>3. QED BY <2>3, <2>4, <2>9, <2>12, <2>13, <3>1, <3>2 DEF BodyInv, InPlace
  <2>15. QED BY <2>3, <2>7, <2>11, <2>12, <2>13, <2>14 DEF StoreInv
<1>3. QED BY <1>1, <1>2

(* One write of the body moves one of its writes from to do to done.       *)
LEMMA WriteStep ==
    ASSUME Faithful, TypeInv, Inv, NEW s \in Stores, Write(s)
    PROVE  DiskInv' /\ StoreInv(s)'
<1> DEFINE p == job[s].plan
           left == job[s].left
           w == Head(left)
           done == A!RangeOf(p.writes) \ A!RangeOf(left)
<1>1. pc[s] = "body" /\ left # <<>> /\ pc[s] \in Working
  BY DEF Write, Working
<1>2. /\ pc \in [Stores -> PCs] /\ job \in [Stores -> Job]
      /\ job[s] \in Job /\ file \in [Files -> Content]
      /\ DiskInv /\ StoreInv(s) /\ JobInv(s) /\ BodyInv(s)
      /\ job[s].id = made /\ made \in TxIds /\ Entries = {made} /\ tx[made].there
      /\ Mine(s) = tx[made]
      /\ \A i \in TxIds : i # made => ~tx[i].there /\ tx[i].man = "none"
  BY <1>1, AtWork DEF StoreInv
<1>3. left \in Seq(Files \X Images) /\ tx[made].man = "prepared"
  BY <1>1, <1>2 DEF JobInv
<1>4. /\ w \in A!RangeOf(left) /\ w \in Files \X Images
      /\ A!RangeOf(left) = {w} \cup A!RangeOf(Tail(left))
  BY <1>1, <1>3, RangeFacts
<1>5. /\ A!Declared(p) /\ tx[made].touch = p.touch /\ tx[made].baks
      /\ A!RangeOf(left) \subseteq A!RangeOf(p.writes)
      /\ \A j, k \in 1..Len(left) : left[j][1] = left[k][1] => j = k
      /\ \A v \in done : file[v[1]] = v[2]
      /\ \A f \in Files : (\A v \in done : v[1] # f) => file[f] = truth[f]
  BY <1>2 DEF BodyInv
<1>6. A!Declared(p) /\ p.writes \in Seq(Files \X Images)
  BY <1>2, <1>5 DEF Job, A!Plan
<1>7. \A u, v \in A!RangeOf(p.writes) : u[1] = v[1] => u = v
  BY <1>6 DEF A!Declared, A!RangeOf
<1>8. /\ Len(Tail(left)) = Len(left) - 1 /\ Len(left) \in Nat \ {0} /\ w = left[1]
      /\ \A i \in 1..Len(Tail(left)) : Tail(left)[i] = left[i + 1]
  BY <1>1, <1>3, HeadTailProperties, EmptySeq
<1>9. w \notin A!RangeOf(Tail(left))
  <2> SUFFICES ASSUME NEW i \in 1..Len(Tail(left)), Tail(left)[i] = w PROVE FALSE
    BY DEF A!RangeOf
  <2>1. i + 1 \in 1..Len(left) /\ 1 \in 1..Len(left) /\ left[i + 1] = left[1] /\ i + 1 # 1
    BY <1>8
  <2>2. QED BY <1>5, <2>1
<1>10. A!RangeOf(p.writes) \ A!RangeOf(Tail(left)) = done \cup {w}
  BY <1>4, <1>5, <1>9
<1>11. \A v \in done : v[1] # w[1]
  BY <1>4, <1>5, <1>7
<1>12. \A v \in done : v[1] \in Files
  BY <1>6, RangeFacts
<1>13. /\ file' = [file EXCEPT ![w[1]] = w[2]] /\ job' = [job EXCEPT ![s].left = Tail(left)]
       /\ UNCHANGED <<tx, pc, mem, made, truth>>
  BY DEF Write
<1>14. /\ job'[s].plan = p /\ job'[s].left = Tail(left) /\ job'[s].id = made
  BY <1>2, <1>13 DEF Job
<1>15. file'[w[1]] = w[2] /\ \A f \in Files : f # w[1] => file'[f] = file[f]
  BY <1>2, <1>4, <1>13
<1>16. w[1] \in A!RangeOf(p.touch)
  BY <1>4, <1>5, <1>6 DEF A!Declared
<1>17. Entries' = {made} /\ Mine(s)' = tx[made]
  BY <1>2, <1>13, <1>14 DEF Entries, Mine
<1>18. \A j, k \in 1..Len(Tail(left)) : Tail(left)[j][1] = Tail(left)[k][1] => j = k
  <2> SUFFICES ASSUME NEW j \in 1..Len(Tail(left)), NEW k \in 1..Len(Tail(left)),
                      Tail(left)[j][1] = Tail(left)[k][1]
               PROVE  j = k
    OBVIOUS
  <2>1. j + 1 \in 1..Len(left) /\ k + 1 \in 1..Len(left)
        /\ left[j + 1][1] = left[k + 1][1]
    BY <1>8
  <2>2. j + 1 = k + 1
    BY <1>5, <2>1
  <2>3. QED BY <2>2
<1>19. A!RangeOf(Tail(left)) \subseteq A!RangeOf(p.writes)
  BY <1>4, <1>5
<1> HIDE DEF p, left, w, done
<1>20. \A v \in done \cup {w} : file'[v[1]] = v[2]
  BY <1>5, <1>11, <1>12, <1>15
<1>21. \A f \in Files : (\A v \in done \cup {w} : v[1] # f) => file'[f] = truth'[f]
  BY <1>5, <1>13, <1>15
<1>22. BodyInv(s)'
  BY <1>5, <1>10, <1>14, <1>17, <1>18, <1>19, <1>20, <1>21 DEF BodyInv
<1>23. PreparedInv(made)' /\ CommittedInv(made)'
  <2>1. PreparedInv(made)
    BY <1>2 DEF DiskInv
  <2>2. QED BY <1>3, <1>5, <1>13, <1>15, <1>16, <2>1 DEF PreparedInv, CommittedInv
<1>24. DiskInv'
  BY <1>2, <1>3, <1>13, <1>23, OneDirectory
<1>25. pc'[s] = "body" /\ mem'[s].recovered
  BY <1>1, <1>2, <1>13 DEF StoreInv
<1>26. QED BY <1>14, <1>17, <1>22, <1>24, <1>25 DEF StoreInv

(* The commit, and what a body that fails has to take back.                *)
LEMMA EndBodyStep ==
    ASSUME Faithful, TypeInv, Inv, NEW s \in Stores, Commit(s) \/ BodyFails(s)
    PROVE  DiskInv' /\ StoreInv(s)'
<1>1. pc[s] = "body" /\ pc[s] \in Working
  BY DEF Commit, BodyFails, Working
<1>2. /\ pc \in [Stores -> PCs] /\ job \in [Stores -> Job]
      /\ tx \in [TxIds -> Directory] /\ tx[made] \in Directory
      /\ job[s] \in Job /\ file \in [Files -> Content]
      /\ DiskInv /\ StoreInv(s) /\ JobInv(s) /\ BodyInv(s)
      /\ job[s].id = made /\ made \in TxIds /\ Entries = {made} /\ tx[made].there
      /\ Mine(s) = tx[made] /\ mem[s].recovered
      /\ \A i \in TxIds : i # made => ~tx[i].there /\ tx[i].man = "none"
  BY <1>1, AtWork DEF StoreInv
<1>3. CASE Commit(s)
  <2> DEFINE new == [f \in A!RangeOf(tx[made].touch) |-> file[f]]
  <2>1. /\ tx' = [tx EXCEPT ![made].man = "committed", ![made].post = new]
        /\ truth' = file /\ file' = file /\ made' = made /\ mem' = mem
        /\ job' = [job EXCEPT ![s].ok = TRUE] /\ pc'[s] = "clean"
    BY <1>2, <1>3 DEF Commit, To
  <2>2. \A f \in A!RangeOf(tx[made].touch) : new[f] = file[f]
    OBVIOUS
  <2> HIDE DEF new
  <2>3. /\ tx'[made].man = "committed" /\ tx'[made].post = new /\ tx'[made].there
        /\ tx'[made].touch = tx[made].touch
        /\ \A i \in TxIds : i # made => tx'[i] = tx[i]
    BY <1>2, <2>1 DEF Directory
  <2>4. InPlace'
    BY <2>1 DEF InPlace
  <2>5. PreparedInv(made)' /\ CommittedInv(made)'
    <3>1. PreparedInv(made)'
      BY <2>1, <2>3 DEF PreparedInv
    <3>2. \A f \in A!RangeOf(tx'[made].touch) : tx'[made].post[f] = truth'[f]
      BY <2>1, <2>2, <2>3
    <3>3. CommittedInv(made)'
      BY <2>1, <2>4, <3>2 DEF CommittedInv
    <3>4. QED BY <3>1, <3>3
  <2>6. DiskInv'
    BY <1>2, <2>1, <2>3, <2>5, OneDirectory
  <2>7. Entries' = {made} /\ job'[s].id = made
    BY <1>2, <2>1, <2>3 DEF Entries, Job
  <2>8. QED BY <1>2, <2>1, <2>4, <2>6, <2>7 DEF StoreInv
<1>4. CASE BodyFails(s)
  <2>1. UNCHANGED <<file, tx, truth, made, mem>> /\ pc'[s] = "undo"
        /\ job'[s].id = made /\ job'[s].left = tx[made].touch
    BY <1>2, <1>4 DEF BodyFails, To, Job, disk
  <2>2. DiskInv' /\ Entries' = {made}
    BY <1>2, <2>1, DiskSame
  <2>3. \A f \in Files \ A!RangeOf(tx[made].touch) : file[f] = truth[f]
    BY <1>1, <1>2 DEF DiskInv, PreparedInv, JobInv
  <2>4. QED BY <1>2, <2>1, <2>2, <2>3 DEF StoreInv
<1>5. QED BY <1>3, <1>4

(* A rollback puts one file after the other back.                          *)
LEMMA UndoStep ==
    ASSUME Faithful, TypeInv, Inv, NEW s \in Stores,
           Undo(s) \/ Undone(s) \/ UndoStuck(s) \/ UndoFails(s)
    PROVE  DiskInv' /\ StoreInv(s)'
<1>1. pc[s] = "undo" /\ pc[s] \in Working
  BY DEF Undo, Undone, UndoStuck, UndoFails, Working
<1>2. /\ pc \in [Stores -> PCs] /\ job \in [Stores -> Job] /\ mem \in [Stores -> Memory]
      /\ tx \in [TxIds -> Directory] /\ tx[made] \in Directory
      /\ job[s] \in Job /\ mem[s] \in Memory /\ file \in [Files -> Content]
      /\ DiskInv /\ StoreInv(s) /\ JobInv(s)
      /\ job[s].id = made /\ made \in TxIds /\ Entries = {made} /\ tx[made].there
      /\ Mine(s) = tx[made]
      /\ \A i \in TxIds : i # made => ~tx[i].there /\ tx[i].man = "none"
  BY <1>1, AtWork
<1>3. /\ job[s].left \in Seq(Files) /\ tx[made].man = "prepared"
      /\ A!RangeOf(job[s].left) \subseteq A!RangeOf(tx[made].touch)
      /\ \A f \in Files \ A!RangeOf(job[s].left) : file[f] = truth[f]
      /\ ~mem[s].recovered => job[s].todo = {}
      /\ PreparedInv(made)
  BY <1>1, <1>2 DEF JobInv, StoreInv, DiskInv
<1>4. CASE Undo(s)
  <2> DEFINE h == Head(job[s].left)
  <2>1. /\ job[s].left # <<>> /\ file' = [file EXCEPT ![h] = tx[made].pre[h]]
        /\ job' = [job EXCEPT ![s].left = Tail(@)]
        /\ UNCHANGED <<tx, pc, mem, made, truth>>
    BY <1>2, <1>4 DEF Undo
  <2>2. /\ h \in A!RangeOf(job[s].left) /\ h \in Files
        /\ A!RangeOf(job[s].left) = {h} \cup A!RangeOf(Tail(job[s].left))
    BY <1>3, <2>1, RangeFacts
  <2>3. file'[h] = truth[h] /\ \A f \in Files : f # h => file'[f] = file[f]
    BY <1>2, <1>3, <2>1, <2>2 DEF PreparedInv
  <2>4. job'[s].id = made /\ job'[s].left = Tail(job[s].left) /\ job'[s].todo = job[s].todo
    BY <1>2, <2>1 DEF Job
  <2> HIDE DEF h
  <2>5. \A f \in Files \ A!RangeOf(Tail(job[s].left)) : file'[f] = truth'[f]
    BY <1>3, <2>1, <2>2, <2>3
  <2>6. PreparedInv(made)' /\ CommittedInv(made)'
    BY <1>3, <2>1, <2>3 DEF PreparedInv, CommittedInv, InPlace
  <2>7. DiskInv'
    BY <1>2, <1>3, <2>1, <2>6, OneDirectory
  <2>8. Entries' = {made}
    BY <1>2, <2>1 DEF Entries
  <2>9. QED BY <1>1, <1>3, <2>1, <2>4, <2>5, <2>7, <2>8 DEF StoreInv
<1>5. ASSUME UNCHANGED <<file, tx, truth, made>>
      PROVE  DiskInv' /\ Entries' = {made} /\ InPlace' = InPlace
  BY <1>2, <1>5, DiskSame
<1>6. CASE Undone(s)
  <2>1. UNCHANGED <<file, tx, truth, made, mem, job>> /\ pc'[s] = "clean" /\ job[s].left = <<>>
    BY <1>2, <1>6 DEF Undone, To, disk
  <2>2. InPlace
    BY <1>3, <2>1, RangeFacts DEF InPlace
  <2>3. QED BY <1>2, <1>3, <1>5, <2>1, <2>2 DEF StoreInv
<1>7. ASSUME StopUndo(s) PROVE DiskInv' /\ StoreInv(s)'
  <2>1. UNCHANGED <<file, tx, truth, made>>
    BY <1>7 DEF StopUndo, disk
  <2>2. mem'[s].blocked /\ mem'[s].recovered = mem[s].recovered
    BY <1>2, <1>7 DEF StopUndo, Block, Memory
  <2>3. job'[s].todo = job[s].todo
    BY <1>2, <1>7 DEF StopUndo, Job
  <2>4. pc'[s] = IF ~mem[s].recovered THEN "scan" ELSE "leave"
    BY <1>2, <1>7 DEF StopUndo, To, Recovering
  <2>5. CASE ~mem[s].recovered
    <3>1. pc'[s] = "scan" /\ ~mem'[s].recovered /\ job'[s].todo = {}
      BY <1>3, <2>2, <2>3, <2>4, <2>5
    <3>2. QED BY <1>5, <2>1, <2>2, <3>1 DEF StoreInv, Working
  <2>6. CASE mem[s].recovered
    BY <1>5, <2>1, <2>4, <2>6 DEF StoreInv, Working
  <2>7. QED BY <2>5, <2>6
<1>8. QED BY <1>4, <1>6, <1>7 DEF UndoStuck, UndoFails

(* The directory is removed only when the files are in place.              *)
LEMMA RemoveStep ==
    ASSUME Faithful, TypeInv, Inv, NEW s \in Stores,
           RemoveManifest(s) \/ RemoveBackups(s) \/ RemoveDirectory(s)
    PROVE  DiskInv' /\ StoreInv(s)'
<1>1. pc[s] \in {"clean", "rm"} /\ pc[s] \in Working
  BY DEF RemoveManifest, RemoveBackups, RemoveDirectory, Removing, Working
<1>2. /\ pc \in [Stores -> PCs]
      /\ tx \in [TxIds -> Directory] /\ tx[made] \in Directory
      /\ DiskInv /\ StoreInv(s) /\ InPlace
      /\ job[s].id = made /\ made \in TxIds /\ Entries = {made} /\ tx[made].there
      /\ ~mem[s].recovered => job[s].todo = {}
      /\ \A i \in TxIds : i # made => ~tx[i].there /\ tx[i].man = "none"
  BY <1>1, AtWork DEF StoreInv
<1>3. UNCHANGED <<file, truth, made, mem, job>> /\ InPlace'
  BY <1>2 DEF RemoveManifest, RemoveBackups, RemoveDirectory, Cleaned, InPlace
<1>4. PreparedInv(made) /\ CommittedInv(made)
  BY <1>2 DEF DiskInv
<1>5. CASE RemoveManifest(s) \/ RemoveBackups(s)
  <2>1. \/ tx' = [tx EXCEPT ![made].man = "none"] \/ tx' = [tx EXCEPT ![made].baks = FALSE]
    BY <1>2, <1>5 DEF RemoveManifest, RemoveBackups
  <2>2. /\ tx'[made].there /\ tx'[made].man \in {"none", tx[made].man}
        /\ tx'[made].touch = tx[made].touch
        /\ tx'[made].pre = tx[made].pre /\ tx'[made].post = tx[made].post
        /\ \A i \in TxIds : i # made => tx'[i] = tx[i]
    BY <1>2, <2>1 DEF Directory
  <2>3. PreparedInv(made)' /\ CommittedInv(made)'
    BY <1>2, <1>3, <1>4, <2>2 DEF PreparedInv, CommittedInv
  <2>4. DiskInv'
    BY <1>2, <1>3, <2>2, <2>3, OneDirectory
  <2>5. Entries' = {made} /\ pc'[s] = "rm"
    BY <1>2, <1>5, <2>2 DEF Entries, RemoveManifest, RemoveBackups, To
  <2>6. QED BY <1>2, <1>3, <2>4, <2>5 DEF StoreInv
<1>6. CASE RemoveDirectory(s)
  <2>1. tx' = [tx EXCEPT ![made] = NoTx]
    BY <1>2, <1>6 DEF RemoveDirectory
  <2>2. \A i \in TxIds : ~tx'[i].there /\ tx'[i].man = "none"
    BY <1>2, <2>1 DEF NoTx
  <2>3. DiskInv' /\ Entries' = {}
    BY <1>3, <2>2 DEF DiskInv, Entries, NoManifestInv, PreparedInv, CommittedInv
  <2>4. pc'[s] = IF ~mem[s].recovered THEN "scan" ELSE "leave"
    BY <1>2, <1>6 DEF RemoveDirectory, Cleaned, To, Recovering
  <2>5. QED BY <1>2, <1>3, <2>3, <2>4 DEF StoreInv, Working
<1>7. QED BY <1>5, <1>6

LEMMA InvStep == Faithful /\ TypeInv /\ Inv /\ [RunStep]_storeVars => Inv'
<1>1. ASSUME Faithful, TypeInv, Inv, NEW s \in Stores, Runs(s) PROVE Inv'
  <2>1. ~CleanFails(s) /\ ~Interrupt(s)
    BY <1>1 DEF CleanFails, Interrupt, Removing, Strikes, Faithful, CleanupGoesThrough, PCs
  <2>2. DiskInv' /\ StoreInv(s)'
    BY <1>1, <2>1, RecoverStep, StartStep, WriteStep, EndBodyStep, UndoStep, RemoveStep
       DEF Runs, Inside, Work, Fault
  <2>3. QED BY <1>1, <2>2, RunsAct, OthersStep DEF Inv
<1>2. ASSUME Inv, UNCHANGED storeVars PROVE Inv'
  BY <1>2 DEF storeVars, disk, Inv, DiskInv, Entries, NoManifestInv, InPlace, PreparedInv,
              CommittedInv, StoreInv, BodyInv, Mine
<1>3. QED BY <1>1, <1>2 DEF RunStep

LEMMA Invariant == ASSUME Faithful, PlansDeclare PROVE Spec => []Inv
<1>1. TypeInv /\ Inv /\ [Next]_storeVars => Inv'
  BY InvStep, NextRuns
<1>2. QED BY <1>1, InitInv, TypeInvariant, PTL DEF Spec

-----------------------------------------------------------------------------
(* What the steps do to the content, committed and on disk.                *)

LEMMA OpenIsInPlace ==
    ASSUME TypeInv, Inv, NEW s \in Stores, pc[s] = "open" PROVE file = truth
<1>1. Entries = {} /\ DiskInv
  BY DEF Inv, StoreInv
<1>2. \A i \in TxIds : tx[i].man = "none"
  BY <1>1 DEF Entries, DiskInv
<1>3. InPlace
  BY <1>1, <1>2 DEF DiskInv, NoManifestInv
<1>4. QED BY <1>3 DEF InPlace, TypeInv, Shape

(* What a plan makes of a content: the images it writes, and nothing else. *)
LEMMA AppliedFacts ==
    ASSUME NEW c, NEW p \in A!Plan, A!Declared(p)
    PROVE  /\ A!Applied(c, p) = [f \in Files |-> A!Applied(c, p)[f]]
           /\ \A w \in A!RangeOf(p.writes) : w[1] \in Files /\ A!Applied(c, p)[w[1]] = w[2]
           /\ \A f \in Files : (\A w \in A!RangeOf(p.writes) : w[1] # f)
                                => A!Applied(c, p)[f] = c[f]
<1>0. A!Applied(c, p) = [f \in Files |-> A!Applied(c, p)[f]]
  BY DEF A!Applied
<1>1. p.writes \in Seq(Files \X Images)
  BY DEF A!Plan
<1>2. \A w \in A!RangeOf(p.writes) : w[1] \in Files
  BY <1>1, RangeFacts
<1>3. \A u, v \in A!RangeOf(p.writes) : u[1] = v[1] => u = v
  BY DEF A!Declared, A!RangeOf
<1>4. ASSUME NEW w \in A!RangeOf(p.writes) PROVE A!Applied(c, p)[w[1]] = w[2]
  <2>1. (CHOOSE v \in A!RangeOf(p.writes) : v[1] = w[1])
          \in {v \in A!RangeOf(p.writes) : v[1] = w[1]}
    OBVIOUS
  <2>2. A!Applied(c, p)[w[1]] = (CHOOSE v \in A!RangeOf(p.writes) : v[1] = w[1])[2]
    BY <1>2 DEF A!Applied
  <2>3. QED BY <1>3, <2>1, <2>2
<1>5. ASSUME NEW f \in Files, \A w \in A!RangeOf(p.writes) : w[1] # f
      PROVE  A!Applied(c, p)[f] = c[f]
  BY <1>5 DEF A!Applied
<1>6. QED BY <1>0, <1>2, <1>4, <1>5

(* A file of a running body is as it was, or as its plan makes it.         *)
LEMMA BodyBetween ==
    ASSUME TypeInv, Inv, NEW s \in Stores, pc[s] = "body"
    PROVE  /\ job[s].plan \in A!Plan /\ A!Declared(job[s].plan)
           /\ A!RangeOf(job[s].left) \subseteq A!RangeOf(job[s].plan.writes)
           /\ \A f \in Files : \/ file[f] = truth[f]
                               \/ file[f] = A!Applied(truth, job[s].plan)[f]
           /\ job[s].left = <<>> => file = A!Applied(truth, job[s].plan)
<1> DEFINE p == job[s].plan
           done == A!RangeOf(p.writes) \ A!RangeOf(job[s].left)
           new == A!Applied(truth, p)
<1>1. /\ p \in A!Plan /\ file \in [Files -> Content] /\ A!Declared(p)
      /\ A!RangeOf(job[s].left) \subseteq A!RangeOf(p.writes)
      /\ \A w \in done : file[w[1]] = w[2]
      /\ \A f \in Files : (\A w \in done : w[1] # f) => file[f] = truth[f]
  BY DEF TypeInv, Shape, Job, Inv, StoreInv, BodyInv
<1>2. /\ new = [f \in Files |-> new[f]]
      /\ \A w \in A!RangeOf(p.writes) : new[w[1]] = w[2]
      /\ \A f \in Files : (\A w \in A!RangeOf(p.writes) : w[1] # f) => new[f] = truth[f]
  BY <1>1, AppliedFacts
<1> HIDE DEF p, new
<1>3. ASSUME NEW f \in Files PROVE file[f] = truth[f] \/ file[f] = new[f]
  BY <1>1, <1>2
<1>4. ASSUME job[s].left = <<>> PROVE file = new
  <2>1. A!RangeOf(job[s].left) = {}
    BY <1>4 DEF A!RangeOf
  <2>2. done = A!RangeOf(p.writes)
    BY <2>1
  <2>3. \A f \in Files : file[f] = new[f]
    BY <1>1, <1>2, <2>2
  <2>4. QED BY <1>1, <1>2, <2>3
<1>5. QED BY <1>1, <1>3, <1>4 DEF p, new

(* Only a commit changes the committed content, by the plan of its body.   *)
LEMMA TruthStep ==
    ASSUME TypeInv, Inv, NEW s \in Stores, Act(s), truth' # truth
    PROVE  /\ Commit(s) /\ pc[s] = "body" /\ truth' = file /\ file' = file
           /\ job[s].plan \in A!Plan /\ A!Declared(job[s].plan)
           /\ truth' = A!Applied(truth, job[s].plan)
<1>1. Commit(s)
  BY DEF Act, Inside, Recovery, Work, Fault, Enter, RefuseBlocked, Acquire,
         SkipUnmanifested, KeepSettled, UndoPrepared, GiveUpMixed, EndScan, Decline,
         Begin, Prepare, Write, Undo, Undone, UndoStuck, StopUndo, RemoveManifest,
         RemoveBackups, RemoveDirectory, Cleaned, Leave, Kill, ScanFails,
         PrepareFails, BodyFails, UndoFails, CleanFails, Interrupt,
         EntryFails, RecoverFails, RecoverInterrupted, WaitInterrupted
<1>2. pc[s] = "body" /\ job[s].left = <<>> /\ truth' = file /\ file' = file
  BY <1>1 DEF Commit
<1>3. QED BY <1>1, <1>2, BodyBetween

(* Files change by a write of a running body, or back by a rollback.       *)
LEMMA FileStep ==
    ASSUME TypeInv, Inv, NEW s \in Stores, Act(s), NEW f \in Files, file'[f] # file[f]
    PROVE  /\ truth' = truth
           /\ \/ pc[s] = "body" /\ file'[f] = A!Applied(truth, job[s].plan)[f]
              \/ file'[f] = truth[f]
<1>0. /\ file \in [Files -> Content] /\ DiskInv /\ StoreInv(s) /\ JobInv(s)
      /\ job[s] \in Job
  BY DEF TypeInv, Shape, Inv
<1>1. Write(s) \/ Undo(s)
  BY DEF Act, Inside, Recovery, Work, Fault, Enter, RefuseBlocked, Acquire,
         SkipUnmanifested, KeepSettled, UndoPrepared, GiveUpMixed, EndScan, Decline,
         Begin, Prepare, Commit, Undone, UndoStuck, StopUndo, RemoveManifest,
         RemoveBackups, RemoveDirectory, Cleaned, Leave, Kill, ScanFails,
         PrepareFails, BodyFails, UndoFails, CleanFails, Interrupt,
         EntryFails, RecoverFails, RecoverInterrupted, WaitInterrupted, disk
<1>2. CASE Write(s)
  <2> DEFINE w == Head(job[s].left)
  <2>1. /\ pc[s] = "body" /\ job[s].left # <<>> /\ truth' = truth
        /\ file' = [file EXCEPT ![w[1]] = w[2]]
    BY <1>2 DEF Write
  <2>2. job[s].left \in Seq(Files \X Images)
    BY <1>0, <2>1 DEF JobInv
  <2>3. w \in A!RangeOf(job[s].left)
    BY <2>1, <2>2, RangeFacts
  <2>4. w \in A!RangeOf(job[s].plan.writes)
        /\ job[s].plan \in A!Plan /\ A!Declared(job[s].plan)
    BY <2>1, <2>3, BodyBetween
  <2>5. A!Applied(truth, job[s].plan)[w[1]] = w[2]
    BY <2>4, AppliedFacts
  <2> HIDE DEF w
  <2>6. f = w[1] /\ file'[f] = w[2]
    BY <1>0, <2>1
  <2>7. QED BY <2>1, <2>5, <2>6
<1>3. CASE Undo(s)
  <2> DEFINE g == Head(job[s].left)
  <2>1. /\ pc[s] = "undo" /\ job[s].left # <<>> /\ truth' = truth
        /\ file' = [file EXCEPT ![g] = tx[job[s].id].pre[g]]
    BY <1>3 DEF Undo
  <2>2. /\ job[s].left \in Seq(Files) /\ tx[job[s].id].man = "prepared"
        /\ A!RangeOf(job[s].left) \subseteq A!RangeOf(tx[job[s].id].touch)
        /\ job[s].id \in TxIds
    BY <1>0, <2>1 DEF JobInv, Mine, Working
  <2>3. g \in A!RangeOf(tx[job[s].id].touch)
    BY <2>1, <2>2, RangeFacts
  <2>4. tx[job[s].id].pre[g] = truth[g]
    BY <1>0, <2>2, <2>3 DEF DiskInv, PreparedInv
  <2> HIDE DEF g
  <2>5. f = g /\ file'[f] = truth[g]
    BY <1>0, <2>1, <2>4
  <2>6. QED BY <2>1, <2>5
<1>4. QED BY <1>1, <1>2, <1>3

-----------------------------------------------------------------------------
(* What the transactions promise.                                          *)

(* Whoever gets past lock() finds the files as the last committed          *)
(* transaction left them: of a transaction that was killed or failed, and  *)
(* of a recovery that was, nothing is left, at whatever step it struck.    *)
THEOREM StoresOpenOnCommitted ==
    ASSUME Faithful, PlansDeclare PROVE Spec => []OpensOnCommitted
<1>1. TypeInv /\ Inv => OpensOnCommitted
  BY OpenIsInPlace DEF OpensOnCommitted
<1>2. QED BY <1>1, Invariant, TypeInvariant, PTL

(* The plan a store runs is one of those there are.                        *)
FromPlans == \A s \in Stores : pc[s] \in {"made", "body"} => job[s].plan \in Plans

LEMMA FromPlansStep ==
    ASSUME TypeInv, FromPlans, NEW s \in Stores,
           Enter(s) \/ Inside(s) \/ Fault(s) \/ Decline(s) \/ \E p \in Plans : Begin(s, p)
    PROVE  FromPlans'
<1>0. /\ pc \in [Stores -> PCs] /\ job \in [Stores -> Job] /\ job[s] \in Job
      /\ Act(s)
  BY StorePlans DEF TypeInv, Shape, Act
<1>1. ASSUME NEW r \in Stores \ {s} PROVE pc'[r] \in {"made", "body"} => job'[r].plan \in Plans
  BY <1>0, Frame DEF FromPlans
<1>2. pc'[s] \in {"made", "body"} => job'[s].plan \in Plans
  <2>1. CASE \E p \in Plans : Begin(s, p)
    <3>1. PICK p \in Plans : job' = [job EXCEPT ![s].id = made + 1, ![s].plan = p,
                                                ![s].left = <<>>]
      BY <2>1 DEF Begin
    <3>2. job'[s].plan = p
      BY <1>0, <3>1 DEF Job
    <3>3. QED BY <3>1, <3>2
  <2>2. CASE Prepare(s) \/ Write(s)
    <3>1. PICK q : job' = [job EXCEPT ![s].left = q]
      BY <2>2 DEF Prepare, Write
    <3>2. job'[s].plan = job[s].plan
      BY <1>0, <3>1 DEF Job
    <3>3. pc[s] \in {"made", "body"}
      BY <2>2 DEF Prepare, Write
    <3>4. QED BY <3>2, <3>3 DEF FromPlans
  <2>3. CASE pc'[s] \notin {"made", "body"}
    BY <2>3
  <2>4. QED
    BY <1>0, <2>1, <2>2, <2>3
       DEF Act, Inside, Recovery, Work, Fault, Enter, RefuseBlocked, Acquire,
           SkipUnmanifested, KeepSettled, UndoPrepared, GiveUpMixed, EndScan, Decline,
           Commit, Undo, Undone, UndoStuck, StopUndo, RemoveManifest,
           RemoveBackups, RemoveDirectory, Cleaned, Leave, Return, Kill, ScanFails,
           PrepareFails, BodyFails, UndoFails, CleanFails, Interrupt, EntryFails,
           RecoverFails, RecoverInterrupted, WaitInterrupted, To
<1>3. QED BY <1>1, <1>2 DEF FromPlans

LEMMA FromPlansInvariant == Spec => []FromPlans
<1>1. Init => FromPlans
  BY DEF Init, FromPlans
<1>2. TypeInv /\ FromPlans /\ [Next]_storeVars => FromPlans'
  <2>1. FromPlans /\ UNCHANGED storeVars => FromPlans'
    BY DEF FromPlans, storeVars
  <2>2. QED BY <2>1, FromPlansStep DEF Next
<1>3. QED BY <1>1, <1>2, TypeInvariant, PTL DEF Spec

(* The refinement: the committed content starts empty, and a step of a     *)
(* store applies one whole plan to it, the commit, or leaves it alone.     *)
THEOREM StoreIsAtomic ==
    ASSUME Faithful, PlansDeclare PROVE Spec => ImplementsAtomicStore
<1>1. Init => A!Init
  BY DEF Init, A!Init
<1>2. ASSUME TypeInv, Inv, FromPlans, NEW s \in Stores, Act(s), truth' # truth
      PROVE  A!Apply
  BY <1>2, TruthStep DEF FromPlans, A!Apply
<1>3. TypeInv /\ Inv /\ FromPlans /\ [Next]_storeVars => [A!Next]_truth
  BY <1>2, NextIsStep DEF Step, storeVars, A!Next
<1>4. QED
  BY <1>1, <1>3, TypeInvariant, Invariant, FromPlansInvariant, PTL
     DEF Spec, ImplementsAtomicStore, A!Spec

(* When every declared file is written, a committed manifest has a digest  *)
(* for each of them.                                                       *)
DigestsKnown == \A i \in TxIds : tx[i].man = "committed" =>
    /\ tx[i].touch # <<>>
    /\ \A f \in A!RangeOf(tx[i].touch) : tx[i].post[f] # NoFile


LEMMA DigestStep ==
    ASSUME PlansWriteAll, TypeInv, Inv, FromPlans, DigestsKnown, NEW s \in Stores, Act(s)
    PROVE  DigestsKnown'
<1>0. /\ file \in [Files -> Content] /\ tx \in [TxIds -> Directory]
      /\ job[s] \in Job /\ JobInv(s) /\ StoreInv(s)
  BY DEF TypeInv, Shape, Inv
<1> SUFFICES ASSUME NEW i \in TxIds, tx'[i].man = "committed"
             PROVE  /\ tx'[i].touch # <<>>
                    /\ \A f \in A!RangeOf(tx'[i].touch) : tx'[i].post[f] # NoFile
  BY DEF DigestsKnown
<1>1. CASE Commit(s)
  <2> DEFINE p == job[s].plan
             r == A!RangeOf(tx[job[s].id].touch)
             new == [f \in r |-> file[f]]
  <2>1. /\ tx' = [tx EXCEPT ![job[s].id].man = "committed", ![job[s].id].post = new]
        /\ pc[s] = "body" /\ job[s].left = <<>>
    BY <1>1 DEF Commit
  <2>2. BodyInv(s) /\ A!RangeOf(job[s].left) = {} /\ job[s].id \in TxIds
    BY <1>0, <2>1 DEF StoreInv, JobInv, Working, A!RangeOf
  <2>3. /\ p \in Plans /\ tx[job[s].id].touch = p.touch
        /\ \A w \in A!RangeOf(p.writes) : file[w[1]] = w[2]
    BY <2>1, <2>2 DEF BodyInv, Mine, FromPlans
  <2>4. p.writes \in Seq(Files \X Images)
    BY <1>0 DEF Job, A!Plan
  <2>5. \A w \in A!RangeOf(p.writes) : w[2] # NoFile
    BY <2>4, RangeFacts, StoreImages
  <2>6. p.touch # <<>> /\ \A f \in r : file[f] # NoFile
    <3>1. /\ p.touch # <<>>
          /\ \A f \in A!RangeOf(p.touch) : \E w \in A!RangeOf(p.writes) : w[1] = f
      BY <2>3 DEF PlansWriteAll
    <3>2. \A f \in A!RangeOf(p.touch) : file[f] # NoFile
      BY <2>3, <2>5, <3>1
    <3>3. QED BY <2>3, <3>1, <3>2
  <2>7. \A f \in r : new[f] # NoFile
    BY <2>6
  <2> HIDE DEF new, p
  <2>8. CASE i = job[s].id
    <3>1. tx'[i].touch = tx[i].touch /\ tx'[i].post = new
      BY <1>0, <2>1, <2>8 DEF Directory
    <3>2. QED BY <2>3, <2>6, <2>7, <2>8, <3>1
  <2>9. CASE i # job[s].id
    BY <1>0, <2>1, <2>9 DEF DigestsKnown
  <2>10. QED BY <2>8, <2>9
<1>2. CASE \E p \in A!Plan : Begin(s, p)
  BY <1>0, <1>2 DEF Begin, NoTx, DigestsKnown
<1>3. CASE Prepare(s)
  <2>1. PICK d : d.man = "prepared" /\ tx' = [tx EXCEPT ![job[s].id] = d]
    BY <1>3 DEF Prepare
  <2>2. QED BY <1>0, <2>1 DEF DigestsKnown
<1>4. CASE RemoveManifest(s) \/ RemoveBackups(s)
  BY <1>0, <1>4 DEF RemoveManifest, RemoveBackups, Directory, DigestsKnown
<1>5. CASE RemoveDirectory(s)
  BY <1>0, <1>5 DEF RemoveDirectory, NoTx, DigestsKnown
<1>6. CASE UNCHANGED tx
  BY <1>6 DEF DigestsKnown
<1>7. QED
  BY <1>1, <1>2, <1>3, <1>4, <1>5, <1>6
     DEF Act, Inside, Recovery, Work, Fault, Enter, RefuseBlocked, Acquire, SkipUnmanifested,
         KeepSettled, UndoPrepared, GiveUpMixed, EndScan, Decline, Write, Undo, Undone,
         UndoStuck, StopUndo, Leave, Kill, ScanFails, PrepareFails, BodyFails, UndoFails,
         CleanFails, Interrupt,
         EntryFails, RecoverFails, RecoverInterrupted, WaitInterrupted, disk

(* A directory left behind by a committed transaction is always recognised *)
(* as such, so that recovery never gives up on it as a mixture, provided   *)
(* that each transaction writes the files it declares.                     *)
THEOREM CommittedAreRecognised ==
    ASSUME Faithful, PlansDeclare, PlansWriteAll PROVE Spec => []CommittedSettles
<1>1. Init => DigestsKnown
  BY DEF Init, NoTx, DigestsKnown
<1>2. TypeInv /\ Inv /\ FromPlans /\ DigestsKnown /\ [Next]_storeVars => DigestsKnown'
  <2>1. DigestsKnown /\ UNCHANGED storeVars => DigestsKnown'
    BY DEF storeVars, disk, DigestsKnown
  <2>2. QED BY <2>1, DigestStep, NextIsStep DEF Step
<1>3. ASSUME TypeInv, Inv, DigestsKnown PROVE CommittedSettles
  <2> SUFFICES ASSUME NEW s \in Stores, NEW i \in job[s].todo,
                      pc[s] = "scan", tx[i].man = "committed"
               PROVE  Settled(tx[i])
    BY DEF CommittedSettles
  <2>1. i \in TxIds /\ tx[i].touch \in Seq(Files)
    BY <1>3 DEF TypeInv, Shape, Job, Directory
  <2>2. CommittedInv(i) /\ A!RangeOf(tx[i].touch) \subseteq Files
    BY <1>3, <2>1, RangeFacts DEF Inv, DiskInv
  <2>3. AllPost(tx[i])
    BY <1>3, <2>1, <2>2 DEF AllPost, IsPost, CommittedInv, InPlace, DigestsKnown
  <2>4. QED BY <1>3, <2>1, <2>3 DEF Settled, DigestsKnown
<1>4. QED
  BY <1>1, <1>2, <1>3, TypeInvariant, Invariant, FromPlansInvariant, PTL DEF Spec

=============================================================================
