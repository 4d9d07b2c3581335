------------------------ MODULE ProjectEventStoreProofs ------------------------
(***************************************************************************)
(* Machine-checked theorems about ProjectEventStore, for any number of     *)
(* processes, commands and faults.                                         *)
(*                                                                         *)
(* The argument: the lock admits one process at a time (LockExclusive), so *)
(* what that process is about to write (`goal`) extends what is on disk    *)
(* (WriterInv); a repair is writing back exactly the lines it cut, and as  *)
(* long as it is not itself interrupted nothing acknowledged is lost.      *)
(*                                                                         *)
(* Whatever can be read after a step could be read before it or was about  *)
(* to be written, and what is about to be written is what could be read,   *)
(* or that with the events of a call behind it (LinesComeFrom).  So a      *)
(* property of sequences of events that passes to prefixes holds for ever  *)
(* if a call that builds events keeps it: that keys occur once (KeysOnce)  *)
(* and ids differ (IdsOK).  From this and from the fact that a step        *)
(* extends the content by one event at most (ContentByOne) follow the      *)
(* refinement of EventLog and what readers may rely on.                    *)
(***************************************************************************)
EXTENDS ProjectEventStore, SequenceTheorems, NaturalsInduction, WellFoundedInduction, TLAPS

(* A kill or an I/O error never strikes between the truncation of a torn   *)
(* file and the end of its rewriting.                                      *)
RepairIsUninterrupted == "rewrite" \notin FaultPoints

-----------------------------------------------------------------------------
(* The inductive invariant.                                                *)

WriterInv(p) ==
    /\ pc[p] \in {"rewrite", "write"} =>
         /\ IsPrefixOf(ledger, goal[p])
         /\ Linked(goal[p])
         /\ tail # NoTail => /\ Len(ledger) < Len(goal[p])
                             /\ tail \in {Torn, goal[p][Len(ledger) + 1]}
    /\ pc[p] = "check" => tail = NoTail

ResultInv(p) ==
    /\ pc[p] = "write" => \A e \in res[p] : At(e, goal[p])
    /\ pc[p] = "ret" => \A e \in res[p] : At(e, ledger)
    /\ pc[p] \notin {"write", "ret", "fail"} => res[p] = {}

TailInv == tail \in Event => tail.seq = Len(ledger) + 1 /\ tail.prev = LastUid(ledger)

PartitionInv ==
    /\ \A k \in 1..Len(archives) : archives[k].upto <= Archived
    /\ Archived <= Len(ledger)
    /\ \A v \in Verifiers : scan[v].parts <= Len(archives)

BaseInv ==
    /\ TypeOK
    /\ LockExclusive
    /\ \A p \in Procs : WriterInv(p)
    /\ TailInv
    /\ PartitionInv
    /\ Linked(ledger)

DurableInv ==
    /\ \A p \in Procs : ResultInv(p)
    /\ AckedDurable

-----------------------------------------------------------------------------
(* Types.                                                                  *)

(* What a reader sees, and where the partitions end, have their types.     *)
LEMMA VisibleType ==
    ASSUME TypeOK, PartitionInv
    PROVE  /\ Visible \in Seq(Event)
           /\ LastUid(Visible) \in Nat /\ LastUid(ledger) \in Nat
           /\ Len(ledger) <= Len(Visible)
           /\ \A n \in 0..Len(archives) : UpTo(n) \in 0..Len(ledger)
           /\ Archived \in 0..Len(ledger)
<1>1. Visible \in Seq(Event) /\ Len(ledger) <= Len(Visible)
  BY DEF TypeOK, Visible
<1>2. \A t \in Seq(Event) : LastUid(t) \in Nat
  <2>1. \A t \in Seq(Event) : t # <<>> => t[Len(t)] \in Event
    BY EmptySeq, ElementOfSeq
  <2>2. QED BY <2>1 DEF LastUid, Event
<1>3. \A n \in 0..Len(archives) : UpTo(n) \in Nat
  <2>1. \A n \in 1..Len(archives) : archives[n] \in [upto : Nat, torn : BOOLEAN]
    BY ElementOfSeq DEF TypeOK
  <2>2. QED BY <2>1 DEF UpTo
<1>4. \A n \in 0..Len(archives) : UpTo(n) <= Archived
  BY <1>3 DEF PartitionInv, UpTo, Archived, TypeOK
<1>5. Len(archives) \in 0..Len(archives) /\ Len(ledger) \in Nat
  BY DEF TypeOK
<1>6. QED BY <1>1, <1>2, <1>3, <1>4, <1>5 DEF PartitionInv, Archived, TypeOK

(* The events a command sequence is turned into have their type.           *)
LEMMA BuiltType ==
    ASSUME TypeOK, NEW s \in Seq(Event), NEW cs \in Seq(Command), NEW b \in BOOLEAN
    PROVE  /\ Built(s, cs, b) \in Seq(Event)
           /\ Len(Built(s, cs, b)) = Len(s) + Len(cs)
           /\ \A i \in 1..Len(s) : Built(s, cs, b)[i] = s[i]
           /\ \A i \in 1..Len(cs) : Built(s, cs, b)[Len(s) + i] = Made(s, cs, i, b)
<1>1. ASSUME NEW i \in 1..Len(cs) PROVE Made(s, cs, i, b) \in Event
  <2>1. cs[i] \in Command BY ElementOfSeq
  <2>2. IdOf(cs[i], built + i) \in EventId
    BY <2>1, DetIdAssumption DEF TypeOK, IdOf, EventId, Command
  <2>3. LastUid(s) \in Nat
    <3>1. s # <<>> => s[Len(s)] \in Event BY EmptySeq, ElementOfSeq
    <3>2. QED BY <3>1 DEF LastUid, Event
  <2>4. Len(s) \in Nat /\ built \in Nat /\ i \in Nat /\ i >= 1 /\ Len(cs) \in Nat
    BY DEF TypeOK
  <2>5. QED BY <2>1, <2>2, <2>3, <2>4 DEF Made, Event, Command
<1>2. [i \in 1..Len(cs) |-> Made(s, cs, i, b)] \in Seq(Event)
  <2>1. Len(cs) \in Nat OBVIOUS
  <2>2. [i \in 1..Len(cs) |-> Made(s, cs, i, b)] \in [1..Len(cs) -> Event]
    BY <1>1
  <2>3. QED BY <2>1, <2>2
<1>3. Len([i \in 1..Len(cs) |-> Made(s, cs, i, b)]) = Len(cs)
  BY <1>2
<1>4. QED BY <1>2, <1>3, ConcatProperties DEF Built

LEMMA InitBase == Init => BaseInv
<1>1. Init => TypeOK
  <2>1. /\ <<>> \in Seq(Event) /\ <<>> \in Seq(Command)
        /\ <<>> \in Seq([upto : Nat, torn : BOOLEAN])
    BY EmptySeq
  <2>2. NoOp \in [kind : {"none", "append", "governed", "import", "rotate", "read"},
                  cmds : Seq(Command), exp : Int]
    BY <2>1 DEF NoOp
  <2>3. NoScan \in [pc : {"idle", "listing", "reading", "done"},
                    parts : Nat, has : BOOLEAN,
                    out : Seq(Event), loose : BOOLEAN, ok : BOOLEAN]
    BY <2>1 DEF NoScan
  <2> SUFFICES ASSUME Init PROVE TypeOK
    OBVIOUS
  <2>4. /\ ledger \in Seq(Event) /\ batch \in [out : Seq(Event), loose : BOOLEAN]
        /\ archives \in Seq([upto : Nat, torn : BOOLEAN])
    BY <2>1 DEF Init, NoBatch
  <2>5. active \in BOOLEAN /\ tail \in Event \cup {Torn, NoTail}
    BY DEF Init
  <2>6. /\ lock \in Procs \cup {None}
        /\ pc \in [Procs -> Locked \cup {"idle", "wait"}]
        /\ goal \in [Procs -> Seq(Event)]
        /\ res \in [Procs -> SUBSET Event]
    BY <2>1 DEF Init
  <2>7. op \in [Procs -> [kind : {"none", "append", "governed", "import", "rotate", "read"},
                          cmds : Seq(Command), exp : Int]]
    BY <2>2 DEF Init
  <2>8. scan \in [Verifiers -> [pc : {"idle", "listing", "reading", "done"},
                    parts : Nat, has : BOOLEAN,
                    out : Seq(Event), loose : BOOLEAN, ok : BOOLEAN]]
    BY <2>3 DEF Init
  <2>9. /\ built \in Nat /\ acked \subseteq Event
        /\ calls \in 0..MaxCalls /\ faults \in 0..MaxFaults
    BY BoundAssumption DEF Init
  <2>10. QED BY <2>4, <2>5, <2>6, <2>7, <2>8, <2>9 DEF TypeOK
<1>2. Init => LockExclusive /\ \A p \in Procs : WriterInv(p)
  BY DEF Init, LockExclusive, WriterInv, Locked
<1>3. Init => TailInv /\ PartitionInv /\ Linked(ledger)
  BY TailAssumption, EmptySeq
     DEF Init, TailInv, PartitionInv, Linked, Archived, UpTo, NoScan
<1>4. QED BY <1>1, <1>2, <1>3 DEF BaseInv

LEMMA TypeStep == BaseInv /\ [Next]_vars => TypeOK'
<1> SUFFICES ASSUME BaseInv, [Next]_vars PROVE TypeOK'
  OBVIOUS
<1> USE DEF BaseInv
<1>1. ASSUME NEW p \in Procs, Request(p) PROVE TypeOK'
  <2>1. ASSUME NEW o \in [kind : {"append", "governed", "import", "rotate", "read"},
                          cmds : Seq(Command), exp : Int],
               Call(p, o)
        PROVE  TypeOK'
    <3>1. calls' \in 0..MaxCalls
      BY <2>1, BoundAssumption DEF Call, TypeOK
    <3>2. op' = [op EXCEPT ![p] = o]
      BY <2>1 DEF Call
    <3>3. op' \in [Procs -> [kind : {"none", "append", "governed", "import", "rotate", "read"},
                             cmds : Seq(Command), exp : Int]]
      BY <3>2 DEF TypeOK
    <3>4. /\ pc' \in [Procs -> Locked \cup {"idle", "wait"}]
          /\ UNCHANGED <<disk, lock, goal, res, built, ghost, scan, faults>>
      BY <2>1 DEF Call, Goto, TypeOK, Locked
    <3>5. QED BY <3>1, <3>3, <3>4 DEF TypeOK, disk, ghost
  <2>2. LastUid(Visible) \in Int
    BY VisibleType
  <2>3. \A c \in Cmds : <<c>> \in Seq(Command)
    BY CmdAssumption
  <2>4. \A cs \in Batches : cs \in Seq(Command)
    BY BatchAssumption
  <2>5. <<>> \in Seq(Command)
    BY EmptySeq
  <2>6. CASE CallAppend(p)
    <3>1. PICK c \in Cmds : Call(p, [kind |-> "append", cmds |-> <<c>>, exp |-> -1])
      BY <2>6 DEF CallAppend
    <3>2. [kind |-> "append", cmds |-> <<c>>, exp |-> -1]
            \in [kind : {"append", "governed", "import", "rotate", "read"},
                 cmds : Seq(Command), exp : Int]
      BY <2>3
    <3>3. QED BY <2>1, <3>1, <3>2
  <2>7. CASE CallGoverned(p)
    BY <2>7, <2>1, <2>2, <2>3 DEF CallGoverned
  <2>8. CASE CallImport(p)
    BY <2>8, <2>1, <2>2, <2>4 DEF CallImport
  <2>9. CASE CallRotate(p)
    <3>1. [kind |-> "rotate", cmds |-> <<>>, exp |-> -1]
            \in [kind : {"append", "governed", "import", "rotate", "read"},
                 cmds : Seq(Command), exp : Int]
      BY <2>5
    <3>2. QED BY <2>9, <2>1, <3>1 DEF CallRotate
  <2>10. CASE CallRead(p)
    <3>1. [kind |-> "read", cmds |-> <<>>, exp |-> -1]
            \in [kind : {"append", "governed", "import", "rotate", "read"},
                 cmds : Seq(Command), exp : Int]
      BY <2>5
    <3>2. QED BY <2>10, <2>1, <3>1 DEF CallRead
  <2>11. QED BY <1>1, <2>6, <2>7, <2>8, <2>9, <2>10 DEF Request
<1>2. ASSUME NEW p \in Procs, Step(p) PROVE TypeOK'
  <2>1. CASE Acquire(p)
    <3>1. Entry(op[p].kind) \in {"rotate", "read", "recover"}
      BY DEF Entry
    <3>2. QED BY <2>1, <3>1 DEF Acquire, Goto, TypeOK, Locked, disk, ghost
  <2>2. CASE LockTimeout(p)
    BY <2>2, EmptySeq DEF LockTimeout, Goto, TypeOK, NoOp, disk, ghost
  <2>3. CASE RecoverNothing(p)
    BY <2>3 DEF RecoverNothing, Goto, TypeOK, Locked, disk, ghost
  <2>4. CASE RecoverTruncate(p)
    <3>1. SubSeq(ledger, 1, Archived) \in Seq(Event)
      BY VisibleType, SubSeqProperties, ElementOfSeq DEF TypeOK
    <3>2. QED BY <2>4, <3>1 DEF RecoverTruncate, Goto, TypeOK, Locked, ghost
  <2>5. CASE BeginLine(p)
    <3>1. goal[p][Len(ledger) + 1] \in Event
      BY <2>5, ElementOfSeq DEF BeginLine, TypeOK
    <3>2. QED BY <2>5, <3>1 DEF BeginLine, TypeOK, local, ghost
  <2>6. CASE EndLine(p)
    <3>1. goal[p][Len(ledger) + 1] \in Event
      BY <2>6, ElementOfSeq DEF EndLine, TypeOK
    <3>2. Append(ledger, goal[p][Len(ledger) + 1]) \in Seq(Event)
      BY <3>1 DEF TypeOK
    <3>3. QED BY <2>6, <3>2 DEF EndLine, TypeOK, local, ghost
  <2>7. CASE Rewritten(p)
    BY <2>7, EmptySeq DEF Rewritten, Goto, TypeOK, Locked, disk, ghost
  <2>8. CASE Written(p)
    BY <2>8, EmptySeq DEF Written, Goto, TypeOK, Locked, disk, ghost
  <2>9. CASE Refuse(p)
    BY <2>9 DEF Refuse, Goto, TypeOK, Locked, disk, ghost
  <2>10. CASE AnswerStored(p)
    <3>1. {ledger[i] : i \in FirstMatch(op[p].cmds[1])} \in SUBSET Event
      BY ElementOfSeq DEF FirstMatch, TypeOK
    <3>2. QED BY <2>10, <3>1 DEF AnswerStored, Goto, TypeOK, Locked, disk, ghost
  <2>11. CASE Build(p)
    <3> DEFINE s == Built(ledger, op[p].cmds, op[p].kind = "import")
    <3>1. op[p].cmds \in Seq(Command) /\ ledger \in Seq(Event)
      BY DEF TypeOK
    <3>2. s \in Seq(Event)
      BY <3>1, BuiltType
    <3>3. {s[i] : i \in (Len(ledger) + 1)..Len(s)} \in SUBSET Event
      BY <3>1, <3>2, ElementOfSeq
    <3>4. built + Len(op[p].cmds) \in Nat
      BY <3>1 DEF TypeOK
    <3> HIDE DEF s
    <3>5. /\ goal' = [goal EXCEPT ![p] = s]
          /\ res' = [res EXCEPT ![p] = {s[i] : i \in (Len(ledger) + 1)..Len(s)}]
          /\ built' = built + Len(op[p].cmds)
      BY <2>11 DEF Build, s
    <3>6. /\ pc' \in [Procs -> Locked \cup {"idle", "wait"}]
          /\ UNCHANGED <<disk, lock, op, ghost, scan, calls, faults>>
      BY <2>11 DEF Build, Goto, TypeOK, Locked
    <3>7. /\ goal' \in [Procs -> Seq(Event)]
          /\ res' \in [Procs -> SUBSET Event]
          /\ built' \in Nat
      BY <3>2, <3>3, <3>4, <3>5 DEF TypeOK
    <3>8. QED BY <3>6, <3>7 DEF TypeOK, disk, ghost
  <2>12. CASE RotateNothing(p)
    BY <2>12 DEF RotateNothing, Goto, TypeOK, Locked, disk, ghost
  <2>13. CASE RotateRename(p)
    <3>1. Visible \in Seq(Event) /\ Len(Visible) \in Nat
      BY VisibleType
    <3>2. Append(archives, [upto |-> Len(Visible), torn |-> tail = Torn])
            \in Seq([upto : Nat, torn : BOOLEAN])
      BY <3>1 DEF TypeOK
    <3>3. QED BY <2>13, <3>1, <3>2 DEF RotateRename, Goto, TypeOK, Locked, ghost
  <2>14. CASE RotateCreate(p)
    BY <2>14 DEF RotateCreate, Goto, TypeOK, Locked, ghost
  <2>15. CASE ReadVerified(p)
    <3>1. [out |-> Visible, loose |-> tail \in Event] \in [out : Seq(Event), loose : BOOLEAN]
      BY VisibleType
    <3>2. batch' \in [out : Seq(Event), loose : BOOLEAN]
      BY <2>15, <3>1 DEF ReadVerified, TypeOK
    <3>3. /\ pc' \in [Procs -> Locked \cup {"idle", "wait"}]
          /\ UNCHANGED <<disk, lock, op, goal, res, built, acked, scan, calls, faults>>
      BY <2>15 DEF ReadVerified, Goto, TypeOK, Locked
    <3>4. QED BY <3>2, <3>3 DEF TypeOK, disk
  <2>16. CASE Return(p)
    BY <2>16, EmptySeq DEF Return, Goto, TypeOK, NoOp, disk
  <2>17. QED
    BY <1>2, <2>1, <2>2, <2>3, <2>4, <2>5, <2>6, <2>7, <2>8, <2>9, <2>10,
       <2>11, <2>12, <2>13, <2>14, <2>15, <2>16 DEF Step
<1>3. ASSUME NEW p \in Procs, Fault(p) PROVE TypeOK'
  <2>1. CASE Kill(p)
    BY <2>1, EmptySeq, BoundAssumption DEF Kill, Goto, TypeOK, NoOp, disk, ghost
  <2>2. CASE WriteError(p)
    BY <2>2, EmptySeq, BoundAssumption DEF WriteError, Goto, TypeOK, Locked, disk, ghost
  <2>3. QED BY <1>3, <2>1, <2>2 DEF Fault
<1>4. ASSUME NEW v \in Verifiers, Verify(v) PROVE TypeOK'
  <2>1. CASE ListPartitions(v)
    <3> DEFINE r == [pc |-> "listing", parts |-> Len(archives), has |-> FALSE,
                     out |-> <<>>, loose |-> FALSE, ok |-> FALSE]
    <3>1. r \in [pc : {"idle", "listing", "reading", "done"},
                 parts : Nat, has : BOOLEAN,
                 out : Seq(Event), loose : BOOLEAN, ok : BOOLEAN]
      BY EmptySeq DEF TypeOK
    <3>2. /\ scan' = [scan EXCEPT ![v] = r]
          /\ UNCHANGED <<disk, lock, local, built, ghost, calls, faults>>
      BY <2>1 DEF ListPartitions
    <3> HIDE DEF r
    <3>3. QED BY <3>1, <3>2 DEF TypeOK, disk, local, ghost
  <2>2. CASE ListActive(v)
    BY <2>2 DEF ListActive, TypeOK, disk, local, ghost
  <2>3. CASE ReadListed(v)
    <3>1. SubSeq(ledger, 1, UpTo(scan[v].parts)) \in Seq(Event)
      <4>1. scan[v].parts \in 0..Len(archives)
        BY DEF PartitionInv, TypeOK
      <4>2. QED BY <4>1, VisibleType, SubSeqProperties, ElementOfSeq DEF TypeOK
    <3>2. SubSeq(Visible, Archived + 1, Len(Visible)) \in Seq(Event)
      BY VisibleType, SubSeqProperties, ElementOfSeq
    <3>3. Scanned(v) \in Seq(Event)
      BY <3>1, <3>2, ConcatProperties, EmptySeq DEF Scanned
    <3>4. (FilesOK(v) /\ ChainOK(Scanned(v))) \in BOOLEAN /\ Loose(v) \in BOOLEAN
      BY DEF FilesOK, ChainOK, Loose, TypeOK
    <3> DEFINE r == [scan[v] EXCEPT !.pc = "done", !.out = Scanned(v),
                                    !.loose = Loose(v), !.ok = FilesOK(v) /\ ChainOK(Scanned(v))]
    <3>5. r \in [pc : {"idle", "listing", "reading", "done"},
                 parts : Nat, has : BOOLEAN,
                 out : Seq(Event), loose : BOOLEAN, ok : BOOLEAN]
      BY <3>3, <3>4 DEF TypeOK
    <3>6. scan' = [scan EXCEPT ![v] = r]
      BY <2>3 DEF ReadListed, TypeOK
    <3> HIDE DEF r
    <3>7. UNCHANGED <<disk, lock, local, built, ghost, calls, faults>>
      BY <2>3 DEF ReadListed
    <3>8. QED BY <3>5, <3>6, <3>7 DEF TypeOK, disk, local, ghost
  <2>4. CASE EndScan(v)
    BY <2>4, EmptySeq DEF EndScan, TypeOK, NoScan, disk, local, ghost
  <2>5. QED BY <1>4, <2>1, <2>2, <2>3, <2>4 DEF Verify
<1>5. CASE UNCHANGED vars
  BY <1>5 DEF TypeOK, vars, disk, local, ghost
<1>6. QED BY <1>1, <1>2, <1>3, <1>4, <1>5 DEF Next

-----------------------------------------------------------------------------
(* Mutual exclusion.                                                       *)

LEMMA LockStep == BaseInv /\ [Next]_vars => LockExclusive'
<1> SUFFICES ASSUME TypeOK, LockExclusive, [Next]_vars PROVE LockExclusive'
  BY DEF BaseInv
<1> USE DEF LockExclusive
<1>1. ASSUME NEW p \in Procs, Request(p) PROVE LockExclusive'
  <2>1. ASSUME NEW o, Call(p, o) PROVE LockExclusive'
    BY <2>1 DEF Call, Goto, TypeOK, Locked
  <2>2. QED
    BY <1>1, <2>1 DEF Request, CallAppend, CallGoverned, CallImport, CallRotate, CallRead
<1>2. ASSUME NEW p \in Procs, Step(p) PROVE LockExclusive'
  <2>1. CASE Acquire(p)
    BY <2>1, ProcsAssumption DEF Acquire, Goto, TypeOK
  <2>2. CASE LockTimeout(p)
    BY <2>2 DEF LockTimeout, Goto, TypeOK, Locked
  <2>3. CASE Return(p)
    BY <2>3 DEF Return, Goto, TypeOK, Locked
  <2>4. CASE BeginLine(p) \/ EndLine(p)
    BY <2>4 DEF BeginLine, EndLine, local
  <2>5. CASE \/ RecoverNothing(p) \/ RecoverTruncate(p) \/ Rewritten(p) \/ Written(p)
             \/ Refuse(p) \/ AnswerStored(p) \/ Build(p) \/ RotateNothing(p)
             \/ RotateRename(p) \/ RotateCreate(p) \/ ReadVerified(p)
    <3>1. pc[p] \in Locked /\ lock' = lock
      BY <2>5 DEF RecoverNothing, RecoverTruncate, Rewritten, Written, Refuse,
                  AnswerStored, Build, RotateNothing, RotateRename, RotateCreate,
                  ReadVerified, Locked
    <3>2. \E l : Goto(p, l)
      BY <2>5 DEF RecoverNothing, RecoverTruncate, Rewritten, Written, Refuse,
                  AnswerStored, Build, RotateNothing, RotateRename, RotateCreate,
                  ReadVerified
    <3>3. QED BY <3>1, <3>2 DEF Goto, TypeOK
  <2>6. QED BY <1>2, <2>1, <2>2, <2>3, <2>4, <2>5 DEF Step
<1>3. ASSUME NEW p \in Procs, Fault(p) PROVE LockExclusive'
  <2>1. CASE Kill(p)
    BY <2>1 DEF Kill, Goto, TypeOK, Locked
  <2>2. CASE WriteError(p)
    BY <2>2 DEF WriteError, Goto, TypeOK, Locked
  <2>3. QED BY <1>3, <2>1, <2>2 DEF Fault
<1>4. ASSUME NEW v \in Verifiers, Verify(v) PROVE LockExclusive'
  BY <1>4 DEF Verify, ListPartitions, ListActive, ReadListed, EndScan, local
<1>5. CASE UNCHANGED vars
  BY <1>5 DEF vars, local
<1>6. QED BY <1>1, <1>2, <1>3, <1>4, <1>5 DEF Next

-----------------------------------------------------------------------------
(* The chain on disk, the chain about to be written, and what hangs off    *)
(* their ends.                                                             *)

(* Prefixes of a linked chain are linked.                                  *)
LEMMA LinkedPrefix ==
    ASSUME NEW s \in Seq(Event), NEW t \in Seq(Event), IsPrefixOf(s, t), Linked(t)
    PROVE  Linked(s)
<1>1. Len(s) \in Nat /\ Len(t) \in Nat
  OBVIOUS
<1>2. ASSUME NEW i \in 1..Len(s)
      PROVE  s[i].seq = i /\ s[i].prev = IF i = 1 THEN 0 ELSE s[i-1].uid
  <2>1. i \in 1..Len(t) /\ s[i] = t[i]
    BY <1>1 DEF IsPrefixOf
  <2>2. i # 1 => i-1 \in 1..Len(s) /\ s[i-1] = t[i-1]
    BY <1>1 DEF IsPrefixOf
  <2>3. QED BY <2>1, <2>2 DEF Linked
<1>3. QED BY <1>2 DEF Linked

(* A chain stays linked when an event that follows its last one is added.  *)
LEMMA LinkedAppend ==
    ASSUME NEW s \in Seq(Event), NEW e \in Event, Linked(s),
           e.seq = Len(s) + 1, e.prev = LastUid(s)
    PROVE  Linked(Append(s, e))
<1>1. Len(s) \in Nat /\ Len(Append(s, e)) = Len(s) + 1
  OBVIOUS
<1>2. \A i \in 1..Len(s) : Append(s, e)[i] = s[i]
  OBVIOUS
<1>3. Append(s, e)[Len(s) + 1] = e
  OBVIOUS
<1>4. ASSUME NEW i \in 1..(Len(s) + 1)
      PROVE  /\ Append(s, e)[i].seq = i
             /\ Append(s, e)[i].prev = IF i = 1 THEN 0 ELSE Append(s, e)[i-1].uid
  <2>1. CASE i \in 1..Len(s)
    <3>1. i # 1 => i-1 \in 1..Len(s)
      BY <1>1
    <3>2. QED BY <2>1, <3>1, <1>2 DEF Linked
  <2>2. CASE i = Len(s) + 1
    <3>1. LastUid(s) = IF i = 1 THEN 0 ELSE s[i-1].uid
      BY <2>2, <1>1, EmptySeq DEF LastUid
    <3>2. i # 1 => i-1 \in 1..Len(s)
      BY <1>1, <2>2
    <3>3. QED BY <2>2, <3>1, <3>2, <1>2, <1>3
  <2>3. QED BY <1>1, <2>1, <2>2
<1>5. QED BY <1>1, <1>4 DEF Linked

(* The events built for a call continue the chain they are built on.       *)
LEMMA LinkedBuilt ==
    ASSUME TypeOK, NEW s \in Seq(Event), NEW cs \in Seq(Command),
           NEW b \in BOOLEAN, Linked(s)
    PROVE  Linked(Built(s, cs, b))
<1> DEFINE t == Built(s, cs, b)
<1>1. /\ Len(s) \in Nat /\ Len(cs) \in Nat
      /\ Len(t) = Len(s) + Len(cs)
      /\ \A i \in 1..Len(s) : t[i] = s[i]
      /\ \A i \in 1..Len(cs) : t[Len(s) + i] = Made(s, cs, i, b)
  BY BuiltType
<1> HIDE DEF t
<1>2. ASSUME NEW i \in 1..Len(t)
      PROVE  t[i].seq = i /\ t[i].prev = IF i = 1 THEN 0 ELSE t[i-1].uid
  <2>1. CASE i <= Len(s)
    <3>1. i \in 1..Len(s) /\ (i # 1 => i-1 \in 1..Len(s))
      BY <1>1, <2>1
    <3>2. QED BY <3>1, <1>1 DEF Linked
  <2>2. CASE i = Len(s) + 1
    <3>1. 1 \in 1..Len(cs) /\ t[i] = Made(s, cs, 1, b)
      BY <1>1, <2>2
    <3>2. LastUid(s) = IF i = 1 THEN 0 ELSE s[i-1].uid
      BY <2>2, <1>1, EmptySeq DEF LastUid
    <3>3. i # 1 => i-1 \in 1..Len(s) /\ t[i-1] = s[i-1]
      BY <1>1, <2>2
    <3>4. QED BY <2>2, <3>1, <3>2, <3>3 DEF Made
  <2>3. CASE i > Len(s) + 1
    <3> DEFINE k == i - Len(s)
    <3>1. k \in 1..Len(cs) /\ k - 1 \in 1..Len(cs) /\ k # 1 /\ i = Len(s) + k
      BY <1>1, <2>3
    <3>2. t[i] = Made(s, cs, k, b) /\ t[i-1] = Made(s, cs, k-1, b)
      <4>1. k \in Int /\ i - 1 = Len(s) + (k-1)
        BY <1>1, <2>3
      <4>2. QED BY <1>1, <3>1, <4>1
    <3>3. QED BY <1>1, <2>3, <3>1, <3>2 DEF Made, TypeOK
  <2>4. QED BY <1>1, <2>1, <2>2, <2>3
<1>3. QED BY <1>2 DEF Linked, t

(* Steps that leave the files, the plans to write them and the partitions  *)
(* alone keep the invariant as long as no process starts to write.         *)
Undisturbed == UNCHANGED <<ledger, archives, tail>>

LEMMA QuietStep ==
    ASSUME BaseInv, TypeOK', Undisturbed,
           \A q \in Procs : pc'[q] \in {"rewrite", "write"} =>
                pc'[q] = pc[q] /\ goal'[q] = goal[q],
           \A q \in Procs : pc'[q] = "check" => pc[q] = "check" \/ tail = NoTail,
           \A v \in Verifiers : scan'[v].parts <= Len(archives)
    PROVE  /\ \A p \in Procs : WriterInv(p)'
           /\ TailInv' /\ PartitionInv' /\ Linked(ledger)'
<1>1. \A p \in Procs : WriterInv(p)'
  BY DEF BaseInv, WriterInv, IsPrefixOf, Linked, Undisturbed
<1>2. TailInv' /\ Linked(ledger)'
  BY DEF BaseInv, TailInv, Linked, LastUid, Undisturbed
<1>3. PartitionInv'
  BY DEF BaseInv, PartitionInv, Archived, UpTo, Undisturbed
<1>4. QED BY <1>1, <1>2, <1>3

LEMMA WriterStep ==
    BaseInv /\ [Next]_vars =>
        /\ \A p \in Procs : WriterInv(p)'
        /\ TailInv' /\ PartitionInv' /\ Linked(ledger)'
<1> DEFINE Goal == /\ \A p \in Procs : WriterInv(p)'
                   /\ TailInv' /\ PartitionInv' /\ Linked(ledger)'
<1> SUFFICES ASSUME BaseInv, [Next]_vars PROVE Goal
  OBVIOUS
<1>0. TypeOK'
  BY TypeStep
<1>a. \A v \in Verifiers : scan[v].parts <= Len(archives)
  BY DEF BaseInv, PartitionInv
<1>b. /\ \A p \in Procs : pc[p] \in Locked => lock = p
      /\ pc \in [Procs -> Locked \cup {"idle", "wait"}]
      /\ goal \in [Procs -> Seq(Event)]
      /\ ledger \in Seq(Event) /\ archives \in Seq([upto : Nat, torn : BOOLEAN])
      /\ Linked(ledger)
      /\ \A p \in Procs : WriterInv(p)
      /\ Len(ledger) \in Nat /\ Len(archives) \in Nat
  BY DEF BaseInv, LockExclusive, TypeOK
<1>1. ASSUME NEW p \in Procs, Request(p) PROVE Goal
  <2>1. ASSUME NEW o, Call(p, o) PROVE Goal
    BY <2>1, <1>0, <1>a, <1>b, QuietStep DEF Call, Goto, Undisturbed, disk
  <2>2. QED
    BY <1>1, <2>1 DEF Request, CallAppend, CallGoverned, CallImport, CallRotate, CallRead
<1>2. ASSUME NEW p \in Procs, Step(p) PROVE Goal
  <2>1. CASE Acquire(p)
    <3>1. Entry(op[p].kind) \in {"rotate", "read", "recover"}
      BY DEF Entry
    <3>2. QED BY <2>1, <3>1, <1>0, <1>a, <1>b, QuietStep DEF Acquire, Goto, Undisturbed, disk
  <2>2. CASE LockTimeout(p)
    BY <2>2, <1>0, <1>a, <1>b, QuietStep DEF LockTimeout, Goto, Undisturbed, disk
  <2>3. CASE RecoverNothing(p)
    BY <2>3, <1>0, <1>a, <1>b, QuietStep DEF RecoverNothing, Goto, Undisturbed, disk
  <2>7. CASE Rewritten(p)
    <3>1. tail = NoTail
      BY <2>7, <1>b DEF Rewritten, WriterInv
    <3>2. QED BY <2>7, <3>1, <1>0, <1>a, <1>b, QuietStep DEF Rewritten, Goto, Undisturbed, disk
  <2>8. CASE Written(p)
    BY <2>8, <1>0, <1>a, <1>b, QuietStep DEF Written, Goto, Undisturbed, disk
  <2>9. CASE Refuse(p)
    BY <2>9, <1>0, <1>a, <1>b, QuietStep DEF Refuse, Goto, Undisturbed, disk
  <2>10. CASE AnswerStored(p)
    BY <2>10, <1>0, <1>a, <1>b, QuietStep DEF AnswerStored, Goto, Undisturbed, disk
  <2>12. CASE RotateNothing(p)
    BY <2>12, <1>0, <1>a, <1>b, QuietStep DEF RotateNothing, Goto, Undisturbed, disk
  <2>14. CASE RotateCreate(p)
    BY <2>14, <1>0, <1>a, <1>b, QuietStep DEF RotateCreate, Goto, Undisturbed
  <2>15. CASE ReadVerified(p)
    BY <2>15, <1>0, <1>a, <1>b, QuietStep DEF ReadVerified, Goto, Undisturbed, disk
  <2>16. CASE Return(p)
    BY <2>16, <1>0, <1>a, <1>b, QuietStep DEF Return, Goto, Undisturbed, disk
  <2>4. CASE RecoverTruncate(p)
    <3>1. /\ Archived \in 0..Len(ledger)
          /\ Len(SubSeq(ledger, 1, Archived)) = Archived
          /\ \A i \in 1..Archived : SubSeq(ledger, 1, Archived)[i] = ledger[i]
      BY <1>b, VisibleType, SubSeqProperties, ElementOfSeq DEF BaseInv
    <3>2. /\ pc' = [pc EXCEPT ![p] = "rewrite"] /\ pc[p] = "recover"
          /\ goal' = [goal EXCEPT ![p] = ledger]
          /\ ledger' = SubSeq(ledger, 1, Archived) /\ tail' = NoTail
          /\ archives' = archives /\ scan' = scan
      BY <2>4 DEF RecoverTruncate, Goto
    <3>3. IsPrefixOf(ledger', ledger)
      BY <3>1, <3>2, <1>b DEF IsPrefixOf
    <3>4. Linked(ledger)'
      <4>1. ledger' \in Seq(Event)
        BY <1>0 DEF TypeOK
      <4>2. Linked(ledger')
        BY <3>3, <4>1, <1>b, LinkedPrefix
      <4>3. QED BY <4>2
    <3>5. WriterInv(p)'
      BY <3>2, <3>3, <1>b DEF WriterInv, IsPrefixOf, Linked
    <3>6. \A q \in Procs : WriterInv(q)'
      BY <3>2, <3>5, <1>b DEF WriterInv, Locked
    <3>7. TailInv'
      BY <3>2, TailAssumption DEF TailInv
    <3>8. Archived' = Archived
      BY <3>2 DEF Archived, UpTo
    <3>9. PartitionInv'
      BY <3>1, <3>2, <3>8, <1>a DEF PartitionInv, BaseInv
    <3>10. QED BY <3>4, <3>6, <3>7, <3>9
  <2>5. CASE BeginLine(p)
    <3>1. /\ pc[p] \in {"rewrite", "write"} /\ Len(ledger) < Len(goal[p])
          /\ tail' \in {Torn, goal[p][Len(ledger) + 1]}
          /\ UNCHANGED <<ledger, archives, pc, goal, scan>>
      BY <2>5 DEF BeginLine, local
    <3>2. \A q \in Procs : q # p => pc[q] \notin {"rewrite", "write", "check"}
      BY <3>1, <1>b DEF Locked
    <3>3. WriterInv(p)'
      BY <3>1, <1>b DEF WriterInv, IsPrefixOf, Linked
    <3>4. \A q \in Procs : WriterInv(q)'
      BY <3>1, <3>2, <3>3 DEF WriterInv
    <3>5. TailInv'
      <4>1. Len(ledger) + 1 \in 1..Len(goal[p]) /\ Len(goal[p]) \in Nat
        BY <3>1, <1>b
      <4>2. goal[p][Len(ledger) + 1].seq = Len(ledger) + 1
        BY <3>1, <4>1, <1>b DEF WriterInv, Linked
      <4>3. goal[p][Len(ledger) + 1].prev = LastUid(ledger)
        <5>1. CASE Len(ledger) = 0
          BY <5>1, <3>1, <4>1, <1>b, EmptySeq DEF WriterInv, Linked, LastUid
        <5>2. CASE Len(ledger) # 0
          <6>1. ledger # <<>> /\ Len(ledger) \in 1..Len(ledger)
            BY <5>2, <1>b
          <6>2. goal[p][Len(ledger)] = ledger[Len(ledger)]
            BY <3>1, <6>1, <1>b DEF WriterInv, IsPrefixOf
          <6>3. QED BY <3>1, <4>1, <5>2, <6>1, <6>2, <1>b DEF WriterInv, Linked, LastUid
        <5>3. QED BY <5>1, <5>2
      <4>4. QED BY <3>1, <4>2, <4>3, TailAssumption DEF TailInv, LastUid
    <3>6. PartitionInv' /\ Linked(ledger)'
      BY <3>1, <1>b DEF BaseInv, PartitionInv, Archived, UpTo, Linked
    <3>7. QED BY <3>4, <3>5, <3>6
  <2>6. CASE EndLine(p)
    <3>1. /\ pc[p] \in {"rewrite", "write"} /\ Len(ledger) < Len(goal[p])
          /\ ledger' = Append(ledger, goal[p][Len(ledger) + 1])
          /\ tail' = NoTail
          /\ UNCHANGED <<archives, pc, goal, scan>>
      BY <2>6 DEF EndLine, local
    <3>2. \A q \in Procs : q # p => pc[q] \notin {"rewrite", "write", "check"}
      BY <3>1, <1>b DEF Locked
    <3>3. /\ Len(ledger') = Len(ledger) + 1
          /\ \A i \in 1..Len(ledger) : ledger'[i] = ledger[i]
          /\ ledger'[Len(ledger) + 1] = goal[p][Len(ledger) + 1]
      BY <3>1, <1>b
    <3>4. goal[p] \in Seq(Event) /\ Len(goal[p]) \in Nat
      BY <1>b
    <3>5. IsPrefixOf(ledger', goal[p]) /\ Linked(goal[p])
      BY <3>1, <3>3, <3>4, <1>b DEF WriterInv, IsPrefixOf
    <3>6. Linked(ledger)'
      <4>1. ledger' \in Seq(Event)
        BY <1>0 DEF TypeOK
      <4>2. Linked(ledger')
        BY <3>4, <3>5, <4>1, LinkedPrefix
      <4>3. QED BY <4>2
    <3>7. WriterInv(p)'
      BY <3>1, <3>5 DEF WriterInv, IsPrefixOf, Linked
    <3>8. \A q \in Procs : WriterInv(q)'
      BY <3>1, <3>2, <3>7 DEF WriterInv
    <3>9. TailInv'
      BY <3>1, TailAssumption DEF TailInv
    <3>10. PartitionInv'
      <4>1. Archived' = Archived /\ Archived \in 0..Len(ledger)
        BY <3>1, VisibleType DEF Archived, UpTo, BaseInv
      <4>2. QED BY <3>1, <3>3, <4>1, <1>a, <1>b DEF BaseInv, PartitionInv
    <3>11. QED BY <3>6, <3>8, <3>9, <3>10
  <2>11. CASE Build(p)
    <3> DEFINE s == Built(ledger, op[p].cmds, op[p].kind = "import")
    <3>1. op[p].cmds \in Seq(Command)
      BY DEF TypeOK, BaseInv
    <3>2. /\ s \in Seq(Event)
          /\ Len(s) = Len(ledger) + Len(op[p].cmds)
          /\ \A i \in 1..Len(ledger) : s[i] = ledger[i]
      BY <3>1, <1>b, BuiltType DEF BaseInv
    <3>3. Linked(s) /\ IsPrefixOf(ledger, s)
      <4>1. TypeOK /\ (op[p].kind = "import") \in BOOLEAN
        BY DEF BaseInv
      <4>2. Linked(s)
        BY <4>1, <3>1, <1>b, LinkedBuilt
      <4>3. Len(op[p].cmds) \in Nat
        BY <3>1
      <4> HIDE DEF s
      <4>4. IsPrefixOf(ledger, s)
        BY <3>2, <4>3, <1>b DEF IsPrefixOf
      <4>5. QED BY <4>2, <4>4
    <3>4. /\ pc[p] = "check" /\ pc' = [pc EXCEPT ![p] = "write"]
          /\ goal' = [goal EXCEPT ![p] = s]
          /\ UNCHANGED <<ledger, archives, tail, scan>>
      BY <2>11 DEF Build, Goto, disk
    <3> HIDE DEF s
    <3>5. tail = NoTail
      BY <3>4, <1>b DEF WriterInv
    <3>6. \A q \in Procs : q # p => pc[q] \notin {"rewrite", "write", "check"}
      BY <3>4, <1>b DEF Locked
    <3>7. \A q \in Procs : WriterInv(q)'
      BY <3>3, <3>4, <3>5, <3>6, <1>b DEF WriterInv, IsPrefixOf, Linked
    <3>8. TailInv' /\ PartitionInv' /\ Linked(ledger)'
      BY <3>4 DEF BaseInv, TailInv, PartitionInv, Archived, UpTo, Linked, LastUid
    <3>9. QED BY <3>7, <3>8
  <2>13. CASE RotateRename(p)
    <3>1. /\ pc[p] = "rotate" /\ pc' = [pc EXCEPT ![p] = "create"]
          /\ ledger' = Visible /\ tail' = NoTail /\ scan' = scan
          /\ archives' = Append(archives, [upto |-> Len(Visible), torn |-> tail = Torn])
      BY <2>13 DEF RotateRename, Goto
    <3>2. \A q \in Procs : pc'[q] \notin {"rewrite", "write", "check"}
      BY <3>1, <1>b DEF Locked
    <3>3. \A q \in Procs : WriterInv(q)'
      BY <3>2 DEF WriterInv
    <3>4. Linked(Visible)
      BY <1>b, LinkedAppend DEF Visible, BaseInv, TailInv
    <3>5. /\ Len(archives') = Len(archives) + 1
          /\ \A k \in 1..Len(archives) : archives'[k] = archives[k]
          /\ archives'[Len(archives) + 1].upto = Len(Visible)
      BY <3>1, <1>b
    <3>6. Archived' = Len(Visible)
      BY <3>5, <1>b DEF Archived, UpTo
    <3>7. /\ Archived \in 0..Len(ledger) /\ Len(ledger) <= Len(Visible)
          /\ Len(Visible) \in Nat
      BY VisibleType DEF BaseInv
    <3>8. \A k \in 1..Len(archives) : archives[k].upto \in Nat /\ archives[k].upto <= Archived
      <4>1. \A k \in 1..Len(archives) : archives[k] \in [upto : Nat, torn : BOOLEAN]
        BY <1>b, ElementOfSeq
      <4>2. \A k \in 1..Len(archives) : archives[k].upto <= Archived
        BY DEF BaseInv, PartitionInv
      <4>3. QED BY <4>1, <4>2
    <3>9. \A k \in 1..Len(archives') : archives'[k].upto <= Len(Visible)
      <4>1. ASSUME NEW k \in 1..Len(archives') PROVE archives'[k].upto <= Len(Visible)
        <5>1. CASE k = Len(archives) + 1
          BY <5>1, <3>5, <3>7
        <5>2. CASE k # Len(archives) + 1
          <6>1. k \in 1..Len(archives)
            BY <5>2, <3>5, <1>b
          <6>2. archives'[k].upto \in Nat /\ archives'[k].upto <= Archived
            BY <6>1, <3>5, <3>8
          <6>3. QED BY <6>2, <3>7
        <5>3. QED BY <5>1, <5>2
      <4>2. QED BY <4>1
    <3>10. \A v \in Verifiers : scan[v].parts \in Nat
      BY DEF BaseInv, TypeOK
    <3>11. PartitionInv'
      BY <3>1, <3>5, <3>6, <3>7, <3>9, <3>10, <1>a, <1>b DEF PartitionInv
    <3>12. TailInv'
      BY <3>1, TailAssumption DEF TailInv
    <3>13. Linked(ledger)'
      BY <3>1, <3>4 DEF Linked
    <3>14. QED BY <3>3, <3>11, <3>12, <3>13
  <2>17. QED
    BY <1>2, <2>1, <2>2, <2>3, <2>4, <2>5, <2>6, <2>7, <2>8, <2>9, <2>10,
       <2>11, <2>12, <2>13, <2>14, <2>15, <2>16 DEF Step
<1>3. ASSUME NEW p \in Procs, Fault(p) PROVE Goal
  <2>1. CASE Kill(p)
    BY <2>1, <1>0, <1>a, <1>b, QuietStep DEF Kill, Goto, Undisturbed, disk
  <2>2. CASE WriteError(p)
    BY <2>2, <1>0, <1>a, <1>b, QuietStep DEF WriteError, Goto, Undisturbed, disk
  <2>3. QED BY <1>3, <2>1, <2>2 DEF Fault
<1>4. ASSUME NEW v \in Verifiers, Verify(v) PROVE Goal
  <2>1. \A w \in Verifiers : scan'[w].parts <= Len(archives)
    <3>1. \/ scan'[v].parts = Len(archives)
          \/ scan'[v].parts = scan[v].parts
          \/ scan'[v].parts = 0
      <4>1. scan \in [Verifiers -> [pc : {"idle", "listing", "reading", "done"},
                    parts : Nat, has : BOOLEAN,
                    out : Seq(Event), loose : BOOLEAN, ok : BOOLEAN]]
        BY DEF BaseInv, TypeOK
      <4>2. CASE ListPartitions(v)
        BY <4>1, <4>2 DEF ListPartitions
      <4>3. CASE ListActive(v)
        BY <4>1, <4>3 DEF ListActive
      <4>4. CASE ReadListed(v)
        BY <4>1, <4>4 DEF ReadListed
      <4>5. CASE EndScan(v)
        BY <4>1, <4>5 DEF EndScan, NoScan
      <4>6. QED BY <1>4, <4>2, <4>3, <4>4, <4>5 DEF Verify
    <3>2. \A w \in Verifiers : w # v => scan'[w] = scan[w]
      BY <1>4 DEF Verify, ListPartitions, ListActive, ReadListed, EndScan, BaseInv, TypeOK
    <3>3. Len(archives) \in Nat
      BY <1>b
    <3>4. scan'[v].parts <= Len(archives)
      BY <3>1, <3>3, <1>a
    <3>5. QED BY <3>2, <3>4, <1>a
  <2>2. UNCHANGED <<disk, local>>
    BY <1>4 DEF Verify, ListPartitions, ListActive, ReadListed, EndScan
  <2>3. QED BY <2>1, <2>2, <1>0, QuietStep DEF disk, local, Undisturbed
<1>5. CASE UNCHANGED vars
  BY <1>5, <1>0, <1>a, <1>b, QuietStep DEF vars, disk, local, Undisturbed
<1>6. QED BY <1>1, <1>2, <1>3, <1>4, <1>5 DEF Next

(* The inductive invariant holds in every reachable state.                 *)
THEOREM BaseInvariant == Spec => []BaseInv
<1>1. BaseInv /\ [Next]_vars => BaseInv'
  BY TypeStep, LockStep, WriterStep DEF BaseInv
<1>2. QED BY InitBase, <1>1, PTL DEF Spec

(* Every variable keeps its type, for every number of processes, calls and *)
(* faults.                                                                 *)
THEOREM TypeCorrect == Spec => []TypeOK
<1>1. BaseInv => TypeOK
  BY DEF BaseInv
<1>2. QED BY BaseInvariant, <1>1, PTL

(* project_lock admits at most one process at a time.                      *)
THEOREM LockExcludes == Spec => []LockExclusive
<1>1. BaseInv => LockExclusive
  BY DEF BaseInv
<1>2. QED BY BaseInvariant, <1>1, PTL

(* While a repair runs, the ledger's content is what the repair is putting *)
(* back; otherwise it is what is on disk.                                  *)
ContentMeaning ==
    /\ \A p \in Procs : pc[p] = "rewrite" => Content = goal[p]
    /\ (\A p \in Procs : pc[p] # "rewrite") => Content = ledger

LEMMA ContentIs == LockExclusive => ContentMeaning
<1> SUFFICES ASSUME LockExclusive PROVE ContentMeaning
  OBVIOUS
<1>1. ASSUME NEW p \in Procs, pc[p] = "rewrite" PROVE Content = goal[p]
  <2>1. \A q \in Procs : pc[q] = "rewrite" => q = p
    BY <1>1 DEF LockExclusive, Locked
  <2>2. QED BY <1>1, <2>1 DEF Content
<1>2. QED BY <1>1 DEF Content, ContentMeaning

(* Sequence numbers have no gaps and every event carries the hash of the   *)
(* event before it, at every moment of every repair, import and rotation,  *)
(* and wherever a kill may strike.                                         *)
THEOREM ChainNeverBreaks == Spec => [](Linked(Content) /\ Linked(ledger))
<1>1. BaseInv => Linked(Content) /\ Linked(ledger)
  <2> SUFFICES ASSUME BaseInv PROVE Linked(Content) /\ Linked(ledger)
    OBVIOUS
  <2>1. CASE \E p \in Procs : pc[p] = "rewrite"
    BY <2>1, ContentIs DEF BaseInv, ContentMeaning, WriterInv
  <2>2. CASE \A p \in Procs : pc[p] # "rewrite"
    BY <2>2, ContentIs DEF BaseInv, ContentMeaning
  <2>3. QED BY <2>1, <2>2
<1>2. QED BY BaseInvariant, <1>1, PTL

LEMMA ContentIsNext ==
    LockExclusive' =>
        /\ \A p \in Procs : pc'[p] = "rewrite" => Content' = goal'[p]
        /\ (\A p \in Procs : pc'[p] # "rewrite") => Content' = ledger'
<1>1. LockExclusive' => ContentMeaning'
  BY ContentIs, PTL
<1>2. QED BY <1>1 DEF ContentMeaning

-----------------------------------------------------------------------------
(* Nothing that was acknowledged is lost.                                  *)

(* What the steps below take from the invariant.                           *)
LEMMA BaseFacts ==
    ASSUME BaseInv
    PROVE  /\ \A p \in Procs : pc[p] \in Locked => lock = p
           /\ pc \in [Procs -> Locked \cup {"idle", "wait"}]
           /\ goal \in [Procs -> Seq(Event)]
           /\ ledger \in Seq(Event) /\ Len(ledger) \in Nat
           /\ \A p \in Procs : WriterInv(p)
BY DEF BaseInv, LockExclusive, TypeOK

LEMMA ContentType == BaseInv => Content \in Seq(Event)
<1> SUFFICES ASSUME BaseInv PROVE Content \in Seq(Event)
  OBVIOUS
<1>1. goal \in [Procs -> Seq(Event)] /\ ledger \in Seq(Event) /\ ContentMeaning
  BY BaseFacts, ContentIs DEF BaseInv
<1>2. QED BY <1>1 DEF ContentMeaning

LEMMA ContentTypeNext == BaseInv' => Content' \in Seq(Event)
<1>1. BaseInv' => (Content \in Seq(Event))'
  BY ContentType, PTL
<1>2. QED BY <1>1

LEMMA PrefixReflexive == \A s \in Seq(Event) : IsPrefixOf(s, s)
BY DEF IsPrefixOf

(* No step takes an event out of the ledger or changes one, provided that  *)
(* no repair is interrupted.                                               *)
LEMMA ContentGrows ==
    ASSUME RepairIsUninterrupted
    PROVE  BaseInv /\ BaseInv' /\ [Next]_vars => IsPrefixOf(Content, Content')
<1> SUFFICES ASSUME BaseInv, BaseInv', [Next]_vars
             PROVE  IsPrefixOf(Content, Content')
  OBVIOUS
<1>0. /\ \A p \in Procs : pc[p] \in Locked => lock = p
      /\ pc \in [Procs -> Locked \cup {"idle", "wait"}]
      /\ goal \in [Procs -> Seq(Event)]
      /\ ledger \in Seq(Event) /\ Len(ledger) \in Nat
      /\ \A p \in Procs : WriterInv(p)
  BY BaseFacts
<1>a. LockExclusive /\ LockExclusive'
  BY DEF BaseInv
<1>1. CASE \A p \in Procs : pc[p] # "rewrite"
  <2>1. Content = ledger
    BY <1>1, <1>a, ContentIs DEF ContentMeaning
  <2>2. ASSUME \A q \in Procs : pc'[q] # "rewrite", IsPrefixOf(ledger, ledger')
        PROVE  IsPrefixOf(Content, Content')
    BY <2>1, <2>2, <1>a, ContentIsNext
  <2>3. IsPrefixOf(ledger, ledger)
    BY <1>0, PrefixReflexive
  <2>4. ASSUME NEW p \in Procs, Request(p) PROVE IsPrefixOf(Content, Content')
    <3>1. ledger' = ledger /\ pc' = [pc EXCEPT ![p] = "wait"]
      BY <2>4 DEF Request, CallAppend, CallGoverned, CallImport, CallRotate,
                  CallRead, Call, Goto, disk
    <3>2. QED BY <3>1, <2>2, <2>3, <1>1, <1>0
  <2>5. ASSUME NEW p \in Procs, Step(p) PROVE IsPrefixOf(Content, Content')
    <3>1. CASE RecoverTruncate(p)
      <4>1. pc'[p] = "rewrite" /\ goal'[p] = ledger
        BY <3>1, <1>0 DEF RecoverTruncate, Goto
      <4>2. QED BY <4>1, <2>1, <2>3, <1>a, ContentIsNext
    <3>2. CASE BeginLine(p) \/ EndLine(p)
      <4>1. pc' = pc
        BY <3>2 DEF BeginLine, EndLine, local
      <4>2. IsPrefixOf(ledger, ledger')
        <5>1. ledger' = ledger \/ \E e : ledger' = Append(ledger, e)
          BY <3>2 DEF BeginLine, EndLine
        <5>2. QED BY <5>1, <2>3, <1>0 DEF IsPrefixOf
      <4>3. QED BY <4>1, <4>2, <2>2, <1>1
    <3>3. CASE RotateRename(p)
      <4>1. ledger' = Visible /\ pc' = [pc EXCEPT ![p] = "create"]
        BY <3>3 DEF RotateRename, Goto
      <4>2. IsPrefixOf(ledger, Visible)
        BY <1>0, <2>3 DEF Visible, IsPrefixOf
      <4>3. QED BY <4>1, <4>2, <2>2, <1>1, <1>0
    <3>4. CASE Acquire(p)
      <4>1. Entry(op[p].kind) # "rewrite"
        BY DEF Entry
      <4>2. QED BY <3>4, <4>1, <2>2, <2>3, <1>1, <1>0 DEF Acquire, Goto, disk
    <3>5. CASE \/ LockTimeout(p) \/ RecoverNothing(p) \/ Rewritten(p) \/ Written(p)
               \/ Refuse(p) \/ AnswerStored(p) \/ Build(p) \/ RotateNothing(p)
               \/ RotateCreate(p) \/ ReadVerified(p) \/ Return(p)
      <4>1. ledger' = ledger
        BY <3>5 DEF LockTimeout, RecoverNothing, Rewritten, Written, Refuse, AnswerStored,
              Build, RotateNothing, RotateCreate, ReadVerified, Return, disk
      <4>2. \E l \in {"idle", "check", "ret", "fail", "write"} : pc' = [pc EXCEPT ![p] = l]
        BY <3>5 DEF LockTimeout, RecoverNothing, Rewritten, Written, Refuse, AnswerStored,
              Build, RotateNothing, RotateCreate, ReadVerified, Return, Goto
      <4>3. QED BY <4>1, <4>2, <2>2, <2>3, <1>1, <1>0
    <3>6. QED BY <2>5, <3>1, <3>2, <3>3, <3>4, <3>5 DEF Step
  <2>6. ASSUME NEW p \in Procs, Fault(p) PROVE IsPrefixOf(Content, Content')
    <3>1. ledger' = ledger /\ \E l \in {"idle", "fail"} : pc' = [pc EXCEPT ![p] = l]
      BY <2>6 DEF Fault, Kill, WriteError, Goto, disk
    <3>2. QED BY <3>1, <2>2, <2>3, <1>1, <1>0
  <2>7. ASSUME NEW v \in Verifiers, Verify(v) PROVE IsPrefixOf(Content, Content')
    <3>1. ledger' = ledger /\ pc' = pc
      BY <2>7 DEF Verify, ListPartitions, ListActive, ReadListed, EndScan, disk, local
    <3>2. QED BY <3>1, <2>2, <2>3, <1>1
  <2>8. CASE UNCHANGED vars
    BY <2>8, <2>2, <2>3, <1>1 DEF vars, disk, local
  <2>9. QED BY <2>4, <2>5, <2>6, <2>7, <2>8 DEF Next
<1>2. CASE \E p \in Procs : pc[p] = "rewrite"
  <2> PICK p \in Procs : pc[p] = "rewrite"
    BY <1>2
  <2>1. Content = goal[p]
    BY <1>a, ContentIs DEF ContentMeaning
  <2>2. IsPrefixOf(goal[p], goal[p])
    BY <1>0, PrefixReflexive
  <2>3. ASSUME pc'[p] = "rewrite", goal'[p] = goal[p]
        PROVE  IsPrefixOf(Content, Content')
    BY <2>1, <2>2, <2>3, <1>a, ContentIsNext
  <2>4. \A q \in Procs : pc[q] \in Locked => q = p
    BY <1>0 DEF Locked
  <2>5. ASSUME NEW q \in Procs, Request(q) PROVE IsPrefixOf(Content, Content')
    <3>1. pc[q] = "idle" /\ pc' = [pc EXCEPT ![q] = "wait"] /\ goal' = goal
      BY <2>5 DEF Request, CallAppend, CallGoverned, CallImport, CallRotate,
                  CallRead, Call, Goto
    <3>2. QED BY <3>1, <2>3, <1>0
  <2>6. ASSUME NEW q \in Procs, Step(q) PROVE IsPrefixOf(Content, Content')
    <3>1. CASE Rewritten(q)
      <4>1. q = p
        BY <3>1, <2>4 DEF Rewritten, Locked
      <4>2. ledger = goal[p]
        <5>1. Len(ledger) = Len(goal[p])
          BY <3>1, <4>1 DEF Rewritten
        <5>2. \A i \in 1..Len(ledger) : ledger[i] = goal[p][i]
          BY <1>0 DEF WriterInv, IsPrefixOf
        <5>3. QED BY <5>1, <5>2, <1>0, SeqEqual
      <4>3. ledger' = ledger /\ pc' = [pc EXCEPT ![p] = "check"]
        BY <3>1, <4>1 DEF Rewritten, Goto, disk
      <4>4. \A r \in Procs : pc'[r] # "rewrite"
        BY <4>3, <2>4, <1>0 DEF Locked
      <4>5. QED BY <4>2, <4>3, <4>4, <2>1, <2>2, <1>a, ContentIsNext
    <3>2. CASE BeginLine(q) \/ EndLine(q)
      BY <3>2, <2>3 DEF BeginLine, EndLine, local
    <3>3. CASE Acquire(q) \/ LockTimeout(q)
      BY <3>3, <2>3, <1>0 DEF Acquire, LockTimeout, Goto
    <3>4. CASE \/ RecoverNothing(q) \/ RecoverTruncate(q) \/ Written(q)
               \/ Refuse(q) \/ AnswerStored(q) \/ Build(q) \/ RotateNothing(q)
               \/ RotateRename(q) \/ RotateCreate(q) \/ ReadVerified(q) \/ Return(q)
      <4>1. pc[q] \in Locked /\ pc[q] # "rewrite"
        BY <3>4 DEF RecoverNothing, RecoverTruncate, Written, Refuse, AnswerStored, Build,
              RotateNothing, RotateRename, RotateCreate, ReadVerified, Return, Locked
      <4>2. QED BY <4>1, <2>4
    <3>5. QED BY <2>6, <3>1, <3>2, <3>3, <3>4 DEF Step
  <2>7. ASSUME NEW q \in Procs, Fault(q) PROVE IsPrefixOf(Content, Content')
    <3>1. pc[q] \in FaultPoints
      BY <2>7 DEF Fault, Kill, WriteError
    <3>2. q # p
      BY <3>1 DEF RepairIsUninterrupted
    <3>3. pc'[p] = pc[p] /\ goal'[p] = goal[p]
      BY <2>7, <3>2, <1>0 DEF Fault, Kill, WriteError, Goto
    <3>4. QED BY <3>3, <2>3
  <2>8. ASSUME NEW v \in Verifiers, Verify(v) PROVE IsPrefixOf(Content, Content')
    BY <2>8, <2>3 DEF Verify, ListPartitions, ListActive, ReadListed, EndScan, local
  <2>9. CASE UNCHANGED vars
    BY <2>9, <2>3 DEF vars, local
  <2>10. QED BY <2>5, <2>6, <2>7, <2>8, <2>9 DEF Next
<1>3. QED BY <1>1, <1>2

LEMMA AtPrefix ==
    ASSUME NEW s \in Seq(Event), NEW t \in Seq(Event), IsPrefixOf(s, t)
    PROVE  \A e : At(e, s) => At(e, t)
BY DEF IsPrefixOf, At

(* The content of the ledger only ever grows.                              *)
THEOREM HistoryIsAppendOnly ==
    ASSUME RepairIsUninterrupted
    PROVE  Spec => [][IsPrefixOf(Content, Content')]_vars
<1>1. BaseInv /\ BaseInv' /\ [Next]_vars => [IsPrefixOf(Content, Content')]_vars
  BY ContentGrows
<1>2. QED BY <1>1, BaseInvariant, PTL DEF Spec

(* What a call is going to return is in the ledger by the time it returns. *)
LEMMA ResultStep ==
    BaseInv /\ BaseInv' /\ (\A p \in Procs : ResultInv(p)) /\ [Next]_vars
        => \A p \in Procs : ResultInv(p)'
<1> SUFFICES ASSUME BaseInv, BaseInv', \A p \in Procs : ResultInv(p), [Next]_vars,
                    NEW q \in Procs
             PROVE  ResultInv(q)'
  OBVIOUS
<1>0. /\ \A p \in Procs : pc[p] \in Locked => lock = p
      /\ pc \in [Procs -> Locked \cup {"idle", "wait"}]
      /\ goal \in [Procs -> Seq(Event)]
      /\ ledger \in Seq(Event) /\ Len(ledger) \in Nat
      /\ \A p \in Procs : WriterInv(p)
  BY BaseFacts
<1>a. res \in [Procs -> SUBSET Event]
  BY DEF BaseInv, TypeOK
<1>b. ResultInv(q)
  OBVIOUS
<1>c. ASSUME pc'[q] = pc[q], goal'[q] = goal[q], res'[q] = res[q],
             pc[q] = "ret" => ledger' = ledger
      PROVE  ResultInv(q)'
  BY <1>b, <1>c DEF ResultInv, At
<1>d. ASSUME pc'[q] \notin {"write", "ret", "fail"}, res'[q] = {}
      PROVE  ResultInv(q)'
  BY <1>d DEF ResultInv
<1>e. ASSUME pc'[q] = "fail"
      PROVE  ResultInv(q)'
  BY <1>e DEF ResultInv
<1>1. ASSUME NEW p \in Procs, Request(p) PROVE ResultInv(q)'
  <2>1. /\ pc[p] = "idle" /\ pc' = [pc EXCEPT ![p] = "wait"]
        /\ UNCHANGED <<ledger, goal, res>>
    BY <1>1 DEF Request, CallAppend, CallGoverned, CallImport, CallRotate,
                CallRead, Call, Goto, disk
  <2>2. CASE p = q
    BY <2>1, <2>2, <1>0, <1>b, <1>d DEF ResultInv
  <2>3. CASE p # q
    BY <2>1, <2>3, <1>0, <1>c
  <2>4. QED BY <2>2, <2>3
<1>2. ASSUME NEW p \in Procs, Step(p) PROVE ResultInv(q)'
  <2>1. CASE p # q
    <3>1. pc[p] \in Locked => pc[q] \notin Locked
      BY <1>0, <2>1
    <3>2. CASE pc[p] = "wait"
      <4>1. UNCHANGED <<ledger, goal, res>> /\ pc'[q] = pc[q]
        BY <1>2, <3>2, <2>1, <1>0
           DEF Step, Acquire, LockTimeout, RecoverNothing, RecoverTruncate, BeginLine,
               EndLine, Rewritten, Written, Refuse, AnswerStored, Build, RotateNothing,
               RotateRename, RotateCreate, ReadVerified, Return, Goto, disk
      <4>2. QED BY <4>1, <1>c
    <3>3. CASE pc[p] # "wait"
      <4>1. pc[p] \in Locked
        BY <1>2, <3>3
           DEF Step, Acquire, LockTimeout, RecoverNothing, RecoverTruncate, BeginLine,
               EndLine, Rewritten, Written, Refuse, AnswerStored, Build, RotateNothing,
               RotateRename, RotateCreate, ReadVerified, Return, Locked
      <4>2. pc'[q] = pc[q] /\ goal'[q] = goal[q] /\ res'[q] = res[q]
        BY <1>2, <2>1, <1>0, <1>a
           DEF Step, Acquire, LockTimeout, RecoverNothing, RecoverTruncate, BeginLine,
               EndLine, Rewritten, Written, Refuse, AnswerStored, Build, RotateNothing,
               RotateRename, RotateCreate, ReadVerified, Return, Goto, local
      <4>3. QED BY <4>1, <4>2, <3>1, <1>c DEF Locked
    <3>4. QED BY <3>2, <3>3
  <2>2. CASE p = q
    <3>1. CASE Acquire(q)
      <4>1. Entry(op[q].kind) \in {"rotate", "read", "recover"}
        BY DEF Entry
      <4>2. QED BY <3>1, <4>1, <1>0, <1>b, <1>d DEF Acquire, Goto, ResultInv
    <3>2. CASE \/ LockTimeout(q) \/ RecoverNothing(q) \/ RecoverTruncate(q) \/ Rewritten(q)
      BY <3>2, <1>0, <1>b, <1>d
         DEF LockTimeout, RecoverNothing, RecoverTruncate, Rewritten, Goto, ResultInv
    <3>3. CASE BeginLine(q) \/ EndLine(q)
      BY <3>3, <1>c DEF BeginLine, EndLine, local
    <3>4. CASE Written(q)
      <4>1. ledger = goal[q]
        <5>1. Len(ledger) = Len(goal[q]) /\ pc[q] = "write"
          BY <3>4 DEF Written
        <5>2. \A i \in 1..Len(ledger) : ledger[i] = goal[q][i]
          BY <5>1, <1>0 DEF WriterInv, IsPrefixOf
        <5>3. QED BY <5>1, <5>2, <1>0, SeqEqual
      <4>2. /\ pc[q] = "write" /\ pc'[q] = "ret"
            /\ ledger' = ledger /\ res' = res
        BY <3>4, <1>0 DEF Written, Goto, disk
      <4>3. QED BY <4>1, <4>2, <1>b DEF ResultInv, At
    <3>5. CASE Refuse(q)
      BY <3>5, <1>0, <1>e DEF Refuse, Goto
    <3>6. CASE AnswerStored(q)
      <4>1. /\ pc'[q] = "ret" /\ ledger' = ledger
            /\ res'[q] = {ledger[i] : i \in FirstMatch(op[q].cmds[1])}
        BY <3>6, <1>0, <1>a DEF AnswerStored, Goto, disk
      <4>2. \A i \in 1..Len(ledger) : At(ledger[i], ledger)
        BY DEF BaseInv, Linked, At
      <4>3. QED BY <4>1, <4>2 DEF ResultInv, FirstMatch, At
    <3>7. CASE Build(q)
      <4> DEFINE s == Built(ledger, op[q].cmds, op[q].kind = "import")
      <4>1. /\ pc'[q] = "write" /\ goal'[q] = s
            /\ res'[q] = {s[i] : i \in (Len(ledger) + 1)..Len(s)}
        BY <3>7, <1>0, <1>a DEF Build, Goto
      <4>2. Linked(s) /\ Len(s) \in Nat
        <5>1. /\ TypeOK /\ op[q].cmds \in Seq(Command) /\ Linked(ledger)
              /\ (op[q].kind = "import") \in BOOLEAN
          BY DEF BaseInv, TypeOK
        <5>2. Linked(s)
          BY <5>1, <1>0, LinkedBuilt
        <5>3. s \in Seq(Event)
          BY <5>1, <1>0, BuiltType
        <5>4. QED BY <5>2, <5>3
      <4> HIDE DEF s
      <4>3. \A i \in (Len(ledger) + 1)..Len(s) : At(s[i], s)
        BY <4>2, <1>0 DEF Linked, At
      <4>4. QED BY <4>1, <4>3 DEF ResultInv, At
    <3>8. CASE \/ RotateNothing(q) \/ RotateCreate(q) \/ ReadVerified(q)
      <4>1. /\ pc[q] \in {"rotate", "create", "read"} /\ res' = res
            /\ pc'[q] \in {"ret", "fail"}
        BY <3>8, <1>0 DEF RotateNothing, RotateCreate, ReadVerified, Goto
      <4>2. QED BY <4>1, <1>b DEF ResultInv
    <3>9. CASE RotateRename(q)
      BY <3>9, <1>0, <1>b, <1>d DEF RotateRename, Goto, ResultInv
    <3>10. CASE Return(q)
      BY <3>10, <1>0, <1>a, <1>d DEF Return, Goto
    <3>11. QED
      BY <1>2, <2>2, <3>1, <3>2, <3>3, <3>4, <3>5, <3>6, <3>7, <3>8, <3>9, <3>10 DEF Step
  <2>3. QED BY <2>1, <2>2
<1>3. ASSUME NEW p \in Procs, Fault(p) PROVE ResultInv(q)'
  <2>1. CASE p = q /\ Kill(p)
    BY <2>1, <1>0, <1>a, <1>d DEF Kill, Goto
  <2>2. CASE p = q /\ WriteError(p)
    BY <2>2, <1>0, <1>e DEF WriteError, Goto
  <2>3. CASE p # q
    BY <1>3, <2>3, <1>0, <1>a, <1>c DEF Fault, Kill, WriteError, Goto, disk
  <2>4. QED BY <1>3, <2>1, <2>2, <2>3 DEF Fault
<1>4. ASSUME NEW v \in Verifiers, Verify(v) PROVE ResultInv(q)'
  BY <1>4, <1>c DEF Verify, ListPartitions, ListActive, ReadListed, EndScan, disk, local
<1>5. CASE UNCHANGED vars
  BY <1>5, <1>c DEF vars, disk, local
<1>6. QED BY <1>1, <1>2, <1>3, <1>4, <1>5 DEF Next

(* An acknowledged event stays where its sequence number says it is.       *)
LEMMA DurableStep ==
    ASSUME RepairIsUninterrupted
    PROVE  BaseInv /\ BaseInv' /\ DurableInv /\ [Next]_vars => AckedDurable'
<1> SUFFICES ASSUME BaseInv, BaseInv', DurableInv, [Next]_vars PROVE AckedDurable'
  OBVIOUS
<1>1. IsPrefixOf(Content, Content')
  BY ContentGrows
<1>2. \A e : At(e, Content) => At(e, Content')
  <2>1. Content \in Seq(Event) /\ Content' \in Seq(Event)
    BY ContentType, ContentTypeNext
  <2>2. QED BY <1>1, <2>1, AtPrefix
<1>3. \A e \in acked : At(e, Content')
  BY <1>2 DEF DurableInv, AckedDurable
<1>4. CASE acked' = acked
  BY <1>3, <1>4 DEF AckedDurable
<1>5. ASSUME NEW p \in Procs, Return(p) PROVE AckedDurable'
  <2>1. CASE pc[p] = "ret"
    <3>1. \A q \in Procs : pc[q] # "rewrite"
      BY <2>1, BaseFacts DEF Locked
    <3>2. Content = ledger
      BY <3>1, ContentIs DEF BaseInv, ContentMeaning
    <3>3. \A e \in res[p] : At(e, Content)
      BY <2>1, <3>2 DEF DurableInv, ResultInv
    <3>4. acked' = acked \cup res[p]
      BY <1>5, <2>1 DEF Return
    <3>5. QED BY <3>3, <3>4, <1>2, <1>3 DEF AckedDurable
  <2>2. CASE pc[p] # "ret"
    BY <1>4, <1>5, <2>2 DEF Return
  <2>3. QED BY <2>1, <2>2
<1>6. (\A p \in Procs : ~Return(p)) => acked' = acked
  BY DEF Next, Request, CallAppend, CallGoverned, CallImport, CallRotate, CallRead, Call,
         Step, Acquire, LockTimeout, RecoverNothing, RecoverTruncate, BeginLine, EndLine,
         Rewritten, Written, Refuse, AnswerStored, Build, RotateNothing, RotateRename,
         RotateCreate, ReadVerified, Fault, Kill, WriteError, Verify, ListPartitions,
         ListActive, ReadListed, EndScan, vars, ghost
<1>7. QED BY <1>4, <1>5, <1>6

(* Whatever a call returned to its caller is in the ledger for good, at    *)
(* its own sequence number, through every append, import, rotation, kill   *)
(* and write error, unless a repair is interrupted (recover_torn_tail).    *)
THEOREM AckedNeverLost ==
    ASSUME RepairIsUninterrupted
    PROVE  Spec => []AckedDurable
<1>1. Init => DurableInv
  BY DEF Init, DurableInv, ResultInv, AckedDurable
<1>2. BaseInv /\ BaseInv' /\ DurableInv /\ [Next]_vars => DurableInv'
  BY ResultStep, DurableStep DEF DurableInv
<1>3. DurableInv => AckedDurable
  BY DEF DurableInv
<1>4. QED BY <1>1, <1>2, <1>3, BaseInvariant, PTL DEF Spec

-----------------------------------------------------------------------------
(* Which calls are where.                                                  *)
OpInv(p) ==
    /\ pc[p] # "idle" => op[p].kind \in {"append", "governed", "import", "rotate", "read"}
    /\ pc[p] \in {"recover", "rewrite", "check", "write"} => op[p].kind \notin {"rotate", "read"}
    /\ Appending(p) => \E c \in Cmds : op[p].cmds = <<c>>
    /\ op[p].kind = "governed" => op[p].exp \in Nat
    /\ op[p].kind = "import" => op[p].cmds \in Batches

LEMMA OpStep ==
    ASSUME BaseInv, \A p \in Procs : OpInv(p), [Next]_vars, NEW q \in Procs
    PROVE  OpInv(q)'
<1>0. /\ pc \in [Procs -> Locked \cup {"idle", "wait"}] /\ OpInv(q)
      /\ op \in [Procs -> [kind : {"none", "append", "governed", "import", "rotate", "read"},
                           cmds : Seq(Command), exp : Int]]
  BY DEF BaseInv, TypeOK
<1>a. ASSUME op'[q] = op[q],
             pc[q] = "idle" => pc'[q] = "idle",
             pc'[q] \in {"recover", "rewrite", "check", "write"} =>
                pc[q] \in {"recover", "rewrite", "check", "write"}
      PROVE  OpInv(q)'
  BY <1>0, <1>a DEF OpInv, Appending
<1>b. ASSUME op'[q] = NoOp, pc'[q] = "idle" PROVE OpInv(q)'
  BY <1>b DEF OpInv, Appending, NoOp
<1>1. ASSUME NEW p \in Procs, Request(p) PROVE OpInv(q)'
  <2>1. CASE p # q
    BY <1>1, <2>1, <1>0, <1>a
       DEF Request, CallAppend, CallGoverned, CallImport, CallRotate, CallRead, Call, Goto
  <2>2. ASSUME NEW o, Call(p, o), p = q,
               o.kind \in {"append", "governed", "import", "rotate", "read"},
               o.kind \in {"append", "governed"} => \E c \in Cmds : o.cmds = <<c>>,
               o.kind = "governed" => o.exp \in Nat,
               o.kind = "import" => o.cmds \in Batches
        PROVE  OpInv(q)'
    <3>1. op'[q] = o /\ pc'[q] = "wait"
      BY <2>2, <1>0 DEF Call, Goto
    <3> QED BY <3>1, <2>2 DEF OpInv, Appending
  <2>3. LastUid(Visible) \in Nat
    BY VisibleType DEF BaseInv
  <2>4. CASE p = q /\ CallAppend(p)
    <3>1. PICK c \in Cmds : Call(p, [kind |-> "append", cmds |-> <<c>>, exp |-> -1])
      BY <2>4 DEF CallAppend
    <3> QED BY <3>1, <2>2, <2>4
  <2>5. CASE p = q /\ CallGoverned(p)
    <3>1. PICK c \in Cmds :
            Call(p, [kind |-> "governed", cmds |-> <<c>>, exp |-> LastUid(Visible)])
      BY <2>5 DEF CallGoverned
    <3> QED BY <3>1, <2>2, <2>3, <2>5
  <2>6. CASE p = q /\ CallImport(p)
    <3>1. PICK cs \in Batches :
            Call(p, [kind |-> "import", cmds |-> cs, exp |-> LastUid(Visible)])
      BY <2>6 DEF CallImport
    <3> QED BY <3>1, <2>2, <2>6
  <2>7. CASE p = q /\ (CallRotate(p) \/ CallRead(p))
    BY <2>2, <2>7 DEF CallRotate, CallRead
  <2> QED BY <1>1, <2>1, <2>4, <2>5, <2>6, <2>7 DEF Request
<1>2. ASSUME NEW p \in Procs, Step(p) PROVE OpInv(q)'
  <2>1. CASE p # q
    <3>1. op'[q] = op[q] /\ pc'[q] = pc[q]
      BY <1>2, <2>1, <1>0
         DEF Step, Acquire, LockTimeout, RecoverNothing, RecoverTruncate, BeginLine,
             EndLine, Rewritten, Written, Refuse, AnswerStored, Build, RotateNothing,
             RotateRename, RotateCreate, ReadVerified, Return, Goto, local
    <3> QED BY <3>1, <1>a
  <2>2. CASE p = q
    <3>1. CASE Acquire(q)
      <4>1. op'[q] = op[q] /\ pc[q] = "wait" /\ pc'[q] = Entry(op[q].kind)
        BY <3>1, <1>0 DEF Acquire, Goto
      <4> QED BY <4>1, <1>0 DEF OpInv, Appending, Entry
    <3>2. CASE LockTimeout(q) \/ Return(q)
      BY <3>2, <1>0, <1>b DEF LockTimeout, Return, Goto
    <3>3. CASE BeginLine(q) \/ EndLine(q)
      BY <3>3, <1>a DEF BeginLine, EndLine, local
    <3>4. CASE \/ RecoverNothing(q) \/ RecoverTruncate(q) \/ Rewritten(q) \/ Written(q)
               \/ Refuse(q) \/ AnswerStored(q) \/ Build(q)
      BY <3>4, <1>0, <1>a
         DEF RecoverNothing, RecoverTruncate, Rewritten, Written, Refuse, AnswerStored,
             Build, Goto
    <3>5. CASE RotateNothing(q) \/ RotateRename(q) \/ RotateCreate(q) \/ ReadVerified(q)
      BY <3>5, <1>0, <1>a
         DEF RotateNothing, RotateRename, RotateCreate, ReadVerified, Goto
    <3> QED BY <1>2, <2>2, <3>1, <3>2, <3>3, <3>4, <3>5 DEF Step
  <2> QED BY <2>1, <2>2
<1>3. ASSUME NEW p \in Procs, Fault(p) PROVE OpInv(q)'
  <2>1. CASE p = q /\ Kill(p)
    BY <2>1, <1>0, <1>b DEF Kill, Goto
  <2>2. CASE p = q /\ WriteError(p)
    BY <2>2, <1>0, <1>a DEF WriteError, Goto
  <2>3. CASE p # q
    BY <1>3, <2>3, <1>0, <1>a DEF Fault, Kill, WriteError, Goto
  <2> QED BY <1>3, <2>1, <2>2, <2>3 DEF Fault
<1>4. ASSUME NEW v \in Verifiers, Verify(v) PROVE OpInv(q)'
  BY <1>4, <1>a DEF Verify, ListPartitions, ListActive, ReadListed, EndScan, local
<1>5. CASE UNCHANGED vars
  BY <1>5, <1>a DEF vars, local
<1> QED BY <1>1, <1>2, <1>3, <1>4, <1>5 DEF Next

(* A nonempty set of numbers has a least one: the scan that looks for the  *)
(* same request stops at the first match, if there is any.                 *)
LEMMA LeastOf ==
    ASSUME NEW S, S \subseteq Nat, S # {}
    PROVE  \E i \in S : \A j \in S : i <= j
<1> DEFINE R == OpToRel(<, Nat)
<1>1. IsWellFoundedOn(R, Nat)
  BY NatLessThanWellFounded
<1>2. \A i, j \in Nat : <<j, i>> \in R \/ i <= j
  <2> SUFFICES ASSUME NEW i \in Nat, NEW j \in Nat, ~(i <= j) PROVE <<j, i>> \in R
    OBVIOUS
  <2>1. j < i
    OBVIOUS
  <2> QED BY <2>1, Zenon DEF OpToRel
<1> HIDE DEF R
<1>3. \E i \in S : \A j \in S : ~(<<j, i>> \in R)
  BY <1>1, WFMin, Zenon
<1>4. PICK i \in S : \A j \in S : ~(<<j, i>> \in R)
  BY <1>3
<1> QED BY <1>2, <1>4

LEMMA NoFirstMatch ==
    ASSUME Len(ledger) \in Nat, NEW c, FirstMatch(c) = {}
    PROVE  \A i \in 1..Len(ledger) : ~Matches(c, ledger[i])
<1> DEFINE S == {i \in 1..Len(ledger) : Matches(c, ledger[i])}
<1> SUFFICES ASSUME S # {} PROVE FALSE
  OBVIOUS
<1>0. S \subseteq Nat /\ \A i : i \in S <=> i \in 1..Len(ledger) /\ Matches(c, ledger[i])
  OBVIOUS
<1> HIDE DEF S
<1>1. PICK i \in S : \A j \in S : i <= j
  BY <1>0, LeastOf
<1>2. \A j \in 1..(i-1) : ~Matches(c, ledger[j])
  BY <1>0, <1>1
<1> QED BY <1>0, <1>1, <1>2 DEF FirstMatch

-----------------------------------------------------------------------------
(* Where lines come from: what can be read after a step could be read      *)
(* before, or was about to be written; what a process starts to write is   *)
(* what can be read, or that with the events of its call behind it.        *)
Writing(p) == pc[p] \in {"rewrite", "write"}
NewEvents(p) == Built(ledger, op[p].cmds, op[p].kind = "import")

ReadBefore ==
    \/ IsPrefixOf(Visible', Visible)
    \/ \E p \in Procs : Writing(p) /\ IsPrefixOf(Visible', goal[p])
WrittenBefore(p) ==
    \/ Writing(p) /\ goal'[p] = goal[p]
    \/ goal'[p] = ledger
    \/ Build(p) /\ goal'[p] = NewEvents(p)

LEMMA SameVisible == UNCHANGED <<ledger, tail>> => Visible' = Visible
BY DEF Visible

LEMMA LinesComeFrom ==
    ASSUME BaseInv, [Next]_vars
    PROVE  /\ ReadBefore
           /\ \A q \in Procs : Writing(q)' => WrittenBefore(q)
<1> DEFINE Goal == ReadBefore /\ \A q \in Procs : Writing(q)' => WrittenBefore(q)
<1> SUFFICES Goal
  OBVIOUS
<1>0. /\ pc \in [Procs -> Locked \cup {"idle", "wait"}]
      /\ goal \in [Procs -> Seq(Event)]
      /\ ledger \in Seq(Event) /\ Len(ledger) \in Nat
      /\ \A p \in Procs : WriterInv(p)
  BY BaseFacts
<1>v. Visible \in Seq(Event) /\ IsPrefixOf(Visible, Visible)
  BY VisibleType, PrefixReflexive DEF BaseInv
<1>a. ASSUME UNCHANGED <<ledger, tail>>,
             \A q \in Procs : pc'[q] \in {"rewrite", "write"} =>
                pc'[q] = pc[q] /\ goal'[q] = goal[q]
      PROVE  Goal
  BY <1>a, <1>v, SameVisible DEF ReadBefore, Writing, WrittenBefore
<1>1. ASSUME NEW p \in Procs, Request(p) PROVE Goal
  BY <1>1, <1>0, <1>a
     DEF Request, CallAppend, CallGoverned, CallImport, CallRotate, CallRead, Call, Goto, disk
<1>2. ASSUME NEW p \in Procs, Step(p) PROVE Goal
  <2>1. CASE Acquire(p)
    <3>1. Entry(op[p].kind) \in {"rotate", "read", "recover"}
      BY DEF Entry
    <3> QED BY <2>1, <3>1, <1>0, <1>a DEF Acquire, Goto, disk
  <2>2. CASE \/ LockTimeout(p) \/ RecoverNothing(p) \/ Rewritten(p) \/ Written(p)
             \/ Refuse(p) \/ AnswerStored(p) \/ RotateNothing(p) \/ RotateCreate(p)
             \/ ReadVerified(p) \/ Return(p)
    <3>1. /\ UNCHANGED <<ledger, tail>>
          /\ goal' = [goal EXCEPT ![p] = <<>>] \/ goal' = goal
          /\ \E l \in {"idle", "check", "ret", "fail"} : pc' = [pc EXCEPT ![p] = l]
      BY <2>2 DEF LockTimeout, RecoverNothing, Rewritten, Written, Refuse, AnswerStored,
                  RotateNothing, RotateCreate, ReadVerified, Return, Goto, disk
    <3> QED BY <3>1, <1>0, <1>a
  <2>3. CASE RecoverTruncate(p)
    <3>1. /\ pc' = [pc EXCEPT ![p] = "rewrite"]
          /\ goal' = [goal EXCEPT ![p] = ledger]
          /\ ledger' = SubSeq(ledger, 1, Archived) /\ tail' = NoTail
      BY <2>3 DEF RecoverTruncate, Goto
    <3>2. Visible' = SubSeq(ledger, 1, Archived)
      BY <3>1, TailAssumption DEF Visible
    <3>3. /\ Archived \in 0..Len(ledger)
          /\ Len(SubSeq(ledger, 1, Archived)) = Archived
          /\ \A i \in 1..Archived : SubSeq(ledger, 1, Archived)[i] = ledger[i]
      BY <1>0, VisibleType, SubSeqProperties, ElementOfSeq DEF BaseInv
    <3>4. Len(ledger) <= Len(Visible) /\ \A i \in 1..Len(ledger) : Visible[i] = ledger[i]
      BY <1>0 DEF Visible
    <3>5. IsPrefixOf(Visible', Visible)
      BY <3>2, <3>3, <3>4, <1>v DEF IsPrefixOf
    <3>6. \A q \in Procs : Writing(q)' => WrittenBefore(q)
      BY <3>1, <1>0 DEF Writing, WrittenBefore
    <3> QED BY <3>5, <3>6 DEF ReadBefore
  <2>4. CASE BeginLine(p) \/ EndLine(p)
    <3>1. /\ UNCHANGED <<pc, goal>> /\ Writing(p) /\ Len(ledger) < Len(goal[p])
      BY <2>4 DEF BeginLine, EndLine, local, Writing
    <3> DEFINE e == goal[p][Len(ledger) + 1]
    <3>2. /\ goal[p] \in Seq(Event) /\ Len(goal[p]) \in Nat /\ IsPrefixOf(ledger, goal[p])
          /\ e \in Event
      BY <3>1, <1>0, ElementOfSeq DEF WriterInv, Writing
    <3>3. IsPrefixOf(Append(ledger, e), goal[p])
      BY <3>1, <3>2, <1>0 DEF IsPrefixOf
    <3>4. Visible' = ledger \/ Visible' = Append(ledger, e)
      <4>1. CASE BeginLine(p)
        <5>1. ledger' = ledger /\ tail' \in {Torn, e}
          BY <4>1 DEF BeginLine
        <5> QED BY <5>1, <3>2, TailAssumption DEF Visible
      <4>2. CASE EndLine(p)
        <5>1. ledger' = Append(ledger, e) /\ tail' = NoTail
          BY <4>2 DEF EndLine
        <5> QED BY <5>1, TailAssumption DEF Visible
      <4> QED BY <2>4, <4>1, <4>2
    <3>5. ReadBefore
      BY <3>1, <3>2, <3>3, <3>4 DEF ReadBefore
    <3> QED BY <3>1, <3>5 DEF Writing, WrittenBefore
  <2>5. CASE Build(p)
    <3>1. /\ pc' = [pc EXCEPT ![p] = "write"] /\ UNCHANGED <<ledger, tail>>
          /\ goal' = [goal EXCEPT ![p] = NewEvents(p)]
      BY <2>5 DEF Build, Goto, disk, NewEvents
    <3>2. ReadBefore
      BY <3>1, <1>v, SameVisible DEF ReadBefore
    <3>3. \A q \in Procs : Writing(q)' => WrittenBefore(q)
      BY <2>5, <3>1, <1>0 DEF Writing, WrittenBefore
    <3> QED BY <3>2, <3>3
  <2>6. CASE RotateRename(p)
    <3>1. /\ pc' = [pc EXCEPT ![p] = "create"] /\ goal' = goal
          /\ ledger' = Visible /\ tail' = NoTail
      BY <2>6 DEF RotateRename, Goto
    <3>2. Visible' = Visible
      BY <3>1, TailAssumption DEF Visible
    <3>3. \A q \in Procs : Writing(q)' => WrittenBefore(q)
      BY <3>1, <1>0 DEF Writing, WrittenBefore
    <3> QED BY <3>2, <3>3, <1>v DEF ReadBefore
  <2> QED BY <1>2, <2>1, <2>2, <2>3, <2>4, <2>5, <2>6 DEF Step
<1>3. ASSUME NEW p \in Procs, Fault(p) PROVE Goal
  BY <1>3, <1>0, <1>a DEF Fault, Kill, WriteError, Goto, disk
<1>4. ASSUME NEW v \in Verifiers, Verify(v) PROVE Goal
  BY <1>4, <1>a DEF Verify, ListPartitions, ListActive, ReadListed, EndScan, disk, local
<1>5. CASE UNCHANGED vars
  BY <1>5, <1>a DEF vars, disk, local
<1> QED BY <1>1, <1>2, <1>3, <1>4, <1>5 DEF Next

(* The facts about a step that builds new events.                          *)
LEMMA BuildFacts ==
    ASSUME BaseInv, NEW p \in Procs, OpInv(p), Build(p)
    PROVE  /\ tail = NoTail /\ Visible = ledger /\ IdsDiffer(ledger)
           /\ op[p].cmds \in Seq(Command) /\ (op[p].kind = "import") \in BOOLEAN
           /\ Len(NewEvents(p)) = Len(ledger) + Len(op[p].cmds)
           /\ \A i \in 1..Len(ledger) : NewEvents(p)[i] = ledger[i]
           /\ \A i \in 1..Len(op[p].cmds) : NewEvents(p)[Len(ledger) + i] =
                                    Made(ledger, op[p].cmds, i, op[p].kind = "import")
           /\ \/ op[p].kind = "import" /\ op[p].cmds \in Batches /\ FreshIds(p)
              \/ /\ op[p].kind # "import"
                 /\ \E c \in Cmds : op[p].cmds = <<c>>
                        /\ \A i \in 1..Len(ledger) : ~Matches(c, ledger[i])
<1>1. /\ pc[p] = "check" /\ ~Refused(p)
      /\ Appending(p) => FirstMatch(op[p].cmds[1]) = {}
  BY DEF Build
<1>2. tail = NoTail /\ Visible = ledger
  BY <1>1, BaseFacts, TailAssumption DEF WriterInv, Visible
<1>3. IdsDiffer(ledger)
  BY <1>1, <1>2 DEF Refused, VerifyOK, ChainOK
<1>4. /\ TypeOK /\ op[p].cmds \in Seq(Command) /\ (op[p].kind = "import") \in BOOLEAN
      /\ ledger \in Seq(Event) /\ Len(ledger) \in Nat
  BY DEF BaseInv, TypeOK
<1>5. /\ Len(NewEvents(p)) = Len(ledger) + Len(op[p].cmds)
      /\ \A i \in 1..Len(ledger) : NewEvents(p)[i] = ledger[i]
      /\ \A i \in 1..Len(op[p].cmds) : NewEvents(p)[Len(ledger) + i] =
                Made(ledger, op[p].cmds, i, op[p].kind = "import")
  BY <1>4, BuiltType DEF NewEvents
<1>6. \/ op[p].kind = "import" /\ op[p].cmds \in Batches /\ FreshIds(p)
      \/ /\ op[p].kind # "import"
         /\ \E c \in Cmds : op[p].cmds = <<c>>
                /\ \A i \in 1..Len(ledger) : ~Matches(c, ledger[i])
  <2>1. CASE op[p].kind = "import"
    BY <1>1, <2>1 DEF Refused, OpInv
  <2>2. CASE op[p].kind # "import"
    <3>1. Appending(p)
      BY <1>1, <2>2 DEF OpInv, Appending
    <3>2. PICK c \in Cmds : op[p].cmds = <<c>>
      BY <3>1 DEF OpInv
    <3>3. FirstMatch(c) = {}
      BY <1>1, <3>1, <3>2
    <3> QED BY <2>2, <3>2, <3>3, <1>4, NoFirstMatch
  <2> QED BY <2>1, <2>2
<1> QED BY <1>2, <1>3, <1>4, <1>5, <1>6

-----------------------------------------------------------------------------
(* Idempotency keys.                                                       *)
KeysOnce(s) == \A i, j \in 1..Len(s) :
    i < j /\ s[i].key = s[j].key /\ s[i].key # NoKey => s[j].imported
KeysInv == KeysOnce(Visible) /\ \A p \in Procs : Writing(p) => KeysOnce(goal[p])

LEMMA KeysPrefix ==
    ASSUME NEW s \in Seq(Event), NEW t \in Seq(Event), IsPrefixOf(s, t), KeysOnce(t)
    PROVE  KeysOnce(s)
<1>1. Len(s) \in Nat /\ Len(t) \in Nat /\ Len(s) <= Len(t)
  BY DEF IsPrefixOf
<1>2. \A i \in 1..Len(s) : i \in 1..Len(t) /\ s[i] = t[i]
  BY <1>1 DEF IsPrefixOf
<1> QED BY <1>1, <1>2 DEF KeysOnce

LEMMA KeysBuilt ==
    ASSUME BaseInv, NEW p \in Procs, OpInv(p), Build(p), KeysOnce(ledger)
    PROVE  KeysOnce(NewEvents(p))
<1> DEFINE s == NewEvents(p)
           n == Len(ledger)
           cs == op[p].cmds
<1>1. /\ n \in Nat /\ Len(cs) \in Nat /\ Len(s) = n + Len(cs)
      /\ \A i \in 1..n : s[i] = ledger[i]
      /\ \A i \in 1..Len(cs) : s[n + i] = Made(ledger, cs, i, op[p].kind = "import")
  BY BuildFacts, BaseFacts
<1> SUFFICES KeysOnce(s)
  OBVIOUS
<1> HIDE DEF s
<1>2. CASE op[p].kind = "import"
  <2>1. \A i \in 1..Len(cs) : s[n + i].imported
    <3>1. \A i, b : b => Made(ledger, cs, i, b).imported
      BY Zenon DEF Made
    <3> QED BY <3>1, <1>1, <1>2, Zenon
  <2>2. ASSUME NEW j \in 1..Len(s), j > n PROVE s[j].imported
    <3>1. j - n \in 1..Len(cs) /\ j = n + (j - n)
      BY <1>1, <2>2
    <3> QED BY <2>1, <3>1
  <2>3. ASSUME NEW i \in 1..Len(s), NEW j \in 1..Len(s),
               i < j, s[i].key = s[j].key, s[i].key # NoKey, j <= n
        PROVE  s[j].imported
    <3>1. i \in 1..n /\ j \in 1..n
      BY <1>1, <2>3
    <3> QED BY <1>1, <2>3, <3>1 DEF KeysOnce
  <2> QED BY <1>1, <2>2, <2>3 DEF KeysOnce
<1>3. CASE op[p].kind # "import"
  <2>1. PICK c \in Cmds : cs = <<c>> /\ \A i \in 1..n : ~Matches(c, ledger[i])
    BY <1>3, BuildFacts
  <2>2. Len(cs) = 1 /\ cs[1] = c
    BY <2>1
  <2>3. s[n + 1].key = c.key
    <3>1. 1 \in 1..Len(cs)
      BY <2>2
    <3> QED BY <1>1, <2>2, <3>1 DEF Made
  <2>4. ASSUME NEW i \in 1..Len(s), NEW j \in 1..Len(s),
               i < j, s[i].key = s[j].key, s[i].key # NoKey
        PROVE  s[j].imported
    <3>1. i \in 1..n
      BY <1>1, <2>2, <2>4
    <3>2. CASE j <= n
      <4>1. j \in 1..n
        BY <1>1, <3>2
      <4> QED BY <1>1, <2>4, <3>1, <4>1 DEF KeysOnce
    <3>3. CASE j > n
      <4>1. j = n + 1
        BY <1>1, <2>2, <3>3
      <4> QED BY <1>1, <2>1, <2>3, <2>4, <3>1, <4>1 DEF Matches
    <3> QED BY <1>1, <3>2, <3>3
  <2> QED BY <2>4 DEF KeysOnce
<1> QED BY <1>2, <1>3

(* Prefixes of what could be read or was being written.                    *)
LEMMA LineTypes ==
    ASSUME BaseInv
    PROVE  /\ Visible \in Seq(Event) /\ ledger \in Seq(Event)
           /\ IsPrefixOf(ledger, Visible)
           /\ \A p \in Procs : goal[p] \in Seq(Event)
<1>1. Visible \in Seq(Event) /\ ledger \in Seq(Event) /\ \A p \in Procs : goal[p] \in Seq(Event)
  BY VisibleType, BaseFacts DEF BaseInv
<1> QED BY <1>1 DEF Visible, IsPrefixOf

LEMMA LineTypesNext ==
    ASSUME BaseInv' PROVE Visible' \in Seq(Event) /\ \A p \in Procs : goal'[p] \in Seq(Event)
<1>1. BaseInv' => (Visible \in Seq(Event) /\ \A p \in Procs : goal[p] \in Seq(Event))'
  BY LineTypes, PTL
<1> QED BY <1>1

LEMMA KeysStep ==
    ASSUME BaseInv, BaseInv', \A p \in Procs : OpInv(p), KeysInv, [Next]_vars
    PROVE  KeysInv'
<1>1. KeysOnce(Visible')
  <2>1. CASE IsPrefixOf(Visible', Visible)
    BY <2>1, LineTypes, LineTypesNext, KeysPrefix DEF KeysInv
  <2>2. ASSUME NEW p \in Procs, Writing(p), IsPrefixOf(Visible', goal[p])
        PROVE  KeysOnce(Visible')
    BY <2>2, LineTypes, LineTypesNext, KeysPrefix DEF KeysInv
  <2> QED BY <2>1, <2>2, LinesComeFrom DEF ReadBefore
<1>2. KeysOnce(ledger)
  BY LineTypes, KeysPrefix DEF KeysInv
<1>3. ASSUME NEW p \in Procs, Writing(p)' PROVE KeysOnce(goal'[p])
  <2>1. WrittenBefore(p)
    BY <1>3, LinesComeFrom
  <2>2. CASE Writing(p) /\ goal'[p] = goal[p]
    BY <2>2 DEF KeysInv
  <2>3. CASE goal'[p] = ledger
    BY <2>3, <1>2
  <2>4. CASE Build(p) /\ goal'[p] = NewEvents(p)
    BY <2>4, <1>2, KeysBuilt
  <2> QED BY <2>1, <2>2, <2>3, <2>4 DEF WrittenBefore
<1>4. KeysOnce(Visible)' /\ \A p \in Procs : Writing(p)' => KeysOnce(goal[p])'
  BY <1>1, <1>3 DEF KeysOnce
<1> QED BY <1>4 DEF KeysInv

LEMMA NothingWritten ==
    Init => /\ Visible = <<>>
            /\ \A p \in Procs : ~Writing(p) /\ OpInv(p)
<1> SUFFICES ASSUME Init PROVE Visible = <<>> /\ \A p \in Procs : ~Writing(p) /\ OpInv(p)
  OBVIOUS
<1>1. Visible = <<>>
  BY TailAssumption DEF Init, Visible
<1>2. \A p \in Procs : pc[p] = "idle" /\ op[p] = NoOp
  BY DEF Init
<1> QED BY <1>1, <1>2 DEF Writing, OpInv, Appending, NoOp

(* The content is what can be read, up to its last record, or is being     *)
(* written.                                                                *)
LEMMA ContentFrom ==
    ASSUME BaseInv
    PROVE  Content = ledger \/ \E p \in Procs : Writing(p) /\ Content = goal[p]
<1>1. ContentMeaning
  BY ContentIs DEF BaseInv
<1> QED BY <1>1 DEF ContentMeaning, Writing

LEMMA KeysHold == Spec => []((\A p \in Procs : OpInv(p)) /\ KeysInv)
<1>1. Init => (\A p \in Procs : OpInv(p)) /\ KeysInv
  BY NothingWritten DEF KeysInv, KeysOnce
<1>2. BaseInv /\ BaseInv' /\ (\A p \in Procs : OpInv(p)) /\ KeysInv /\ [Next]_vars
        => (\A p \in Procs : OpInv(p))' /\ KeysInv'
  BY OpStep, KeysStep
<1> QED BY <1>1, <1>2, BaseInvariant, PTL DEF Spec

LEMMA KeysOfContent ==
    ASSUME BaseInv, KeysInv PROVE KeysOnce(Content)
<1>1. KeysOnce(ledger)
  BY LineTypes, KeysPrefix DEF KeysInv
<1> QED BY <1>1, ContentFrom DEF KeysInv

(* However often a request is retried, whatever kill or error hid its      *)
(* first outcome, and whether or not a repair or a rotation came between:  *)
(* no append stores a second event under a key (_append_unchecked).        *)
THEOREM KeysAreStoredOnce == Spec => []OneEventPerKey
<1>1. BaseInv /\ KeysInv => OneEventPerKey
  BY KeysOfContent DEF KeysOnce, OneEventPerKey
<1> QED BY <1>1, BaseInvariant, KeysHold, PTL

-----------------------------------------------------------------------------
(* What readers were told.                                                 *)

ReaderInv == VerifiedReadLasts /\ VerifyNeverInvents

LEMMA LedgerInContent == ASSUME BaseInv PROVE IsPrefixOf(ledger, Content)
<1>1. \A p \in Procs : Writing(p) => IsPrefixOf(ledger, goal[p])
  BY BaseFacts DEF WriterInv, Writing
<1>2. IsPrefixOf(ledger, ledger)
  BY LineTypes, PrefixReflexive
<1> QED BY <1>1, <1>2, ContentFrom

(* The lines that can be read: those of the ledger, and a loose record.    *)
LEMMA VisibleLines ==
    ASSUME BaseInv
    PROVE  /\ Visible \in Seq(Event) /\ Len(Visible) \in Nat /\ Len(ledger) \in Nat
           /\ Len(Visible) = Len(ledger) + (IF tail \in Event THEN 1 ELSE 0)
           /\ \A i \in 1..Len(ledger) : Visible[i] = ledger[i]
<1>1. /\ ledger \in Seq(Event) /\ Len(ledger) \in Nat
      /\ Visible \in Seq(Event) /\ Len(Visible) \in Nat
  BY BaseFacts, LineTypes
<1>2. CASE tail \in Event
  BY <1>1, <1>2 DEF Visible
<1>3. CASE tail \notin Event
  BY <1>1, <1>3 DEF Visible
<1> QED BY <1>1, <1>2, <1>3

(* Lines that can be read are in the ledger, at their places.              *)
LEMMA LinesHold ==
    ASSUME BaseInv, NEW s \in Seq(Event), NEW n \in Int, n <= Len(s), n <= Len(ledger),
           \A i \in 1..Len(s) : i \in 1..Len(Visible) /\ s[i] = Visible[i]
    PROVE  Holds(s, n)
<1>1. /\ ledger \in Seq(Event) /\ Len(ledger) \in Nat /\ Content \in Seq(Event)
      /\ IsPrefixOf(ledger, Content) /\ Len(s) \in Nat /\ Len(Content) \in Nat
  BY BaseFacts, ContentType, LedgerInContent
<1>2. \A i \in 1..Len(ledger) : Visible[i] = ledger[i]
  BY VisibleLines
<1> HIDE DEF Visible, Content
<1>3. ASSUME NEW i \in 1..n PROVE i <= Len(Content) /\ Content[i] = s[i]
  <2>1. i \in 1..Len(s) /\ i \in 1..Len(ledger)
    BY <1>1
  <2>2. s[i] = ledger[i]
    BY <1>2, <2>1
  <2> QED BY <1>1, <2>1, <2>2 DEF IsPrefixOf
<1> QED BY <1>3 DEF Holds

LEMMA VisibleLasts ==
    ASSUME BaseInv, NEW r, r.out = Visible, r.loose = (tail \in Event)
    PROVE  Holds(Visible, Complete(r))
<1>1. CASE tail \in Event
  <2>1. Complete(r) = Len(Visible) - 1
    BY <1>1 DEF Complete
  <2>2. Len(Visible) = Len(ledger) + 1
    BY <1>1, VisibleLines
  <2> QED BY <2>1, <2>2, VisibleLines, LinesHold
<1>2. CASE tail \notin Event
  <2>1. Complete(r) = Len(Visible)
    <3>1. ~r.loose
      BY <1>2
    <3> QED BY <3>1, VisibleLines DEF Complete
  <2>2. Len(Visible) = Len(ledger)
    BY <1>2, VisibleLines
  <2> QED BY <2>1, <2>2, VisibleLines, LinesHold
<1> QED BY <1>1, <1>2

LEMMA VisibleLinked == ASSUME BaseInv PROVE Linked(Visible)
BY BaseFacts, LinkedAppend DEF BaseInv, Visible, TailInv

(* What an unlocked verify() read: every line is one that can be read.     *)
LEMMA ScannedLines ==
    ASSUME BaseInv, NEW v \in Verifiers
    PROVE  /\ Scanned(v) \in Seq(Event)
           /\ \A i \in 1..Len(Scanned(v)) :
                \E k \in 1..Len(Visible) : Scanned(v)[i] = Visible[k]
<1> DEFINE a == SubSeq(ledger, 1, UpTo(scan[v].parts))
           b == SubSeq(Visible, Archived + 1, Len(Visible))
           c == IF scan[v].has THEN b ELSE <<>>
           InVisible(s) == \A i \in 1..Len(s) : \E k \in 1..Len(Visible) : s[i] = Visible[k]
<1>1. /\ scan[v].parts \in 0..Len(archives)
      /\ ledger \in Seq(Event) /\ Len(ledger) \in Nat
      /\ Visible \in Seq(Event) /\ Len(Visible) \in Nat
      /\ Len(ledger) <= Len(Visible)
      /\ \A i \in 1..Len(ledger) : Visible[i] = ledger[i]
  BY BaseFacts, LineTypes DEF BaseInv, PartitionInv, TypeOK, IsPrefixOf
<1>2. UpTo(scan[v].parts) \in 0..Len(ledger) /\ Archived \in 0..Len(ledger)
  BY <1>1, VisibleType DEF BaseInv
<1>3. a \in Seq(Event) /\ InVisible(a)
  <2> DEFINE n == UpTo(scan[v].parts)
  <2>1. n \in 0..Len(ledger)
    BY <1>2
  <2> HIDE DEF n, Visible
  <2>2. /\ SubSeq(ledger, 1, n) \in Seq(Event) /\ Len(SubSeq(ledger, 1, n)) = n
        /\ \A i \in 1..n : SubSeq(ledger, 1, n)[i] = ledger[i]
    BY <1>1, <2>1, SubSeqProperties, ElementOfSeq
  <2>3. \A i \in 1..n : i \in 1..Len(Visible) /\ SubSeq(ledger, 1, n)[i] = Visible[i]
    BY <1>1, <2>1, <2>2
  <2>4. SubSeq(ledger, 1, n) = a
    BY DEF n
  <2> HIDE DEF a
  <2> QED BY <2>2, <2>3, <2>4
<1>4. b \in Seq(Event) /\ InVisible(b)
  <2>1. Archived + 1 \in 1..(Len(Visible) + 1)
    BY <1>1, <1>2
  <2> HIDE DEF Archived, Visible
  <2>2. b \in Seq(Event)
    BY <1>1, <2>1, SubSeqProperties, ElementOfSeq
  <2>3. \A i \in 1..Len(b) : b[i] = Visible[Archived + i] /\ Archived + i \in 1..Len(Visible)
    BY <1>1, <1>2, <2>1, SubSeqProperties
  <2> QED BY <2>2, <2>3
<1>5. c \in Seq(Event) /\ InVisible(c)
  BY <1>4, EmptySeq
<1>6. Scanned(v) = a \o c
  BY DEF Scanned
<1> HIDE DEF a, b, c
<1>7. a \o c \in Seq(Event) /\ InVisible(a \o c)
  <2>1. /\ a \o c \in Seq(Event) /\ Len(a \o c) = Len(a) + Len(c)
        /\ \A i \in 1..Len(a) : (a \o c)[i] = a[i]
        /\ \A i \in 1..Len(c) : (a \o c)[Len(a) + i] = c[i]
        /\ Len(a) \in Nat /\ Len(c) \in Nat
    BY <1>3, <1>5, ConcatProperties
  <2>2. ASSUME NEW i \in 1..Len(a \o c)
        PROVE  \E k \in 1..Len(Visible) : (a \o c)[i] = Visible[k]
    <3>1. CASE i <= Len(a)
      <4>1. i \in 1..Len(a)
        BY <3>1, <2>1
      <4> QED BY <4>1, <2>1, <1>3
    <3>2. CASE i > Len(a)
      <4>1. i - Len(a) \in 1..Len(c) /\ i = Len(a) + (i - Len(a))
        BY <3>2, <2>1
      <4> QED BY <4>1, <2>1, <1>5
    <3> QED BY <3>1, <3>2, <2>1
  <2> QED BY <2>1, <2>2
<1> QED BY <1>6, <1>7

(* A chain that verifies is the beginning of what can be read: its         *)
(* sequence numbers say where each of its events is.                       *)
LEMMA ScannedIsVisible ==
    ASSUME BaseInv, NEW v \in Verifiers, Linked(Scanned(v))
    PROVE  \A i \in 1..Len(Scanned(v)) :
               i \in 1..Len(Visible) /\ Scanned(v)[i] = Visible[i]
<1> DEFINE s == Scanned(v)
<1>1. /\ s \in Seq(Event) /\ Len(s) \in Nat
      /\ Visible \in Seq(Event) /\ Len(Visible) \in Nat
      /\ \A i \in 1..Len(s) : \E k \in 1..Len(Visible) : s[i] = Visible[k]
  BY ScannedLines, LineTypes
<1>2. /\ \A i \in 1..Len(s) : s[i].seq = i
      /\ \A i \in 1..Len(Visible) : Visible[i].seq = i
  BY VisibleLinked DEF Linked
<1> HIDE DEF s, Visible
<1>3. \A i \in 1..Len(s) : i \in 1..Len(Visible) /\ s[i] = Visible[i]
  BY <1>1, <1>2
<1> QED BY <1>3 DEF s

(* Only a loose record that was read may be missing from the ledger.       *)
LEMMA ScannedHolds ==
    ASSUME BaseInv, NEW v \in Verifiers, Linked(Scanned(v)),
           NEW r, r.out = Scanned(v), r.loose = Loose(v)
    PROVE  Holds(Scanned(v), Complete(r))
<1> DEFINE s == Scanned(v)
<1>1. /\ s \in Seq(Event) /\ Len(s) \in Nat
      /\ \A i \in 1..Len(s) : i \in 1..Len(Visible) /\ s[i] = Visible[i]
  BY ScannedLines, ScannedIsVisible
<1>2. /\ Len(Visible) \in Nat /\ Len(ledger) \in Nat
      /\ Len(Visible) = Len(ledger) + (IF tail \in Event THEN 1 ELSE 0)
  BY VisibleLines
<1>3. Len(s) <= Len(Visible)
  <2> HIDE DEF s, Visible
  <2>1. CASE Len(s) = 0
    BY <2>1, <1>1, <1>2
  <2>2. CASE Len(s) # 0
    <3>1. Len(s) \in 1..Len(s)
      BY <2>2, <1>1
    <3> QED BY <3>1, <1>1, <1>2
  <2> QED BY <2>1, <2>2
<1>4. ~scan[v].has => Len(s) <= Len(ledger)
  <2> DEFINE n == UpTo(scan[v].parts)
             a == SubSeq(ledger, 1, n)
  <2>1. scan[v].parts \in 0..Len(archives) /\ ledger \in Seq(Event)
    BY BaseFacts DEF BaseInv, PartitionInv, TypeOK
  <2>2. n \in 0..Len(ledger)
    BY <2>1, VisibleType DEF BaseInv
  <2> HIDE DEF n
  <2>3. a \in Seq(Event) /\ Len(a) = n
    BY <1>2, <2>1, <2>2, SubSeqProperties, ElementOfSeq
  <2>4. ~scan[v].has => s = a \o <<>>
    BY DEF Scanned, n
  <2> HIDE DEF s, a
  <2>5. Len(a \o <<>>) = Len(a) + 0
    BY <2>3, EmptySeq, ConcatProperties
  <2> QED BY <1>2, <2>2, <2>3, <2>4, <2>5
<1>5. Complete(r) = Len(s) - (IF Loose(v) THEN 1 ELSE 0)
  BY DEF Complete
<1>6. Loose(v) <=> scan[v].has /\ tail \in Event
  BY DEF Loose
<1> HIDE DEF s, Visible
<1>7. Complete(r) \in Int /\ Complete(r) <= Len(s) /\ Complete(r) <= Len(ledger)
  BY <1>1, <1>2, <1>3, <1>4, <1>5, <1>6
<1>8. Holds(s, Complete(r))
  BY <1>1, <1>7, LinesHold
<1> QED BY <1>8 DEF s

LEMMA ReaderStep ==
    ASSUME RepairIsUninterrupted
    PROVE  BaseInv /\ BaseInv' /\ ReaderInv /\ [Next]_vars => ReaderInv'
<1> DEFINE Still(s, n) == \A i \in 1..n : i <= Len(Content') /\ Content'[i] = s[i]
<1> SUFFICES ASSUME BaseInv, BaseInv', ReaderInv, [Next]_vars
             PROVE  /\ Still(batch'.out, Complete(batch'))
                    /\ \A v \in Verifiers :
                           scan'[v].ok => Still(scan'[v].out, Complete(scan'[v]))
  BY DEF ReaderInv, VerifiedReadLasts, VerifyNeverInvents, Holds, Complete
<1>1. /\ IsPrefixOf(Content, Content')
      /\ Content \in Seq(Event) /\ Content' \in Seq(Event)
  BY ContentGrows, ContentType, ContentTypeNext
<1>2. \A s, n : Holds(s, n) => Still(s, n)
  <2>1. Len(Content) \in Nat /\ Len(Content') \in Nat
    BY <1>1
  <2> HIDE DEF Content
  <2>2. ASSUME NEW s, NEW n, Holds(s, n), NEW i \in 1..n
        PROVE  i <= Len(Content') /\ Content'[i] = s[i]
    <3>1. i <= Len(Content) /\ Content[i] = s[i] /\ i \in Nat /\ i >= 1
      BY <2>2 DEF Holds
    <3>2. i \in 1..Len(Content)
      BY <3>1, <2>1
    <3> QED BY <3>1, <3>2, <2>1, <1>1 DEF IsPrefixOf
  <2> QED BY <2>2
<1>3. scan \in [Verifiers -> [pc : {"idle", "listing", "reading", "done"},
                                 parts : Nat, has : BOOLEAN,
                                 out : Seq(Event), loose : BOOLEAN, ok : BOOLEAN]]
  BY DEF BaseInv, TypeOK
<1>4. /\ Still(batch.out, Complete(batch))
      /\ \A v \in Verifiers : scan[v].ok => Still(scan[v].out, Complete(scan[v]))
  <2> HIDE DEF Still
  <2> QED BY <1>2 DEF ReaderInv, VerifiedReadLasts, VerifyNeverInvents
<1> DEFINE read == [out |-> Visible, loose |-> tail \in Event]
<1>5. Still(read.out, Complete(read))
  <2>1. read.out = Visible /\ read.loose = (tail \in Event)
    OBVIOUS
  <2> HIDE DEF Still, read, Visible
  <2> QED BY <1>2, <2>1, VisibleLasts
<1> HIDE DEF Still
<1>6. batch' \in {batch, read}
  BY DEF Next, Request, CallAppend, CallGoverned, CallImport, CallRotate, CallRead, Call,
         Step, Acquire, LockTimeout, RecoverNothing, RecoverTruncate, BeginLine, EndLine,
         Rewritten, Written, Refuse, AnswerStored, Build, RotateNothing, RotateRename,
         RotateCreate, ReadVerified, Return, Fault, Kill, WriteError, Verify, ListPartitions,
         ListActive, ReadListed, EndScan, vars, ghost
<1>7. scan' = scan \/ \E v \in Verifiers : Verify(v)
  BY DEF Next, Request, CallAppend, CallGoverned, CallImport, CallRotate, CallRead, Call,
         Step, Acquire, LockTimeout, RecoverNothing, RecoverTruncate, BeginLine, EndLine,
         Rewritten, Written, Refuse, AnswerStored, Build, RotateNothing, RotateRename,
         RotateCreate, ReadVerified, Return, Fault, Kill, WriteError, vars
<1>8. ASSUME NEW v \in Verifiers, Verify(v), NEW w \in Verifiers, scan'[w].ok
      PROVE  Still(scan'[w].out, Complete(scan'[w]))
  <2>1. CASE w # v
    <3>1. scan'[w] = scan[w]
      BY <1>8, <2>1, <1>3 DEF Verify, ListPartitions, ListActive, ReadListed, EndScan
    <3> QED BY <3>1, <1>4, <1>8
  <2>2. CASE w = v
    <3>1. CASE ListPartitions(v)
      BY <3>1, <2>2, <1>3, <1>8 DEF ListPartitions
    <3>2. CASE ListActive(v)
      <4>1. /\ scan'[v].ok = scan[v].ok /\ scan'[v].out = scan[v].out
            /\ Complete(scan'[v]) = Complete(scan[v])
        BY <3>2, <1>3 DEF ListActive, Complete
      <4> QED BY <4>1, <2>2, <1>4, <1>8
    <3>3. CASE ReadListed(v)
      <4>1. /\ scan'[v].ok = (FilesOK(v) /\ ChainOK(Scanned(v)))
            /\ scan'[v].out = Scanned(v) /\ scan'[v].loose = Loose(v)
        BY <3>3, <1>3 DEF ReadListed
      <4>2. Linked(Scanned(v))
        BY <4>1, <1>8, <2>2 DEF ChainOK
      <4>3. Holds(Scanned(v), Complete(scan'[v]))
        BY <4>1, <4>2, ScannedHolds
      <4> QED BY <4>1, <4>3, <1>2, <2>2
    <3>4. CASE EndScan(v)
      BY <3>4, <2>2, <1>3, <1>8 DEF EndScan, NoScan
    <3> QED BY <1>8, <3>1, <3>2, <3>3, <3>4 DEF Verify
  <2> QED BY <2>1, <2>2
<1> QED BY <1>4, <1>5, <1>6, <1>7, <1>8

LEMMA ReadersHold == RepairIsUninterrupted => (Spec => []ReaderInv)
<1>1. Init => ReaderInv
  BY DEF Init, ReaderInv, VerifiedReadLasts, VerifyNeverInvents, Holds, Complete, NoScan, NoBatch
<1>2. ASSUME RepairIsUninterrupted
      PROVE  BaseInv /\ BaseInv' /\ ReaderInv /\ [Next]_vars => ReaderInv'
  BY <1>2, ReaderStep
<1>3. ASSUME RepairIsUninterrupted PROVE Spec => []ReaderInv
  BY <1>1, <1>2, <1>3, BaseInvariant, PTL DEF Spec
<1> QED BY <1>3

(* What read_verified_replay certified stays in the ledger through every   *)
(* later repair, rotation, kill and write error.  A last record is         *)
(* excepted only if it lacked its newline when it was read.                *)
THEOREM CertifiedReadsLast ==
    ASSUME RepairIsUninterrupted
    PROVE  Spec => []VerifiedReadLasts
<1>1. Spec => []ReaderInv
  BY ReadersHold
<1>2. ReaderInv => VerifiedReadLasts
  BY DEF ReaderInv
<1> QED BY <1>1, <1>2, PTL

(* A verify() that takes no lock, reads file after file while others       *)
(* write, repair and rotate, and finds the chain in order has read what    *)
(* the ledger holds, and nothing else but a last record that lacked its    *)
(* newline when it was read.                                               *)
THEOREM UnlockedVerifyIsSound ==
    ASSUME RepairIsUninterrupted
    PROVE  Spec => []VerifyNeverInvents
<1>1. Spec => []ReaderInv
  BY ReadersHold
<1>2. ReaderInv => VerifyNeverInvents
  BY DEF ReaderInv
<1> QED BY <1>1, <1>2, PTL

-----------------------------------------------------------------------------
(* Governed appends.                                                       *)

(* The one event a governed append is about to write follows the head that *)
(* its caller evaluated.                                                   *)
GovernedInv(p) ==
    op[p].kind = "governed" /\ pc[p] = "write" =>
        /\ Len(goal[p]) <= Len(ledger) + 1
        /\ Len(ledger) < Len(goal[p]) => goal[p][Len(ledger) + 1].prev = op[p].exp

(* While a process writes its events, nobody else touches the ledger.      *)
LEMMA WriterOwnsLedger ==
    ASSUME BaseInv, [Next]_vars, NEW q \in Procs, pc[q] = "write"
    PROVE  /\ ledger' = ledger \/ EndLine(q)
           /\ pc'[q] = "write" => goal'[q] = goal[q] /\ op'[q] = op[q]
<1> DEFINE Goal == /\ ledger' = ledger \/ EndLine(q)
                   /\ pc'[q] = "write" => goal'[q] = goal[q] /\ op'[q] = op[q]
<1> SUFFICES Goal
  OBVIOUS
<1>0. /\ \A p \in Procs : p # q => pc[p] \notin Locked
      /\ pc \in [Procs -> Locked \cup {"idle", "wait"}]
      /\ goal \in [Procs -> Seq(Event)]
      /\ op \in [Procs -> [kind : {"none", "append", "governed", "import", "rotate", "read"},
                           cmds : Seq(Command), exp : Int]]
  BY BaseFacts DEF Locked, BaseInv, TypeOK
<1>1. ASSUME NEW p \in Procs, Request(p) PROVE Goal
  BY <1>0, <1>1 DEF Request, CallAppend, CallGoverned, CallImport, CallRotate, CallRead,
                    Call, Goto, disk
<1>2. ASSUME NEW p \in Procs, Step(p) PROVE Goal
  <2>1. CASE Acquire(p) \/ LockTimeout(p)
    BY <2>1, <1>0 DEF Acquire, LockTimeout, Goto, disk
  <2>2. CASE p # q /\ ~Acquire(p) /\ ~LockTimeout(p)
    <3>1. pc[p] \notin Locked
      BY <1>0, <2>2
    <3> QED BY <1>2, <2>2, <3>1
       DEF Step, RecoverNothing, RecoverTruncate, BeginLine, EndLine, Rewritten, Written,
           Refuse, AnswerStored, Build, RotateNothing, RotateRename, RotateCreate,
           ReadVerified, Return, Locked
  <2>3. CASE p = q /\ ~Acquire(p) /\ ~LockTimeout(p)
    <3>1. BeginLine(q) \/ EndLine(q) \/ Written(q)
      BY <1>2, <2>3
         DEF Step, RecoverNothing, RecoverTruncate, Rewritten, Refuse, AnswerStored,
             Build, RotateNothing, RotateRename, RotateCreate, ReadVerified, Return
    <3>2. CASE BeginLine(q) \/ EndLine(q)
      BY <3>2 DEF BeginLine, EndLine, local
    <3>3. CASE Written(q)
      BY <3>3, <1>0 DEF Written, Goto, disk
    <3> QED BY <3>1, <3>2, <3>3
  <2> QED BY <2>1, <2>2, <2>3
<1>3. ASSUME NEW p \in Procs, Fault(p) PROVE Goal
  BY <1>0, <1>3 DEF Fault, Kill, WriteError, Goto, disk
<1>4. ASSUME NEW v \in Verifiers, Verify(v) PROVE Goal
  BY <1>4 DEF Verify, ListPartitions, ListActive, ReadListed, EndScan, disk, local
<1>5. CASE UNCHANGED vars
  BY <1>5 DEF vars, disk, local
<1> QED BY <1>1, <1>2, <1>3, <1>4, <1>5 DEF Next

LEMMA WritingStartsWithBuild ==
    ASSUME BaseInv, [Next]_vars, NEW q \in Procs, pc[q] # "write", pc'[q] = "write"
    PROVE  Build(q)
<1>0. pc \in [Procs -> Locked \cup {"idle", "wait"}]
  BY DEF BaseInv, TypeOK
<1>1. \A p \in Procs : ~Request(p) /\ ~Fault(p)
  BY <1>0 DEF Request, CallAppend, CallGoverned, CallImport, CallRotate, CallRead, Call,
              Fault, Kill, WriteError, Goto
<1>2. ASSUME NEW p \in Procs, Step(p) PROVE Build(q)
  <2>1. CASE Acquire(p)
    <3>1. Entry(op[p].kind) \in {"rotate", "read", "recover"}
      BY DEF Entry
    <3>2. pc' = [pc EXCEPT ![p] = Entry(op[p].kind)]
      BY <2>1 DEF Acquire, Goto
    <3>3. pc'[q] = pc[q] \/ pc'[q] = Entry(op[p].kind)
      BY <3>2, <1>0
    <3> QED BY <3>1, <3>3
  <2>2. CASE Build(p)
    <3>1. pc' = [pc EXCEPT ![p] = "write"]
      BY <2>2 DEF Build, Goto
    <3>2. p = q
      BY <3>1, <1>0
    <3> QED BY <2>2, <3>2
  <2> QED BY <1>0, <1>2, <2>1, <2>2
       DEF Step, LockTimeout, RecoverNothing, RecoverTruncate, BeginLine, EndLine,
           Rewritten, Written, Refuse, AnswerStored, RotateNothing, RotateRename,
           RotateCreate, ReadVerified, Return, Goto, local
<1>3. \A v \in Verifiers : ~Verify(v)
  BY DEF Verify, ListPartitions, ListActive, ReadListed, EndScan, local
<1>4. ~UNCHANGED vars
  BY DEF vars, local
<1> QED BY <1>1, <1>2, <1>3, <1>4 DEF Next

LEMMA GovernedStep ==
    ASSUME BaseInv, [Next]_vars, NEW q \in Procs, OpInv(q), GovernedInv(q)
    PROVE  GovernedInv(q)'
<1> SUFFICES ASSUME op'[q].kind = "governed", pc'[q] = "write"
             PROVE  /\ Len(goal'[q]) <= Len(ledger') + 1
                    /\ Len(ledger') < Len(goal'[q])
                         => goal'[q][Len(ledger') + 1].prev = op'[q].exp
  BY DEF GovernedInv
<1>0. /\ goal \in [Procs -> Seq(Event)] /\ op'[q].exp = op'[q].exp
      /\ ledger \in Seq(Event) /\ Len(ledger) \in Nat
      /\ goal[q] \in Seq(Event) /\ Len(goal[q]) \in Nat
  BY BaseFacts
<1>1. CASE pc[q] = "write"
  <2>1. goal'[q] = goal[q] /\ op'[q] = op[q] /\ (ledger' = ledger \/ EndLine(q))
    BY <1>1, WriterOwnsLedger
  <2>2. CASE ledger' = ledger
    BY <1>1, <2>1, <2>2 DEF GovernedInv
  <2>3. CASE EndLine(q)
    <3>1. Len(ledger') = Len(ledger) + 1 /\ Len(ledger) < Len(goal[q])
      BY <2>3, <1>0 DEF EndLine
    <3> QED BY <1>0, <1>1, <2>1, <3>1 DEF GovernedInv
  <2> QED BY <2>1, <2>2, <2>3
<1>2. CASE pc[q] # "write"
  <2>1. Build(q)
    BY <1>2, WritingStartsWithBuild
  <2>2. /\ ~Refused(q) /\ UNCHANGED <<ledger, op>> /\ goal'[q] = NewEvents(q)
    BY <2>1, <1>0 DEF Build, disk, NewEvents
  <2>3. op[q].kind = "governed" /\ op[q].exp \in Nat
    BY <2>2 DEF OpInv
  <2>4. op[q].exp = LastUid(ledger)
    BY <2>2, <2>3 DEF Refused, HeadUnchanged
  <2>5. PICK c \in Cmds : op[q].cmds = <<c>>
    BY <2>3 DEF OpInv, Appending
  <2>6. Len(op[q].cmds) = 1
    BY <2>5
  <2>7. /\ Len(NewEvents(q)) = Len(ledger) + 1
        /\ NewEvents(q)[Len(ledger) + 1] = Made(ledger, op[q].cmds, 1, op[q].kind = "import")
    <3>1. 1 \in 1..Len(op[q].cmds)
      BY <2>6
    <3> QED BY <2>1, <2>6, <3>1, BuildFacts
  <2>8. Made(ledger, op[q].cmds, 1, op[q].kind = "import").prev = LastUid(ledger)
    BY DEF Made
  <2> QED BY <1>0, <2>2, <2>4, <2>7, <2>8
<1> QED BY <1>1, <1>2

LEMMA GovernedHolds == Spec => []\A p \in Procs : OpInv(p) /\ GovernedInv(p)
<1>1. Init => \A p \in Procs : OpInv(p) /\ GovernedInv(p)
  BY NothingWritten DEF GovernedInv, Writing
<1>2. BaseInv /\ (\A p \in Procs : OpInv(p) /\ GovernedInv(p)) /\ [Next]_vars
        => (\A p \in Procs : OpInv(p) /\ GovernedInv(p))'
  BY OpStep, GovernedStep
<1> QED BY <1>1, <1>2, BaseInvariant, PTL DEF Spec

(* A governed append takes effect only directly after the head its caller  *)
(* evaluated: between the evaluation and the lock other writers may run,   *)
(* between the comparison and the last byte nobody can (expected_head).    *)
THEOREM GovernedFollowsEvaluatedHead == Spec => GovernedOnEvaluatedHead
<1> DEFINE A == \A p \in Procs :
         op[p].kind = "governed" /\ pc[p] = "write" /\ Len(ledger') > Len(ledger)
         => ledger'[Len(ledger')].prev = op[p].exp
<1>1. BaseInv /\ (\A p \in Procs : OpInv(p) /\ GovernedInv(p)) /\ [Next]_vars => [A]_vars
  <2> SUFFICES ASSUME BaseInv, \A p \in Procs : OpInv(p) /\ GovernedInv(p), [Next]_vars,
                      NEW p \in Procs, op[p].kind = "governed", pc[p] = "write",
                      Len(ledger') > Len(ledger)
               PROVE  ledger'[Len(ledger')].prev = op[p].exp
    OBVIOUS
  <2>0. ledger \in Seq(Event) /\ Len(ledger) \in Nat /\ goal[p] \in Seq(Event)
    BY BaseFacts
  <2>1. EndLine(p)
    BY WriterOwnsLedger, <2>0
  <2>2. Len(ledger) < Len(goal[p]) /\ ledger' = Append(ledger, goal[p][Len(ledger) + 1])
    BY <2>1 DEF EndLine
  <2>3. ledger'[Len(ledger')] = goal[p][Len(ledger) + 1]
    BY <2>0, <2>2
  <2> QED BY <2>2, <2>3 DEF GovernedInv
<1>2. Spec => [][A]_vars
  BY <1>1, BaseInvariant, GovernedHolds, PTL DEF Spec
<1> QED BY <1>2 DEF GovernedOnEvaluatedHead

-----------------------------------------------------------------------------
(* The abstract event log.                                                 *)

LEMMA RepairPutsBack ==
    ASSUME BaseInv, [Next]_vars, NEW q \in Procs, pc'[q] = "rewrite"
    PROVE  goal'[q] = ledger \/ (pc[q] = "rewrite" /\ goal'[q] = goal[q])
<1> DEFINE Goal == goal'[q] = ledger \/ (pc[q] = "rewrite" /\ goal'[q] = goal[q])
<1> SUFFICES Goal
  OBVIOUS
<1>0. /\ pc \in [Procs -> Locked \cup {"idle", "wait"}]
      /\ goal \in [Procs -> Seq(Event)]
  BY DEF BaseInv, TypeOK
<1>1. ASSUME NEW p \in Procs, Request(p) PROVE Goal
  BY <1>0, <1>1 DEF Request, CallAppend, CallGoverned, CallImport, CallRotate, CallRead,
                    Call, Goto
<1>2. ASSUME NEW p \in Procs, Step(p) PROVE Goal
  <2>1. CASE Acquire(p)
    <3>1. Entry(op[p].kind) \in {"rotate", "read", "recover"}
      BY DEF Entry
    <3> QED BY <2>1, <3>1, <1>0 DEF Acquire, Goto
  <2>2. CASE Build(p)
    <3>1. pc' = [pc EXCEPT ![p] = "write"] /\ \E g : goal' = [goal EXCEPT ![p] = g]
      BY <2>2 DEF Build, Goto
    <3> QED BY <3>1, <1>0
  <2>3. CASE RecoverTruncate(p)
    BY <2>3, <1>0 DEF RecoverTruncate, Goto
  <2>4. CASE \/ LockTimeout(p) \/ RecoverNothing(p) \/ Rewritten(p) \/ Written(p)
             \/ Refuse(p) \/ AnswerStored(p) \/ RotateNothing(p) \/ RotateRename(p)
             \/ RotateCreate(p) \/ ReadVerified(p) \/ Return(p)
    <3>1. /\ goal' = [goal EXCEPT ![p] = <<>>] \/ goal' = goal
          /\ \E l \in {"idle", "check", "ret", "fail", "create"} : pc' = [pc EXCEPT ![p] = l]
      BY <2>4 DEF LockTimeout, RecoverNothing, Rewritten, Written, Refuse, AnswerStored,
                  RotateNothing, RotateRename, RotateCreate, ReadVerified, Return, Goto
    <3> QED BY <3>1, <1>0
  <2>5. CASE BeginLine(p) \/ EndLine(p)
    BY <2>5 DEF BeginLine, EndLine, local
  <2> QED BY <1>2, <2>1, <2>2, <2>3, <2>4, <2>5 DEF Step
<1>3. ASSUME NEW p \in Procs, Fault(p) PROVE Goal
  BY <1>0, <1>3 DEF Fault, Kill, WriteError, Goto
<1>4. ASSUME NEW v \in Verifiers, Verify(v) PROVE Goal
  BY <1>4 DEF Verify, ListPartitions, ListActive, ReadListed, EndScan, local
<1>5. CASE UNCHANGED vars
  BY <1>5 DEF vars, local
<1> QED BY <1>1, <1>2, <1>3, <1>4, <1>5 DEF Next

LEMMA LedgerByOne ==
    ASSUME BaseInv, [Next]_vars PROVE Len(ledger') <= Len(ledger) + 1
<1>0. ledger \in Seq(Event) /\ Len(ledger) \in Nat
  BY BaseFacts
<1>1. CASE ledger' = ledger
  BY <1>0, <1>1
<1>2. ASSUME NEW p \in Procs, RecoverTruncate(p) PROVE Len(ledger') <= Len(ledger) + 1
  <2>1. ledger' = SubSeq(ledger, 1, Archived) /\ Archived \in 0..Len(ledger)
    BY <1>2, VisibleType DEF RecoverTruncate, BaseInv
  <2>2. Len(SubSeq(ledger, 1, Archived)) = Archived
    BY <1>0, <2>1, SubSeqProperties, ElementOfSeq
  <2> QED BY <1>0, <2>1, <2>2
<1>3. ASSUME NEW p \in Procs, EndLine(p) PROVE Len(ledger') <= Len(ledger) + 1
  BY <1>0, <1>3 DEF EndLine
<1>4. ASSUME NEW p \in Procs, RotateRename(p) PROVE Len(ledger') <= Len(ledger) + 1
  BY <1>0, <1>4 DEF RotateRename, Visible
<1>5. (\A p \in Procs : ~RecoverTruncate(p) /\ ~EndLine(p) /\ ~RotateRename(p))
        => ledger' = ledger
  BY DEF Next, Request, CallAppend, CallGoverned, CallImport, CallRotate, CallRead, Call,
         Step, Acquire, LockTimeout, RecoverNothing, BeginLine,
         Rewritten, Written, Refuse, AnswerStored, Build, RotateNothing,
         RotateCreate, ReadVerified, Return, Fault, Kill, WriteError, Verify, ListPartitions,
         ListActive, ReadListed, EndScan, vars, disk
<1> QED BY <1>1, <1>2, <1>3, <1>4, <1>5

(* A step leaves the content as it is or extends it by one event.          *)
LEMMA ContentByOne ==
    ASSUME RepairIsUninterrupted, BaseInv, BaseInv', [Next]_vars
    PROVE  Content' = Content \/ Len(Content') = Len(Content) + 1
<1>0. /\ ledger \in Seq(Event) /\ Len(ledger) \in Nat
      /\ Content \in Seq(Event) /\ Content' \in Seq(Event)
      /\ Len(Content) \in Nat /\ Len(Content') \in Nat
      /\ Len(ledger) <= Len(Content)
      /\ LockExclusive /\ LockExclusive'
  BY BaseFacts, ContentType, ContentTypeNext, LedgerInContent DEF IsPrefixOf, BaseInv
<1>1. Len(Content') <= Len(Content) + 1
  <2>1. ASSUME NEW p \in Procs, pc'[p] = "rewrite" PROVE Len(Content') <= Len(Content) + 1
    <3>1. Content' = goal'[p]
      BY <2>1, <1>0, ContentIsNext
    <3>2. CASE goal'[p] = ledger
      BY <1>0, <3>1, <3>2
    <3>3. CASE pc[p] = "rewrite" /\ goal'[p] = goal[p]
      <4>1. Content = goal[p]
        BY <1>0, <3>3, ContentIs DEF ContentMeaning
      <4> QED BY <1>0, <3>1, <3>3, <4>1
    <3> QED BY <2>1, <3>2, <3>3, RepairPutsBack
  <2>2. CASE \A p \in Procs : pc'[p] # "rewrite"
    <3>1. Content' = ledger'
      BY <2>2, <1>0, ContentIsNext
    <3> QED BY <3>1, <1>0, LedgerByOne
  <2> QED BY <2>1, <2>2
<1>2. IsPrefixOf(Content, Content')
  BY ContentGrows
<1> HIDE DEF Content
<1>3. CASE Len(Content') = Len(Content)
  BY <1>0, <1>2, <1>3, SeqEqual DEF IsPrefixOf
<1> QED BY <1>0, <1>1, <1>2, <1>3 DEF IsPrefixOf

(* Only a call that returns acknowledges, and it does nothing else.        *)
LEMMA AcknowledgeAlone ==
    ASSUME BaseInv, BaseInv', [Next]_vars, acked' # acked
    PROVE  acked \subseteq acked' /\ Content' = Content
<1>1. PICK p \in Procs : Return(p)
  BY DEF Next, Request, CallAppend, CallGoverned, CallImport, CallRotate, CallRead, Call,
         Step, Acquire, LockTimeout, RecoverNothing, RecoverTruncate, BeginLine, EndLine,
         Rewritten, Written, Refuse, AnswerStored, Build, RotateNothing, RotateRename,
         RotateCreate, ReadVerified, Fault, Kill, WriteError, Verify, ListPartitions,
         ListActive, ReadListed, EndScan, vars, ghost
<1>2. /\ pc[p] \in {"ret", "fail"} /\ pc' = [pc EXCEPT ![p] = "idle"]
      /\ ledger' = ledger /\ acked \subseteq acked'
  BY <1>1 DEF Return, Goto, disk
<1>3. \A q \in Procs : pc[q] # "rewrite" /\ pc'[q] # "rewrite"
  BY <1>2, BaseFacts DEF Locked
<1>4. Content = ledger /\ Content' = ledger'
  BY <1>3, ContentIs, ContentIsNext DEF BaseInv, ContentMeaning
<1> QED BY <1>2, <1>4

LEMMA ContentLinked == BaseInv => Linked(Content)
<1> SUFFICES ASSUME BaseInv PROVE Linked(Content)
  OBVIOUS
<1> QED BY ContentFrom, BaseFacts DEF BaseInv, WriterInv, Writing

(* What every state promises to the abstract log.                          *)
LogInv == /\ Linked(Content)
          /\ KeysOnce(Content)
          /\ AckedDurable

LEMMA LogStep ==
    ASSUME RepairIsUninterrupted
    PROVE  BaseInv /\ BaseInv' /\ LogInv' /\ [Next]_vars => [Log!Next]_(Log!vars)
<1> SUFFICES ASSUME BaseInv, BaseInv', LogInv', [Next]_vars
             PROVE  [Log!Next]_(Log!vars)
  OBVIOUS
<1>1. /\ IsPrefixOf(Content, Content')
      /\ Content' = Content \/ Len(Content') = Len(Content) + 1
      /\ acked' = acked \/ (acked \subseteq acked' /\ Content' = Content)
      /\ Content \in Seq(Event) /\ Content' \in Seq(Event)
  BY ContentGrows, ContentByOne, AcknowledgeAlone, ContentType, ContentTypeNext
<1>2. /\ \A i \in 1..Len(Content') :
            /\ Content'[i].seq = i
            /\ Content'[i].prev = IF i = 1 THEN 0 ELSE Content'[i-1].uid
      /\ \A i, j \in 1..Len(Content') :
            i < j /\ Content'[i].key = Content'[j].key /\ Content'[i].key # NoKey
              => Content'[j].imported
      /\ \A e \in acked' : e.seq \in 1..Len(Content') /\ Content'[e.seq] = e
  BY DEF LogInv, Linked, KeysOnce, AckedDurable, At
<1> HIDE DEF Content
<1>3. CASE Content' = Content /\ acked' = acked
  BY <1>3 DEF Log!vars
<1>4. CASE acked' # acked
  <2>1. Log!Acknowledge
    BY <1>1, <1>2, <1>4 DEF Log!Acknowledge
  <2> QED BY <2>1 DEF Log!Next
<1>5. CASE Len(Content') = Len(Content) + 1 /\ acked' = acked
  <2> DEFINE n == Len(Content')
  <2>1. n \in 1..n
    BY <1>1, <1>5
  <2>2. Log!Linked(Content', n)
    BY <2>1, <1>2 DEF Log!Linked
  <2>3. Log!KeyIsNew(Content', n)
    <3>1. ASSUME Content'[n].key # NoKey, ~Content'[n].imported, NEW j \in 1..(n-1)
          PROVE  Content'[j].key # Content'[n].key
      BY <1>1, <1>2, <2>1, <3>1
    <3> QED BY <3>1 DEF Log!KeyIsNew
  <2>4. \A i \in 1..Len(Content) : Content'[i] = Content[i]
    BY <1>1 DEF IsPrefixOf
  <2>5. Log!Extend
    BY <1>5, <2>2, <2>3, <2>4 DEF Log!Extend
  <2> QED BY <2>5 DEF Log!Next
<1> QED BY <1>1, <1>3, <1>4, <1>5

(* The store implements the abstract event log: whatever calls, rotations, *)
(* repairs, kills and write errors happen, its callers see one sequence of *)
(* linked events that is only ever extended, and never lose an event they  *)
(* were given.                                                             *)
THEOREM LedgerIsALog ==
    ASSUME RepairIsUninterrupted
    PROVE  Spec => ImplementsLog
<1>1. Init => Log!Init
  <2> SUFFICES ASSUME Init PROVE Log!Init
    OBVIOUS
  <2>1. Content = <<>> /\ acked = {}
    BY DEF Init, Content
  <2> QED BY <2>1 DEF Log!Init
<1>2. BaseInv /\ BaseInv' /\ LogInv' /\ [Next]_vars => [Log!Next]_(Log!vars)
  BY LogStep
<1>3. BaseInv /\ KeysInv /\ AckedDurable => LogInv
  BY ContentLinked, KeysOfContent DEF LogInv
<1>4. Spec => []AckedDurable
  BY AckedNeverLost
<1>5. Spec => Log!Spec
  BY <1>1, <1>2, <1>3, <1>4, BaseInvariant, KeysHold, PTL DEF Spec, Log!Spec
<1> QED BY <1>5 DEF ImplementsLog

-----------------------------------------------------------------------------
(* Event ids.                                                              *)

(* The ids callers make up, the ids derived from keys and the fresh ones   *)
(* are apart (UUIDs of different versions), different keys give different  *)
(* ids, and who names a derived id gives its key with it.  Without it two  *)
(* events can share an id: the scan for the same request does not compare  *)
(* the id it is about to derive (_append_unchecked, step 3).               *)
IdsAreApart ==
    /\ Ids \cap Nat = {}
    /\ \A k, l \in Keys : DetId[k] = DetId[l] => k = l
    /\ \A c \in Cmds, k \in Keys : c.eid = DetId[k] => c.key = k
    /\ \A cs \in Batches : \A i \in 1..Len(cs), k \in Keys :
          cs[i].eid = DetId[k] => cs[i].key = k

(* A fresh id is its event's own; a derived id is with its key.            *)
IdFits(e, n) ==
    /\ e.uid <= n
    /\ e.eid \in Nat => e.eid = e.uid
    /\ \A k \in Keys : e.eid = DetId[k] => e.key = k

IdsOK(s, n) == IdsDiffer(s) /\ \A i \in 1..Len(s) : IdFits(s[i], n)

IdsInv == IdsOK(Visible, built) /\ \A p \in Procs : Writing(p) => IdsOK(goal[p], built)

LEMMA IdsPrefix ==
    ASSUME NEW s \in Seq(Event), NEW t \in Seq(Event), IsPrefixOf(s, t),
           NEW n, IdsOK(t, n)
    PROVE  IdsOK(s, n)
<1>1. Len(s) \in Nat /\ Len(t) \in Nat /\ Len(s) <= Len(t)
  BY DEF IsPrefixOf
<1>2. \A i \in 1..Len(s) : i \in 1..Len(t) /\ s[i] = t[i]
  BY <1>1 DEF IsPrefixOf
<1>3. IdsDiffer(t) /\ \A i \in 1..Len(t) : IdFits(t[i], n)
  BY DEF IdsOK
<1>4. IdsDiffer(s)
  BY <1>2, <1>3 DEF IdsDiffer
<1>5. \A i \in 1..Len(s) : IdFits(s[i], n)
  BY <1>2, <1>3
<1> QED BY <1>4, <1>5 DEF IdsOK

LEMMA IdsLater ==
    ASSUME NEW s \in Seq(Event), NEW m \in Nat, NEW n \in Nat, m <= n, IdsOK(s, m)
    PROVE  IdsOK(s, n)
<1>1. ASSUME NEW i \in 1..Len(s) PROVE s[i].uid \in Nat
  <2>1. s[i] \in Event
    BY ElementOfSeq
  <2> QED BY <2>1 DEF Event
<1> QED BY <1>1 DEF IdsOK, IdFits

(* Every new event's id fits it.                                           *)
LEMMA NewIdsFit ==
    ASSUME IdsAreApart, BaseInv, NEW p \in Procs, OpInv(p), Build(p),
           NEW i \in 1..Len(op[p].cmds)
    PROVE  /\ NewEvents(p)[Len(ledger) + i].eid = IdOf(op[p].cmds[i], built + i)
           /\ NewEvents(p)[Len(ledger) + i].key = op[p].cmds[i].key
           /\ IdFits(NewEvents(p)[Len(ledger) + i], built + Len(op[p].cmds))
<1> DEFINE c == op[p].cmds[i]
           e == NewEvents(p)[Len(ledger) + i]
<1>1. e.uid = built + i /\ e.key = c.key /\ e.eid = IdOf(c, built + i)
  <2>1. e = Made(ledger, op[p].cmds, i, op[p].kind = "import")
    BY BuildFacts
  <2> HIDE DEF e
  <2> QED BY <2>1 DEF Made
<1>2. /\ built \in Nat /\ i \in Nat /\ op[p].cmds \in Seq(Command)
      /\ Len(op[p].cmds) \in Nat /\ i <= Len(op[p].cmds) /\ c \in Command
  BY BuildFacts, ElementOfSeq DEF BaseInv, TypeOK
<1>3. \A k \in Keys : c.eid = DetId[k] => c.key = k
  <2>1. CASE op[p].cmds \in Batches
    BY <2>1 DEF IdsAreApart
  <2>2. ASSUME NEW d \in Cmds, op[p].cmds = <<d>> PROVE c \in Cmds
    <3>1. Len(op[p].cmds) = 1 /\ op[p].cmds[1] = d
      BY <2>2
    <3> QED BY <3>1, <1>2
  <2> QED BY <2>1, <2>2, BuildFacts DEF IdsAreApart
<1>4. /\ c.eid \in Ids \cup {NoId} /\ c.key \in Keys \cup {NoKey}
      /\ \A k \in Keys : DetId[k] \in Ids
      /\ \A k, l \in Keys : DetId[k] = DetId[l] => k = l
      /\ NoId \notin Ids /\ \A x \in Ids : x \notin Nat
  BY <1>2, DetIdAssumption, KeyAssumption DEF Command, IdsAreApart
<1> HIDE DEF c, e
<1>5. e.uid <= built + Len(op[p].cmds)
  BY <1>1, <1>2
<1>6. e.eid \in Nat => e.eid = e.uid
  BY <1>1, <1>4 DEF IdOf
<1>7. \A k \in Keys : e.eid = DetId[k] => e.key = k
  <2>1. built + i \in Nat
    BY <1>2
  <2> QED BY <1>1, <1>3, <1>4, <2>1 DEF IdOf
<1>8. IdFits(e, built + Len(op[p].cmds))
  BY <1>5, <1>6, <1>7 DEF IdFits
<1> QED BY <1>1, <1>8 DEF c, e

LEMMA IdsBuilt ==
    ASSUME IdsAreApart, BaseInv, NEW p \in Procs, OpInv(p), Build(p), IdsOK(ledger, built)
    PROVE  IdsOK(NewEvents(p), built + Len(op[p].cmds))
<1> DEFINE s == NewEvents(p)
           n == Len(ledger)
           cs == op[p].cmds
           m == built + Len(cs)
<1>1. /\ n \in Nat /\ Len(cs) \in Nat /\ Len(s) = n + Len(cs) /\ built \in Nat
      /\ ledger \in Seq(Event)
      /\ \A i \in 1..n : s[i] = ledger[i]
  BY BuildFacts, BaseFacts DEF BaseInv, TypeOK
<1>2. \A i \in 1..Len(cs) : s[n + i].eid = IdOf(cs[i], built + i) /\ IdFits(s[n + i], m)
  BY NewIdsFit
<1>3. ASSUME NEW j \in 1..Len(s), j > n PROVE j - n \in 1..Len(cs) /\ j = n + (j - n)
  BY <1>1, <1>3
<1>4. IdsDiffer(ledger) /\ IdsOK(ledger, m)
  <2>1. m \in Nat /\ built <= m
    BY <1>1
  <2> HIDE DEF m
  <2> QED BY <1>1, <2>1, IdsLater DEF IdsOK
<1>5. ASSUME NEW j \in 1..Len(s) PROVE IdFits(s[j], m)
  <2>1. CASE j <= n
    <3>1. j \in 1..n
      BY <2>1, <1>1
    <3> QED BY <3>1, <1>1, <1>4 DEF IdsOK
  <2>2. CASE j > n
    BY <2>2, <1>2, <1>3
  <2> QED BY <1>1, <2>1, <2>2
<1>6. ASSUME NEW i \in 1..Len(s), NEW j \in 1..Len(s), j > n, i # j
      PROVE  s[i].eid # s[j].eid
  <2>1. CASE op[p].kind = "import"
    <3> DEFINE t == Built(ledger, cs, TRUE)
    <3>1. /\ \A k \in 1..n : t[k] = ledger[k]
          /\ \A k \in 1..Len(cs) : t[n + k] = Made(ledger, cs, k, TRUE)
          /\ Len(t) = n + Len(cs)
      <4>1. TypeOK /\ cs \in Seq(Command)
        BY BuildFacts DEF BaseInv
      <4> HIDE DEF cs
      <4> QED BY <4>1, <1>1, BuiltType
    <3>2. ASSUME NEW k \in 1..Len(cs) PROVE t[n + k].eid = IdOf(cs[k], built + k)
      <4>1. t[n + k] = Made(ledger, cs, k, TRUE)
        BY <3>1
      <4> HIDE DEF t, cs, n
      <4> QED BY <4>1 DEF Made
    <3>3. FreshIds(p)
      BY <2>1, BuildFacts
    <3>4. \A x \in 1..Len(t), y \in (n + 1)..Len(t) : x # y => t[x].eid # t[y].eid
      BY <3>3 DEF FreshIds
    <3> HIDE DEF s, t
    <3>5. ASSUME NEW k \in 1..Len(s) PROVE s[k].eid = t[k].eid
      <4>1. CASE k <= n
        <5>1. k \in 1..n
          BY <4>1, <1>1
        <5> QED BY <5>1, <1>1, <3>1
      <4>2. CASE k > n
        BY <4>2, <1>2, <1>3, <3>2
      <4> QED BY <1>1, <4>1, <4>2
    <3>6. j \in (n + 1)..Len(t) /\ i \in 1..Len(t)
      BY <1>1, <1>6, <3>1
    <3> QED BY <1>6, <3>4, <3>5, <3>6
  <2>2. CASE op[p].kind # "import"
    <3>1. PICK c \in Cmds : cs = <<c>> /\ \A k \in 1..n : ~Matches(c, ledger[k])
      BY <2>2, BuildFacts
    <3>2. Len(cs) = 1 /\ cs[1] = c
      BY <3>1
    <3>3. i \in 1..n /\ j = n + 1
      BY <1>1, <1>6, <3>2
    <3>4. s[j].eid = IdOf(c, built + 1)
      <4>1. 1 \in 1..Len(cs)
        BY <3>2
      <4> QED BY <4>1, <1>2, <3>2, <3>3
    <3>5. s[i] = ledger[i] /\ IdFits(ledger[i], built) /\ ledger[i] \in Event
      BY <1>1, <3>3, ElementOfSeq DEF IdsOK
    <3>6. ~Matches(c, ledger[i])
      BY <3>1, <3>3
    <3>7. c.key \in Keys \cup {NoKey}
      BY CmdAssumption DEF Command
    <3> HIDE DEF s, n, cs
    <3> SUFFICES ASSUME ledger[i].eid = IdOf(c, built + 1) PROVE FALSE
      BY <3>4, <3>5
    <3>8. CASE c.eid # NoId
      BY <3>6, <3>8 DEF Matches, IdOf
    <3>9. CASE c.eid = NoId /\ c.key # NoKey
      <4>1. ledger[i].key = c.key
        BY <3>5, <3>7, <3>9 DEF IdOf, IdFits
      <4> QED BY <3>6, <3>9, <4>1 DEF Matches
    <3>10. CASE c.eid = NoId /\ c.key = NoKey
      <4>1. ledger[i].eid = built + 1
        BY <3>10 DEF IdOf
      <4>2. ledger[i].uid = built + 1 /\ ledger[i].uid <= built
        BY <1>1, <3>5, <4>1 DEF IdFits
      <4> QED BY <1>1, <4>2
    <3> QED BY <3>8, <3>9, <3>10
  <2> QED BY <2>1, <2>2
<1>7. ASSUME NEW i \in 1..Len(s), NEW j \in 1..Len(s), s[i].eid = s[j].eid
      PROVE  i = j
  <2>1. CASE i > n \/ j > n
    BY <2>1, <1>6, <1>7
  <2>2. CASE i <= n /\ j <= n
    <3>1. i \in 1..n /\ j \in 1..n
      BY <1>1, <2>2
    <3>2. ledger[i].eid = ledger[j].eid
      BY <1>1, <1>7, <3>1
    <3> QED BY <1>4, <3>1, <3>2 DEF IdsDiffer
  <2> QED BY <1>1, <2>1, <2>2
<1>8. IdsDiffer(s)
  BY <1>7 DEF IdsDiffer
<1> QED BY <1>5, <1>8 DEF IdsOK

LEMMA BuiltGrows ==
    ASSUME BaseInv, [Next]_vars
    PROVE  /\ built \in Nat /\ built' \in Nat /\ built <= built'
           /\ \A p \in Procs : Build(p) => built' = built + Len(op[p].cmds)
<1>0. built \in Nat /\ \A p \in Procs : op[p].cmds \in Seq(Command)
  BY DEF BaseInv, TypeOK
<1>1. \A p \in Procs : Build(p) => built' = built + Len(op[p].cmds)
  BY DEF Build
<1>2. (\A p \in Procs : ~Build(p)) => built' = built
  BY DEF Next, Request, CallAppend, CallGoverned, CallImport, CallRotate, CallRead, Call,
         Step, Acquire, LockTimeout, RecoverNothing, RecoverTruncate, BeginLine, EndLine,
         Rewritten, Written, Refuse, AnswerStored, RotateNothing, RotateRename,
         RotateCreate, ReadVerified, Return, Fault, Kill, WriteError, Verify, ListPartitions,
         ListActive, ReadListed, EndScan, vars
<1>3. CASE \E p \in Procs : Build(p)
  <2> PICK p \in Procs : Build(p)
    BY <1>3
  <2>1. built' = built + Len(op[p].cmds) /\ Len(op[p].cmds) \in Nat
    BY <1>0, <1>1
  <2> QED BY <1>0, <1>1, <2>1
<1> QED BY <1>0, <1>1, <1>2, <1>3

LEMMA IdsStep ==
    ASSUME IdsAreApart, BaseInv, BaseInv', \A p \in Procs : OpInv(p), IdsInv, [Next]_vars
    PROVE  IdsInv'
<1>0. built \in Nat /\ built' \in Nat /\ built <= built'
  BY BuiltGrows
<1>a. /\ Visible \in Seq(Event) /\ Visible' \in Seq(Event) /\ ledger \in Seq(Event)
      /\ IsPrefixOf(ledger, Visible)
      /\ \A p \in Procs : goal[p] \in Seq(Event) /\ goal'[p] \in Seq(Event)
  BY LineTypes, LineTypesNext
<1>1. IdsOK(Visible', built')
  <2>1. IdsOK(Visible', built)
    <3>1. CASE IsPrefixOf(Visible', Visible)
      BY <3>1, <1>a, IdsPrefix DEF IdsInv
    <3>2. ASSUME NEW p \in Procs, Writing(p), IsPrefixOf(Visible', goal[p])
          PROVE  IdsOK(Visible', built)
      BY <3>2, <1>a, IdsPrefix DEF IdsInv
    <3> QED BY <3>1, <3>2, LinesComeFrom DEF ReadBefore
  <2> QED BY <1>0, <1>a, <2>1, IdsLater
<1>2. IdsOK(ledger, built)
  BY <1>a, IdsPrefix DEF IdsInv
<1>3. ASSUME NEW p \in Procs, Writing(p)' PROVE IdsOK(goal'[p], built')
  <2>1. WrittenBefore(p)
    BY <1>3, LinesComeFrom
  <2>2. CASE Writing(p) /\ goal'[p] = goal[p]
    BY <2>2, <1>0, <1>a, IdsLater DEF IdsInv
  <2>3. CASE goal'[p] = ledger
    BY <2>3, <1>0, <1>2, <1>a, IdsLater
  <2>4. CASE Build(p) /\ goal'[p] = NewEvents(p)
    BY <2>4, <1>2, IdsBuilt, BuiltGrows
  <2> QED BY <2>1, <2>2, <2>3, <2>4 DEF WrittenBefore
<1>4. IdsOK(Visible, built)' /\ \A p \in Procs : Writing(p)' => IdsOK(goal[p], built)'
  BY <1>1, <1>3 DEF IdsOK, IdsDiffer, IdFits
<1> QED BY <1>4 DEF IdsInv

(* The ledger passes its own verification at every moment of every call,   *)
(* repair, import and rotation, and wherever a kill or a write error       *)
(* struck: the sequence has no gap, each event carries the hash of the one *)
(* before, and no event id occurs twice (verify, _append_unchecked,        *)
(* import_project_events).                                                 *)
THEOREM LedgerAlwaysVerifies ==
    ASSUME IdsAreApart
    PROVE  Spec => []LedgerVerifies
<1>1. Init => IdsInv
  BY NothingWritten DEF IdsInv, IdsOK, IdsDiffer
<1>2. BaseInv /\ BaseInv' /\ (\A p \in Procs : OpInv(p)) /\ IdsInv /\ [Next]_vars => IdsInv'
  BY IdsStep
<1>3. BaseInv /\ IdsInv => LedgerVerifies
  <2> SUFFICES ASSUME BaseInv, IdsInv PROVE LedgerVerifies
    OBVIOUS
  <2>1. IdsOK(ledger, built)
    BY LineTypes, IdsPrefix DEF IdsInv
  <2>2. IdsDiffer(Content)
    BY <2>1, ContentFrom DEF IdsInv, IdsOK
  <2> QED BY <2>2, ContentLinked DEF LedgerVerifies, ChainOK
<1> QED BY <1>1, <1>2, <1>3, BaseInvariant, KeysHold, PTL DEF Spec
================================================================================
