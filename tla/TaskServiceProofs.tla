---------------------------- MODULE TaskServiceProofs ----------------------------
(***************************************************************************)
(* Machine-checked theorems about TaskService, for any tasks, decisions,   *)
(* keys, commands, stores, checkpoint interval and faults.                 *)
(*                                                                         *)
(* The argument: every plan the services make turns a committed content    *)
(* whose files agree (Fits) into another such, extends the journals and    *)
(* resolves a decision at its revision only (Serves); it is one that the   *)
(* store can run (Runnable), so that TaskStoreProofs apply.  A plan is     *)
(* made under the lock and for the committed content, and what is          *)
(* committed stays the same until its commit; that the lock is held in     *)
(* between is the point of PlanInv.  What callers hold outside the lock,   *)
(* a reading (SeenInv) or an answer (AckedInv), stays true because         *)
(* journals only grow.                                                     *)
(***************************************************************************)
EXTENDS TaskService, TaskStoreProofs

-----------------------------------------------------------------------------
(* The inductive invariant.  It speaks of the committed content, truth,    *)
(* and leaves it to TaskStoreProofs how the files differ from it.          *)

(* The journal of a task in the content c.                                 *)
Log(c, t) == IF c[Events(t)] = NoFile THEN <<>> ELSE c[Events(t)]

KeysOnce(j) == \A i, k \in 1..Len(j) : (j[i].key = j[k].key /\ i # k) => j[i].key = NoKey

(* The files of a task agree with each other, and those of a decision.     *)
TaskFits(c, t) ==
    /\ c[Snap(t)] \in Snapshots \cup {NoFile}
    /\ c[Events(t)] \in Seq(TaskEvents) \cup {NoFile}
    /\ c[Snap(t)] = NoFile <=> Log(c, t) = <<>>
    /\ Log(c, t) # <<>> => c[Snap(t)] = Log(c, t)[Len(Log(c, t))].result
    /\ \A i \in 1..Len(Log(c, t)) : Log(c, t)[i].result.rev = i
    /\ KeysOnce(Log(c, t))
    /\ (c[Snap(t)] # NoFile /\ c[Snap(t)].st = "completed")
        => c[Receipt(t, c[Snap(t)].rev)] = <<t, c[Snap(t)].rev>>

Pending(c, d) == c[Decided(d)] # NoFile /\ c[Decided(d)].status = "pending"
Resolved(c, d) == c[Decided(d)] # NoFile /\ c[Decided(d)].status = "resolved"

DecisionFits(c, d) ==
    /\ c[Decided(d)] \in DecisionFiles \cup {NoFile}
    /\ Resolved(c, d) <=> c[DecisionReceipt(d)] # NoFile

Fits(c) ==
    /\ \A t \in Tasks : TaskFits(c, t)
    /\ \A d \in Decisions : DecisionFits(c, d)

(* What a transaction may make of the content c: it extends journals, does *)
(* not take a resolution back, and resolves a decision at its revision.    *)
Extends(c, n, t) ==
    /\ Len(Log(c, t)) <= Len(Log(n, t))
    /\ \A i \in 1..Len(Log(c, t)) : Log(n, t)[i] = Log(c, t)[i]

Decides(c, n, d) ==
    /\ Pending(n, d) => ~Resolved(c, d)
    /\ Pending(c, d) /\ Resolved(n, d)
        => LET snap == Snap(c[Decided(d)].task) IN
           c[snap].rev = c[Decided(d)].rev /\ n[snap] = c[snap]

Serves(c, n) ==
    /\ Fits(n)
    /\ \A t \in Tasks : Extends(c, n, t)
    /\ \A d \in Decisions : Decides(c, n, d)

OnTask(s) == call[s].op \in {"create", "transition"}

(* The plan of a transaction that runs does that, and a task command adds  *)
(* an event to the journal of its task.                                    *)
PlanInv(s) == pc[s] \in {"made", "body"} =>
    /\ Serves(truth, A!Applied(truth, job[s].plan))
    /\ OnTask(s) => Log(A!Applied(truth, job[s].plan), call[s].task) # <<>>

(* What a call that committed leaves behind.                               *)
DoneInv(s) == job[s].ok =>
    /\ pc[s] \in {"clean", "rm", "leave"} /\ mem[s].recovered
    /\ InPlace
    /\ OnTask(s) => Log(truth, call[s].task) # <<>>

(* A clean reading is in the journal, at the revision it shows.            *)
Readings == [of : Tasks, at : Snapshots, clean : BOOLEAN]

SeenInv(s) ==
    /\ seen[s] \in Readings \cup {NoFile}
    /\ seen[s] # NoFile /\ seen[s].clean =>
        LET j == Log(truth, seen[s].of) IN
        seen[s].at.rev <= Len(j) /\ j[seen[s].at.rev].result = seen[s].at

CallInv(s) ==
    /\ call[s] \in Commands \cup {NoCall}
    /\ pc[s] # "idle" => call[s] \in Commands
    /\ pc[s] # "idle" /\ call[s].op = "transition" /\ call[s].cas
        => seen[s] # NoFile /\ seen[s].of = call[s].task

(* Also in the middle of a transaction or of its rollback a snapshot is a  *)
(* snapshot, a journal has each key once, and a decision that was resolved *)
(* is not pending.                                                         *)
FileInv ==
    /\ \A t \in Tasks : file[Snap(t)] \in Snapshots \cup {NoFile} /\ KeysOnce(Log(file, t))
    /\ \A d \in Decisions : /\ Pending(file, d) => ~Resolved(truth, d)
                            /\ file[Decided(d)] \in DecisionFiles \cup {NoFile}

AckedInv == \A e \in acked :
    e[1] \in Tasks /\ \E i \in 1..Len(Log(truth, e[1])) : Log(truth, e[1])[i] = e[2]

ServiceInv ==
    /\ call \in [Stores -> Commands \cup {NoCall}]
    /\ seen \in [Stores -> Readings \cup {NoFile}]
    /\ late \subseteq Decisions
    /\ Fits(truth) /\ FileInv /\ AckedInv
    /\ \A s \in Stores : PlanInv(s) /\ DoneInv(s) /\ SeenInv(s) /\ CallInv(s)

(* The values of Images and Plans are free: Images holds whatever the      *)
(* service writes, and the transactions are those that it starts.          *)
ImagesSuffice == ServiceImages \subseteq Images

-----------------------------------------------------------------------------
(* Names of files, and sequences.                                          *)

LEMMA NamesApart ==
    ASSUME NEW t, NEW u, NEW m, NEW k
    PROVE  /\ Snap(t) # Events(u) /\ Snap(t) # Receipt(u, m) /\ Snap(t) # Checkpoint(u, m)
           /\ Snap(t) # Decided(u) /\ Snap(t) # DecisionReceipt(u)
           /\ Events(t) # Receipt(u, m) /\ Events(t) # Checkpoint(u, m)
           /\ Events(t) # Decided(u) /\ Events(t) # DecisionReceipt(u)
           /\ Receipt(t, m) # Checkpoint(u, k) /\ Receipt(t, m) # Decided(u)
           /\ Receipt(t, m) # DecisionReceipt(u)
           /\ Checkpoint(t, m) # Decided(u) /\ Checkpoint(t, m) # DecisionReceipt(u)
           /\ Decided(t) # DecisionReceipt(u)
           /\ Snap(t) = Snap(u) => t = u
           /\ Events(t) = Events(u) => t = u
           /\ Receipt(t, m) = Receipt(u, k) => t = u /\ m = k
           /\ Decided(t) = Decided(u) => t = u
           /\ DecisionReceipt(t) = DecisionReceipt(u) => t = u
BY DEF Snap, Events, Receipt, Checkpoint, Decided, DecisionReceipt

LEMMA NamesAreFiles ==
    /\ \A t \in Tasks : Snap(t) \in Files /\ Events(t) \in Files
    /\ \A t \in Tasks, m \in Revisions : Receipt(t, m) \in Files /\ Checkpoint(t, m) \in Files
    /\ \A d \in Decisions : Decided(d) \in Files /\ DecisionReceipt(d) \in Files
BY ServiceAssumption DEF ServiceFiles

Once(q) == \A i, k \in 1..Len(q) : q[i][1] = q[k][1] => i = k

(* A sequence of one member, and what a sequence of at most one is mapped to. *)
LEMMA Single ==
    ASSUME NEW x, NEW S, x \in S
    PROVE  <<x>> \in Seq(S) /\ Len(<<x>>) = 1 /\ A!RangeOf(<<x>>) = {x} /\ Once(<<x>>)
<1>1. <<x>> \in Seq(S) /\ Len(<<x>>) = 1 /\ <<x>>[1] = x
  OBVIOUS
<1>2. QED BY <1>1 DEF A!RangeOf, Once

LEMMA Empty ==
    ASSUME NEW S
    PROVE  <<>> \in Seq(S) /\ Len(<<>>) = 0 /\ A!RangeOf(<<>>) = {} /\ Once(<<>>)
<1>1. <<>> \in Seq(S) /\ Len(<<>>) = 0
  OBVIOUS
<1>2. QED BY <1>1 DEF A!RangeOf, Once

LEMMA Joined ==
    ASSUME NEW S, NEW q \in Seq(S), NEW r \in Seq(S)
    PROVE  /\ q \o r \in Seq(S)
           /\ A!RangeOf(q \o r) = A!RangeOf(q) \cup A!RangeOf(r)
           /\ (Once(q) /\ Once(r)
                /\ \A u \in A!RangeOf(q) : \A v \in A!RangeOf(r) : u[1] # v[1])
              => Once(q \o r)
<1>1. /\ q \o r \in Seq(S) /\ Len(q) \in Nat /\ Len(r) \in Nat
      /\ Len(q \o r) = Len(q) + Len(r)
      /\ \A i \in 1..(Len(q) + Len(r)) :
            (q \o r)[i] = IF i <= Len(q) THEN q[i] ELSE r[i - Len(q)]
  BY ConcatProperties, LenProperties
<1>2. \A i \in 1..Len(q) : i \in 1..Len(q \o r) /\ (q \o r)[i] = q[i]
  BY <1>1
<1>3. \A i \in 1..Len(r) : i + Len(q) \in 1..Len(q \o r) /\ (q \o r)[i + Len(q)] = r[i]
  BY <1>1
<1>4. \A i \in 1..Len(q \o r) : \/ i \in 1..Len(q) /\ (q \o r)[i] = q[i]
                               \/ /\ i - Len(q) \in 1..Len(r)
                                  /\ (q \o r)[i] = r[i - Len(q)]
  BY <1>1
<1> DEFINE qr == q \o r
<1>5. Len(qr) \in Nat /\ qr \in Seq(S)
  BY <1>1
<1> HIDE DEF qr
<1>6. A!RangeOf(qr) = A!RangeOf(q) \cup A!RangeOf(r)
  <2>1. A!RangeOf(q) \subseteq A!RangeOf(qr)
    BY <1>2 DEF A!RangeOf, qr
  <2>2. A!RangeOf(r) \subseteq A!RangeOf(qr)
    BY <1>3 DEF A!RangeOf, qr
  <2>3. A!RangeOf(qr) \subseteq A!RangeOf(q) \cup A!RangeOf(r)
    BY <1>4 DEF A!RangeOf, qr
  <2>4. QED BY <2>1, <2>2, <2>3
<1>7. ASSUME Once(q), Once(r), \A u \in A!RangeOf(q) : \A v \in A!RangeOf(r) : u[1] # v[1]
      PROVE  Once(qr)
  <2> SUFFICES ASSUME NEW i \in 1..Len(qr), NEW k \in 1..Len(qr), qr[i][1] = qr[k][1]
               PROVE  i = k
    BY DEF Once
  <2>1. \A m \in 1..Len(q) : q[m] \in A!RangeOf(q)
    BY DEF A!RangeOf
  <2>2. \A m \in 1..Len(r) : r[m] \in A!RangeOf(r)
    BY DEF A!RangeOf
  <2>3. CASE i \in 1..Len(q) /\ qr[i] = q[i]
    <3>1. CASE k \in 1..Len(q) /\ qr[k] = q[k]
      BY <1>7, <2>3, <3>1 DEF Once
    <3>2. CASE k - Len(q) \in 1..Len(r) /\ qr[k] = r[k - Len(q)]
      BY <1>7, <2>1, <2>2, <2>3, <3>2
    <3>3. QED BY <1>4, <3>1, <3>2 DEF qr
  <2>4. CASE i - Len(q) \in 1..Len(r) /\ qr[i] = r[i - Len(q)]
    <3>1. CASE k \in 1..Len(q) /\ qr[k] = q[k]
      BY <1>7, <2>1, <2>2, <2>4, <3>1
    <3>2. CASE k - Len(q) \in 1..Len(r) /\ qr[k] = r[k - Len(q)]
      <4>1. i - Len(q) = k - Len(q)
        BY <1>7, <2>4, <3>2 DEF Once
      <4>2. QED BY <1>1, <1>5, <4>1
    <3>3. QED BY <1>4, <3>1, <3>2 DEF qr
  <2>5. QED BY <1>4, <2>3, <2>4 DEF qr
<1>8. QED BY <1>1, <1>6, <1>7 DEF qr

-----------------------------------------------------------------------------
(* What the plans make of a content.                                       *)

(* A task whose files are left alone fits as before.                       *)
LEMMA TaskKept ==
    ASSUME NEW c, NEW n, NEW t \in Tasks, TaskFits(c, t),
           n[Snap(t)] = c[Snap(t)], n[Events(t)] = c[Events(t)],
           \A m \in Revisions : n[Receipt(t, m)] = c[Receipt(t, m)]
    PROVE  TaskFits(n, t) /\ Extends(c, n, t)
<1>1. Log(n, t) = Log(c, t)
  BY DEF Log
<1>2. Len(Log(c, t)) \in Nat
  <2>1. Log(c, t) \in Seq(TaskEvents)
    BY EmptySeq DEF Log, TaskFits
  <2>2. QED BY <2>1
<1>3. Extends(c, n, t)
  BY <1>1, <1>2 DEF Extends
<1>4. c[Snap(t)] # NoFile => c[Snap(t)].rev \in Revisions
  BY DEF TaskFits, Snapshots
<1>5. TaskFits(n, t)
  BY <1>1, <1>4 DEF TaskFits
<1>6. QED BY <1>3, <1>5

LEMMA DecisionKept ==
    ASSUME NEW c, NEW n, NEW d \in Decisions, DecisionFits(c, d),
           n[Decided(d)] = c[Decided(d)], n[DecisionReceipt(d)] = c[DecisionReceipt(d)]
    PROVE  DecisionFits(n, d) /\ Decides(c, n, d)
BY DEF DecisionFits, Decides, Pending, Resolved

(* A journal that is extended by an event with a key of its own.           *)
LEMMA LogExtended ==
    ASSUME NEW j \in Seq(TaskEvents), NEW e \in TaskEvents, KeysOnce(j),
           e.key # NoKey => \A i \in 1..Len(j) : j[i].key # e.key
    PROVE  /\ Append(j, e) \in Seq(TaskEvents) /\ Append(j, e) # <<>>
           /\ Len(j) \in Nat /\ Len(Append(j, e)) = Len(j) + 1
           /\ Append(j, e)[Len(j) + 1] = e
           /\ \A i \in 1..Len(j) : Append(j, e)[i] = j[i]
           /\ KeysOnce(Append(j, e))
<1> DEFINE q == Append(j, e)
<1>1. /\ q \in Seq(TaskEvents) /\ Len(j) \in Nat /\ Len(q) = Len(j) + 1
      /\ q[Len(j) + 1] = e /\ \A i \in 1..Len(j) : q[i] = j[i]
  BY AppendProperties, LenProperties
<1>2. q # <<>>
  BY AppendProperties
<1> HIDE DEF q
<1>3. KeysOnce(q)
  <2> SUFFICES ASSUME NEW i \in 1..Len(q), NEW k \in 1..Len(q), q[i].key = q[k].key, i # k
               PROVE  q[i].key = NoKey
    BY DEF KeysOnce
  <2>1. CASE i \in 1..Len(j) /\ k \in 1..Len(j)
    BY <1>1, <2>1 DEF KeysOnce
  <2>2. CASE i = Len(j) + 1 /\ k \in 1..Len(j)
    BY <1>1, <2>2
  <2>3. CASE i \in 1..Len(j) /\ k = Len(j) + 1
    BY <1>1, <2>3
  <2>4. QED BY <1>1, <2>1, <2>2, <2>3
<1>4. QED BY <1>1, <1>2, <1>3 DEF q

(* One more event of task t, its snapshot and its receipt, and possibly a  *)
(* checkpoint: what create_task and transition_task write.                 *)
LEMMA TaskServed ==
    ASSUME NEW c, NEW n, Fits(c), ImagesSuffice,
           NEW t \in Tasks, NEW e \in TaskEvents,
           e.result.rev = Len(Log(c, t)) + 1,
           e.key # NoKey => \A i \in 1..Len(Log(c, t)) : Log(c, t)[i].key # e.key,
           n[Snap(t)] = e.result, n[Events(t)] = Append(Log(c, t), e),
           e.result.st = "completed"
            => n[Receipt(t, e.result.rev)] = <<t, e.result.rev>>,
           \A f \in Files : (/\ f # Snap(t) /\ f # Events(t)
                             /\ \A m \in Revisions : f # Receipt(t, m) /\ f # Checkpoint(t, m))
                            => n[f] = c[f]
    PROVE  Serves(c, n) /\ Log(n, t) # <<>>
<1> DEFINE j == Log(c, t)
           q == Append(j, e)
<1>1. TaskFits(c, t) /\ j \in Seq(TaskEvents) /\ KeysOnce(j)
  BY EmptySeq DEF Fits, TaskFits, Log
<1>2. /\ q \in Seq(TaskEvents) /\ q # <<>>
      /\ Len(j) \in Nat /\ Len(q) = Len(j) + 1 /\ q[Len(j) + 1] = e
      /\ \A i \in 1..Len(j) : q[i] = j[i]
      /\ KeysOnce(q)
  BY <1>1, LogExtended
<1>3. q # NoFile /\ e.result # NoFile /\ e.result \in Snapshots
  <2>1. q \in ServiceImages /\ e.result \in ServiceImages /\ e.result \in Snapshots
    BY <1>2 DEF ServiceImages, TaskEvents
  <2>2. QED BY <2>1, StoreImages DEF ImagesSuffice
<1>4. Log(n, t) = q
  BY <1>3 DEF Log
<1> HIDE DEF q
<1>5. TaskFits(n, t)
  <2>1. \A i \in 1..Len(q) : q[i].result.rev = i
    <3>1. \A i \in 1..Len(j) : j[i].result.rev = i
      BY <1>1 DEF TaskFits
    <3>2. QED BY <1>2, <3>1
  <2>2. n[Snap(t)] \in Snapshots \cup {NoFile} /\ n[Snap(t)] # NoFile
        /\ n[Snap(t)] = q[Len(q)].result
    BY <1>2, <1>3
  <2>3. n[Events(t)] \in Seq(TaskEvents) \cup {NoFile}
    BY <1>2 DEF q
  <2>4. (n[Snap(t)] # NoFile /\ n[Snap(t)].st = "completed")
        => n[Receipt(t, n[Snap(t)].rev)] = <<t, n[Snap(t)].rev>>
    OBVIOUS
  <2>5. QED BY <1>2, <1>4, <2>1, <2>2, <2>3, <2>4 DEF TaskFits
<1>6. Extends(c, n, t)
  BY <1>2, <1>4 DEF Extends
<1>7. ASSUME NEW u \in Tasks, u # t PROVE TaskFits(n, u) /\ Extends(c, n, u)
  <2>1. n[Snap(u)] = c[Snap(u)]
    BY <1>7, NamesApart, NamesAreFiles
  <2>2. n[Events(u)] = c[Events(u)]
    BY <1>7, NamesApart, NamesAreFiles
  <2>3. \A m \in Revisions : n[Receipt(u, m)] = c[Receipt(u, m)]
    BY <1>7, NamesApart, NamesAreFiles
  <2>4. TaskFits(c, u)
    BY DEF Fits
  <2>5. QED BY <2>1, <2>2, <2>3, <2>4, TaskKept
<1>8. ASSUME NEW d \in Decisions PROVE DecisionFits(n, d) /\ Decides(c, n, d)
  <2>0. /\ Decided(d) # Snap(t) /\ Decided(d) # Events(t)
        /\ DecisionReceipt(d) # Snap(t) /\ DecisionReceipt(d) # Events(t)
        /\ \A m : Decided(d) # Receipt(t, m) /\ Decided(d) # Checkpoint(t, m)
        /\ \A m : DecisionReceipt(d) # Receipt(t, m) /\ DecisionReceipt(d) # Checkpoint(t, m)
    BY DEF Snap, Events, Receipt, Checkpoint, Decided, DecisionReceipt
  <2>1. n[Decided(d)] = c[Decided(d)]
    BY <2>0, NamesAreFiles
  <2>2. n[DecisionReceipt(d)] = c[DecisionReceipt(d)]
    BY <2>0, NamesAreFiles
  <2>3. DecisionFits(c, d)
    BY DEF Fits
  <2>4. QED BY <2>1, <2>2, <2>3, DecisionKept
<1>9. QED BY <1>2, <1>4, <1>5, <1>6, <1>7, <1>8 DEF Serves, Fits

(* Only the files of decision d change: what the decision service writes.  *)
LEMMA DecisionServed ==
    ASSUME NEW c, NEW n, Fits(c), NEW d \in Decisions,
           DecisionFits(n, d), Decides(c, n, d),
           \A f \in Files : (f # Decided(d) /\ f # DecisionReceipt(d)) => n[f] = c[f]
    PROVE  Serves(c, n)
<1>1. ASSUME NEW u \in Tasks PROVE TaskFits(n, u) /\ Extends(c, n, u)
  <2>1. n[Snap(u)] = c[Snap(u)]
    BY NamesApart, NamesAreFiles
  <2>2. n[Events(u)] = c[Events(u)]
    BY NamesApart, NamesAreFiles
  <2>3. \A m \in Revisions : n[Receipt(u, m)] = c[Receipt(u, m)]
    BY NamesApart, NamesAreFiles
  <2>4. TaskFits(c, u)
    BY DEF Fits
  <2>5. QED BY <2>1, <2>2, <2>3, <2>4, TaskKept
<1>2. ASSUME NEW k \in Decisions, k # d PROVE DecisionFits(n, k) /\ Decides(c, n, k)
  <2>1. n[Decided(k)] = c[Decided(k)]
    BY <1>2, NamesApart, NamesAreFiles
  <2>2. n[DecisionReceipt(k)] = c[DecisionReceipt(k)]
    BY <1>2, NamesApart, NamesAreFiles
  <2>3. DecisionFits(c, k)
    BY DEF Fits
  <2>4. QED BY <2>1, <2>2, <2>3, DecisionKept
<1>3. QED BY <1>1, <1>2 DEF Serves, Fits

-----------------------------------------------------------------------------
(* The plans that the calls run.                                           *)

LEMMA Two ==
    ASSUME NEW S, NEW x \in S, NEW y \in S
    PROVE  /\ <<x, y>> \in Seq(S) /\ A!RangeOf(<<x, y>>) = {x, y}
           /\ x[1] # y[1] => Once(<<x, y>>)
<1>1. <<x, y>> \in Seq(S) /\ Len(<<x, y>>) = 2 /\ <<x, y>>[1] = x /\ <<x, y>>[2] = y
  OBVIOUS
<1>2. 1..2 = {1, 2}
  OBVIOUS
<1> DEFINE q == <<x, y>>
<1> HIDE DEF q
<1>3. A!RangeOf(q) = {x, y}
  BY <1>1, <1>2 DEF A!RangeOf, q
<1>4. x[1] # y[1] => Once(q)
  BY <1>1, <1>2 DEF Once, q
<1>5. QED BY <1>1, <1>3, <1>4 DEF q

(* The files of a sequence of writes, and the writes of one image.         *)
LEMMA Firsts ==
    ASSUME NEW F, NEW I, NEW q \in Seq(F \X I)
    PROVE  /\ [i \in 1..Len(q) |-> q[i][1]] \in Seq(F)
           /\ A!RangeOf([i \in 1..Len(q) |-> q[i][1]]) = {w[1] : w \in A!RangeOf(q)}
<1> DEFINE m == [i \in 1..Len(q) |-> q[i][1]]
<1>1. Len(q) \in Nat /\ \A i \in 1..Len(q) : q[i] \in F \X I
  BY ElementOfSeq, LenProperties
<1>2. \A i \in 1..Len(q) : q[i][1] \in F
  BY <1>1
<1>3. m \in Seq(F) /\ Len(m) = Len(q) /\ \A i \in 1..Len(q) : m[i] = q[i][1]
  BY <1>1, <1>2, IsASeq
<1> HIDE DEF m
<1>4. A!RangeOf(m) = {w[1] : w \in A!RangeOf(q)}
  BY <1>1, <1>3 DEF A!RangeOf
<1>5. QED BY <1>3, <1>4 DEF m

LEMMA Images1 ==
    ASSUME NEW F, NEW I, NEW q \in Seq(F), NEW x \in I, NEW m,
           m = [i \in 1..Len(q) |-> m[i]], \A i \in 1..Len(q) : m[i] = <<q[i], x>>
    PROVE  /\ m \in Seq(F \X I)
           /\ A!RangeOf(m) = {<<f, x>> : f \in A!RangeOf(q)}
           /\ Len(q) <= 1 => Once(m)
<1>1. Len(q) \in Nat /\ \A i \in 1..Len(q) : q[i] \in F
  BY ElementOfSeq, LenProperties
<1>2. ASSUME NEW i \in 1..Len(q) PROVE m[i] \in F \X I
  <2>1. q[i] \in F /\ m[i] = <<q[i], x>>
    BY <1>1
  <2>2. <<q[i], x>> \in F \X I
    BY <2>1
  <2>3. QED BY <2>1, <2>2, Zenon
<1>3. m \in Seq(F \X I) /\ Len(m) = Len(q)
  <2> DEFINE k == Len(q)
  <2>1. k \in Nat /\ (\A i \in 1..k : m[i] \in F \X I) /\ m = [i \in 1..k |-> m[i]]
    BY <1>1, <1>2
  <2> HIDE DEF k
  <2> DEFINE T == F \X I
  <2>2. \A i \in 1..k : m[i] \in T
    BY <2>1
  <2> HIDE DEF T
  <2>3. m \in [1..k -> T]
    BY <2>1, <2>2
  <2>4. m \in Seq(T) /\ DOMAIN m = 1..k
    BY <2>1, <2>3, SeqDef
  <2>5. Len(m) = k
    BY <2>1, <2>4, LenProperties
  <2>6. QED BY <2>4, <2>5 DEF k, T
<1>4. A!RangeOf(m) = {<<f, x>> : f \in A!RangeOf(q)}
  BY <1>1, <1>3 DEF A!RangeOf
<1>5. Len(q) <= 1 => Once(m)
  BY <1>1, <1>3 DEF Once
<1>6. QED BY <1>3, <1>4, <1>5

LEMMA CallFields ==
    ASSUME NEW c \in Commands
    PROVE  /\ c.op \in {"create", "transition"}
              => c.task \in Tasks /\ c.to \in States /\ c.key \in KeysOrNone
           /\ c.op = "decide" => c.dec \in Decisions /\ c.task \in Tasks
           /\ c.op = "resolve" => c.dec \in Decisions /\ c.by \in Actors
<1>1. c \in ServiceCommands
  BY ServiceAssumption
<1>2. CASE c \in [op : {"create"}, task : Tasks, to : States, key : KeysOrNone]
  BY <1>2
<1>3. CASE c \in [op : {"transition"}, task : Tasks, to : States, key : KeysOrNone,
                  cas : BOOLEAN]
  BY <1>3
<1>4. CASE c \in [op : {"decide"}, dec : Decisions, task : Tasks, key : {NoKey}]
  BY <1>4
<1>5. CASE c \in [op : {"resolve"}, dec : Decisions, by : Actors, key : {NoKey}]
  BY <1>5
<1>6. QED BY <1>1, <1>2, <1>3, <1>4, <1>5 DEF ServiceCommands

(* What a call finds when it has got past lock().                          *)
LEMMA AtOpen ==
    ASSUME TypeInv, Inv, ServiceInv, NEW s \in Stores, pc[s] = "open"
    PROVE  /\ file = truth /\ Fits(truth)
           /\ call[s] \in Commands /\ SeenInv(s) /\ CallInv(s)
           /\ Expected(s) \in Nat
           /\ \A t : Journal(t) = Log(truth, t)
<1>1. file = truth /\ Fits(truth) /\ SeenInv(s) /\ CallInv(s)
  BY OpenIsInPlace DEF ServiceInv
<1>2. call[s] \in Commands
  BY <1>1 DEF CallInv
<1>3. Expected(s) \in Nat
  <2>1. CASE call[s].op = "transition" /\ call[s].cas
    <3>1. seen[s] \in Readings
      BY <1>1, <2>1 DEF CallInv, SeenInv
    <3>2. seen[s].at.rev \in Nat
      BY <3>1, ServiceAssumption DEF Readings, Snapshots, Revisions
    <3>3. QED BY <2>1, <3>2 DEF Expected
  <2>2. CASE ~(call[s].op = "transition" /\ call[s].cas)
    BY <2>2 DEF Expected
  <2>3. QED BY <2>1, <2>2
<1>4. \A t : Journal(t) = Log(truth, t)
  BY <1>1 DEF Journal, Log
<1>5. QED BY <1>1, <1>2, <1>3, <1>4

LEMMA EventTyped ==
    ASSUME TypeInv, Inv, ServiceInv, NEW s \in Stores, pc[s] = "open",
           call[s].op \in {"create", "transition"}, NEW m \in Revisions
    PROVE  /\ EventOf(s, m) \in TaskEvents /\ Result(m, call[s].to) \in Snapshots
           /\ EventOf(s, m).key = call[s].key
           /\ EventOf(s, m).result = Result(m, call[s].to)
           /\ Result(m, call[s].to).rev = m /\ Result(m, call[s].to).st = call[s].to
<1>1. /\ call[s].to \in States /\ call[s].key \in KeysOrNone /\ Expected(s) \in Nat
  BY AtOpen, CallFields
<1>2. Result(m, call[s].to) \in Snapshots
  BY <1>1 DEF Result, Snapshots
<1>3. Fingerprint(call[s], Expected(s)) \in {"create", "transition"} \X States \X Nat
  BY <1>1 DEF Fingerprint
<1>4. EventOf(s, m) \in TaskEvents
  BY <1>1, <1>2, <1>3 DEF EventOf, TaskEvents
<1>5. QED BY <1>2, <1>4 DEF EventOf, Result

LEMMA CreatePlanned ==
    ASSUME ImagesSuffice, TypeInv, Inv, ServiceInv, NEW s \in Stores, pc[s] = "open",
           CreateOK(s)
    PROVE  /\ CreatePlan(s) \in Runnable
           /\ Serves(truth, A!Applied(truth, CreatePlan(s)))
           /\ Log(A!Applied(truth, CreatePlan(s)), call[s].task) # <<>>
<1> DEFINE t == call[s].task
           e == EventOf(s, 1)
           j == Log(truth, t)
           p == CreatePlan(s)
           n == A!Applied(truth, p)
<1>1. /\ file = truth /\ Fits(truth) /\ t \in Tasks /\ call[s].op = "create"
      /\ Journal(t) = j
  BY AtOpen, CallFields DEF CreateOK
<1>2. 1 \in Revisions
  BY ServiceAssumption DEF Revisions
<1>3. /\ e \in TaskEvents /\ e.result \in Snapshots /\ e.result = Result(1, call[s].to)
      /\ e.result.rev = 1 /\ e.result.st = call[s].to
  BY <1>1, <1>2, EventTyped
<1>4. TaskFits(truth, t) /\ truth[Snap(t)] = NoFile
  BY <1>1 DEF CreateOK, Fits
<1>5. j = <<>> /\ j \in Seq(TaskEvents) /\ Len(j) = 0
  BY <1>4, EmptySeq DEF TaskFits
<1>6. Append(j, e) \in Seq(TaskEvents)
  BY <1>3, <1>5, AppendProperties
<1>7. /\ p.touch = <<Snap(t), Events(t)>>
      /\ p.writes = << <<Snap(t), e.result>>, <<Events(t), Append(j, e)>> >>
      /\ p = [touch |-> p.touch, writes |-> p.writes]
  BY <1>1, <1>3 DEF CreatePlan
<1> HIDE DEF p, e, j
<1> DEFINE a == <<Snap(t), e.result>>
           b == <<Events(t), Append(j, e)>>
<1>8. /\ a \in Files \X Images /\ a[1] = Snap(t) /\ a[2] = e.result
      /\ b \in Files \X Images /\ b[1] = Events(t) /\ b[2] = Append(j, e)
      /\ a[1] # b[1]
  <2>1. a[1] # b[1]
    BY NamesApart
  <2>2. e.result \in Images /\ Append(j, e) \in Images
    BY <1>3, <1>6 DEF ImagesSuffice, ServiceImages
  <2>3. QED BY <1>1, <2>1, <2>2, NamesAreFiles
<1>9. /\ p.touch \in Seq(Files) /\ A!RangeOf(p.touch) = {Snap(t), Events(t)}
  BY <1>1, <1>7, NamesAreFiles, Two
<1>9a. p.writes = <<a, b>>
  BY <1>7
<1> HIDE DEF a, b
<1>10. p.writes \in Seq(Files \X Images) /\ Once(p.writes) /\ A!RangeOf(p.writes) = {a, b}
  <2>1. <<a, b>> \in Seq(Files \X Images) /\ A!RangeOf(<<a, b>>) = {a, b} /\ Once(<<a, b>>)
    BY <1>8, Two
  <2>2. QED BY <1>9a, <2>1
<1>11. p \in A!Plan
  BY <1>7, <1>9, <1>10 DEF A!Plan
<1>12. A!Declared(p)
  BY <1>8, <1>9, <1>10 DEF A!Declared, Once
<1>13. /\ n[Snap(t)] = e.result /\ n[Events(t)] = Append(j, e)
       /\ \A f \in Files : f # Snap(t) /\ f # Events(t) => n[f] = truth[f]
  <2>1. /\ \A w \in {a, b} : n[w[1]] = w[2]
        /\ \A f \in Files : (\A w \in {a, b} : w[1] # f) => n[f] = truth[f]
    BY <1>10, <1>11, <1>12, AppliedFacts
  <2> HIDE DEF n
  <2>2. QED BY <1>8, <2>1
<1> HIDE DEF n
<1>14. e.result.st # "completed"
  BY <1>3 DEF CreateOK, Terminal
<1>15. Serves(truth, n) /\ Log(n, t) # <<>>
  <2>1. e.result.rev = Len(Log(truth, t)) + 1
        /\ \A i \in 1..Len(Log(truth, t)) : Log(truth, t)[i].key # e.key
    BY <1>3, <1>5 DEF j
  <2>2. n[Events(t)] = Append(Log(truth, t), e)
    BY <1>13 DEF j
  <2>3. QED BY <1>1, <1>3, <1>13, <1>14, <2>1, <2>2, TaskServed
<1>16. QED BY <1>11, <1>12, <1>15 DEF Runnable, n, p

(* A key that the journal search does not find is not in the journal: the  *)
(* first event with a key is the only one.                                 *)
LEMMA KeyIsNew ==
    ASSUME TypeInv, Inv, ServiceInv, NEW s \in Stores, pc[s] = "open",
           call[s].task \in Tasks, KeyFree(s), call[s].key # NoKey,
           NEW i \in 1..Len(Log(truth, call[s].task))
    PROVE  Log(truth, call[s].task)[i].key # call[s].key
<1> DEFINE j == Log(truth, call[s].task)
<1>1. Journal(call[s].task) = j /\ TaskFits(truth, call[s].task)
  BY AtOpen DEF Fits
<1>2. KeysOnce(j) /\ j \in Seq(TaskEvents) /\ Len(j) \in Nat
  <2>1. j \in Seq(TaskEvents)
    BY <1>1, EmptySeq DEF TaskFits, Log
  <2>2. KeysOnce(j)
    BY <1>1 DEF TaskFits
  <2>3. QED BY <2>1, <2>2, LenProperties
<1> HIDE DEF j
<1> SUFFICES ASSUME j[i].key = call[s].key, i \in 1..Len(j) PROVE FALSE
  BY DEF j
<1>3. ASSUME NEW k \in 1..(i - 1) PROVE j[k].key # call[s].key
  <2>1. k \in 1..Len(j) /\ k # i
    BY <1>2
  <2>2. QED BY <1>2, <2>1 DEF KeysOnce
<1>4. i \in Keyed(call[s])
  BY <1>1, <1>3 DEF Keyed
<1>5. QED BY <1>4 DEF KeyFree

LEMMA ReceiptFacts ==
    ASSUME ImagesSuffice, NEW t \in Tasks, NEW m \in Revisions, NEW to
    PROVE  /\ ReceiptWrites(t, m, to) \in Seq(Files \X Images)
           /\ Once(ReceiptWrites(t, m, to))
           /\ \A w \in A!RangeOf(ReceiptWrites(t, m, to)) : w[1] = Receipt(t, m)
           /\ to = "completed"
              => \E w \in A!RangeOf(ReceiptWrites(t, m, to)) :
                    w[1] = Receipt(t, m) /\ w[2] = <<t, m>>
<1> DEFINE w == <<Receipt(t, m), <<t, m>>>>
<1>1. w \in Files \X Images /\ w[1] = Receipt(t, m) /\ w[2] = <<t, m>>
  BY NamesAreFiles DEF ImagesSuffice, ServiceImages
<1>2. ReceiptWrites(t, m, to) = IF to = "completed" THEN <<w>> ELSE <<>>
  BY DEF ReceiptWrites
<1> HIDE DEF w
<1>3. CASE to = "completed"
  <2>1. <<w>> \in Seq(Files \X Images) /\ A!RangeOf(<<w>>) = {w} /\ Once(<<w>>)
    BY <1>1, Single
  <2>2. QED BY <1>1, <1>2, <1>3, <2>1
<1>4. CASE to # "completed"
  <2>1. /\ <<>> \in Seq(Files \X Images) /\ A!RangeOf(<<>>) = {} /\ Once(<<>>)
    BY Empty
  <2>2. QED BY <1>2, <1>4, <2>1
<1>5. QED BY <1>3, <1>4

LEMMA TransitionPlanned ==
    ASSUME ImagesSuffice, TypeInv, Inv, ServiceInv, NEW s \in Stores, pc[s] = "open",
           TransitionOK(s)
    PROVE  /\ TransitionPlan(s) \in Runnable
           /\ Serves(truth, A!Applied(truth, TransitionPlan(s)))
           /\ Log(A!Applied(truth, TransitionPlan(s)), call[s].task) # <<>>
<1> DEFINE t == call[s].task
           to == call[s].to
           j == Log(truth, t)
           m == Len(j) + 1
           e == EventOf(s, m)
           R == Result(m, to)
           p == TransitionPlan(s)
           n == A!Applied(truth, p)
           receipt == ReceiptWrites(t, m, to)
           check == IF m % CheckpointEvery = 0 THEN <<Checkpoint(t, m)>> ELSE <<>>
           firsts == [i \in 1..Len(receipt) |-> receipt[i][1]]
           checks == [i \in 1..Len(check) |-> <<check[i], R>>]
           a == <<Snap(t), R>>
           b == <<Events(t), Append(j, e)>>
           W == Files \X Images
<1>1. /\ file = truth /\ Fits(truth) /\ t \in Tasks /\ call[s].op = "transition"
      /\ Journal(t) = j
  BY AtOpen, CallFields DEF TransitionOK
<1>2. /\ TaskFits(truth, t) /\ j \in Seq(TaskEvents) /\ j # <<>> /\ Len(j) \in Nat
      /\ truth[Snap(t)] # NoFile /\ truth[Snap(t)].rev < MaxRevision
  <2>1. TaskFits(truth, t) /\ j # <<>>
        /\ truth[Snap(t)] # NoFile /\ truth[Snap(t)].rev < MaxRevision
    BY <1>1 DEF TransitionOK, Fits
  <2>2. j \in Seq(TaskEvents)
    BY <2>1, EmptySeq DEF TaskFits, Log
  <2>3. QED BY <2>1, <2>2, LenProperties
<1>3. truth[Snap(t)].rev = Len(j) /\ m \in Revisions
  <2>1. Len(j) \in 1..Len(j)
    BY <1>2, EmptySeq, LenProperties
  <2>2. truth[Snap(t)].rev = Len(j)
    BY <1>2, <2>1 DEF TaskFits
  <2>3. QED BY <1>2, <2>2, ServiceAssumption DEF Revisions
<1>4. /\ e \in TaskEvents /\ R \in Snapshots /\ e.result = R /\ R.rev = m /\ R.st = to
      /\ e.key = call[s].key
  BY <1>1, <1>3, EventTyped
<1>5. e.key # NoKey => \A i \in 1..Len(j) : j[i].key # e.key
  <2>1. KeyFree(s)
    BY DEF TransitionOK
  <2>2. QED BY <1>1, <1>4, <2>1, KeyIsNew
<1>6. Append(j, e) \in Seq(TaskEvents)
  BY <1>2, <1>4, AppendProperties
<1>7. /\ p.touch = <<Snap(t), Events(t)>> \o check \o firsts
      /\ p.writes = <<a>> \o receipt \o <<b>> \o checks
      /\ p = [touch |-> p.touch, writes |-> p.writes]
  BY <1>1, <1>3 DEF TransitionPlan
<1> HIDE DEF p, e, R, m
<1>8. /\ a \in W /\ a[1] = Snap(t) /\ a[2] = R
      /\ b \in W /\ b[1] = Events(t) /\ b[2] = Append(j, e)
      /\ R \in Images
  BY <1>1, <1>4, <1>6, NamesAreFiles DEF ImagesSuffice, ServiceImages
<1>9. /\ check \in Seq(Files) /\ Len(check) <= 1
      /\ \A f \in A!RangeOf(check) : f = Checkpoint(t, m)
  <2>1. Checkpoint(t, m) \in Files
    BY <1>1, <1>3, NamesAreFiles
  <2>2. CASE m % CheckpointEvery = 0
    BY <2>1, <2>2, Single
  <2>3. CASE m % CheckpointEvery # 0
    BY <2>3, Empty
  <2>4. QED BY <2>2, <2>3
<1> HIDE DEF a, b, check
<1>10. /\ receipt \in Seq(W) /\ Once(receipt)
       /\ \A w \in A!RangeOf(receipt) : w[1] = Receipt(t, m)
       /\ to = "completed"
          => \E w \in A!RangeOf(receipt) : w[1] = Receipt(t, m) /\ w[2] = <<t, m>>
  BY <1>1, <1>3, ReceiptFacts
<1> HIDE DEF receipt
<1>11. /\ firsts \in Seq(Files) /\ A!RangeOf(firsts) = {w[1] : w \in A!RangeOf(receipt)}
  BY <1>10, Firsts
<1>12. /\ checks \in Seq(W) /\ Once(checks)
       /\ A!RangeOf(checks) = {<<f, R>> : f \in A!RangeOf(check)}
  <2>1. R \in Images /\ check \in Seq(Files)
    BY <1>8, <1>9
  <2>2. checks = [i \in 1..Len(check) |-> checks[i]]
        /\ \A i \in 1..Len(check) : checks[i] = <<check[i], R>>
    OBVIOUS
  <2> HIDE DEF checks
  <2>3. /\ checks \in Seq(Files \X Images)
        /\ A!RangeOf(checks) = {<<f, R>> : f \in A!RangeOf(check)}
        /\ Len(check) <= 1 => Once(checks)
    BY ONLY <2>1, <2>2, Images1
  <2>4. QED BY <1>9, <2>3
<1> HIDE DEF firsts, checks
<1>13. /\ p.touch \in Seq(Files)
       /\ A!RangeOf(p.touch) = {Snap(t), Events(t)} \cup A!RangeOf(check) \cup A!RangeOf(firsts)
  <2> DEFINE q == <<Snap(t), Events(t)>>
  <2>1. q \in Seq(Files) /\ A!RangeOf(q) = {Snap(t), Events(t)}
    BY <1>1, NamesAreFiles, Two
  <2> HIDE DEF q
  <2> DEFINE r == q \o check
  <2>2. r \in Seq(Files) /\ A!RangeOf(r) = A!RangeOf(q) \cup A!RangeOf(check)
    BY <1>9, <2>1, Joined
  <2>4. p.touch = r \o firsts
    BY <1>7 DEF q
  <2> HIDE DEF r
  <2>3. /\ r \o firsts \in Seq(Files)
        /\ A!RangeOf(r \o firsts) = A!RangeOf(r) \cup A!RangeOf(firsts)
    BY <1>11, <2>2, Joined
  <2>5. QED BY <2>1, <2>2, <2>3, <2>4
<1>14. /\ p.writes \in Seq(W) /\ Once(p.writes)
       /\ A!RangeOf(p.writes) = {a} \cup A!RangeOf(receipt) \cup {b} \cup A!RangeOf(checks)
  <2>1. /\ <<a>> \in Seq(W) /\ A!RangeOf(<<a>>) = {a} /\ Once(<<a>>)
        /\ <<b>> \in Seq(W) /\ A!RangeOf(<<b>>) = {b} /\ Once(<<b>>)
    BY <1>8, Single
  <2>2. \A w \in A!RangeOf(checks) : w[1] = Checkpoint(t, m)
    BY <1>9, <1>12
  <2>3. /\ <<a>> \o receipt \in Seq(W) /\ Once(<<a>> \o receipt)
        /\ A!RangeOf(<<a>> \o receipt) = {a} \cup A!RangeOf(receipt)
    <3>1. Snap(t) # Receipt(t, m)
      BY NamesApart
    <3>2. \A u \in A!RangeOf(<<a>>) : \A v \in A!RangeOf(receipt) : u[1] # v[1]
      BY <1>8, <1>10, <2>1, <3>1
    <3> DEFINE h == <<a>>
    <3>3. h \in Seq(W) /\ Once(h) /\ \A u \in A!RangeOf(h) : \A v \in A!RangeOf(receipt) : u[1] # v[1]
      BY <2>1, <3>2
    <3> HIDE DEF h, W
    <3>4. /\ h \o receipt \in Seq(W) /\ Once(h \o receipt)
          /\ A!RangeOf(h \o receipt) = A!RangeOf(h) \cup A!RangeOf(receipt)
      BY <1>10, <3>3, Joined
    <3>5. QED BY <2>1, <3>4 DEF h
  <2> DEFINE q == <<a>> \o receipt
             r == q \o <<b>>
  <2> HIDE DEF q
  <2>4. /\ r \in Seq(W) /\ Once(r) /\ A!RangeOf(r) = A!RangeOf(q) \cup {b}
    <3>1. Snap(t) # Events(t) /\ Receipt(t, m) # Events(t)
      BY NamesApart
    <3>2. q \in Seq(W) /\ Once(q) /\ A!RangeOf(q) = {a} \cup A!RangeOf(receipt)
      BY <2>3 DEF q
    <3>3. \A u \in A!RangeOf(q) : \A v \in A!RangeOf(<<b>>) : u[1] # v[1]
      BY <1>8, <1>10, <2>1, <3>1, <3>2
    <3> DEFINE h == <<b>>
    <3>4. h \in Seq(W) /\ Once(h) /\ A!RangeOf(h) = {b}
          /\ \A u \in A!RangeOf(q) : \A v \in A!RangeOf(h) : u[1] # v[1]
      BY <2>1, <3>3
    <3> HIDE DEF h, W
    <3>5. /\ q \o h \in Seq(W) /\ Once(q \o h)
          /\ A!RangeOf(q \o h) = A!RangeOf(q) \cup A!RangeOf(h)
      BY <3>2, <3>4, Joined
    <3>6. QED BY <3>4, <3>5 DEF h
  <2> HIDE DEF r
  <2>5. /\ r \o checks \in Seq(W) /\ Once(r \o checks)
        /\ A!RangeOf(r \o checks) = A!RangeOf(r) \cup A!RangeOf(checks)
    <3>1. \A u \in A!RangeOf(r) : u[1] \in {Snap(t), Events(t), Receipt(t, m)}
      BY <1>8, <1>10, <2>3, <2>4 DEF q
    <3>2. \A u \in A!RangeOf(r) : \A v \in A!RangeOf(checks) : u[1] # v[1]
      BY <2>2, <3>1, NamesApart
    <3>3. QED BY <1>12, <2>4, <3>2, Joined
  <2>6. p.writes = r \o checks
    BY <1>7 DEF q, r
  <2>7. QED BY <2>3, <2>4, <2>5, <2>6 DEF q
<1>15. p \in A!Plan
  BY <1>7, <1>13, <1>14 DEF A!Plan
<1>16. A!Declared(p)
  <2>1. \A w \in A!RangeOf(checks) : w[1] \in A!RangeOf(check)
    BY <1>12
  <2>2. \A w \in A!RangeOf(receipt) : w[1] \in A!RangeOf(firsts)
    BY <1>11
  <2>3. \A w \in A!RangeOf(p.writes) : w[1] \in A!RangeOf(p.touch)
    BY <1>8, <1>13, <1>14, <2>1, <2>2
  <2>4. QED BY <1>14, <2>3 DEF A!Declared, Once
<1>17. /\ n[Snap(t)] = e.result /\ n[Events(t)] = Append(j, e)
       /\ to = "completed" => n[Receipt(t, m)] = <<t, m>>
       /\ \A f \in Files : (/\ f # Snap(t) /\ f # Events(t)
                            /\ \A k \in Revisions : f # Receipt(t, k) /\ f # Checkpoint(t, k))
                            => n[f] = truth[f]
  <2>1. /\ \A w \in A!RangeOf(p.writes) : n[w[1]] = w[2]
        /\ \A f \in Files : (\A w \in A!RangeOf(p.writes) : w[1] # f) => n[f] = truth[f]
    BY <1>15, <1>16, AppliedFacts
  <2> HIDE DEF n
  <2>2. n[Snap(t)] = e.result /\ n[Events(t)] = Append(j, e)
    BY <1>4, <1>8, <1>14, <2>1
  <2>3. to = "completed" => n[Receipt(t, m)] = <<t, m>>
    BY <1>10, <1>14, <2>1
  <2>4. \A w \in A!RangeOf(p.writes) :
            w[1] \in {Snap(t), Events(t), Receipt(t, m), Checkpoint(t, m)}
    BY <1>8, <1>9, <1>10, <1>12, <1>14
  <2>5. QED BY <1>3, <2>1, <2>2, <2>3, <2>4
<1> HIDE DEF n
<1>18. Serves(truth, n) /\ Log(n, t) # <<>>
  <2>1. /\ e.result.rev = Len(Log(truth, t)) + 1
        /\ e.key # NoKey => \A i \in 1..Len(Log(truth, t)) : Log(truth, t)[i].key # e.key
        /\ n[Events(t)] = Append(Log(truth, t), e)
        /\ e.result.st = "completed" => n[Receipt(t, e.result.rev)] = <<t, e.result.rev>>
    BY <1>4, <1>5, <1>17 DEF m
  <2>2. QED BY <1>1, <1>4, <1>17, <2>1, TaskServed
<1>19. QED BY <1>15, <1>16, <1>18 DEF Runnable, n, p

(* A new decision is pending at the current revision of its task.          *)
LEMMA DecidePlanned ==
    ASSUME ImagesSuffice, TypeInv, Inv, ServiceInv, NEW s \in Stores, pc[s] = "open",
           DecideOK(s)
    PROVE  /\ DecidePlan(s) \in Runnable
           /\ Serves(truth, A!Applied(truth, DecidePlan(s)))
<1> DEFINE d == call[s].dec
           t == call[s].task
           x == [task |-> t, rev |-> truth[Snap(t)].rev, status |-> "pending",
                 by |-> "nobody"]
           w == <<Decided(d), x>>
           p == DecidePlan(s)
           n == A!Applied(truth, p)
<1>1. /\ file = truth /\ Fits(truth) /\ d \in Decisions /\ t \in Tasks
  BY AtOpen, CallFields DEF DecideOK
<1>2. truth[Decided(d)] = NoFile /\ truth[Snap(t)] # NoFile
      /\ TaskFits(truth, t) /\ DecisionFits(truth, d)
  BY <1>1 DEF DecideOK, Fits
<1>3. truth[Snap(t)].rev \in Revisions
  BY <1>2 DEF TaskFits, Snapshots
<1>4. x \in DecisionFiles /\ x.status = "pending"
  <2>1. "nobody" \in Actors
    BY DEF Actors
  <2> DEFINE m == truth[Snap(t)].rev
  <2>2. m \in Revisions
    BY <1>3
  <2> HIDE DEF m
  <2>3. [task |-> t, rev |-> m, status |-> "pending", by |-> "nobody"] \in DecisionFiles
    BY <1>1, <2>1, <2>2 DEF DecisionFiles
  <2>4. QED BY <2>3 DEF m
<1>5. /\ p.touch = <<Decided(d)>> /\ p.writes = <<w>>
      /\ p = [touch |-> p.touch, writes |-> p.writes]
  BY <1>1 DEF DecidePlan
<1> HIDE DEF p, x
<1>6. x \in Images /\ x # NoFile
  BY <1>4, StoreImages DEF ImagesSuffice, ServiceImages
<1>7. w \in Files \X Images /\ w[1] = Decided(d) /\ w[2] = x
  BY <1>1, <1>6, NamesAreFiles
<1> HIDE DEF w
<1>8. p.touch \in Seq(Files) /\ A!RangeOf(p.touch) = {Decided(d)}
  <2>1. <<Decided(d)>> \in Seq(Files) /\ A!RangeOf(<<Decided(d)>>) = {Decided(d)}
    BY <1>1, NamesAreFiles, Single
  <2>2. QED BY <1>5, <2>1
<1>9. p.writes \in Seq(Files \X Images) /\ A!RangeOf(p.writes) = {w} /\ Once(p.writes)
  <2>1. <<w>> \in Seq(Files \X Images) /\ A!RangeOf(<<w>>) = {w} /\ Once(<<w>>)
    BY <1>7, Single
  <2>2. QED BY <1>5, <2>1
<1>10. p \in A!Plan /\ A!Declared(p)
  BY <1>5, <1>7, <1>8, <1>9 DEF A!Plan, A!Declared, Once
<1>11. /\ n[Decided(d)] = x
       /\ \A f \in Files : f # Decided(d) => n[f] = truth[f]
  <2>1. /\ \A v \in {w} : n[v[1]] = v[2]
        /\ \A f \in Files : (\A v \in {w} : v[1] # f) => n[f] = truth[f]
    BY <1>9, <1>10, AppliedFacts
  <2> HIDE DEF n
  <2>2. QED BY <1>7, <2>1
<1> HIDE DEF n
<1>12. n[DecisionReceipt(d)] = truth[DecisionReceipt(d)]
  <2>1. Decided(d) # DecisionReceipt(d)
    BY NamesApart
  <2>2. QED BY <1>1, <1>11, <2>1, NamesAreFiles
<1>13. ~Resolved(truth, d) /\ ~Pending(truth, d) /\ ~Resolved(n, d)
  BY <1>2, <1>4, <1>11 DEF Resolved, Pending
<1>14. DecisionFits(n, d)
  BY <1>2, <1>4, <1>11, <1>12, <1>13 DEF DecisionFits
<1>15. Decides(truth, n, d)
  BY <1>13 DEF Decides
<1>16. Serves(truth, n)
  BY <1>1, <1>11, <1>14, <1>15, DecisionServed
<1>17. QED BY <1>10, <1>16 DEF Runnable, n, p

(* A resolution is bound to the revision that the decision names.          *)
LEMMA ResolvePlanned ==
    ASSUME ImagesSuffice, TypeInv, Inv, ServiceInv, NEW s \in Stores, pc[s] = "open",
           ResolveOK(s)
    PROVE  /\ ResolvePlan(s) \in Runnable
           /\ Serves(truth, A!Applied(truth, ResolvePlan(s)))
<1> DEFINE d == call[s].dec
           by == call[s].by
           old == truth[Decided(d)]
           x == [old EXCEPT !.status = "resolved", !.by = by]
           y == [rev |-> old.rev, by |-> by]
           a == <<Decided(d), x>>
           b == <<DecisionReceipt(d), y>>
           p == ResolvePlan(s)
           n == A!Applied(truth, p)
<1>1. /\ file = truth /\ Fits(truth) /\ d \in Decisions /\ by \in Actors
  BY AtOpen, CallFields DEF ResolveOK
<1>2. /\ old # NoFile /\ old.status = "pending" /\ DecisionFits(truth, d)
      /\ truth[Snap(old.task)].rev = old.rev
  BY <1>1 DEF ResolveOK, BoundTo, Fits
<1>3. old \in DecisionFiles
  BY <1>2 DEF DecisionFits
<1>4. x \in DecisionFiles /\ x.status = "resolved" /\ y \in DecisionReceipts
  BY <1>1, <1>3 DEF DecisionFiles, DecisionReceipts
<1>5. /\ p.touch = <<Decided(d), DecisionReceipt(d)>> /\ p.writes = <<a, b>>
      /\ p = [touch |-> p.touch, writes |-> p.writes]
  BY <1>1 DEF ResolvePlan
<1> HIDE DEF p, x, y
<1>6. x \in Images /\ x # NoFile /\ y \in Images /\ y # NoFile
  BY <1>4, StoreImages DEF ImagesSuffice, ServiceImages
<1>7. /\ a \in Files \X Images /\ a[1] = Decided(d) /\ a[2] = x
      /\ b \in Files \X Images /\ b[1] = DecisionReceipt(d) /\ b[2] = y
      /\ a[1] # b[1]
  <2>1. a[1] # b[1]
    BY NamesApart
  <2>2. QED BY <1>1, <1>6, <2>1, NamesAreFiles
<1> HIDE DEF a, b
<1>8. p.touch \in Seq(Files) /\ A!RangeOf(p.touch) = {Decided(d), DecisionReceipt(d)}
  BY <1>1, <1>5, NamesAreFiles, Two
<1>9. p.writes \in Seq(Files \X Images) /\ A!RangeOf(p.writes) = {a, b} /\ Once(p.writes)
  <2>1. <<a, b>> \in Seq(Files \X Images) /\ A!RangeOf(<<a, b>>) = {a, b} /\ Once(<<a, b>>)
    BY <1>7, Two
  <2>2. QED BY <1>5, <2>1
<1>10. p \in A!Plan /\ A!Declared(p)
  BY <1>5, <1>7, <1>8, <1>9 DEF A!Plan, A!Declared, Once
<1>11. /\ n[Decided(d)] = x /\ n[DecisionReceipt(d)] = y
       /\ \A f \in Files : (f # Decided(d) /\ f # DecisionReceipt(d)) => n[f] = truth[f]
  <2>1. /\ \A v \in {a, b} : n[v[1]] = v[2]
        /\ \A f \in Files : (\A v \in {a, b} : v[1] # f) => n[f] = truth[f]
    BY <1>9, <1>10, AppliedFacts
  <2> HIDE DEF n
  <2>2. QED BY <1>7, <2>1
<1> HIDE DEF n
<1>12. ~Resolved(truth, d) /\ ~Pending(n, d) /\ Resolved(n, d)
  BY <1>2, <1>4, <1>6, <1>11 DEF Resolved, Pending
<1>13. DecisionFits(n, d)
  BY <1>4, <1>6, <1>11, <1>12 DEF DecisionFits
<1>14. Decides(truth, n, d)
  <2>1. old.task \in Tasks
    BY <1>3 DEF DecisionFiles
  <2>2. n[Snap(old.task)] = truth[Snap(old.task)]
    BY <1>11, <2>1, NamesApart, NamesAreFiles
  <2>3. QED BY <1>2, <1>12, <2>2 DEF Decides
<1>15. Serves(truth, n)
  BY <1>1, <1>11, <1>13, <1>14, DecisionServed
<1>16. QED BY <1>10, <1>15 DEF Runnable, n, p

-----------------------------------------------------------------------------
(* Steps.                                                                  *)

(* What a store does in a step of the service.                             *)
LEMMA Planned ==
    ASSUME ImagesSuffice, TypeInv, Inv, ServiceInv, NEW s \in Stores, Writes(s)
    PROVE  \E p \in Runnable :
              /\ Begin(s, p) /\ Serves(truth, A!Applied(truth, p))
              /\ OnTask(s) => Log(A!Applied(truth, p), call[s].task) # <<>>
<1>0. pc[s] = "open"
  BY DEF Writes, Begin
<1>1. CASE CreateOK(s) /\ Begin(s, CreatePlan(s))
  BY <1>0, <1>1, CreatePlanned
<1>2. CASE TransitionOK(s) /\ Begin(s, TransitionPlan(s))
  BY <1>0, <1>2, TransitionPlanned
<1>3. CASE DecideOK(s) /\ Begin(s, DecidePlan(s))
  <2>1. ~OnTask(s)
    BY <1>3 DEF DecideOK, OnTask
  <2>2. QED BY <1>0, <1>3, <2>1, DecidePlanned
<1>4. CASE ResolveOK(s) /\ Begin(s, ResolvePlan(s))
  <2>1. ~OnTask(s)
    BY <1>4 DEF ResolveOK, OnTask
  <2>2. QED BY <1>0, <1>4, <2>1, ResolvePlanned
<1>5. QED BY <1>1, <1>2, <1>3, <1>4 DEF Writes

(* The parts of the service that are no step of a store.                   *)
Elsewhere ==
    \/ \E s \in Stores, t \in Tasks : ReadTask(s, t)
    \/ \E d \in Decisions : Expire(d)

(* The steps of a call with a store.                                       *)
Calls(s) ==
    \/ \E c \in Commands : Call(s, c)
    \/ StartWriting(s) \/ AnswerReplay(s) \/ Refuse(s) \/ Finish(s) \/ Running(s)

LEMMA CallsRun ==
    ASSUME ImagesSuffice, TypeInv, Inv, ServiceInv, NEW s \in Stores, Calls(s)
    PROVE  Runs(s) /\ Act(s)
<1>1. CASE StartWriting(s)
  <2>1. PICK p \in Runnable : Begin(s, p)
    BY <1>1, Planned DEF StartWriting
  <2>2. QED BY <2>1, RunsAct DEF Runs
<1>2. CASE ~StartWriting(s)
  <2>1. Runs(s)
    BY <1>2 DEF Calls, Call, AnswerReplay, Refuse, Finish, Running, Runs, Inside
  <2>2. QED BY <2>1, RunsAct
<1>3. QED BY <1>1, <1>2

LEMMA ServiceRuns ==
    ImagesSuffice /\ TypeInv /\ Inv /\ ServiceInv /\ [ServiceNext]_vars => [RunStep]_storeVars
<1>1. ASSUME ImagesSuffice, TypeInv, Inv, ServiceInv, ServiceNext
      PROVE  RunStep \/ UNCHANGED storeVars
  <2>1. CASE \E s \in Stores : Calls(s)
    BY <1>1, <2>1, CallsRun DEF RunStep
  <2>2. CASE Elsewhere
    BY <2>2 DEF Elsewhere, ReadTask, Expire
  <2>3. QED BY <1>1, <2>1, <2>2 DEF ServiceNext, Calls, Elsewhere
<1>2. QED BY <1>1 DEF vars

(* What a step does to the calls and to what their callers have read.      *)
LEMMA CallStep ==
    ASSUME TypeInv, ServiceInv, NEW s \in Stores, Calls(s)
    PROVE  /\ \A r \in Stores \ {s} : call'[r] = call[r] /\ seen'[r] = seen[r]
           /\ \/ \E c \in Commands : Call(s, c) /\ call'[s] = c /\ seen' = seen
              \/ /\ pc'[s] # "idle" /\ pc[s] # "idle"
                 /\ call'[s] = call[s] /\ seen'[s] = seen[s]
              \/ pc'[s] = "idle" /\ call'[s] = NoCall /\ seen'[s] = NoFile
           /\ call' \in [Stores -> Commands \cup {NoCall}]
           /\ seen' \in [Stores -> Readings \cup {NoFile}]
           /\ late' = late
<1>0. /\ call \in [Stores -> Commands \cup {NoCall}]
      /\ seen \in [Stores -> Readings \cup {NoFile}] /\ pc \in [Stores -> PCs]
  BY DEF ServiceInv, TypeInv, Shape
<1>1. CASE \E c \in Commands : Call(s, c)
  BY <1>0, <1>1 DEF Call
<1>2. CASE StartWriting(s)
  BY <1>0, <1>2 DEF StartWriting, Writes, Begin, To, svcVars
<1>3. CASE AnswerReplay(s)
  BY <1>0, <1>3 DEF AnswerReplay, Decline, To
<1>4. CASE Refuse(s)
  BY <1>0, <1>4 DEF Refuse, Decline, To, svcVars
<1>5. CASE Finish(s)
  BY <1>0, <1>5 DEF Finish, Leave, Return, To, Gone
<1>6. CASE Running(s)
  <2>1. CASE pc'[s] = "idle"
    BY <1>0, <1>6, <2>1 DEF Running, Gone
  <2>2. CASE pc'[s] # "idle"
    <3>1. pc[s] # "idle"
      BY <1>0, <1>6, <2>2 DEF Running, Recovery, Work, Fault, Return, To, RefuseBlocked, Acquire, SkipUnmanifested,
             KeepSettled, UndoPrepared, GiveUpMixed, EndScan, Prepare, Write, Commit, Undo,
             Undone, UndoStuck, RemoveManifest, RemoveBackups, RemoveDirectory, Removing,
             Kill, ScanFails, PrepareFails, BodyFails, UndoFails, CleanFails, Interrupt,
             EntryFails, RecoverFails, RecoverInterrupted, WaitInterrupted
    <3>2. QED BY <1>0, <1>6, <2>2, <3>1 DEF Running
  <2>3. QED BY <2>1, <2>2
<1>7. QED BY <1>1, <1>2, <1>3, <1>4, <1>5, <1>6 DEF Calls

(* A store keeps the plan it began with until it has committed or failed.  *)
LEMMA PlanKept ==
    ASSUME TypeInv, NEW s \in Stores, Enter(s) \/ Inside(s) \/ Fault(s) \/ Decline(s),
           pc'[s] \in {"made", "body"}
    PROVE  pc[s] \in {"made", "body"} /\ job'[s].plan = job[s].plan /\ truth' = truth
<1>0. pc \in [Stores -> PCs] /\ job \in [Stores -> Job] /\ job[s] \in Job
  BY DEF TypeInv, Shape
<1>1. Prepare(s) \/ Write(s)
  BY <1>0 DEF Inside, Recovery, Work, Fault, Enter, RefuseBlocked, Acquire,
           SkipUnmanifested, KeepSettled, UndoPrepared, GiveUpMixed, EndScan, Decline,
           Commit, Undo, Undone, UndoStuck, StopUndo, RemoveManifest, Removing,
           RemoveBackups, RemoveDirectory, Cleaned, Leave, Return, Kill, ScanFails,
           PrepareFails, BodyFails, UndoFails, CleanFails, Interrupt,
           EntryFails, RecoverFails, RecoverInterrupted, WaitInterrupted, Forget, To
<1>2. PICK q : job' = [job EXCEPT ![s].left = q]
  BY <1>1 DEF Prepare, Write
<1>3. job'[s].plan = job[s].plan
  BY <1>0, <1>2 DEF Job
<1>4. QED BY <1>1, <1>3 DEF Prepare, Write

(* A call that committed only has its directory to remove.                 *)
LEMMA OkKept ==
    ASSUME Faithful, TypeInv, NEW s \in Stores, Act(s), ~Commit(s), job'[s].ok,
           job[s].ok => pc[s] \in {"clean", "rm", "leave"} /\ mem[s].recovered
    PROVE  /\ job[s].ok /\ pc'[s] \in {"clean", "rm", "leave"} /\ mem' = mem
           /\ UNCHANGED <<file, truth>>
<1>0. pc \in [Stores -> PCs] /\ job \in [Stores -> Job] /\ job[s] \in Job
  BY DEF TypeInv, Shape
<1>1. ~CleanFails(s) /\ ~Interrupt(s)
  BY DEF CleanFails, Interrupt, Removing, Strikes, Faithful, CleanupGoesThrough, PCs
<1>2. /\ ~RefuseBlocked(s) /\ ~Leave(s) /\ ~Kill(s)
      /\ ~RecoverFails(s) /\ ~RecoverInterrupted(s) /\ ~WaitInterrupted(s)
  BY <1>0 DEF RefuseBlocked, Leave, Kill, RecoverFails, RecoverInterrupted, WaitInterrupted,
              Return, NoJob
<1>3. job[s].ok
  <2>1. CASE KeepSettled(s)
    <3>1. PICK i : job' = [job EXCEPT ![s].todo = @ \ {i}, ![s].id = i]
      BY <2>1 DEF KeepSettled
    <3>2. QED BY <1>0, <3>1 DEF Job
  <2>2. CASE UndoPrepared(s)
    <3>1. PICK i : job' = [job EXCEPT ![s].todo = @ \ {i}, ![s].id = i, ![s].left = tx[i].touch]
      BY <2>2 DEF UndoPrepared
    <3>2. QED BY <1>0, <3>1 DEF Job
  <2>3. CASE \E p \in A!Plan : Begin(s, p)
    <3>1. PICK p : job' = [job EXCEPT ![s].id = made + 1, ![s].plan = p, ![s].left = <<>>]
      BY <2>3 DEF Begin
    <3>2. QED BY <1>0, <3>1 DEF Job
  <2>4. CASE EndScan(s)
    <3>1. job' = job \/ job' = [job EXCEPT ![s] = NoJob]
      BY <2>4 DEF EndScan, Return
    <3>2. QED BY <1>0, <3>1 DEF NoJob
  <2>5. CASE SkipUnmanifested(s) \/ GiveUpMixed(s) \/ ScanFails(s)
    <3>1. PICK i : job' = [job EXCEPT ![s].todo = @ \ {i}]
      BY <2>5 DEF SkipUnmanifested, GiveUpMixed, ScanFails, Seen
    <3>2. QED BY <1>0, <3>1 DEF Job
  <2>6. CASE Acquire(s)
    <3>1. job' = job \/ job' = [job EXCEPT ![s].todo = Entries]
      BY <2>6 DEF Acquire
    <3>2. QED BY <1>0, <3>1 DEF Job
  <2>7. CASE \/ Prepare(s) \/ Write(s) \/ Undo(s) \/ UndoStuck(s) \/ BodyFails(s)
             \/ UndoFails(s)
    <3>1. PICK q : job' = [job EXCEPT ![s].left = q]
      BY <2>7 DEF Prepare, Write, Undo, UndoStuck, UndoFails, StopUndo, BodyFails
    <3>2. QED BY <1>0, <3>1 DEF Job
  <2>8. CASE job' = job
    BY <2>8
  <2>9. QED
    BY <1>1, <1>2, <2>1, <2>2, <2>3, <2>4, <2>5, <2>6, <2>7, <2>8
       DEF Act, Inside, Recovery, Work, Fault, EntryFails, Enter, Decline, Undone,
           RemoveManifest, RemoveBackups, RemoveDirectory, Cleaned, PrepareFails
<1>4. pc[s] \in {"clean", "rm", "leave"} /\ mem[s].recovered
  BY <1>3
<1>5. RemoveManifest(s) \/ RemoveBackups(s) \/ RemoveDirectory(s)
  BY <1>1, <1>2, <1>4
     DEF Act, Inside, Recovery, Work, Fault, EntryFails, Enter, Acquire,
         SkipUnmanifested, KeepSettled, UndoPrepared, GiveUpMixed, EndScan, Decline,
         Begin, Prepare, Write, Undo, Undone, UndoStuck, ScanFails,
         PrepareFails, BodyFails, UndoFails
<1>6. pc'[s] \in {"clean", "rm", "leave"}
  BY <1>0, <1>4, <1>5 DEF RemoveManifest, RemoveBackups, RemoveDirectory, Cleaned, To, Recovering
<1>7. QED BY <1>3, <1>5, <1>6 DEF RemoveManifest, RemoveBackups, RemoveDirectory, Cleaned

(* The committed content changes only by what a plan serves.               *)
LEMMA ContentStep ==
    ASSUME Faithful, TypeInv, Inv, ServiceInv, NEW s \in Stores, Act(s)
    PROVE  /\ truth' = truth \/ (Serves(truth, truth') /\ file' = file /\ truth' = file)
           /\ Fits(truth')
           /\ \A t \in Tasks : Extends(truth, truth', t)
           /\ \A d \in Decisions : Resolved(truth, d) => ~Pending(truth', d)
<1>1. CASE truth' = truth
  <2>1. Fits(truth)
    BY DEF ServiceInv
  <2>2. \A t \in Tasks : TaskFits(truth, t)
    BY <2>1 DEF Fits
  <2>3. \A t \in Tasks : Extends(truth, truth, t)
    BY <2>2, TaskKept
  <2>4. \A d \in Decisions : Resolved(truth, d) => ~Pending(truth, d)
    BY DEF Resolved, Pending
  <2> DEFINE c == truth'
  <2>5. c = truth
    BY <1>1
  <2> HIDE DEF c
  <2>6. /\ Fits(c) /\ \A t \in Tasks : Extends(truth, c, t)
        /\ \A d \in Decisions : Resolved(truth, d) => ~Pending(c, d)
    BY <2>1, <2>3, <2>4, <2>5
  <2>7. QED BY <1>1, <2>6 DEF c
<1>2. CASE truth' # truth
  <2>1. /\ pc[s] = "body" /\ truth' = file /\ file' = file
        /\ truth' = A!Applied(truth, job[s].plan)
    BY <1>2, TruthStep
  <2>2. Serves(truth, A!Applied(truth, job[s].plan))
    BY <2>1 DEF ServiceInv, PlanInv
  <2>3. Serves(truth, truth')
    BY <2>1, <2>2
  <2>4. QED BY <2>1, <2>3 DEF Serves, Decides
<1>3. QED BY <1>1, <1>2

(* Whatever a step leaves in a file was there, is committed, or is what    *)
(* the running body makes of it.                                           *)
LEMMA FileFrom ==
    ASSUME TypeInv, Inv, ServiceInv, NEW s \in Stores, Act(s), NEW f \in Files
    PROVE  \/ file'[f] = file[f]
           \/ truth' = truth /\ file'[f] = truth[f]
           \/ /\ truth' = truth /\ pc[s] = "body"
              /\ file'[f] = A!Applied(truth, job[s].plan)[f]
              /\ Serves(truth, A!Applied(truth, job[s].plan))
<1>1. pc[s] = "body" => Serves(truth, A!Applied(truth, job[s].plan))
  BY DEF ServiceInv, PlanInv
<1>2. QED BY <1>1, FileStep

LEMMA FitsFacts ==
    ASSUME NEW c, Fits(c)
    PROVE  /\ \A t \in Tasks : c[Snap(t)] \in Snapshots \cup {NoFile} /\ KeysOnce(Log(c, t))
           /\ \A d \in Decisions : c[Decided(d)] \in DecisionFiles \cup {NoFile}
BY DEF Fits, TaskFits, DecisionFits

LEMMA FilesStep ==
    ASSUME Faithful, TypeInv, Inv, ServiceInv, NEW s \in Stores, Act(s)
    PROVE  FileInv'
<1> DEFINE n == A!Applied(truth, job[s].plan)
<1>0. Fits(truth) /\ FileInv
  BY DEF ServiceInv
<1>1. Serves(truth, n) => Fits(n) /\ \A d \in Decisions : Pending(n, d) => ~Resolved(truth, d)
  BY DEF Serves, Decides
<1>2. \A f \in Files :
        \/ file'[f] = file[f]
        \/ truth' = truth /\ file'[f] = truth[f]
        \/ truth' = truth /\ file'[f] = n[f] /\ Serves(truth, n)
  BY FileFrom
<1>3. truth' = truth \/ (file' = file /\ truth' = file)
  BY ContentStep
<1> HIDE DEF n
<1>4. ASSUME NEW t \in Tasks
      PROVE  file'[Snap(t)] \in Snapshots \cup {NoFile} /\ KeysOnce(Log(file', t))
  <2>1. Snap(t) \in Files /\ Events(t) \in Files
    BY NamesAreFiles
  <2>2. file'[Snap(t)] \in Snapshots \cup {NoFile}
    BY <1>0, <1>1, <1>2, <2>1, FitsFacts DEF FileInv
  <2>3. \/ Log(file', t) = Log(file, t) \/ Log(file', t) = Log(truth, t)
        \/ Log(file', t) = Log(n, t) /\ Serves(truth, n)
    BY <1>2, <2>1 DEF Log
  <2>4. KeysOnce(Log(file, t)) /\ KeysOnce(Log(truth, t))
        /\ (Serves(truth, n) => KeysOnce(Log(n, t)))
    BY <1>0, <1>1, FitsFacts DEF FileInv
  <2>5. QED BY <2>2, <2>3, <2>4
<1>5. ASSUME NEW d \in Decisions
      PROVE  /\ Pending(file', d) => ~Resolved(truth', d)
             /\ file'[Decided(d)] \in DecisionFiles \cup {NoFile}
  <2>1. Decided(d) \in Files
    BY NamesAreFiles
  <2>2. file'[Decided(d)] \in DecisionFiles \cup {NoFile}
    <3>1. file[Decided(d)] \in DecisionFiles \cup {NoFile}
      BY <1>0 DEF FileInv
    <3>2. truth[Decided(d)] \in DecisionFiles \cup {NoFile}
      BY <1>0, FitsFacts
    <3>3. Serves(truth, n) => n[Decided(d)] \in DecisionFiles \cup {NoFile}
      BY <1>1, FitsFacts
    <3>4. QED BY <1>2, <2>1, <3>1, <3>2, <3>3
  <2>3. ASSUME Pending(file', d), Resolved(truth', d) PROVE FALSE
    <3>1. truth' = truth
      BY <1>3, <2>3 DEF Pending, Resolved
    <3>2. Resolved(truth, d)
      BY <2>3, <3>1 DEF Resolved
    <3>3. CASE file'[Decided(d)] = file[Decided(d)]
      BY <1>0, <2>3, <3>2, <3>3 DEF Pending, FileInv
    <3>4. CASE file'[Decided(d)] = truth[Decided(d)]
      BY <2>3, <3>2, <3>4 DEF Pending, Resolved
    <3>5. CASE file'[Decided(d)] = n[Decided(d)] /\ Serves(truth, n)
      BY <1>1, <2>3, <3>2, <3>5 DEF Pending
    <3>6. QED BY <1>2, <2>1, <3>3, <3>4, <3>5
  <2>4. QED BY <2>2, <2>3
<1>6. QED
  <2>1. /\ \A t \in Tasks : file'[Snap(t)] \in Snapshots \cup {NoFile}
                            /\ KeysOnce(Log(file', t))
        /\ \A d \in Decisions : /\ Pending(file', d) => ~Resolved(truth', d)
                                /\ file'[Decided(d)] \in DecisionFiles \cup {NoFile}
    BY <1>4, <1>5
  <2>2. QED BY <2>1 DEF FileInv, KeysOnce, Log, Pending, Resolved

(* Answers are given from the committed journal, which only grows.         *)
LEMMA AnswersStep ==
    ASSUME Faithful, TypeInv, Inv, ServiceInv, NEW s \in Stores, Calls(s), Act(s)
    PROVE  AckedInv'
<1> DEFINE In(c, e) == e[1] \in Tasks /\ \E i \in 1..Len(Log(c, e[1])) : Log(c, e[1])[i] = e[2]
<1>0. /\ Fits(truth) /\ DoneInv(s) /\ CallInv(s)
      /\ \A e \in acked : In(truth, e)
  BY DEF ServiceInv, AckedInv
<1>1. \A t \in Tasks : Log(truth, t) \in Seq(TaskEvents)
  BY <1>0, EmptySeq DEF Fits, TaskFits, Log
<1>2. \A t \in Tasks : Len(Log(truth, t)) \in Nat
  BY <1>1, LenProperties
<1>3. \A e : In(truth, e) => In(truth', e)
  <2> SUFFICES ASSUME NEW e, In(truth, e) PROVE In(truth', e)
    OBVIOUS
  <2>1. e[1] \in Tasks /\ Extends(truth, truth', e[1])
    BY ContentStep
  <2>2. PICK i \in 1..Len(Log(truth, e[1])) : Log(truth, e[1])[i] = e[2]
    OBVIOUS
  <2>3. CASE truth' = truth
    BY <2>3
  <2>4. CASE truth' # truth
    <3>1. Fits(truth')
      BY ContentStep
    <3> DEFINE c == truth'
    <3>2. TaskFits(c, e[1])
      BY <2>1, <3>1 DEF Fits
    <3> HIDE DEF c
    <3>3. Len(Log(c, e[1])) \in Nat
      <4>1. Log(c, e[1]) \in Seq(TaskEvents)
        BY <3>2, EmptySeq DEF TaskFits, Log
      <4>2. QED BY <4>1, LenProperties
    <3>4. Extends(truth, c, e[1])
      BY <2>1 DEF c
    <3>5. i \in 1..Len(Log(c, e[1])) /\ Log(c, e[1])[i] = e[2]
      BY <1>2, <2>1, <2>2, <3>3, <3>4 DEF Extends
    <3>6. In(c, e)
      BY <2>1, <3>5
    <3>7. QED BY <3>6 DEF c
  <2>5. QED BY <2>3, <2>4
<1>4. \A e \in acked' : e \in acked \/ In(truth, e)
  <2>1. CASE acked' = acked
    BY <2>1
  <2>2. CASE AnswerReplay(s)
    <3> DEFINE t == call[s].task
    <3>1. pc[s] = "open" /\ call[s].op \in {"create", "transition"}
      BY <2>2 DEF AnswerReplay, Decline, Replay
    <3>2. t \in Tasks /\ Journal(t) = Log(truth, t)
      BY <3>1, AtOpen, CallFields
    <3>3. PICK i \in Keyed(call[s]) : acked' = acked \cup {<<t, Journal(t)[i]>>}
      BY <2>2 DEF AnswerReplay, Answers
    <3>4. i \in 1..Len(Log(truth, t))
      BY <3>2, <3>3 DEF Keyed
    <3>5. In(truth, <<t, Journal(t)[i]>>)
      BY <3>2, <3>4
    <3>6. QED BY <3>3, <3>5
  <2>3. CASE Finish(s) /\ job[s].ok /\ call[s].op \in {"create", "transition"}
    <3> DEFINE t == call[s].task
               j == Journal(t)
    <3>1. acked' = acked \cup {<<t, j[Len(j)]>>} /\ pc[s] = "leave"
      BY <2>3 DEF Finish, Answers, Leave
    <3>2. t \in Tasks
      BY <1>0, <2>3, <3>1, CallFields DEF CallInv
    <3>3. InPlace /\ Log(truth, t) # <<>>
      BY <1>0, <2>3 DEF DoneInv, OnTask
    <3>4. j = Log(truth, t)
      BY <3>2, <3>3, NamesAreFiles DEF Journal, Log, InPlace
    <3>5. Len(j) \in 1..Len(j)
      BY <1>1, <3>2, <3>3, <3>4, EmptySeq, LenProperties
    <3>6. In(truth, <<t, j[Len(j)]>>)
      BY <3>2, <3>4, <3>5
    <3>7. QED BY <3>1, <3>6
  <2>4. QED
    BY <2>1, <2>2, <2>3 DEF Calls, Call, StartWriting, Refuse, Finish, Running, svcVars
<1>5. \A e \in acked' : In(truth', e)
  BY <1>0, <1>3, <1>4
<1>6. QED BY <1>5 DEF AckedInv, Log

(* A store that waits for the lock, or is waited for, keeps its part.      *)
LEMMA OthersKeep ==
    ASSUME TypeInv, ServiceInv, NEW s \in Stores, Calls(s), Act(s), NEW r \in Stores \ {s}
    PROVE  /\ pc'[r] = pc[r] /\ mem'[r] = mem[r] /\ job'[r] = job[r]
           /\ call'[r] = call[r] /\ seen'[r] = seen[r]
           /\ pc[r] \notin {"idle", "enter"} => file' = file /\ truth' = truth
<1>1. pc \in [Stores -> PCs]
  BY DEF TypeInv, Shape
<1>2. pc[r] \notin {"idle", "enter"} => pc[s] \in {"idle", "enter"}
  BY <1>1, OthersWait DEF Holding
<1>3. QED BY <1>2, Frame, CallStep

(* The plan that runs is the one that was made for what is committed.      *)
LEMMA PlansStep ==
    ASSUME ImagesSuffice, TypeInv, Inv, ServiceInv, NEW s \in Stores, Calls(s), Act(s),
           NEW r \in Stores
    PROVE  PlanInv(r)'
<1>0. PlanInv(r) /\ pc \in [Stores -> PCs] /\ job \in [Stores -> Job] /\ job[s] \in Job
  BY DEF ServiceInv, TypeInv, Shape
<1> SUFFICES ASSUME pc'[r] \in {"made", "body"} PROVE PlanInv(r)'
  BY DEF PlanInv
<1>1. ASSUME pc[r] \in {"made", "body"}, job'[r].plan = job[r].plan, truth' = truth,
             call'[r] = call[r]
      PROVE  PlanInv(r)'
  BY <1>0, <1>1 DEF PlanInv, OnTask
<1>2. CASE r # s
  BY <1>1, <1>2, OthersKeep
<1>3. CASE r = s /\ StartWriting(s)
  <2>1. PICK p \in Runnable : /\ Begin(s, p) /\ Serves(truth, A!Applied(truth, p))
                              /\ OnTask(s) => Log(A!Applied(truth, p), call[s].task) # <<>>
    BY <1>3, Planned DEF StartWriting
  <2>2. truth' = truth /\ call' = call
        /\ job' = [job EXCEPT ![s].id = made + 1, ![s].plan = p, ![s].left = <<>>]
    BY <1>3, <2>1 DEF Begin, StartWriting, svcVars
  <2>3. job'[s].plan = p
    BY <1>0, <2>2 DEF Job
  <2>4. QED BY <1>3, <2>1, <2>2, <2>3 DEF PlanInv, OnTask
<1>4. CASE r = s /\ ~StartWriting(s)
  <2>1. Enter(s) \/ Inside(s) \/ Fault(s) \/ Decline(s)
    BY <1>4 DEF Calls, Call, AnswerReplay, Refuse, Finish, Running, Inside
  <2>2. pc[s] \in {"made", "body"} /\ job'[s].plan = job[s].plan /\ truth' = truth
    BY <1>4, <2>1, PlanKept
  <2>3. call'[s] = call[s]
    BY <1>4, <2>2, CallStep DEF Call, Enter
  <2>4. QED BY <1>1, <1>4, <2>2, <2>3
<1>5. QED BY <1>2, <1>3, <1>4

(* What a commit leaves is left until the call has come back.              *)
LEMMA DoneStep ==
    ASSUME Faithful, ImagesSuffice, TypeInv, Inv, ServiceInv, NEW s \in Stores,
           Calls(s), Act(s), NEW r \in Stores
    PROVE  DoneInv(r)'
<1>0. DoneInv(r) /\ pc \in [Stores -> PCs]
  BY DEF ServiceInv, TypeInv, Shape
<1> SUFFICES ASSUME job'[r].ok PROVE DoneInv(r)'
  BY DEF DoneInv
<1>1. ASSUME job[r].ok, pc'[r] \in {"clean", "rm", "leave"}, mem'[r] = mem[r],
             file' = file, truth' = truth, call'[r] = call[r]
      PROVE  DoneInv(r)'
  BY <1>0, <1>1 DEF DoneInv, OnTask, InPlace
<1>2. CASE r # s
  BY <1>0, <1>1, <1>2, OthersKeep DEF DoneInv
<1>3. CASE r = s /\ Commit(s)
  <2>1. /\ pc[s] = "body" /\ pc'[s] = "clean" /\ mem' = mem /\ truth' = file /\ file' = file
        /\ job[s].left = <<>>
    BY <1>0, <1>3 DEF Commit, To
  <2>2. mem[s].recovered
    BY <2>1 DEF Inv, StoreInv
  <2>3. call'[s] = call[s]
    BY <2>1, CallStep DEF Call, Enter
  <2>4. truth' = A!Applied(truth, job[s].plan)
    BY <2>1, BodyBetween
  <2>5. OnTask(s) => Log(truth', call[s].task) # <<>>
    <3>1. OnTask(s) => Log(A!Applied(truth, job[s].plan), call[s].task) # <<>>
      BY <2>1 DEF ServiceInv, PlanInv
    <3>2. QED BY <2>4, <3>1
  <2>6. InPlace'
    BY <2>1 DEF InPlace
  <2>7. QED BY <1>3, <2>1, <2>2, <2>3, <2>5, <2>6 DEF DoneInv, OnTask, Log
<1>4. CASE r = s /\ ~Commit(s)
  <2>1. job[s].ok => pc[s] \in {"clean", "rm", "leave"} /\ mem[s].recovered
    BY <1>0, <1>4 DEF DoneInv
  <2>2. /\ job[s].ok /\ pc'[s] \in {"clean", "rm", "leave"} /\ mem' = mem
        /\ UNCHANGED <<file, truth>>
    BY <1>4, <2>1, OkKept
  <2>3. call'[s] = call[s]
    BY <2>1, <2>2, CallStep DEF Call, Enter
  <2>4. QED BY <1>1, <1>4, <2>2, <2>3
<1>5. QED BY <1>2, <1>3, <1>4

(* What is in the journal stays there.                                     *)
LEMMA EntryStays ==
    ASSUME Faithful, TypeInv, Inv, ServiceInv, NEW s \in Stores, Act(s),
           NEW t \in Tasks, NEW k \in Revisions, k <= Len(Log(truth, t))
    PROVE  k <= Len(Log(truth', t)) /\ Log(truth', t)[k] = Log(truth, t)[k]
<1> DEFINE c == truth'
<1>1. Fits(truth) /\ Fits(c) /\ Extends(truth, c, t)
  BY ContentStep DEF ServiceInv
<1> HIDE DEF c
<1>2. TaskFits(truth, t) /\ TaskFits(c, t)
  BY <1>1 DEF Fits
<1>3. Log(truth, t) \in Seq(TaskEvents) /\ Log(c, t) \in Seq(TaskEvents)
  BY <1>2, EmptySeq DEF TaskFits, Log
<1>4. Len(Log(truth, t)) \in Nat /\ Len(Log(c, t)) \in Nat
  BY <1>3, LenProperties
<1>5. k <= Len(Log(c, t)) /\ Log(c, t)[k] = Log(truth, t)[k]
  BY <1>1, <1>4 DEF Extends, Revisions
<1>6. QED BY <1>5 DEF c

(* A reading that was clean is in the journal for good.                    *)
LEMMA ReadingsStep ==
    ASSUME Faithful, TypeInv, Inv, ServiceInv, NEW s \in Stores, Calls(s), Act(s),
           NEW r \in Stores
    PROVE  SeenInv(r)'
<1>0. SeenInv(r)
  BY DEF ServiceInv
<1>1. seen'[r] = seen[r] \/ seen'[r] = NoFile
  BY CallStep
<1>2. CASE seen'[r] = NoFile
  BY <1>2 DEF SeenInv
<1>3. CASE seen'[r] = seen[r] /\ seen[r] # NoFile
  <2>1. seen[r] \in Readings
    BY <1>0, <1>3 DEF SeenInv
  <2>2. seen[r].of \in Tasks /\ seen[r].at.rev \in Revisions
    BY <2>1 DEF Readings, Snapshots
  <2>3. ASSUME seen[r].clean
        PROVE  /\ seen[r].at.rev <= Len(Log(truth', seen[r].of))
               /\ Log(truth', seen[r].of)[seen[r].at.rev].result = seen[r].at
    <3>1. /\ seen[r].at.rev <= Len(Log(truth, seen[r].of))
          /\ Log(truth, seen[r].of)[seen[r].at.rev].result = seen[r].at
      BY <1>0, <1>3, <2>3 DEF SeenInv
    <3>2. QED BY <2>2, <3>1, EntryStays
  <2>4. QED BY <1>3, <2>1, <2>3 DEF SeenInv, Log
<1>4. QED BY <1>1, <1>2, <1>3

LEMMA CommandsStep ==
    ASSUME TypeInv, ServiceInv, NEW s \in Stores, Calls(s), Act(s), NEW r \in Stores
    PROVE  CallInv(r)'
<1>0. CallInv(r) /\ pc \in [Stores -> PCs]
  BY DEF ServiceInv, TypeInv, Shape
<1>1. CASE r # s
  BY <1>0, <1>1, OthersKeep DEF CallInv
<1>2. CASE r = s
  <2>1. ASSUME NEW c \in Commands, Call(s, c), call'[s] = c, seen' = seen PROVE CallInv(s)'
    BY <2>1 DEF CallInv, Call
  <2>2. ASSUME pc'[s] # "idle", pc[s] # "idle", call'[s] = call[s], seen'[s] = seen[s]
        PROVE  CallInv(s)'
    BY <1>0, <1>2, <2>2 DEF CallInv
  <2>3. ASSUME pc'[s] = "idle", call'[s] = NoCall PROVE CallInv(s)'
    BY <2>3 DEF CallInv
  <2>4. QED BY <1>2, <2>1, <2>2, <2>3, CallStep
<1>3. QED BY <1>1, <1>2

(* Reading a task and the passing of time.                                 *)
LEMMA ElsewhereStep ==
    ASSUME TypeInv, ServiceInv, Elsewhere
    PROVE  ServiceInv'
<1>0. /\ seen \in [Stores -> Readings \cup {NoFile}] /\ Fits(truth) /\ FileInv /\ AckedInv
      /\ \A s \in Stores : PlanInv(s) /\ DoneInv(s) /\ SeenInv(s) /\ CallInv(s)
      /\ call \in [Stores -> Commands \cup {NoCall}] /\ late \subseteq Decisions
  BY DEF ServiceInv
<1>1. UNCHANGED <<file, tx, lock, pc, mem, job, made, truth, faults>> /\ call' = call
      /\ acked' = acked
  BY DEF Elsewhere, ReadTask, Expire, storeVars, disk
<1>2. /\ FileInv' /\ AckedInv' /\ \A s \in Stores : PlanInv(s)' /\ DoneInv(s)'
  BY <1>0, <1>1 DEF FileInv, AckedInv, PlanInv, DoneInv, InPlace, OnTask, Log, Pending, Resolved
<1>3. Fits(truth)'
  <2> DEFINE c == truth'
  <2>1. c = truth
    BY <1>1
  <2> HIDE DEF c
  <2>2. Fits(c)
    BY <1>0, <2>1
  <2>3. QED BY <2>2 DEF c
<1>4. CASE \E d \in Decisions : Expire(d)
  <2>1. seen' = seen /\ late' \subseteq Decisions
    BY <1>0, <1>4 DEF Expire
  <2>2. \A s \in Stores : SeenInv(s)' /\ CallInv(s)'
    BY <1>0, <1>1, <2>1 DEF SeenInv, CallInv, Log
  <2>3. QED BY <1>0, <1>1, <1>2, <1>3, <2>1, <2>2 DEF ServiceInv
<1>5. ASSUME NEW s \in Stores, NEW t \in Tasks, ReadTask(s, t) PROVE ServiceInv'
  <2> DEFINE x == [of |-> t, at |-> file[Snap(t)], clean |-> file[Snap(t)] = truth[Snap(t)]]
             j == Log(truth, t)
  <2>1. pc[s] = "idle" /\ file[Snap(t)] # NoFile /\ seen' = [seen EXCEPT ![s] = x]
        /\ late' = late
    BY <1>5 DEF ReadTask
  <2>2. file[Snap(t)] \in Snapshots
    BY <1>0, <2>1 DEF FileInv
  <2>3. x \in Readings
    BY <2>2 DEF Readings
  <2>4. x.of = t /\ x.at = file[Snap(t)] /\ (x.clean => file[Snap(t)] = truth[Snap(t)])
    OBVIOUS
  <2>5. TaskFits(truth, t) /\ j \in Seq(TaskEvents)
    BY <1>0, EmptySeq DEF Fits, TaskFits, Log
  <2>6. Len(j) \in Nat
    BY <2>5, LenProperties
  <2> HIDE DEF x, j
  <2>7. x.clean => x.at.rev <= Len(j) /\ j[x.at.rev].result = x.at
    <3> SUFFICES ASSUME x.clean PROVE x.at.rev <= Len(j) /\ j[x.at.rev].result = x.at
      OBVIOUS
    <3>1. j # <<>> /\ x.at = j[Len(j)].result
      BY <2>1, <2>4, <2>5 DEF TaskFits, j
    <3>2. Len(j) \in 1..Len(j)
      BY <2>5, <2>6, <3>1, EmptySeq, LenProperties
    <3>3. j[Len(j)].result.rev = Len(j)
      BY <2>5, <3>2 DEF TaskFits, j
    <3>4. QED BY <2>6, <3>1, <3>3
  <2>8. seen'[s] = x /\ \A r \in Stores : r # s => seen'[r] = seen[r]
    BY <1>0, <2>1
  <2>9. SeenInv(s)'
    BY <1>1, <2>3, <2>4, <2>7, <2>8 DEF SeenInv, Log, j
  <2>10. CallInv(s)'
    BY <1>0, <1>1, <2>1 DEF CallInv
  <2>11. \A r \in Stores : r # s => SeenInv(r)' /\ CallInv(r)'
    BY <1>0, <1>1, <2>8 DEF SeenInv, CallInv, Log
  <2>12. seen' \in [Stores -> Readings \cup {NoFile}]
    BY <1>0, <2>1, <2>3
  <2>13. \A r \in Stores : SeenInv(r)' /\ CallInv(r)'
    BY <2>9, <2>10, <2>11
  <2>14. QED BY <1>0, <1>1, <1>2, <1>3, <2>1, <2>12, <2>13 DEF ServiceInv
<1>6. QED BY <1>4, <1>5 DEF Elsewhere

LEMMA ServiceStep ==
    Faithful /\ ImagesSuffice /\ TypeInv /\ Inv /\ ServiceInv /\ [ServiceNext]_vars
        => ServiceInv'
<1>1. ASSUME Faithful, ImagesSuffice, TypeInv, Inv, ServiceInv, NEW s \in Stores, Calls(s)
      PROVE  ServiceInv'
  <2>1. Act(s)
    BY <1>1, CallsRun
  <2>2. /\ call' \in [Stores -> Commands \cup {NoCall}]
        /\ seen' \in [Stores -> Readings \cup {NoFile}] /\ late' \subseteq Decisions
    BY <1>1, CallStep DEF ServiceInv
  <2>3. FileInv' /\ AckedInv'
    BY <1>1, <2>1, FilesStep, AnswersStep
  <2>4. \A r \in Stores : PlanInv(r)' /\ DoneInv(r)' /\ SeenInv(r)' /\ CallInv(r)'
    BY <1>1, <2>1, PlansStep, DoneStep, ReadingsStep, CommandsStep
  <2>5. Fits(truth)'
    <3>1. Fits(truth')
      BY <1>1, <2>1, ContentStep
    <3>2. QED BY <3>1
  <2>6. QED BY <2>2, <2>3, <2>4, <2>5 DEF ServiceInv
<1>2. ASSUME ServiceInv, UNCHANGED vars PROVE ServiceInv'
  <2>1. /\ UNCHANGED <<file, tx, lock, pc, mem, job, made, truth, faults>>
        /\ UNCHANGED <<call, seen, acked, late>>
    BY <1>2 DEF vars, storeVars, disk, svcVars
  <2>2. Fits(truth)'
    BY <1>2, <2>1 DEF ServiceInv, Fits, TaskFits, DecisionFits, Log, Resolved
  <2>3. FileInv' /\ AckedInv'
    BY <1>2, <2>1 DEF ServiceInv, FileInv, AckedInv, Log, Pending, Resolved
  <2>4. \A r \in Stores : PlanInv(r)' /\ DoneInv(r)' /\ SeenInv(r)' /\ CallInv(r)'
    BY <1>2, <2>1 DEF ServiceInv, PlanInv, DoneInv, SeenInv, CallInv, OnTask, Log, InPlace
  <2>5. QED BY <1>2, <2>1, <2>2, <2>3, <2>4 DEF ServiceInv
<1>3. QED BY <1>1, <1>2, ElsewhereStep DEF ServiceNext, Calls, Elsewhere

LEMMA ServiceBegins == ServiceInit => ServiceInv
<1> SUFFICES ASSUME ServiceInit PROVE ServiceInv
  OBVIOUS
<1>1. /\ call = [s \in Stores |-> NoCall] /\ seen = [s \in Stores |-> NoFile]
      /\ acked = {} /\ late = {} /\ pc = [s \in Stores |-> "idle"]
      /\ job = [s \in Stores |-> NoJob]
      /\ \A f \in Files : file[f] = NoFile /\ truth[f] = NoFile
  BY DEF ServiceInit, Init
<1>2. \A t \in Tasks : /\ truth[Snap(t)] = NoFile /\ truth[Events(t)] = NoFile
                       /\ file[Snap(t)] = NoFile /\ file[Events(t)] = NoFile
  BY <1>1, NamesAreFiles
<1>3. \A d \in Decisions : /\ truth[Decided(d)] = NoFile /\ file[Decided(d)] = NoFile
                           /\ truth[DecisionReceipt(d)] = NoFile
  BY <1>1, NamesAreFiles
<1>4. \A t \in Tasks : Log(truth, t) = <<>> /\ Log(file, t) = <<>>
  BY <1>2 DEF Log
<1>5. KeysOnce(<<>>) /\ Len(<<>>) = 0
  BY DEF KeysOnce
<1>6. Fits(truth)
  <2>1. ASSUME NEW t \in Tasks PROVE TaskFits(truth, t)
    BY <1>2, <1>4, <1>5 DEF TaskFits
  <2>2. ASSUME NEW d \in Decisions PROVE DecisionFits(truth, d)
    BY <1>3 DEF DecisionFits, Resolved
  <2>3. QED BY <2>1, <2>2 DEF Fits
<1>7. FileInv /\ AckedInv
  BY <1>1, <1>2, <1>3, <1>4, <1>5 DEF FileInv, AckedInv, Pending
<1>8. \A s \in Stores : PlanInv(s) /\ DoneInv(s) /\ SeenInv(s) /\ CallInv(s)
  BY <1>1 DEF PlanInv, DoneInv, SeenInv, CallInv, NoJob
<1>9. QED BY <1>1, <1>6, <1>7, <1>8 DEF ServiceInv

Together == TypeInv /\ Inv /\ ServiceInv

LEMMA ServiceInvariant ==
    ASSUME Faithful, ImagesSuffice PROVE ServiceSpec => []Together
<1>1. ServiceInit => Together
  BY InitTypes, InitInv, ServiceBegins DEF ServiceInit, Together
<1>2. Together /\ [ServiceNext]_vars => Together'
  <2> SUFFICES ASSUME Together, [ServiceNext]_vars PROVE Together'
    OBVIOUS
  <2>1. [RunStep]_storeVars
    BY ServiceRuns DEF Together
  <2>2. [Step]_storeVars
    BY <2>1, RunsAct DEF RunStep, Step
  <2>3. TypeInv'
    BY <2>2, TypeStep DEF Together
  <2>4. Inv'
    BY <2>1, InvStep DEF Together
  <2>5. ServiceInv'
    BY ServiceStep DEF Together
  <2>6. QED BY <2>3, <2>4, <2>5 DEF Together
<1>3. QED BY <1>1, <1>2, PTL DEF ServiceSpec

-----------------------------------------------------------------------------
(* What the services promise.                                              *)

(* Whoever holds the lock finds each snapshot to be the result of the last *)
(* event of its journal and the revisions counted by the events, whatever  *)
(* was killed or failed in save_task or in its recovery.                   *)
THEOREM SnapshotsFollow ==
    ASSUME Faithful, ImagesSuffice PROVE ServiceSpec => []SnapshotFollowsJournal
<1>1. ASSUME Together, Opened, NEW t \in Tasks
      PROVE  /\ file[Snap(t)] = NoFile <=> Journal(t) = <<>>
             /\ Journal(t) # <<>> => file[Snap(t)] = Journal(t)[Len(Journal(t))].result
             /\ \A i \in 1..Len(Journal(t)) : Journal(t)[i].result.rev = i
  <2>1. file = truth /\ Fits(truth) /\ Journal(t) = Log(truth, t)
    BY <1>1, AtOpen DEF Together, Opened
  <2>2. TaskFits(truth, t)
    BY <2>1 DEF Fits
  <2>3. QED BY <2>1, <2>2 DEF TaskFits
<1>2. Together => SnapshotFollowsJournal
  BY <1>1 DEF SnapshotFollowsJournal
<1>3. QED BY <1>2, ServiceInvariant, PTL

(* A key that is repeated never has a second event in a journal, neither   *)
(* in the middle of a transaction nor of its rollback.                     *)
THEOREM RetriesHaveOneEffect ==
    ASSUME Faithful, ImagesSuffice PROVE ServiceSpec => []OneEffectPerKey
<1>1. ASSUME FileInv, NEW t \in Tasks, NEW i \in 1..Len(Journal(t)),
             NEW j \in 1..Len(Journal(t)), Journal(t)[i].key = Journal(t)[j].key, i # j
      PROVE  Journal(t)[i].key = NoKey
  <2>1. Journal(t) = Log(file, t)
    BY DEF Journal, Log
  <2>2. KeysOnce(Log(file, t))
    BY <1>1 DEF FileInv
  <2>3. QED BY <1>1, <2>1, <2>2 DEF KeysOnce
<1>2. Together => OneEffectPerKey
  BY <1>1 DEF OneEffectPerKey, Together, ServiceInv
<1>3. QED BY <1>2, ServiceInvariant, PTL

(* An event that was answered is in the journal of whoever opens it later. *)
THEOREM AnswersStay ==
    ASSUME Faithful, ImagesSuffice PROVE ServiceSpec => []AnsweredIsKept
<1>1. ASSUME Together, Opened, NEW e \in acked
      PROVE  \E i \in 1..Len(Journal(e[1])) : Journal(e[1])[i] = e[2]
  <2>1. Journal(e[1]) = Log(truth, e[1])
    BY <1>1, AtOpen DEF Together, Opened
  <2>2. QED BY <1>1, <2>1 DEF Together, ServiceInv, AckedInv
<1>2. Together => AnsweredIsKept
  BY <1>1 DEF AnsweredIsKept
<1>3. QED BY <1>2, ServiceInvariant, PTL

(* A completed task has the receipt of its revision, and a decision says   *)
(* resolved exactly when its receipt is there.                             *)
THEOREM ReceiptsGoWithTheirFiles ==
    ASSUME Faithful, ImagesSuffice PROVE ServiceSpec => []ReceiptsMatch
<1>1. ASSUME Together, Opened PROVE file = truth /\ Fits(truth)
  BY <1>1, AtOpen DEF Together, Opened
<1>2. Together => ReceiptsMatch
  BY <1>1 DEF ReceiptsMatch, Fits, TaskFits, DecisionFits, Resolved
<1>3. QED BY <1>2, ServiceInvariant, PTL

(* A decision becomes resolved only at the revision of its task that it    *)
(* names; this holds at the very write of the decision file, before the    *)
(* commit.                                                                 *)
THEOREM ResolvedAtItsRevision ==
    ASSUME Faithful, ImagesSuffice PROVE ServiceSpec => DecidedOnItsRevision
<1>1. ASSUME Together, NEW s \in Stores, Act(s), NEW d \in Decisions,
             Pending(file, d), Resolved(file', d)
      PROVE  file[Snap(file[Decided(d)].task)].rev = file[Decided(d)].rev
  <2> DEFINE n == A!Applied(truth, job[s].plan)
             t == file[Decided(d)].task
  <2>0. Decided(d) \in Files /\ FileInv
    BY <1>1, NamesAreFiles DEF Together, ServiceInv
  <2>1. file'[Decided(d)] # file[Decided(d)] /\ ~Resolved(truth, d)
    BY <1>1, <2>0 DEF Pending, Resolved, FileInv
  <2>2. file'[Decided(d)] # truth[Decided(d)]
    BY <1>1, <2>1 DEF Resolved
  <2>3. pc[s] = "body" /\ file'[Decided(d)] = n[Decided(d)] /\ Serves(truth, n)
    BY <1>1, <2>0, <2>1, <2>2, FileFrom DEF Together
  <2>4. \A f \in Files : file[f] = truth[f] \/ file[f] = n[f]
    BY <1>1, <2>3, BodyBetween DEF Together
  <2> HIDE DEF n
  <2>5. Resolved(n, d) /\ file[Decided(d)] = truth[Decided(d)]
    BY <1>1, <2>0, <2>3, <2>4 DEF Resolved, Pending
  <2>6. Pending(truth, d)
    BY <1>1, <2>5 DEF Pending
  <2>7. truth[Snap(t)].rev = truth[Decided(d)].rev /\ n[Snap(t)] = truth[Snap(t)]
    BY <2>3, <2>5, <2>6 DEF Serves, Decides
  <2>8. t \in Tasks
    BY <1>1, <2>0 DEF FileInv, Pending, DecisionFiles
  <2>9. file[Snap(t)] = truth[Snap(t)]
    BY <2>4, <2>7, <2>8, NamesAreFiles
  <2>10. QED BY <2>5, <2>7, <2>9
<1>2. ASSUME Together, [ServiceNext]_vars
      PROVE  [\A d \in Decisions :
                (/\ file[Decided(d)] # NoFile /\ file'[Decided(d)] # NoFile
                 /\ file[Decided(d)].status = "pending"
                 /\ file'[Decided(d)].status = "resolved")
                    => file[Snap(file[Decided(d)].task)].rev = file[Decided(d)].rev]_vars
  <2>1. \/ \E s \in Stores : Act(s)
        \/ UNCHANGED storeVars
    BY <1>2, ServiceRuns, RunsAct DEF Together, RunStep
  <2>2. CASE \E s \in Stores : Act(s)
    BY <1>1, <1>2, <2>2 DEF Pending, Resolved
  <2>3. CASE UNCHANGED storeVars
    BY <2>3 DEF storeVars, disk
  <2>4. QED BY <2>1, <2>2, <2>3
<1>3. QED BY <1>2, ServiceInvariant, PTL DEF ServiceSpec, DecidedOnItsRevision

(* A transition with expected_revision is accepted on the very snapshot    *)
(* its caller read, unless that was one of a transaction under way: the    *)
(* revision identifies the state for good.                                 *)
THEOREM TransitionsApplyToSeen ==
    ASSUME Faithful, ImagesSuffice PROVE ServiceSpec => AppliesToSeen
<1>1. ASSUME Together, ServiceNext, NEW s \in Stores, Applies(s), seen[s].clean
      PROVE  file[Snap(call[s].task)] = seen[s].at
  <2> DEFINE t == call[s].task
             j == Log(truth, t)
  <2>0. pc[s] = "open" /\ pc'[s] = "made" /\ pc'[s] # pc[s] /\ call[s].op = "transition"
        /\ call[s].cas
    BY <1>1 DEF Applies
  <2>1. Calls(s)
    <3>1. CASE Elsewhere
      BY <2>0, <3>1 DEF Elsewhere, ReadTask, Expire, storeVars
    <3>2. ASSUME NEW r \in Stores, Calls(r) PROVE r = s
      <4>1. Act(r)
        BY <1>1, <3>2, CallsRun DEF Together
      <4>2. QED BY <1>1, <2>0, <4>1, Frame DEF Together
    <3>3. QED BY <1>1, <3>1, <3>2 DEF ServiceNext, Elsewhere, Calls
  <2>2. StartWriting(s)
    <3>1. CASE Enter(s) \/ Inside(s) \/ Fault(s) \/ Decline(s)
      BY <1>1, <2>0, <3>1, PlanKept DEF Together
    <3>2. QED BY <2>1, <3>1 DEF Calls, Call, AnswerReplay, Refuse, Finish, Running, Inside
  <2>3. TransitionOK(s)
    BY <2>0, <2>2 DEF StartWriting, Writes, CreateOK, DecideOK, ResolveOK
  <2>4. /\ file = truth /\ Fits(truth) /\ SeenInv(s) /\ CallInv(s) /\ Journal(t) = j
        /\ t \in Tasks
    BY <1>1, <2>0, AtOpen, CallFields DEF Together
  <2>5. seen[s] # NoFile /\ seen[s].of = t
    BY <2>0, <2>4 DEF CallInv
  <2>6. j # <<>> /\ seen[s].at.rev = truth[Snap(t)].rev
    BY <2>0, <2>3, <2>4 DEF TransitionOK, RevisionMatches
  <2>7. j[seen[s].at.rev].result = seen[s].at
    BY <1>1, <2>4, <2>5 DEF SeenInv
  <2>8. TaskFits(truth, t)
    BY <2>4 DEF Fits
  <2>9. j \in Seq(TaskEvents)
    BY <2>8, EmptySeq DEF TaskFits, Log
  <2> HIDE DEF j
  <2>10. Len(j) \in 1..Len(j)
    BY <2>6, <2>9, EmptySeq, LenProperties
  <2>11. truth[Snap(t)] = j[Len(j)].result /\ j[Len(j)].result.rev = Len(j)
    BY <2>6, <2>8, <2>10 DEF TaskFits, j
  <2>12. QED BY <2>4, <2>6, <2>7, <2>11
<1>2. ASSUME Together, [ServiceNext]_vars
      PROVE  [\A s \in Stores :
                (Applies(s) /\ seen[s].clean) => file[Snap(call[s].task)] = seen[s].at]_vars
  BY <1>1, <1>2
<1>3. QED BY <1>2, ServiceInvariant, PTL DEF ServiceSpec, AppliesToSeen
=============================================================================
