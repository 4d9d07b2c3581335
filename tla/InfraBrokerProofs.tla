--------------------------- MODULE InfraBrokerProofs ---------------------------
(***************************************************************************)
(* Proofs about InfraBroker, for any number of requests, runs, keys,       *)
(* approvals and attempts.                                                 *)
(*                                                                         *)
(* Inv is the inductive invariant.  Its parts:                             *)
(*                                                                         *)
(*   TypeOK      types, and that a record named by another one exists      *)
(*   TokenInv    owner tokens are unique, and on no file before Prepare    *)
(*   LockInv     a rollback has the lock, and whoever prepared what it     *)
(*               rolls back is too late to send (here ClocksAgree is used) *)
(*   ClaimInv    what an attempt has claimed it keeps until it is fenced   *)
(*               or late; what a begun transfer has claimed stays spent:   *)
(*               the run is reserved for it or done, the key's record has  *)
(*               its token, the approval is marked with its key            *)
(*   RemoteInv   what is known of the receiver is so                       *)
(*   DryInv      nothing gets past Check without a dry run of its content  *)
(*                                                                         *)
(* A second transfer needs a claim of its own on the run, the key and the  *)
(* approval; SoleHolder and KeyIsSpent say that it cannot have them.  Each *)
(* part is proved over one effect lemma per group of actions, which says   *)
(* entry by entry and field by field what the actions do.                  *)
(***************************************************************************)
EXTENDS InfraBroker, TLAPS

-----------------------------------------------------------------------------
(* The control points.                                                     *)
RollPcs == {"roll-idem", "roll-use", "roll-adm"}
CallPcs == {"enter"} \cup RollPcs
WritePcs == {"snapshot", "check", "prepare", "claim"}
ClaimedPcs == {"approve", "reserve", "start", "execute"}
BackPcs == {"release", "drop-idem", "drop-use", "drop-adm"}
SentPcs == {"transfer", "record", "record-run"}
TriedPcs == {"prepare", "claim"} \cup ClaimedPcs \cup BackPcs \cup SentPcs
RanPcs == {"forget", "check"} \cup TriedPcs
ReplicatePcs == {"read", "replay", "snapshot"} \cup RanPcs
EndPcs == {"complete", "settle"}
VerifyPcs == {"compare", "resolve", "resolve-run", "list", "others"}
DryPcs == {"dry-snapshot", "dry-run", "dry-receipt"}
Pcs == {"idle"} \cup CallPcs \cup ReplicatePcs \cup EndPcs \cup VerifyPcs \cup DryPcs

Ops == {"none", "replicate", "dry-run", "verify"}
Job == [op : Ops, key : Keys \cup {NoKey}, approval : Approvals \cup {NoApproval},
        run : Runs \cup {NoRun}, token : 0..MaxAttempts, adm : AdmissionFile \cup {None},
        recovering : BOOLEAN, seen : BOOLEAN, claimed : BOOLEAN, reserved : BOOLEAN,
        late : BOOLEAN, owner : 0..MaxAttempts, receipt : Receipt \cup {None},
        todo : SUBSET Keys]
Transfer == [run : Runs, key : Keys, token : Tokens, approval : Approvals \cup {NoApproval}]

FilesOK ==
    /\ adm \in [Keys -> AdmissionFile \cup {None}]
    /\ idem \in [Keys -> IdemFile \cup {None}]
    /\ run \in [Runs -> RunFile \cup {None}]
    /\ use \in [Approvals -> UseFile \cup {None}]
    /\ receipts \subseteq Receipt

OuterOK ==
    /\ lock \in Workers \cup {NoWorker}
    /\ remote \in [Runs -> {"absent", "partial", "complete"}]
    /\ pc \in [Workers -> Pcs]
    /\ job \in [Workers -> Job]
    /\ attempts \in 0..MaxAttempts
    /\ begun \subseteq Transfer
    /\ answered \subseteq Keys \X Runs

Fits(l, j) ==
    /\ l = "idle" => j.token = 0
    /\ l # "idle" => j.token \in Tokens
    /\ l \in CallPcs =>
        /\ j.op \in {"replicate", "dry-run", "verify"}
        /\ j.op = "replicate" => j.key \in Keys
        /\ j.op = "verify" => j.run \in Runs
    /\ l \in ReplicatePcs => j.op = "replicate" /\ j.key \in Keys
    /\ l \in RanPcs => j.run \in Runs
    /\ l \in EndPcs => j.op \in {"replicate", "verify"} /\ j.key \in Keys /\ j.run \in Runs
    /\ l \in VerifyPcs => j.op = "verify" /\ j.run \in Runs
    /\ l = "resolve-run" => j.key \in Keys
    /\ l \in {"dry-run", "dry-receipt"} => j.run \in Runs
    /\ l = "dry-receipt" => j.receipt \in Receipt

Known(l, j, there) ==
    /\ l \in ReplicatePcs \ {"read"} /\ j.adm # None => there[j.adm.run] # None
    /\ l \in RanPcs \cup EndPcs \cup (VerifyPcs \ {"compare"}) \cup {"dry-run"}
        => there[j.run] # None

RunsThere ==
    /\ \A k \in Keys : adm[k] # None => run[adm[k].run] # None
    /\ \A k \in Keys : idem[k] # None => run[idem[k].run] # None

TypeOK ==
    /\ FilesOK /\ OuterOK /\ RunsThere
    /\ \A w \in Workers : Fits(pc[w], job[w]) /\ Known(pc[w], job[w], run)

-----------------------------------------------------------------------------
(* Owner tokens: each attempt has its own, and until it prepares an        *)
(* admission no file carries it, until it sends no transfer does.          *)
UnpreparedPcs == CallPcs \cup {"read", "replay", "forget", "snapshot", "check", "prepare"}
UnsentPcs == UnpreparedPcs \cup {"claim"} \cup ClaimedPcs \cup BackPcs

Fresh(t) ==
    /\ \A k \in Keys : adm[k] # None => adm[k].token # t
    /\ \A k \in Keys : idem[k] # None => idem[k].token # t
    /\ \A r \in Runs : run[r] # None => run[r].token # t
    /\ \A a \in Approvals : use[a] # None => use[a].token # t
Unsent(t) == \A b \in begun : b.token # t

Marked(w) ==
    /\ pc[w] \in UnpreparedPcs => Fresh(job[w].token)
    /\ pc[w] \in UnsentPcs => Unsent(job[w].token)

Numbered ==
    /\ \A w \in Workers : job[w].token <= attempts
    /\ \A v, w \in Workers : pc[v] # "idle" /\ pc[w] # "idle" /\ v # w
                                => job[v].token # job[w].token
    /\ \A k \in Keys : adm[k] # None => adm[k].token <= attempts
    /\ \A k \in Keys : idem[k] # None => idem[k].token <= attempts
    /\ \A r \in Runs : run[r] # None => run[r].token <= attempts
    /\ \A a \in Approvals : use[a] # None => use[a].token <= attempts
    /\ \A b \in begun : b.token <= attempts

TokenInv == Numbered /\ \A w \in Workers : Marked(w)

-----------------------------------------------------------------------------
(* Who keeps the lock.  While a prepared admission is rolled back the      *)
(* attempt that it belongs to is too late to send anything.                *)
RollsBack(w) == pc[w] \in RollPcs =>
    /\ lock = w
    /\ \E k \in Keys :
        /\ job[w].todo = {k}
        /\ adm[k] # None /\ adm[k].st = "prepared"
        /\ \A v \in Workers : job[v].token = adm[k].token => job[v].late

Resolves(w) == pc[w] = "resolve-run" => lock = w

LockInv == \A w \in Workers : RollsBack(w) /\ Resolves(w)

-----------------------------------------------------------------------------
(* What an attempt has as long as it is neither fenced nor late.           *)
Mine(w) == pc[w] \in ClaimedPcs \cup BackPcs /\ Owns(w) =>
    \/ idem[job[w].key] = None
    \/ idem[job[w].key].token = job[w].token

KeyHeld(w) == LET i == idem[job[w].key] IN i # None /\ i.token = job[w].token
UseHeld(w) == LET a == job[w].approval  d == adm[job[w].key] IN a # NoApproval =>
    /\ use[a] # None /\ use[a].key = job[w].key
    /\ d # None /\ d.st = "prepared" /\ d.token = use[a].token => d.token = job[w].token
RunHeld(w) == LET r == run[job[w].run] IN
    r.wip /\ r.key = job[w].key /\ r.token = job[w].token /\ ~r.done

Holds(w) == ~job[w].late =>
    /\ pc[w] \in {"approve", "reserve", "start"} /\ Owns(w) => KeyHeld(w)
    /\ pc[w] \in {"reserve", "start"} /\ Owns(w) => UseHeld(w)
    /\ pc[w] = "start" /\ Owns(w) => RunHeld(w)
    /\ pc[w] = "execute" =>
        /\ KeyHeld(w) /\ UseHeld(w) /\ RunHeld(w)
        /\ idem[job[w].key].st = "in-progress" => Owns(w)

Started(w) == pc[w] = "execute" /\ Owns(w) => adm[job[w].key].st = "started"

(* What a transfer that was begun has used up, whatever became of it.      *)
RunSpent(b) == LET r == run[b.run] IN
    r # None /\ (r.done \/ (r.wip /\ r.key = b.key /\ r.token = b.token))
KeySpent(b) == LET i == idem[b.key]  d == adm[b.key] IN
    /\ i # None /\ i.token = b.token
    /\ i.st = "in-progress" => d # None /\ d.token = b.token
    /\ d # None /\ d.token = b.token => d.st = "started"
UseSpent(b) == LET a == b.approval  d == adm[b.key] IN a # NoApproval =>
    /\ use[a] # None /\ use[a].key = b.key
    /\ d # None /\ d.st = "prepared" => d.token # use[a].token

Sends(w) == pc[w] \in SentPcs =>
    \E b \in begun : b.run = job[w].run /\ b.key = job[w].key /\ b.token = job[w].token

ClaimInv ==
    /\ \A w \in Workers : Mine(w) /\ Holds(w) /\ Started(w) /\ Sends(w)
    /\ \A b \in begun : RunSpent(b) /\ KeySpent(b) /\ UseSpent(b)

-----------------------------------------------------------------------------
(* What the receiver has, and what is known of it.                         *)
Arrived(w) ==
    /\ pc[w] = "transfer" => remote[job[w].run] = "partial"
    /\ pc[w] \in {"record", "record-run", "resolve", "resolve-run"}
        => remote[job[w].run] = "complete"
    /\ pc[w] \in {"record-run", "resolve-run"} => job[w].receipt \in receipts

Answers(w) ==
    /\ pc[w] \in EndPcs \cup {"forget", "list", "others"} => run[job[w].run].done
    /\ pc[w] \in {"forget", "settle"} =>
        idem[job[w].key] # None /\ idem[job[w].key].st = "completed"

RemoteInv ==
    /\ \A r \in Runs : remote[r] # "absent" => \E b \in begun : b.run = r
    /\ \A w \in Workers : Arrived(w) /\ Answers(w)
    /\ \A r \in Runs : run[r] # None /\ run[r].done =>
        remote[r] = "complete" /\ run[r].receipt \in receipts
    /\ \A p \in answered : run[p[2]] # None /\ run[p[2]].done

-----------------------------------------------------------------------------
(* Dry runs: nothing gets past Check without a receipt of its run.         *)
Tried(r) == DryRunRequired => \E x \in receipts : x.kind = "dry-passed" /\ x.run = r
DryInv ==
    /\ \A r \in Runs : run[r] # None /\ run[r].dryReceipt # None => run[r].dryReceipt.run = r
    /\ \A w \in Workers : pc[w] \in TriedPcs => Tried(job[w].run)
    /\ \A b \in begun : Tried(b.run)

Inv == TypeOK /\ TokenInv /\ LockInv /\ ClaimInv /\ RemoteInv /\ DryInv

-----------------------------------------------------------------------------
(* A step moves one worker.                                                *)
Others(w) == \A v \in Workers \ {w} : pc'[v] = pc[v] /\ job'[v] = job[v]
Moves(w, l, j) == l \in Pcs /\ j \in Job /\ Go(w, l) /\ Keep(w, j)
Suits(l, j, there) == Fits(l, j) /\ Known(l, j, there)

LEMMA Moved ==
    ASSUME OuterOK, NEW w \in Workers, NEW l, NEW j, Moves(w, l, j)
    PROVE  /\ pc' \in [Workers -> Pcs] /\ job' \in [Workers -> Job]
           /\ pc'[w] = l /\ job'[w] = j /\ Others(w)
BY DEF OuterOK, Go, Keep, Others, Moves

(* What its worker may rely on.                                            *)
JobOf(w) == job[w] \in Job /\ pc[w] \in Pcs /\ Suits(pc[w], job[w], run)
FileOf ==
    /\ \A k \in Keys : adm[k] \in AdmissionFile \cup {None} /\ idem[k] \in IdemFile \cup {None}
    /\ \A r \in Runs : run[r] \in RunFile \cup {None}
    /\ \A a \in Approvals : use[a] \in UseFile \cup {None}

LEMMA ItsJob ==
    ASSUME TypeOK, NEW w \in Workers PROVE JobOf(w) /\ FileOf
BY DEF TypeOK, OuterOK, FilesOK, JobOf, FileOf, Suits

LEMMA IdleJob ==
    ASSUME NEW there
    PROVE  NoJob \in Job /\ "idle" \in Pcs /\ Suits("idle", NoJob, there)
<1>1. NoJob \in Job /\ NoJob.token = 0
  BY BrokerAssumption DEF NoJob, Job, Ops
<1> QED BY <1>1 DEF Suits, Fits, Known, Pcs, CallPcs, RollPcs, ReplicatePcs, WritePcs,
    ClaimedPcs, BackPcs, SentPcs, TriedPcs, RanPcs, EndPcs, VerifyPcs, DryPcs

LEMMA StepType ==
    ASSUME TypeOK, NEW w \in Workers, NEW l, NEW j, Moves(w, l, j), Suits(l, j, run'),
           \A r \in Runs : run[r] # None => run'[r] # None,
           FilesOK', RunsThere',
           lock' \in Workers \cup {NoWorker},
           remote' \in [Runs -> {"absent", "partial", "complete"}],
           attempts' \in 0..MaxAttempts, begun' \subseteq Transfer, answered' \subseteq Keys \X Runs
    PROVE  TypeOK'
<1>1. OuterOK' /\ Others(w) /\ pc'[w] = l /\ job'[w] = j
  BY Moved DEF TypeOK, OuterOK
<1>2. ASSUME NEW v \in Workers \ {w} PROVE Fits(pc[v], job[v])' /\ Known(pc[v], job[v], run)'
  <2>1. /\ pc'[v] = pc[v] /\ job'[v] = job[v] /\ job[v] \in Job
        /\ Fits(pc[v], job[v]) /\ Known(pc[v], job[v], run)
    BY <1>1 DEF Others, TypeOK, OuterOK
  <2>2. job[v].adm # None => job[v].adm.run \in Runs
    BY <2>1 DEF Job, AdmissionFile
  <2>3. pc[v] \in RanPcs \cup EndPcs \cup VerifyPcs \cup {"dry-run"} => job[v].run \in Runs
    BY <2>1 DEF Fits
  <2>4. Known(pc[v], job[v], run')
    BY <2>1, <2>2, <2>3 DEF Known
  <2> QED BY <2>1, <2>4
<1>3. Fits(pc[w], job[w])' /\ Known(pc[w], job[w], run)'
  BY <1>1 DEF Suits
<1> QED BY <1>1, <1>2, <1>3 DEF TypeOK

LEMMA LocalType ==
    ASSUME TypeOK, NEW w \in Workers, NEW l, NEW j, Moves(w, l, j), Suits(l, j, run),
           UNCHANGED <<files, lock, outer>>
    PROVE  TypeOK'
<1>1. FilesOK' /\ RunsThere' /\ Suits(l, j, run')
  BY DEF TypeOK, FilesOK, RunsThere, files
<1> QED BY <1>1, StepType DEF TypeOK, OuterOK, files, outer

-----------------------------------------------------------------------------
(* The types, action by action: first the steps that change no file.       *)

LEMMA LocalSteps ==
    ASSUME TypeOK, NEW w \in Workers,
           \/ Admit(w) \/ ReadAdmission(w) \/ Replay(w) \/ GoOn(w) \/ Check(w)
           \/ GiveUp(w) \/ NothingSent(w) \/ Compare(w) \/ ListOthers(w) \/ SkipOther(w)
           \/ Refuse(w)
    PROVE  TypeOK'
<1> USE DEF At, Pcs, CallPcs, RollPcs, ReplicatePcs, WritePcs, ClaimedPcs, BackPcs, SentPcs,
            TriedPcs, RanPcs, EndPcs, VerifyPcs, DryPcs
<1>j. JobOf(w) /\ FileOf
  BY ItsJob
<1>same. ASSUME NEW l \in Pcs, Go(w, l), job' = job PROVE Moves(w, l, job[w])
  <2>1. job \in [Workers -> Job]
    BY DEF TypeOK, OuterOK
  <2> QED BY <1>same, <2>1 DEF Keep, Moves
<1>1. CASE Admit(w)
  <2>1. /\ pc[w] = "enter" /\ job[w].op \in {"replicate", "dry-run", "verify"}
        /\ job' = job /\ UNCHANGED <<files, lock, outer>>
    BY <1>1, <1>j DEF Admit, JobOf, Suits, Fits
  <2>2. CASE job[w].op = "replicate"
    <3>1. Go(w, "read")
      BY <1>1, <2>2 DEF Admit
    <3>2. Suits("read", job[w], run)
      BY <2>1, <2>2, <1>j DEF JobOf, Suits, Fits, Known
    <3> QED BY <2>1, <3>1, <3>2, <1>same, LocalType
  <2>3. CASE job[w].op = "dry-run"
    <3>1. Go(w, "dry-snapshot")
      BY <1>1, <2>3 DEF Admit
    <3>2. Suits("dry-snapshot", job[w], run)
      BY <2>1, <2>3, <1>j DEF JobOf, Suits, Fits, Known
    <3> QED BY <2>1, <3>1, <3>2, <1>same, LocalType
  <2>4. CASE job[w].op = "verify"
    <3>1. Go(w, "compare")
      BY <1>1, <2>4 DEF Admit
    <3>2. Suits("compare", job[w], run)
      BY <2>1, <2>4, <1>j DEF JobOf, Suits, Fits, Known
    <3> QED BY <2>1, <3>1, <3>2, <1>same, LocalType
  <2> QED BY <2>1, <2>2, <2>3, <2>4
<1>2. CASE ReadAdmission(w)
  <2> DEFINE j == [job[w] EXCEPT !.adm = adm[job[w].key]]
  <2>1. pc[w] = "read" /\ Go(w, "replay") /\ Keep(w, j) /\ UNCHANGED <<files, lock, outer>>
    BY <1>2 DEF ReadAdmission
  <2>2. job[w].key \in Keys
    BY <2>1, <1>j DEF JobOf, Suits, Fits
  <2>3. j \in Job
    BY <2>2, <1>j DEF JobOf, FileOf, Job
  <2>4. j.op = "replicate" /\ j.key \in Keys /\ j.token \in Tokens /\ j.adm = adm[j.key]
    BY <2>1, <2>2, <1>j DEF JobOf, Suits, Fits, Job
  <2>5. Suits("replay", j, run)
    BY <2>4 DEF Suits, Fits, Known, TypeOK, RunsThere
  <2> QED BY <2>1, <2>3, <2>5, LocalType DEF Moves
<1>3. CASE Replay(w)
  <2> DEFINE j == [job[w] EXCEPT !.run = idem[job[w].key].run]
  <2>1. /\ pc[w] = "replay" /\ Go(w, "forget") /\ Keep(w, j) /\ idem[job[w].key] # None
        /\ UNCHANGED <<files, lock, outer>>
    BY <1>3 DEF Replay, Replayable
  <2>2. job[w].key \in Keys /\ job[w].op = "replicate" /\ job[w].token \in Tokens
    BY <2>1, <1>j DEF JobOf, Suits, Fits
  <2>3. idem[job[w].key].run \in Runs /\ run[idem[job[w].key].run] # None
    BY <2>1, <2>2, <1>j DEF FileOf, IdemFile, TypeOK, RunsThere
  <2>4. j \in Job
    BY <2>3, <1>j DEF JobOf, Job
  <2>5. /\ j.op = "replicate" /\ j.key \in Keys /\ j.token \in Tokens /\ j.adm = job[w].adm
        /\ j.run = idem[job[w].key].run
    BY <2>2, <1>j DEF JobOf, Job
  <2>6. Suits("forget", j, run)
    BY <2>1, <2>3, <2>5, <1>j DEF JobOf, Suits, Fits, Known
  <2> QED BY <2>1, <2>4, <2>6, LocalType DEF Moves
<1>4. CASE GoOn(w)
  <2> DEFINE j == [job[w] EXCEPT !.recovering = Recovers(w)]
  <2>1. pc[w] = "replay" /\ Go(w, "snapshot") /\ Keep(w, j) /\ UNCHANGED <<files, lock, outer>>
    BY <1>4 DEF GoOn
  <2>2. j \in Job
    BY <1>j DEF JobOf, Job, Recovers
  <2>3. /\ j.op = job[w].op /\ j.key = job[w].key /\ j.token = job[w].token /\ j.adm = job[w].adm
    BY <1>j DEF JobOf, Job
  <2>4. Suits("snapshot", j, run)
    BY <2>1, <2>3, <1>j DEF JobOf, Suits, Fits, Known
  <2> QED BY <2>1, <2>2, <2>4, LocalType DEF Moves
<1>5. CASE Check(w)
  <2> DEFINE j == [job[w] EXCEPT !.seen = run[job[w].run].wip]
  <2>1. pc[w] = "check" /\ Go(w, "prepare") /\ Keep(w, j) /\ UNCHANGED <<files, lock, outer>>
    BY <1>5 DEF Check
  <2>2. job[w].run \in Runs /\ run[job[w].run] \in RunFile
    BY <2>1, <1>j DEF JobOf, FileOf, Suits, Fits, Known
  <2>3. j \in Job
    BY <2>2, <1>j DEF JobOf, Job, RunFile
  <2>4. /\ j.op = job[w].op /\ j.key = job[w].key /\ j.token = job[w].token /\ j.adm = job[w].adm
        /\ j.run = job[w].run
    BY <1>j DEF JobOf, Job
  <2>5. Suits("prepare", j, run)
    BY <2>1, <2>4, <1>j DEF JobOf, Suits, Fits, Known
  <2> QED BY <2>1, <2>3, <2>5, LocalType DEF Moves
<1>6. CASE GiveUp(w) \/ NothingSent(w)
  <2>1. /\ pc[w] \in ClaimedPcs /\ job' = job /\ UNCHANGED <<files, lock, outer>>
        /\ Go(w, "release") \/ Go(w, "drop-idem")
    BY <1>6 DEF GiveUp, NothingSent
  <2>2. Suits("release", job[w], run) /\ Suits("drop-idem", job[w], run)
    BY <2>1, <1>j DEF JobOf, Suits, Fits, Known
  <2> QED BY <2>1, <2>2, <1>same, LocalType
<1>7. CASE Compare(w)
  <2>1. /\ pc[w] = "compare" /\ job' = job /\ UNCHANGED <<files, lock, outer>>
        /\ Go(w, "resolve") /\ run[job[w].run] # None
    BY <1>7 DEF Compare
  <2>2. Suits("resolve", job[w], run)
    BY <2>1, <1>j DEF JobOf, Suits, Fits, Known
  <2> QED BY <2>1, <2>2, <1>same, LocalType
<1>8. CASE ListOthers(w)
  <2> DEFINE named == {k \in Keys : adm[k] # None /\ adm[k].run = job[w].run}
             j == [job[w] EXCEPT !.todo = named]
  <2>1. /\ pc[w] \in {"list", "resolve"} /\ Go(w, "others") /\ Keep(w, j)
        /\ UNCHANGED <<files, lock, outer>>
    BY <1>8 DEF ListOthers
  <2>2. named \in SUBSET Keys
    OBVIOUS
  <2> HIDE DEF named
  <2>3. j \in Job /\ j.op = job[w].op /\ j.token = job[w].token /\ j.run = job[w].run
    BY <2>2, <1>j DEF JobOf, Job
  <2>4. Suits("others", j, run)
    BY <2>1, <2>3, <1>j DEF JobOf, Suits, Fits, Known
  <2> QED BY <2>1, <2>3, <2>4, LocalType DEF Moves
<1>9. CASE SkipOther(w)
  <2> PICK k \in job[w].todo : Keep(w, [job[w] EXCEPT !.todo = job[w].todo \ {k}])
    BY <1>9 DEF SkipOther
  <2> DEFINE left == job[w].todo \ {k}
             j == [job[w] EXCEPT !.todo = left]
  <2>1. /\ pc[w] = "others" /\ UNCHANGED <<files, lock, outer>> /\ pc' = pc
    BY <1>9 DEF SkipOther
  <2>2. Go(w, "others") /\ Keep(w, j)
    BY <2>1 DEF Go, TypeOK, OuterOK
  <2>3. job[w].todo \in SUBSET Keys
    BY <1>j DEF JobOf, Job
  <2>4. left \in SUBSET Keys
    BY <2>3
  <2> HIDE DEF left
  <2>5. j \in Job /\ j.op = job[w].op /\ j.token = job[w].token /\ j.run = job[w].run
    BY <2>4, <1>j DEF JobOf, Job
  <2>6. Suits("others", j, run)
    BY <2>1, <2>5, <1>j DEF JobOf, Suits, Fits, Known
  <2> QED BY <2>1, <2>2, <2>5, <2>6, LocalType DEF Moves
<1>10. CASE Refuse(w)
  <2>1. Moves(w, "idle", NoJob) /\ Suits("idle", NoJob, run) /\ UNCHANGED <<files, lock, outer>>
    BY <1>10, IdleJob DEF Refuse, End, Moves
  <2> QED BY <2>1, LocalType
<1> QED BY <1>1, <1>2, <1>3, <1>4, <1>5, <1>6, <1>7, <1>8, <1>9, <1>10

-----------------------------------------------------------------------------
(* One file is written or removed.                                         *)

LEMMA AdmType ==
    ASSUME TypeOK, NEW w \in Workers, NEW l, NEW j, Moves(w, l, j), Suits(l, j, run),
           NEW k \in Keys, NEW a \in AdmissionFile \cup {None}, a # None => run[a.run] # None,
           adm' = [adm EXCEPT ![k] = a] \/ adm' = adm,
           UNCHANGED <<idem, run, use, receipts, remote, attempts, begun>>,
           lock' \in Workers \cup {NoWorker}, answered' \subseteq Keys \X Runs
    PROVE  TypeOK'
<1>1. FilesOK'
  BY DEF TypeOK, FilesOK
<1>2. RunsThere'
  BY DEF TypeOK, FilesOK, RunsThere
<1>3. /\ remote' \in [Runs -> {"absent", "partial", "complete"}]
      /\ attempts' \in 0..MaxAttempts /\ begun' \subseteq Transfer
  BY DEF TypeOK, OuterOK
<1> QED BY <1>1, <1>2, <1>3, StepType

LEMMA IdemType ==
    ASSUME TypeOK, NEW w \in Workers, NEW l, NEW j, Moves(w, l, j), Suits(l, j, run),
           NEW k \in Keys, NEW i \in IdemFile \cup {None}, i # None => run[i.run] # None,
           idem' = [idem EXCEPT ![k] = i] \/ idem' = idem,
           UNCHANGED <<adm, run, use, receipts, lock, outer>>
    PROVE  TypeOK'
<1>1. FilesOK'
  BY DEF TypeOK, FilesOK
<1>2. RunsThere'
  BY DEF TypeOK, FilesOK, RunsThere
<1> QED BY <1>1, <1>2, StepType DEF TypeOK, OuterOK, outer

LEMMA UseType ==
    ASSUME TypeOK, NEW w \in Workers, NEW l, NEW j, Moves(w, l, j), Suits(l, j, run),
           use' \in [Approvals -> UseFile \cup {None}],
           UNCHANGED <<adm, idem, run, receipts, lock, outer>>
    PROVE  TypeOK'
<1>1. FilesOK' /\ RunsThere'
  BY DEF TypeOK, FilesOK, RunsThere
<1> QED BY <1>1, StepType DEF TypeOK, OuterOK, outer

LEMMA RunType ==
    ASSUME TypeOK, NEW w \in Workers, NEW l, NEW j, Moves(w, l, j), Suits(l, j, run'),
           NEW r \in Runs, NEW x \in RunFile, run' = [run EXCEPT ![r] = x] \/ run' = run,
           UNCHANGED <<adm, idem, use, receipts, outer>>, lock' \in Workers \cup {NoWorker}
    PROVE  TypeOK'
<1>1. FilesOK' /\ \A q \in Runs : run[q] # None => run'[q] # None
  BY NoneAssumption DEF TypeOK, FilesOK
<1>2. RunsThere'
  BY <1>1 DEF TypeOK, FilesOK, RunsThere, AdmissionFile, IdemFile
<1> QED BY <1>1, <1>2, StepType DEF TypeOK, OuterOK, outer

LEMMA AdmSteps ==
    ASSUME TypeOK, NEW w \in Workers,
           \/ RollbackAdm(w) \/ Forget(w) \/ Prepare(w) \/ Start(w) \/ DropAdm(w)
           \/ SettleWriter(w) \/ SettleVerified(w)
    PROVE  TypeOK'
<1> USE DEF At, Pcs, CallPcs, RollPcs, ReplicatePcs, WritePcs, ClaimedPcs, BackPcs, SentPcs,
            TriedPcs, RanPcs, EndPcs, VerifyPcs, DryPcs
<1>j. JobOf(w) /\ FileOf /\ lock \in Workers \cup {NoWorker} /\ answered \subseteq Keys \X Runs
  BY ItsJob DEF TypeOK, OuterOK
<1>end. ASSUME End(w) PROVE Moves(w, "idle", NoJob) /\ Suits("idle", NoJob, run)
  BY <1>end, IdleJob DEF End, Moves
<1>same. ASSUME NEW l \in Pcs, Go(w, l), job' = job PROVE Moves(w, l, job[w])
  <2>1. job \in [Workers -> Job]
    BY DEF TypeOK, OuterOK
  <2> QED BY <1>same, <2>1 DEF Keep, Moves
<1>1. CASE RollbackAdm(w)
  <2> DEFINE j == [job[w] EXCEPT !.todo = {}]
  <2>1. /\ pc[w] = "roll-adm" /\ Go(w, "enter") /\ Keep(w, j)
        /\ lock' = NoWorker /\ UNCHANGED <<idem, run, use, receipts, outer>>
        /\ \E k \in job[w].todo : adm' = [adm EXCEPT ![k] = None]
    BY <1>1 DEF RollbackAdm
  <2>2. job[w].todo \in SUBSET Keys
    BY <1>j DEF JobOf, Job
  <2>3. /\ j \in Job /\ j.op = job[w].op /\ j.key = job[w].key /\ j.run = job[w].run
        /\ j.token = job[w].token
    BY <1>j DEF JobOf, Job
  <2>4. Suits("enter", j, run)
    BY <2>1, <2>3, <1>j DEF JobOf, Suits, Fits, Known
  <2>5. PICK k \in Keys : adm' = [adm EXCEPT ![k] = None]
    BY <2>1, <2>2
  <2>6. Moves(w, "enter", j) /\ None \in AdmissionFile \cup {None}
    BY <2>1, <2>3 DEF Moves
  <2> QED BY <2>1, <2>4, <2>5, <2>6, <1>j, AdmType DEF outer
<1>2. CASE Forget(w)
  <2>1. /\ pc[w] = "forget" /\ End(w) /\ adm' = [adm EXCEPT ![job[w].key] = None]
        /\ answered' = answered \cup {<<job[w].key, job[w].run>>}
        /\ UNCHANGED <<idem, run, use, receipts, remote, attempts, begun, lock>>
    BY <1>2 DEF Forget, Locked
  <2>2. job[w].key \in Keys /\ job[w].run \in Runs
    BY <2>1, <1>j DEF JobOf, Suits, Fits
  <2>3. answered' \subseteq Keys \X Runs /\ None \in AdmissionFile \cup {None}
    BY <2>1, <2>2, <1>j
  <2> QED BY <2>1, <2>2, <2>3, <1>end, <1>j, AdmType
<1>3. CASE Prepare(w)
  <2>1. /\ pc[w] = "prepare" /\ Go(w, "claim") /\ job' = job
        /\ adm' = [adm EXCEPT ![job[w].key] = Admission(w)]
        /\ UNCHANGED <<idem, run, use, receipts, lock, outer>>
    BY <1>3 DEF Prepare, Locked
  <2>2. /\ job[w].key \in Keys /\ job[w].run \in Runs /\ run[job[w].run] # None
        /\ job[w].token \in Tokens /\ job[w].approval \in Approvals \cup {NoApproval}
    BY <2>1, <1>j DEF JobOf, Suits, Fits, Known, Job
  <2>3. Admission(w) \in AdmissionFile \cup {None} /\ run[Admission(w).run] # None
    BY <2>2 DEF Admission, AdmissionFile
  <2>4. Suits("claim", job[w], run)
    BY <2>1, <1>j DEF JobOf, Suits, Fits, Known
  <2> QED BY <2>1, <2>2, <2>3, <2>4, <1>same, <1>j, AdmType DEF outer
<1>4. CASE Start(w)
  <2> DEFINE a == [adm[job[w].key] EXCEPT !.st = "started"]
  <2>1. /\ pc[w] = "start" /\ Go(w, "execute") /\ job' = job /\ adm[job[w].key] # None
        /\ UNCHANGED <<idem, run, use, receipts, lock, outer>>
        /\ adm' = [adm EXCEPT ![job[w].key].st = "started"]
    BY <1>4 DEF Start, Locked, OwnsPrepared, Owns
  <2>2. job[w].key \in Keys
    BY <2>1, <1>j DEF JobOf, Suits, Fits
  <2>3. /\ adm[job[w].key] \in AdmissionFile /\ run[adm[job[w].key].run] # None
        /\ adm \in [Keys -> AdmissionFile \cup {None}]
    BY <2>1, <2>2, <1>j DEF FileOf, TypeOK, RunsThere, FilesOK
  <2>4. a \in AdmissionFile \cup {None} /\ a.run = adm[job[w].key].run
    BY <2>3 DEF AdmissionFile
  <2>5. adm' = [adm EXCEPT ![job[w].key] = a]
    BY <2>1, <2>2, <2>3
  <2>6. Suits("execute", job[w], run)
    BY <2>1, <1>j DEF JobOf, Suits, Fits, Known
  <2> HIDE DEF a
  <2> QED BY <2>1, <2>2, <2>3, <2>4, <2>5, <2>6, <1>same, <1>j, AdmType DEF outer
<1>5. CASE DropAdm(w)
  <2>1. /\ pc[w] = "drop-adm" /\ End(w)
        /\ adm' = [adm EXCEPT ![job[w].key] = None] \/ adm' = adm
        /\ UNCHANGED <<idem, run, use, receipts, lock, outer>>
    BY <1>5 DEF DropAdm, Locked
  <2>2. job[w].key \in Keys /\ None \in AdmissionFile \cup {None}
    BY <2>1, <1>j DEF JobOf, Suits, Fits
  <2> QED BY <2>1, <2>2, <1>end, <1>j, AdmType DEF outer
<1>6. CASE SettleWriter(w)
  <2>1. /\ pc[w] = "settle" /\ End(w)
        /\ adm' = [adm EXCEPT ![job[w].key] = None] \/ adm' = adm
        /\ answered' = answered \cup {<<job[w].key, job[w].run>>}
        /\ UNCHANGED <<idem, run, use, receipts, remote, attempts, begun, lock>>
    BY <1>6 DEF SettleWriter, Locked, DropOwned
  <2>2. job[w].key \in Keys /\ job[w].run \in Runs
    BY <2>1, <1>j DEF JobOf, Suits, Fits
  <2>3. answered' \subseteq Keys \X Runs /\ None \in AdmissionFile \cup {None}
    BY <2>1, <2>2, <1>j
  <2> QED BY <2>1, <2>2, <2>3, <1>end, <1>j, AdmType
<1>7. CASE SettleVerified(w)
  <2> DEFINE left == job[w].todo \ {job[w].key}
             j == [job[w] EXCEPT !.todo = left]
  <2>1. /\ pc[w] = "settle"
        /\ Go(w, "list") \/ Go(w, "others")
        /\ Keep(w, j) /\ job[w].op = "verify"
        /\ adm' = [adm EXCEPT ![job[w].key] = None] \/ adm' = adm
        /\ UNCHANGED <<idem, run, use, receipts, lock, outer>>
    BY <1>7 DEF SettleVerified, Locked, DropOwned
  <2>2. job[w].todo \in SUBSET Keys
    BY <1>j DEF JobOf, Job
  <2>3. left \in SUBSET Keys
    BY <2>2
  <2> HIDE DEF left
  <2>4. /\ j \in Job /\ j.op = job[w].op /\ j.key = job[w].key /\ j.run = job[w].run
        /\ j.token = job[w].token
    BY <2>3, <1>j DEF JobOf, Job
  <2>5. Suits("list", j, run) /\ Suits("others", j, run)
    BY <2>1, <2>4, <1>j DEF JobOf, Suits, Fits, Known
  <2>6. job[w].key \in Keys /\ None \in AdmissionFile \cup {None}
    BY <2>1, <1>j DEF JobOf, Suits, Fits
  <2>7. Moves(w, "list", j) \/ Moves(w, "others", j)
    BY <2>1, <2>4 DEF Moves
  <2> QED BY <2>1, <2>5, <2>6, <2>7, <1>j, AdmType DEF outer
<1> QED BY <1>1, <1>2, <1>3, <1>4, <1>5, <1>6, <1>7

LEMMA IdemSteps ==
    ASSUME TypeOK, NEW w \in Workers,
           RollbackIdem(w) \/ ClaimIdem(w) \/ DropIdem(w) \/ Complete(w)
    PROVE  TypeOK'
<1> USE DEF At, Pcs, CallPcs, RollPcs, ReplicatePcs, WritePcs, ClaimedPcs, BackPcs, SentPcs,
            TriedPcs, RanPcs, EndPcs, VerifyPcs, DryPcs
<1>j. JobOf(w) /\ FileOf
  BY ItsJob
<1>same. ASSUME NEW l \in Pcs, Go(w, l), job' = job PROVE Moves(w, l, job[w])
  <2>1. job \in [Workers -> Job]
    BY DEF TypeOK, OuterOK
  <2> QED BY <1>same, <2>1 DEF Keep, Moves
<1>1. CASE RollbackIdem(w)
  <2>1. /\ pc[w] = "roll-idem" /\ Go(w, "roll-use") /\ job' = job
        /\ UNCHANGED <<adm, run, use, receipts, lock, outer>>
        /\ \E k \in job[w].todo : idem' = [idem EXCEPT ![k] = None] \/ idem' = idem
    BY <1>1 DEF RollbackIdem
  <2>2. job[w].todo \in SUBSET Keys
    BY <1>j DEF JobOf, Job
  <2>3. PICK k \in Keys : idem' = [idem EXCEPT ![k] = None] \/ idem' = idem
    BY <2>1, <2>2
  <2>4. Suits("roll-use", job[w], run) /\ None \in IdemFile \cup {None}
    BY <2>1, <1>j DEF JobOf, Suits, Fits, Known
  <2> QED BY <2>1, <2>3, <2>4, <1>same, IdemType
<1>2. CASE ClaimIdem(w)
  <2> DEFINE i == [st |-> "in-progress", approval |-> job[w].approval, run |-> job[w].run,
                   token |-> job[w].token, receipt |-> None]
             j == [job[w] EXCEPT !.claimed = ~job[w].recovering, !.reserved = job[w].seen]
  <2>1. /\ pc[w] = "claim" /\ Go(w, "approve") /\ Keep(w, j)
        /\ idem' = [idem EXCEPT ![job[w].key] = i]
        /\ UNCHANGED <<adm, run, use, receipts, lock, outer>>
    BY <1>2 DEF ClaimIdem, Locked
  <2>2. /\ job[w].key \in Keys /\ job[w].run \in Runs /\ run[job[w].run] # None
        /\ job[w].token \in Tokens /\ job[w].approval \in Approvals \cup {NoApproval}
    BY <2>1, <1>j DEF JobOf, Suits, Fits, Known, Job
  <2>3. i \in IdemFile \cup {None} /\ run[i.run] # None
    BY <2>2 DEF IdemFile
  <2>4. /\ j \in Job /\ j.op = job[w].op /\ j.key = job[w].key /\ j.run = job[w].run
        /\ j.token = job[w].token /\ j.adm = job[w].adm
    BY <1>j DEF JobOf, Job
  <2>5. Suits("approve", j, run)
    BY <2>1, <2>4, <1>j DEF JobOf, Suits, Fits, Known
  <2>6. Moves(w, "approve", j)
    BY <2>1, <2>4 DEF Moves
  <2> HIDE DEF i, j
  <2> QED BY <2>1, <2>2, <2>3, <2>5, <2>6, IdemType
<1>3. CASE DropIdem(w)
  <2>1. /\ pc[w] = "drop-idem" /\ Go(w, "drop-use") /\ job' = job
        /\ UNCHANGED <<adm, run, use, receipts, lock, outer>>
        /\ idem' = [idem EXCEPT ![job[w].key] = None] \/ idem' = idem
    BY <1>3 DEF DropIdem, Locked
  <2>2. job[w].key \in Keys
    BY <2>1, <1>j DEF JobOf, Suits, Fits
  <2>3. Suits("drop-use", job[w], run) /\ None \in IdemFile \cup {None}
    BY <2>1, <1>j DEF JobOf, Suits, Fits, Known
  <2> QED BY <2>1, <2>2, <2>3, <1>same, IdemType
<1>4. CASE Complete(w)
  <2> DEFINE k == job[w].key
             x == CompletionReceipt(w)
             i == [idem[k] EXCEPT !.st = "completed", !.receipt = x]
  <2>1. /\ pc[w] = "complete" /\ Go(w, "settle") /\ job' = job /\ idem[k] # None
        /\ UNCHANGED <<adm, run, use, receipts, lock, outer>>
        /\ idem' = [idem EXCEPT ![k].st = "completed", ![k].receipt = x]
    BY <1>4 DEF Complete, Locked
  <2>2. /\ k \in Keys /\ job[w].run \in Runs /\ job[w].token \in Tokens
        /\ job[w].receipt \in Receipt \cup {None}
    BY <2>1, <1>j DEF JobOf, Suits, Fits, Job
  <2>3. x \in Receipt
    BY <2>2 DEF CompletionReceipt, ReceiptOf, Receipt, ReceiptKinds, DryRunKinds
  <2>4. idem[k] \in IdemFile /\ run[idem[k].run] # None /\ idem \in [Keys -> IdemFile \cup {None}]
    BY <2>1, <2>2, <1>j DEF FileOf, TypeOK, RunsThere, FilesOK
  <2> HIDE DEF x
  <2>5. i \in IdemFile /\ i.run = idem[k].run
    BY <2>3, <2>4 DEF IdemFile
  <2>6. idem' = [idem EXCEPT ![k] = i]
    BY <2>1, <2>2, <2>4
  <2>7. Suits("settle", job[w], run)
    BY <2>1, <1>j DEF JobOf, Suits, Fits, Known
  <2> HIDE DEF i, k
  <2> QED BY <2>1, <2>2, <2>4, <2>5, <2>6, <2>7, <1>same, IdemType
<1> QED BY <1>1, <1>2, <1>3, <1>4

LEMMA UseSteps ==
    ASSUME TypeOK, NEW w \in Workers, RollbackUse(w) \/ Approve(w) \/ DropUse(w)
    PROVE  TypeOK'
<1> USE DEF At, Pcs, CallPcs, RollPcs, ReplicatePcs, WritePcs, ClaimedPcs, BackPcs, SentPcs,
            TriedPcs, RanPcs, EndPcs, VerifyPcs, DryPcs
<1>j. JobOf(w) /\ FileOf /\ use \in [Approvals -> UseFile \cup {None}]
  BY ItsJob DEF TypeOK, FilesOK
<1>same. ASSUME NEW l \in Pcs, Go(w, l), job' = job PROVE Moves(w, l, job[w])
  <2>1. job \in [Workers -> Job]
    BY DEF TypeOK, OuterOK
  <2> QED BY <1>same, <2>1 DEF Keep, Moves
<1>1. CASE RollbackUse(w)
  <2>1. /\ pc[w] = "roll-use" /\ Go(w, "roll-adm") /\ job' = job
        /\ UNCHANGED <<adm, idem, run, receipts, lock, outer>>
        /\ \E a : use' = [use EXCEPT ![a] = None] \/ use' = use
    BY <1>1 DEF RollbackUse
  <2>2. use' \in [Approvals -> UseFile \cup {None}]
    BY <2>1, <1>j
  <2>3. Suits("roll-adm", job[w], run)
    BY <2>1, <1>j DEF JobOf, Suits, Fits, Known
  <2> QED BY <2>1, <2>2, <2>3, <1>same, UseType
<1>2. CASE Approve(w)
  <2>1. /\ pc[w] = "approve" /\ Go(w, "reserve") /\ job' = job
        /\ UNCHANGED <<adm, idem, run, receipts, lock, outer>>
        /\ \/ use' = use
           \/ use' = [use EXCEPT ![job[w].approval] = [key |-> job[w].key, token |-> job[w].token]]
    BY <1>2 DEF Approve, Locked
  <2>2. job[w].key \in Keys /\ job[w].token \in Tokens
    BY <2>1, <1>j DEF JobOf, Suits, Fits
  <2>3. [key |-> job[w].key, token |-> job[w].token] \in UseFile
    BY <2>2 DEF UseFile
  <2>4. use' \in [Approvals -> UseFile \cup {None}]
    BY <2>1, <2>3, <1>j
  <2>5. Suits("reserve", job[w], run)
    BY <2>1, <1>j DEF JobOf, Suits, Fits, Known
  <2> QED BY <2>1, <2>4, <2>5, <1>same, UseType
<1>3. CASE DropUse(w)
  <2>1. /\ pc[w] = "drop-use" /\ Go(w, "drop-adm") /\ job' = job
        /\ UNCHANGED <<adm, idem, run, receipts, lock, outer>>
        /\ use' = [use EXCEPT ![job[w].approval] = None] \/ use' = use
    BY <1>3 DEF DropUse, Locked
  <2>2. use' \in [Approvals -> UseFile \cup {None}]
    BY <2>1, <1>j
  <2>3. Suits("drop-adm", job[w], run)
    BY <2>1, <1>j DEF JobOf, Suits, Fits, Known
  <2> QED BY <2>1, <2>2, <2>3, <1>same, UseType
<1> QED BY <1>1, <1>2, <1>3

LEMMA RunSteps ==
    ASSUME TypeOK, NEW w \in Workers,
           \/ Snapshot(w) \/ Reserve(w) \/ Release(w) \/ RecordRun(w)
           \/ DrySnapshot(w) \/ DryRun(w) \/ ResolveRun(w)
    PROVE  TypeOK'
<1> USE DEF At, Pcs, CallPcs, RollPcs, ReplicatePcs, WritePcs, ClaimedPcs, BackPcs, SentPcs,
            TriedPcs, RanPcs, EndPcs, VerifyPcs, DryPcs
<1>j. /\ JobOf(w) /\ FileOf /\ lock \in Workers \cup {NoWorker}
      /\ run \in [Runs -> RunFile \cup {None}]
  BY ItsJob DEF TypeOK, OuterOK, FilesOK
<1>same. ASSUME NEW l \in Pcs, Go(w, l), job' = job PROVE Moves(w, l, job[w])
  <2>1. job \in [Workers -> Job]
    BY DEF TypeOK, OuterOK
  <2> QED BY <1>same, <2>1 DEF Keep, Moves
<1>0. 0 \in 0..MaxAttempts /\ NoKey \in Keys \cup {NoKey}
  BY BrokerAssumption
<1>new. FreshRun \in RunFile /\ FreshRun # None
  <2>1. FreshRun \in RunFile
    BY BrokerAssumption DEF FreshRun, RunFile
  <2> QED BY <2>1, NoneAssumption
<1>1. CASE Snapshot(w) /\ job[w].adm # None
  <2> DEFINE j == [job[w] EXCEPT !.run = job[w].adm.run]
  <2>1. /\ pc[w] = "snapshot" /\ Go(w, "check") /\ Keep(w, j) /\ run' = run
        /\ UNCHANGED <<adm, idem, use, receipts, lock, outer>>
    BY <1>1 DEF Snapshot, Locked
  <2>2. job[w].adm \in AdmissionFile /\ run[job[w].adm.run] # None
    BY <1>1, <2>1, <1>j DEF JobOf, Job, Suits, Known
  <2>3. job[w].adm.run \in Runs
    BY <2>2 DEF AdmissionFile
  <2>4. /\ j \in Job /\ j.op = job[w].op /\ j.key = job[w].key /\ j.run = job[w].adm.run
        /\ j.token = job[w].token /\ j.adm = job[w].adm
    BY <2>3, <1>j DEF JobOf, Job
  <2>5. Suits("check", j, run)
    BY <2>1, <2>2, <2>3, <2>4, <1>j DEF JobOf, Suits, Fits, Known
  <2>6. Moves(w, "check", j)
    BY <2>1, <2>4 DEF Moves
  <2> HIDE DEF j
  <2> QED BY <2>1, <2>5, <2>6, LocalType DEF files
<1>2. CASE Snapshot(w) /\ job[w].adm = None
  <2>1. PICK r \in Runs : /\ Keep(w, [job[w] EXCEPT !.run = r])
                          /\ run' = IF run[r] = None THEN [run EXCEPT ![r] = FreshRun] ELSE run
    BY <1>2 DEF Snapshot
  <2> DEFINE j == [job[w] EXCEPT !.run = r]
  <2>2. /\ pc[w] = "snapshot" /\ Go(w, "check") /\ Keep(w, j)
        /\ UNCHANGED <<adm, idem, use, receipts, lock, outer>>
    BY <1>2, <2>1 DEF Snapshot, Locked
  <2>3. /\ j \in Job /\ j.op = job[w].op /\ j.key = job[w].key /\ j.run = r
        /\ j.token = job[w].token /\ j.adm = None
    BY <1>2, <1>j DEF JobOf, Job
  <2>4. run'[r] # None
    BY <2>1, <1>j, <1>new
  <2>5. Suits("check", j, run')
    BY <2>2, <2>3, <2>4, <1>j DEF JobOf, Suits, Fits, Known
  <2>6. Moves(w, "check", j)
    BY <2>2, <2>3 DEF Moves
  <2> HIDE DEF j
  <2> QED BY <2>1, <2>2, <2>5, <2>6, <1>j, <1>new, RunType
<1>3. CASE DrySnapshot(w)
  <2>1. PICK r \in Runs : /\ Keep(w, [job[w] EXCEPT !.run = r])
                          /\ run' = IF run[r] = None THEN [run EXCEPT ![r] = FreshRun] ELSE run
    BY <1>3 DEF DrySnapshot
  <2> DEFINE j == [job[w] EXCEPT !.run = r]
  <2>2. /\ pc[w] = "dry-snapshot" /\ Go(w, "dry-run") /\ Keep(w, j)
        /\ UNCHANGED <<adm, idem, use, receipts, lock, outer>>
    BY <1>3, <2>1 DEF DrySnapshot, Locked
  <2>3. j \in Job /\ j.run = r /\ j.token = job[w].token
    BY <1>j DEF JobOf, Job
  <2>4. run'[r] # None
    BY <2>1, <1>j, <1>new
  <2>5. Suits("dry-run", j, run')
    BY <2>2, <2>3, <2>4, <1>j DEF JobOf, Suits, Fits, Known
  <2>6. Moves(w, "dry-run", j)
    BY <2>2, <2>3 DEF Moves
  <2> HIDE DEF j
  <2> QED BY <2>1, <2>2, <2>5, <2>6, <1>j, <1>new, RunType
<1>4. CASE Reserve(w)
  <2> DEFINE r == job[w].run
             x == [run[r] EXCEPT !.wip = TRUE, !.key = job[w].key, !.token = job[w].token]
             j == [job[w] EXCEPT !.reserved = TRUE]
  <2>1. /\ pc[w] = "reserve" /\ Go(w, "start") /\ Keep(w, j)
        /\ run' = [run EXCEPT ![r].wip = TRUE, ![r].key = job[w].key, ![r].token = job[w].token]
        /\ UNCHANGED <<adm, idem, use, receipts, lock, outer>>
    BY <1>4 DEF Reserve, Locked
  <2>2. /\ r \in Runs /\ job[w].key \in Keys /\ job[w].token \in 0..MaxAttempts
        /\ run[r] \in RunFile
    BY <2>1, <1>j DEF JobOf, FileOf, Suits, Fits, Known, Job
  <2>3. x \in RunFile
    BY <2>2 DEF RunFile
  <2>4. run' = [run EXCEPT ![r] = x]
    BY <2>1, <2>2, <1>j
  <2>5. /\ j \in Job /\ j.op = job[w].op /\ j.key = job[w].key /\ j.run = r
        /\ j.token = job[w].token /\ j.adm = job[w].adm
    BY <1>j DEF JobOf, Job
  <2> HIDE DEF x
  <2>6. \A q \in Runs : run[q] # None => run'[q] # None
    BY <2>2, <2>3, <2>4, <1>j, NoneAssumption
  <2>7. job[w].adm # None => job[w].adm.run \in Runs
    BY <1>j DEF JobOf, Job, AdmissionFile
  <2>8. Suits("start", j, run')
    BY <2>1, <2>2, <2>5, <2>6, <2>7, <1>j DEF JobOf, Suits, Fits, Known
  <2>9. Moves(w, "start", j)
    BY <2>1, <2>5 DEF Moves
  <2> HIDE DEF j, r
  <2> QED BY <2>1, <2>2, <2>3, <2>4, <2>8, <2>9, <1>j, RunType
<1>5. CASE Release(w)
  <2> DEFINE r == job[w].run
             x == [run[r] EXCEPT !.wip = FALSE, !.key = NoKey, !.token = 0]
  <2>1. /\ pc[w] = "release"
        /\ UNCHANGED <<adm, idem, use, receipts, lock, outer>>
        /\ \/ /\ Go(w, "drop-idem") /\ job' = job
              /\ run' = [run EXCEPT ![r].wip = FALSE, ![r].key = NoKey, ![r].token = 0]
           \/ End(w) /\ run' = run
    BY <1>5 DEF Release, Locked
  <2>2. r \in Runs /\ run[r] \in RunFile
    BY <2>1, <1>j DEF JobOf, FileOf, Suits, Fits, Known, Job
  <2>3. x \in RunFile
    BY <2>2, <1>0 DEF RunFile
  <2>4. CASE End(w) /\ run' = run
    BY <2>1, <2>4, IdleJob, LocalType DEF End, Moves, files
  <2>5. CASE Go(w, "drop-idem") /\ job' = job
             /\ run' = [run EXCEPT ![r].wip = FALSE, ![r].key = NoKey, ![r].token = 0]
    <3>1. run' = [run EXCEPT ![r] = x]
      BY <2>5, <2>2, <1>j
    <3> HIDE DEF x
    <3>2. \A q \in Runs : run[q] # None => run'[q] # None
      BY <2>2, <2>3, <3>1, <1>j, NoneAssumption
    <3>3. job[w].adm # None => job[w].adm.run \in Runs
      BY <1>j DEF JobOf, Job, AdmissionFile
    <3>4. Suits("drop-idem", job[w], run')
      BY <2>1, <2>2, <3>2, <3>3, <1>j DEF JobOf, Suits, Fits, Known
    <3> HIDE DEF r
    <3> QED BY <2>1, <2>2, <2>3, <2>5, <3>1, <3>4, <1>same, <1>j, RunType
  <2> QED BY <2>1, <2>4, <2>5
<1>6. CASE RecordRun(w)
  <2> DEFINE r == job[w].run
             e == IF run[r].done THEN run[r].receipt ELSE job[w].receipt
             x == [run[r] EXCEPT !.dry = TRUE, !.wip = FALSE, !.key = NoKey, !.token = 0,
                                 !.done = TRUE, !.receipt = e]
  <2>1. /\ pc[w] = "record-run" /\ Go(w, "complete") /\ job' = job
        /\ run' = [run EXCEPT ![r].dry = TRUE, ![r].wip = FALSE, ![r].key = NoKey,
                              ![r].token = 0, ![r].done = TRUE,
                              ![r].receipt = IF run[r].done THEN @ ELSE job[w].receipt]
        /\ UNCHANGED <<adm, idem, use, receipts, lock, outer>>
    BY <1>6 DEF RecordRun, Locked
  <2>2. r \in Runs /\ run[r] \in RunFile /\ job[w].receipt \in Receipt \cup {None}
    BY <2>1, <1>j DEF JobOf, FileOf, Suits, Fits, Known, Job
  <2>3. e \in Receipt \cup {None}
    BY <2>2 DEF RunFile
  <2>4. run' = [run EXCEPT ![r] = x]
    BY <2>1, <2>2, <1>j DEF RunFile
  <2> HIDE DEF e
  <2>5. x \in RunFile
    BY <2>2, <2>3, <1>0 DEF RunFile
  <2> HIDE DEF x
  <2>6. \A q \in Runs : run[q] # None => run'[q] # None
    BY <2>2, <2>4, <2>5, <1>j, NoneAssumption
  <2>7. Suits("complete", job[w], run')
    BY <2>1, <2>2, <2>6, <1>j DEF JobOf, Suits, Fits, Known
  <2> HIDE DEF r
  <2> QED BY <2>1, <2>2, <2>4, <2>5, <2>7, <1>same, <1>j, RunType
<1>7. CASE DryRun(w)
  <2> DEFINE r == job[w].run
  <2>1. PICK kind \in DryRunKinds :
          /\ run' = [run EXCEPT ![r].dry = @ \/ kind = "dry-passed",
                                ![r].dryReceipt = ReceiptOf(kind, job[w].token, NoKey, r)]
          /\ Keep(w, [job[w] EXCEPT !.receipt = ReceiptOf(kind, job[w].token, NoKey, r)])
    BY <1>7 DEF DryRun
  <2> DEFINE e == ReceiptOf(kind, job[w].token, NoKey, r)
             d == run[r].dry \/ kind = "dry-passed"
             x == [run[r] EXCEPT !.dry = d, !.dryReceipt = e]
             j == [job[w] EXCEPT !.receipt = e]
  <2>2. /\ pc[w] = "dry-run" /\ Go(w, "dry-receipt")
        /\ UNCHANGED <<adm, idem, use, receipts, lock, outer>>
    BY <1>7 DEF DryRun, Locked
  <2>3. r \in Runs /\ run[r] \in RunFile /\ job[w].token \in Tokens
    BY <2>2, <1>j DEF JobOf, FileOf, Suits, Fits, Known
  <2>4. e \in Receipt
    BY <2>3 DEF ReceiptOf, Receipt, ReceiptKinds, DryRunKinds
  <2> HIDE DEF e
  <2>5. run' = [run EXCEPT ![r] = x]
    BY <2>1, <2>3, <1>j DEF e
  <2> HIDE DEF d
  <2>6. d \in BOOLEAN
    BY <2>3 DEF d, RunFile
  <2>7. x \in RunFile
    BY <2>3, <2>4, <2>6 DEF RunFile
  <2> HIDE DEF x
  <2>8. run'[r] # None
    BY <2>3, <2>5, <2>7, <1>j, NoneAssumption
  <2>9. j \in Job /\ j.run = r /\ j.token = job[w].token /\ j.receipt = e
    BY <2>4, <1>j DEF JobOf, Job
  <2>10. Suits("dry-receipt", j, run')
    BY <2>2, <2>3, <2>4, <2>8, <2>9 DEF Suits, Fits, Known
  <2>11. Moves(w, "dry-receipt", j)
    BY <2>1, <2>2, <2>9 DEF Moves, e
  <2> HIDE DEF j, r
  <2> QED BY <2>2, <2>3, <2>5, <2>7, <2>10, <2>11, <1>j, RunType
<1>8. CASE ResolveRun(w)
  <2> DEFINE r == job[w].run
             e == job[w].receipt
             x == [run[r] EXCEPT !.wip = FALSE, !.key = NoKey, !.token = 0, !.done = TRUE,
                                 !.receipt = e]
  <2>1. /\ pc[w] = "resolve-run" /\ Go(w, "complete") /\ job' = job
        /\ run' = [run EXCEPT ![r].wip = FALSE, ![r].key = NoKey, ![r].token = 0,
                              ![r].done = TRUE, ![r].receipt = e]
        /\ UNCHANGED <<adm, idem, use, receipts, outer>> /\ lock' = NoWorker
    BY <1>8 DEF ResolveRun
  <2>2. r \in Runs /\ run[r] \in RunFile /\ e \in Receipt \cup {None}
    BY <2>1, <1>j DEF JobOf, FileOf, Suits, Fits, Known, Job
  <2>3. run' = [run EXCEPT ![r] = x]
    BY <2>1, <2>2, <1>j
  <2>4. x \in RunFile
    BY <2>2, <1>0 DEF RunFile
  <2> HIDE DEF x
  <2>5. \A q \in Runs : run[q] # None => run'[q] # None
    BY <2>2, <2>3, <2>4, <1>j, NoneAssumption
  <2>6. Suits("complete", job[w], run')
    BY <2>1, <2>2, <2>5, <1>j DEF JobOf, Suits, Fits, Known
  <2> HIDE DEF r
  <2> QED BY <2>1, <2>2, <2>3, <2>4, <2>6, <1>same, <1>j, RunType
<1> QED BY <1>1, <1>2, <1>3, <1>4, <1>5, <1>6, <1>7, <1>8

LEMMA OuterSteps ==
    ASSUME TypeOK, NEW w \in Workers,
           \/ BeginTransfer(w) \/ EndTransfer(w) \/ Record(w) \/ DryReceipt(w)
           \/ Resolve(w) \/ Reconcile(w) \/ Stop(w)
    PROVE  TypeOK'
<1> USE DEF At, Pcs, CallPcs, RollPcs, ReplicatePcs, WritePcs, ClaimedPcs, BackPcs, SentPcs,
            TriedPcs, RanPcs, EndPcs, VerifyPcs, DryPcs
<1>j. /\ JobOf(w) /\ FileOf /\ lock \in Workers \cup {NoWorker}
      /\ remote \in [Runs -> {"absent", "partial", "complete"}]
      /\ attempts \in 0..MaxAttempts /\ begun \subseteq Transfer /\ answered \subseteq Keys \X Runs
  BY ItsJob DEF TypeOK, OuterOK
<1>same. ASSUME NEW l \in Pcs, Go(w, l), job' = job PROVE Moves(w, l, job[w])
  <2>1. job \in [Workers -> Job]
    BY DEF TypeOK, OuterOK
  <2> QED BY <1>same, <2>1 DEF Keep, Moves
<1>files. ASSUME UNCHANGED <<adm, idem, run, use>>, receipts' \subseteq Receipt
          PROVE  /\ FilesOK' /\ RunsThere'
                 /\ \A r \in Runs : run[r] # None => run'[r] # None
  BY <1>files DEF TypeOK, FilesOK, RunsThere
<1>kept. receipts \subseteq Receipt
  BY DEF TypeOK, FilesOK
<1>1. CASE BeginTransfer(w)
  <2> DEFINE b == [run |-> job[w].run, key |-> job[w].key, token |-> job[w].token,
                   approval |-> job[w].approval]
  <2>1. /\ pc[w] = "execute" /\ Go(w, "transfer") /\ job' = job
        /\ remote' = [remote EXCEPT ![job[w].run] = "partial"] /\ begun' = begun \cup {b}
        /\ UNCHANGED <<files, lock, attempts, answered>>
    BY <1>1 DEF BeginTransfer
  <2>2. /\ job[w].run \in Runs /\ job[w].key \in Keys /\ job[w].token \in Tokens
        /\ job[w].approval \in Approvals \cup {NoApproval}
    BY <2>1, <1>j DEF JobOf, Suits, Fits, Job
  <2>3. b \in Transfer
    BY <2>2 DEF Transfer
  <2> HIDE DEF b
  <2>4. remote' \in [Runs -> {"absent", "partial", "complete"}] /\ begun' \subseteq Transfer
    BY <2>1, <2>3, <1>j
  <2>5. Suits("transfer", job[w], run')
    BY <2>1, <1>j DEF JobOf, Suits, Fits, Known, files
  <2> QED BY <2>1, <2>4, <2>5, <1>same, <1>files, <1>kept, <1>j, StepType DEF files
<1>2. CASE EndTransfer(w)
  <2>1. /\ pc[w] = "transfer" /\ Go(w, "record") /\ job' = job
        /\ remote' = [remote EXCEPT ![job[w].run] = "complete"]
        /\ UNCHANGED <<files, lock, attempts, begun, answered>>
    BY <1>2 DEF EndTransfer
  <2>2. remote' \in [Runs -> {"absent", "partial", "complete"}]
    BY <2>1, <1>j
  <2>3. Suits("record", job[w], run')
    BY <2>1, <1>j DEF JobOf, Suits, Fits, Known, files
  <2> QED BY <2>1, <2>2, <2>3, <1>same, <1>files, <1>kept, <1>j, StepType DEF files
<1>3. CASE Record(w)
  <2> DEFINE e == ReceiptOf("written", job[w].token, job[w].key, job[w].run)
             j == [job[w] EXCEPT !.owner = job[w].token, !.receipt = e]
  <2>1. /\ pc[w] = "record" /\ Go(w, "record-run") /\ Keep(w, j)
        /\ receipts' = receipts \cup {e} /\ UNCHANGED <<adm, idem, run, use, lock, outer>>
    BY <1>3 DEF Record
  <2>2. /\ job[w].run \in Runs /\ job[w].key \in Keys /\ job[w].token \in Tokens
        /\ job[w].token \in 0..MaxAttempts
    BY <2>1, <1>j DEF JobOf, Suits, Fits, Job
  <2>3. e \in Receipt
    BY <2>2 DEF ReceiptOf, Receipt, ReceiptKinds, DryRunKinds
  <2> HIDE DEF e
  <2>4. /\ j \in Job /\ j.op = job[w].op /\ j.key = job[w].key /\ j.run = job[w].run
        /\ j.token = job[w].token /\ j.adm = job[w].adm
    BY <2>2, <2>3, <1>j DEF JobOf, Job
  <2>5. Suits("record-run", j, run')
    BY <2>1, <2>4, <1>j DEF JobOf, Suits, Fits, Known
  <2>6. Moves(w, "record-run", j) /\ receipts' \subseteq Receipt
    BY <2>1, <2>3, <2>4, <1>kept DEF Moves
  <2> HIDE DEF j
  <2> QED BY <2>1, <2>5, <2>6, <1>files, <1>j, StepType DEF outer
<1>4. CASE DryReceipt(w)
  <2>1. /\ pc[w] = "dry-receipt" /\ End(w) /\ receipts' = receipts \cup {job[w].receipt}
        /\ UNCHANGED <<adm, idem, run, use, lock, outer>>
    BY <1>4 DEF DryReceipt
  <2>2. job[w].receipt \in Receipt
    BY <2>1, <1>j DEF JobOf, Suits, Fits
  <2>3. Moves(w, "idle", NoJob) /\ Suits("idle", NoJob, run') /\ receipts' \subseteq Receipt
    BY <2>1, <2>2, <1>kept, IdleJob DEF End, Moves
  <2> QED BY <2>1, <2>3, <1>files, <1>j, StepType DEF outer
<1>5. CASE Resolve(w)
  <2>1. PICK k \in Keys :
          /\ Unresolved(job[w].run, k)
          /\ receipts' = receipts \cup {ReceiptOf("verified", job[w].token, k, job[w].run)}
          /\ Keep(w, [job[w] EXCEPT !.key = k, !.owner = adm[k].token,
                      !.receipt = ReceiptOf("verified", job[w].token, k, job[w].run)])
    BY <1>5 DEF Resolve
  <2> DEFINE e == ReceiptOf("verified", job[w].token, k, job[w].run)
             o == adm[k].token
             j == [job[w] EXCEPT !.key = k, !.owner = o, !.receipt = e]
  <2>2. /\ pc[w] = "resolve" /\ Go(w, "resolve-run") /\ lock' = w
        /\ UNCHANGED <<adm, idem, run, use, outer>>
    BY <1>5 DEF Resolve
  <2>3. job[w].run \in Runs /\ job[w].token \in Tokens
    BY <2>2, <1>j DEF JobOf, Suits, Fits
  <2>4. o \in 0..MaxAttempts
    BY <2>1, <1>j DEF Unresolved, FileOf, AdmissionFile, Tokens
  <2>5. e \in Receipt
    BY <2>3 DEF ReceiptOf, Receipt, ReceiptKinds, DryRunKinds
  <2>6. Keep(w, j) /\ receipts' = receipts \cup {e}
    BY <2>1
  <2> HIDE DEF e, o
  <2>7. /\ j \in Job /\ j.op = job[w].op /\ j.key = k /\ j.run = job[w].run
        /\ j.token = job[w].token
    BY <2>4, <2>5, <1>j DEF JobOf, Job
  <2>8. Suits("resolve-run", j, run')
    BY <2>2, <2>7, <1>j DEF JobOf, Suits, Fits, Known
  <2>9. Moves(w, "resolve-run", j) /\ receipts' \subseteq Receipt
    BY <2>2, <2>5, <2>6, <2>7, <1>kept DEF Moves
  <2> HIDE DEF j
  <2> QED BY <2>2, <2>8, <2>9, <1>files, <1>j, StepType DEF outer
<1>6. CASE Reconcile(w)
  <2>1. PICK k \in job[w].todo :
          /\ SameAttempt(k, job[w].run)
          /\ Keep(w, [job[w] EXCEPT !.key = k, !.owner = adm[k].token])
          /\ Go(w, IF idem[k].st = "completed" THEN "settle" ELSE "complete")
          /\ receipts' = IF idem[k].st = "completed" THEN receipts
                         ELSE receipts \cup {CompletionReceipt(w)'}
    BY <1>6 DEF Reconcile
  <2> DEFINE o == adm[k].token
             j == [job[w] EXCEPT !.key = k, !.owner = o]
             l == IF idem[k].st = "completed" THEN "settle" ELSE "complete"
  <2>2. pc[w] = "others" /\ UNCHANGED <<adm, idem, run, use, lock, outer>>
    BY <1>6 DEF Reconcile
  <2>3. /\ k \in Keys /\ job[w].run \in Runs /\ job[w].token \in Tokens /\ job[w].op = "verify"
        /\ job[w].receipt \in Receipt \cup {None}
    BY <2>2, <1>j DEF JobOf, Suits, Fits, Job
  <2>4. o \in 0..MaxAttempts
    BY <2>1, <2>3, <1>j DEF SameAttempt, FileOf, AdmissionFile, Tokens
  <2>5. Keep(w, j) /\ Go(w, l) /\ l \in {"settle", "complete"}
    BY <2>1
  <2> HIDE DEF o
  <2>6. /\ j \in Job /\ j.op = job[w].op /\ j.key = k /\ j.run = job[w].run
        /\ j.token = job[w].token /\ j.receipt = job[w].receipt
    BY <2>3, <2>4, <1>j DEF JobOf, Job
  <2>7. Suits("settle", j, run') /\ Suits("complete", j, run')
    BY <2>2, <2>3, <2>6, <1>j DEF JobOf, Suits, Fits, Known
  <2>8. Moves(w, l, j) /\ Suits(l, j, run')
    BY <2>5, <2>6, <2>7 DEF Moves
  <2> HIDE DEF j, l
  <2>9. job'[w] = j
    BY <2>8, Moved DEF TypeOK
  <2>10. CompletionReceipt(w)' \in Receipt
    BY <2>3, <2>6, <2>9 DEF CompletionReceipt, ReceiptOf, Receipt, ReceiptKinds, DryRunKinds
  <2>11. receipts' \subseteq Receipt
    BY <2>1, <2>10, <1>kept
  <2> QED BY <2>2, <2>8, <2>11, <1>files, <1>j, StepType DEF outer
<1>7. CASE Stop(w)
  <2>1. /\ End(w) /\ lock' \in {lock, NoWorker} /\ UNCHANGED <<files, attempts, begun, answered>>
        /\ \/ remote' = remote
           \/ \E got \in {"partial", "complete"} : remote' = [remote EXCEPT ![job[w].run] = got]
    BY <1>7 DEF Stop
  <2>2. remote' \in [Runs -> {"absent", "partial", "complete"}]
    BY <2>1, <1>j
  <2>3. Moves(w, "idle", NoJob) /\ Suits("idle", NoJob, run') /\ lock' \in Workers \cup {NoWorker}
    BY <2>1, <1>j, IdleJob DEF End, Moves
  <2> QED BY <2>1, <2>2, <2>3, <1>files, <1>kept, <1>j, StepType DEF files
<1> QED BY <1>1, <1>2, <1>3, <1>4, <1>5, <1>6, <1>7

LEMMA CallType ==
    ASSUME TypeOK, NEW w \in Workers, NEW q \in Requests, Call(w, q) PROVE TypeOK'
<1> DEFINE n == attempts + 1
           j == [NoJob EXCEPT !.op = q.op, !.key = q.key, !.approval = q.approval,
                              !.run = q.run, !.token = n]
<1>1. /\ pc[w] = "idle" /\ attempts < MaxAttempts /\ attempts' = n /\ Keep(w, j)
      /\ Go(w, "enter") /\ UNCHANGED <<files, lock, remote, begun, answered>>
  BY DEF Call, At
<1>2. attempts \in 0..MaxAttempts /\ MaxAttempts \in Nat
  BY BrokerAssumption DEF TypeOK, OuterOK
<1>3. n \in Tokens /\ n \in 0..MaxAttempts
  BY <1>1, <1>2 DEF Tokens
<1> HIDE DEF n
<1>4. q \in Request
  BY BrokerAssumption
<1>5. /\ q.op \in {"replicate", "dry-run", "verify"} /\ q.key \in Keys \cup {NoKey}
      /\ q.approval \in Approvals \cup {NoApproval} /\ q.run \in Runs \cup {NoRun}
      /\ q.op = "replicate" => q.key \in Keys
      /\ q.op = "verify" => q.run \in Runs
  BY <1>4 DEF Request
<1>6. NoJob \in Job
  BY IdleJob
<1>7. j \in Job /\ j.op = q.op /\ j.key = q.key /\ j.run = q.run /\ j.token = n
  BY <1>3, <1>5, <1>6 DEF Job, Ops
<1>8. Suits("enter", j, run')
  BY <1>3, <1>5, <1>7 DEF Suits, Fits, Known, CallPcs, RollPcs, ReplicatePcs, WritePcs, ClaimedPcs,
     BackPcs, SentPcs, TriedPcs, RanPcs, EndPcs, VerifyPcs, DryPcs
<1>9. Moves(w, "enter", j)
  BY <1>1, <1>7 DEF Moves, Pcs, CallPcs
<1> HIDE DEF j
<1>10. /\ FilesOK' /\ RunsThere' /\ \A r \in Runs : run[r] # None => run'[r] # None
  BY <1>1 DEF TypeOK, FilesOK, RunsThere, files
<1> QED BY <1>1, <1>3, <1>8, <1>9, <1>10, StepType DEF TypeOK, OuterOK

(* The first step of a rollback: the requests that it finds late are the   *)
(* only ones that a step of another worker touches.                        *)
LEMMA RollbackMoves ==
    ASSUME TypeOK, NEW w \in Workers, NEW k \in Keys, RollbackRun(w, k)
    PROVE  /\ pc' \in [Workers -> Pcs] /\ pc[w] = "enter" /\ pc'[w] = "roll-idem"
           /\ \A v \in Workers \ {w} : pc'[v] = pc[v]
           /\ job' \in [Workers -> Job] /\ job'[w].todo = {k}
           /\ \A v \in Workers :
                /\ job'[v].op = job[v].op /\ job'[v].key = job[v].key
                /\ job'[v].approval = job[v].approval /\ job'[v].run = job[v].run
                /\ job'[v].token = job[v].token /\ job'[v].adm = job[v].adm
                /\ job'[v].owner = job[v].owner /\ job'[v].receipt = job[v].receipt
                /\ v # w => job'[v].todo = job[v].todo
                /\ job'[v].late = (job[v].late \/ Expires(v, k))
<1>1. /\ pc[w] = "enter" /\ pc' = [pc EXCEPT ![w] = "roll-idem"]
      /\ job' = [v \in Workers |-> [job[v] EXCEPT !.todo = IF v = w THEN {k} ELSE @,
                                                   !.late = @ \/ Expires(v, k)]]
  BY DEF RollbackRun, At, Go
<1>2. pc \in [Workers -> Pcs] /\ job \in [Workers -> Job] /\ "roll-idem" \in Pcs
  BY DEF TypeOK, OuterOK, Pcs, CallPcs, RollPcs
<1>3. ASSUME NEW v \in Workers
      PROVE  /\ job'[v] \in Job
             /\ job'[v].op = job[v].op /\ job'[v].key = job[v].key
             /\ job'[v].approval = job[v].approval /\ job'[v].run = job[v].run
             /\ job'[v].token = job[v].token /\ job'[v].adm = job[v].adm
             /\ job'[v].owner = job[v].owner /\ job'[v].receipt = job[v].receipt
             /\ job'[v].todo = IF v = w THEN {k} ELSE job[v].todo
             /\ job'[v].late = (job[v].late \/ Expires(v, k))
  <2> DEFINE d == IF v = w THEN {k} ELSE job[v].todo
             e == job[v].late \/ Expires(v, k)
  <2>1. job[v] \in Job /\ job'[v] = [job[v] EXCEPT !.todo = d, !.late = e]
    BY <1>1, <1>2
  <2>2. d \in SUBSET Keys
    BY <2>1 DEF Job
  <2>3. e \in BOOLEAN
    BY <2>1, BrokerAssumption DEF Job, Expires
  <2> HIDE DEF d, e
  <2>4. /\ job'[v] \in Job
        /\ job'[v].op = job[v].op /\ job'[v].key = job[v].key
        /\ job'[v].approval = job[v].approval /\ job'[v].run = job[v].run
        /\ job'[v].token = job[v].token /\ job'[v].adm = job[v].adm
        /\ job'[v].owner = job[v].owner /\ job'[v].receipt = job[v].receipt
        /\ job'[v].todo = d /\ job'[v].late = e
    BY <2>1, <2>2, <2>3 DEF Job
  <2> QED BY <2>4 DEF d, e
<1>4. job' \in [Workers -> Job]
  BY <1>1, <1>3
<1> QED BY <1>1, <1>2, <1>3, <1>4

LEMMA RollbackType ==
    ASSUME TypeOK, NEW w \in Workers, NEW k \in Keys, RollbackRun(w, k) PROVE TypeOK'
<1> DEFINE r == adm[k].run
           x == [run[r] EXCEPT !.wip = FALSE, !.key = NoKey, !.token = 0]
<1>1. /\ adm[k] # None /\ lock' = w /\ UNCHANGED <<adm, idem, use, receipts, outer>>
      /\ \/ run' = run
         \/ Claim(k, r) /\ run' = [run EXCEPT ![r].wip = FALSE, ![r].key = NoKey, ![r].token = 0]
  BY DEF RollbackRun
<1>2. r \in Runs /\ run[r] \in RunFile /\ run \in [Runs -> RunFile \cup {None}]
  BY <1>1 DEF TypeOK, RunsThere, FilesOK, AdmissionFile
<1>3. 0 \in 0..MaxAttempts /\ NoKey \in Keys \cup {NoKey}
  BY BrokerAssumption
<1>4. x \in RunFile
  BY <1>2, <1>3 DEF RunFile
<1>5. run' = run \/ run' = [run EXCEPT ![r] = x]
  BY <1>1, <1>2
<1> HIDE DEF x
<1>6. /\ run' \in [Runs -> RunFile \cup {None}]
      /\ \A q \in Runs : run[q] # None => run'[q] # None
  BY <1>2, <1>4, <1>5, NoneAssumption
<1>7. FilesOK' /\ RunsThere'
  BY <1>1, <1>6 DEF TypeOK, FilesOK, RunsThere, AdmissionFile, IdemFile
<1>8. OuterOK'
  BY <1>1, RollbackMoves DEF TypeOK, OuterOK, outer
<1>9. ASSUME NEW v \in Workers PROVE Fits(pc[v], job[v])' /\ Known(pc[v], job[v], run)'
  <2>1. /\ job'[v].op = job[v].op /\ job'[v].key = job[v].key
        /\ job'[v].approval = job[v].approval /\ job'[v].run = job[v].run
        /\ job'[v].token = job[v].token /\ job'[v].adm = job[v].adm
        /\ job'[v].receipt = job[v].receipt
        /\ v # w => pc'[v] = pc[v]
        /\ v = w => pc[v] = "enter" /\ pc'[v] = "roll-idem"
    BY RollbackMoves
  <2>2. job[v] \in Job /\ Fits(pc[v], job[v]) /\ Known(pc[v], job[v], run)
    BY DEF TypeOK, OuterOK
  <2>3. Fits(pc'[v], job'[v])
    BY <2>1, <2>2 DEF Fits, CallPcs, RollPcs, ReplicatePcs, WritePcs, ClaimedPcs,
       BackPcs, SentPcs, TriedPcs, RanPcs, EndPcs, VerifyPcs, DryPcs
  <2>4. job[v].adm # None => job[v].adm.run \in Runs
    BY <2>2 DEF Job, AdmissionFile
  <2>5. pc[v] \in RanPcs \cup EndPcs \cup VerifyPcs \cup {"dry-run"} => job[v].run \in Runs
    BY <2>2 DEF Fits
  <2>6. CASE v = w
    BY <2>1, <2>3, <2>6 DEF Known, ReplicatePcs, WritePcs, ClaimedPcs,
       BackPcs, SentPcs, TriedPcs, RanPcs, EndPcs, VerifyPcs
  <2>7. CASE v # w
    BY <2>1, <2>2, <2>3, <2>4, <2>5, <2>7, <1>6 DEF Known
  <2> QED BY <2>6, <2>7
<1> QED BY <1>7, <1>8, <1>9 DEF TypeOK

LEMMA TypeInit == Init => TypeOK
<1> SUFFICES ASSUME Init PROVE TypeOK
  OBVIOUS
<1>1. FilesOK /\ RunsThere
  BY DEF Init, FilesOK, RunsThere
<1>2. NoJob \in Job /\ "idle" \in Pcs /\ Suits("idle", NoJob, run)
  BY IdleJob
<1>3. OuterOK
  BY <1>2, BrokerAssumption DEF Init, OuterOK
<1>4. \A w \in Workers : Fits(pc[w], job[w]) /\ Known(pc[w], job[w], run)
  BY <1>2 DEF Init, Suits
<1> QED BY <1>1, <1>3, <1>4 DEF TypeOK

LEMMA TypeStep ==
    ASSUME TypeOK, [Next]_vars PROVE TypeOK'
<1>1. CASE UNCHANGED vars
  BY <1>1 DEF vars, TypeOK, FilesOK, OuterOK, RunsThere
<1>2. CASE Next
  <2>1. PICK w \in Workers : Step(w) \/ \E q \in Requests : Call(w, q)
    BY <1>2 DEF Next
  <2>2. CASE \E q \in Requests : Call(w, q)
    BY <2>2, CallType
  <2>3. CASE Step(w)
    <3>1. CASE Rollback(w)
      BY <3>1, RollbackType, AdmSteps, IdemSteps, UseSteps DEF Rollback
    <3>2. CASE Replicate(w)
      BY <3>2, LocalSteps, AdmSteps, IdemSteps, UseSteps, RunSteps, OuterSteps
         DEF Replicate, Unknown
    <3>3. CASE GoBack(w)
      BY <3>3, LocalSteps, AdmSteps, IdemSteps, UseSteps, RunSteps DEF GoBack
    <3>4. CASE Verify(w)
      BY <3>4, LocalSteps, AdmSteps, RunSteps, OuterSteps DEF Verify, Verified
    <3>5. CASE \/ Admit(w) \/ Complete(w) \/ SettleWriter(w)
               \/ DrySnapshot(w) \/ DryRun(w) \/ DryReceipt(w) \/ Stop(w)
      BY <3>5, LocalSteps, AdmSteps, IdemSteps, RunSteps, OuterSteps
    <3> QED BY <2>3, <3>1, <3>2, <3>3, <3>4, <3>5 DEF Step
  <2> QED BY <2>1, <2>2, <2>3
<1> QED BY <1>1, <1>2

(* Every file, every local variable and the control point of every request *)
(* has its type, and what a step reads of a record of another file is      *)
(* there: no admission or idempotency record names a run without a record. *)
THEOREM TypeCorrect == Spec => []TypeOK
BY TypeInit, TypeStep, PTL DEF Spec

-----------------------------------------------------------------------------
(* What the steps do, entry by entry and field by field.                   *)
Same(w) == /\ job'[w].key = job[w].key /\ job'[w].approval = job[w].approval
           /\ job'[w].token = job[w].token /\ job'[w].late = job[w].late
Kept(w) == Same(w) /\ job'[w].run = job[w].run
Leaves(w) == pc'[w] = "idle" /\ job'[w] = NoJob

LEMMA Went ==
    ASSUME TypeOK, NEW w \in Workers, NEW l, Go(w, l)
    PROVE  /\ pc'[w] = l
           /\ \A j : Keep(w, j) => job'[w] = j /\ Others(w)
           /\ job' = job => job'[w] = job[w] /\ Kept(w) /\ Others(w)
BY DEF TypeOK, OuterOK, Go, Keep, Others, Kept, Same

LEMMA Left ==
    ASSUME TypeOK, NEW w \in Workers, End(w) PROVE Leaves(w) /\ Others(w)
BY DEF TypeOK, OuterOK, End, Go, Keep, Others, Leaves

LEMMA LocalEffect ==
    ASSUME TypeOK, NEW w \in Workers,
           \/ Admit(w) \/ ReadAdmission(w) \/ Replay(w) \/ GoOn(w) \/ Check(w)
           \/ GiveUp(w) \/ NothingSent(w) \/ Compare(w) \/ ListOthers(w) \/ SkipOther(w)
           \/ Refuse(w)
    PROVE  /\ Others(w) /\ UNCHANGED <<files, lock, outer>>
           /\ \/ Leaves(w)
              \/ Same(w) /\ pc[w] \in UnpreparedPcs
                         /\ pc'[w] \in {"read", "replay", "snapshot", "dry-snapshot", "compare"}
              \/ Same(w) /\ pc[w] = "replay" /\ pc'[w] = "forget"
                         /\ Replayable(job[w].key) /\ job'[w].run = idem[job[w].key].run
              \/ Kept(w) /\ pc[w] = "check" /\ pc'[w] = "prepare" /\ MayWrite(w)
              \/ Kept(w) /\ pc[w] \in ClaimedPcs /\ pc'[w] \in {"release", "drop-idem"}
              \/ Kept(w) /\ pc[w] = "compare" /\ pc'[w] = "resolve"
                         /\ remote[job[w].run] = "complete"
              \/ Kept(w) /\ pc[w] \in VerifyPcs /\ pc'[w] = "others"
                         /\ (pc[w] \in {"list", "others"} \/ run[job[w].run].done)
<1> USE DEF At
<1>j. job[w] \in Job
  BY ItsJob DEF JobOf
<1>1. CASE Admit(w)
  <2>1. /\ job' = job /\ UNCHANGED <<files, lock, outer>> /\ pc[w] = "enter"
        /\ job[w].op \in {"replicate", "dry-run", "verify"}
    BY <1>1, ItsJob DEF Admit, JobOf, Suits, Fits, CallPcs
  <2>2. \E l \in {"read", "dry-snapshot", "compare"} : Go(w, l)
    BY <1>1, <2>1 DEF Admit
  <2> QED BY <2>1, <2>2, Went DEF UnpreparedPcs, CallPcs, Kept
<1>2. CASE ReadAdmission(w)
  <2>1. /\ pc[w] = "read" /\ Go(w, "replay") /\ UNCHANGED <<files, lock, outer>>
        /\ Keep(w, [job[w] EXCEPT !.adm = adm[job[w].key]])
    BY <1>2 DEF ReadAdmission
  <2>2. pc'[w] = "replay" /\ Others(w) /\ job'[w] = [job[w] EXCEPT !.adm = adm[job[w].key]]
    BY <2>1, Went
  <2>3. Same(w)
    BY <2>2, <1>j DEF Same, Job
  <2> QED BY <2>1, <2>2, <2>3 DEF UnpreparedPcs
<1>3. CASE Replay(w)
  <2>1. /\ pc[w] = "replay" /\ Go(w, "forget") /\ UNCHANGED <<files, lock, outer>>
        /\ Replayable(job[w].key)
        /\ Keep(w, [job[w] EXCEPT !.run = idem[job[w].key].run])
    BY <1>3 DEF Replay
  <2>2. pc'[w] = "forget" /\ Others(w) /\ job'[w] = [job[w] EXCEPT !.run = idem[job[w].key].run]
    BY <2>1, Went
  <2>3. Same(w) /\ job'[w].run = idem[job[w].key].run
    BY <2>2, <1>j DEF Same, Job
  <2> QED BY <2>1, <2>2, <2>3
<1>4. CASE GoOn(w)
  <2>1. /\ pc[w] = "replay" /\ Go(w, "snapshot") /\ UNCHANGED <<files, lock, outer>>
        /\ Keep(w, [job[w] EXCEPT !.recovering = Recovers(w)])
    BY <1>4 DEF GoOn
  <2>2. pc'[w] = "snapshot" /\ Others(w) /\ job'[w] = [job[w] EXCEPT !.recovering = Recovers(w)]
    BY <2>1, Went
  <2>3. Same(w)
    BY <2>2, <1>j DEF Same, Job
  <2> QED BY <2>1, <2>2, <2>3 DEF UnpreparedPcs
<1>5. CASE Check(w)
  <2>1. /\ pc[w] = "check" /\ Go(w, "prepare") /\ UNCHANGED <<files, lock, outer>> /\ MayWrite(w)
        /\ Keep(w, [job[w] EXCEPT !.seen = run[job[w].run].wip])
    BY <1>5 DEF Check
  <2>2. pc'[w] = "prepare" /\ Others(w) /\ job'[w] = [job[w] EXCEPT !.seen = run[job[w].run].wip]
    BY <2>1, Went
  <2>3. Kept(w)
    BY <2>2, <1>j DEF Kept, Same, Job
  <2> QED BY <2>1, <2>2, <2>3
<1>6. CASE GiveUp(w) \/ NothingSent(w)
  <2>1. /\ pc[w] \in ClaimedPcs /\ job' = job /\ UNCHANGED <<files, lock, outer>>
        /\ \E l \in {"release", "drop-idem"} : Go(w, l)
    BY <1>6 DEF GiveUp, NothingSent, ClaimedPcs
  <2> QED BY <2>1, Went
<1>7. CASE Compare(w)
  <2>1. /\ pc[w] = "compare" /\ job' = job /\ UNCHANGED <<files, lock, outer>>
        /\ remote[job[w].run] = "complete" /\ Go(w, "resolve")
    BY <1>7 DEF Compare
  <2> QED BY <2>1, Went
<1>8. CASE ListOthers(w)
  <2> DEFINE d == {k \in Keys : adm[k] # None /\ adm[k].run = job[w].run}
  <2>1. /\ pc[w] = "list" \/ (pc[w] = "resolve" /\ run[job[w].run].done)
        /\ Go(w, "others") /\ UNCHANGED <<files, lock, outer>>
        /\ Keep(w, [job[w] EXCEPT !.todo = d])
    BY <1>8 DEF ListOthers
  <2> HIDE DEF d
  <2>2. pc'[w] = "others" /\ Others(w) /\ job'[w] = [job[w] EXCEPT !.todo = d]
    BY <2>1, Went
  <2>3. Kept(w)
    BY <2>2, <1>j DEF Kept, Same, Job
  <2> QED BY <2>1, <2>2, <2>3 DEF VerifyPcs
<1>9. CASE SkipOther(w)
  <2>1. /\ pc[w] = "others" /\ pc' = pc /\ UNCHANGED <<files, lock, outer>>
        /\ \E k \in job[w].todo : Keep(w, [job[w] EXCEPT !.todo = @ \ {k}])
    BY <1>9 DEF SkipOther
  <2>2. PICK k \in job[w].todo : Keep(w, [job[w] EXCEPT !.todo = @ \ {k}])
    BY <2>1
  <2>3. Others(w) /\ job'[w] = [job[w] EXCEPT !.todo = @ \ {k}]
    BY <2>1, <2>2 DEF Keep, Others, TypeOK, OuterOK
  <2>4. Kept(w)
    BY <2>3, <1>j DEF Kept, Same, Job
  <2> QED BY <2>1, <2>3, <2>4 DEF VerifyPcs
<1>10. CASE Refuse(w)
  BY <1>10, Left DEF Refuse
<1> QED BY <1>1, <1>2, <1>3, <1>4, <1>5, <1>6, <1>7, <1>8, <1>9, <1>10

AdmIs(k, a) == adm'[k] = a /\ \A m \in Keys \ {k} : adm'[m] = adm[m]
IdemIs(k, i) == idem'[k] = i /\ \A m \in Keys \ {k} : idem'[m] = idem[m]
UseIs(a, u) == use'[a] = u /\ \A b \in Approvals \ {a} : use'[b] = use[b]

Tells(w) == answered' = answered \/ answered' = answered \cup {<<job[w].key, job[w].run>>}

(* A step that removes the admission of k, or would, and who takes it.     *)
Drops(w, k) ==
    \/ pc[w] = "roll-adm" /\ job[w].todo = {k} /\ lock' = NoWorker
       /\ Same(w) /\ pc'[w] = "enter" /\ answered' = answered
    \/ pc[w] \in {"forget", "settle"} /\ k = job[w].key /\ lock = NoWorker /\ lock' = lock
       /\ (Leaves(w) \/ (Kept(w) /\ pc'[w] \in {"list", "others"}))
       /\ Tells(w)
    \/ pc[w] = "drop-adm" /\ k = job[w].key /\ lock = NoWorker /\ lock' = lock
       /\ Owns(w) /\ Leaves(w) /\ answered' = answered

LEMMA DropEffect ==
    ASSUME TypeOK, NEW w \in Workers, \A k \in Keys : pc[w] = "roll-adm" /\ k \in job[w].todo
                                                       => job[w].todo = {k},
           RollbackAdm(w) \/ Forget(w) \/ DropAdm(w) \/ SettleWriter(w) \/ SettleVerified(w)
    PROVE  /\ Others(w) /\ UNCHANGED <<idem, run, use, receipts, remote, attempts, begun>>
           /\ \/ \E k \in Keys : AdmIs(k, None) /\ Drops(w, k)
              \/ /\ pc[w] \in {"settle", "drop-adm"} /\ lock = NoWorker
                 /\ UNCHANGED <<adm, lock>>
                 /\ Tells(w)
                 /\ pc[w] = "drop-adm" => answered' = answered /\ Leaves(w)
                 /\ Leaves(w) \/ (Kept(w) /\ pc'[w] \in {"list", "others"})
<1> USE DEF At, Locked
<1>j. JobOf(w) /\ adm \in [Keys -> AdmissionFile \cup {None}]
  BY ItsJob DEF TypeOK, FilesOK
<1>k. pc[w] \in {"forget", "settle", "drop-adm"} => job[w].key \in Keys
  BY <1>j DEF JobOf, Suits, Fits, ReplicatePcs, RanPcs, TriedPcs, BackPcs, EndPcs
<1>1. CASE RollbackAdm(w)
  <2>1. /\ pc[w] = "roll-adm" /\ lock' = NoWorker /\ Go(w, "enter")
        /\ Keep(w, [job[w] EXCEPT !.todo = {}])
        /\ UNCHANGED <<idem, run, use, receipts, outer>>
        /\ \E k \in job[w].todo : adm' = [adm EXCEPT ![k] = None]
    BY <1>1 DEF RollbackAdm
  <2>2. job[w].todo \subseteq Keys
    BY <1>j DEF JobOf, Job
  <2>3. PICK k \in Keys : k \in job[w].todo /\ adm' = [adm EXCEPT ![k] = None]
    BY <2>1, <2>2
  <2>4. pc'[w] = "enter" /\ Others(w) /\ job'[w] = [job[w] EXCEPT !.todo = {}]
    BY <2>1, Went
  <2>5. Same(w)
    BY <2>4, <1>j DEF JobOf, Same, Job
  <2>6. AdmIs(k, None)
    BY <2>3, <1>j DEF AdmIs
  <2>7. Drops(w, k)
    BY <2>1, <2>3, <2>4, <2>5 DEF Drops, Tells, outer
  <2> QED BY <2>1, <2>4, <2>6, <2>7 DEF outer
<1>2. CASE Forget(w)
  <2>1. /\ pc[w] = "forget" /\ End(w) /\ adm' = [adm EXCEPT ![job[w].key] = None]
        /\ answered' = answered \cup {<<job[w].key, job[w].run>>} /\ lock = NoWorker
        /\ UNCHANGED <<idem, run, use, receipts, remote, attempts, begun, lock>>
    BY <1>2 DEF Forget
  <2>2. AdmIs(job[w].key, None)
    BY <2>1, <1>j, <1>k DEF AdmIs
  <2>3. Drops(w, job[w].key)
    BY <2>1, Left DEF Drops, Tells
  <2> QED BY <2>1, <2>2, <2>3, <1>k, Left DEF Tells
<1>3. CASE DropAdm(w)
  <2>1. /\ pc[w] = "drop-adm" /\ End(w) /\ lock = NoWorker
        /\ UNCHANGED <<idem, run, use, receipts, outer, lock>>
        /\ adm' = IF Owns(w) THEN [adm EXCEPT ![job[w].key] = None] ELSE adm
    BY <1>3 DEF DropAdm
  <2>2. CASE Owns(w)
    <3>1. AdmIs(job[w].key, None)
      BY <2>1, <2>2, <1>j, <1>k DEF AdmIs
    <3>2. Drops(w, job[w].key)
      BY <2>1, <2>2, Left DEF Drops, Tells, outer
    <3> QED BY <2>1, <3>1, <3>2, <1>k, Left DEF Tells, outer
  <2>3. CASE ~Owns(w)
    BY <2>1, <2>3, Left DEF Tells, outer
  <2> QED BY <2>2, <2>3
<1>4. CASE SettleWriter(w)
  <2>1. /\ pc[w] = "settle" /\ End(w) /\ lock = NoWorker
        /\ UNCHANGED <<idem, run, use, receipts, remote, attempts, begun, lock>>
        /\ answered' = answered \cup {<<job[w].key, job[w].run>>}
        /\ adm' = [adm EXCEPT ![job[w].key] = None] \/ adm' = adm
    BY <1>4 DEF SettleWriter, DropOwned
  <2>2. CASE adm' = [adm EXCEPT ![job[w].key] = None]
    <3>1. AdmIs(job[w].key, None)
      BY <2>1, <2>2, <1>j, <1>k DEF AdmIs
    <3>2. Drops(w, job[w].key)
      BY <2>1, Left DEF Drops, Tells
    <3> QED BY <2>1, <3>1, <3>2, <1>k, Left
  <2>3. CASE adm' = adm
    BY <2>1, <2>3, Left DEF Tells
  <2> QED BY <2>1, <2>2, <2>3
<1>5. CASE SettleVerified(w)
  <2> DEFINE j == [job[w] EXCEPT !.todo = @ \ {job[w].key}]
  <2>1. /\ pc[w] = "settle" /\ lock = NoWorker /\ Keep(w, j)
        /\ UNCHANGED <<idem, run, use, receipts, outer, lock>>
        /\ \E l \in {"list", "others"} : Go(w, l)
        /\ adm' = [adm EXCEPT ![job[w].key] = None] \/ adm' = adm
    BY <1>5 DEF SettleVerified, DropOwned
  <2>2. pc'[w] \in {"list", "others"} /\ Others(w) /\ job'[w] = j
    BY <2>1, Went
  <2>3. Kept(w)
    BY <2>2, <1>j DEF JobOf, Kept, Same, Job
  <2>4. CASE adm' = [adm EXCEPT ![job[w].key] = None]
    <3>1. AdmIs(job[w].key, None)
      BY <2>1, <2>4, <1>j, <1>k DEF AdmIs
    <3>2. Drops(w, job[w].key)
      BY <2>1, <2>2, <2>3 DEF Drops, Tells, outer
    <3> QED BY <2>1, <2>2, <3>1, <3>2, <1>k DEF outer
  <2>5. CASE adm' = adm
    BY <2>1, <2>2, <2>3, <2>5 DEF Tells, outer
  <2> QED BY <2>1, <2>4, <2>5
<1> QED BY <1>1, <1>2, <1>3, <1>4, <1>5

LEMMA ClaimEffect ==
    ASSUME TypeOK, NEW w \in Workers, Prepare(w) \/ Start(w)
    PROVE  LET k == job[w].key  a == adm[k] IN
           /\ Others(w) /\ UNCHANGED <<idem, run, use, receipts, lock, outer>> /\ lock = NoWorker
           /\ k \in Keys /\ adm'[k] # None /\ AdmIs(k, adm'[k])
           /\ adm'[k].token = job[w].token /\ Kept(w)
           /\ \/ /\ pc[w] = "prepare" /\ pc'[w] = "claim"
                 /\ a # None => a.st = "prepared"
                 /\ adm'[k].st = "prepared"
              \/ /\ pc[w] = "start" /\ pc'[w] = "execute" /\ OwnsPrepared(w)
                 /\ adm'[k].st = "started"
<1> USE DEF At, Locked
<1>1. JobOf(w) /\ adm \in [Keys -> AdmissionFile \cup {None}]
  BY ItsJob DEF TypeOK, FilesOK
<1>2. CASE Prepare(w)
  <2>1. /\ pc[w] = "prepare" /\ Go(w, "claim") /\ job' = job /\ lock = NoWorker
        /\ adm[job[w].key] # None => adm[job[w].key].st = "prepared"
        /\ adm' = [adm EXCEPT ![job[w].key] = Admission(w)]
        /\ UNCHANGED <<idem, run, use, receipts, lock, outer>>
    BY <1>2 DEF Prepare
  <2>2. /\ job[w].key \in Keys /\ job[w].run \in Runs /\ job[w].token \in Tokens
        /\ job[w].approval \in Approvals \cup {NoApproval}
    BY <2>1, <1>1 DEF JobOf, Suits, Fits, Job, ReplicatePcs, RanPcs, TriedPcs
  <2>3. Admission(w) \in AdmissionFile /\ Admission(w).token = job[w].token
        /\ Admission(w).st = "prepared"
    BY <2>2 DEF Admission, AdmissionFile
  <2>4. adm'[job[w].key] = Admission(w) /\ AdmIs(job[w].key, Admission(w))
    BY <2>1, <2>2, <1>1 DEF AdmIs
  <2> QED BY <2>1, <2>2, <2>3, <2>4, Went, NoneAssumption
<1>3. CASE Start(w)
  <2> DEFINE k == job[w].key
             x == [adm[k] EXCEPT !.st = "started"]
  <2>1. /\ pc[w] = "start" /\ Go(w, "execute") /\ job' = job /\ lock = NoWorker
        /\ OwnsPrepared(w) /\ adm[k] # None /\ adm[k].token = job[w].token
        /\ adm' = [adm EXCEPT ![k].st = "started"]
        /\ UNCHANGED <<idem, run, use, receipts, lock, outer>>
    BY <1>3 DEF Start, OwnsPrepared, Owns
  <2>2. k \in Keys
    BY <2>1, <1>1 DEF JobOf, Suits, Fits, ReplicatePcs, RanPcs, TriedPcs, ClaimedPcs
  <2>3. adm' = [adm EXCEPT ![k] = x] /\ adm[k] \in AdmissionFile
    BY <2>1, <2>2, <1>1
  <2>4. x \in AdmissionFile /\ x.st = "started" /\ x.token = adm[k].token
    BY <2>3 DEF AdmissionFile
  <2> HIDE DEF x
  <2>5. adm'[k] = x /\ AdmIs(k, x)
    BY <2>2, <2>3, <1>1 DEF AdmIs
  <2> QED BY <2>1, <2>2, <2>4, <2>5, Went, NoneAssumption
<1> QED BY <1>2, <1>3

LEMMA IdemEffect ==
    ASSUME TypeOK, NEW w \in Workers, RollsBack(w),
           RollbackIdem(w) \/ ClaimIdem(w) \/ DropIdem(w) \/ Complete(w)
    PROVE  /\ Others(w) /\ UNCHANGED <<adm, run, use, receipts, lock, outer>> /\ Kept(w)
           /\ \/ /\ idem' = idem
                 /\ (pc[w] = "roll-idem" /\ pc'[w] = "roll-use") \/
                    (pc[w] = "drop-idem" /\ pc'[w] = "drop-use"
                        /\ LET i == idem[job[w].key] IN
                           ~(i # None /\ i.st = "in-progress" /\ i.token = job[w].token))
              \/ \E k \in Keys : LET i == idem[k] IN
                 /\ IdemIs(k, idem'[k])
                 /\ \/ /\ pc[w] = "roll-idem" /\ pc'[w] = "roll-use" /\ job[w].todo = {k}
                       /\ job'[w].todo = {k}
                       /\ i # None /\ i.st = "in-progress" /\ i.token = adm[k].token
                       /\ idem'[k] = None
                    \/ /\ pc[w] = "claim" /\ pc'[w] = "approve" /\ k = job[w].key /\ OwnsPrepared(w)
                       /\ i # None => i.st = "in-progress"
                       /\ idem'[k] # None /\ idem'[k].token = job[w].token
                       /\ idem'[k].st = "in-progress"
                    \/ /\ pc[w] = "drop-idem" /\ pc'[w] = "drop-use" /\ k = job[w].key
                       /\ i # None /\ i.st = "in-progress" /\ i.token = job[w].token
                       /\ idem'[k] = None
                    \/ /\ pc[w] = "complete" /\ pc'[w] = "settle" /\ k = job[w].key
                       /\ i # None /\ i.st = "in-progress"
                       /\ idem'[k] # None /\ idem'[k].token = i.token /\ idem'[k].st = "completed"
<1> USE DEF At, Locked
<1>1. JobOf(w) /\ idem \in [Keys -> IdemFile \cup {None}]
  BY ItsJob DEF TypeOK, FilesOK
<1>2. pc[w] \in {"claim", "drop-idem", "complete"} => job[w].key \in Keys
  BY <1>1 DEF JobOf, Suits, Fits, ReplicatePcs, RanPcs, TriedPcs, BackPcs, EndPcs
<1>3. CASE RollbackIdem(w)
  <2>1. PICK k \in Keys : job[w].todo = {k} /\ pc[w] = "roll-idem"
    BY <1>3 DEF RollbackIdem, RollsBack, RollPcs
  <2>2. /\ Go(w, "roll-use") /\ UNCHANGED <<adm, run, use, receipts, lock, job, outer>>
        /\ \/ idem' = idem
           \/ /\ idem' = [idem EXCEPT ![k] = None]
              /\ idem[k] # None /\ idem[k].st = "in-progress" /\ idem[k].token = adm[k].token
    BY <1>3, <2>1 DEF RollbackIdem
  <2>3. idem' = [idem EXCEPT ![k] = None] => IdemIs(k, None) /\ idem'[k] = None
    BY <1>1 DEF IdemIs
  <2> QED BY <2>1, <2>2, <2>3, Went
<1>4. CASE ClaimIdem(w)
  <2> DEFINE k == job[w].key
             x == [st |-> "in-progress", approval |-> job[w].approval, run |-> job[w].run,
                   token |-> job[w].token, receipt |-> None]
             j == [job[w] EXCEPT !.claimed = ~job[w].recovering, !.reserved = job[w].seen]
  <2>1. /\ pc[w] = "claim" /\ Go(w, "approve") /\ Keep(w, j)
        /\ OwnsPrepared(w)
        /\ idem[k] # None => idem[k].st = "in-progress"
        /\ idem' = [idem EXCEPT ![k] = x]
        /\ UNCHANGED <<adm, run, use, receipts, lock, outer>>
    BY <1>4 DEF ClaimIdem, Claims
  <2>2. /\ k \in Keys /\ job[w].run \in Runs /\ job[w].token \in Tokens
        /\ job[w].approval \in Approvals \cup {NoApproval}
    BY <2>1, <1>1 DEF JobOf, Suits, Fits, Job, ReplicatePcs, RanPcs, TriedPcs
  <2>3. x \in IdemFile /\ x.token = job[w].token /\ x.st = "in-progress"
    BY <2>2 DEF IdemFile
  <2>4. pc'[w] = "approve" /\ Others(w) /\ job'[w] = j
    BY <2>1, Went
  <2>5. Kept(w)
    BY <2>4, <1>1 DEF JobOf, Job, Kept, Same
  <2> HIDE DEF x
  <2>6. idem'[k] = x /\ IdemIs(k, x)
    BY <2>1, <2>2, <1>1 DEF IdemIs
  <2>7. idem'[k] # None /\ idem'[k].token = job[w].token /\ idem'[k].st = "in-progress"
    BY <2>3, <2>6, NoneAssumption
  <2>8. IdemIs(k, idem'[k])
    BY <2>6
  <2>9. /\ pc[w] = "claim" /\ k = job[w].key /\ OwnsPrepared(w)
        /\ idem[k] # None => idem[k].st = "in-progress"
    BY <2>1
  <2>10. /\ pc'[w] = "approve" /\ Others(w) /\ Kept(w)
         /\ UNCHANGED <<adm, run, use, receipts, lock, outer>>
    BY <2>1, <2>4, <2>5
  <2> HIDE DEF k, j
  <2> QED BY <2>2, <2>7, <2>8, <2>9, <2>10
<1>5. CASE DropIdem(w)
  <2> DEFINE k == job[w].key
  <2>1. /\ pc[w] = "drop-idem" /\ Go(w, "drop-use") /\ k \in Keys
        /\ UNCHANGED <<adm, run, use, receipts, lock, job, outer>>
        /\ idem' = IF idem[k] # None /\ idem[k].st = "in-progress" /\ idem[k].token = job[w].token
                   THEN [idem EXCEPT ![k] = None] ELSE idem
    BY <1>2, <1>5 DEF DropIdem
  <2>2. idem' = [idem EXCEPT ![k] = None] => IdemIs(k, None) /\ idem'[k] = None
    BY <2>1, <1>1 DEF IdemIs
  <2> QED BY <2>1, <2>2, Went
<1>6. CASE Complete(w)
  <2> DEFINE k == job[w].key
             x == [idem[k] EXCEPT !.st = "completed", !.receipt = CompletionReceipt(w)]
  <2>1. /\ pc[w] = "complete" /\ Go(w, "settle") /\ k \in Keys
        /\ UNCHANGED <<adm, run, use, receipts, lock, job, outer>>
        /\ idem[k] # None /\ idem[k].st = "in-progress"
        /\ idem' = [idem EXCEPT ![k].st = "completed", ![k].receipt = CompletionReceipt(w)]
    BY <1>2, <1>6 DEF Complete
  <2>2. idem' = [idem EXCEPT ![k] = x] /\ idem[k] \in IdemFile
    BY <2>1, <1>1
  <2>c. CompletionReceipt(w) \in Receipt
    <3>1. job[w].token \in Tokens /\ job[w].run \in Runs /\ job[w].receipt \in Receipt \cup {None}
      BY <2>1, <1>1 DEF JobOf, Suits, Fits, Job, EndPcs
    <3> QED BY <2>1, <3>1 DEF CompletionReceipt, ReceiptOf, Receipt, ReceiptKinds, DryRunKinds
  <2>3. x.st = "completed" /\ x.token = idem[k].token /\ x \in IdemFile
    BY <2>2, <2>c DEF IdemFile
  <2> HIDE DEF x
  <2>4. idem'[k] = x /\ IdemIs(k, x)
    BY <2>1, <2>2, <1>1 DEF IdemIs
  <2> QED BY <2>1, <2>3, <2>4, Went, NoneAssumption
<1> QED BY <1>3, <1>4, <1>5, <1>6

LEMMA UseEffect ==
    ASSUME TypeOK, NEW w \in Workers, RollsBack(w),
           RollbackUse(w) \/ Approve(w) \/ DropUse(w)
    PROVE  /\ Others(w) /\ UNCHANGED <<adm, idem, run, receipts, lock, outer>> /\ Kept(w)
           /\ \/ /\ use' = use
                 /\ \/ pc[w] = "roll-use" /\ pc'[w] = "roll-adm" /\ job'[w].todo = job[w].todo
                    \/ pc[w] = "approve" /\ pc'[w] = "reserve" /\ job[w].approval = NoApproval
                    \/ pc[w] = "drop-use" /\ pc'[w] = "drop-adm"
              \/ \E a \in Approvals : LET u == use[a] IN
                 /\ UseIs(a, use'[a])
                 /\ \/ /\ pc[w] = "roll-use" /\ pc'[w] = "roll-adm" /\ job'[w].todo = job[w].todo
                       /\ \E k \in Keys : /\ job[w].todo = {k}
                                          /\ u # None /\ u.key = k /\ u.token = adm[k].token
                       /\ use'[a] = None
                    \/ /\ pc[w] = "approve" /\ pc'[w] = "reserve" /\ a = job[w].approval
                       /\ u # None => u.key = job[w].key
                       /\ use'[a] # None /\ use'[a].key = job[w].key
                       /\ use'[a].token = job[w].token
                    \/ /\ pc[w] = "drop-use" /\ pc'[w] = "drop-adm" /\ Owns(w)
                       /\ u # None /\ u.key = job[w].key /\ u.token = job[w].token
                       /\ use'[a] = None
<1> USE DEF At, Locked
<1>1. JobOf(w) /\ use \in [Approvals -> UseFile \cup {None}]
  BY ItsJob DEF TypeOK, FilesOK
<1>2. CASE RollbackUse(w)
  <2>1. PICK k \in Keys : job[w].todo = {k} /\ pc[w] = "roll-use"
    BY <1>2 DEF RollbackUse, RollsBack, RollPcs
  <2> DEFINE a == adm[k].approval
  <2>2. /\ Go(w, "roll-adm") /\ UNCHANGED <<adm, idem, run, receipts, lock, job, outer>>
        /\ use' = IF Marks(a, k, adm[k].token) THEN [use EXCEPT ![a] = None] ELSE use
    BY <1>2, <2>1 DEF RollbackUse
  <2>3. pc'[w] = "roll-adm" /\ Others(w) /\ Kept(w) /\ job'[w].todo = job[w].todo
    BY <2>2, Went
  <2>4. CASE Marks(a, k, adm[k].token)
    <3>1. a \in Approvals /\ use[a] # None /\ use[a].key = k /\ use[a].token = adm[k].token
      BY <2>4 DEF Marks
    <3>2. UseIs(a, None) /\ use'[a] = None
      BY <2>2, <2>4, <3>1, <1>1 DEF UseIs
    <3> HIDE DEF a
    <3> QED BY <2>1, <2>2, <2>3, <3>1, <3>2
  <2>5. CASE ~Marks(a, k, adm[k].token)
    BY <2>1, <2>2, <2>3, <2>5
  <2> QED BY <2>4, <2>5
<1>3. CASE Approve(w)
  <2> DEFINE a == job[w].approval
             x == [key |-> job[w].key, token |-> job[w].token]
  <2>1. /\ pc[w] = "approve" /\ Go(w, "reserve") /\ Approves(w)
        /\ UNCHANGED <<adm, idem, run, receipts, lock, job, outer>>
        /\ use' = IF a = NoApproval THEN use ELSE [use EXCEPT ![a] = x]
    BY <1>3 DEF Approve
  <2>2. pc'[w] = "reserve" /\ Others(w) /\ Kept(w)
    BY <2>1, Went
  <2>3. CASE a = NoApproval
    BY <2>1, <2>2, <2>3
  <2>4. CASE a # NoApproval
    <3>1. a \in Approvals /\ job[w].key \in Keys /\ job[w].token \in Tokens
      BY <2>1, <2>4, <1>1
         DEF JobOf, Job, Suits, Fits, ReplicatePcs, RanPcs, TriedPcs, ClaimedPcs
    <3>2. x \in UseFile /\ x.key = job[w].key /\ x.token = job[w].token
      BY <3>1 DEF UseFile
    <3>3. use[a] # None => use[a].key = job[w].key
      BY <2>1, <2>4 DEF Approves
    <3> HIDE DEF x
    <3>4. use'[a] = x /\ UseIs(a, x)
      BY <2>1, <2>4, <3>1, <1>1 DEF UseIs
    <3>5. /\ use'[a] # None /\ use'[a].key = job[w].key /\ use'[a].token = job[w].token
          /\ UseIs(a, use'[a]) /\ pc[w] = "approve" /\ a = job[w].approval
      BY <2>1, <3>2, <3>4, NoneAssumption
    <3> HIDE DEF a
    <3> QED BY <2>1, <2>2, <3>1, <3>3, <3>5
  <2> QED BY <2>3, <2>4
<1>4. CASE DropUse(w)
  <2> DEFINE a == job[w].approval
  <2>1. /\ pc[w] = "drop-use" /\ Go(w, "drop-adm")
        /\ UNCHANGED <<adm, idem, run, receipts, lock, job, outer>>
        /\ use' = IF Owns(w) /\ Marks(a, job[w].key, job[w].token)
                  THEN [use EXCEPT ![a] = None] ELSE use
    BY <1>4 DEF DropUse
  <2>2. pc'[w] = "drop-adm" /\ Others(w) /\ Kept(w)
    BY <2>1, Went
  <2>3. CASE Owns(w) /\ Marks(a, job[w].key, job[w].token)
    <3>1. a \in Approvals /\ use[a] # None /\ use[a].key = job[w].key /\ use[a].token = job[w].token
      BY <2>3 DEF Marks
    <3>2. UseIs(a, None) /\ use'[a] = None
      BY <2>1, <2>3, <3>1, <1>1 DEF UseIs
    <3> HIDE DEF a
    <3> QED BY <2>1, <2>2, <2>3, <3>1, <3>2
  <2>4. CASE ~(Owns(w) /\ Marks(a, job[w].key, job[w].token))
    BY <2>1, <2>2, <2>4
  <2> QED BY <2>3, <2>4
<1> QED BY <1>2, <1>3, <1>4

(* The run record of r: its reservation, its outcome, its dry run.         *)
RunIs(r, wip, key, token, done) ==
    /\ run'[r] # None /\ run'[r].wip = wip /\ run'[r].key = key
    /\ run'[r].token = token /\ run'[r].done = done
    /\ \A q \in Runs \ {r} : run'[q] = run[q]
Kept2(r) == run'[r].receipt = run[r].receipt /\ run'[r].dryReceipt = run[r].dryReceipt

LEMMA RunWritten ==
    ASSUME TypeOK, NEW r \in Runs, NEW x \in RunFile, run' = [run EXCEPT ![r] = x]
    PROVE  /\ RunIs(r, x.wip, x.key, x.token, x.done)
           /\ run'[r].receipt = x.receipt /\ run'[r].dryReceipt = x.dryReceipt
<1>1. run \in [Runs -> RunFile \cup {None}] /\ x # None
  BY NoneAssumption DEF TypeOK, FilesOK
<1> QED BY <1>1 DEF RunIs

LEMMA RollbackEffect ==
    ASSUME TypeOK, NEW w \in Workers, NEW k \in Keys, RollbackRun(w, k)
    PROVE  /\ UNCHANGED <<adm, idem, use, receipts, outer>>
           /\ lock = NoWorker /\ lock' = w /\ adm[k] # None /\ adm[k].st = "prepared"
           /\ \/ run' = run
              \/ LET r == adm[k].run IN
                 /\ r \in Runs /\ run[r] # None
                 /\ run[r].wip /\ ~run[r].done /\ run[r].key = k /\ run[r].token = adm[k].token
                 /\ RunIs(r, FALSE, NoKey, 0, FALSE) /\ Kept2(r)
<1> DEFINE r == adm[k].run
           x == [run[r] EXCEPT !.wip = FALSE, !.key = NoKey, !.token = 0]
<1>1. /\ adm[k] # None /\ lock' = w /\ UNCHANGED <<adm, idem, use, receipts, outer>>
      /\ lock = NoWorker /\ adm[k].st = "prepared"
      /\ \/ run' = run
         \/ /\ Claim(k, r) /\ run[r].token = adm[k].token
            /\ run' = [run EXCEPT ![r].wip = FALSE, ![r].key = NoKey, ![r].token = 0]
  BY DEF RollbackRun
<1>2. r \in Runs /\ run[r] \in RunFile /\ run \in [Runs -> RunFile \cup {None}]
  BY <1>1 DEF TypeOK, RunsThere, FilesOK, AdmissionFile
<1>3. 0 \in 0..MaxAttempts /\ NoKey \in Keys \cup {NoKey}
  BY BrokerAssumption
<1>4. CASE run' = run
  BY <1>1, <1>4
<1>5. CASE run' # run
  <2>1. run[r] # None /\ run[r].wip /\ ~run[r].done /\ run[r].key = k /\ run[r].token = adm[k].token
    BY <1>1, <1>5 DEF Claim
  <2>2. run' = [run EXCEPT ![r] = x]
    BY <1>1, <1>2, <1>5
  <2>3. /\ x \in RunFile /\ x.wip = FALSE /\ x.key = NoKey /\ x.token = 0 /\ x.done = run[r].done
        /\ x.receipt = run[r].receipt /\ x.dryReceipt = run[r].dryReceipt
        /\ x.done \in BOOLEAN
    BY <1>2, <1>3 DEF RunFile
  <2> HIDE DEF x
  <2>4. RunIs(r, x.wip, x.key, x.token, x.done) /\ Kept2(r)
    BY <2>2, <2>3, <1>2, RunWritten DEF Kept2
  <2>5. x.done = FALSE
    BY <2>1, <2>3
  <2>6. RunIs(r, FALSE, NoKey, 0, FALSE)
    BY <2>3, <2>4, <2>5
  <2> HIDE DEF r
  <2> QED BY <1>1, <1>2, <2>1, <2>4, <2>6 DEF r
<1> QED BY <1>4, <1>5

(* A step that writes the run record of r.                                 *)
Writes(w, r) == LET x == run[r] IN
    \/ /\ pc[w] \in {"snapshot", "dry-snapshot"} /\ pc'[w] \in {"check", "dry-run"} /\ Same(w)
       /\ pc[w] = "dry-snapshot" => pc'[w] = "dry-run"
       /\ x = None /\ RunIs(r, FALSE, NoKey, 0, FALSE) /\ run'[r].dryReceipt = None
    \/ /\ pc[w] = "dry-run" /\ pc'[w] = "dry-receipt" /\ Kept(w)
       /\ x # None /\ RunIs(r, x.wip, x.key, x.token, x.done)
       /\ run'[r].receipt = x.receipt /\ run'[r].dryReceipt.run = r
    \/ /\ pc[w] = "reserve" /\ pc'[w] = "start" /\ Kept(w) /\ r = job[w].run
       /\ x # None /\ Reserves(w) /\ RunIs(r, TRUE, job[w].key, job[w].token, FALSE) /\ Kept2(r)
    \/ /\ pc[w] = "release" /\ pc'[w] = "drop-idem" /\ Kept(w) /\ r = job[w].run
       /\ x # None /\ MayRelease(w) /\ RunIs(r, FALSE, NoKey, 0, FALSE) /\ Kept2(r)
    \/ /\ pc[w] \in {"record-run", "resolve-run"} /\ pc'[w] = "complete" /\ Kept(w)
       /\ r = job[w].run
       /\ x # None /\ RunIs(r, FALSE, NoKey, 0, TRUE) /\ run'[r].dryReceipt = x.dryReceipt
       /\ run'[r].receipt = job[w].receipt \/ (x.done /\ run'[r].receipt = x.receipt)

LEMMA RunEffect ==
    ASSUME TypeOK, NEW w \in Workers,
           \/ Snapshot(w) \/ Reserve(w) \/ Release(w) \/ RecordRun(w)
           \/ DrySnapshot(w) \/ DryRun(w) \/ ResolveRun(w)
    PROVE  /\ Others(w) /\ UNCHANGED <<adm, idem, use, receipts, outer>>
           /\ \/ lock = NoWorker /\ lock' = lock /\ pc[w] # "resolve-run"
              \/ pc[w] = "resolve-run" /\ lock' = NoWorker
           /\ \/ /\ run' = run
                 /\ \/ pc[w] = "release" /\ Leaves(w)
                    \/ pc[w] = "snapshot" /\ pc'[w] = "check" /\ Same(w)
                    \/ pc[w] = "dry-snapshot" /\ pc'[w] = "dry-run" /\ Same(w)
              \/ \E r \in Runs : Writes(w, r)
<1> USE DEF At, Locked
<1>1. JobOf(w) /\ run \in [Runs -> RunFile \cup {None}]
  BY ItsJob DEF TypeOK, FilesOK
<1>2. 0 \in 0..MaxAttempts /\ NoKey \in Keys \cup {NoKey}
  BY BrokerAssumption
<1>3. pc[w] \in {"reserve", "release", "record-run", "resolve-run", "dry-run"} =>
        /\ job[w].run \in Runs /\ run[job[w].run] # None /\ run[job[w].run] \in RunFile
        /\ job[w].token \in Tokens /\ job[w].token \in 0..MaxAttempts
  <2>1. pc[w] \in {"reserve", "release", "record-run", "resolve-run", "dry-run"} =>
        /\ job[w].run \in Runs /\ run[job[w].run] # None /\ job[w].token \in Tokens
    BY <1>1 DEF JobOf, Suits, Fits, Known, ReplicatePcs, RanPcs, TriedPcs, ClaimedPcs,
         BackPcs, SentPcs, VerifyPcs
  <2> QED BY <2>1, <1>1 DEF JobOf, Job
<1>4. CASE Snapshot(w) \/ DrySnapshot(w)
  <2>1. /\ pc[w] \in {"snapshot", "dry-snapshot"} /\ lock = NoWorker /\ lock' = lock
        /\ \/ pc[w] = "snapshot" /\ Go(w, "check")
           \/ pc[w] = "dry-snapshot" /\ Go(w, "dry-run")
        /\ UNCHANGED <<adm, idem, use, receipts, outer>>
        /\ \E s : Keep(w, [job[w] EXCEPT !.run = s])
        /\ \/ run' = run
           \/ \E r \in Runs : run[r] = None /\ run' = [run EXCEPT ![r] = FreshRun]
    BY <1>4 DEF Snapshot, DrySnapshot
  <2>2. PICK s : Keep(w, [job[w] EXCEPT !.run = s])
    BY <2>1
  <2>3. Others(w) /\ job'[w] = [job[w] EXCEPT !.run = s]
    BY <2>1, <2>2, Went
  <2>4. Same(w)
    BY <2>3, <1>1 DEF JobOf, Job, Same
  <2>5. \/ pc[w] = "snapshot" /\ pc'[w] = "check"
        \/ pc[w] = "dry-snapshot" /\ pc'[w] = "dry-run"
    BY <2>1, Went
  <2>6. CASE run' = run
    BY <2>1, <2>3, <2>4, <2>5, <2>6
  <2>7. ASSUME NEW r \in Runs, run[r] = None, run' = [run EXCEPT ![r] = FreshRun]
        PROVE  Writes(w, r)
    <3>1. /\ FreshRun \in RunFile /\ FreshRun.wip = FALSE /\ FreshRun.key = NoKey
          /\ FreshRun.token = 0 /\ FreshRun.done = FALSE /\ FreshRun.dryReceipt = None
      BY <1>2 DEF FreshRun, RunFile
    <3>2. RunIs(r, FALSE, NoKey, 0, FALSE) /\ run'[r].dryReceipt = None
      BY <2>7, <3>1, RunWritten
    <3> QED BY <2>4, <2>5, <2>7, <3>2 DEF Writes
  <2> QED BY <2>1, <2>3, <2>6, <2>7
<1>5. CASE Reserve(w)
  <2> DEFINE r == job[w].run
             x == [run[r] EXCEPT !.wip = TRUE, !.key = job[w].key, !.token = job[w].token]
             j == [job[w] EXCEPT !.reserved = TRUE]
  <2>1. /\ pc[w] = "reserve" /\ lock = NoWorker /\ lock' = lock /\ Go(w, "start") /\ Keep(w, j)
        /\ UNCHANGED <<adm, idem, use, receipts, outer>> /\ Reserves(w) /\ ~run[r].done
        /\ run' = [run EXCEPT ![r].wip = TRUE, ![r].key = job[w].key, ![r].token = job[w].token]
    BY <1>5 DEF Reserve, Reserves
  <2>2. run' = [run EXCEPT ![r] = x]
    BY <2>1, <1>1, <1>3
  <2>3. job[w].key \in Keys
    BY <2>1, <1>1 DEF JobOf, Suits, Fits, ReplicatePcs, RanPcs, TriedPcs, ClaimedPcs
  <2>4. /\ x \in RunFile /\ x.wip = TRUE /\ x.key = job[w].key /\ x.token = job[w].token
        /\ x.done = run[r].done /\ x.receipt = run[r].receipt /\ x.dryReceipt = run[r].dryReceipt
        /\ run[r].done \in BOOLEAN
    BY <2>1, <2>3, <1>3 DEF RunFile
  <2>5. Others(w) /\ job'[w] = j /\ pc'[w] = "start"
    BY <2>1, Went
  <2>6. Kept(w)
    BY <2>5, <1>1 DEF JobOf, Job, Kept, Same
  <2> HIDE DEF x, j
  <2>7. x.done = FALSE
    BY <2>1, <2>4
  <2>8. RunIs(r, TRUE, job[w].key, job[w].token, FALSE) /\ Kept2(r)
    BY <2>1, <2>2, <2>4, <2>7, <1>3, RunWritten DEF Kept2
  <2>9. Writes(w, r)
    BY <2>1, <2>5, <2>6, <2>8, <1>3 DEF Writes
  <2> QED BY <2>1, <2>5, <2>9, <1>3
<1>6. CASE Release(w)
  <2> DEFINE r == job[w].run
             x == [run[r] EXCEPT !.wip = FALSE, !.key = NoKey, !.token = 0]
  <2>1. /\ pc[w] = "release" /\ lock = NoWorker /\ lock' = lock
        /\ UNCHANGED <<adm, idem, use, receipts, outer>>
    BY <1>6 DEF Release
  <2>2. CASE ~MayRelease(w)
    <3>1. End(w) /\ run' = run
      BY <1>6, <2>2 DEF Release
    <3> QED BY <2>1, <3>1, Left
  <2>3. CASE MayRelease(w)
    <3>1. /\ Go(w, "drop-idem") /\ job' = job /\ ~run[r].done
          /\ run' = [run EXCEPT ![r].wip = FALSE, ![r].key = NoKey, ![r].token = 0]
      BY <1>6, <2>3 DEF Release, MayRelease
    <3>2. run' = [run EXCEPT ![r] = x]
      BY <2>1, <3>1, <1>1, <1>3
    <3>3. /\ x \in RunFile /\ x.wip = FALSE /\ x.key = NoKey /\ x.token = 0
          /\ x.done = run[r].done /\ x.receipt = run[r].receipt /\ x.dryReceipt = run[r].dryReceipt
          /\ run[r].done \in BOOLEAN
      BY <2>1, <1>2, <1>3 DEF RunFile
    <3> HIDE DEF x
    <3>4. x.done = FALSE
      BY <3>1, <3>3
    <3>5. RunIs(r, FALSE, NoKey, 0, FALSE) /\ Kept2(r)
      BY <2>1, <3>2, <3>3, <3>4, <1>3, RunWritten DEF Kept2
    <3>6. Writes(w, r)
      BY <2>1, <2>3, <3>1, <3>5, <1>3, Went DEF Writes
    <3> QED BY <2>1, <3>1, <3>6, <1>3, Went
  <2> QED BY <2>2, <2>3
<1>7. CASE RecordRun(w)
  <2> DEFINE r == job[w].run
             c == IF run[r].done THEN run[r].receipt ELSE job[w].receipt
             x == [run[r] EXCEPT !.dry = TRUE, !.wip = FALSE, !.key = NoKey, !.token = 0,
                                 !.done = TRUE, !.receipt = c]
  <2>1. /\ pc[w] = "record-run" /\ lock = NoWorker /\ lock' = lock /\ Go(w, "complete") /\ job' = job
        /\ UNCHANGED <<adm, idem, use, receipts, outer>>
        /\ run' = [run EXCEPT ![r].dry = TRUE, ![r].wip = FALSE, ![r].key = NoKey,
                          ![r].token = 0, ![r].done = TRUE,
                          ![r].receipt = IF run[r].done THEN @ ELSE job[w].receipt]
    BY <1>7 DEF RecordRun
  <2>2. run' = [run EXCEPT ![r] = x]
    BY <2>1, <1>1, <1>3
  <2>3. c \in Receipt \cup {None}
    BY <2>1, <1>1, <1>3 DEF JobOf, Job, RunFile
  <2>4. c = job[w].receipt \/ (run[r].done /\ c = run[r].receipt)
    OBVIOUS
  <2> HIDE DEF c
  <2>5. /\ x \in RunFile /\ x.wip = FALSE /\ x.key = NoKey /\ x.token = 0 /\ x.done = TRUE
        /\ x.receipt = c /\ x.dryReceipt = run[r].dryReceipt
    BY <2>1, <2>3, <1>2, <1>3 DEF RunFile
  <2> HIDE DEF x
  <2>6. /\ RunIs(r, FALSE, NoKey, 0, TRUE) /\ run'[r].receipt = c
        /\ run'[r].dryReceipt = run[r].dryReceipt
    <3>1. /\ RunIs(r, x.wip, x.key, x.token, x.done)
          /\ run'[r].receipt = x.receipt /\ run'[r].dryReceipt = x.dryReceipt
      BY <2>1, <2>2, <2>5, <1>3, RunWritten
    <3> QED BY <2>5, <3>1, Zenon
  <2>7. Writes(w, r)
    BY <2>1, <2>4, <2>6, <1>3, Went DEF Writes
  <2> QED BY <2>1, <2>7, <1>3, Went
<1>8. CASE ResolveRun(w)
  <2> DEFINE r == job[w].run
             x == [run[r] EXCEPT !.wip = FALSE, !.key = NoKey, !.token = 0, !.done = TRUE,
                                 !.receipt = job[w].receipt]
  <2>1. /\ pc[w] = "resolve-run" /\ lock' = NoWorker /\ Go(w, "complete") /\ job' = job
        /\ UNCHANGED <<adm, idem, use, receipts, outer>>
        /\ run' = [run EXCEPT ![r].wip = FALSE, ![r].key = NoKey, ![r].token = 0,
                              ![r].done = TRUE, ![r].receipt = job[w].receipt]
    BY <1>8 DEF ResolveRun
  <2>2. run' = [run EXCEPT ![r] = x]
    BY <2>1, <1>1, <1>3
  <2>3. job[w].receipt \in Receipt \cup {None}
    BY <1>1 DEF JobOf, Job
  <2>4. /\ x \in RunFile /\ x.wip = FALSE /\ x.key = NoKey /\ x.token = 0 /\ x.done = TRUE
        /\ x.receipt = job[w].receipt /\ x.dryReceipt = run[r].dryReceipt
    BY <2>1, <2>3, <1>2, <1>3 DEF RunFile
  <2> HIDE DEF x
  <2>5. /\ RunIs(r, FALSE, NoKey, 0, TRUE) /\ run'[r].receipt = job[w].receipt
        /\ run'[r].dryReceipt = run[r].dryReceipt
    <3>1. /\ RunIs(r, x.wip, x.key, x.token, x.done)
          /\ run'[r].receipt = x.receipt /\ run'[r].dryReceipt = x.dryReceipt
      BY <2>1, <2>2, <2>4, <1>3, RunWritten
    <3> QED BY <2>4, <3>1, Zenon
  <2>6. Writes(w, r)
    BY <2>1, <2>5, <1>3, Went DEF Writes
  <2> QED BY <2>1, <2>6, <1>3, Went
<1>9. CASE DryRun(w)
  <2> DEFINE r == job[w].run
  <2>1. /\ pc[w] = "dry-run" /\ lock = NoWorker /\ lock' = lock /\ Go(w, "dry-receipt")
        /\ UNCHANGED <<adm, idem, use, receipts, outer>>
        /\ \E kind \in DryRunKinds :
            /\ run' = [run EXCEPT ![r].dry = @ \/ kind = "dry-passed",
                                  ![r].dryReceipt = ReceiptOf(kind, job[w].token, NoKey, r)]
            /\ Keep(w, [job[w] EXCEPT !.receipt = ReceiptOf(kind, job[w].token, NoKey, r)])
    BY <1>9 DEF DryRun
  <2>2. PICK kind \in DryRunKinds :
            /\ run' = [run EXCEPT ![r].dry = @ \/ kind = "dry-passed",
                                  ![r].dryReceipt = ReceiptOf(kind, job[w].token, NoKey, r)]
            /\ Keep(w, [job[w] EXCEPT !.receipt = ReceiptOf(kind, job[w].token, NoKey, r)])
    BY <2>1
  <2> DEFINE c == ReceiptOf(kind, job[w].token, NoKey, r)
             d == run[r].dry \/ kind = "dry-passed"
             x == [run[r] EXCEPT !.dry = d, !.dryReceipt = c]
  <2>3. c \in Receipt /\ c.run = r
    BY <2>1, <1>2, <1>3 DEF ReceiptOf, Receipt, ReceiptKinds, DryRunKinds
  <2>4. d \in BOOLEAN
    BY <2>1, <1>3 DEF RunFile
  <2>5. run' = [run EXCEPT ![r] = x]
    BY <2>1, <2>2, <1>1, <1>3
  <2>6. Others(w) /\ pc'[w] = "dry-receipt" /\ job'[w] = [job[w] EXCEPT !.receipt = c]
    BY <2>1, <2>2, Went
  <2> HIDE DEF c, d
  <2>7. Kept(w)
    BY <2>6, <1>1 DEF JobOf, Job, Kept, Same
  <2>8. /\ x \in RunFile /\ x.wip = run[r].wip /\ x.key = run[r].key /\ x.token = run[r].token
        /\ x.done = run[r].done /\ x.receipt = run[r].receipt /\ x.dryReceipt = c
    BY <2>1, <2>3, <2>4, <1>3 DEF RunFile
  <2> HIDE DEF x
  <2>9. /\ RunIs(r, run[r].wip, run[r].key, run[r].token, run[r].done)
        /\ run'[r].receipt = run[r].receipt /\ run'[r].dryReceipt = c
    BY <2>1, <2>5, <2>8, <1>3, RunWritten
  <2>10. Writes(w, r)
    BY <2>1, <2>3, <2>6, <2>7, <2>9, <1>3 DEF Writes
  <2> QED BY <2>1, <2>6, <2>10, <1>3
<1> QED BY <1>4, <1>5, <1>6, <1>7, <1>8, <1>9

LEMMA BeginEffect ==
    ASSUME TypeOK, NEW w \in Workers, BeginTransfer(w)
    PROVE  /\ Others(w) /\ UNCHANGED <<files, lock, attempts, answered>> /\ Kept(w)
           /\ pc[w] = "execute" /\ ~job[w].late /\ pc'[w] = "transfer" /\ job[w].run \in Runs
           /\ remote'[job[w].run] = "partial"
           /\ \A r \in Runs \ {job[w].run} : remote'[r] = remote[r]
           /\ begun' = begun \cup {[run |-> job[w].run, key |-> job[w].key,
                                    token |-> job[w].token, approval |-> job[w].approval]}
<1>1. /\ pc[w] = "execute" /\ ~job[w].late /\ Go(w, "transfer") /\ job' = job
      /\ UNCHANGED <<files, lock, attempts, answered>>
      /\ remote' = [remote EXCEPT ![job[w].run] = "partial"]
      /\ begun' = begun \cup {[run |-> job[w].run, key |-> job[w].key,
                               token |-> job[w].token, approval |-> job[w].approval]}
  BY DEF BeginTransfer, At
<1>2. job[w].run \in Runs
  BY <1>1, ItsJob DEF JobOf, Suits, Fits, RanPcs, TriedPcs, ClaimedPcs
<1>3. /\ remote'[job[w].run] = "partial"
      /\ \A r \in Runs \ {job[w].run} : remote'[r] = remote[r]
  BY <1>1, <1>2 DEF TypeOK, OuterOK
<1> QED BY <1>1, <1>2, <1>3, Went

LEMMA EndEffect ==
    ASSUME TypeOK, NEW w \in Workers, EndTransfer(w) \/ Stop(w)
    PROVE  /\ Others(w) /\ UNCHANGED <<files, attempts, begun, answered>>
           /\ \/ Leaves(w) /\ lock' = IF lock = w THEN NoWorker ELSE lock
              \/ Kept(w) /\ pc[w] = "transfer" /\ pc'[w] = "record" /\ lock' = lock
                 /\ remote'[job[w].run] = "complete"
           /\ \/ remote' = remote
              \/ /\ pc[w] = "transfer" /\ job[w].run \in Runs
                 /\ remote'[job[w].run] \in {"partial", "complete"}
                 /\ \A r \in Runs \ {job[w].run} : remote'[r] = remote[r]
<1> USE DEF At
<1>1. pc[w] = "transfer" => job[w].run \in Runs
  BY ItsJob DEF JobOf, Suits, Fits, RanPcs, TriedPcs, SentPcs
<1>2. remote \in [Runs -> {"absent", "partial", "complete"}]
  BY DEF TypeOK, OuterOK
<1>3. CASE EndTransfer(w)
  <2>1. /\ pc[w] = "transfer" /\ Go(w, "record") /\ job' = job
        /\ UNCHANGED <<files, lock, attempts, begun, answered>>
        /\ remote' = [remote EXCEPT ![job[w].run] = "complete"]
    BY <1>3 DEF EndTransfer
  <2>2. /\ remote'[job[w].run] = "complete"
        /\ \A r \in Runs \ {job[w].run} : remote'[r] = remote[r]
    BY <2>1, <1>1, <1>2
  <2> QED BY <2>1, <2>2, <1>1, Went
<1>4. CASE Stop(w)
  <2>1. /\ End(w) /\ UNCHANGED <<files, attempts, begun, answered>>
        /\ lock' = IF lock = w THEN NoWorker ELSE lock
        /\ \/ remote' = remote
           \/ /\ pc[w] = "transfer"
              /\ \E got \in {"partial", "complete"} : remote' = [remote EXCEPT ![job[w].run] = got]
    BY <1>4 DEF Stop
  <2>2. CASE remote' = remote
    BY <2>1, <2>2, Left
  <2>3. CASE /\ pc[w] = "transfer"
             /\ \E got \in {"partial", "complete"} : remote' = [remote EXCEPT ![job[w].run] = got]
    BY <2>1, <2>3, <1>1, <1>2, Left
  <2> QED BY <2>1, <2>2, <2>3
<1> QED BY <1>3, <1>4

LEMMA ReceiptEffect ==
    ASSUME TypeOK, NEW w \in Workers,
           Record(w) \/ DryReceipt(w) \/ Resolve(w) \/ Reconcile(w)
    PROVE  /\ Others(w) /\ UNCHANGED <<adm, idem, run, use, outer>> /\ receipts \subseteq receipts'
           /\ lock' = IF pc[w] = "resolve" THEN w ELSE lock
           /\ pc[w] = "resolve" => lock = NoWorker
           /\ \/ Leaves(w)
              \/ /\ Kept(w) /\ pc[w] = "record" /\ pc'[w] = "record-run"
                 /\ job'[w].receipt \in receipts'
              \/ /\ job'[w].run = job[w].run /\ job'[w].token = job[w].token
                 /\ job'[w].late = job[w].late
                 /\ \/ pc[w] = "resolve" /\ pc'[w] = "resolve-run" /\ job'[w].receipt \in receipts'
                    \/ pc[w] = "others" /\ pc'[w] = "complete"
                    \/ pc[w] = "others" /\ pc'[w] = "settle"
                       /\ idem[job'[w].key] # None /\ idem[job'[w].key].st = "completed"
<1> USE DEF At
<1>1. job[w] \in Job
  BY ItsJob DEF JobOf
<1>2. CASE Record(w)
  <2> DEFINE c == ReceiptOf("written", job[w].token, job[w].key, job[w].run)
             j == [job[w] EXCEPT !.owner = job[w].token, !.receipt = c]
  <2>1. /\ pc[w] = "record" /\ Go(w, "record-run") /\ Keep(w, j)
        /\ receipts' = receipts \cup {c} /\ UNCHANGED <<adm, idem, run, use, lock, outer>>
    BY <1>2 DEF Record
  <2> HIDE DEF c
  <2>2. Others(w) /\ pc'[w] = "record-run" /\ job'[w] = j
    BY <2>1, Went
  <2>3. Kept(w) /\ job'[w].receipt = c
    BY <2>2, <1>1 DEF Kept, Same, Job
  <2> QED BY <2>1, <2>2, <2>3
<1>3. CASE DryReceipt(w)
  <2>1. /\ pc[w] = "dry-receipt" /\ End(w) /\ receipts' = receipts \cup {job[w].receipt}
        /\ UNCHANGED <<adm, idem, run, use, lock, outer>>
    BY <1>3 DEF DryReceipt
  <2> QED BY <2>1, Left
<1>4. CASE Resolve(w)
  <2>1. PICK k \in Keys :
            /\ receipts' = receipts \cup {ReceiptOf("verified", job[w].token, k, job[w].run)}
            /\ Keep(w, [job[w] EXCEPT !.key = k, !.owner = adm[k].token,
                            !.receipt = ReceiptOf("verified", job[w].token, k, job[w].run)])
    BY <1>4 DEF Resolve
  <2> DEFINE c == ReceiptOf("verified", job[w].token, k, job[w].run)
             t == adm[k].token
             j == [job[w] EXCEPT !.key = k, !.owner = t, !.receipt = c]
  <2>2. /\ pc[w] = "resolve" /\ lock = NoWorker /\ lock' = w /\ Go(w, "resolve-run") /\ Keep(w, j)
        /\ receipts' = receipts \cup {c} /\ UNCHANGED <<adm, idem, run, use, outer>>
    BY <1>4, <2>1 DEF Resolve
  <2> HIDE DEF c, t
  <2>3. Others(w) /\ pc'[w] = "resolve-run" /\ job'[w] = j
    BY <2>2, Went
  <2>4. /\ job'[w].run = job[w].run /\ job'[w].token = job[w].token
        /\ job'[w].late = job[w].late /\ job'[w].receipt = c
    BY <2>3, <1>1 DEF Job
  <2> QED BY <2>2, <2>3, <2>4
<1>5. CASE Reconcile(w)
  <2>1. PICK k \in job[w].todo :
            /\ SameAttempt(k, job[w].run)
            /\ Keep(w, [job[w] EXCEPT !.key = k, !.owner = adm[k].token])
            /\ Go(w, IF idem[k].st = "completed" THEN "settle" ELSE "complete")
            /\ receipts \subseteq receipts'
    BY <1>5 DEF Reconcile
  <2> DEFINE t == adm[k].token
             j == [job[w] EXCEPT !.key = k, !.owner = t]
             l == IF idem[k].st = "completed" THEN "settle" ELSE "complete"
  <2>2. pc[w] = "others" /\ UNCHANGED <<adm, idem, run, use, lock, outer>>
    BY <1>5 DEF Reconcile
  <2> HIDE DEF t
  <2>3. Others(w) /\ pc'[w] = l /\ job'[w] = j
    BY <2>1, Went DEF t
  <2>4. /\ job'[w].run = job[w].run /\ job'[w].token = job[w].token
        /\ job'[w].late = job[w].late /\ job'[w].key = k
    BY <2>3, <1>1 DEF Job
  <2> HIDE DEF j
  <2> QED BY <2>1, <2>2, <2>3, <2>4 DEF SameAttempt
<1> QED BY <1>2, <1>3, <1>4, <1>5

LEMMA CallEffect ==
    ASSUME TypeOK, NEW w \in Workers, NEW q \in Requests, Call(w, q)
    PROVE  /\ Others(w) /\ UNCHANGED <<files, lock, remote, begun, answered>>
           /\ pc[w] = "idle" /\ pc'[w] = "enter"
           /\ attempts' = attempts + 1 /\ job'[w].token = attempts + 1
<1> DEFINE n == attempts + 1
           j == [NoJob EXCEPT !.op = q.op, !.key = q.key, !.approval = q.approval,
                              !.run = q.run, !.token = n]
<1>1. /\ pc[w] = "idle" /\ attempts' = n /\ Keep(w, j) /\ Go(w, "enter")
      /\ UNCHANGED <<files, lock, remote, begun, answered>>
  BY DEF Call, At
<1> HIDE DEF n
<1>2. Others(w) /\ pc'[w] = "enter" /\ job'[w] = j
  BY <1>1, Went
<1>3. j.token = n
  BY DEF NoJob
<1> QED BY <1>1, <1>2, <1>3 DEF n

-----------------------------------------------------------------------------
(* Tokens: a step puts no token into a file but its own, and that only     *)
(* once it has an admission; a request never goes back behind that.        *)
Stamps(w, old, new) == new # None =>
    (old # None /\ new.token = old.token) \/
    (new.token = job[w].token /\ pc[w] # "idle" /\ pc'[w] \notin UnpreparedPcs)

Advances(w) ==
    /\ \A v \in Workers \ {w} : pc'[v] = pc[v] /\ job'[v].token = job[v].token
    /\ Leaves(w) \/ (job'[w].token = job[w].token /\ pc[w] # "idle" /\ pc'[w] # "idle")
    /\ pc'[w] \in UnpreparedPcs => pc[w] \in UnpreparedPcs
    /\ pc'[w] \in UnsentPcs => pc[w] \in UnsentPcs
Stamped(w) ==
    /\ \A k \in Keys : Stamps(w, adm[k], adm'[k]) /\ Stamps(w, idem[k], idem'[k])
    /\ \A a \in Approvals : Stamps(w, use[a], use'[a])
    /\ \A r \in Runs : Stamps(w, run[r], run'[r]) \/ run'[r].token = 0
    /\ attempts' = attempts
    /\ \A b \in begun' : b \in begun \/ (b.token = job[w].token /\ pc[w] # "idle"
                                          /\ pc'[w] \notin UnsentPcs)

LEMMA TokenKept ==
    ASSUME TypeOK, TypeOK', TokenInv, NEW w \in Workers, Advances(w), Stamped(w)
    PROVE  TokenInv'
<1> DEFINE t == job[w].token
<1>n. /\ attempts \in Nat /\ \A v \in Workers : job[v].token \in Nat
      /\ \A b \in begun : b.token \in Nat
  <2>1. attempts \in 0..MaxAttempts /\ MaxAttempts \in Nat /\ begun \subseteq Transfer
    BY BrokerAssumption DEF TypeOK, OuterOK
  <2>2. \A v \in Workers : job[v].token \in 0..MaxAttempts
    BY ItsJob DEF JobOf, Job
  <2> QED BY <2>1, <2>2 DEF Transfer, Tokens
<1>1. \A v \in Workers : job'[v].token = job[v].token \/ (v = w /\ Leaves(w))
  BY DEF Advances
<1>2. NoJob.token = 0
  BY DEF NoJob
<1>3. attempts' = attempts
  BY DEF Stamped
<1>4. \A v \in Workers : job'[v].token <= attempts
  BY <1>1, <1>2, <1>n DEF TokenInv, Numbered, Leaves
<1>5. ASSUME NEW v \in Workers, NEW u \in Workers, pc'[v] # "idle", pc'[u] # "idle", v # u
      PROVE  job'[v].token # job'[u].token
  BY <1>5 DEF Advances, Leaves, TokenInv, Numbered
<1>6. \A k \in Keys : adm'[k] # None => adm'[k].token <= attempts
  BY DEF TokenInv, Numbered, Stamped, Stamps
<1>7. \A k \in Keys : idem'[k] # None => idem'[k].token <= attempts
  BY DEF TokenInv, Numbered, Stamped, Stamps
<1>8. \A r \in Runs : run'[r] # None => run'[r].token <= attempts
  BY <1>n DEF TokenInv, Numbered, Stamped, Stamps
<1>9. \A a \in Approvals : use'[a] # None => use'[a].token <= attempts
  BY DEF TokenInv, Numbered, Stamped, Stamps
<1>10. \A b \in begun' : b.token <= attempts
  BY DEF TokenInv, Numbered, Stamped
<1>11. Numbered'
  BY <1>3, <1>4, <1>5, <1>6, <1>7, <1>8, <1>9, <1>10 DEF Numbered
<1>12. ASSUME NEW v \in Workers PROVE Marked(v)'
  <2> DEFINE s == job[v].token
  <2>1. /\ pc'[v] \in UnpreparedPcs => pc[v] \in UnpreparedPcs
        /\ pc'[v] \in UnsentPcs => pc[v] \in UnsentPcs
    BY DEF Advances
  <2>2. "idle" \notin UnpreparedPcs /\ "idle" \notin UnsentPcs /\ UnpreparedPcs \subseteq UnsentPcs
    BY DEF UnpreparedPcs, UnsentPcs, CallPcs, RollPcs, ClaimedPcs, BackPcs
  <2>3. pc'[v] \in UnsentPcs => job'[v].token = s /\ pc[v] # "idle"
    BY <2>1, <2>2 DEF Advances, Leaves
  <2>4. pc[v] # "idle" => s # 0
    BY ItsJob DEF JobOf, Suits, Fits, Tokens
  <2>5. pc[v] # "idle" /\ pc[w] # "idle" /\ v # w => s # t
    BY DEF TokenInv, Numbered
  <2>6. ASSUME pc'[v] \in UnpreparedPcs PROVE Fresh(job[v].token)'
    <3>1. Fresh(s) /\ pc[v] # "idle" /\ s # 0
      BY <2>1, <2>2, <2>3, <2>4, <2>6 DEF TokenInv, Marked
    <3>2. ASSUME NEW old, NEW new, Stamps(w, old, new), new # None, old # None => old.token # s
          PROVE  new.token # s
      BY <2>5, <2>6, <3>1, <3>2 DEF Stamps
    <3>3. \A k \in Keys : adm'[k] # None => adm'[k].token # s
      BY <3>1, <3>2 DEF Fresh, Stamped
    <3>4. \A k \in Keys : idem'[k] # None => idem'[k].token # s
      BY <3>1, <3>2 DEF Fresh, Stamped
    <3>5. \A r \in Runs : run'[r] # None => run'[r].token # s
      BY <3>1, <3>2 DEF Fresh, Stamped
    <3>6. \A a \in Approvals : use'[a] # None => use'[a].token # s
      BY <3>1, <3>2 DEF Fresh, Stamped
    <3>7. job'[v].token = s
      BY <2>2, <2>3, <2>6
    <3> QED BY <3>3, <3>4, <3>5, <3>6, <3>7 DEF Fresh
  <2>7. ASSUME pc'[v] \in UnsentPcs PROVE Unsent(job[v].token)'
    <3>1. Unsent(s) /\ pc[v] # "idle"
      BY <2>1, <2>3, <2>7 DEF TokenInv, Marked
    <3>2. \A b \in begun' : b.token # s
      BY <2>5, <2>7, <3>1 DEF Unsent, Stamped
    <3> QED BY <2>3, <2>7, <3>2 DEF Unsent
  <2> QED BY <2>6, <2>7 DEF Marked
<1> QED BY <1>11, <1>12 DEF TokenInv

LEMMA StepCases ==
    ASSUME NEW w \in Workers, Step(w)
    PROVE  \/ \/ Admit(w) \/ ReadAdmission(w) \/ Replay(w) \/ GoOn(w) \/ Check(w)
              \/ GiveUp(w) \/ NothingSent(w) \/ Compare(w) \/ ListOthers(w) \/ SkipOther(w)
              \/ Refuse(w)
           \/ RollbackAdm(w) \/ Forget(w) \/ DropAdm(w) \/ SettleWriter(w) \/ SettleVerified(w)
           \/ Prepare(w) \/ Start(w)
           \/ RollbackIdem(w) \/ ClaimIdem(w) \/ DropIdem(w) \/ Complete(w)
           \/ RollbackUse(w) \/ Approve(w) \/ DropUse(w)
           \/ \E k \in Keys : RollbackRun(w, k)
           \/ \/ Snapshot(w) \/ Reserve(w) \/ Release(w) \/ RecordRun(w)
              \/ DrySnapshot(w) \/ DryRun(w) \/ ResolveRun(w)
           \/ BeginTransfer(w)
           \/ EndTransfer(w) \/ Stop(w)
           \/ Record(w) \/ DryReceipt(w) \/ Resolve(w) \/ Reconcile(w)
<1>1. CASE Rollback(w)
  BY <1>1 DEF Rollback
<1>2. CASE Replicate(w)
  BY <1>2 DEF Replicate, Unknown
<1>3. CASE GoBack(w)
  BY <1>3 DEF GoBack
<1>4. CASE Verify(w)
  BY <1>4 DEF Verify, Verified
<1>5. CASE \/ Admit(w) \/ Complete(w) \/ SettleWriter(w)
           \/ DrySnapshot(w) \/ DryRun(w) \/ DryReceipt(w) \/ Stop(w)
  BY <1>5
<1> QED BY <1>1, <1>2, <1>3, <1>4, <1>5 DEF Step

LEMMA NothingStamped ==
    ASSUME NEW w PROVE /\ adm' = adm => \A k \in Keys : Stamps(w, adm[k], adm'[k])
                       /\ idem' = idem => \A k \in Keys : Stamps(w, idem[k], idem'[k])
                       /\ use' = use => \A a \in Approvals : Stamps(w, use[a], use'[a])
                       /\ run' = run => \A r \in Runs : Stamps(w, run[r], run'[r])
BY DEF Stamps

(* Where it stands on the way decides what is to be shown of a step.       *)
LEMMA StepAdvances ==
    ASSUME TypeOK, NEW w \in Workers, RollsBack(w), Step(w)
    PROVE  Advances(w) /\ Stamped(w)
<1> USE DEF UnpreparedPcs, UnsentPcs, CallPcs, RollPcs, ClaimedPcs, BackPcs, VerifyPcs
<1>1. CASE \/ Admit(w) \/ ReadAdmission(w) \/ Replay(w) \/ GoOn(w) \/ Check(w)
           \/ GiveUp(w) \/ NothingSent(w) \/ Compare(w) \/ ListOthers(w) \/ SkipOther(w)
           \/ Refuse(w)
  <2>1. Others(w) /\ UNCHANGED <<files, lock, outer>>
    BY <1>1, LocalEffect
  <2>2. Leaves(w) \/ Same(w)
    BY <1>1, LocalEffect DEF Kept
  <2>3. Advances(w)
    BY <1>1, <2>1, <2>2, LocalEffect DEF Advances, Others, Leaves, Same, Kept
  <2> QED BY <2>1, <2>3, NothingStamped DEF Stamped, files, outer
<1>2. CASE RollbackAdm(w) \/ Forget(w) \/ DropAdm(w) \/ SettleWriter(w) \/ SettleVerified(w)
  <2>1. \A k \in Keys : pc[w] = "roll-adm" /\ k \in job[w].todo => job[w].todo = {k}
    BY DEF RollsBack
  <2>2. /\ Others(w) /\ UNCHANGED <<idem, run, use, receipts, remote, attempts, begun>>
        /\ \/ adm' = adm \/ \E k \in Keys : AdmIs(k, None)
    BY <1>2, <2>1, DropEffect
  <2>3. Advances(w)
    BY <1>2, <2>1, <2>2, DropEffect DEF Advances, Others, Leaves, Same, Kept, Drops
  <2>4. \A k \in Keys : Stamps(w, adm[k], adm'[k])
    BY <2>2 DEF Stamps, AdmIs
  <2> QED BY <2>2, <2>3, <2>4, NothingStamped DEF Stamped
<1>3. CASE Prepare(w) \/ Start(w)
  <2> DEFINE k == job[w].key
  <2>1. /\ Others(w) /\ UNCHANGED <<idem, run, use, receipts, lock, outer>>
        /\ AdmIs(k, adm'[k]) /\ adm'[k].token = job[w].token
        /\ Kept(w) /\ pc[w] # "idle" /\ pc'[w] \in {"claim", "execute"}
        /\ pc[w] \in UnsentPcs
    BY <1>3, ClaimEffect
  <2>2. Advances(w)
    BY <2>1 DEF Advances, Others, Same, Kept
  <2>3. \A m \in Keys : Stamps(w, adm[m], adm'[m])
    BY <2>1 DEF Stamps, AdmIs
  <2> QED BY <2>1, <2>2, <2>3, NothingStamped DEF Stamped, outer
<1>4. CASE RollbackIdem(w) \/ ClaimIdem(w) \/ DropIdem(w) \/ Complete(w)
  <2>1. /\ Others(w) /\ UNCHANGED <<adm, run, use, receipts, lock, outer>> /\ Kept(w)
    BY <1>4, IdemEffect
  <2>2. Advances(w)
    BY <1>4, <2>1, IdemEffect DEF Advances, Others, Same, Kept
  <2>3. \A m \in Keys : Stamps(w, idem[m], idem'[m])
    BY <1>4, IdemEffect DEF Stamps, IdemIs
  <2> QED BY <2>1, <2>2, <2>3, NothingStamped DEF Stamped, outer
<1>5. CASE RollbackUse(w) \/ Approve(w) \/ DropUse(w)
  <2>1. /\ Others(w) /\ UNCHANGED <<adm, idem, run, receipts, lock, outer>> /\ Kept(w)
    BY <1>5, UseEffect
  <2>2. Advances(w)
    BY <1>5, <2>1, UseEffect DEF Advances, Others, Same, Kept
  <2>3. \A a \in Approvals : Stamps(w, use[a], use'[a])
    BY <1>5, UseEffect DEF Stamps, UseIs
  <2> QED BY <2>1, <2>2, <2>3, NothingStamped DEF Stamped, outer
<1>6. CASE \E k \in Keys : RollbackRun(w, k)
  <2>1. PICK k \in Keys : RollbackRun(w, k)
    BY <1>6
  <2>2. Advances(w)
    BY <2>1, RollbackMoves DEF Advances
  <2>3. /\ UNCHANGED <<adm, idem, use, receipts, outer>>
        /\ \A r \in Runs : Stamps(w, run[r], run'[r]) \/ run'[r].token = 0
    BY <2>1, RollbackEffect DEF RunIs, Stamps
  <2> QED BY <2>2, <2>3, NothingStamped DEF Stamped, outer
<1>7. CASE \/ Snapshot(w) \/ Reserve(w) \/ Release(w) \/ RecordRun(w)
           \/ DrySnapshot(w) \/ DryRun(w) \/ ResolveRun(w)
  <2>1. Others(w) /\ UNCHANGED <<adm, idem, use, receipts, outer>>
    BY <1>7, RunEffect
  <2>2. CASE run' = run
    <3>1. Advances(w)
      <4>1. \/ Leaves(w)
            \/ pc[w] = "snapshot" /\ pc'[w] = "check" /\ Same(w)
            \/ pc[w] = "dry-snapshot" /\ pc'[w] = "dry-run" /\ Same(w)
            \/ \E r \in Runs : Writes(w, r)
        BY <1>7, RunEffect
      <4> QED BY <2>1, <4>1 DEF Advances, Others, Leaves, Same, Kept, Writes
    <3> QED BY <2>1, <2>2, <3>1, NothingStamped DEF Stamped, outer
  <2>3. CASE run' # run
    <3>1. PICK r \in Runs : Writes(w, r)
      BY <1>7, <2>3, RunEffect
    <3>2. Advances(w)
      BY <2>1, <3>1 DEF Advances, Others, Leaves, Same, Kept, Writes
    <3>3. \A q \in Runs : Stamps(w, run[q], run'[q]) \/ run'[q].token = 0
      BY <3>1 DEF Writes, RunIs, Stamps
    <3> QED BY <2>1, <3>2, <3>3, NothingStamped DEF Stamped, outer
  <2> QED BY <2>2, <2>3
<1>8. CASE BeginTransfer(w)
  <2>1. Advances(w)
    BY <1>8, BeginEffect DEF Advances, Others, Same, Kept
  <2>2. /\ UNCHANGED <<files, lock, attempts, answered>>
        /\ \A b \in begun' : b \in begun \/ b.token = job[w].token
        /\ pc[w] # "idle" /\ pc'[w] \notin UnsentPcs
    BY <1>8, BeginEffect
  <2> QED BY <2>1, <2>2, NothingStamped DEF Stamped, files
<1>9. CASE EndTransfer(w) \/ Stop(w)
  <2>1. Advances(w)
    BY <1>9, EndEffect DEF Advances, Others, Same, Kept, Leaves
  <2>2. UNCHANGED <<files, attempts, begun, answered>>
    BY <1>9, EndEffect
  <2> QED BY <2>1, <2>2, NothingStamped DEF Stamped, files
<1>10. CASE Record(w) \/ DryReceipt(w) \/ Resolve(w) \/ Reconcile(w)
  <2>1. Advances(w)
    BY <1>10, ReceiptEffect DEF Advances, Others, Same, Kept, Leaves
  <2>2. UNCHANGED <<adm, idem, run, use, outer>>
    BY <1>10, ReceiptEffect
  <2> QED BY <2>1, <2>2, NothingStamped DEF Stamped, outer
<1> QED BY <1>1, <1>2, <1>3, <1>4, <1>5, <1>6, <1>7, <1>8, <1>9, <1>10, StepCases

LEMMA CallTokens ==
    ASSUME TypeOK, TokenInv, NEW w \in Workers, NEW q \in Requests, Call(w, q)
    PROVE  TokenInv'
<1> DEFINE n == attempts + 1
<1>1. /\ Others(w) /\ UNCHANGED <<files, lock, remote, begun, answered>>
      /\ pc[w] = "idle" /\ pc'[w] = "enter" /\ attempts' = n /\ job'[w].token = n
  BY CallEffect
<1>2. /\ attempts \in Nat /\ \A b \in begun : b.token \in Nat
      /\ \A v \in Workers : job[v].token \in Nat
  <2>1. attempts \in 0..MaxAttempts /\ MaxAttempts \in Nat /\ begun \subseteq Transfer
    BY BrokerAssumption DEF TypeOK, OuterOK
  <2>2. \A v \in Workers : job[v].token \in 0..MaxAttempts
    BY ItsJob DEF JobOf, Job
  <2> QED BY <2>1, <2>2 DEF Transfer, Tokens
<1>3. \A k \in Keys : /\ adm[k] # None => adm[k].token \in Nat
                      /\ idem[k] # None => idem[k].token \in Nat
  BY ItsJob, BrokerAssumption DEF FileOf, AdmissionFile, IdemFile, Tokens
<1>4. /\ \A r \in Runs : run[r] # None => run[r].token \in Nat
      /\ \A a \in Approvals : use[a] # None => use[a].token \in Nat
  BY ItsJob, BrokerAssumption DEF FileOf, RunFile, UseFile, Tokens
<1>5. /\ \A v \in Workers : job'[v].token = IF v = w THEN n ELSE job[v].token
      /\ \A v \in Workers : pc'[v] = IF v = w THEN "enter" ELSE pc[v]
  BY <1>1 DEF Others
<1>6. Numbered'
  BY <1>1, <1>2, <1>3, <1>4, <1>5 DEF Numbered, TokenInv, files
<1>7. Fresh(job[w].token)' /\ Unsent(job[w].token)'
  BY <1>1, <1>2, <1>3, <1>4 DEF Numbered, TokenInv, Fresh, Unsent, files
<1>8. ASSUME NEW v \in Workers, v # w PROVE Marked(v)'
  <2>1. Marked(v) /\ pc'[v] = pc[v] /\ job'[v].token = job[v].token
    BY <1>5, <1>8 DEF TokenInv
  <2>2. pc'[v] \in UnpreparedPcs => Fresh(job[v].token)'
    BY <2>1, <1>1 DEF Marked, Fresh, files
  <2>3. pc'[v] \in UnsentPcs => Unsent(job[v].token)'
    BY <2>1, <1>1 DEF Marked, Unsent
  <2> QED BY <2>2, <2>3 DEF Marked
<1>9. Marked(w)'
  BY <1>7 DEF Marked
<1> QED BY <1>6, <1>8, <1>9 DEF TokenInv

LEMMA TokenStep ==
    ASSUME TypeOK, TypeOK', TokenInv, LockInv, [Next]_vars PROVE TokenInv'
<1>1. CASE UNCHANGED vars
  BY <1>1 DEF vars, TokenInv, Numbered, Marked, Fresh, Unsent
<1>2. CASE Next
  <2>1. PICK w \in Workers : Step(w) \/ \E q \in Requests : Call(w, q)
    BY <1>2 DEF Next
  <2>2. CASE Step(w)
    BY <2>2, StepAdvances, TokenKept DEF LockInv
  <2>3. CASE \E q \in Requests : Call(w, q)
    BY <2>3, CallTokens
  <2> QED BY <2>1, <2>2, <2>3
<1> QED BY <1>1, <1>2

-----------------------------------------------------------------------------
(* The lock: while one has it nobody else touches an admission.            *)
LEMMA LockKept ==
    ASSUME TypeOK, LockInv, NEW w \in Workers, Others(w),
           \/ Leaves(w)
           \/ job'[w].token = job[w].token /\ (job[w].late => job'[w].late),
           \A v \in Workers \ {w} : lock = v => lock' = v /\ adm' = adm,
           RollsBack(w)', Resolves(w)'
    PROVE  LockInv'
<1>1. ASSUME NEW v \in Workers, v # w PROVE RollsBack(v)' /\ Resolves(v)'
  <2>1. pc'[v] = pc[v] /\ job'[v] = job[v] /\ RollsBack(v) /\ Resolves(v)
    BY <1>1 DEF Others, LockInv
  <2>2. Resolves(v)'
    BY <2>1, <1>1 DEF Resolves
  <2>3. ASSUME pc'[v] \in RollPcs PROVE RollsBack(v)'
    <3>1. PICK k \in Keys : /\ job[v].todo = {k} /\ lock = v
                            /\ adm[k] # None /\ adm[k].st = "prepared"
                            /\ \A u \in Workers : job[u].token = adm[k].token => job[u].late
      BY <2>1, <2>3 DEF RollsBack
    <3>2. lock' = v /\ adm' = adm
      BY <1>1, <3>1
    <3>3. adm[k].token # 0
      BY <3>1, ItsJob DEF FileOf, AdmissionFile, Tokens
    <3>4. ASSUME NEW u \in Workers, job'[u].token = adm[k].token PROVE job'[u].late
      <4>1. CASE u = w
        <5>1. NoJob.token = 0
          BY DEF NoJob
        <5> QED BY <3>1, <3>3, <3>4, <4>1, <5>1 DEF Leaves
      <4>2. CASE u # w
        BY <3>1, <3>4, <4>2 DEF Others
      <4> QED BY <4>1, <4>2
    <3> QED BY <2>1, <3>1, <3>2, <3>4 DEF RollsBack
  <2>4. RollsBack(v)'
    BY <2>3 DEF RollsBack
  <2> QED BY <2>2, <2>4
<1> QED BY <1>1 DEF LockInv

LEMMA LockSteps ==
    ASSUME ClocksAgree, TypeOK, LockInv, NEW w \in Workers, Step(w) PROVE LockInv'
<1> USE DEF RollPcs, VerifyPcs, ClaimedPcs
<1>0. RollsBack(w) /\ Resolves(w) /\ NoWorker \notin Workers
  BY BrokerAssumption DEF LockInv
<1>free. ASSUME pc'[w] \notin RollPcs \cup {"resolve-run"} PROVE RollsBack(w)' /\ Resolves(w)'
  BY <1>free DEF RollsBack, Resolves
<1>1. CASE \/ Admit(w) \/ ReadAdmission(w) \/ Replay(w) \/ GoOn(w) \/ Check(w)
           \/ GiveUp(w) \/ NothingSent(w) \/ Compare(w) \/ ListOthers(w) \/ SkipOther(w)
           \/ Refuse(w)
  <2>1. /\ Others(w) /\ UNCHANGED <<files, lock, outer>>
        /\ Leaves(w) \/ Same(w)
        /\ pc'[w] \notin RollPcs \cup {"resolve-run"}
    BY <1>1, LocalEffect DEF Kept, Leaves
  <2> QED BY <2>1, <1>free, LockKept DEF files, Same
<1>2. CASE RollbackAdm(w) \/ Forget(w) \/ DropAdm(w) \/ SettleWriter(w) \/ SettleVerified(w)
  <2>1. \A k \in Keys : pc[w] = "roll-adm" /\ k \in job[w].todo => job[w].todo = {k}
    BY <1>0 DEF RollsBack
  <2>2. /\ Others(w) /\ (Leaves(w) \/ Same(w))
        /\ pc'[w] \notin RollPcs \cup {"resolve-run"}
        /\ lock \in {NoWorker, w}
    BY <1>0, <1>2, <2>1, DropEffect DEF Kept, Leaves, Drops, RollsBack
  <2> QED BY <2>2, <1>0, <1>free, LockKept DEF Same
<1>3. CASE Prepare(w) \/ Start(w)
  <2>1. Others(w) /\ Same(w) /\ lock = NoWorker /\ pc'[w] \notin RollPcs \cup {"resolve-run"}
    BY <1>3, ClaimEffect DEF Kept
  <2> QED BY <2>1, <1>0, <1>free, LockKept DEF Same
<1>4. CASE RollbackIdem(w) \/ RollbackUse(w)
  <2>1. Others(w) /\ Same(w) /\ lock' = lock /\ adm' = adm
    BY <1>0, <1>4, IdemEffect, UseEffect DEF Kept
  <2>2. pc[w] \in RollPcs /\ pc'[w] \in RollPcs /\ job' = job
    BY <1>4, Went DEF RollbackIdem, RollbackUse, At
  <2>3. RollsBack(w)' /\ Resolves(w)'
    BY <2>1, <2>2, <1>0 DEF RollsBack, Resolves
  <2> QED BY <2>1, <2>3, LockKept DEF Same
<1>5. CASE ClaimIdem(w) \/ DropIdem(w) \/ Complete(w) \/ Approve(w) \/ DropUse(w)
  <2>1. Others(w) /\ Same(w) /\ lock' = lock /\ adm' = adm
    BY <1>0, <1>5, IdemEffect, UseEffect DEF Kept
  <2>2. pc'[w] \notin RollPcs \cup {"resolve-run"}
    BY <1>5, Went DEF ClaimIdem, DropIdem, Complete, Approve, DropUse
  <2> QED BY <2>1, <2>2, <1>free, LockKept DEF Same
<1>6. CASE \E k \in Keys : RollbackRun(w, k)
  <2>1. PICK k \in Keys : RollbackRun(w, k)
    BY <1>6
  <2>e. lock = NoWorker /\ lock' = w /\ adm' = adm /\ adm[k] # None /\ adm[k].st = "prepared"
    BY <2>1, RollbackEffect
  <2>2. /\ pc'[w] = "roll-idem" /\ job'[w].todo = {k}
        /\ \A v \in Workers \ {w} : pc'[v] = pc[v]
        /\ \A v \in Workers : job'[v].token = job[v].token
    BY <2>1, RollbackMoves
  <2>l. \A v \in Workers : Expires(v, k) => job'[v].late
    <3>1. \A v \in Workers : job'[v].late = (job[v].late \/ Expires(v, k))
      BY <2>1, RollbackMoves
    <3> QED BY <3>1, Zenon
  <2>3. \A v \in Workers : job'[v].token = adm[k].token => job'[v].late
    BY <2>e, <2>2, <2>l DEF Expires
  <2>4. RollsBack(w)' /\ Resolves(w)'
    BY <2>e, <2>2, <2>3 DEF RollsBack, Resolves
  <2>5. ASSUME NEW v \in Workers, v # w PROVE RollsBack(v)' /\ Resolves(v)'
    BY <2>e, <2>2, <2>5, <1>0 DEF LockInv, RollsBack, Resolves
  <2> QED BY <2>4, <2>5 DEF LockInv
<1>7. CASE \/ Snapshot(w) \/ Reserve(w) \/ Release(w) \/ RecordRun(w)
           \/ DrySnapshot(w) \/ DryRun(w) \/ ResolveRun(w)
  <2>1. /\ Others(w) /\ (lock = NoWorker \/ (lock = w /\ lock' = NoWorker))
    BY <1>0, <1>7, RunEffect DEF Resolves
  <2>2. /\ Leaves(w) \/ Same(w)
        /\ pc'[w] \notin RollPcs \cup {"resolve-run"}
    <3>1. \/ Leaves(w)
          \/ pc'[w] \in {"check", "dry-run"} /\ Same(w)
          \/ \E r \in Runs : Writes(w, r)
      BY <1>7, RunEffect
    <3> QED BY <3>1 DEF Writes, Kept, Leaves
  <2> QED BY <2>1, <2>2, <1>0, <1>free, LockKept DEF Same
<1>8. CASE BeginTransfer(w)
  <2>1. /\ Others(w) /\ Same(w) /\ UNCHANGED <<files, lock>>
        /\ pc'[w] \notin RollPcs \cup {"resolve-run"}
    BY <1>8, BeginEffect DEF Kept
  <2> QED BY <2>1, <1>free, LockKept DEF Same, files
<1>9. CASE EndTransfer(w) \/ Stop(w)
  <2>1. /\ Others(w) /\ (Leaves(w) \/ Same(w)) /\ UNCHANGED files
        /\ pc'[w] \notin RollPcs \cup {"resolve-run"}
        /\ lock' = lock \/ lock = w
    BY <1>9, EndEffect DEF Kept, Leaves
  <2> QED BY <2>1, <1>free, LockKept DEF Same, files
<1>10. CASE Record(w) \/ DryReceipt(w) \/ Resolve(w) \/ Reconcile(w)
  <2>1. /\ Others(w) /\ UNCHANGED <<adm, idem, run, use, outer>>
        /\ lock' = IF pc[w] = "resolve" THEN w ELSE lock
        /\ pc[w] = "resolve" => lock = NoWorker
        /\ \/ Leaves(w)
           \/ job'[w].token = job[w].token /\ (job[w].late => job'[w].late)
        /\ pc'[w] \notin RollPcs
        /\ pc'[w] = "resolve-run" => pc[w] = "resolve"
    BY <1>10, ReceiptEffect DEF Kept, Same, Leaves
  <2>2. RollsBack(w)' /\ Resolves(w)'
    BY <2>1 DEF RollsBack, Resolves
  <2> QED BY <2>1, <2>2, <1>0, LockKept
<1> QED BY <1>1, <1>2, <1>3, <1>4, <1>5, <1>6, <1>7, <1>8, <1>9, <1>10, StepCases

LEMMA LockStep ==
    ASSUME ClocksAgree, TypeOK, TokenInv, LockInv, [Next]_vars PROVE LockInv'
<1>1. CASE UNCHANGED vars
  BY <1>1 DEF vars, LockInv, RollsBack, Resolves
<1>2. CASE Next
  <2>1. PICK w \in Workers : Step(w) \/ \E q \in Requests : Call(w, q)
    BY <1>2 DEF Next
  <2>2. CASE \E q \in Requests : Call(w, q)
    <3>1. PICK q \in Requests : Call(w, q)
      BY <2>2
    <3>2. /\ Others(w) /\ UNCHANGED <<files, lock>> /\ pc'[w] = "enter"
          /\ job'[w].token = attempts + 1
      BY <3>1, CallEffect
    <3>3. attempts \in Nat
      BY BrokerAssumption DEF TypeOK, OuterOK
    <3>4. \A k \in Keys : adm[k] # None => adm[k].token # job'[w].token
      <4>1. \A k \in Keys : adm[k] # None => adm[k].token <= attempts /\ adm[k].token \in Nat
        BY ItsJob DEF FileOf, AdmissionFile, Tokens, TokenInv, Numbered
      <4> QED BY <3>2, <3>3, <4>1
    <3>5. ASSUME NEW v \in Workers, v # w PROVE RollsBack(v)'
      <4>1. pc'[v] = pc[v] /\ job'[v] = job[v] /\ RollsBack(v)
        BY <3>2, <3>5 DEF Others, LockInv
      <4> QED BY <3>2, <3>4, <4>1 DEF RollsBack, Others, files
    <3>6. \A v \in Workers : Resolves(v)'
      BY <3>2 DEF LockInv, Resolves, Others
    <3>7. RollsBack(w)'
      BY <3>2 DEF RollsBack, RollPcs
    <3> QED BY <3>5, <3>6, <3>7 DEF LockInv
  <2> QED BY <2>1, <2>2, LockSteps
<1> QED BY <1>1, <1>2

-----------------------------------------------------------------------------
(* Claims.  Below, v is another request that relies on the file that w     *)
(* changes, and b a transfer.                                              *)
Claiming == ClaimedPcs \cup BackPcs
Quiet(w) == pc'[w] \notin Claiming \cup SentPcs

LEMMA ItsClaim ==
    ASSUME TypeOK, NEW v \in Workers, pc[v] \in Claiming \cup SentPcs
    PROVE  /\ job[v].key \in Keys /\ job[v].run \in Runs /\ run[job[v].run] # None
           /\ job[v].token \in Tokens /\ job[v].approval \in Approvals \cup {NoApproval}
           /\ pc[v] # "idle"
BY ItsJob DEF JobOf, Suits, Fits, Known, Job, Claiming, ClaimedPcs, BackPcs, SentPcs,
   ReplicatePcs, RanPcs, TriedPcs

LEMMA ItsTransfer ==
    ASSUME TypeOK, NEW b \in begun
    PROVE  /\ b.run \in Runs /\ b.key \in Keys /\ b.token \in Tokens
           /\ b.approval \in Approvals \cup {NoApproval}
BY DEF TypeOK, OuterOK, Transfer

LEMMA QuietClaims ==
    ASSUME NEW w \in Workers, Quiet(w)
    PROVE  Mine(w)' /\ Holds(w)' /\ Started(w)' /\ Sends(w)'
BY DEF Quiet, Claiming, ClaimedPcs, Mine, Holds, Started, Sends

(* Two requests on their way with one key cannot both be its owner, and    *)
(* the owner shares the idempotency record with nobody.                    *)
LEMMA SoleOwner ==
    ASSUME TokenInv, NEW v \in Workers, NEW w \in Workers, pc[v] # "idle", pc[w] # "idle",
           job[v].key = job[w].key, Owns(v), Owns(w)
    PROVE  v = w
BY DEF Owns, TokenInv, Numbered

LEMMA SoleHolder ==
    ASSUME TypeOK, TokenInv, ClaimInv, NEW v \in Workers, NEW w \in Workers,
           pc[v] # "idle", pc[w] \in Claiming, job[v].key = job[w].key, KeyHeld(v), Owns(w)
    PROVE  v = w
<1>1. Mine(w) /\ pc[w] # "idle"
  BY ItsClaim DEF ClaimInv
<1> QED BY <1>1 DEF Mine, Claiming, KeyHeld, TokenInv, Numbered

(* Where one has sent, nobody else who is on the way owns the key.         *)
LEMMA KeyIsSpent ==
    ASSUME TypeOK, TokenInv, ClaimInv, NEW b \in begun, NEW w \in Workers,
           pc[w] \in Claiming, job[w].key = b.key
    PROVE  ~Owns(w) /\ b.token # job[w].token /\ ~KeyHeld(w)
<1>1. KeySpent(b) /\ Mine(w)
  BY DEF ClaimInv
<1>2. b.token # job[w].token
  BY DEF TokenInv, Marked, UnsentPcs, Unsent, Claiming
<1> QED BY <1>1, <1>2 DEF KeySpent, Mine, KeyHeld, Claiming

LEMMA ClaimsKept ==
    ASSUME ClaimInv, NEW w \in Workers, Others(w), UNCHANGED <<adm, idem, run, use, begun>>,
           \/ Quiet(w)
           \/ Kept(w) /\ pc[w] \in Claiming /\ pc'[w] \in BackPcs
           \/ Kept(w) /\ pc[w] \in SentPcs /\ pc'[w] \in SentPcs
    PROVE  ClaimInv'
<1>1. ASSUME NEW v \in Workers, v # w
      PROVE  Mine(v)' /\ Holds(v)' /\ Started(v)' /\ Sends(v)'
  <2>1. /\ Mine(v) /\ Holds(v) /\ Started(v) /\ Sends(v)
        /\ pc'[v] = pc[v] /\ job'[v] = job[v]
    BY <1>1 DEF ClaimInv, Others
  <2> QED BY <2>1 DEF Mine, Holds, Started, Sends, Owns, KeyHeld, UseHeld, RunHeld
<1>2. Mine(w)' /\ Holds(w)' /\ Started(w)' /\ Sends(w)'
  <2>1. Mine(w) /\ Sends(w)
    BY DEF ClaimInv
  <2>2. CASE Kept(w) /\ pc[w] \in Claiming /\ pc'[w] \in BackPcs
    BY <2>1, <2>2 DEF Kept, Same, Mine, Holds, Started, Sends, Owns, Claiming, BackPcs, SentPcs
  <2>3. CASE Kept(w) /\ pc[w] \in SentPcs /\ pc'[w] \in SentPcs
    BY <2>1, <2>3 DEF Kept, Same, Mine, Holds, Started, Sends, ClaimedPcs, BackPcs, SentPcs
  <2> QED BY <2>2, <2>3, QuietClaims
<1>3. \A b \in begun' : RunSpent(b)' /\ KeySpent(b)' /\ UseSpent(b)'
  BY DEF ClaimInv, RunSpent, KeySpent, UseSpent
<1> QED BY <1>1, <1>2, <1>3 DEF ClaimInv

LEMMA ClaimDrop ==
    ASSUME TypeOK, TokenInv, LockInv, ClaimInv, RemoteInv, NEW w \in Workers, NEW k \in Keys,
           Others(w), UNCHANGED <<idem, run, use, begun>>, AdmIs(k, None), Drops(w, k)
    PROVE  ClaimInv'
<1>1. Quiet(w)
  BY DEF Drops, Quiet, Leaves, Claiming, ClaimedPcs, BackPcs, SentPcs
<1>2. pc[w] \in {"forget", "settle"} => idem[k] # None /\ idem[k].st = "completed"
  BY DEF Drops, RemoteInv, Answers
<1>3. pc[w] = "roll-adm" => adm[k] # None /\ adm[k].st = "prepared"
  BY DEF Drops, LockInv, RollsBack, RollPcs
<1>4. pc[w] = "drop-adm" => Owns(w) /\ job[w].key = k /\ pc[w] \in Claiming
  BY DEF Drops, Claiming, BackPcs
<1>5. pc[w] \in {"forget", "settle", "roll-adm", "drop-adm"}
  BY DEF Drops
<1>6. ASSUME NEW v \in Workers, v # w
      PROVE  Mine(v)' /\ Holds(v)' /\ Started(v)' /\ Sends(v)'
  <2>1. /\ Mine(v) /\ Holds(v) /\ Started(v) /\ Sends(v)
        /\ pc'[v] = pc[v] /\ job'[v] = job[v]
    BY <1>6 DEF ClaimInv, Others
  <2>2. pc[v] \in Claiming => job[v].key \in Keys
    BY ItsClaim
  <2>3. pc[v] \in Claiming /\ Owns(v)' => Owns(v) /\ job[v].key # k
    BY <2>1, <2>2 DEF Owns, AdmIs
  <2>4. Mine(v)' /\ Started(v)' /\ Sends(v)'
    BY <2>1, <2>2, <2>3 DEF Mine, Started, Sends, Claiming, ClaimedPcs, AdmIs
  <2>5. /\ KeyHeld(v) => KeyHeld(v)'
        /\ RunHeld(v) => RunHeld(v)'
        /\ pc[v] \in Claiming /\ UseHeld(v) => UseHeld(v)'
    BY <2>1, <2>2 DEF KeyHeld, UseHeld, RunHeld, AdmIs
  <2>6. ASSUME pc[v] = "execute", ~job[v].late, idem[job[v].key].st = "in-progress"
        PROVE  Owns(v)'
    <3>1. KeyHeld(v) /\ Owns(v) /\ pc[v] # "idle" /\ pc[v] \in Claiming
      BY <2>1, <2>6 DEF Holds, Claiming, ClaimedPcs
    <3>2. job[v].key # k
      <4>1. CASE pc[w] = "roll-adm"
        BY <2>1, <2>6, <3>1, <4>1, <1>3 DEF Started
      <4>2. CASE pc[w] \in {"forget", "settle"}
        BY <2>6, <4>2, <1>2
      <4>3. CASE pc[w] = "drop-adm"
        BY <3>1, <4>3, <1>4, <1>6, SoleHolder
      <4> QED BY <4>1, <4>2, <4>3, <1>5
    <3> QED BY <2>1, <2>2, <3>1, <3>2 DEF Owns, AdmIs
  <2>7. Holds(v)'
    BY <2>1, <2>3, <2>5, <2>6 DEF Holds, Claiming, ClaimedPcs
  <2> QED BY <2>4, <2>7
<1>7. ASSUME NEW b \in begun PROVE RunSpent(b)' /\ KeySpent(b)' /\ UseSpent(b)'
  <2>1. b.key \in Keys /\ RunSpent(b) /\ KeySpent(b) /\ UseSpent(b)
    BY ItsTransfer DEF ClaimInv
  <2>2. b.key = k => idem[k].st # "in-progress"
    <3>1. CASE pc[w] = "roll-adm"
      BY <2>1, <3>1, <1>3 DEF KeySpent
    <3>2. CASE pc[w] \in {"forget", "settle"}
      BY <3>2, <1>2
    <3>3. CASE pc[w] = "drop-adm"
      BY <3>3, <1>4, KeyIsSpent
    <3> QED BY <3>1, <3>2, <3>3, <1>5
  <2> QED BY <2>1, <2>2 DEF RunSpent, KeySpent, UseSpent, AdmIs
<1> QED BY <1>1, <1>6, <1>7, QuietClaims DEF ClaimInv

LEMMA ClaimPrepare ==
    ASSUME TypeOK, TokenInv, ClaimInv, NEW w \in Workers, Prepare(w) PROVE ClaimInv'
<1> DEFINE k == job[w].key
           t == job[w].token
<1>1. pc[w] = "prepare" /\ Go(w, "claim")
  BY DEF Prepare, Locked, At
<1>2. /\ Others(w) /\ UNCHANGED <<idem, run, use, begun>> /\ pc'[w] = "claim"
      /\ k \in Keys /\ adm'[k] # None /\ AdmIs(k, adm'[k]) /\ adm'[k].token = t
      /\ adm'[k].st = "prepared"
      /\ adm[k] # None => adm[k].st = "prepared"
  BY <1>1, ClaimEffect, Went DEF outer
<1>3. Fresh(t) /\ Unsent(t) /\ Quiet(w)
  BY <1>1, <1>2 DEF TokenInv, Marked, UnpreparedPcs, UnsentPcs, Quiet, Claiming, ClaimedPcs,
     BackPcs, SentPcs
<1>4. ASSUME NEW v \in Workers, v # w
      PROVE  Mine(v)' /\ Holds(v)' /\ Started(v)' /\ Sends(v)'
  <2>1. /\ Mine(v) /\ Holds(v) /\ Started(v) /\ Sends(v)
        /\ pc'[v] = pc[v] /\ job'[v] = job[v]
    BY <1>2, <1>4 DEF ClaimInv, Others
  <2>2. pc[v] \in Claiming => /\ job[v].key \in Keys /\ job[v].token # t
                              /\ job[v].approval \in Approvals \cup {NoApproval}
    BY <1>1, <1>4, ItsClaim DEF TokenInv, Numbered
  <2>3. pc[v] \in Claiming /\ Owns(v)' => Owns(v) /\ job[v].key # k
    BY <1>2, <2>1, <2>2 DEF Owns, AdmIs
  <2>4. Mine(v)' /\ Started(v)' /\ Sends(v)'
    BY <1>2, <2>1, <2>2, <2>3 DEF Mine, Started, Sends, Claiming, ClaimedPcs, AdmIs
  <2>5. /\ KeyHeld(v) => KeyHeld(v)'
        /\ RunHeld(v) => RunHeld(v)'
        /\ pc[v] \in Claiming /\ UseHeld(v) => UseHeld(v)'
    BY <1>2, <1>3, <2>1, <2>2 DEF KeyHeld, UseHeld, RunHeld, AdmIs, Fresh
  <2>6. ASSUME pc[v] = "execute", ~job[v].late, idem[job[v].key].st = "in-progress"
        PROVE  Owns(v)'
    <3>1. Owns(v) /\ pc[v] \in Claiming
      BY <2>1, <2>6 DEF Holds, Claiming, ClaimedPcs
    <3>2. job[v].key # k
      BY <1>2, <2>1, <2>6, <3>1 DEF Started, Owns
    <3> QED BY <1>2, <2>1, <2>2, <3>1, <3>2 DEF Owns, AdmIs
  <2>7. Holds(v)'
    BY <1>2, <2>1, <2>3, <2>5, <2>6 DEF Holds, Claiming, ClaimedPcs
  <2> QED BY <2>4, <2>7
<1>5. ASSUME NEW b \in begun PROVE RunSpent(b)' /\ KeySpent(b)' /\ UseSpent(b)'
  <2>1. /\ b.key \in Keys /\ b.token # t /\ b.approval \in Approvals \cup {NoApproval}
        /\ RunSpent(b) /\ KeySpent(b) /\ UseSpent(b)
    BY <1>3, ItsTransfer DEF ClaimInv, Unsent
  <2>2. b.key = k => idem[k].st # "in-progress"
    BY <1>2, <2>1 DEF KeySpent
  <2>3. KeySpent(b)'
    BY <1>2, <2>1, <2>2 DEF KeySpent, AdmIs
  <2>4. UseSpent(b)'
    BY <1>2, <1>3, <2>1 DEF UseSpent, AdmIs, Fresh
  <2> QED BY <1>2, <2>1, <2>3, <2>4 DEF RunSpent
<1> QED BY <1>2, <1>3, <1>4, <1>5, QuietClaims DEF ClaimInv

LEMMA ClaimStart ==
    ASSUME TypeOK, TokenInv, ClaimInv, NEW w \in Workers, Start(w) PROVE ClaimInv'
<1> DEFINE k == job[w].key
<1>1. pc[w] = "start" /\ Go(w, "execute") /\ job' = job
  BY DEF Start, Locked, At
<1>2. /\ Others(w) /\ UNCHANGED <<idem, run, use, begun>> /\ pc'[w] = "execute"
      /\ k \in Keys /\ adm'[k] # None /\ AdmIs(k, adm'[k]) /\ adm'[k].token = adm[k].token
      /\ adm'[k].st = "started" /\ adm[k] # None /\ Owns(w) /\ job'[w] = job[w]
  BY <1>1, ClaimEffect, Went DEF outer, OwnsPrepared, Owns
<1>3. ASSUME NEW v \in Workers, pc[v] \in Claiming
      PROVE  /\ job'[v] = job[v] => (Owns(v)' <=> Owns(v))
             /\ job'[v] = job[v] /\ KeyHeld(v) => KeyHeld(v)'
             /\ job'[v] = job[v] /\ RunHeld(v) => RunHeld(v)'
             /\ job'[v] = job[v] /\ UseHeld(v) => UseHeld(v)'
  <2>1. job[v].key \in Keys
    BY <1>3, ItsClaim
  <2>2. job'[v] = job[v] => (Owns(v)' <=> Owns(v))
    BY <1>2, <2>1 DEF Owns, AdmIs
  <2>3. job'[v] = job[v] /\ UseHeld(v) => UseHeld(v)'
    BY <1>2, <2>1 DEF UseHeld, AdmIs
  <2> QED BY <1>2, <2>1, <2>2, <2>3 DEF KeyHeld, RunHeld
<1>4. ASSUME NEW v \in Workers, v # w
      PROVE  Mine(v)' /\ Holds(v)' /\ Started(v)' /\ Sends(v)'
  <2>1. /\ Mine(v) /\ Holds(v) /\ Started(v) /\ Sends(v)
        /\ pc'[v] = pc[v] /\ job'[v] = job[v]
    BY <1>2, <1>4 DEF ClaimInv, Others
  <2>2. pc[v] \in Claiming => job[v].key \in Keys
    BY ItsClaim
  <2>3. Mine(v)' /\ Sends(v)'
    BY <1>2, <1>3, <2>1 DEF Mine, Sends, Claiming
  <2>4. Started(v)'
    BY <1>2, <1>3, <2>1, <2>2 DEF Started, Claiming, ClaimedPcs, AdmIs
  <2>5. Holds(v)'
    BY <1>2, <1>3, <2>1 DEF Holds, Claiming, ClaimedPcs
  <2> QED BY <2>3, <2>4, <2>5
<1>5. Mine(w)' /\ Holds(w)' /\ Started(w)' /\ Sends(w)'
  <2>1. Mine(w) /\ Holds(w) /\ pc[w] \in Claiming
    BY <1>1 DEF ClaimInv, Claiming, ClaimedPcs
  <2>2. Owns(w)'
    BY <1>2, <1>3, <2>1
  <2>3. Mine(w)' /\ Started(w)' /\ Sends(w)'
    BY <1>1, <1>2, <2>1 DEF Mine, Started, Sends, ClaimedPcs, SentPcs
  <2>4. Holds(w)'
    BY <1>1, <1>2, <1>3, <2>1, <2>2 DEF Holds
  <2> QED BY <2>3, <2>4
<1>6. ASSUME NEW b \in begun PROVE RunSpent(b)' /\ KeySpent(b)' /\ UseSpent(b)'
  <2>1. b.key \in Keys /\ RunSpent(b) /\ KeySpent(b) /\ UseSpent(b)
    BY ItsTransfer DEF ClaimInv
  <2> QED BY <1>2, <2>1 DEF RunSpent, KeySpent, UseSpent, AdmIs
<1> QED BY <1>2, <1>4, <1>5, <1>6 DEF ClaimInv

LEMMA ClaimIdemSteps ==
    ASSUME TypeOK, TokenInv, LockInv, ClaimInv, NEW w \in Workers,
           RollbackIdem(w) \/ ClaimIdem(w) \/ DropIdem(w) \/ Complete(w)
    PROVE  ClaimInv'
<1>1. /\ Others(w) /\ UNCHANGED <<adm, run, use, begun>> /\ Kept(w) /\ RollsBack(w)
  BY IdemEffect DEF LockInv, outer
<1>2. CASE /\ idem' = idem
           /\ \/ pc[w] = "roll-idem" /\ pc'[w] = "roll-use"
              \/ pc[w] = "drop-idem" /\ pc'[w] = "drop-use"
  <2>1. (pc[w] = "drop-idem" /\ pc'[w] = "drop-use") \/ Quiet(w)
    BY <1>2 DEF Quiet, Claiming, ClaimedPcs, BackPcs, SentPcs
  <2> QED BY <1>1, <1>2, <2>1, ClaimsKept DEF Claiming, BackPcs
<1>3. ASSUME NEW k \in Keys,
             LET i == idem[k] IN
             /\ IdemIs(k, idem'[k])
             /\ \/ /\ pc[w] = "roll-idem" /\ pc'[w] = "roll-use" /\ job[w].todo = {k}
                   /\ job'[w].todo = {k}
                   /\ i # None /\ i.st = "in-progress" /\ i.token = adm[k].token
                   /\ idem'[k] = None
                \/ /\ pc[w] = "claim" /\ pc'[w] = "approve" /\ k = job[w].key /\ OwnsPrepared(w)
                   /\ i # None => i.st = "in-progress"
                   /\ idem'[k] # None /\ idem'[k].token = job[w].token
                   /\ idem'[k].st = "in-progress"
                \/ /\ pc[w] = "drop-idem" /\ pc'[w] = "drop-use" /\ k = job[w].key
                   /\ i # None /\ i.st = "in-progress" /\ i.token = job[w].token
                   /\ idem'[k] = None
                \/ /\ pc[w] = "complete" /\ pc'[w] = "settle" /\ k = job[w].key
                   /\ i # None /\ i.st = "in-progress"
                   /\ idem'[k] # None /\ idem'[k].token = i.token /\ idem'[k].st = "completed"
      PROVE  ClaimInv'
  <2> DEFINE t == job[w].token
  <2>1. CASE pc[w] = "roll-idem"
    <3>1. /\ IdemIs(k, None) /\ idem[k] # None /\ idem[k].st = "in-progress"
          /\ idem[k].token = adm[k].token /\ job[w].todo = {k} /\ pc'[w] = "roll-use"
      BY <1>3, <2>1
    <3>2. /\ adm[k] # None /\ adm[k].st = "prepared"
          /\ \A v \in Workers : job[v].token = adm[k].token => job[v].late
      BY <1>1, <2>1, <3>1 DEF RollsBack, RollPcs
    <3>3. ASSUME NEW v \in Workers, v # w
          PROVE  Mine(v)' /\ Holds(v)' /\ Started(v)' /\ Sends(v)'
      <4>1. /\ Mine(v) /\ Holds(v) /\ Started(v) /\ Sends(v)
            /\ pc'[v] = pc[v] /\ job'[v] = job[v]
        BY <1>1, <3>3 DEF ClaimInv, Others
      <4>2. pc[v] \in Claiming => job[v].key \in Keys
        BY ItsClaim
      <4>3. Owns(v)' <=> Owns(v)
        BY <1>1, <4>1 DEF Owns
      <4>4. Mine(v)' /\ Started(v)' /\ Sends(v)'
        BY <1>1, <3>1, <4>1, <4>2, <4>3 DEF Mine, Started, Sends, Claiming, IdemIs
      <4>5. ASSUME pc[v] \in Claiming, ~job[v].late, KeyHeld(v)
            PROVE  job[v].key # k
        BY <3>1, <3>2, <4>5 DEF KeyHeld
      <4>6. pc[v] \in Claiming /\ ~job[v].late /\ KeyHeld(v) => KeyHeld(v)'
        BY <3>1, <4>1, <4>2, <4>5 DEF KeyHeld, IdemIs
      <4>7. /\ RunHeld(v) => RunHeld(v)'
            /\ UseHeld(v) => UseHeld(v)'
        BY <1>1, <4>1 DEF RunHeld, UseHeld
      <4>8. ASSUME pc[v] = "execute", ~job[v].late, idem'[job[v].key].st = "in-progress"
            PROVE  Owns(v)'
        <5>1. KeyHeld(v) /\ pc[v] \in Claiming
          BY <4>1, <4>8 DEF Holds, Claiming, ClaimedPcs
        <5>2. idem'[job[v].key] = idem[job[v].key]
          BY <3>1, <4>2, <4>5, <4>8, <5>1 DEF IdemIs
        <5> QED BY <4>1, <4>3, <4>8, <5>2 DEF Holds
      <4>9. Holds(v)'
        BY <4>1, <4>3, <4>6, <4>7, <4>8 DEF Holds, Claiming, ClaimedPcs
      <4> QED BY <4>4, <4>9
    <3>4. ASSUME NEW b \in begun PROVE RunSpent(b)' /\ KeySpent(b)' /\ UseSpent(b)'
      <4>1. b.key \in Keys /\ RunSpent(b) /\ KeySpent(b) /\ UseSpent(b)
        BY ItsTransfer DEF ClaimInv
      <4>2. b.key # k
        BY <3>1, <3>2, <4>1 DEF KeySpent
      <4> QED BY <1>1, <3>1, <4>1, <4>2 DEF RunSpent, KeySpent, UseSpent, IdemIs
    <3>5. Quiet(w)
      BY <3>1 DEF Quiet, Claiming, ClaimedPcs, BackPcs, SentPcs
    <3> QED BY <1>1, <3>3, <3>4, <3>5, QuietClaims DEF ClaimInv
  <2>2. CASE pc[w] = "claim"
    <3>1. /\ k = job[w].key /\ Owns(w) /\ IdemIs(k, idem'[k]) /\ pc'[w] = "approve"
          /\ idem[k] # None => idem[k].st = "in-progress"
          /\ idem'[k] # None /\ idem'[k].token = t /\ idem'[k].st = "in-progress"
      BY <1>3, <2>2 DEF OwnsPrepared
    <3>2. /\ job'[w].key = k /\ job'[w].token = t /\ adm' = adm /\ Owns(w)'
      BY <1>1, <3>1 DEF Kept, Same, Owns
    <3>3. ASSUME NEW v \in Workers, v # w
          PROVE  Mine(v)' /\ Holds(v)' /\ Started(v)' /\ Sends(v)'
      <4>1. /\ Mine(v) /\ Holds(v) /\ Started(v) /\ Sends(v)
            /\ pc'[v] = pc[v] /\ job'[v] = job[v]
        BY <1>1, <3>3 DEF ClaimInv, Others
      <4>2. pc[v] \in Claiming => job[v].key \in Keys /\ pc[v] # "idle"
        BY ItsClaim
      <4>3. Owns(v)' <=> Owns(v)
        BY <1>1, <4>1 DEF Owns
      <4>4. pc[v] \in Claiming /\ Owns(v) => job[v].key # k
        BY <2>2, <3>1, <3>3, <4>2, SoleOwner
      <4>5. Mine(v)' /\ Started(v)' /\ Sends(v)'
        BY <1>1, <3>1, <4>1, <4>2, <4>3, <4>4 DEF Mine, Started, Sends, Claiming, IdemIs
      <4>6. /\ RunHeld(v) => RunHeld(v)'
            /\ UseHeld(v) => UseHeld(v)'
            /\ pc[v] \in Claiming /\ job[v].key # k /\ KeyHeld(v) => KeyHeld(v)'
        BY <1>1, <3>1, <4>1, <4>2 DEF RunHeld, UseHeld, KeyHeld, IdemIs
      <4>7. ASSUME pc[v] = "execute", ~job[v].late
            PROVE  job[v].key # k
        BY <3>1, <4>1, <4>4, <4>7 DEF Holds, KeyHeld, Claiming, ClaimedPcs
      <4>8. pc[v] = "execute" /\ ~job[v].late => idem'[job[v].key] = idem[job[v].key]
        BY <3>1, <4>2, <4>7 DEF IdemIs, Claiming, ClaimedPcs
      <4>9. Holds(v)'
        BY <4>1, <4>3, <4>4, <4>6, <4>7, <4>8 DEF Holds, Claiming, ClaimedPcs
      <4> QED BY <4>5, <4>9
    <3>4. ASSUME NEW b \in begun PROVE RunSpent(b)' /\ KeySpent(b)' /\ UseSpent(b)'
      <4>1. /\ b.key \in Keys /\ RunSpent(b) /\ KeySpent(b) /\ UseSpent(b) /\ b.token # t
        BY <2>2, ItsTransfer DEF ClaimInv, TokenInv, Marked, UnsentPcs, Unsent
      <4>2. b.key # k
        BY <3>1, <4>1 DEF KeySpent, Owns
      <4> QED BY <1>1, <3>1, <4>1, <4>2 DEF RunSpent, KeySpent, UseSpent, IdemIs
    <3>5. Mine(w)' /\ Holds(w)' /\ Started(w)' /\ Sends(w)'
      <4>1. KeyHeld(w)'
        BY <3>1, <3>2 DEF KeyHeld
      <4> QED BY <3>1, <3>2, <4>1 DEF Mine, Holds, Started, Sends, SentPcs
    <3> QED BY <1>1, <3>3, <3>4, <3>5 DEF ClaimInv
  <2>3. CASE pc[w] = "drop-idem"
    <3>1. /\ k = job[w].key /\ IdemIs(k, None) /\ pc'[w] = "drop-use"
          /\ idem[k] # None /\ idem[k].token = t
      BY <1>3, <2>3
    <3>2. ASSUME NEW v \in Workers, v # w
          PROVE  Mine(v)' /\ Holds(v)' /\ Started(v)' /\ Sends(v)'
      <4>1. /\ Mine(v) /\ Holds(v) /\ Started(v) /\ Sends(v)
            /\ pc'[v] = pc[v] /\ job'[v] = job[v]
        BY <1>1, <3>2 DEF ClaimInv, Others
      <4>2. pc[v] \in Claiming => job[v].key \in Keys /\ job[v].token # t
        BY <2>3, <3>2, ItsClaim DEF TokenInv, Numbered
      <4>3. Owns(v)' <=> Owns(v)
        BY <1>1, <4>1 DEF Owns
      <4>4. pc[v] \in Claiming /\ KeyHeld(v) => job[v].key # k
        BY <3>1, <4>2 DEF KeyHeld
      <4>5. Mine(v)' /\ Started(v)' /\ Sends(v)'
        BY <1>1, <3>1, <4>1, <4>2, <4>3 DEF Mine, Started, Sends, Claiming, IdemIs
      <4>6. /\ RunHeld(v) => RunHeld(v)'
            /\ UseHeld(v) => UseHeld(v)'
            /\ pc[v] \in Claiming /\ KeyHeld(v) => KeyHeld(v)'
        BY <1>1, <3>1, <4>1, <4>2, <4>4 DEF RunHeld, UseHeld, KeyHeld, IdemIs
      <4>7. pc[v] = "execute" /\ ~job[v].late => idem'[job[v].key] = idem[job[v].key]
        BY <3>1, <4>1, <4>2, <4>4 DEF Holds, IdemIs, Claiming, ClaimedPcs
      <4>8. Holds(v)'
        BY <4>1, <4>3, <4>6, <4>7 DEF Holds, Claiming, ClaimedPcs
      <4> QED BY <4>5, <4>8
    <3>3. ASSUME NEW b \in begun PROVE RunSpent(b)' /\ KeySpent(b)' /\ UseSpent(b)'
      <4>1. /\ b.key \in Keys /\ RunSpent(b) /\ KeySpent(b) /\ UseSpent(b) /\ b.token # t
        BY <2>3, ItsTransfer DEF ClaimInv, TokenInv, Marked, UnsentPcs, BackPcs, Unsent
      <4>2. b.key # k
        BY <3>1, <4>1 DEF KeySpent
      <4> QED BY <1>1, <3>1, <4>1, <4>2 DEF RunSpent, KeySpent, UseSpent, IdemIs
    <3>4. Mine(w)' /\ Holds(w)' /\ Started(w)' /\ Sends(w)'
      BY <1>1, <3>1 DEF Kept, Same, Mine, Holds, Started, Sends, SentPcs, IdemIs
    <3> QED BY <1>1, <3>2, <3>3, <3>4 DEF ClaimInv
  <2>4. CASE pc[w] = "complete"
    <3>1. /\ IdemIs(k, idem'[k]) /\ pc'[w] = "settle"
          /\ idem[k] # None /\ idem'[k] # None /\ idem'[k].token = idem[k].token
          /\ idem'[k].st = "completed"
      BY <1>3, <2>4
    <3>2. ASSUME NEW v \in Workers, v # w
          PROVE  Mine(v)' /\ Holds(v)' /\ Started(v)' /\ Sends(v)'
      <4>1. /\ Mine(v) /\ Holds(v) /\ Started(v) /\ Sends(v)
            /\ pc'[v] = pc[v] /\ job'[v] = job[v]
        BY <1>1, <3>2 DEF ClaimInv, Others
      <4>2. pc[v] \in Claiming => job[v].key \in Keys
        BY ItsClaim
      <4>3. Owns(v)' <=> Owns(v)
        BY <1>1, <4>1 DEF Owns
      <4>4. Mine(v)' /\ Started(v)' /\ Sends(v)'
        BY <1>1, <3>1, <4>1, <4>2, <4>3 DEF Mine, Started, Sends, Claiming, IdemIs
      <4>5. /\ RunHeld(v) => RunHeld(v)'
            /\ UseHeld(v) => UseHeld(v)'
            /\ pc[v] \in Claiming /\ KeyHeld(v) => KeyHeld(v)'
        BY <1>1, <3>1, <4>1, <4>2 DEF RunHeld, UseHeld, KeyHeld, IdemIs
      <4>6. pc[v] \in Claiming /\ idem'[job[v].key].st = "in-progress"
                => idem'[job[v].key] = idem[job[v].key]
        BY <3>1, <4>2 DEF IdemIs
      <4>7. Holds(v)'
        BY <4>1, <4>3, <4>5, <4>6 DEF Holds, Claiming, ClaimedPcs
      <4> QED BY <4>4, <4>7
    <3>3. ASSUME NEW b \in begun PROVE RunSpent(b)' /\ KeySpent(b)' /\ UseSpent(b)'
      <4>1. b.key \in Keys /\ RunSpent(b) /\ KeySpent(b) /\ UseSpent(b)
        BY ItsTransfer DEF ClaimInv
      <4> QED BY <1>1, <3>1, <4>1 DEF RunSpent, KeySpent, UseSpent, IdemIs
    <3>4. Quiet(w)
      BY <3>1 DEF Quiet, Claiming, ClaimedPcs, BackPcs, SentPcs
    <3> QED BY <1>1, <3>2, <3>3, <3>4, QuietClaims DEF ClaimInv
  <2> QED BY <1>3, <2>1, <2>2, <2>3, <2>4
<1> QED BY <1>1, <1>2, <1>3, IdemEffect

LEMMA ClaimUseSteps ==
    ASSUME TypeOK, TokenInv, LockInv, ClaimInv, NEW w \in Workers,
           RollbackUse(w) \/ Approve(w) \/ DropUse(w)
    PROVE  ClaimInv'
<1> DEFINE t == job[w].token
<1>1. /\ Others(w) /\ UNCHANGED <<adm, idem, run, begun>> /\ Kept(w) /\ RollsBack(w)
  BY UseEffect DEF LockInv, outer
<1>same. ASSUME NEW v \in Workers, v # w
         PROVE  /\ Mine(v) /\ Holds(v) /\ Started(v) /\ Sends(v)
                /\ pc'[v] = pc[v] /\ job'[v] = job[v]
                /\ Mine(v)' /\ Started(v)' /\ Sends(v)'
                /\ Owns(v)' <=> Owns(v)
                /\ KeyHeld(v)' <=> KeyHeld(v)
                /\ RunHeld(v)' <=> RunHeld(v)
  <2>1. /\ Mine(v) /\ Holds(v) /\ Started(v) /\ Sends(v)
        /\ pc'[v] = pc[v] /\ job'[v] = job[v]
    BY <1>1, <1>same DEF ClaimInv, Others
  <2>2. Owns(v)' <=> Owns(v)
    BY <1>1, <2>1 DEF Owns
  <2> QED BY <1>1, <2>1, <2>2 DEF Mine, Started, Sends, KeyHeld, RunHeld
<1>held. ASSUME NEW v \in Workers, v # w,
                pc[v] \in {"reserve", "start"} /\ Owns(v) /\ ~job[v].late /\ UseHeld(v) => UseHeld(v)',
                pc[v] = "execute" /\ ~job[v].late /\ UseHeld(v) /\ KeyHeld(v) => UseHeld(v)'
         PROVE  Holds(v)'
  BY <1>1, <1>held, <1>same DEF Holds
<1>spent. ASSUME NEW b \in begun, UseSpent(b)'
          PROVE  RunSpent(b)' /\ KeySpent(b)' /\ UseSpent(b)'
  BY <1>1, <1>spent DEF ClaimInv, RunSpent, KeySpent
<1>w. ASSUME pc[w] = "drop-use", pc'[w] = "drop-adm"
      PROVE  Mine(w)' /\ Holds(w)' /\ Started(w)' /\ Sends(w)'
  <2>1. Mine(w)
    BY DEF ClaimInv
  <2> QED BY <1>1, <1>w, <2>1 DEF Kept, Same, Mine, Holds, Started, Sends, Owns, SentPcs, BackPcs
<1>roll. ASSUME pc'[w] = "roll-adm" PROVE Mine(w)' /\ Holds(w)' /\ Started(w)' /\ Sends(w)'
  <2>1. Quiet(w)
    BY <1>roll DEF Quiet, Claiming, ClaimedPcs, BackPcs, SentPcs
  <2> QED BY <2>1, QuietClaims
<1>a. ASSUME pc[w] = "approve", pc'[w] = "reserve", UseHeld(w)'
      PROVE  Mine(w)' /\ Holds(w)' /\ Started(w)' /\ Sends(w)'
  <2>1. Mine(w) /\ Holds(w)
    BY DEF ClaimInv
  <2>2. /\ Owns(w)' <=> Owns(w)
        /\ KeyHeld(w)' <=> KeyHeld(w)
    BY <1>1 DEF Kept, Same, Owns, KeyHeld
  <2>3. Mine(w)' /\ Started(w)' /\ Sends(w)'
    BY <1>1, <1>a, <2>1, <2>2 DEF Kept, Same, Mine, Started, Sends, SentPcs, ClaimedPcs
  <2>4. Holds(w)'
    BY <1>1, <1>a, <2>1, <2>2 DEF Kept, Same, Holds
  <2> QED BY <2>3, <2>4
<1>2. CASE use' = use /\ \/ pc[w] = "roll-use" /\ pc'[w] = "roll-adm"
                         \/ pc[w] = "approve" /\ pc'[w] = "reserve" /\ job[w].approval = NoApproval
                         \/ pc[w] = "drop-use" /\ pc'[w] = "drop-adm"
  <2>1. ASSUME NEW v \in Workers, v # w PROVE Holds(v)'
    <3>1. UseHeld(v)' <=> UseHeld(v)
      BY <1>1, <1>2, <1>same, <2>1 DEF UseHeld
    <3> QED BY <3>1, <1>held, <2>1
  <2>2. \A b \in begun : UseSpent(b)'
    BY <1>1, <1>2 DEF ClaimInv, UseSpent
  <2>3. job[w].approval = NoApproval => UseHeld(w)'
    BY <1>1 DEF UseHeld, Kept, Same
  <2> QED BY <1>1, <1>2, <2>1, <2>2, <2>3, <1>same, <1>spent, <1>w, <1>roll, <1>a DEF ClaimInv
<1>3. ASSUME NEW a \in Approvals, NEW k \in Keys, UseIs(a, None), pc[w] = "roll-use",
             pc'[w] = "roll-adm", job[w].todo = {k},
             use[a] # None, use[a].key = k, use[a].token = adm[k].token
      PROVE  ClaimInv'
  <2>1. /\ adm[k] # None /\ adm[k].st = "prepared"
        /\ \A v \in Workers : job[v].token = adm[k].token => job[v].late
    BY <1>1, <1>3 DEF RollsBack, RollPcs
  <2>2. ASSUME NEW v \in Workers, v # w PROVE Holds(v)'
    <3>1. pc[v] \in Claiming => job[v].approval \in Approvals \cup {NoApproval}
      BY ItsClaim
    <3>2. ASSUME pc[v] \in Claiming, ~job[v].late, UseHeld(v) PROVE UseHeld(v)'
      <4>1. job[v].approval = a => FALSE
        BY <1>3, <2>1, <3>2, BrokerAssumption DEF UseHeld
      <4> QED BY <1>1, <1>3, <1>same, <2>2, <3>1, <3>2, <4>1 DEF UseHeld, UseIs
    <3> QED BY <1>held, <2>2, <3>2 DEF Claiming, ClaimedPcs
  <2>3. ASSUME NEW b \in begun PROVE UseSpent(b)'
    <3>1. UseSpent(b) /\ b.approval \in Approvals \cup {NoApproval}
      BY ItsTransfer DEF ClaimInv
    <3>2. b.approval = a => FALSE
      BY <1>3, <2>1, <3>1, BrokerAssumption DEF UseSpent
    <3> QED BY <1>1, <1>3, <3>1, <3>2 DEF UseSpent, UseIs
  <2> QED BY <1>1, <1>3, <2>2, <2>3, <1>same, <1>spent, <1>roll DEF ClaimInv
<1>4. ASSUME NEW a \in Approvals, UseIs(a, use'[a]), pc[w] = "approve", pc'[w] = "reserve",
             a = job[w].approval, use[a] # None => use[a].key = job[w].key,
             use'[a] # None, use'[a].key = job[w].key, use'[a].token = t
      PROVE  ClaimInv'
  <2>0. pc[w] \in Claiming /\ job[w].key \in Keys
    BY <1>4, ItsClaim DEF Claiming, ClaimedPcs
  <2>1. UseHeld(w)'
    BY <1>1, <1>4 DEF UseHeld, Kept, Same
  <2>2. ASSUME NEW v \in Workers, v # w PROVE Holds(v)'
    <3>1. pc[v] \in Claiming => job[v].approval \in Approvals \cup {NoApproval} /\ pc[v] # "idle"
      BY ItsClaim
    <3>2. ASSUME pc[v] \in Claiming, UseHeld(v), KeyHeld(v) \/ Owns(v) PROVE UseHeld(v)'
      <4>1. CASE job[v].approval # a
        BY <1>1, <1>4, <1>same, <2>2, <3>1, <3>2, <4>1 DEF UseHeld, UseIs
      <4>2. CASE job[v].approval = a
        <5>1. use[a] # None /\ use[a].key = job[v].key /\ job[v].key = job[w].key
          BY <1>4, <3>2, <4>2, BrokerAssumption DEF UseHeld
        <5>2. CASE Owns(v)
          BY <1>1, <1>4, <1>same, <2>2, <4>2, <5>1, <5>2 DEF UseHeld, Owns
        <5>3. CASE KeyHeld(v)
          <6>1. ~Owns(w)
            BY <2>0, <2>2, <3>1, <3>2, <5>1, <5>3, SoleHolder
          <6> QED BY <1>1, <1>4, <1>same, <2>2, <4>2, <5>1, <6>1 DEF UseHeld, Owns
        <5> QED BY <3>2, <5>2, <5>3
      <4> QED BY <4>1, <4>2
    <3> QED BY <1>held, <2>2, <3>2 DEF Claiming, ClaimedPcs
  <2>3. ASSUME NEW b \in begun PROVE UseSpent(b)'
    <3>1. UseSpent(b) /\ b.approval \in Approvals \cup {NoApproval}
      BY ItsTransfer DEF ClaimInv
    <3>2. CASE b.approval # a
      BY <1>1, <1>4, <3>1, <3>2 DEF UseSpent, UseIs
    <3>3. CASE b.approval = a
      <4>1. use[a].key = b.key /\ use[a] # None
        BY <1>4, <3>1, <3>3, BrokerAssumption DEF UseSpent
      <4>2. b.key = job[w].key /\ ~Owns(w)
        BY <1>4, <2>0, <4>1, KeyIsSpent
      <4> QED BY <1>1, <1>4, <3>3, <4>2 DEF UseSpent, Owns
    <3> QED BY <3>2, <3>3
  <2> QED BY <1>1, <1>4, <2>1, <2>2, <2>3, <1>same, <1>spent, <1>a DEF ClaimInv
<1>5. ASSUME NEW a \in Approvals, UseIs(a, None), pc[w] = "drop-use", pc'[w] = "drop-adm",
             Owns(w), use[a] # None, use[a].key = job[w].key
      PROVE  ClaimInv'
  <2>0. pc[w] \in Claiming /\ pc[w] # "idle"
    BY <1>5 DEF Claiming, BackPcs
  <2>2. ASSUME NEW v \in Workers, v # w PROVE Holds(v)'
    <3>1. pc[v] \in Claiming => job[v].approval \in Approvals \cup {NoApproval} /\ pc[v] # "idle"
      BY ItsClaim
    <3>2. ASSUME pc[v] \in Claiming, UseHeld(v), KeyHeld(v) \/ Owns(v) PROVE UseHeld(v)'
      <4>1. job[v].approval = a => job[v].key = job[w].key
        BY <1>5, <3>2, BrokerAssumption DEF UseHeld
      <4>2. job[v].approval # a
        BY <1>5, <2>0, <2>2, <3>1, <3>2, <4>1, SoleHolder, SoleOwner
      <4> QED BY <1>1, <1>5, <1>same, <2>2, <3>1, <3>2, <4>2 DEF UseHeld, UseIs
    <3> QED BY <1>held, <2>2, <3>2 DEF Claiming, ClaimedPcs
  <2>3. ASSUME NEW b \in begun PROVE UseSpent(b)'
    <3>1. UseSpent(b) /\ b.approval \in Approvals \cup {NoApproval}
      BY ItsTransfer DEF ClaimInv
    <3>2. b.approval # a
      BY <1>5, <2>0, <3>1, KeyIsSpent, BrokerAssumption DEF UseSpent
    <3> QED BY <1>1, <1>5, <3>1, <3>2 DEF UseSpent, UseIs
  <2> QED BY <1>1, <1>5, <2>2, <2>3, <1>same, <1>spent, <1>w DEF ClaimInv
<1>6. \/ /\ use' = use
         /\ \/ pc[w] = "roll-use" /\ pc'[w] = "roll-adm"
            \/ pc[w] = "approve" /\ pc'[w] = "reserve" /\ job[w].approval = NoApproval
            \/ pc[w] = "drop-use" /\ pc'[w] = "drop-adm"
      \/ \E a \in Approvals : LET u == use[a] IN
         /\ UseIs(a, use'[a])
         /\ \/ /\ pc[w] = "roll-use" /\ pc'[w] = "roll-adm"
               /\ \E k \in Keys : /\ job[w].todo = {k}
                                  /\ u # None /\ u.key = k /\ u.token = adm[k].token
               /\ use'[a] = None
            \/ /\ pc[w] = "approve" /\ pc'[w] = "reserve" /\ a = job[w].approval
               /\ u # None => u.key = job[w].key
               /\ use'[a] # None /\ use'[a].key = job[w].key
               /\ use'[a].token = job[w].token
            \/ /\ pc[w] = "drop-use" /\ pc'[w] = "drop-adm" /\ Owns(w)
               /\ u # None /\ u.key = job[w].key /\ u.token = job[w].token
               /\ use'[a] = None
  BY <1>1, UseEffect
<1> QED BY <1>2, <1>3, <1>4, <1>5, <1>6

LEMMA ClaimRollback ==
    ASSUME ClocksAgree, TypeOK, TokenInv, ClaimInv, NEW w \in Workers, NEW k \in Keys,
           RollbackRun(w, k)
    PROVE  ClaimInv'
<1>1. /\ UNCHANGED <<adm, idem, use, begun>> /\ adm[k] # None /\ adm[k].st = "prepared"
      /\ \/ run' = run
         \/ LET r == adm[k].run IN
            /\ r \in Runs /\ run[r] # None
            /\ run[r].wip /\ ~run[r].done /\ run[r].key = k /\ run[r].token = adm[k].token
            /\ RunIs(r, FALSE, NoKey, 0, FALSE) /\ Kept2(r)
  BY RollbackEffect DEF outer
<1>2. /\ pc'[w] = "roll-idem" /\ \A v \in Workers \ {w} : pc'[v] = pc[v]
      /\ \A v \in Workers : /\ job'[v].key = job[v].key /\ job'[v].approval = job[v].approval
                            /\ job'[v].run = job[v].run /\ job'[v].token = job[v].token
  BY RollbackMoves
<1>3. \A v \in Workers : ~job'[v].late => ~job[v].late /\ job[v].token # adm[k].token
  <2>1. \A v \in Workers : job'[v].late = (job[v].late \/ Expires(v, k))
    BY RollbackMoves
  <2>2. \A v \in Workers : ~job'[v].late => ~job[v].late /\ ~Expires(v, k)
    BY <2>1, Zenon
  <2> QED BY <2>2 DEF Expires
<1>4. ASSUME NEW v \in Workers, v # w
      PROVE  Mine(v)' /\ Holds(v)' /\ Started(v)' /\ Sends(v)'
  <2>1. /\ Mine(v) /\ Holds(v) /\ Started(v) /\ Sends(v)
        /\ pc'[v] = pc[v] /\ (Owns(v)' <=> Owns(v))
    BY <1>1, <1>2, <1>4 DEF ClaimInv, Owns
  <2>2. Mine(v)' /\ Started(v)' /\ Sends(v)'
    BY <1>1, <1>2, <2>1 DEF Mine, Started, Sends
  <2>3. /\ KeyHeld(v) => KeyHeld(v)'
        /\ UseHeld(v) => UseHeld(v)'
    BY <1>1, <1>2 DEF KeyHeld, UseHeld
  <2>4. ASSUME pc[v] \in Claiming, ~job'[v].late, RunHeld(v) PROVE RunHeld(v)'
    <3>1. job[v].run \in Runs
      BY <2>4, ItsClaim
    <3>2. run'[job[v].run] = run[job[v].run]
      BY <1>1, <1>3, <2>4, <3>1 DEF RunHeld, RunIs
    <3> QED BY <1>2, <2>4, <3>2 DEF RunHeld
  <2>5. Holds(v)'
    BY <1>1, <1>2, <1>3, <2>1, <2>3, <2>4 DEF Holds, Claiming, ClaimedPcs
  <2> QED BY <2>2, <2>5
<1>5. ASSUME NEW b \in begun PROVE RunSpent(b)' /\ KeySpent(b)' /\ UseSpent(b)'
  <2>1. b.run \in Runs /\ RunSpent(b) /\ KeySpent(b) /\ UseSpent(b)
    BY ItsTransfer DEF ClaimInv
  <2>2. KeySpent(b)' /\ UseSpent(b)'
    BY <1>1, <2>1 DEF KeySpent, UseSpent
  <2>3. run'[b.run] = run[b.run]
    BY <1>1, <2>1 DEF RunSpent, KeySpent, RunIs
  <2> QED BY <2>1, <2>2, <2>3 DEF RunSpent
<1>6. Quiet(w)
  BY <1>2 DEF Quiet, Claiming, ClaimedPcs, BackPcs, SentPcs
<1> QED BY <1>1, <1>4, <1>5, <1>6, QuietClaims DEF ClaimInv

(* Nobody who is about to send has the run of a transfer reserved.         *)
LEMMA RunIsSpent ==
    ASSUME TypeOK, TokenInv, ClaimInv, NEW b \in begun, NEW w \in Workers,
           pc[w] \in Claiming, job[w].run = b.run
    PROVE  ~RunHeld(w)
<1>1. RunSpent(b) /\ b.token # job[w].token
  BY DEF ClaimInv, TokenInv, Marked, UnsentPcs, Unsent, Claiming
<1> QED BY <1>1 DEF RunSpent, RunHeld

LEMMA ClaimRunSteps ==
    ASSUME TypeOK, TokenInv, ClaimInv, RemoteInv, NEW w \in Workers,
           \/ Snapshot(w) \/ Reserve(w) \/ Release(w) \/ RecordRun(w)
           \/ DrySnapshot(w) \/ DryRun(w) \/ ResolveRun(w)
    PROVE  ClaimInv'
<1> DEFINE t == job[w].token
<1>1. Others(w) /\ UNCHANGED <<adm, idem, use, begun>>
  BY RunEffect DEF outer
<1>2. \/ /\ run' = run
         /\ \/ pc[w] = "release" /\ Leaves(w)
            \/ pc[w] = "snapshot" /\ pc'[w] = "check" /\ Same(w)
            \/ pc[w] = "dry-snapshot" /\ pc'[w] = "dry-run" /\ Same(w)
      \/ \E r \in Runs : Writes(w, r)
  BY RunEffect
<1>3. CASE /\ run' = run
           /\ \/ pc[w] = "release" /\ Leaves(w)
              \/ pc[w] = "snapshot" /\ pc'[w] = "check" /\ Same(w)
              \/ pc[w] = "dry-snapshot" /\ pc'[w] = "dry-run" /\ Same(w)
  <2>1. Quiet(w)
    BY <1>3 DEF Quiet, Claiming, ClaimedPcs, BackPcs, SentPcs, Leaves
  <2> QED BY <1>1, <1>3, <2>1, ClaimsKept
<1>same. ASSUME NEW v \in Workers, v # w
         PROVE  /\ Mine(v) /\ Holds(v) /\ Started(v) /\ Sends(v)
                /\ pc'[v] = pc[v] /\ job'[v] = job[v]
                /\ Mine(v)' /\ Started(v)' /\ Sends(v)'
                /\ Owns(v)' <=> Owns(v)
                /\ KeyHeld(v)' <=> KeyHeld(v)
                /\ UseHeld(v)' <=> UseHeld(v)
  <2>1. /\ Mine(v) /\ Holds(v) /\ Started(v) /\ Sends(v)
        /\ pc'[v] = pc[v] /\ job'[v] = job[v]
    BY <1>1, <1>same DEF ClaimInv, Others
  <2>2. Owns(v)' <=> Owns(v)
    BY <1>1, <2>1 DEF Owns
  <2> QED BY <1>1, <2>1, <2>2 DEF Mine, Started, Sends, KeyHeld, UseHeld
<1>held. ASSUME NEW v \in Workers, v # w,
                /\ pc[v] \in Claiming /\ RunHeld(v) /\ KeyHeld(v)
                   /\ (pc[v] = "execute" \/ Owns(v)) => RunHeld(v)'
         PROVE  Holds(v)'
  BY <1>1, <1>held, <1>same DEF Holds, Claiming, ClaimedPcs
<1>spent. ASSUME NEW b \in begun, RunSpent(b)'
          PROVE  RunSpent(b)' /\ KeySpent(b)' /\ UseSpent(b)'
  BY <1>1, <1>spent DEF ClaimInv, KeySpent, UseSpent
<1>runs. ASSUME NEW r \in Runs, NEW v \in Workers, v # w, pc[v] \in Claiming, RunHeld(v),
                \A q \in Runs \ {r} : run'[q] = run[q], job[v].run # r
         PROVE  RunHeld(v)'
  <2>1. job[v].run \in Runs
    BY <1>runs, ItsClaim
  <2> QED BY <1>runs, <1>same, <2>1 DEF RunHeld
<1>sent. ASSUME NEW r \in Runs, NEW b \in begun, \A q \in Runs \ {r} : run'[q] = run[q], b.run # r
         PROVE  RunSpent(b)'
  <2>1. b.run \in Runs /\ RunSpent(b)
    BY ItsTransfer DEF ClaimInv
  <2> QED BY <1>sent, <2>1 DEF RunSpent
<1>4. ASSUME NEW r \in Runs, Writes(w, r) PROVE ClaimInv'
  <2> DEFINE x == run[r]
  <2>1. CASE pc[w] \in {"snapshot", "dry-snapshot"}
    <3>1. /\ x = None /\ Quiet(w) /\ \A q \in Runs \ {r} : run'[q] = run[q]
      BY <1>4, <2>1 DEF Writes, RunIs, Quiet, Claiming, ClaimedPcs, BackPcs, SentPcs
    <3>2. ASSUME NEW v \in Workers, v # w PROVE Holds(v)'
      BY <3>1, <3>2, <1>held, <1>runs, ItsClaim
    <3>3. \A b \in begun : RunSpent(b)'
      BY <3>1, <1>sent DEF ClaimInv, RunSpent
    <3> QED BY <1>1, <1>same, <1>spent, <3>1, <3>2, <3>3, QuietClaims DEF ClaimInv
  <2>2. CASE pc[w] = "dry-run"
    <3>1. Quiet(w) /\ RunIs(r, x.wip, x.key, x.token, x.done)
      BY <1>4, <2>2 DEF Writes, Quiet, Claiming, ClaimedPcs, BackPcs, SentPcs
    <3>2. ASSUME NEW v \in Workers, v # w PROVE Holds(v)'
      <4>1. job[v].run = r /\ RunHeld(v) => RunHeld(v)'
        BY <3>1, <3>2, <1>same DEF RunHeld, RunIs
      <4> QED BY <3>1, <3>2, <4>1, <1>held, <1>runs DEF RunIs
    <3>3. ASSUME NEW b \in begun PROVE RunSpent(b)'
      <4>1. CASE b.run = r
        BY <3>1, <4>1 DEF ClaimInv, RunSpent, RunIs
      <4> QED BY <3>1, <4>1, <1>sent DEF RunIs
    <3> QED BY <1>1, <1>same, <1>spent, <3>1, <3>2, <3>3, QuietClaims DEF ClaimInv
  <2>3. CASE pc[w] = "reserve"
    <3>1. /\ pc'[w] = "start" /\ Kept(w) /\ r = job[w].run /\ x # None
          /\ Owns(w) /\ ~x.done /\ (x.wip => x.key = job[w].key) /\ pc[w] \in Claiming
          /\ RunIs(r, TRUE, job[w].key, t, FALSE)
      BY <1>4, <2>3 DEF Writes, Reserves, OwnsPrepared, Claiming, ClaimedPcs
    <3>2. ASSUME NEW v \in Workers, v # w PROVE Holds(v)'
      <4>1. ASSUME pc[v] \in Claiming, RunHeld(v), KeyHeld(v) PROVE job[v].run # r
        <5>1. pc[v] # "idle"
          BY <4>1, ItsClaim
        <5>2. job[v].run = r => job[v].key = job[w].key
          BY <3>1, <4>1 DEF RunHeld
        <5> QED BY <3>1, <3>2, <4>1, <5>1, <5>2, SoleHolder
      <4> QED BY <3>1, <3>2, <4>1, <1>held, <1>runs DEF RunIs
    <3>3. ASSUME NEW b \in begun PROVE RunSpent(b)'
      <4>1. b.run # r
        BY <3>1, KeyIsSpent DEF ClaimInv, RunSpent
      <4> QED BY <3>1, <4>1, <1>sent DEF RunIs
    <3>4. Mine(w)' /\ Holds(w)' /\ Started(w)' /\ Sends(w)'
      <4>1. Mine(w) /\ Holds(w)
        BY DEF ClaimInv
      <4>2. /\ Owns(w)' <=> Owns(w)
            /\ KeyHeld(w)' <=> KeyHeld(w)
            /\ UseHeld(w)' <=> UseHeld(w)
        BY <1>1, <3>1 DEF Kept, Same, Owns, KeyHeld, UseHeld
      <4>3. RunHeld(w)'
        BY <3>1 DEF RunIs, RunHeld, Kept, Same
      <4>4. Mine(w)' /\ Started(w)' /\ Sends(w)'
        BY <1>1, <3>1, <4>1, <4>2 DEF Kept, Same, Mine, Started, Sends, SentPcs, Claiming
      <4>5. Holds(w)'
        BY <2>3, <3>1, <4>1, <4>2, <4>3 DEF Kept, Same, Holds
      <4> QED BY <4>4, <4>5
    <3> QED BY <1>1, <1>same, <1>spent, <3>2, <3>3, <3>4 DEF ClaimInv
  <2>4. CASE pc[w] = "release"
    <3>1. /\ pc'[w] = "drop-idem" /\ Kept(w) /\ x.token = t /\ ~x.done /\ pc[w] \in Claiming
          /\ r = job[w].run /\ \A q \in Runs \ {r} : run'[q] = run[q]
      BY <1>4, <2>4 DEF Writes, MayRelease, RunIs, Claiming, BackPcs
    <3>2. ASSUME NEW v \in Workers, v # w PROVE Holds(v)'
      <4>1. ASSUME pc[v] \in Claiming, RunHeld(v) PROVE job[v].run # r
        <5>1. pc[v] # "idle" /\ pc[w] # "idle"
          BY <3>1, <4>1, ItsClaim
        <5> QED BY <3>1, <3>2, <4>1, <5>1 DEF RunHeld, TokenInv, Numbered
      <4> QED BY <3>1, <3>2, <4>1, <1>held, <1>runs
    <3>3. ASSUME NEW b \in begun PROVE RunSpent(b)'
      <4>1. RunSpent(b) /\ b.token # t
        BY <3>1 DEF ClaimInv, TokenInv, Marked, UnsentPcs, Unsent, Claiming
      <4>2. b.run # r
        BY <3>1, <4>1 DEF RunSpent
      <4> QED BY <3>1, <4>2, <1>sent
    <3>4. Mine(w)' /\ Holds(w)' /\ Started(w)' /\ Sends(w)'
      <4>1. Mine(w)
        BY DEF ClaimInv
      <4> QED BY <1>1, <3>1, <4>1 DEF Kept, Same, Owns, Mine, Holds, Started, Sends,
                  Claiming, BackPcs, SentPcs
    <3> QED BY <1>1, <1>same, <1>spent, <3>2, <3>3, <3>4 DEF ClaimInv
  <2>5. CASE pc[w] \in {"record-run", "resolve-run"}
    <3>1. /\ Quiet(w) /\ r = job[w].run /\ RunIs(r, FALSE, NoKey, 0, TRUE)
      BY <1>4, <2>5 DEF Writes, Quiet, Claiming, ClaimedPcs, BackPcs, SentPcs
    <3>2. PICK c \in begun : c.run = r
      BY <2>5, <3>1 DEF RemoteInv, Arrived
    <3>3. ASSUME NEW v \in Workers, v # w PROVE Holds(v)'
      <4>1. pc[v] \in Claiming /\ RunHeld(v) => job[v].run # r
        BY <3>2, RunIsSpent
      <4> QED BY <3>1, <3>3, <4>1, <1>held, <1>runs DEF RunIs
    <3>4. ASSUME NEW b \in begun PROVE RunSpent(b)'
      <4>1. CASE b.run = r
        BY <3>1, <4>1 DEF RunSpent, RunIs
      <4> QED BY <3>1, <4>1, <1>sent DEF RunIs
    <3> QED BY <1>1, <1>same, <1>spent, <3>1, <3>3, <3>4, QuietClaims DEF ClaimInv
  <2>6. pc[w] \in {"snapshot", "dry-snapshot", "dry-run", "reserve", "release", "record-run",
                   "resolve-run"}
    BY <1>4 DEF Writes
  <2> QED BY <2>1, <2>2, <2>3, <2>4, <2>5, <2>6
<1> QED BY <1>2, <1>3, <1>4

(* The transfer itself.  What w holds nobody has spent.                    *)
LEMMA BeginIsNew ==
    ASSUME TypeOK, TokenInv, ClaimInv, NEW w \in Workers, BeginTransfer(w), NEW b \in begun
    PROVE  /\ b.run # job[w].run /\ b.key # job[w].key
           /\ b.approval = job[w].approval => b.approval = NoApproval
<1>1. pc[w] = "execute" /\ ~job[w].late /\ pc[w] \in Claiming
  BY BeginEffect DEF Claiming, ClaimedPcs
<1>2. KeyHeld(w) /\ UseHeld(w) /\ RunHeld(w)
  BY <1>1 DEF ClaimInv, Holds
<1>3. b.run # job[w].run
  BY <1>1, <1>2, RunIsSpent
<1>4. b.key # job[w].key
  BY <1>1, <1>2, KeyIsSpent
<1>5. UseSpent(b)
  BY DEF ClaimInv
<1> QED BY <1>2, <1>3, <1>4, <1>5 DEF UseSpent, UseHeld

LEMMA ClaimBegin ==
    ASSUME TypeOK, TokenInv, ClaimInv, NEW w \in Workers, BeginTransfer(w) PROVE ClaimInv'
<1>0. PICK c : c = [run |-> job[w].run, key |-> job[w].key, token |-> job[w].token,
                    approval |-> job[w].approval]
  OBVIOUS
<1>1. /\ Others(w) /\ UNCHANGED <<adm, idem, run, use>> /\ Kept(w) /\ pc[w] = "execute"
      /\ ~job[w].late /\ pc'[w] = "transfer" /\ begun' = begun \cup {c}
  BY <1>0, BeginEffect DEF files
<1>2. /\ c.run = job[w].run /\ c.key = job[w].key /\ c.token = job[w].token
      /\ c.approval = job[w].approval
  BY <1>0
<1>3. ASSUME NEW v \in Workers, v # w
      PROVE  Mine(v)' /\ Holds(v)' /\ Started(v)' /\ Sends(v)'
  <2>1. /\ Mine(v) /\ Holds(v) /\ Started(v) /\ Sends(v)
        /\ pc'[v] = pc[v] /\ job'[v] = job[v]
    BY <1>1, <1>3 DEF ClaimInv, Others
  <2>2. Sends(v)'
    BY <1>1, <2>1 DEF Sends
  <2> QED BY <1>1, <2>1, <2>2 DEF Mine, Holds, Started, Owns, KeyHeld, UseHeld, RunHeld
<1>4. Mine(w)' /\ Holds(w)' /\ Started(w)' /\ Sends(w)'
  <2>1. Sends(w)'
    BY <1>1, <1>2 DEF Sends, Kept, Same
  <2> QED BY <1>1, <2>1 DEF Mine, Holds, Started, ClaimedPcs, BackPcs
<1>5. ASSUME NEW b \in begun PROVE RunSpent(b)' /\ KeySpent(b)' /\ UseSpent(b)'
  <2>1. RunSpent(b) /\ KeySpent(b) /\ UseSpent(b)
    BY DEF ClaimInv
  <2> QED BY <1>1, <2>1 DEF RunSpent, KeySpent, UseSpent
<1>6. RunSpent(c)' /\ KeySpent(c)' /\ UseSpent(c)'
  <2>1. /\ KeyHeld(w) /\ UseHeld(w) /\ RunHeld(w) /\ Started(w)
        /\ idem[job[w].key].st = "in-progress" => Owns(w)
    BY <1>1 DEF ClaimInv, Holds
  <2>2. run[job[w].run] # None
    BY <1>1, ItsClaim DEF Claiming, ClaimedPcs
  <2>3. RunSpent(c)'
    BY <1>1, <1>2, <2>1, <2>2 DEF RunSpent, RunHeld
  <2>4. KeySpent(c)'
    BY <1>1, <1>2, <2>1 DEF KeySpent, KeyHeld, Owns, Started
  <2>5. UseSpent(c)'
    BY <1>1, <1>2, <2>1 DEF UseSpent, UseHeld, Owns, Started
  <2> QED BY <2>3, <2>4, <2>5
<1> QED BY <1>1, <1>3, <1>4, <1>5, <1>6 DEF ClaimInv

LEMMA ClaimStep ==
    ASSUME ClocksAgree, TypeOK, TokenInv, LockInv, ClaimInv, RemoteInv, [Next]_vars
    PROVE  ClaimInv'
<1> USE DEF Claiming, ClaimedPcs, BackPcs, SentPcs
<1>1. CASE UNCHANGED vars
  BY <1>1 DEF vars, ClaimInv, Mine, Holds, Started, Sends, Owns, KeyHeld, UseHeld, RunHeld,
     RunSpent, KeySpent, UseSpent
<1>2. CASE Next
  <2>1. PICK w \in Workers : Step(w) \/ \E q \in Requests : Call(w, q)
    BY <1>2 DEF Next
  <2>2. CASE \E q \in Requests : Call(w, q)
    BY <2>2, CallEffect, ClaimsKept DEF Quiet, files
  <2>3. CASE \/ Admit(w) \/ ReadAdmission(w) \/ Replay(w) \/ GoOn(w) \/ Check(w)
             \/ GiveUp(w) \/ NothingSent(w) \/ Compare(w) \/ ListOthers(w) \/ SkipOther(w)
             \/ Refuse(w)
    <3>1. /\ Others(w) /\ UNCHANGED <<adm, idem, run, use, begun>>
          /\ Quiet(w) \/ (Kept(w) /\ pc[w] \in Claiming /\ pc'[w] \in BackPcs)
      BY <2>3, LocalEffect DEF Quiet, Leaves, files, outer
    <3> QED BY <3>1, ClaimsKept
  <2>4. CASE RollbackAdm(w) \/ Forget(w) \/ DropAdm(w) \/ SettleWriter(w) \/ SettleVerified(w)
    <3>1. \A k \in Keys : pc[w] = "roll-adm" /\ k \in job[w].todo => job[w].todo = {k}
      BY DEF LockInv, RollsBack, RollPcs
    <3>2. /\ Others(w) /\ UNCHANGED <<idem, run, use, begun>>
          /\ \/ \E k \in Keys : AdmIs(k, None) /\ Drops(w, k)
             \/ /\ adm' = adm
                /\ Leaves(w) \/ (Kept(w) /\ pc'[w] \in {"list", "others"})
      BY <2>4, <3>1, DropEffect
    <3>3. CASE adm' = adm /\ (Leaves(w) \/ (Kept(w) /\ pc'[w] \in {"list", "others"}))
      BY <3>2, <3>3, ClaimsKept DEF Quiet, Leaves
    <3> QED BY <3>2, <3>3, ClaimDrop
  <2>5. CASE EndTransfer(w) \/ Stop(w)
    <3>1. /\ Others(w) /\ UNCHANGED <<adm, idem, run, use, begun>>
          /\ Quiet(w) \/ (Kept(w) /\ pc[w] \in SentPcs /\ pc'[w] \in SentPcs)
      BY <2>5, EndEffect DEF Quiet, Leaves, files
    <3> QED BY <3>1, ClaimsKept
  <2>6. CASE Record(w) \/ DryReceipt(w) \/ Resolve(w) \/ Reconcile(w)
    <3>1. /\ Others(w) /\ UNCHANGED <<adm, idem, run, use, begun>>
          /\ Quiet(w) \/ (Kept(w) /\ pc[w] \in SentPcs /\ pc'[w] \in SentPcs)
      BY <2>6, ReceiptEffect DEF Quiet, Leaves, outer
    <3> QED BY <3>1, ClaimsKept
  <2> QED BY <2>1, <2>2, <2>3, <2>4, <2>5, <2>6, StepCases, ClaimPrepare, ClaimStart,
             ClaimIdemSteps, ClaimUseSteps, ClaimRollback, ClaimRunSteps, ClaimBegin
<1> QED BY <1>1, <1>2

(* A transfer is the only step that begins one.                            *)
LEMMA OneTransferStep ==
    ASSUME TypeOK, TokenInv, ClaimInv, AtMostOneTransfer, [Next]_vars
    PROVE  AtMostOneTransfer'
<1>1. CASE begun' = begun
  BY <1>1 DEF AtMostOneTransfer
<1>2. ASSUME NEW w \in Workers, BeginTransfer(w) PROVE AtMostOneTransfer'
  <2> DEFINE c == [run |-> job[w].run, key |-> job[w].key, token |-> job[w].token,
                   approval |-> job[w].approval]
  <2>1. begun' = begun \cup {c}
    BY <1>2, BeginEffect
  <2>2. c.run = job[w].run /\ c.key = job[w].key /\ c.approval = job[w].approval
    OBVIOUS
  <2> HIDE DEF c
  <2>3. \A b \in begun : /\ b.run # c.run /\ b.key # c.key
                         /\ b.approval = c.approval => b.approval = NoApproval
    BY <1>2, <2>2, BeginIsNew
  <2> QED BY <2>1, <2>3 DEF AtMostOneTransfer
<1>3. begun' = begun \/ \E w \in Workers : BeginTransfer(w)
  <2>1. CASE UNCHANGED vars
    BY <2>1 DEF vars
  <2>2. ASSUME NEW w \in Workers, Step(w) PROVE begun' = begun \/ BeginTransfer(w)
    BY <2>2 DEF Step, Rollback, RollbackRun, RollbackIdem, RollbackUse, RollbackAdm, Admit,
       Replicate, ReadAdmission, Replay, Forget, GoOn, Unknown, Refuse, Snapshot, Check,
       Prepare, ClaimIdem, Approve, Reserve, Start, EndTransfer, Record, RecordRun,
       GoBack, GiveUp, NothingSent, Release, DropIdem, DropUse, DropAdm, Complete,
       SettleWriter, DrySnapshot, DryRun, DryReceipt, Verify, Compare, Resolve, ResolveRun,
       SettleVerified, ListOthers, Reconcile, SkipOther, Verified, Stop, outer, Zenon
  <2> QED BY <2>1, <2>2 DEF Next, Call
<1> QED BY <1>1, <1>2, <1>3

-----------------------------------------------------------------------------
(* The receiver: what is known of it stays true.                           *)
Alike(v) == pc'[v] = pc[v] /\ job'[v].run = job[v].run /\ job'[v].key = job[v].key
                           /\ job'[v].receipt = job[v].receipt
DoneKept == \A r \in Runs : run[r] # None /\ run[r].done => run'[r] # None /\ run'[r].done
CompletedKept == \A k \in Keys : idem[k] # None /\ idem[k].st = "completed"
                                   => idem'[k] # None /\ idem'[k].st = "completed"
DoneArrived == \A r \in Runs : run[r] # None /\ run[r].done =>
    remote[r] = "complete" /\ run[r].receipt \in receipts
Answered == \A p \in answered : run[p[2]] # None /\ run[p[2]].done
Silent(w) == pc'[w] \notin EndPcs \cup {"forget", "list", "others", "transfer", "record",
                                        "record-run", "resolve", "resolve-run"}

LEMMA ItsRun ==
    ASSUME TypeOK, NEW v \in Workers
    PROVE  /\ pc[v] \in EndPcs \cup {"forget", "list", "others", "transfer", "record",
                                     "record-run", "resolve", "resolve-run"}
                => job[v].run \in Runs /\ run[job[v].run] # None
           /\ pc[v] \in {"forget", "settle"} => job[v].key \in Keys
BY ItsJob DEF JobOf, Suits, Fits, Known, EndPcs, VerifyPcs, ReplicatePcs, RanPcs, TriedPcs, SentPcs

LEMMA SilentStep ==
    ASSUME NEW w \in Workers, Silent(w) PROVE Arrived(w)' /\ Answers(w)'
BY DEF Silent, Arrived, Answers, EndPcs

LEMMA AnsweredRuns ==
    ASSUME TypeOK, NEW p \in answered PROVE p[2] \in Runs
BY DEF TypeOK, OuterOK

LEMMA RemoteKept ==
    ASSUME TypeOK, RemoteInv, NEW w \in Workers, \A v \in Workers \ {w} : Alike(v),
           receipts \subseteq receipts', remote' = remote, begun \subseteq begun',
           answered' = answered, DoneKept, CompletedKept, DoneArrived',
           Arrived(w)', Answers(w)'
    PROVE  RemoteInv'
<1>1. ASSUME NEW v \in Workers, v # w PROVE Arrived(v)' /\ Answers(v)'
  <2>1. /\ Alike(v) /\ Arrived(v) /\ Answers(v)
    BY <1>1 DEF RemoteInv
  <2>2. Arrived(v)'
    BY <2>1 DEF Alike, Arrived
  <2>3. Answers(v)'
    BY <2>1, ItsRun DEF Alike, Answers, DoneKept, CompletedKept, EndPcs
  <2> QED BY <2>2, <2>3
<1>2. Answered'
  BY AnsweredRuns DEF RemoteInv, DoneKept, Answered
<1>3. \A r \in Runs : remote'[r] # "absent" => \E b \in begun' : b.run = r
  BY DEF RemoteInv
<1> QED BY <1>1, <1>2, <1>3 DEF RemoteInv, Answered, DoneArrived

LEMMA FilesDone ==
    ASSUME RemoteInv
    PROVE  /\ run' = run => DoneKept
           /\ idem' = idem => CompletedKept
           /\ run' = run /\ remote' = remote /\ receipts \subseteq receipts' => DoneArrived'
BY DEF RemoteInv, DoneKept, CompletedKept, DoneArrived

LEMMA RemoteDrop ==
    ASSUME TypeOK, LockInv, RemoteInv, NEW w \in Workers,
           RollbackAdm(w) \/ Forget(w) \/ DropAdm(w) \/ SettleWriter(w) \/ SettleVerified(w)
    PROVE  RemoteInv'
<1>1. \A k \in Keys : pc[w] = "roll-adm" /\ k \in job[w].todo => job[w].todo = {k}
  BY DEF LockInv, RollsBack, RollPcs
<1>2. Others(w) /\ UNCHANGED <<idem, run, use, receipts, remote, attempts, begun>>
  BY <1>1, DropEffect
<1>3. /\ answered' = answered \/ (pc[w] \in {"forget", "settle"} /\ Tells(w))
      /\ Silent(w) \/ (pc[w] \in {"forget", "settle"} /\ pc'[w] \in {"list", "others"} /\ Kept(w))
  BY <1>1, DropEffect DEF Drops, Tells, Leaves, Silent, EndPcs
<1>4. pc[w] \in {"forget", "settle"} =>
        job[w].run \in Runs /\ run[job[w].run] # None /\ run[job[w].run].done
  BY ItsRun DEF RemoteInv, Answers, EndPcs
<1>5. Arrived(w)' /\ Answers(w)'
  <2>1. CASE Silent(w)
    BY <2>1, SilentStep
  <2>2. CASE pc[w] \in {"forget", "settle"} /\ pc'[w] \in {"list", "others"} /\ Kept(w)
    BY <1>2, <1>4, <2>2 DEF Kept, Arrived, Answers
  <2> QED BY <1>3, <2>1, <2>2
<1>6. ASSUME NEW v \in Workers PROVE Arrived(v)' /\ Answers(v)'
  <2>1. CASE v # w
    BY <1>2, <2>1 DEF Others, RemoteInv, Arrived, Answers
  <2> QED BY <2>1, <1>5
<1>7. Answered'
  <2>1. Answered
    BY DEF RemoteInv, Answered
  <2>2. CASE answered' = answered
    BY <1>2, <2>1, <2>2 DEF Answered
  <2>3. CASE pc[w] \in {"forget", "settle"} /\ Tells(w)
    BY <1>2, <1>4, <2>1, <2>3 DEF Answered, Tells
  <2> QED BY <1>3, <2>2, <2>3
<1> QED BY <1>2, <1>6, <1>7 DEF RemoteInv, Answered

LEMMA RemoteBegin ==
    ASSUME TypeOK, TokenInv, ClaimInv, RemoteInv, NEW w \in Workers, BeginTransfer(w)
    PROVE  RemoteInv'
<1> DEFINE r == job[w].run
<1>1. /\ Others(w) /\ UNCHANGED <<files, answered>> /\ Kept(w) /\ pc'[w] = "transfer" /\ r \in Runs
      /\ remote'[r] = "partial" /\ \A q \in Runs \ {r} : remote'[q] = remote[q]
      /\ begun \subseteq begun' /\ \E b \in begun' : b.run = r
  <2>1. /\ Others(w) /\ UNCHANGED <<files, lock, attempts, answered>> /\ Kept(w)
        /\ pc'[w] = "transfer" /\ r \in Runs
        /\ remote'[r] = "partial" /\ \A q \in Runs \ {r} : remote'[q] = remote[q]
    BY BeginEffect
  <2>c. PICK c : c = [run |-> r, key |-> job[w].key, token |-> job[w].token,
                      approval |-> job[w].approval]
    OBVIOUS
  <2>2. begun' = begun \cup {c}
    BY <2>c, BeginEffect
  <2>3. c.run = r
    BY <2>c
  <2> QED BY <2>1, <2>2, <2>3
<1>2. remote[r] = "absent"
  BY <1>1, BeginIsNew DEF RemoteInv
<1>3. ASSUME NEW v \in Workers PROVE Arrived(v)' /\ Answers(v)'
  <2>1. CASE v = w
    BY <1>1, <2>1 DEF Arrived, Answers, EndPcs, Kept
  <2>2. CASE v # w
    <3>1. pc'[v] = pc[v] /\ job'[v] = job[v] /\ Arrived(v) /\ Answers(v)
      BY <1>1, <2>2 DEF Others, RemoteInv
    <3>2. Arrived(v)'
      BY <1>1, <1>2, <3>1, ItsRun DEF Arrived, files
    <3>3. Answers(v)'
      BY <1>1, <3>1 DEF Answers, files
    <3> QED BY <3>2, <3>3
  <2> QED BY <2>1, <2>2
<1>4. DoneArrived'
  BY <1>1, <1>2 DEF RemoteInv, DoneArrived, files
<1>5. \A q \in Runs : remote'[q] # "absent" => \E b \in begun' : b.run = q
  BY <1>1 DEF RemoteInv
<1>6. Answered'
  BY <1>1 DEF RemoteInv, Answered, files
<1> QED BY <1>3, <1>4, <1>5, <1>6 DEF RemoteInv, DoneArrived, Answered

LEMMA RemoteEnd ==
    ASSUME TypeOK, TokenInv, ClaimInv, AtMostOneTransfer, RemoteInv, NEW w \in Workers,
           EndTransfer(w) \/ Stop(w)
    PROVE  RemoteInv'
<1> DEFINE r == job[w].run
<1>1. /\ Others(w) /\ UNCHANGED <<files, begun, answered>>
      /\ Leaves(w) \/ (Kept(w) /\ pc[w] = "transfer" /\ pc'[w] = "record"
                        /\ remote'[r] = "complete")
  BY EndEffect
<1>2. \/ remote' = remote
      \/ /\ pc[w] = "transfer" /\ r \in Runs /\ remote'[r] \in {"partial", "complete"}
         /\ \A q \in Runs \ {r} : remote'[q] = remote[q]
  BY EndEffect
<1>3. pc[w] = "transfer" => remote[r] = "partial"
  BY DEF RemoteInv, Arrived
<1>4. ASSUME NEW v \in Workers, v # w, pc[w] = "transfer", pc[v] = "transfer"
      PROVE  job[v].run # r
  <2>1. PICK b \in begun : b.run = job[w].run /\ b.token = job[w].token
    BY <1>4 DEF ClaimInv, Sends, SentPcs
  <2>2. PICK c \in begun : c.run = job[v].run /\ c.token = job[v].token
    BY <1>4 DEF ClaimInv, Sends, SentPcs
  <2>3. job[v].token # job[w].token
    BY <1>4 DEF TokenInv, Numbered
  <2> QED BY <2>1, <2>2, <2>3 DEF AtMostOneTransfer
<1>5. ASSUME NEW v \in Workers PROVE Arrived(v)' /\ Answers(v)'
  <2>1. CASE v = w
    <3>1. CASE Leaves(w)
      BY <2>1, <3>1 DEF Leaves, Arrived, Answers, EndPcs
    <3>2. CASE Kept(w) /\ pc[w] = "transfer" /\ pc'[w] = "record" /\ remote'[r] = "complete"
      BY <2>1, <3>2 DEF Kept, Arrived, Answers, EndPcs
    <3> QED BY <1>1, <3>1, <3>2
  <2>2. CASE v # w
    <3>1. pc'[v] = pc[v] /\ job'[v] = job[v] /\ Arrived(v) /\ Answers(v)
      BY <1>1, <2>2 DEF Others, RemoteInv
    <3>2. Arrived(v)'
      BY <1>1, <1>2, <1>3, <1>4, <2>2, <3>1, ItsRun DEF Arrived, files
    <3>3. Answers(v)'
      BY <1>1, <3>1 DEF Answers, files
    <3> QED BY <3>2, <3>3
  <2> QED BY <2>1, <2>2
<1>6. DoneArrived'
  BY <1>1, <1>2, <1>3 DEF RemoteInv, DoneArrived, files
<1>7. \A q \in Runs : remote'[q] # "absent" => \E b \in begun' : b.run = q
  BY <1>1, <1>2, <1>3 DEF RemoteInv
<1>8. Answered'
  BY <1>1 DEF RemoteInv, Answered, files
<1> QED BY <1>5, <1>6, <1>7, <1>8 DEF RemoteInv, DoneArrived, Answered

LEMMA RemoteRunSteps ==
    ASSUME TypeOK, RemoteInv, NEW w \in Workers,
           \/ Snapshot(w) \/ Reserve(w) \/ Release(w) \/ RecordRun(w)
           \/ DrySnapshot(w) \/ DryRun(w) \/ ResolveRun(w)
    PROVE  RemoteInv'
<1>1. /\ Others(w) /\ UNCHANGED <<adm, idem, use, receipts, outer>>
      /\ \/ /\ run' = run
            /\ \/ pc[w] = "release" /\ Leaves(w)
               \/ pc[w] = "snapshot" /\ pc'[w] = "check" /\ Same(w)
               \/ pc[w] = "dry-snapshot" /\ pc'[w] = "dry-run" /\ Same(w)
         \/ \E r \in Runs : Writes(w, r)
  BY RunEffect
<1>2. CASE /\ run' = run
           /\ \/ pc[w] = "release" /\ Leaves(w)
              \/ pc[w] = "snapshot" /\ pc'[w] = "check" /\ Same(w)
              \/ pc[w] = "dry-snapshot" /\ pc'[w] = "dry-run" /\ Same(w)
  <2>1. Silent(w)
    BY <1>2 DEF Silent, Leaves, EndPcs
  <2> QED BY <1>1, <1>2, <2>1, SilentStep, FilesDone, RemoteKept DEF Others, Alike, outer
<1>3. ASSUME NEW r \in Runs, Writes(w, r) PROVE RemoteInv'
  <2>1. \A q \in Runs \ {r} : run'[q] = run[q]
    BY <1>3 DEF Writes, RunIs
  <2>2. CASE pc[w] \in {"record-run", "resolve-run"}
    <3>1. /\ pc'[w] = "complete" /\ Kept(w) /\ r = job[w].run
          /\ RunIs(r, FALSE, NoKey, 0, TRUE)
          /\ run'[r].receipt = job[w].receipt \/ (run[r].done /\ run'[r].receipt = run[r].receipt)
      BY <1>3, <2>2 DEF Writes
    <3>2. run'[r] # None /\ run'[r].done
      BY <3>1 DEF RunIs
    <3>3. remote[r] = "complete" /\ job[w].receipt \in receipts
      BY <2>2, <3>1 DEF RemoteInv, Arrived
    <3>4. DoneKept
      BY <2>1, <3>2 DEF DoneKept
    <3>5. run'[r].receipt \in receipts
      BY <1>3, <2>2, <3>1, <3>3 DEF RemoteInv, Writes
    <3>6. DoneArrived'
      BY <1>1, <2>1, <3>3, <3>5 DEF DoneArrived, RemoteInv, outer
    <3>7. Arrived(w)' /\ Answers(w)'
      BY <3>1, <3>2 DEF Arrived, Answers, EndPcs, Kept
    <3> QED BY <1>1, <3>4, <3>6, <3>7, FilesDone, RemoteKept DEF Others, Alike, outer
  <2>3. CASE pc[w] \notin {"record-run", "resolve-run"}
    <3>1. Silent(w)
      BY <1>3, <2>3 DEF Writes, Silent, EndPcs
    <3>2. /\ run[r] # None /\ run[r].done => run'[r] # None /\ run'[r].done
          /\ run'[r] # None /\ run'[r].done
                => run[r] # None /\ run[r].done /\ run'[r].receipt = run[r].receipt
      BY <1>3, <2>3 DEF Writes, RunIs, Reserves, MayRelease
    <3>3. DoneKept
      BY <2>1, <3>2 DEF DoneKept
    <3>4. DoneArrived'
      BY <1>1, <2>1, <3>2 DEF DoneArrived, RemoteInv, outer
    <3> QED BY <1>1, <3>1, <3>3, <3>4, SilentStep, FilesDone, RemoteKept DEF Others, Alike, outer
  <2> QED BY <2>2, <2>3
<1> QED BY <1>1, <1>2, <1>3

LEMMA RemoteStep ==
    ASSUME TypeOK, TokenInv, LockInv, ClaimInv, AtMostOneTransfer, RemoteInv, [Next]_vars
    PROVE  RemoteInv'
<1>1. CASE UNCHANGED vars
  BY <1>1 DEF vars, RemoteInv, Arrived, Answers
<1>2. CASE Next
  <2>1. PICK w \in Workers : Step(w) \/ \E q \in Requests : Call(w, q)
    BY <1>2 DEF Next
  <2>k. ASSUME Others(w), UNCHANGED <<idem, run, remote, begun, answered>>,
               receipts \subseteq receipts', Arrived(w)', Answers(w)'
        PROVE  RemoteInv'
    BY <2>k, FilesDone, RemoteKept DEF Others, Alike
  <2>w. Arrived(w) /\ Answers(w)
    BY DEF RemoteInv
  <2>2. CASE \E q \in Requests : Call(w, q)
    <3>1. /\ Others(w) /\ UNCHANGED <<idem, run, receipts, remote, begun, answered>>
          /\ Silent(w)
      BY <2>2, CallEffect DEF Silent, EndPcs, files
    <3> QED BY <3>1, <2>k, SilentStep
  <2>3. CASE \/ Admit(w) \/ ReadAdmission(w) \/ Replay(w) \/ GoOn(w) \/ Check(w)
             \/ GiveUp(w) \/ NothingSent(w) \/ Compare(w) \/ ListOthers(w) \/ SkipOther(w)
             \/ Refuse(w)
    <3>1. Others(w) /\ UNCHANGED <<idem, run, receipts, remote, begun, answered>>
      BY <2>3, LocalEffect DEF files, outer
    <3>2. \/ Silent(w)
          \/ Same(w) /\ pc'[w] = "forget"
                     /\ Replayable(job[w].key) /\ job'[w].run = idem[job[w].key].run
          \/ Kept(w) /\ pc'[w] = "resolve" /\ remote[job[w].run] = "complete"
          \/ Kept(w) /\ pc'[w] = "others"
                     /\ (pc[w] \in {"list", "others"} \/ run[job[w].run].done)
      BY <2>3, LocalEffect DEF Silent, EndPcs, Leaves
    <3>3. CASE Silent(w)
      BY <3>1, <3>3, <2>k, SilentStep
    <3>4. CASE /\ Same(w) /\ pc'[w] = "forget"
               /\ Replayable(job[w].key) /\ job'[w].run = idem[job[w].key].run
      <4>1. Arrived(w)' /\ Answers(w)'
        BY <3>1, <3>4 DEF Arrived, Answers, EndPcs, Same, Replayable
      <4> QED BY <3>1, <4>1, <2>k
    <3>5. CASE Kept(w) /\ pc'[w] = "resolve" /\ remote[job[w].run] = "complete"
      <4>1. Arrived(w)' /\ Answers(w)'
        BY <3>1, <3>5 DEF Arrived, Answers, EndPcs, Kept
      <4> QED BY <3>1, <4>1, <2>k
    <3>6. CASE /\ Kept(w) /\ pc'[w] = "others"
               /\ (pc[w] \in {"list", "others"} \/ run[job[w].run].done)
      <4>1. Arrived(w)' /\ Answers(w)'
        BY <3>1, <3>6, <2>w DEF Arrived, Answers, EndPcs, Kept
      <4> QED BY <3>1, <4>1, <2>k
    <3> QED BY <3>2, <3>3, <3>4, <3>5, <3>6
  <2>4. CASE Prepare(w) \/ Start(w)
    <3>1. /\ Others(w) /\ UNCHANGED <<idem, run, receipts, remote, begun, answered>>
          /\ Silent(w)
      BY <2>4, ClaimEffect DEF Silent, EndPcs, outer
    <3> QED BY <3>1, <2>k, SilentStep
  <2>5. CASE RollbackIdem(w) \/ ClaimIdem(w) \/ DropIdem(w) \/ Complete(w)
    <3>1. /\ Others(w) /\ UNCHANGED <<adm, run, use, receipts, lock, outer>> /\ Kept(w)
      BY <2>5, IdemEffect DEF LockInv
    <3>2. CompletedKept
      BY <2>5, IdemEffect DEF LockInv, CompletedKept, IdemIs
    <3>3. \/ Silent(w)
          \/ pc[w] = "complete" /\ pc'[w] = "settle"
             /\ idem'[job[w].key] # None /\ idem'[job[w].key].st = "completed"
      BY <2>5, IdemEffect DEF LockInv, Silent, EndPcs
    <3>4. Arrived(w)' /\ Answers(w)'
      <4>1. CASE /\ pc[w] = "complete" /\ pc'[w] = "settle"
                 /\ idem'[job[w].key] # None /\ idem'[job[w].key].st = "completed"
        BY <3>1, <4>1, <2>w DEF Arrived, Answers, EndPcs, Kept, Same
      <4> QED BY <3>3, <4>1, SilentStep
    <3> QED BY <3>1, <3>2, <3>4, FilesDone, RemoteKept DEF Others, Alike, outer
  <2>6. CASE RollbackUse(w) \/ Approve(w) \/ DropUse(w)
    <3>1. /\ Others(w) /\ UNCHANGED <<idem, run, receipts, remote, begun, answered>>
          /\ Silent(w)
      BY <2>6, UseEffect DEF LockInv, Silent, EndPcs, outer
    <3> QED BY <3>1, <2>k, SilentStep
  <2>7. CASE \E k \in Keys : RollbackRun(w, k)
    <3>1. PICK k \in Keys : RollbackRun(w, k)
      BY <2>7
    <3>2. \A v \in Workers \ {w} : Alike(v)
      BY <3>1, RollbackMoves DEF Alike
    <3>3. Silent(w) /\ UNCHANGED <<idem, receipts, remote, begun, answered>>
      BY <3>1, RollbackMoves, RollbackEffect DEF Silent, EndPcs, outer
    <3>4. CASE run' = run
      BY <3>2, <3>3, <3>4, SilentStep, FilesDone, RemoteKept
    <3>5. ASSUME NEW r \in Runs, run[r] # None, ~run[r].done, RunIs(r, FALSE, NoKey, 0, FALSE)
          PROVE  RemoteInv'
      <4>1. DoneKept /\ DoneArrived'
        BY <3>3, <3>5 DEF RunIs, DoneKept, DoneArrived, RemoteInv
      <4> QED BY <3>2, <3>3, <4>1, SilentStep, FilesDone, RemoteKept
    <3> QED BY <3>1, <3>4, <3>5, RollbackEffect
  <2>8. CASE Record(w) \/ DryReceipt(w) \/ Resolve(w) \/ Reconcile(w)
    <3>1. /\ Others(w) /\ UNCHANGED <<adm, idem, run, use, outer>> /\ receipts \subseteq receipts'
          /\ \/ Leaves(w)
             \/ /\ Kept(w) /\ pc[w] = "record" /\ pc'[w] = "record-run"
                /\ job'[w].receipt \in receipts'
             \/ /\ job'[w].run = job[w].run
                /\ \/ pc[w] = "resolve" /\ pc'[w] = "resolve-run" /\ job'[w].receipt \in receipts'
                   \/ pc[w] = "others" /\ pc'[w] = "complete"
                   \/ pc[w] = "others" /\ pc'[w] = "settle"
                      /\ idem[job'[w].key] # None /\ idem[job'[w].key].st = "completed"
      BY <2>8, ReceiptEffect
    <3>2. Arrived(w)' /\ Answers(w)'
      BY <3>1, <2>w DEF Arrived, Answers, EndPcs, Kept, Leaves, outer
    <3> QED BY <3>1, <3>2, <2>k DEF outer
  <2> QED BY <2>1, <2>2, <2>3, <2>4, <2>5, <2>6, <2>7, <2>8, StepCases, RemoteDrop,
             RemoteRunSteps, RemoteBegin, RemoteEnd
<1> QED BY <1>1, <1>2

-----------------------------------------------------------------------------
(* Dry runs: a request gets to its intent through Check only, with the     *)
(* run it has checked, and nothing is ever taken out of receipts/.         *)
Forward(w) ==
    /\ \A v \in Workers \ {w} : pc'[v] = pc[v] /\ job'[v].run = job[v].run
    /\ receipts \subseteq receipts'
    /\ \A r \in Runs : run'[r] # None /\ run'[r].dryReceipt # None =>
        \/ run'[r].dryReceipt.run = r
        \/ run[r] # None /\ run'[r].dryReceipt = run[r].dryReceipt
    /\ pc'[w] \in TriedPcs =>
        /\ job'[w].run = job[w].run
        /\ pc[w] \in TriedPcs \/ (pc[w] = "check" /\ MayWrite(w))
    /\ \A b \in begun' : b \in begun \/ (pc[w] \in TriedPcs /\ b.run = job[w].run)

LEMMA DryKept ==
    ASSUME TypeOK, DryInv, NEW w \in Workers, Forward(w) PROVE DryInv'
<1> DEFINE Still(r) == DryRunRequired => \E x \in receipts' : x.kind = "dry-passed" /\ x.run = r
<1>1. \A r : Tried(r) => Still(r)
  BY DEF Tried, Forward
<1> HIDE DEF Still
<1>2. pc'[w] \in TriedPcs => Tried(job[w].run)
  <2>1. CASE pc[w] \in TriedPcs
    BY <2>1 DEF DryInv
  <2>2. CASE pc[w] = "check" /\ MayWrite(w)
    <3>1. job[w].run \in Runs /\ run[job[w].run] # None
      BY <2>2, ItsJob DEF JobOf, Suits, Fits, Known, RanPcs
    <3> DEFINE x == run[job[w].run].dryReceipt
    <3>2. DryRunRequired => x \in receipts /\ x.kind = "dry-passed"
      BY <2>2 DEF MayWrite, DryRunOK
    <3>3. DryRunRequired => x # None
      BY <3>2, NoneAssumption DEF TypeOK, FilesOK
    <3>4. DryRunRequired => x.run = job[w].run
      BY <3>1, <3>3 DEF DryInv
    <3> QED BY <3>2, <3>4 DEF Tried
  <2> QED BY <2>1, <2>2 DEF Forward
<1>3. \A r \in Runs : run'[r] # None /\ run'[r].dryReceipt # None => run'[r].dryReceipt.run = r
  BY DEF DryInv, Forward
<1>4. ASSUME NEW v \in Workers, pc'[v] \in TriedPcs PROVE Still(job'[v].run)
  <2>1. CASE v = w
    BY <1>1, <1>2, <1>4, <2>1 DEF Forward
  <2>2. CASE v # w
    <3>1. pc'[v] = pc[v] /\ job'[v].run = job[v].run
      BY <2>2 DEF Forward
    <3>2. Tried(job[v].run)
      BY <1>4, <3>1 DEF DryInv
    <3> QED BY <1>1, <3>1, <3>2
  <2> QED BY <2>1, <2>2
<1>5. ASSUME NEW b \in begun' PROVE Still(b.run)
  <2>1. CASE b \in begun
    BY <1>1, <2>1 DEF DryInv
  <2>2. CASE pc[w] \in TriedPcs /\ b.run = job[w].run
    BY <1>1, <2>2 DEF DryInv
  <2> QED BY <2>1, <2>2 DEF Forward
<1> QED BY <1>3, <1>4, <1>5 DEF DryInv, Tried, Still

(* Steps that leave receipts, run records and transfers as they are.       *)
LEMMA DryQuiet ==
    ASSUME NEW w \in Workers, Others(w), UNCHANGED <<run, receipts, begun>>,
           \/ pc'[w] \notin TriedPcs
           \/ Kept(w) /\ pc[w] \in TriedPcs
           \/ Kept(w) /\ pc[w] = "check" /\ MayWrite(w)
    PROVE  Forward(w)
BY DEF Others, Forward, Kept

LEMMA DryAdmSteps ==
    ASSUME TypeOK, NEW w \in Workers,
           RollbackAdm(w) \/ Forget(w) \/ DropAdm(w) \/ SettleWriter(w) \/ SettleVerified(w)
    PROVE  Forward(w)
<1>1. CASE RollbackAdm(w)
  <2>1. /\ Go(w, "enter") /\ Keep(w, [job[w] EXCEPT !.todo = {}])
        /\ UNCHANGED <<idem, run, use, receipts, outer>>
    BY <1>1 DEF RollbackAdm
  <2>2. pc'[w] \notin TriedPcs /\ Others(w)
    BY <2>1, Went DEF TriedPcs, ClaimedPcs, BackPcs, SentPcs
  <2> QED BY <2>1, <2>2, DryQuiet DEF outer
<1>2. CASE Forget(w) \/ DropAdm(w) \/ SettleWriter(w)
  <2>1. End(w) /\ UNCHANGED <<run, receipts, begun>>
    BY <1>2 DEF Forget, DropAdm, SettleWriter, outer
  <2>2. pc'[w] \notin TriedPcs /\ Others(w)
    BY <2>1, Left DEF Leaves, TriedPcs, ClaimedPcs, BackPcs, SentPcs
  <2> QED BY <2>1, <2>2, DryQuiet
<1>3. CASE SettleVerified(w)
  <2>1. /\ Go(w, IF job[w].todo = {} THEN "list" ELSE "others")
        /\ Keep(w, [job[w] EXCEPT !.todo = @ \ {job[w].key}])
        /\ UNCHANGED <<idem, run, use, receipts, outer>>
    BY <1>3 DEF SettleVerified
  <2>2. pc'[w] \notin TriedPcs /\ Others(w)
    BY <2>1, Went DEF TriedPcs, ClaimedPcs, BackPcs, SentPcs
  <2> QED BY <2>1, <2>2, DryQuiet DEF outer
<1> QED BY <1>1, <1>2, <1>3

LEMMA DryIdemSteps ==
    ASSUME TypeOK, NEW w \in Workers,
           \/ RollbackIdem(w) \/ ClaimIdem(w) \/ DropIdem(w) \/ Complete(w)
           \/ RollbackUse(w) \/ Approve(w) \/ DropUse(w)
    PROVE  Forward(w)
<1> USE DEF At, Locked
<1>1. CASE RollbackIdem(w) \/ Complete(w) \/ RollbackUse(w)
  <2>1. /\ job' = job /\ UNCHANGED <<run, receipts, begun>>
        /\ Go(w, "roll-use") \/ Go(w, "settle") \/ Go(w, "roll-adm")
    BY <1>1 DEF RollbackIdem, Complete, RollbackUse, outer
  <2>2. pc'[w] \notin TriedPcs /\ Others(w)
    BY <2>1, Went DEF TriedPcs, ClaimedPcs, BackPcs, SentPcs
  <2> QED BY <2>1, <2>2, DryQuiet
<1>2. CASE DropIdem(w) \/ Approve(w) \/ DropUse(w)
  <2>1. /\ job' = job /\ UNCHANGED <<run, receipts, begun>> /\ pc[w] \in TriedPcs
        /\ Go(w, "drop-use") \/ Go(w, "reserve") \/ Go(w, "drop-adm")
    BY <1>2 DEF DropIdem, Approve, DropUse, outer, TriedPcs, ClaimedPcs, BackPcs
  <2>2. Kept(w) /\ Others(w)
    BY <2>1, Went
  <2> QED BY <2>1, <2>2, DryQuiet
<1>3. CASE ClaimIdem(w)
  <2>1. /\ pc[w] \in TriedPcs /\ Go(w, "approve") /\ UNCHANGED <<run, receipts, begun>>
        /\ Keep(w, [job[w] EXCEPT !.claimed = ~job[w].recovering, !.reserved = job[w].seen])
    BY <1>3 DEF ClaimIdem, outer, TriedPcs
  <2>2. Others(w) /\ job'[w] = [job[w] EXCEPT !.claimed = ~job[w].recovering,
                                              !.reserved = job[w].seen]
    BY <2>1, Went
  <2>3. Kept(w)
    BY <2>2, ItsJob DEF JobOf, Job, Kept, Same
  <2> QED BY <2>1, <2>2, <2>3, DryQuiet
<1> QED BY <1>1, <1>2, <1>3

LEMMA DryRunSteps ==
    ASSUME TypeOK, NEW w \in Workers,
           \/ Snapshot(w) \/ Reserve(w) \/ Release(w) \/ RecordRun(w)
           \/ DrySnapshot(w) \/ DryRun(w) \/ ResolveRun(w)
    PROVE  Forward(w)
<1>1. /\ Others(w) /\ UNCHANGED <<adm, idem, use, receipts, outer>>
      /\ \/ /\ run' = run
            /\ \/ pc[w] = "release" /\ Leaves(w)
               \/ pc[w] = "snapshot" /\ pc'[w] = "check" /\ Same(w)
               \/ pc[w] = "dry-snapshot" /\ pc'[w] = "dry-run" /\ Same(w)
         \/ \E r \in Runs : Writes(w, r)
  BY RunEffect
<1>2. CASE /\ run' = run
           /\ \/ pc[w] = "release" /\ Leaves(w)
              \/ pc[w] = "snapshot" /\ pc'[w] = "check" /\ Same(w)
              \/ pc[w] = "dry-snapshot" /\ pc'[w] = "dry-run" /\ Same(w)
  <2>1. pc'[w] \notin TriedPcs
    BY <1>2 DEF Leaves, TriedPcs, ClaimedPcs, BackPcs, SentPcs
  <2> QED BY <1>1, <1>2, <2>1, DryQuiet DEF outer
<1>3. ASSUME NEW r \in Runs, Writes(w, r) PROVE Forward(w)
  <2>1. \A q \in Runs \ {r} : run'[q] = run[q]
    BY <1>3 DEF Writes, RunIs
  <2>2. run'[r] # None /\ run'[r].dryReceipt # None =>
            \/ run'[r].dryReceipt.run = r
            \/ run[r] # None /\ run'[r].dryReceipt = run[r].dryReceipt
    BY <1>3 DEF Writes, Kept2
  <2>3. pc'[w] \in TriedPcs => pc[w] \in TriedPcs /\ job'[w].run = job[w].run
    BY <1>3 DEF Writes, Kept, TriedPcs, ClaimedPcs, BackPcs, SentPcs
  <2> QED BY <1>1, <2>1, <2>2, <2>3 DEF Forward, Others, outer
<1> QED BY <1>1, <1>2, <1>3

LEMMA DryStep ==
    ASSUME TypeOK, DryInv, [Next]_vars PROVE DryInv'
<1>1. CASE UNCHANGED vars
  BY <1>1 DEF vars, DryInv, Tried
<1>2. CASE Next
  <2>1. PICK w \in Workers : Step(w) \/ \E q \in Requests : Call(w, q)
    BY <1>2 DEF Next
  <2> SUFFICES Forward(w)
    BY DryKept
  <2> USE DEF TriedPcs, ClaimedPcs, BackPcs, SentPcs
  <2>2. CASE \E q \in Requests : Call(w, q)
    <3>1. Others(w) /\ UNCHANGED <<run, receipts, begun>> /\ pc'[w] \notin TriedPcs
      BY <2>2, CallEffect DEF files
    <3> QED BY <3>1, DryQuiet
  <2>3. CASE \/ Admit(w) \/ ReadAdmission(w) \/ Replay(w) \/ GoOn(w) \/ Check(w)
             \/ GiveUp(w) \/ NothingSent(w) \/ Compare(w) \/ ListOthers(w) \/ SkipOther(w)
             \/ Refuse(w)
    <3>1. Others(w) /\ UNCHANGED <<run, receipts, begun>>
      BY <2>3, LocalEffect DEF files, outer
    <3>2. \/ pc'[w] \notin TriedPcs
          \/ Kept(w) /\ pc[w] \in TriedPcs
          \/ Kept(w) /\ pc[w] = "check" /\ MayWrite(w)
      BY <2>3, LocalEffect DEF Leaves
    <3> HIDE DEF TriedPcs
    <3> QED BY <3>1, <3>2, DryQuiet
  <2>4. CASE Prepare(w) \/ Start(w)
    <3>1. Others(w) /\ UNCHANGED <<run, receipts, begun>> /\ Kept(w) /\ pc[w] \in TriedPcs
      BY <2>4, ClaimEffect DEF outer
    <3> QED BY <3>1, DryQuiet
  <2>5. CASE \E k \in Keys : RollbackRun(w, k)
    <3>1. PICK k \in Keys : RollbackRun(w, k)
      BY <2>5
    <3>2. /\ pc'[w] \notin TriedPcs
          /\ \A v \in Workers \ {w} : pc'[v] = pc[v] /\ job'[v].run = job[v].run
      BY <3>1, RollbackMoves
    <3>3. /\ UNCHANGED <<receipts, begun>>
          /\ \A r \in Runs : run'[r] # None /\ run'[r].dryReceipt # None =>
                run[r] # None /\ run'[r].dryReceipt = run[r].dryReceipt
      BY <3>1, RollbackEffect DEF RunIs, Kept2, outer
    <3> QED BY <3>2, <3>3 DEF Forward
  <2>6. CASE BeginTransfer(w)
    <3>1. Others(w) /\ UNCHANGED <<run, receipts>> /\ Kept(w) /\ pc[w] \in TriedPcs
      BY <2>6, BeginEffect DEF files
    <3>2. PICK c : c = [run |-> job[w].run, key |-> job[w].key, token |-> job[w].token,
                        approval |-> job[w].approval]
      OBVIOUS
    <3>3. begun' = begun \cup {c} /\ c.run = job[w].run
      BY <2>6, <3>2, BeginEffect
    <3> QED BY <3>1, <3>3 DEF Forward, Others, Kept
  <2>7. CASE EndTransfer(w) \/ Stop(w)
    <3>1. /\ Others(w) /\ UNCHANGED <<run, receipts, begun>>
          /\ pc'[w] \notin TriedPcs \/ (Kept(w) /\ pc[w] \in TriedPcs)
      BY <2>7, EndEffect DEF files, Leaves
    <3> QED BY <3>1, DryQuiet
  <2>8. CASE Record(w) \/ DryReceipt(w) \/ Resolve(w) \/ Reconcile(w)
    <3>1. /\ Others(w) /\ UNCHANGED <<run, begun>> /\ receipts \subseteq receipts'
          /\ pc'[w] \notin TriedPcs \/ (Kept(w) /\ pc[w] \in TriedPcs)
      BY <2>8, ReceiptEffect DEF outer, Leaves
    <3> HIDE DEF TriedPcs
    <3> QED BY <3>1 DEF Forward, Others, Kept
  <2> QED BY <2>1, <2>2, <2>3, <2>4, <2>5, <2>6, <2>7, <2>8, StepCases, DryAdmSteps,
             DryIdemSteps, DryRunSteps
<1> QED BY <1>1, <1>2

-----------------------------------------------------------------------------
(* Answers: what a caller may be told of has been paid for by its own key. *)
(* The receipt in a run record names the key that sent the run, also if    *)
(* VERIFY has put it in: the reservation that VERIFY resolves is that of   *)
(* the transfer, since nobody else could take the run over.                *)
Paid(bs, k, r) == \E b \in bs : b.key = k /\ b.run = r
StoringPcs == {"record-run", "resolve-run"}
PaidPcs == {"forget"} \cup StoringPcs \cup EndPcs
Pays(w) ==
    /\ pc[w] \in StoringPcs => job[w].receipt.key = job[w].key
    /\ pc[w] \in PaidPcs /\ (pc[w] \in EndPcs => job[w].op = "replicate")
        => Paid(begun, job[w].key, job[w].run)
PaidInv ==
    /\ \A w \in Workers : Pays(w)
    /\ \A r \in Runs : run[r] # None /\ run[r].done => Paid(begun, run[r].receipt.key, r)
    /\ \A p \in answered : Paid(begun, p[1], p[2])

LEMMA PaidKept ==
    ASSUME PaidInv, NEW w \in Workers, begun \subseteq begun',
           \A v \in Workers \ {w} : /\ Alike(v) /\ job'[v].op = job[v].op,
           \A r \in Runs : run'[r] # None /\ run'[r].done =>
                \/ run[r] # None /\ run[r].done /\ run'[r].receipt = run[r].receipt
                \/ Paid(begun', run'[r].receipt.key, r),
           \A p \in answered' : p \in answered \/ Paid(begun', p[1], p[2]),
           Pays(w)'
    PROVE  PaidInv'
<1>1. \A k, r : Paid(begun, k, r) => Paid(begun', k, r)
  BY DEF Paid
<1>2. ASSUME NEW v \in Workers, v # w PROVE Pays(v)'
  BY <1>1, <1>2 DEF PaidInv, Pays, Alike
<1>3. \A r \in Runs : run'[r] # None /\ run'[r].done => Paid(begun', run'[r].receipt.key, r)
  BY <1>1 DEF PaidInv
<1>4. \A p \in answered' : Paid(begun', p[1], p[2])
  BY <1>1 DEF PaidInv
<1> QED BY <1>2, <1>3, <1>4 DEF PaidInv

(* Which steps touch the receiver, its transfers and the answers.          *)
LEMMA OuterCases ==
    ASSUME NEW w \in Workers, Step(w)
    PROVE  \/ BeginTransfer(w) \/ EndTransfer(w) \/ Stop(w) \/ Forget(w) \/ SettleWriter(w)
           \/ UNCHANGED <<remote, begun, answered>>
BY DEF Step, Rollback, RollbackRun, RollbackIdem, RollbackUse, RollbackAdm, Admit,
   Replicate, ReadAdmission, Replay, GoOn, Unknown, Refuse, Snapshot, Check,
   Prepare, ClaimIdem, Approve, Reserve, Start, Record, RecordRun,
   GoBack, GiveUp, NothingSent, Release, DropIdem, DropUse, DropAdm, Complete,
   DrySnapshot, DryRun, DryReceipt, Verify, Compare, Resolve, ResolveRun,
   SettleVerified, ListOthers, Reconcile, SkipOther, Verified, outer, Zenon

(* Who answers has been paid for, and the receiver has its run.            *)
LEMMA TellEffect ==
    ASSUME TypeOK, RemoteInv, PaidInv, NEW w \in Workers, Forget(w) \/ SettleWriter(w)
    PROVE  /\ answered' = answered \cup {<<job[w].key, job[w].run>>}
           /\ UNCHANGED <<run, remote, begun>> /\ Others(w) /\ pc'[w] = "idle"
           /\ Paid(begun, job[w].key, job[w].run) /\ job[w].run \in Runs
           /\ remote[job[w].run] = "complete"
<1>1. /\ answered' = answered \cup {<<job[w].key, job[w].run>>}
      /\ UNCHANGED <<run, remote, begun>> /\ End(w)
      /\ pc[w] = "forget" \/ (pc[w] = "settle" /\ job[w].op = "replicate")
  BY DEF Forget, SettleWriter, Locked, At
<1>2. Others(w) /\ pc'[w] = "idle"
  BY <1>1, Left DEF Leaves
<1>3. Paid(begun, job[w].key, job[w].run)
  BY <1>1 DEF PaidInv, Pays, PaidPcs, EndPcs
<1>4. job[w].run \in Runs /\ run[job[w].run] # None /\ run[job[w].run].done
  BY <1>1, ItsRun DEF RemoteInv, Answers, EndPcs
<1> QED BY <1>1, <1>2, <1>3, <1>4 DEF RemoteInv

(* The ways to an answer: a replay, ...                                    *)
LEMMA ReplayPays ==
    ASSUME TypeOK, PaidInv, NEW w \in Workers, Replay(w) PROVE Pays(w)'
<1> DEFINE k == job[w].key
           r == idem[k].run
<1>1. /\ pc[w] = "replay" /\ Replayable(k) /\ UNCHANGED begun
      /\ Go(w, "forget") /\ Keep(w, [job[w] EXCEPT !.run = r])
  BY DEF Replay, At, outer
<1>2. k \in Keys /\ job[w] \in Job
  BY <1>1, ItsJob DEF JobOf, Suits, Fits, ReplicatePcs
<1>3. r \in Runs /\ run[r] # None
  BY <1>1, <1>2 DEF TypeOK, FilesOK, RunsThere, IdemFile, Replayable
<1>4. run[r].done /\ run[r].receipt.key = k
  BY <1>1 DEF Replayable
<1>5. Paid(begun, k, r)
  BY <1>3, <1>4 DEF PaidInv
<1>6. pc'[w] = "forget" /\ job'[w] = [job[w] EXCEPT !.run = r]
  BY <1>1, Went
<1>7. job'[w].key = k /\ job'[w].run = r
  BY <1>2, <1>6 DEF Job
<1>8. Paid(begun', job'[w].key, job'[w].run)
  BY <1>1, <1>5, <1>7 DEF Paid
<1> QED BY <1>6, <1>8 DEF Pays, StoringPcs, EndPcs

(* ... the writer itself, ...                                              *)
LEMMA RecordPays ==
    ASSUME TypeOK, ClaimInv, NEW w \in Workers, Record(w) PROVE Pays(w)'
<1> DEFINE c == ReceiptOf("written", job[w].token, job[w].key, job[w].run)
           t == job[w].token
<1>1. /\ pc[w] = "record" /\ Go(w, "record-run") /\ UNCHANGED begun
      /\ Keep(w, [job[w] EXCEPT !.owner = t, !.receipt = c])
  BY DEF Record, At, outer
<1>2. c.key = job[w].key
  BY DEF ReceiptOf
<1>3. Paid(begun, job[w].key, job[w].run)
  BY <1>1 DEF ClaimInv, Sends, SentPcs, Paid
<1> HIDE DEF c, t
<1>4. pc'[w] = "record-run" /\ job'[w] = [job[w] EXCEPT !.owner = t, !.receipt = c]
  BY <1>1, Went
<1>5. /\ job'[w].key = job[w].key /\ job'[w].run = job[w].run /\ job'[w].receipt = c
  BY <1>4, ItsJob DEF JobOf, Job
<1>6. Paid(begun', job'[w].key, job'[w].run)
  BY <1>1, <1>3, <1>5 DEF Paid
<1> QED BY <1>2, <1>4, <1>5, <1>6 DEF Pays, EndPcs

(* ... and a VERIFY that finds the run there: whoever sent it has kept the *)
(* reservation.                                                            *)
LEMMA ResolvePays ==
    ASSUME TypeOK, ClaimInv, RemoteInv, NEW w \in Workers, Resolve(w) PROVE Pays(w)'
<1> DEFINE r == job[w].run
<1>1. PICK k \in Keys :
        /\ Unresolved(r, k)
        /\ Keep(w, [job[w] EXCEPT !.key = k, !.owner = adm[k].token,
                        !.receipt = ReceiptOf("verified", job[w].token, k, r)])
  BY DEF Resolve
<1> DEFINE c == ReceiptOf("verified", job[w].token, k, r)
           t == adm[k].token
           j == [job[w] EXCEPT !.key = k, !.owner = t, !.receipt = c]
<1>2. pc[w] = "resolve" /\ Go(w, "resolve-run") /\ Keep(w, j) /\ UNCHANGED begun
  BY <1>1 DEF Resolve, At, outer
<1>3. c.key = k
  BY DEF ReceiptOf
<1>4. r \in Runs /\ run[r] # None
  BY <1>2, ItsRun
<1>5. remote[r] = "complete"
  BY <1>2 DEF RemoteInv, Arrived
<1>6. PICK b \in begun : b.run = r
  BY <1>4, <1>5 DEF RemoteInv
<1>7. b.key = k
  BY <1>1, <1>6 DEF ClaimInv, RunSpent, Unresolved
<1> HIDE DEF c, t
<1>8. pc'[w] = "resolve-run" /\ job'[w] = j
  BY <1>2, Went
<1>9. job'[w].key = k /\ job'[w].run = r /\ job'[w].receipt = c
  BY <1>8, ItsJob DEF JobOf, Job
<1>10. Paid(begun', k, r)
  BY <1>2, <1>6, <1>7 DEF Paid
<1> QED BY <1>3, <1>8, <1>9, <1>10 DEF Pays, EndPcs

(* The run record takes the receipt over.                                  *)
LEMMA StorePays ==
    ASSUME TypeOK, PaidInv, NEW w \in Workers, RecordRun(w) \/ ResolveRun(w) PROVE PaidInv'
<1> DEFINE r == job[w].run
<1>1. /\ Others(w) /\ pc[w] \in StoringPcs /\ pc'[w] = "complete" /\ job'[w] = job[w]
      /\ UNCHANGED <<begun, answered>>
  BY Went DEF RecordRun, ResolveRun, Locked, At, StoringPcs, outer
<1>2. Paid(begun, job[w].key, r) /\ job[w].receipt.key = job[w].key
  BY <1>1 DEF PaidInv, Pays, PaidPcs, StoringPcs, EndPcs
<1>3. PICK q \in Runs : Writes(w, q)
  BY <1>1, RunEffect DEF StoringPcs, Leaves
<1>4. /\ q = r /\ \A p \in Runs \ {r} : run'[p] = run[p]
      /\ \/ run'[r].receipt = job[w].receipt
         \/ run[r].done /\ run[r] # None /\ run'[r].receipt = run[r].receipt
  BY <1>1, <1>3 DEF Writes, RunIs, StoringPcs
<1>5. Paid(begun', job[w].key, r)
  BY <1>1, <1>2 DEF Paid
<1>6. Pays(w)'
  BY <1>1, <1>5 DEF Pays, StoringPcs, PaidPcs, EndPcs
<1>7. \A p \in Runs : run'[p] # None /\ run'[p].done =>
        \/ run[p] # None /\ run[p].done /\ run'[p].receipt = run[p].receipt
        \/ Paid(begun', run'[p].receipt.key, p)
  BY <1>2, <1>4, <1>5
<1> QED BY <1>1, <1>6, <1>7, PaidKept DEF Others, Alike

LEMMA PaidStep ==
    ASSUME TypeOK, LockInv, ClaimInv, RemoteInv, PaidInv, [Next]_vars
    PROVE  PaidInv'
<1>1. CASE UNCHANGED vars
  BY <1>1 DEF vars, PaidInv, Pays, Paid
<1>2. CASE Next
  <2>1. PICK w \in Workers : Step(w) \/ \E q \in Requests : Call(w, q)
    BY <1>2 DEF Next
  <2>k. ASSUME Others(w), UNCHANGED <<run, answered>>, begun \subseteq begun', Pays(w)'
        PROVE  PaidInv'
    BY <2>k, PaidKept DEF Others, Alike
  <2>s. pc'[w] \notin PaidPcs => Pays(w)'
    BY DEF Pays, PaidPcs
  <2>2. CASE \E q \in Requests : Call(w, q)
    <3>1. Others(w) /\ UNCHANGED <<run, begun, answered>> /\ pc'[w] = "enter"
      BY <2>2, CallEffect DEF files
    <3> QED BY <3>1, <2>k, <2>s DEF PaidPcs, StoringPcs, EndPcs
  <2>3. CASE Replay(w)
    <3>1. Others(w) /\ UNCHANGED <<run, begun, answered>>
      BY <2>3, LocalEffect DEF files, outer
    <3> QED BY <2>3, <3>1, <2>k, ReplayPays
  <2>4. CASE \/ Admit(w) \/ ReadAdmission(w) \/ GoOn(w) \/ Check(w)
             \/ GiveUp(w) \/ NothingSent(w) \/ Compare(w) \/ ListOthers(w) \/ SkipOther(w)
             \/ Refuse(w)
    <3>1. Others(w) /\ UNCHANGED <<run, begun, answered>>
      BY <2>4, LocalEffect DEF files, outer
    <3>2. pc'[w] # "forget"
      <4>1. \/ job' = job /\ \E l \in {"read", "dry-snapshot", "compare"} : Go(w, l)
            \/ \E l \in {"replay", "snapshot", "prepare", "release", "drop-idem",
                         "resolve", "others"} : Go(w, l)
            \/ pc'[w] = pc[w] /\ pc[w] = "others"
            \/ End(w)
        <5>1. CASE Admit(w)
          <6>1. job' = job /\ pc[w] = "enter" /\ job[w].op \in {"replicate", "dry-run", "verify"}
            BY <5>1, ItsJob DEF Admit, At, JobOf, Suits, Fits, CallPcs
          <6> QED BY <5>1, <6>1 DEF Admit
        <5> QED BY <2>4, <5>1 DEF ReadAdmission, GoOn, Check, GiveUp, NothingSent, Compare,
                ListOthers, SkipOther, Refuse, At
      <4> QED BY <4>1, Went, Left DEF Leaves
    <3>3. pc'[w] \notin PaidPcs
      BY <2>4, <3>2, LocalEffect DEF Leaves, PaidPcs, StoringPcs, EndPcs
    <3> QED BY <3>1, <3>3, <2>k, <2>s
  <2>5. CASE Prepare(w) \/ Start(w)
    <3>1. Others(w) /\ UNCHANGED <<run, begun, answered>> /\ pc'[w] \in {"claim", "execute"}
      BY <2>5, ClaimEffect DEF outer
    <3> QED BY <3>1, <2>k, <2>s DEF PaidPcs, StoringPcs, EndPcs
  <2>6. CASE RollbackIdem(w) \/ ClaimIdem(w) \/ DropIdem(w)
    <3>1. Others(w) /\ UNCHANGED <<run, begun, answered>>
      BY <2>6, IdemEffect DEF LockInv, outer
    <3>2. pc'[w] \in {"roll-use", "approve", "drop-use"}
      BY <2>6, Went DEF RollbackIdem, ClaimIdem, DropIdem
    <3> QED BY <3>1, <3>2, <2>k, <2>s DEF PaidPcs, StoringPcs, EndPcs
  <2>7. CASE Complete(w)
    <3>1. /\ pc[w] = "complete" /\ pc'[w] = "settle" /\ job'[w] = job[w] /\ Others(w)
          /\ UNCHANGED <<run, begun, answered>>
      BY <2>7, Went DEF Complete, Locked, At, outer
    <3>2. Pays(w)'
      BY <3>1 DEF PaidInv, Pays, Paid, PaidPcs, StoringPcs, EndPcs
    <3> QED BY <3>1, <3>2, <2>k
  <2>8. CASE RollbackUse(w) \/ Approve(w) \/ DropUse(w)
    <3>1. Others(w) /\ UNCHANGED <<run, begun, answered>>
          /\ pc'[w] \in {"roll-adm", "reserve", "drop-adm"}
      BY <2>8, UseEffect DEF LockInv, outer
    <3> QED BY <3>1, <2>k, <2>s DEF PaidPcs, StoringPcs, EndPcs
  <2>9. CASE \E k \in Keys : RollbackRun(w, k)
    <3>1. PICK k \in Keys : RollbackRun(w, k)
      BY <2>9
    <3>2. /\ \A v \in Workers \ {w} : Alike(v) /\ job'[v].op = job[v].op
          /\ pc'[w] = "roll-idem"
      BY <3>1, RollbackMoves DEF Alike
    <3>3. UNCHANGED <<begun, answered>>
      BY <3>1, RollbackEffect DEF outer
    <3>4. \A r \in Runs : run'[r] # None /\ run'[r].done =>
            run[r] # None /\ run[r].done /\ run'[r].receipt = run[r].receipt
      BY <3>1, RollbackEffect DEF RunIs
    <3> QED BY <3>2, <3>3, <3>4, <2>s, PaidKept DEF PaidPcs, StoringPcs, EndPcs
  <2>10. CASE Snapshot(w) \/ Reserve(w) \/ Release(w) \/ DrySnapshot(w) \/ DryRun(w)
    <3>1. /\ Others(w) /\ UNCHANGED <<begun, answered>>
          /\ pc[w] \notin StoringPcs
          /\ \/ run' = run /\ pc'[w] \in {"idle", "check", "dry-run"}
             \/ \E r \in Runs : Writes(w, r)
      BY <2>10, RunEffect DEF Leaves, outer, StoringPcs, Snapshot, Reserve, Release,
         DrySnapshot, DryRun, Locked, At
    <3>2. CASE run' = run /\ pc'[w] \in {"idle", "check", "dry-run"}
      BY <3>1, <3>2, <2>k, <2>s DEF PaidPcs, StoringPcs, EndPcs
    <3>3. ASSUME NEW r \in Runs, Writes(w, r) PROVE PaidInv'
      <4>1. pc'[w] \in {"check", "dry-run", "dry-receipt", "start", "drop-idem"}
        BY <3>1, <3>3 DEF Writes, StoringPcs
      <4>2. /\ \A q \in Runs \ {r} : run'[q] = run[q]
            /\ run'[r] # None /\ run'[r].done =>
                run[r] # None /\ run[r].done /\ run'[r].receipt = run[r].receipt
        BY <3>1, <3>3 DEF Writes, RunIs, StoringPcs, Reserves, MayRelease
      <4> QED BY <3>1, <4>1, <4>2, <2>s, PaidKept DEF Others, Alike, PaidPcs, StoringPcs, EndPcs
    <3> QED BY <3>1, <3>2, <3>3
  <2>11. CASE BeginTransfer(w)
    <3>1. /\ Others(w) /\ UNCHANGED <<run, answered>> /\ begun \subseteq begun'
          /\ pc'[w] = "transfer"
      BY <2>11, BeginEffect DEF files
    <3> QED BY <3>1, <2>k, <2>s DEF PaidPcs, StoringPcs, EndPcs
  <2>12. CASE EndTransfer(w) \/ Stop(w)
    <3>1. /\ Others(w) /\ UNCHANGED <<run, begun, answered>> /\ pc'[w] \in {"idle", "record"}
      BY <2>12, EndEffect DEF files, Leaves
    <3> QED BY <3>1, <2>k, <2>s DEF PaidPcs, StoringPcs, EndPcs
  <2>13. CASE Record(w) \/ Resolve(w)
    <3>1. Others(w) /\ UNCHANGED <<run, begun, answered>>
      BY <2>13, ReceiptEffect DEF outer
    <3> QED BY <2>13, <3>1, <2>k, RecordPays, ResolvePays
  <2>14. CASE DryReceipt(w)
    <3>1. Others(w) /\ UNCHANGED <<run, begun, answered>> /\ pc'[w] = "idle"
      BY <2>14, Left DEF DryReceipt, Leaves, outer
    <3> QED BY <3>1, <2>k, <2>s DEF PaidPcs, StoringPcs, EndPcs
  <2>15. CASE Reconcile(w)
    <3>1. PICK k \in job[w].todo :
            /\ Keep(w, [job[w] EXCEPT !.key = k, !.owner = adm[k].token])
            /\ Go(w, IF idem[k].st = "completed" THEN "settle" ELSE "complete")
      BY <2>15 DEF Reconcile
    <3> DEFINE t == adm[k].token
    <3>2. pc[w] = "others" /\ UNCHANGED <<run, begun, answered>>
      BY <2>15 DEF Reconcile, At, outer
    <3>3. job[w].op = "verify" /\ job[w] \in Job
      BY <3>2, ItsJob DEF JobOf, Suits, Fits, VerifyPcs
    <3> HIDE DEF t
    <3>4. /\ Others(w) /\ pc'[w] \in EndPcs
          /\ job'[w] = [job[w] EXCEPT !.key = k, !.owner = t]
      BY <3>1, Went DEF EndPcs, t
    <3>5. job'[w].op = "verify"
      BY <3>3, <3>4 DEF Job
    <3>6. Pays(w)'
      BY <3>4, <3>5 DEF Pays, StoringPcs, EndPcs
    <3> QED BY <3>2, <3>4, <3>6, <2>k
  <2>16. CASE RollbackAdm(w) \/ DropAdm(w) \/ SettleVerified(w)
    <3>1. Others(w) /\ UNCHANGED <<run, begun, answered>>
          /\ pc'[w] \in {"enter", "idle", "list", "others"}
      BY <2>16, Went, Left DEF RollbackAdm, DropAdm, SettleVerified, Leaves, outer, End
    <3> QED BY <3>1, <2>k, <2>s DEF PaidPcs, StoringPcs, EndPcs
  <2>17. CASE Forget(w) \/ SettleWriter(w)
    <3>1. /\ Others(w) /\ UNCHANGED <<run, begun>> /\ pc'[w] = "idle"
          /\ \A p \in answered' : p \in answered \/ Paid(begun', p[1], p[2])
      BY <2>17, TellEffect
    <3> QED BY <3>1, <2>s, PaidKept DEF Others, Alike, PaidPcs, StoringPcs, EndPcs
  <2> QED BY <2>1, <2>2, <2>3, <2>4, <2>5, <2>6, <2>7, <2>8, <2>9, <2>10, <2>11, <2>12,
             <2>13, <2>14, <2>15, <2>16, <2>17, StepCases, StorePays
<1> QED BY <1>1, <1>2

-----------------------------------------------------------------------------
(* The theorems.                                                           *)
LEMMA InvInit == Init => Inv /\ AtMostOneTransfer
<1> SUFFICES ASSUME Init PROVE Inv /\ AtMostOneTransfer
  OBVIOUS
<1>1. /\ \A k \in Keys : adm[k] = None /\ idem[k] = None
      /\ \A r \in Runs : run[r] = None /\ remote[r] = "absent"
      /\ \A a \in Approvals : use[a] = None
      /\ \A w \in Workers : pc[w] = "idle" /\ job[w] = NoJob /\ NoJob.token = 0
      /\ attempts = 0 /\ begun = {} /\ answered = {}
  BY DEF Init, NoJob
<1>2. TypeOK
  BY TypeInit
<1>3. TokenInv
  BY <1>1 DEF TokenInv, Numbered, Marked, UnpreparedPcs, UnsentPcs, CallPcs, RollPcs,
              ClaimedPcs, BackPcs
<1>4. LockInv
  BY <1>1 DEF LockInv, RollsBack, Resolves, RollPcs
<1>5. ClaimInv
  BY <1>1 DEF ClaimInv, Mine, Holds, Started, Sends, ClaimedPcs, BackPcs, SentPcs
<1>6. RemoteInv
  BY <1>1 DEF RemoteInv, Arrived, Answers, EndPcs
<1>7. DryInv
  BY <1>1 DEF DryInv, TriedPcs, ClaimedPcs, BackPcs, SentPcs
<1>8. AtMostOneTransfer
  BY <1>1 DEF AtMostOneTransfer
<1> QED BY <1>2, <1>3, <1>4, <1>5, <1>6, <1>7, <1>8 DEF Inv

LEMMA InvStep ==
    ASSUME ClocksAgree, Inv, AtMostOneTransfer, [Next]_vars
    PROVE  Inv' /\ AtMostOneTransfer'
<1> USE DEF Inv
<1>1. TypeOK'
  BY TypeStep
<1>2. TokenInv'
  BY <1>1, TokenStep
<1>3. LockInv' /\ ClaimInv' /\ AtMostOneTransfer'
  BY LockStep, ClaimStep, OneTransferStep
<1>4. RemoteInv' /\ DryInv'
  BY RemoteStep, DryStep
<1> QED BY <1>1, <1>2, <1>3, <1>4

LEMMA InvHolds ==
    ASSUME ClocksAgree PROVE Spec => [](Inv /\ AtMostOneTransfer)
<1>1. Inv /\ AtMostOneTransfer /\ [Next]_vars => Inv' /\ AtMostOneTransfer'
  BY InvStep
<1> QED BY <1>1, InvInit, PTL DEF Spec

LEMMA FencedByInv ==
    ASSUME Inv PROVE TransferIsFenced
<1> SUFFICES ASSUME NEW w \in Workers, At(w, "transfer")
             PROVE  LET r == job[w].run  i == idem[job[w].key] IN
                    /\ run[r].wip /\ run[r].token = job[w].token /\ run[r].key = job[w].key
                    /\ i # None /\ i.token = job[w].token
                    /\ i.st = "in-progress" => Owns(w) /\ adm[job[w].key].st = "started"
  BY DEF TransferIsFenced
<1>1. PICK b \in begun : b.run = job[w].run /\ b.key = job[w].key /\ b.token = job[w].token
  BY DEF Inv, ClaimInv, Sends, SentPcs, At
<1>2. RunSpent(b) /\ KeySpent(b)
  BY DEF Inv, ClaimInv
<1>3. job[w].run \in Runs /\ run[job[w].run] # None
  BY ItsRun DEF Inv, At
<1>4. remote[job[w].run] = "partial"
  BY DEF Inv, RemoteInv, Arrived, At
<1>5. ~run[job[w].run].done
  BY <1>3, <1>4 DEF Inv, RemoteInv
<1> QED BY <1>1, <1>2, <1>5 DEF RunSpent, KeySpent, Owns

(* If the wall clock does not gain on the monotonic one, a run, a key and  *)
(* a one-time approval are each sent at most once: whatever retries,       *)
(* rollbacks of stale admissions, resolutions, kills and requests under    *)
(* other keys interleave between the accesses of _admit_and_execute.       *)
THEOREM OneTransfer ==
    ASSUME ClocksAgree PROVE Spec => []AtMostOneTransfer
BY InvHolds, PTL

(* While a transfer runs its reservation, its record and, until the record *)
(* is completed, its started admission are in place, so that the state     *)
(* from which _resolve_verified_run resolves it is on disk.                *)
THEOREM FencedTransfer ==
    ASSUME ClocksAgree PROVE Spec => []TransferIsFenced
<1>1. Inv => TransferIsFenced
  BY FencedByInv
<1> QED BY <1>1, InvHolds, PTL

(* Whatever a run record or an answer of REPLICATE says is replicated, the *)
(* receiver has, and the receipt of it is kept.                            *)
THEOREM DoneWasSent ==
    ASSUME ClocksAgree PROVE Spec => []DoneIsSent
<1>1. Inv => DoneIsSent
  BY DEF Inv, RemoteInv, DoneIsSent
<1> QED BY <1>1, InvHolds, PTL

(* Under dry_run_policy "required" nothing is sent before a dry run of the *)
(* same content has passed; this needs no assumption on the clocks.        *)
THEOREM DryRunComesFirst == Spec => []DryRunFirst
<1>1. Init => TypeOK /\ DryInv
  BY InvInit DEF Inv
<1>2. TypeOK /\ DryInv /\ [Next]_vars => TypeOK' /\ DryInv'
  BY TypeStep, DryStep
<1>3. DryInv => DryRunFirst
  BY DEF DryInv, Tried, DryRunFirst
<1> QED BY <1>1, <1>2, <1>3, PTL DEF Spec

(* The refinement: a transfer sends, its end or its interruption lets the  *)
(* run arrive, a replay or the end of a writer tells, and every other step *)
(* leaves sent, arrived and told alone.                                    *)
LEMMA SentBare ==
    /\ \A b : Bare(b).run = b.run /\ Bare(b).key = b.key /\ Bare(b).approval = b.approval
    /\ \A b \in begun : Bare(b) \in Sent
    /\ \A d \in Sent : \E b \in begun : d = Bare(b)
BY DEF Bare, Sent

LEMMA SendStep ==
    ASSUME Inv, NEW w \in Workers, BeginTransfer(w) PROVE Single!Send
<1> DEFINE r == job[w].run
           k == job[w].key
           a == job[w].approval
           c == [run |-> r, key |-> k, token |-> job[w].token, approval |-> a]
           d == Bare(c)
<1>1. /\ begun' = begun \cup {c} /\ answered' = answered /\ r \in Runs /\ pc[w] = "execute"
      /\ remote'[r] = "partial" /\ \A q \in Runs \ {r} : remote'[q] = remote[q]
  BY BeginEffect DEF Inv
<1>2. k \in Keys /\ a \in Approvals \cup {NoApproval}
  BY <1>1, ItsClaim DEF Inv, Claiming, ClaimedPcs
<1>3. \A b \in begun : b.run # r /\ b.key # k /\ (b.approval = a => b.approval = NoApproval)
  BY BeginIsNew DEF Inv
<1>4. remote[r] = "absent"
  BY <1>1, <1>3 DEF Inv, RemoteInv
<1>5. OnReceiver' = OnReceiver
  BY <1>1, <1>4 DEF OnReceiver
<1>6. Sent' = Sent \cup {d}
  <2> HIDE DEF c
  <2> QED BY <1>1 DEF Sent
<1>7. d = [run |-> r, key |-> k, approval |-> a]
  BY DEF Bare
<1>8. d \in Single!Transfer
  BY <1>1, <1>2, <1>7 DEF Single!Transfer
<1>9. \A b \in Sent : Single!Apart(d, b)
  <2>1. d.run = r /\ d.key = k /\ d.approval = a
    BY <1>7
  <2> HIDE DEF d
  <2> QED BY <1>3, <2>1, SentBare DEF Single!Apart
<1> HIDE DEF d
<1> QED BY <1>1, <1>5, <1>6, <1>8, <1>9 DEF Single!Send

LEMMA ArriveStep ==
    ASSUME Inv, NEW w \in Workers, EndTransfer(w) \/ Stop(w)
    PROVE  Single!Arrive \/ UNCHANGED Single!vars
<1> DEFINE r == job[w].run
<1>1. begun' = begun /\ answered' = answered
  BY EndEffect DEF Inv
<1>2. Sent' = Sent
  BY <1>1 DEF Sent
<1>3. CASE remote' = remote
  BY <1>1, <1>2, <1>3 DEF Single!vars, OnReceiver
<1>4. CASE /\ pc[w] = "transfer" /\ r \in Runs /\ remote'[r] \in {"partial", "complete"}
           /\ \A q \in Runs \ {r} : remote'[q] = remote[q]
  <2>1. remote[r] = "partial"
    BY <1>4 DEF Inv, RemoteInv, Arrived
  <2>2. PICK b \in begun : b.run = r
    BY <1>4 DEF Inv, ClaimInv, Sends, SentPcs
  <2>3. CASE remote'[r] = "partial"
    BY <1>1, <1>2, <1>4, <2>1, <2>3 DEF Single!vars, OnReceiver
  <2>4. CASE remote'[r] = "complete"
    <3>1. OnReceiver' = OnReceiver \cup {r}
      BY <1>4, <2>4 DEF OnReceiver
    <3>2. \E d \in Sent : d.run = r
      BY <2>2, SentBare
    <3> QED BY <1>1, <1>2, <3>1, <3>2 DEF Single!Arrive
  <2> QED BY <1>4, <2>3, <2>4
<1> QED BY <1>3, <1>4, EndEffect DEF Inv

LEMMA TellStep ==
    ASSUME Inv, PaidInv, NEW w \in Workers, Forget(w) \/ SettleWriter(w) PROVE Single!Tell
<1> DEFINE r == job[w].run
           k == job[w].key
<1>1. /\ answered' = answered \cup {<<k, r>>} /\ UNCHANGED <<remote, begun>>
      /\ Paid(begun, k, r) /\ r \in Runs /\ remote[r] = "complete"
  BY TellEffect DEF Inv
<1>2. r \in OnReceiver /\ UNCHANGED <<OnReceiver, Sent>>
  BY <1>1 DEF OnReceiver, Sent
<1>3. PICK b \in begun : b.key = k /\ b.run = r
  BY <1>1 DEF Paid
<1>4. \E d \in Sent : d.key = k /\ d.run = r
  BY <1>3, SentBare
<1> QED BY <1>1, <1>2, <1>4 DEF Single!Tell

LEMMA SingleStep ==
    ASSUME Inv, PaidInv, [Next]_vars PROVE [Single!Next]_(Single!vars)
<1>1. CASE UNCHANGED <<remote, begun, answered>>
  BY <1>1 DEF Single!vars, Sent, OnReceiver
<1>2. ASSUME NEW w \in Workers, Step(w) PROVE [Single!Next]_(Single!vars)
  BY <1>1, <1>2, OuterCases, SendStep, ArriveStep, TellStep DEF Single!Next
<1>3. CASE UNCHANGED vars
  BY <1>1, <1>3 DEF vars
<1>4. ASSUME NEW w \in Workers, NEW q \in Requests, Call(w, q)
      PROVE  UNCHANGED <<remote, begun, answered>>
  BY <1>4 DEF Call
<1> QED BY <1>1, <1>2, <1>3, <1>4 DEF Next

(* The broker implements the single transfer, for every number of runs,    *)
(* keys, approvals, requests and attempts: contents are sent at most once, *)
(* what has arrived is not sent over, and REPLICATE says OK, whether its   *)
(* writer, a replay of its record or a record that VERIFY has completed    *)
(* says so, only of a run that a transfer under its own key has delivered. *)
THEOREM BrokerSendsOnce ==
    ASSUME ClocksAgree PROVE Spec => ImplementsSingleTransfer
<1>1. Init => Single!Init
  BY DEF Init, Single!Init, Sent, OnReceiver
<1>2. Init => PaidInv
  BY DEF Init, PaidInv, Pays, PaidPcs, StoringPcs, EndPcs
<1>3. Inv /\ PaidInv /\ [Next]_vars => PaidInv'
  BY PaidStep DEF Inv
<1>4. Inv /\ PaidInv /\ [Next]_vars => [Single!Next]_(Single!vars)
  BY SingleStep
<1> QED BY <1>1, <1>2, <1>3, <1>4, InvHolds, PTL DEF Spec, ImplementsSingleTransfer, Single!Spec
================================================================================
