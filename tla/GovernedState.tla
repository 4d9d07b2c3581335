----------------------------- MODULE GovernedState -----------------------------
(***************************************************************************)
(* The state service of a project (core/state_service.py).  It evaluates   *)
(* gates on the tasks and decisions as their stores show them and records  *)
(* the outcome in the project's ledger; who rebuilds the project replays   *)
(* the ledger and never asks the stores again, except to validate what     *)
(* the recorded evaluations say of them.                                   *)
(*                                                                         *)
(* A call reads the ledger; then, one file after the other and without a   *)
(* lock, what the recorded evaluations claim, each live task, each live    *)
(* decision and its receipt, each task again and its receipt; and appends  *)
(* on the head it read.  The stores write a file, then its receipt and     *)
(* journal, then commit; readers see each step, and an undone transaction  *)
(* as well.  Of the same kind the files are read in any order (the code    *)
(* goes by their names).                                                   *)
(*                                                                         *)
(* The ledger is the part after Base, an initial ledger; associations,     *)
(* roles and phase changes come from trusted writers who do not check      *)
(* them (the association saga, scripts), public events from anyone.        *)
(***************************************************************************)
EXTENDS Governance

CONSTANTS
    Tasks, Decisions,
    Procs,         \* callers of the state service
    Base,          \* the ledger at first
    BaseTasks,     \* [Tasks -> state of the task at first]
    BaseDecisions, \* [Decisions -> status of the decision at first]
    Writes,        \* events of the trusted and of the public writers
    Calls,         \* calls of the state service
    Ends,          \* the terminal states that tasks come to
    MaxEvents,     \* bound on the events after Base
    MaxRevision    \* bound on the revisions of a task

VARIABLES
    log,         \* the events after Base
    task,        \* the snapshot file of each task
    journal,     \* what each task's journal shows of it, revision by revision
    receipts,    \* the completion receipts: <<task, revision>>
    decision,    \* the file of each decision
    answered,    \* the receipts of decisions: <<decision, status>>
    tx,          \* the open transaction of the stores (they share one lock)
    call,        \* what each caller is doing
    shown,       \* ghost: the decisions whose approval and receipt were there at some time
    approvedAt   \* ghost: the decisions shown when each phase change was appended

(* Views of tasks, and open transactions.                                  *)
View == [state : {"open"} \cup Terminal, revision : Nat, receipts : SUBSET Nat]
Statuses == {"pending"} \cup Resolved
TxSteps == {"written", "complete"}
Transaction ==
    [of : Decisions, old : {"pending"}, at : TxSteps] \cup [of : Tasks, old : View, at : TxSteps]

ASSUME GovernedStores ==
    /\ BaseTasks \in [Tasks -> {"open"} \cup Terminal]
    /\ BaseDecisions \in [Decisions -> Statuses]
    /\ Tasks \cap Decisions = {}
    /\ Ends \subseteq Terminal
    /\ None \notin Transaction

(* The initial ledger replays and is one that the service can have written *)
(* with these stores; the other writers append what is theirs.             *)
ASSUME GovernedLedger ==
    /\ Base \in Seq(Range(Base))
    /\ Replay(NewProject, Base).failed = 0
    /\ \A e \in Range(Base) \cup Writes :
           /\ e.type \in EventTypes
           /\ e.type = "decision.associated" => e.id \in Decisions
    /\ \A e \in Writes : e.type \notin {"evaluated", "override"}
    /\ \A e \in Range(Base) : e.type = "evaluated" =>
           /\ DOMAIN e.tasks \subseteq Tasks /\ DOMAIN e.decisions \subseteq Decisions
           /\ e.approved \subseteq {d \in Decisions : BaseDecisions[d] = "approved"}
           /\ \A d \in DOMAIN e.decisions :
                  e.decisions[d] = "expired" => BaseDecisions[d] = "expired"

stores == <<task, journal, receipts, decision, answered, tx>>
ghosts == <<shown, approvedAt>>
vars == <<log, stores, call, ghosts>>

BaseState == Replay(NewProject, Base)

(* The project after the first n events of the log, and now.               *)
StateAt(n) == Replay(BaseState, SubSeq(log, 1, n))
Now == StateAt(Len(log))

(* What an evaluation claims: views of tasks, and approvals.               *)
Claims(e) ==
    {<<t, e.tasks[t]>> : t \in DOMAIN e.tasks}
    \cup {<<d, "approved">> : d \in {x \in DOMAIN e.decisions : e.decisions[x] = "approved"}}

(* Mutant: only approvals are validated, not the views of tasks.           *)
StandsIfApproval(x) == x[1] \in Decisions => x \in answered

(* _validate_historical_evaluations: the view is a revision of the task    *)
(* that its journal holds, with receipts of just this revision; the        *)
(* approval has its receipt.                                               *)
Stands(x) ==
    IF x[1] \in Decisions THEN x \in answered
    ELSE /\ \A r \in x[2].receipts : r = x[2].revision /\ <<x[1], r>> \in receipts
         /\ x[2] \in journal[x[1]]

Validated ==
    \A e \in Range(Base) \cup Range(log) :
        e.type = "evaluated" => \A x \in Claims(e) : Stands(x)

(* The claims to validate, evaluation by evaluation.                       *)
AllClaims ==
    LET evaluations == SelectSeq(Base \o log, LAMBDA e : e.type = "evaluated" /\ Claims(e) # {}) IN
    [i \in DOMAIN evaluations |-> Claims(evaluations[i])]

(* The project can be rebuilt while the stores stand still: no call of     *)
(* the service raises before it comes to its own rules.                    *)
Readable == Validated /\ Now.failed = 0

Idle == [at |-> "idle"]

Done(s) == [state |-> s, revision |-> IF s = "open" THEN 1 ELSE 2,
            receipts |-> IF s = "completed" THEN {2} ELSE {}]

Init ==
    /\ log = <<>>
    /\ task = [t \in Tasks |-> Done(BaseTasks[t])]
    /\ journal = [t \in Tasks |-> {Unknown, Done(BaseTasks[t])}]
    /\ receipts = {<<t, 2>> : t \in {x \in Tasks : BaseTasks[x] = "completed"}}
    /\ decision = BaseDecisions
    /\ answered = {<<d, "approved">> : d \in {x \in Decisions : BaseDecisions[x] = "approved"}}
    /\ tx = None
    /\ call = [p \in Procs |-> Idle]
    /\ shown = {a[1] : a \in answered} /\ approvedAt = <<>>

-----------------------------------------------------------------------------
(* A bound: no transaction and no call starts once the log is full.        *)
Room == Len(log) < MaxEvents

(* The stores.  A task in a terminal state stays in it; completed again,   *)
(* it gets a new revision and one more receipt.                            *)
WriteTask(t, to) ==
    LET new == [state |-> to, revision |-> task[t].revision + 1,
                receipts |-> task[t].receipts \cup
                             (IF to = "completed" THEN {task[t].revision + 1} ELSE {})] IN
    /\ Room /\ tx = None
    /\ task[t].state \in {"open", to} /\ task[t].revision < MaxRevision
    /\ tx' = [of |-> t, old |-> task[t], at |-> "written"]
    /\ task' = [task EXCEPT ![t] = new]
    /\ UNCHANGED <<log, journal, receipts, decision, answered, call, ghosts>>

WriteDecision(d, status) ==
    /\ Room /\ tx = None /\ decision[d] = "pending"
    /\ tx' = [of |-> d, old |-> decision[d], at |-> "written"]
    /\ decision' = [decision EXCEPT ![d] = status]
    /\ UNCHANGED <<log, task, journal, receipts, answered, call, ghosts>>

(* The receipt and the journal follow the file.                            *)
WriteRest ==
    /\ tx # None /\ tx.at = "written"
    /\ tx' = [tx EXCEPT !.at = "complete"]
    /\ IF tx.of \in Tasks
       THEN /\ journal' = [journal EXCEPT ![tx.of] = @ \cup {task[tx.of]}]
            /\ receipts' = receipts \cup
                   {<<tx.of, r>> : r \in task[tx.of].receipts \ tx.old.receipts}
            /\ UNCHANGED <<answered, shown>>
       ELSE /\ answered' = answered \cup {<<tx.of, decision[tx.of]>>}
            /\ shown' = IF decision[tx.of] = "approved" THEN shown \cup {tx.of} ELSE shown
            /\ UNCHANGED <<journal, receipts>>
    /\ UNCHANGED <<log, task, decision, call, approvedAt>>

Commit ==
    /\ tx # None /\ tx.at = "complete"
    /\ tx' = None
    /\ UNCHANGED <<log, task, journal, receipts, decision, answered, call, ghosts>>

(* The writer fails or is killed, and the transaction is rolled back.      *)
Undo ==
    /\ tx # None
    /\ tx' = None
    /\ IF tx.of \in Tasks
       THEN /\ task' = [task EXCEPT ![tx.of] = tx.old]
            /\ journal' = [journal EXCEPT ![tx.of] = @ \ {task[tx.of]}]
            /\ receipts' = receipts \
                   {<<tx.of, r>> : r \in task[tx.of].receipts \ tx.old.receipts}
            /\ UNCHANGED <<decision, answered>>
       ELSE /\ decision' = [decision EXCEPT ![tx.of] = tx.old]
            /\ answered' = answered \ {<<tx.of, decision[tx.of]>>}
            /\ UNCHANGED <<task, journal, receipts>>
    /\ UNCHANGED <<log, call, ghosts>>

(* A pending decision passes its expiry; readers see it at once.           *)
Expire(d) ==
    /\ Room /\ tx = None /\ decision[d] = "pending"
    /\ decision' = [decision EXCEPT ![d] = "expired"]
    /\ UNCHANGED <<log, task, journal, receipts, answered, tx, call, ghosts>>

-----------------------------------------------------------------------------
ApprovedNow == {d \in Decisions : decision[d] = "approved" /\ <<d, "approved">> \in answered}

AppendEvent(e) ==
    /\ Room
    /\ log' = Append(log, e)
    /\ approvedAt' = Append(approvedAt, IF e.type = "phase" THEN shown ELSE {})
    /\ UNCHANGED shown

(* A trusted or public writer.  Bounds: each event once, and nothing is    *)
(* added to a ledger whose replay raises, as no later event makes it       *)
(* readable again.                                                         *)
Write(e) ==
    /\ Now.failed = 0
    /\ \A i \in 1..Len(log) : log[i] # e
    /\ AppendEvent(e)
    /\ UNCHANGED <<stores, call>>

(* A call of the service: it reads the ledger, which has to replay, and    *)
(* has the claims of its evaluations to validate.                          *)
Start(p, c) ==
    /\ call[p] = Idle /\ Room
    /\ Now.failed = 0
    /\ c.refs \subseteq Now.evidence
    /\ call' = [call EXCEPT ![p] =
                   [at |-> "read", c |-> c, base |-> Len(log), head |-> Len(log),
                    claims |-> AllClaims, tasks |-> <<>>, decisions |-> <<>>, again |-> {},
                    look |-> None, approved |-> {}, receipts |-> {}]]
    /\ UNCHANGED <<log, stores, ghosts>>

(* One claim is compared with the file, receipt or journal it is about.    *)
Validate(p, x) ==
    /\ Stands(x)
    /\ call' = [call EXCEPT ![p].claims =
                   IF Head(@) = {x} THEN Tail(@) ELSE [@ EXCEPT ![1] = @ \ {x}]]
    /\ UNCHANGED <<log, stores, ghosts>>

(* The live tasks, decisions and receipts of what is associated in the     *)
(* ledger that was read.                                                   *)
MayRead(p) ==
    call[p].c.kind # "override" /\ call[p].claims = <<>> /\ call[p].look = None

TasksRead(p) == DOMAIN call[p].tasks = DOMAIN StateAt(call[p].base).tasks
DecisionsRead(p) == DOMAIN call[p].decisions = DOMAIN StateAt(call[p].base).decisions
AllRead(p) ==
    /\ call[p].at = "read" /\ MayRead(p)
    /\ TasksRead(p) /\ DecisionsRead(p) /\ call[p].again = DOMAIN call[p].tasks

ReadTask(p, t) ==
    /\ MayRead(p)
    /\ t \in DOMAIN StateAt(call[p].base).tasks \ DOMAIN call[p].tasks
    /\ call' = [call EXCEPT ![p].tasks = With(@, t, task[t])]
    /\ UNCHANGED <<log, stores, ghosts>>

ReadDecision(p, d) ==
    /\ MayRead(p) /\ TasksRead(p)
    /\ d \in DOMAIN StateAt(call[p].base).decisions \ DOMAIN call[p].decisions
    /\ call' = [call EXCEPT
           ![p].decisions = With(@, d, decision[d]),
           ![p].look = IF decision[d] = "approved" THEN <<d, "approved">> ELSE None]
    /\ UNCHANGED <<log, stores, ghosts>>

(* The task is read once more; only the receipt of its revision counts,    *)
(* and only if the task is terminal.                                       *)
ReadAgain(p, t) ==
    /\ MayRead(p) /\ TasksRead(p) /\ DecisionsRead(p)
    /\ t \in DOMAIN call[p].tasks \ call[p].again
    /\ call' = [call EXCEPT
           ![p].again = @ \cup {t},
           ![p].look = IF task[t].state \in Terminal /\ task[t].revision \in task[t].receipts
                       THEN <<t, task[t].revision>> ELSE None]
    /\ UNCHANGED <<log, stores, ghosts>>

(* Mutant: a decision that reads as approved is one, receipt or not.       *)
LookUpLeniently(p) ==
    LET x == call[p].look IN
    /\ x # None
    /\ call' = [call EXCEPT
           ![p].look = None,
           ![p].approved = IF x[1] \in Decisions THEN @ \cup {x[1]} ELSE @,
           ![p].receipts = IF x[1] \in Tasks /\ x \in receipts THEN @ \cup {x} ELSE @]
    /\ UNCHANGED <<log, stores, ghosts>>

(* The receipt that the decision or task just read should have.            *)
LookUp(p) ==
    LET x == call[p].look IN
    /\ x # None
    /\ call' = [call EXCEPT
           ![p].look = None,
           ![p].approved = IF x[1] \in Decisions /\ x \in answered THEN @ \cup {x[1]} ELSE @,
           ![p].receipts = IF x[1] \in Tasks /\ x \in receipts THEN @ \cup {x} ELSE @]
    /\ UNCHANGED <<log, stores, ghosts>>

(* The phase an evaluation is for, and whether it passes on the project    *)
(* replayed and overlaid with what the stores showed.                      *)
Target(kind, phase) ==
    IF kind = "dor" THEN IF phase = "DISCOVERY" THEN "PLANNING" ELSE "EXECUTION"
    ELSE IF phase = "CLOSING" THEN "CLOSED" ELSE "CLOSING"

EvaluationPasses(p) ==
    LET q == call[p]
        s == StateAt(q.base)
        live == [s EXCEPT !.tasks = q.tasks, !.decisions = q.decisions]
        authority == [evidence |-> s.evidence, receipts |-> q.receipts] IN
    /\ IF q.c.kind = "dor" THEN DorPassed(live, Target("dor", s.phase))
       ELSE DodPassed(live, q.c.refs, authority)
    /\ \A tr \in q.receipts : tr[2] \in q.tasks[tr[1]].receipts

Evaluation(p) ==
    LET q == call[p]
        s == StateAt(q.base) IN
    [type |-> "evaluated", from |-> s.phase, to |-> Target(q.c.kind, s.phase),
     tasks |-> q.tasks, decisions |-> q.decisions, approved |-> q.approved,
     receipts |-> q.receipts, refs |-> q.c.refs, accountable |-> Accountable(s)]

(* Mutant: an evaluation is appended wherever the ledger ends.             *)
AnyHead(p) == call[p].head <= Len(log)

(* The head an append of p insists on: the ledger its evaluation read, or  *)
(* for an override the head that a second verification found.              *)
HeadStands(p) == Len(log) = call[p].head

AppendEvaluation(p) ==
    /\ AllRead(p)
    /\ EvaluationPasses(p) /\ HeadStands(p)
    /\ AppendEvent(Evaluation(p))
    /\ call' = [call EXCEPT ![p] = Idle]
    /\ UNCHANGED stores

(* An override is judged on the ledger read first ("read" is a ghost).     *)
Override(p) == [type |-> "override", gate |-> call[p].c.gate, actor |-> call[p].c.actor,
                by |-> call[p].c.by, refs |-> call[p].c.refs, read |-> call[p].base]

(* Mutant: the live approvals count, as an evaluation would find them.     *)
OverrideGrantedLive(p) ==
    LET s == StateAt(call[p].base) IN
    OverrideAllowed(Override(p),
        [EffectiveAuthority(s) EXCEPT !.approved = DOMAIN s.decisions \cap ApprovedNow])

OverrideGranted(p) ==
    OverrideAllowed(Override(p), EffectiveAuthority(StateAt(call[p].base)))

ReadHead(p) ==
    /\ call[p].at = "read" /\ call[p].c.kind = "override" /\ call[p].claims = <<>>
    /\ call' = [call EXCEPT ![p].at = "append", ![p].head = Len(log)]
    /\ UNCHANGED <<log, stores, ghosts>>

AppendOverride(p) ==
    /\ call[p].at = "append"
    /\ OverrideGranted(p) /\ HeadStands(p)
    /\ AppendEvent(Override(p))
    /\ call' = [call EXCEPT ![p] = Idle]
    /\ UNCHANGED stores

(* A claim does not stand, the evaluation fails, the override is not       *)
(* granted, the head has moved, or the caller is killed: nothing is        *)
(* recorded.                                                               *)
Raise(p) ==
    /\ call[p] # Idle
    /\ call' = [call EXCEPT ![p] = Idle]
    /\ UNCHANGED <<log, stores, ghosts>>

Store ==
    \/ \E t \in Tasks : \E to \in Ends : WriteTask(t, to)
    \/ \E d \in Decisions : \E status \in {"approved", "rejected"} : WriteDecision(d, status)
    \/ \E d \in Decisions : Expire(d)
    \/ WriteRest \/ Commit \/ Undo

Read(p) ==
    /\ call[p].at = "read"
    /\ \/ call[p].claims # <<>> /\ \E x \in Head(call[p].claims) : Validate(p, x)
       \/ \E t \in Tasks : ReadTask(p, t) \/ ReadAgain(p, t)
       \/ \E d \in Decisions : ReadDecision(p, d)
       \/ LookUp(p)

Service(p) ==
    \/ \E c \in Calls : Start(p, c)
    \/ Read(p)
    \/ AppendEvaluation(p) \/ ReadHead(p) \/ AppendOverride(p) \/ Raise(p)

Next ==
    \/ Store
    \/ \E e \in Writes : Write(e)
    \/ \E p \in Procs : Service(p)

Spec == Init /\ [][Next]_vars

-----------------------------------------------------------------------------
(* The types of what the stores hold, and of who is calling.               *)
TypeOK ==
    /\ task \in [Tasks -> View] /\ journal \in [Tasks -> SUBSET View]
    /\ receipts \subseteq Tasks \X Nat
    /\ decision \in [Decisions -> Statuses]
    /\ answered \subseteq Decisions \X {"approved", "rejected"}
    /\ tx \in Transaction \cup {None} /\ DOMAIN call = Procs /\ shown \subseteq Decisions

(* A project that was closed as finished is finished: whatever was         *)
(* associated when it closed, its tasks are terminal in their store and    *)
(* its decisions resolved in theirs, although the closing looked only at   *)
(* the evaluation recorded before it, and whether its gate was overridden  *)
(* or not.  Not so for a decision that was seen as rejected: the rejection *)
(* may have been rolled back (nothing validates those).                    *)
ClosedIsFinished ==
    LET history == Now.history IN
    Readable => \A i \in 1..Len(history) :
        LET h == history[i] IN
        h.from = "CLOSING" /\ h.to = "CLOSED" =>
            /\ \A t \in h.tasks : task[t].state \in Terminal
            /\ \A d \in DOMAIN h.decisions :
                   decision[d] \in Resolved \/ h.decisions[d] = "rejected"

(* A later authority cannot authorize an earlier transition                *)
(* (docs/architecture.md:136).  A transition that replay accepts on the    *)
(* approval of decisions names one whose approval was in its store,        *)
(* receipt and all, at some moment before the transition was appended.  It *)
(* may have been rolled back before or after that; but while the project   *)
(* can be rebuilt (Readable), that approval stands in its store.           *)
ApprovedBeforehand ==
    LET history == Now.history IN
    \A i \in 1..Len(history) :
        LET h == history[i]
            rule == Legal[<<h.from, h.to>>] IN
        h.seq > Len(Base) /\ rule.approval /\ "accountable_approval" \notin rule.pre =>
            \E d \in h.approvals \cap approvedAt[h.seq - Len(Base)] :
                Readable => d \in ApprovedNow

(* Of the events that the service appends, replay refuses as the first one *)
(* at most an evaluation of a project without tasks: the service passes    *)
(* it, and replay says that it lacks views of tasks                        *)
(* (state_reducer.py:617).  The first event that replay refuses is such a  *)
(* one, the phase change of a trusted writer, or a public event that does  *)
(* not fit the model of its entity (state_reducer.py:896).                 *)
OnlyTasklessFail ==
    LET e == log[Now.failed - Len(Base)] IN
    Now.failed # 0 =>
        \/ e.type = "phase"
        \/ e.type = "public" /\ ~e.fits
        \/ e.type = "evaluated" /\ DOMAIN e.tasks = {}

(* Does the event e take from an override o what it was granted on in s?   *)
(* A second Accountable, the Accountable or the actor's role revoked, or   *)
(* the approving decision disassociated.                                   *)
TakesFrom(e, o, s) ==
    \/ /\ e.type = "raci.assigned"
       /\ e.role = "Accountable" /\ e.actor \notin AccountableSet(s)
    \/ /\ e.type = "raci.revoked"
       /\ \/ e.role = "Accountable" /\ e.actor \in AccountableSet(s)
          \/ e.role \in OverrideRoles /\ e.actor = o.actor
    \/ e.type = "decision.disassociated" /\ e.id = o.by

(* An override that was answered takes effect in a replay that comes so    *)
(* far, unless an event between the ledger it was judged on and its own    *)
(* append took from it what it was granted on (state_service.py:691): no   *)
(* other event in between, and nothing in the stores, undoes it.           *)
OverridesTakeEffect ==
    \A k \in 1..Len(log) :
        LET o == log[k] IN
        o.type = "override" /\ StateAt(k).failed = 0 /\ o.gate \notin StateAt(k).overridden
        => \E j \in o.read + 1..k - 1 : TakesFrom(log[j], o, StateAt(o.read))
================================================================================
