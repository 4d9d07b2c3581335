----------------------------- MODULE AssociationSaga -----------------------------
(***************************************************************************)
(* Associating tasks and decisions with a project (ADR-PSE-008,            *)
(* core/project_ingestion.py): a client appends a request to the event     *)
(* ledger, and reconcile_project_subsystems, run at start, by cron or on   *)
(* demand, replays the ledger and answers every pending request: it is     *)
(* associated if the task or decision exists, requested again if not, and  *)
(* failed after MaxAttempts requests.                                      *)
(*                                                                         *)
(* The ledger is the one of EventLog: an append under a key that is taken  *)
(* returns the stored event, or raises if that event is another one.       *)
(***************************************************************************)
EXTENDS Integers, Sequences, FiniteSets, FiniteSetsExt

CONSTANTS
    Sagas,        \* a task or decision with a correlation id
    TaskSagas,    \* those of tasks; they are answered first
    None,
    MaxProcs,     \* bound on the runs of reconciliation at a time
    MaxAttempts,  \* max_attempts
    MaxRequests,  \* bound on the requests of clients, all sagas together
    MaxStops      \* bound on reconcilers that are killed or fail

VARIABLES
    shared,    \* do the sagas share one correlation id?
    procs,     \* how many runs of this project may overlap
    log,       \* the saga events of the ledger
    exists,    \* tasks and decisions in their stores
    rec,       \* what each reconciler is doing
    asked,     \* requests of clients so far
    stops

ASSUME SagaSets == TaskSagas \subseteq Sagas /\ None \notin Sagas
ASSUME SagaBounds == 
    /\ MaxAttempts \in Nat \ {0} /\ MaxProcs \in Nat \ {0}
    /\ MaxRequests \in Nat /\ MaxStops \in Nat

world == <<shared, procs>>
vars == <<world, log, exists, rec, asked, stops>>

Reconcilers == 1..procs

Runs == [pc : {"idle", "next", "answer"}, upto : Nat, left : SUBSET Sagas,
         saga : Sagas \cup {None}, found : BOOLEAN, past : Nat]

NoRun == [pc |-> "idle", upto |-> 0, left |-> {}, saga |-> None, found |-> FALSE,
          past |-> 0]

(* Idempotency keys: who appends, for which saga or correlation id, and    *)
(* the attempt or the number of the request.                               *)
Keys == {"client", "retry", "associated", "failed"} \X (Sagas \cup {None}) \X Nat

Events == [type : {"requested", "associated", "failed"}, saga : Sagas,
           attempt : Nat, key : Keys]

Event(type, s, attempt, key) ==
    [type |-> type, saga |-> s, attempt |-> attempt, key |-> key]

-----------------------------------------------------------------------------
(* What a replay of the events l finds.                                    *)

Of(s, l) == {i \in DOMAIN l : l[i].saga = s}
Requests(s, l) == {i \in Of(s, l) : l[i].type = "requested"}

(* Mutant: a saga that failed is still pending.                            *)
OutcomesOfSuccess(s, l) == {i \in Of(s, l) : l[i].type = "associated"}

Outcomes(s, l) == {i \in Of(s, l) : l[i].type # "requested"}

Open(s, l) == {i \in Requests(s, l) : \A j \in Outcomes(s, l) : j < i}
Pending(l) == {s \in Sagas : Open(s, l) # {}}

(* Mutant: the attempts of earlier runs are forgotten.                     *)
PastForgotten(s, i, l) == 1

(* Mutant: one attempt too many is counted.                                *)
PastOneMore(s, i, l) == Cardinality(Requests(s, l)) + 1

(* past_attempts: all requests of the saga, or what request i says.        *)
Past(s, i, l) == Max({Cardinality(Requests(s, l)), l[i].attempt})

(* Tasks before decisions, and each in the order of their first request.   *)
Earlier(s, t, l) ==
    IF s \in TaskSagas <=> t \in TaskSagas
    THEN Min(Open(s, l)) <= Min(Open(t, l))
    ELSE s \in TaskSagas

-----------------------------------------------------------------------------
Init ==
    /\ shared \in BOOLEAN
    /\ procs \in 1..MaxProcs
    /\ log = <<>>
    /\ exists = {}
    /\ rec = [r \in Reconcilers |-> NoRun]
    /\ asked = [s \in Sagas |-> 0]
    /\ stops = 0

(* append_project_event: each call of a client has a key of its own.       *)
Request(s) ==
    /\ MapThenSumSet(LAMBDA t : asked[t], Sagas) < MaxRequests
    /\ asked' = [asked EXCEPT ![s] = @ + 1]
    /\ log' = Append(log, Event("requested", s, 1, <<"client", s, asked'[s]>>))
    /\ UNCHANGED <<world, exists, rec, stops>>

(* The task or decision is created in its own store.                       *)
Create(s) ==
    /\ s \notin exists
    /\ exists' = exists \cup {s}
    /\ UNCHANGED <<world, log, rec, asked, stops>>

(* The ledger is replayed before the guard of the process is taken, and    *)
(* other processes have guards of their own, so that runs overlap.         *)
Replay(r) ==
    /\ rec[r].pc = "idle" /\ Pending(log) # {}
    /\ rec' = [rec EXCEPT ![r] = [NoRun EXCEPT !.pc = "next", !.upto = Len(log),
                                               !.left = Pending(log)]]
    /\ UNCHANGED <<world, log, exists, asked, stops>>

Read(r) == SubSeq(log, 1, rec[r].upto)

(* The last request counts.  get_task or get_decision is called; an        *)
(* exception of theirs counts as absence.                                  *)
LookUp(r) == \E s \in rec[r].left : \E i \in Open(s, Read(r)) :
    /\ rec[r].pc = "next"
    /\ \A t \in rec[r].left : Earlier(s, t, Read(r))
    /\ \A j \in Open(s, Read(r)) : j <= i
    /\ \E found \in BOOLEAN :
        /\ found => s \in exists
        /\ rec' = [rec EXCEPT ![r] = [@ EXCEPT !.pc = "answer", !.saga = s, !.found = found,
                                              !.past = Past(s, i, Read(r))]]
    /\ UNCHANGED <<world, log, exists, asked, stops>>

CorrOf(s) == IF shared THEN None ELSE s

(* What a run appends for the saga: an event whose idempotency key the     *)
(* saga, or for a retry its correlation id and the attempt, determines.    *)
Answer(r) ==
    LET s == rec[r].saga
        past == rec[r].past
    IN  IF rec[r].found
        THEN Event("associated", s, 0, <<"associated", s, 0>>)
        ELSE IF past < MaxAttempts
        THEN Event("requested", s, past + 1, <<"retry", CorrOf(s), past + 1>>)
        ELSE Event("failed", s, past, <<"failed", s, 0>>)

Stored(e) == {i \in DOMAIN log : log[i].key = e.key}
Conflict(e) == \E i \in Stored(e) : log[i] # e

(* store.append: a new event, or the one an earlier run has stored.        *)
Record(r) ==
    /\ rec[r].pc = "answer" /\ ~Conflict(Answer(r))
    /\ log' = IF Stored(Answer(r)) = {} THEN Append(log, Answer(r)) ELSE log
    /\ LET left == rec[r].left \ {rec[r].saga}
       IN rec' = [rec EXCEPT ![r] = IF left = {} THEN NoRun ELSE
                    [@ EXCEPT !.pc = "next", !.left = left, !.saga = None,
                               !.found = FALSE, !.past = 0]]
    /\ UNCHANGED <<world, exists, asked, stops>>

(* IdempotencyConflictError: the sagas that are left are not answered.     *)
Raise(r) ==
    /\ rec[r].pc = "answer" /\ Conflict(Answer(r))
    /\ rec' = [rec EXCEPT ![r] = NoRun]
    /\ UNCHANGED <<world, log, exists, asked, stops>>

(* The process is killed, or an append fails.                              *)
Stop(r) ==
    /\ rec[r].pc # "idle" /\ stops < MaxStops
    /\ stops' = stops + 1
    /\ rec' = [rec EXCEPT ![r] = NoRun]
    /\ UNCHANGED <<world, log, exists, asked>>

Reconcile(r) == Replay(r) \/ LookUp(r) \/ Record(r) \/ Raise(r)

Next ==
    \/ \E s \in Sagas : Request(s) \/ Create(s)
    \/ \E r \in Reconcilers : Reconcile(r) \/ Stop(r)

Spec == Init /\ [][Next]_vars

(* Reconciliation is run again and again, and a run that is not killed     *)
(* goes on.                                                                *)
FairSpec == Spec /\ WF_vars(\E r \in Reconcilers : Reconcile(r))

-----------------------------------------------------------------------------
(* Every variable has its type.                                            *)
TypeOK ==
    /\ shared \in BOOLEAN /\ procs \in 1..MaxProcs
    /\ log \in Seq(Events)
    /\ exists \subseteq Sagas
    /\ rec \in [Reconcilers -> Runs]
    /\ asked \in [Sagas -> Nat] /\ stops \in 0..MaxStops

(* A saga fails only after MaxAttempts requests, and the reconciler adds   *)
(* fewer than MaxAttempts of them, whichever runs overlap or are killed.   *)
AttemptsHonoured == \A s \in Sagas :
    /\ \A i \in Outcomes(s, log) : log[i].type = "failed" =>
        Cardinality({j \in Requests(s, log) : j < i}) >= MaxAttempts
    /\ Cardinality(Requests(s, log)) < asked[s] + MaxAttempts

(* Runs that do not overlap record at most one outcome for a request of a  *)
(* client, although the two outcomes have different idempotency keys.      *)
OneOutcome == procs = 1 =>
    \A s \in Sagas :
        Cardinality({i \in Of(s, log) : log[i].type # "requested"}) <= asked[s]

(* No overlapping runs, a correlation id for each saga and one request for *)
(* each: every request is answered in the end, none is pending for ever.   *)
Orderly ==
    /\ procs = 1 /\ ~shared
    /\ \A s \in Sagas : asked[s] <= 1

EverySagaEnds == []<>(Orderly => Pending(log) = {})
================================================================================
