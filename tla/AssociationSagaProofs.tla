------------------------- MODULE AssociationSagaProofs -------------------------
(***************************************************************************)
(* Machine-checked theorems about AssociationSaga, for any number of       *)
(* sagas, reconcilers and requests.                                        *)
(*                                                                         *)
(* The argument: the attempt a reconciler writes never exceeds the number  *)
(* of requests before it (AttemptsCounted), although it was computed from  *)
(* a replay that may be old; and an idempotency key is in the ledger once  *)
(* (KeysDiffer), so that overlapping reconcilers add each attempt once.    *)
(* Runs that do not overlap find each saga they have left to answer still  *)
(* pending (AloneInv): an outcome then closes an open request.             *)
(***************************************************************************)
EXTENDS AssociationSaga, FiniteSetTheorems, FunctionTheorems, TLAPS

(* The requests of a saga among the first k events.                        *)
UpTo(s, k, l) == {i \in Requests(s, l) : i <= k}

-----------------------------------------------------------------------------
(* The inductive invariant.                                                *)

KeysDiffer == \A i, j \in DOMAIN log : log[i].key = log[j].key => i = j

(* What the key of an event says of it.                                    *)
KeyFits(e) ==
    \/ e.type = "requested" /\ e.attempt = 1
       /\ \E n \in 1..asked[e.saga] : e.key = <<"client", e.saga, n>>
    \/ e.type = "requested" /\ e.attempt \in 2..MaxAttempts
       /\ e.key = <<"retry", CorrOf(e.saga), e.attempt>>
    \/ e.type = "associated" /\ e.key = <<"associated", e.saga, 0>>
    \/ e.type = "failed" /\ e.attempt >= MaxAttempts /\ e.key = <<"failed", e.saga, 0>>

AttemptsCounted == \A i \in DOMAIN log :
    log[i].type # "associated" =>
        log[i].attempt <= Cardinality(UpTo(log[i].saga, i, log))

RunInv(r) ==
    /\ rec[r].upto <= Len(log)
    /\ rec[r].pc = "answer" =>
        /\ rec[r].saga \in Sagas /\ rec[r].past > 0
        /\ rec[r].past <= Cardinality(UpTo(rec[r].saga, rec[r].upto, log))

SagaInv ==
    /\ TypeOK
    /\ KeysDiffer
    /\ \A i \in DOMAIN log : KeyFits(log[i])
    /\ AttemptsCounted
    /\ \A r \in Reconcilers : RunInv(r)

-----------------------------------------------------------------------------
(* Counting requests.                                                      *)

LEMMA UpToFinite ==
    ASSUME NEW s, NEW k, NEW l, l \in Seq(Events)
    PROVE  /\ IsFiniteSet(UpTo(s, k, l)) /\ Cardinality(UpTo(s, k, l)) \in Nat
           /\ IsFiniteSet(Requests(s, l)) /\ Cardinality(Requests(s, l)) \in Nat
<1>1. IsFiniteSet(1..Len(l))
    BY FS_Interval
<1>2. UpTo(s, k, l) \subseteq 1..Len(l) /\ Requests(s, l) \subseteq 1..Len(l)
    BY DEF UpTo, Requests, Of
<1>3. IsFiniteSet(UpTo(s, k, l)) /\ IsFiniteSet(Requests(s, l))
    BY <1>1, <1>2, FS_Subset
<1> QED
    BY <1>3, FS_CardinalityType

(* More events, more requests.                                             *)
LEMMA UpToGrows ==
    ASSUME NEW s, NEW k \in Nat, NEW m \in Nat, k <= m, NEW l, l \in Seq(Events)
    PROVE  Cardinality(UpTo(s, k, l)) <= Cardinality(UpTo(s, m, l))
<1>1. UpTo(s, k, l) \subseteq UpTo(s, m, l)
    BY DEF UpTo, Requests, Of
<1> QED
    BY <1>1, UpToFinite, FS_Subset

(* The requests that a replay of the first k events finds.                 *)
LEMMA UpToPrefix ==
    ASSUME NEW s, NEW l, l \in Seq(Events), NEW k \in 0..Len(l)
    PROVE  Requests(s, SubSeq(l, 1, k)) = UpTo(s, k, l)
    BY DEF UpTo, Requests, Of

LEMMA UpToAll ==
    ASSUME NEW s, NEW l, l \in Seq(Events)
    PROVE  UpTo(s, Len(l), l) = Requests(s, l)
    BY DEF UpTo, Requests, Of

(* An append leaves what was counted.                                      *)
LEMMA UpToAppend ==
    ASSUME NEW s, NEW l, l \in Seq(Events), NEW e \in Events, NEW k \in 0..Len(l)
    PROVE  UpTo(s, k, Append(l, e)) = UpTo(s, k, l)
    BY DEF UpTo, Requests, Of

LEMMA UpToRequest ==
    ASSUME NEW l, l \in Seq(Events), NEW e \in Events, e.type = "requested"
    PROVE  Cardinality(UpTo(e.saga, Len(l) + 1, Append(l, e)))
               = Cardinality(Requests(e.saga, l)) + 1
<1>1. UpTo(e.saga, Len(l) + 1, Append(l, e)) = Requests(e.saga, l) \cup {Len(l) + 1}
    BY DEF UpTo, Requests, Of
<1>2. Len(l) + 1 \notin Requests(e.saga, l)
    BY DEF Requests, Of
<1> QED
    BY <1>1, <1>2, UpToFinite, FS_AddElement

(* The larger of two numbers.                                              *)
LEMMA MaxOfTwo ==
    ASSUME NEW a \in Nat, NEW b \in Nat
    PROVE  Max({a, b}) \in {a, b} /\ Max({a, b}) >= a /\ Max({a, b}) >= b
<1>1. \E x \in {a, b} : \A y \in {a, b} : x >= y
    OBVIOUS
<1> QED
    BY <1>1 DEF Max

-----------------------------------------------------------------------------
(* What an append keeps.                                                   *)

LEMMA AppendKeeps ==
    ASSUME TypeOK, KeysDiffer, AttemptsCounted,
           NEW e \in Events, log' = Append(log, e),
           \A i \in DOMAIN log : log[i].key # e.key,
           e.type # "associated" =>
               e.attempt <= Cardinality(UpTo(e.saga, Len(log) + 1, log'))
    PROVE  (log \in Seq(Events) /\ KeysDiffer /\ AttemptsCounted)'
<1>0. log \in Seq(Events) /\ Len(log) \in Nat
    BY DEF TypeOK
<1>1. log' \in Seq(Events) /\ DOMAIN log' = 1..(Len(log) + 1)
      /\ log'[Len(log) + 1] = e /\ \A i \in DOMAIN log : log'[i] = log[i]
    BY <1>0
<1>2. KeysDiffer'
    BY <1>0, <1>1 DEF KeysDiffer
<1>3. ASSUME NEW i \in DOMAIN log', log'[i].type # "associated"
      PROVE  log'[i].attempt <= Cardinality(UpTo(log'[i].saga, i, log'))
  <2>1. CASE i = Len(log) + 1
      BY <1>1, <1>3, <2>1
  <2>2. CASE i \in DOMAIN log
    <3>1. UpTo(log[i].saga, i, log') = UpTo(log[i].saga, i, log)
        BY <1>0, <2>2, UpToAppend
    <3>2. log[i].attempt <= Cardinality(UpTo(log[i].saga, i, log))
        BY <1>1, <1>3, <2>2 DEF AttemptsCounted
    <3> QED
        BY <1>1, <2>2, <3>1, <3>2
  <2> QED
      BY <1>0, <1>1, <2>1, <2>2
<1>4. AttemptsCounted'
    BY <1>3 DEF AttemptsCounted
<1> QED
    BY <1>1, <1>2, <1>4

(* A run that does nothing loses nothing when another one appends.         *)
LEMMA RunKeeps ==
    ASSUME TypeOK, NEW r \in Reconcilers, RunInv(r), rec'[r] = rec[r],
           NEW e \in Events, log' \in {log, Append(log, e)}
    PROVE  RunInv(r)'
<1>0. log \in Seq(Events) /\ Len(log) \in Nat /\ rec[r].upto \in 0..Len(log)
    BY DEF TypeOK, Runs, RunInv
<1>1. UpTo(rec[r].saga, rec[r].upto, log') = UpTo(rec[r].saga, rec[r].upto, log)
    BY <1>0, UpToAppend
<1>2. Len(log) <= Len(log')
    BY <1>0
<1> QED
    BY <1>0, <1>1, <1>2 DEF RunInv

(* A key that fitted an event fits it for ever.                            *)
LEMMA KeyFitsKeeps ==
    ASSUME TypeOK, NEW e \in Events, KeyFits(e), shared' = shared,
           asked' \in [Sagas -> Nat], \A s \in Sagas : asked[s] <= asked'[s]
    PROVE  KeyFits(e)'
<1>1. asked[e.saga] \in Nat /\ asked'[e.saga] \in Nat /\ asked[e.saga] <= asked'[e.saga]
    BY DEF TypeOK, Events
<1>2. \A n \in 1..asked[e.saga] : n \in 1..asked'[e.saga]
    BY <1>1
<1> QED
    BY <1>1, <1>2 DEF KeyFits, CorrOf

(* The event that is appended fits its key, and so do the others.          *)
LEMMA AppendFits ==
    ASSUME TypeOK, \A i \in DOMAIN log : KeyFits(log[i]),
           NEW e \in Events, KeyFits(e)', log' = Append(log, e), shared' = shared,
           asked' \in [Sagas -> Nat], \A s \in Sagas : asked[s] <= asked'[s]
    PROVE  (\A i \in DOMAIN log : KeyFits(log[i]))'
<1>0. log \in Seq(Events) /\ Len(log) \in Nat
    BY DEF TypeOK
<1>1. ASSUME NEW f \in Events, KeyFits(f) PROVE KeyFits(f)'
    BY <1>1, KeyFitsKeeps
<1>2. ASSUME NEW j \in DOMAIN log' PROVE \E f \in Events : f = log'[j] /\ KeyFits(f)'
  <2>1. CASE j = Len(log) + 1
      BY <1>0, <2>1
  <2>2. CASE j \in DOMAIN log
    <3>1. PICK f \in Events : f = log[j] /\ KeyFits(f)
        BY <1>0, <2>2
    <3>2. KeyFits(f)' /\ log'[j] = f
        BY <1>0, <1>1, <2>2, <3>1
    <3> QED
        BY <3>2
  <2> QED
      BY <1>0, <2>1, <2>2
<1> QED
    BY <1>2

-----------------------------------------------------------------------------
(* The steps.                                                              *)

LEMMA InitInv == Init => SagaInv
<1> SUFFICES ASSUME Init PROVE SagaInv
    OBVIOUS
<1>1. TypeOK
    BY SagaBounds DEF Init, TypeOK, Runs, NoRun, Reconcilers
<1>2. \A r \in Reconcilers : RunInv(r)
    BY DEF Init, RunInv, NoRun
<1>3. DOMAIN log = {}
    BY DEF Init
<1> QED
    BY <1>1, <1>2, <1>3 DEF SagaInv, KeysDiffer, AttemptsCounted

LEMMA RequestInv ==
    ASSUME SagaInv, NEW s \in Sagas, Request(s)
    PROVE  SagaInv'
<1>0. TypeOK /\ log \in Seq(Events) /\ asked \in [Sagas -> Nat] /\ Len(log) \in Nat
    BY DEF SagaInv, TypeOK
<1>1. /\ asked' \in [Sagas -> Nat] /\ asked'[s] = asked[s] + 1
      /\ \A t \in Sagas : asked[t] <= asked'[t]
      /\ UNCHANGED <<shared, procs, exists, rec, stops>>
    BY <1>0 DEF Request, world
<1>2. PICK e \in Events :
        /\ log' = Append(log, e)
        /\ e.saga = s /\ e.type = "requested" /\ e.attempt = 1
        /\ e.key = <<"client", s, asked'[s]>>
  <2>1. <<"client", s, asked'[s]>> \in Keys
      BY <1>1 DEF Keys
  <2>2. Event("requested", s, 1, <<"client", s, asked'[s]>>) \in Events
      BY <2>1 DEF Event, Events
  <2> QED
      BY <2>2 DEF Request, Event
<1>3. ASSUME NEW i \in DOMAIN log PROVE log[i].key # e.key
  <2>1. KeyFits(log[i]) /\ log[i] \in Events
      BY <1>0 DEF SagaInv
  <2>2. ASSUME NEW n \in 1..asked[log[i].saga], log[i].key = <<"client", log[i].saga, n>>
        PROVE  log[i].key # e.key
      BY <1>0, <1>1, <1>2, <2>1, <2>2 DEF Events
  <2>3. log[i].key[1] # "client" => log[i].key # e.key
      BY <1>2
  <2> QED
      BY <2>1, <2>2, <2>3 DEF KeyFits
<1>4. e.attempt <= Cardinality(UpTo(e.saga, Len(log) + 1, log'))
    BY <1>0, <1>2, UpToRequest, UpToFinite
<1>5. (log \in Seq(Events) /\ KeysDiffer /\ AttemptsCounted)'
    BY <1>0, <1>2, <1>3, <1>4, AppendKeeps DEF SagaInv
<1>6. (\A i \in DOMAIN log : KeyFits(log[i]))'
  <2>1. KeyFits(e)'
      BY <1>0, <1>1, <1>2 DEF KeyFits
  <2> QED
      BY <1>0, <1>1, <1>2, <2>1, AppendFits DEF SagaInv
<1>7. \A r \in Reconcilers : RunInv(r)'
    BY <1>0, <1>1, <1>2, RunKeeps DEF SagaInv
<1>8. TypeOK'
    BY <1>0, <1>1, <1>5 DEF TypeOK, Reconcilers
<1> QED
    BY <1>1, <1>5, <1>6, <1>7, <1>8 DEF SagaInv, Reconcilers

(* Steps that leave the ledger and the requests.                           *)
LEMMA RunsInv ==
    ASSUME SagaInv, UNCHANGED <<world, log, asked>>, TypeOK',
           \A r \in Reconcilers : RunInv(r)'
    PROVE  SagaInv'
<1>1. \A e : KeyFits(e)' <=> KeyFits(e)
    BY DEF KeyFits, CorrOf, world
<1>2. (\A i \in DOMAIN log : KeyFits(log[i]))'
    BY <1>1 DEF SagaInv
<1>3. (KeysDiffer /\ AttemptsCounted)'
    BY DEF SagaInv, KeysDiffer, AttemptsCounted
<1> QED
    BY <1>2, <1>3 DEF SagaInv, Reconcilers, world

(* A run that is idle or between two sagas promises little.                *)
LEMMA RunBetween ==
    ASSUME NEW r \in Reconcilers, (rec[r].pc # "answer" /\ rec[r].upto <= Len(log))'
    PROVE  RunInv(r)'
    BY DEF RunInv

LEMMA RunUntouched ==
    ASSUME TypeOK, NEW r \in Reconcilers, RunInv(r), rec'[r] = rec[r], log' = log
    PROVE  RunInv(r)'
    BY DEF RunInv

LEMMA ReplayInv ==
    ASSUME SagaInv, NEW r \in Reconcilers, Replay(r)
    PROVE  SagaInv'
<1>0. TypeOK /\ log \in Seq(Events) /\ Len(log) \in Nat
    BY DEF SagaInv, TypeOK
<1>1. /\ rec'[r].pc = "next" /\ rec'[r].upto = Len(log)
      /\ \A q \in Reconcilers \ {r} : rec'[q] = rec[q]
    BY <1>0 DEF Replay, TypeOK, Runs, NoRun
<1>2. TypeOK'
    BY <1>0 DEF Replay, TypeOK, Runs, NoRun, Pending, Reconcilers, world
<1>3. \A q \in Reconcilers : RunInv(q)'
    BY <1>0, <1>1, RunBetween, RunUntouched DEF SagaInv, Replay
<1> QED
    BY <1>2, <1>3, RunsInv DEF Replay

LEMMA LookUpInv ==
    ASSUME SagaInv, NEW r \in Reconcilers, LookUp(r)
    PROVE  SagaInv'
<1>0. TypeOK /\ log \in Seq(Events) /\ Len(log) \in Nat /\ rec[r].left \subseteq Sagas
      /\ rec[r].upto \in 0..Len(log)
    BY DEF SagaInv, TypeOK, Runs, RunInv
<1>1. PICK s \in rec[r].left : \E i \in Open(s, Read(r)), found \in BOOLEAN :
        rec' = [rec EXCEPT ![r] = [@ EXCEPT !.pc = "answer", !.saga = s, !.found = found,
                                            !.past = Past(s, i, Read(r))]]
    BY DEF LookUp
<1>a. PICK i \in Open(s, Read(r)), found \in BOOLEAN :
        rec' = [rec EXCEPT ![r] = [@ EXCEPT !.pc = "answer", !.saga = s, !.found = found,
                                            !.past = Past(s, i, Read(r))]]
    BY <1>1
<1> DEFINE n == Cardinality(UpTo(s, rec[r].upto, log))
<1>2. Requests(s, Read(r)) = UpTo(s, rec[r].upto, log)
    BY <1>0, UpToPrefix DEF Read
<1>3. n \in Nat /\ i \in UpTo(s, rec[r].upto, log)
    BY <1>0, <1>2, UpToFinite DEF Open
<1>4. Read(r)[i] = log[i] /\ i \in DOMAIN log /\ log[i].saga = s
      /\ log[i].type = "requested" /\ i <= rec[r].upto
    BY <1>0, <1>3 DEF Read, UpTo, Requests, Of
<1>5. log[i].attempt \in Nat /\ log[i].attempt > 0 /\ log[i].attempt <= n
  <2>1. log[i].attempt <= Cardinality(UpTo(s, i, log))
      BY <1>4 DEF SagaInv, AttemptsCounted
  <2>2. Cardinality(UpTo(s, i, log)) <= n
      BY <1>0, <1>4, UpToGrows
  <2>3. Cardinality(UpTo(s, i, log)) \in Nat
      BY <1>0, UpToFinite
  <2>4. log[i].attempt \in Nat
    <3>1. log[i] \in Events
        BY <1>0, <1>4
    <3> QED
        BY <3>1 DEF Events
  <2>5. KeyFits(log[i])
      BY <1>4 DEF SagaInv
  <2>6. log[i].attempt > 0
      BY <1>4, <2>4, <2>5 DEF KeyFits
  <2> HIDE DEF n
  <2> QED
      BY <1>3, <2>1, <2>2, <2>3, <2>4, <2>6
<1>6. Past(s, i, Read(r)) \in 1..n
  <2>1. Past(s, i, Read(r)) = Max({n, log[i].attempt})
      BY <1>2, <1>4 DEF Past
  <2> HIDE DEF n
  <2> QED
      BY <1>3, <1>5, <2>1, MaxOfTwo
<1>7. /\ rec'[r].pc = "answer" /\ rec'[r].saga = s /\ rec'[r].upto = rec[r].upto
      /\ rec'[r].past = Past(s, i, Read(r))
      /\ \A q \in Reconcilers \ {r} : rec'[q] = rec[q]
    BY <1>0, <1>a DEF TypeOK, Runs
<1>8. UNCHANGED <<world, log, exists, asked, stops>>
    BY DEF LookUp
<1>9. RunInv(r)'
    BY <1>0, <1>6, <1>7, <1>8 DEF RunInv
<1>10. TypeOK'
  <2> HIDE DEF n
  <2>1. Past(s, i, Read(r)) \in Nat
      BY <1>3, <1>6
  <2>2. s \in Sagas
      BY <1>0
  <2>3. rec \in [Reconcilers -> Runs] /\ rec[r] \in Runs
      BY <1>0 DEF TypeOK
  <2>4. [rec[r] EXCEPT !.pc = "answer", !.saga = s, !.found = found,
                       !.past = Past(s, i, Read(r))] \in Runs
      BY <2>1, <2>2, <2>3 DEF Runs
  <2>5. rec' \in [Reconcilers -> Runs]
      BY <1>a, <2>3, <2>4
  <2> QED
      BY <1>0, <1>8, <2>5 DEF TypeOK, Reconcilers, world
<1>11. \A q \in Reconcilers : RunInv(q)'
    BY <1>0, <1>7, <1>8, <1>9, RunUntouched DEF SagaInv
<1> QED
    BY <1>8, <1>10, <1>11, RunsInv

(* What a run answers fits its key, and its attempt has been counted, also *)
(* if the replay it was computed from is old.                              *)
LEMMA AnswerFits ==
    ASSUME SagaInv, NEW r \in Reconcilers, rec[r].pc = "answer",
           NEW e, e = Answer(r)
    PROVE  /\ e \in Events /\ KeyFits(e)
           /\ e.type = "requested" =>
                e.attempt <= Cardinality(Requests(e.saga, log)) + 1
           /\ e.type = "failed" => e.attempt <= Cardinality(Requests(e.saga, log))
<1> DEFINE s == rec[r].saga
           past == rec[r].past
<1>1. log \in Seq(Events) /\ Len(log) \in Nat /\ rec[r].upto \in 0..Len(log)
      /\ s \in Sagas /\ past \in Nat /\ past > 0 /\ rec[r].found \in BOOLEAN
      /\ past <= Cardinality(UpTo(s, rec[r].upto, log))
    BY DEF SagaInv, TypeOK, Runs, RunInv
<1>2. past <= Cardinality(Requests(s, log))
  <2>1. Cardinality(UpTo(s, rec[r].upto, log)) <= Cardinality(UpTo(s, Len(log), log))
      BY <1>1, UpToGrows
  <2>2. UpTo(s, Len(log), log) = Requests(s, log)
      BY <1>1, UpToAll
  <2>3. Cardinality(UpTo(s, rec[r].upto, log)) \in Nat /\ Cardinality(Requests(s, log)) \in Nat
      BY <1>1, UpToFinite
  <2> HIDE DEF s, past
  <2> QED
      BY <1>1, <2>1, <2>2, <2>3
<1>3. CorrOf(s) \in Sagas \cup {None}
    BY <1>1 DEF CorrOf
<1>4. CASE rec[r].found
  <2>1. e = Event("associated", s, 0, <<"associated", s, 0>>)
      BY <1>4 DEF Answer
  <2>2. <<"associated", s, 0>> \in Keys
      BY <1>1 DEF Keys
  <2> QED
      BY <1>1, <2>1, <2>2 DEF Event, Events, KeyFits
<1>5. CASE ~rec[r].found /\ past < MaxAttempts
  <2>1. e = Event("requested", s, past + 1, <<"retry", CorrOf(s), past + 1>>)
      BY <1>5 DEF Answer
  <2>2. <<"retry", CorrOf(s), past + 1>> \in Keys
      BY <1>1, <1>3 DEF Keys
  <2>3. past + 1 \in 2..MaxAttempts /\ past + 1 \in Nat
      BY <1>1, <1>5, SagaBounds
  <2>4. Cardinality(Requests(s, log)) \in Nat
      BY <1>1, UpToFinite
  <2> QED
      BY <1>1, <1>2, <2>1, <2>2, <2>3, <2>4 DEF Event, Events, KeyFits
<1>6. CASE ~rec[r].found /\ ~(past < MaxAttempts)
  <2>1. e = Event("failed", s, past, <<"failed", s, 0>>)
      BY <1>6 DEF Answer
  <2>2. <<"failed", s, 0>> \in Keys
      BY <1>1 DEF Keys
  <2>3. past >= MaxAttempts
      BY <1>1, <1>6, SagaBounds
  <2> QED
      BY <1>1, <1>2, <2>1, <2>2, <2>3 DEF Event, Events, KeyFits
<1> QED
    BY <1>1, <1>4, <1>5, <1>6

(* An append does not take from the requests that were counted.            *)
LEMMA AppendCounts ==
    ASSUME NEW s, NEW l, l \in Seq(Events), NEW e \in Events
    PROVE  Cardinality(Requests(s, l)) <= Cardinality(UpTo(s, Len(l) + 1, Append(l, e)))
<1>1. Append(l, e) \in Seq(Events) /\ Len(l) \in Nat
    OBVIOUS
<1>2. UpTo(s, Len(l), Append(l, e)) = Requests(s, l)
  <2>1. Len(l) \in 0..Len(l)
      BY <1>1
  <2>2. UpTo(s, Len(l), Append(l, e)) = UpTo(s, Len(l), l)
      BY <2>1, UpToAppend
  <2> QED
      BY <2>2, UpToAll
<1>3. Cardinality(UpTo(s, Len(l), Append(l, e)))
          <= Cardinality(UpTo(s, Len(l) + 1, Append(l, e)))
  <2>1. Len(l) + 1 \in Nat /\ Len(l) <= Len(l) + 1
      BY <1>1
  <2> QED
      BY <1>1, <2>1, UpToGrows
<1> QED
    BY <1>2, <1>3

LEMMA RecordInv ==
    ASSUME SagaInv, NEW r \in Reconcilers, Record(r)
    PROVE  SagaInv'
<1>0. TypeOK /\ log \in Seq(Events) /\ Len(log) \in Nat /\ rec \in [Reconcilers -> Runs]
      /\ rec[r] \in Runs /\ rec[r].upto \in 0..Len(log) /\ asked \in [Sagas -> Nat]
    BY DEF SagaInv, TypeOK, Runs, RunInv
<1>1. UNCHANGED <<shared, procs, exists, asked, stops>> /\ rec[r].pc = "answer"
    BY DEF Record, world
<1>2. rec' \in [Reconcilers -> Runs] /\ \A q \in Reconcilers \ {r} : rec'[q] = rec[q]
    BY <1>0 DEF Record, Runs, NoRun
<1>3. rec'[r].pc # "answer" /\ rec'[r].upto \in 0..Len(log)
    BY <1>0 DEF Record, NoRun, Runs
<1>4. PICK e : e = Answer(r)
    OBVIOUS
<1>5. /\ e \in Events /\ KeyFits(e)
      /\ e.type = "requested" => e.attempt <= Cardinality(Requests(e.saga, log)) + 1
      /\ e.type = "failed" => e.attempt <= Cardinality(Requests(e.saga, log))
    BY <1>1, <1>4, AnswerFits
<1>6. CASE log' = log
  <2>1. TypeOK'
      BY <1>0, <1>1, <1>2, <1>6 DEF TypeOK, Reconcilers
  <2>2. \A q \in Reconcilers : RunInv(q)'
      BY <1>0, <1>2, <1>3, <1>6, RunBetween, RunUntouched DEF SagaInv
  <2> QED
      BY <1>1, <1>6, <2>1, <2>2, RunsInv DEF world
<1>7. CASE log' = Append(log, e) /\ Stored(e) = {}
  <2>1. \A i \in DOMAIN log : log[i].key # e.key
      BY <1>7 DEF Stored
  <2>2. e.type # "associated" => e.attempt <= Cardinality(UpTo(e.saga, Len(log) + 1, log'))
    <3>1. CASE e.type = "requested"
        BY <1>0, <1>5, <1>7, <3>1, UpToRequest
    <3>2. CASE e.type = "failed"
      <4>1. Cardinality(Requests(e.saga, log)) <= Cardinality(UpTo(e.saga, Len(log) + 1, log'))
          BY <1>0, <1>5, <1>7, AppendCounts
      <4>2. log' \in Seq(Events)
          BY <1>0, <1>5, <1>7
      <4>3. e.attempt \in Nat /\ Cardinality(Requests(e.saga, log)) \in Nat
            /\ Cardinality(UpTo(e.saga, Len(log) + 1, log')) \in Nat
          BY <1>0, <1>5, <4>2, UpToFinite DEF Events
      <4> QED
          BY <1>5, <3>2, <4>1, <4>3
    <3> QED
        BY <1>5, <3>1, <3>2 DEF Events
  <2>3. (log \in Seq(Events) /\ KeysDiffer /\ AttemptsCounted)'
      BY <1>5, <1>7, <2>1, <2>2, AppendKeeps DEF SagaInv
  <2>4. KeyFits(e)'
      BY <1>1, <1>5 DEF KeyFits, CorrOf
  <2>5. (\A i \in DOMAIN log : KeyFits(log[i]))'
      BY <1>0, <1>1, <1>5, <1>7, <2>4, AppendFits DEF SagaInv
  <2>6. Len(log') = Len(log) + 1
      BY <1>0, <1>5, <1>7
  <2>7. RunInv(r)'
      BY <1>0, <1>3, <2>6, RunBetween
  <2>8. \A q \in Reconcilers \ {r} : RunInv(q)'
      BY <1>0, <1>2, <1>5, <1>7, RunKeeps DEF SagaInv
  <2>9. TypeOK'
      BY <1>0, <1>1, <1>2, <2>3 DEF TypeOK, Reconcilers
  <2> QED
      BY <1>1, <2>3, <2>5, <2>7, <2>8, <2>9 DEF SagaInv, Reconcilers
<1> QED
    BY <1>4, <1>6, <1>7 DEF Record

(* A run ends early: by a conflict, an error or a kill.                    *)
LEMMA EndsInv ==
    ASSUME SagaInv, NEW r \in Reconcilers, Raise(r) \/ Stop(r)
    PROVE  SagaInv'
<1>0. TypeOK /\ rec \in [Reconcilers -> Runs] /\ stops \in 0..MaxStops /\ log \in Seq(Events)
      /\ Len(log) \in Nat
    BY DEF SagaInv, TypeOK
<1>1. rec' = [rec EXCEPT ![r] = NoRun] /\ UNCHANGED <<shared, procs, log, exists, asked>>
      /\ stops' \in 0..MaxStops
    BY <1>0, SagaBounds DEF Raise, Stop, world
<1>2. NoRun \in Runs /\ NoRun.pc = "idle" /\ NoRun.upto = 0
    BY DEF NoRun, Runs
<1>3. TypeOK'
    BY <1>0, <1>1, <1>2 DEF TypeOK, Reconcilers
<1>4. \A q \in Reconcilers : RunInv(q)'
  <2>1. rec'[r] = NoRun /\ \A q \in Reconcilers \ {r} : rec'[q] = rec[q]
      BY <1>0, <1>1
  <2> QED
      BY <1>0, <1>1, <1>2, <2>1, RunBetween, RunUntouched DEF SagaInv
<1> QED
    BY <1>1, <1>3, <1>4, RunsInv DEF world

LEMMA CreateInv ==
    ASSUME SagaInv, NEW s \in Sagas, Create(s)
    PROVE  SagaInv'
<1>1. UNCHANGED <<shared, procs, log, rec, asked, stops>> /\ exists' \subseteq Sagas
    BY DEF Create, world, SagaInv, TypeOK
<1>2. TypeOK'
    BY <1>1 DEF SagaInv, TypeOK, Reconcilers
<1>3. \A q \in Reconcilers : RunInv(q)'
    BY <1>1, RunUntouched DEF SagaInv
<1> QED
    BY <1>1, <1>2, <1>3, RunsInv DEF world

LEMMA NextInv == SagaInv /\ [Next]_vars => SagaInv'
<1> SUFFICES ASSUME SagaInv, [Next]_vars PROVE SagaInv'
    OBVIOUS
<1>1. ASSUME NEW s \in Sagas, Request(s) PROVE SagaInv'
    BY <1>1, RequestInv
<1>2. ASSUME NEW s \in Sagas, Create(s) PROVE SagaInv'
    BY <1>2, CreateInv
<1>3. ASSUME NEW r \in Reconcilers, Replay(r) PROVE SagaInv'
    BY <1>3, ReplayInv
<1>4. ASSUME NEW r \in Reconcilers, LookUp(r) PROVE SagaInv'
    BY <1>4, LookUpInv
<1>5. ASSUME NEW r \in Reconcilers, Record(r) PROVE SagaInv'
    BY <1>5, RecordInv
<1>6. ASSUME NEW r \in Reconcilers, Raise(r) \/ Stop(r) PROVE SagaInv'
    BY <1>6, EndsInv
<1>7. ASSUME UNCHANGED vars PROVE SagaInv'
  <2>1. TypeOK'
      BY <1>7 DEF vars, world, SagaInv, TypeOK, Reconcilers
  <2>2. \A q \in Reconcilers : RunInv(q)'
      BY <1>7, RunUntouched DEF vars, world, SagaInv
  <2> QED
      BY <1>7, <2>1, <2>2, RunsInv DEF vars
<1> QED
    BY <1>1, <1>2, <1>3, <1>4, <1>5, <1>6, <1>7 DEF Next, Reconcile

-----------------------------------------------------------------------------
(* The results.                                                            *)

LEMMA AlwaysInv == Spec => []SagaInv
    BY InitInv, NextInv, PTL DEF Spec

(* Every reachable state of the ledger and of the reconcilers is well      *)
(* typed, for any number of sagas, processes and requests                  *)
(* (project_ingestion.py, reconcile_project_subsystems).                   *)
THEOREM TypeCorrect == Spec => []TypeOK
<1>1. SagaInv => TypeOK
    BY DEF SagaInv
<1> QED
    BY <1>1, AlwaysInv, PTL

(* The requests of a saga have different keys: one for each request of a   *)
(* client, and one for each attempt from the second to the last.           *)
LEMMA RequestsBounded ==
    ASSUME SagaInv, NEW s \in Sagas
    PROVE  Cardinality(Requests(s, log)) < asked[s] + MaxAttempts
<1> DEFINE R == Requests(s, log)
           last == asked[s] + MaxAttempts - 1
           f == [i \in R |-> IF log[i].key[1] = "client" THEN log[i].key[3]
                             ELSE asked[s] + log[i].key[3] - 1]
<1>0. log \in Seq(Events) /\ asked[s] \in Nat /\ MaxAttempts \in Nat \ {0} /\ last \in Nat
    BY SagaBounds DEF SagaInv, TypeOK
<1>1. ASSUME NEW i \in R
      PROVE  /\ i \in DOMAIN log
             /\ \/ \E n \in 1..asked[s] : log[i].key = <<"client", s, n>>
                \/ \E n \in 2..MaxAttempts : log[i].key = <<"retry", CorrOf(s), n>>
  <2>1. i \in DOMAIN log /\ log[i].saga = s /\ log[i].type = "requested" /\ KeyFits(log[i])
      BY DEF Requests, Of, SagaInv
  <2> QED
      BY <2>1 DEF KeyFits
<1>2. ASSUME NEW i \in R
      PROVE  \/ \E n \in 1..asked[s] : log[i].key = <<"client", s, n>> /\ f[i] = n
             \/ \E n \in 2..MaxAttempts :
                    log[i].key = <<"retry", CorrOf(s), n>> /\ f[i] = asked[s] + n - 1
    BY <1>0, <1>1
<1>3. f \in [R -> 1..last]
  <2>1. ASSUME NEW i \in R PROVE f[i] \in 1..last
    <3> HIDE DEF f, R
    <3> QED
      BY <1>0, <1>2
  <2> QED
      BY <2>1
<1>4. ASSUME NEW i \in R, NEW j \in R, f[i] = f[j] PROVE i = j
  <2> HIDE DEF f, R
  <2> SUFFICES log[i].key = log[j].key
      BY <1>1 DEF SagaInv, KeysDiffer
  <2>0. asked[s] \in Nat /\ f[i] = f[j]
      BY <1>0, <1>4
  <2>1. CASE \E n \in 1..asked[s] : log[i].key = <<"client", s, n>> /\ f[i] = n
    <3>1. PICK n \in 1..asked[s] : log[i].key = <<"client", s, n>> /\ f[i] = n
        BY <2>1
    <3>2. CASE \E m \in 1..asked[s] : log[j].key = <<"client", s, m>> /\ f[j] = m
        BY <2>0, <3>1, <3>2
    <3>3. CASE \E m \in 2..MaxAttempts :
                    log[j].key = <<"retry", CorrOf(s), m>> /\ f[j] = asked[s] + m - 1
      <4>1. PICK m \in 2..MaxAttempts : f[j] = asked[s] + m - 1
          BY <3>3
      <4>2. n = asked[s] + m - 1
          BY <2>0, <3>1, <4>1
      <4> QED
          BY <1>0, <2>0, <4>2
    <3> QED
        BY <1>2, <3>2, <3>3
  <2>2. CASE \E n \in 2..MaxAttempts :
                log[i].key = <<"retry", CorrOf(s), n>> /\ f[i] = asked[s] + n - 1
    <3>1. PICK n \in 2..MaxAttempts :
                log[i].key = <<"retry", CorrOf(s), n>> /\ f[i] = asked[s] + n - 1
        BY <2>2
    <3>2. CASE \E m \in 1..asked[s] : log[j].key = <<"client", s, m>> /\ f[j] = m
      <4>1. PICK m \in 1..asked[s] : f[j] = m
          BY <3>2
      <4>2. asked[s] + n - 1 = m
          BY <2>0, <3>1, <4>1
      <4> QED
          BY <1>0, <2>0, <4>2
    <3>3. CASE \E m \in 2..MaxAttempts :
                    log[j].key = <<"retry", CorrOf(s), m>> /\ f[j] = asked[s] + m - 1
      <4>1. PICK m \in 2..MaxAttempts :
                    log[j].key = <<"retry", CorrOf(s), m>> /\ f[j] = asked[s] + m - 1
          BY <3>3
      <4>2. asked[s] + n - 1 = asked[s] + m - 1
          BY <2>0, <3>1, <4>1
      <4>3. n = m
          BY <1>0, <2>0, <4>2
      <4> QED
          BY <3>1, <4>1, <4>3
    <3> QED
        BY <1>2, <3>2, <3>3
  <2> QED
      BY <1>2, <2>1, <2>2
<1>5. f \in Injection(R, 1..last)
  <2> HIDE DEF f, R, last
  <2> QED
    BY <1>3, <1>4, Fun_IsInj
<1>6. IsFiniteSet(1..last) /\ Cardinality(1..last) = last
    BY <1>0, FS_Interval
<1>7. Cardinality(R) <= last
  <2> HIDE DEF f, R, last
  <2> QED
    BY <1>5, <1>6, FS_Injection
<1>8. Cardinality(R) \in Nat
    BY <1>0, UpToFinite
<1> HIDE DEF R
<1> QED
    BY <1>0, <1>7, <1>8 DEF R

LEMMA FailureEarned ==
    ASSUME SagaInv, NEW s \in Sagas, NEW i \in Outcomes(s, log), log[i].type = "failed"
    PROVE  Cardinality({j \in Requests(s, log) : j < i}) >= MaxAttempts
<1>0. log \in Seq(Events) /\ MaxAttempts \in Nat
    BY SagaBounds DEF SagaInv, TypeOK
<1>1. i \in DOMAIN log /\ log[i].saga = s /\ KeyFits(log[i]) /\ log[i] \in Events
    BY <1>0 DEF Outcomes, Of, SagaInv
<1>2. log[i].attempt \in Nat /\ log[i].attempt >= MaxAttempts
    BY <1>1 DEF KeyFits, Events
<1>3. log[i].attempt <= Cardinality(UpTo(s, i, log))
    BY <1>1 DEF SagaInv, AttemptsCounted
<1>4. {j \in Requests(s, log) : j < i} = UpTo(s, i, log)
    BY <1>0, <1>1 DEF UpTo, Requests, Of
<1>5. Cardinality(UpTo(s, i, log)) \in Nat
    BY <1>0, UpToFinite
<1>6. Cardinality({j \in Requests(s, log) : j < i}) = Cardinality(UpTo(s, i, log))
    BY <1>4
<1> QED
    BY <1>0, <1>2, <1>3, <1>5, <1>6

(* A saga fails only after MaxAttempts requests, and the reconcilers       *)
(* together add fewer than MaxAttempts, however many of them overlap, work *)
(* on old replays, are killed or fail.                                     *)
THEOREM AttemptsAreHonoured == Spec => []AttemptsHonoured
<1>1. SagaInv => AttemptsHonoured
    BY RequestsBounded, FailureEarned DEF AttemptsHonoured
<1> QED
    BY <1>1, AlwaysInv, PTL
-----------------------------------------------------------------------------
(* Runs that do not overlap.  A run that is alone finds every saga it has  *)
(* left to answer still pending when it answers it, so that each outcome   *)
(* closes a request of a client that was open.                             *)

(* An open request still has an outcome to come.                           *)
ToCome(s) == IF Open(s, log) = {} THEN 0 ELSE 1
Covered(s) == Cardinality(Outcomes(s, log)) + ToCome(s) <= asked[s]

AloneInv == procs = 1 =>
    /\ \A s \in Sagas : Covered(s)
    /\ rec[1].left \subseteq Pending(log)
    /\ rec[1].pc = "answer" => rec[1].saga \in rec[1].left

LEMMA OutcomesFinite ==
    ASSUME NEW s, NEW l, l \in Seq(Events)
    PROVE  IsFiniteSet(Outcomes(s, l)) /\ Cardinality(Outcomes(s, l)) \in Nat
<1>1. IsFiniteSet(1..Len(l)) /\ Outcomes(s, l) \subseteq 1..Len(l)
    BY FS_Interval DEF Outcomes, Of
<1> QED
    BY <1>1, FS_Subset, FS_CardinalityType

(* What an append does to the outcomes and the open requests of a saga.    *)
LEMMA AppendElsewhere ==
    ASSUME NEW s, NEW l, l \in Seq(Events), NEW e \in Events, e.saga # s
    PROVE  Outcomes(s, Append(l, e)) = Outcomes(s, l) /\ Open(s, Append(l, e)) = Open(s, l)
<1>1. /\ Outcomes(s, Append(l, e)) = Outcomes(s, l)
      /\ Requests(s, Append(l, e)) = Requests(s, l)
    BY DEF Outcomes, Requests, Of
<1> QED
    BY <1>1 DEF Open

LEMMA AppendRequest ==
    ASSUME NEW s, NEW l, l \in Seq(Events), NEW e \in Events,
           e.saga = s, e.type = "requested"
    PROVE  Outcomes(s, Append(l, e)) = Outcomes(s, l) /\ Open(s, Append(l, e)) # {}
<1>1. /\ Outcomes(s, Append(l, e)) = Outcomes(s, l)
      /\ Len(l) + 1 \in Requests(s, Append(l, e))
      /\ \A j \in Outcomes(s, l) : j < Len(l) + 1
    BY DEF Outcomes, Requests, Of
<1> QED
    BY <1>1 DEF Open

LEMMA AppendOutcome ==
    ASSUME NEW s, NEW l, l \in Seq(Events), NEW e \in Events,
           e.saga = s, e.type # "requested"
    PROVE  /\ Cardinality(Outcomes(s, Append(l, e))) = Cardinality(Outcomes(s, l)) + 1
           /\ Open(s, Append(l, e)) = {}
<1>1. /\ Outcomes(s, Append(l, e)) = Outcomes(s, l) \cup {Len(l) + 1}
      /\ Len(l) + 1 \notin Outcomes(s, l)
    BY DEF Outcomes, Of
<1>2. \A i \in Requests(s, Append(l, e)) : i \in Nat /\ i < Len(l) + 1
    BY DEF Requests, Of
<1>3. Open(s, Append(l, e)) = {}
  <2>1. Len(l) + 1 \in Outcomes(s, Append(l, e)) /\ Len(l) \in Nat
      BY <1>1
  <2> QED
      BY <1>2, <2>1 DEF Open
<1> QED
    BY <1>1, <1>3, OutcomesFinite, FS_AddElement

(* A request keeps a saga covered if it is a client's or the saga is open, *)
(* an outcome does if the saga is open.                                    *)
LEMMA CoveredAfter ==
    ASSUME TypeOK, NEW s \in Sagas, Covered(s), NEW e \in Events,
           log' = Append(log, e), asked'[s] \in Nat, asked[s] <= asked'[s],
           e.saga = s => \/ Open(s, log) # {}
                         \/ e.type = "requested" /\ asked'[s] = asked[s] + 1
    PROVE  Covered(s)'
<1> DEFINE n == Cardinality(Outcomes(s, log))
           m == Cardinality(Outcomes(s, log'))
<1>0. log \in Seq(Events) /\ log' \in Seq(Events) /\ asked[s] \in Nat
      /\ n \in Nat /\ m \in Nat
  <2>1. log \in Seq(Events) /\ log' \in Seq(Events) /\ asked[s] \in Nat
      BY DEF TypeOK
  <2> QED
      BY <2>1, OutcomesFinite
<1>1. n + (IF Open(s, log) = {} THEN 0 ELSE 1) <= asked[s]
    BY DEF Covered, ToCome
<1>2. m + (IF Open(s, log') = {} THEN 0 ELSE 1) <= asked'[s]
  <2>1. CASE e.saga # s
    <3>1. m = n /\ Open(s, log') = Open(s, log)
        BY <1>0, <2>1, AppendElsewhere
    <3> HIDE DEF m, n
    <3> QED
        BY <1>0, <1>1, <3>1
  <2>2. CASE e.saga = s /\ e.type = "requested"
    <3>1. m = n
        BY <1>0, <2>2, AppendRequest
    <3> HIDE DEF m, n
    <3> QED
        BY <1>0, <1>1, <2>2, <3>1
  <2>3. CASE e.saga = s /\ e.type # "requested"
    <3>1. m = n + 1 /\ Open(s, log') = {}
        BY <1>0, <2>3, AppendOutcome
    <3> HIDE DEF m, n
    <3> QED
        BY <1>0, <1>1, <2>3, <3>1
  <2> QED
      BY <2>1, <2>2, <2>3
<1> QED
    BY <1>2 DEF Covered, ToCome

(* An append closes no saga but the one it is the outcome of.              *)
LEMMA PendingAfter ==
    ASSUME TypeOK, NEW e \in Events, log' = Append(log, e),
           NEW t \in Pending(log), e.type = "requested" \/ e.saga # t
    PROVE  t \in Pending(log)'
<1>1. log \in Seq(Events) /\ t \in Sagas /\ Open(t, log) # {}
    BY DEF TypeOK, Pending
<1>2. Open(t, log') # {}
    BY <1>1, AppendElsewhere, AppendRequest
<1> QED
    BY <1>1, <1>2 DEF Pending

LEMMA AloneStep ==
    ASSUME SagaInv, AloneInv, [Next]_vars, procs = 1
    PROVE  /\ \A s \in Sagas : Covered(s)'
           /\ rec'[1].left \subseteq Pending(log)'
           /\ rec'[1].pc = "answer" => rec'[1].saga \in rec'[1].left
<1> DEFINE Goal == /\ \A s \in Sagas : Covered(s)'
                   /\ rec'[1].left \subseteq Pending(log)'
                   /\ rec'[1].pc = "answer" => rec'[1].saga \in rec'[1].left
<1> SUFFICES Goal
    OBVIOUS
<1>0. /\ TypeOK /\ log \in Seq(Events) /\ Reconcilers = {1}
      /\ rec \in [Reconcilers -> Runs] /\ asked \in [Sagas -> Nat]
      /\ \A s \in Sagas : Covered(s)
      /\ rec[1].left \subseteq Pending(log) /\ rec[1].left \subseteq Sagas
      /\ rec[1].pc = "answer" => rec[1].saga \in rec[1].left
    BY DEF SagaInv, TypeOK, AloneInv, Reconcilers, Runs
<1>1. ASSUME UNCHANGED <<log, asked>>,
             rec'[1].left \subseteq Pending(log),
             rec'[1].pc = "answer" => rec'[1].saga \in rec'[1].left
      PROVE  Goal
    BY <1>0, <1>1 DEF Covered, ToCome
<1>2. ASSUME NEW s \in Sagas, Request(s) PROVE Goal
  <2>1. /\ asked'[s] = asked[s] + 1 /\ rec' = rec
        /\ \A t \in Sagas : asked'[t] \in Nat /\ asked[t] <= asked'[t]
      BY <1>0, <1>2 DEF Request
  <2>2. PICK e \in Events : log' = Append(log, e) /\ e.saga = s /\ e.type = "requested"
    <3>1. <<"client", s, asked'[s]>> \in Keys
        BY <1>0, <2>1 DEF Keys
    <3>2. Event("requested", s, 1, <<"client", s, asked'[s]>>) \in Events
        BY <3>1 DEF Event, Events
    <3> QED
        BY <1>2, <3>2 DEF Request, Event
  <2>3. \A t \in Sagas : Covered(t)'
      BY <1>0, <2>1, <2>2, CoveredAfter
  <2>4. \A t \in Pending(log) : t \in Pending(log)'
      BY <1>0, <2>2, PendingAfter
  <2> QED
      BY <1>0, <2>1, <2>3, <2>4
<1>3. ASSUME NEW r \in Reconcilers, Record(r) PROVE Goal
  <2>1. r = 1 /\ rec[1].pc = "answer" /\ UNCHANGED <<asked, procs>>
      BY <1>0, <1>3 DEF Record, world
  <2>2. /\ rec'[1].left \subseteq rec[1].left \ {rec[1].saga}
        /\ rec'[1].pc # "answer"
      BY <1>0, <1>3, <2>1 DEF Record, NoRun
  <2>3. PICK e : e = Answer(r)
      OBVIOUS
  <2>4. e \in Events /\ e.saga = rec[1].saga
    <3>1. e.saga = rec[r].saga
        BY <2>3 DEF Answer, Event
    <3> QED
        BY <1>3, <2>1, <2>3, <3>1, AnswerFits
  <2>5. CASE log' = log
      BY <1>0, <1>1, <2>1, <2>2, <2>5
  <2>6. CASE log' = Append(log, e)
    <3>1. rec[1].saga \in Pending(log)
        BY <1>0, <2>1
    <3>2. Open(e.saga, log) # {}
        BY <2>4, <3>1 DEF Pending
    <3>3. ASSUME NEW t \in Sagas PROVE Covered(t)'
      <4>1. asked'[t] \in Nat /\ asked[t] <= asked'[t] /\ Covered(t)
          BY <1>0, <2>1
      <4> QED
          BY <1>0, <2>4, <2>6, <3>2, <4>1, CoveredAfter
    <3>4. ASSUME NEW t \in rec'[1].left PROVE t \in Pending(log)'
      <4>1. t \in Pending(log) /\ t # e.saga
          BY <1>0, <2>2, <2>4
      <4> QED
          BY <1>0, <2>4, <2>6, <4>1, PendingAfter
    <3> QED
        BY <2>2, <3>3, <3>4
  <2> QED
      BY <1>3, <2>3, <2>5, <2>6 DEF Record
<1>4. ASSUME NEW s \in Sagas, Create(s) PROVE Goal
    BY <1>0, <1>1, <1>4 DEF Create
<1>5. ASSUME NEW r \in Reconcilers, Replay(r) PROVE Goal
  <2>1. r = 1 /\ UNCHANGED <<log, asked>>
      BY <1>0, <1>5 DEF Replay
  <2>2. rec'[1].left = Pending(log) /\ rec'[1].pc = "next"
      BY <1>0, <1>5, <2>1 DEF Replay, NoRun
  <2> QED
      BY <1>1, <2>1, <2>2
<1>6. ASSUME NEW r \in Reconcilers, LookUp(r) PROVE Goal
  <2>1. r = 1 /\ UNCHANGED <<log, asked>>
      BY <1>0, <1>6 DEF LookUp
  <2>2. rec'[1].left = rec[1].left /\ rec'[1].saga \in rec[1].left
    <3>1. rec[1] \in Runs
        BY <1>0
    <3> QED
        BY <1>0, <1>6, <2>1, <3>1 DEF LookUp, Runs
  <2> QED
      BY <1>0, <1>1, <2>1, <2>2
<1>7. ASSUME NEW r \in Reconcilers, Raise(r) \/ Stop(r) PROVE Goal
  <2>1. r = 1 /\ UNCHANGED <<log, asked>> /\ rec' = [rec EXCEPT ![1] = NoRun]
      BY <1>0, <1>7 DEF Raise, Stop
  <2>2. rec'[1] = NoRun
      BY <1>0, <2>1
  <2> QED
      BY <1>1, <2>1, <2>2 DEF NoRun
<1>8. CASE UNCHANGED vars
    BY <1>0, <1>1, <1>8 DEF vars
<1> QED
    BY <1>2, <1>3, <1>4, <1>5, <1>6, <1>7, <1>8 DEF Next, Reconcile

(* Runs of reconciliation that do not overlap record at most one outcome   *)
(* for each request of a client, although an association and a failure     *)
(* have different idempotency keys, so that the ledger would take both     *)
(* (reconcile_project_subsystems).                                         *)
THEOREM AnsweredOnce == Spec => []OneOutcome
<1>1. Init => AloneInv
  <2> SUFFICES ASSUME Init PROVE AloneInv
      OBVIOUS
  <2>1. /\ log = <<>> /\ \A s \in Sagas : asked[s] = 0
        /\ procs = 1 => rec[1] = NoRun
      BY DEF Init, Reconcilers
  <2>2. \A s \in Sagas : Outcomes(s, log) = {} /\ Open(s, log) = {}
      BY <2>1 DEF Outcomes, Open, Requests, Of
  <2>3. ASSUME NEW s \in Sagas PROVE Covered(s)
    <3>1. Cardinality(Outcomes(s, log)) = 0 /\ ToCome(s) = 0
      <4>1. Cardinality({}) = 0
          BY FS_EmptySet
      <4> QED
          BY <2>2, <4>1 DEF ToCome
    <3> QED
        BY <2>1, <3>1 DEF Covered
  <2> QED
      BY <2>1, <2>3 DEF AloneInv, NoRun
<1>2. SagaInv /\ AloneInv /\ [Next]_vars => AloneInv'
  <2> SUFFICES ASSUME SagaInv, AloneInv, [Next]_vars, procs' = 1
               PROVE  /\ \A s \in Sagas : Covered(s)'
                      /\ rec'[1].left \subseteq Pending(log)'
                      /\ rec'[1].pc = "answer" => rec'[1].saga \in rec'[1].left
      BY DEF AloneInv
  <2>1. procs' = procs
      BY DEF Next, Request, Create, Reconcile, Replay, LookUp, Record, Raise, Stop, world, vars
  <2> QED
      BY <2>1, AloneStep
<1>3. SagaInv /\ AloneInv => OneOutcome
  <2> SUFFICES ASSUME SagaInv, AloneInv, procs = 1, NEW s \in Sagas
               PROVE  Cardinality(Outcomes(s, log)) <= asked[s]
      BY DEF OneOutcome, Outcomes
  <2>1. log \in Seq(Events) /\ asked[s] \in Nat /\ Covered(s)
      BY DEF SagaInv, TypeOK, AloneInv
  <2>2. Cardinality(Outcomes(s, log)) \in Nat
      BY <2>1, OutcomesFinite
  <2> QED
      BY <2>1, <2>2 DEF Covered, ToCome
<1> QED
    BY <1>1, <1>2, <1>3, AlwaysInv, PTL DEF Spec
================================================================================
