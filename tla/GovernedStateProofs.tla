-------------------------- MODULE GovernedStateProofs --------------------------
(***************************************************************************)
(* Theorems about GovernedState, for any tasks, decisions, callers, first  *)
(* ledger and number of events.                                            *)
(*                                                                         *)
(* The replay is a fold over the ledger, of which nothing can be proved by *)
(* induction over its operators.  It is unfolded once: over sets of        *)
(* numbers (Climb), for one event more at the end (ReplayAppend).  What    *)
(* holds of replayed states then follows event by event, first along Base, *)
(* then along the steps of the service.                                    *)
(***************************************************************************)
EXTENDS GovernedState, SequenceTheorems, NaturalsInduction, WellFoundedInduction, TLAPS

-----------------------------------------------------------------------------
(* Replay is a fold: it takes one event more with one more Apply.          *)

(* A nonempty set of numbers has a least one.                              *)
LEMMA LeastOf ==
    ASSUME NEW S, S \subseteq Nat, S # {}
    PROVE  \E i \in S : \A j \in S : i <= j
<1> DEFINE R == OpToRel(<, Nat)
<1>1. IsWellFoundedOn(R, Nat)
  BY NatLessThanWellFounded
<1>2. \A i, j \in Nat : <<j, i>> \in R \/ i <= j
  <2> SUFFICES ASSUME NEW i \in Nat, NEW j \in Nat, ~(i <= j) PROVE <<j, i>> \in R
    OBVIOUS
  <2>1. j < i
    OBVIOUS
  <2> QED BY <2>1, Zenon DEF OpToRel
<1> HIDE DEF R
<1>3. \E i \in S : \A j \in S : ~(<<j, i>> \in R)
  BY <1>1, WFMin, Zenon
<1>4. PICK i \in S : \A j \in S : ~(<<j, i>> \in R)
  BY <1>3
<1> QED BY <1>2, <1>4

(* Induction up to n, for a set of numbers.                                *)
LEMMA Climb ==
    ASSUME NEW n \in Nat, NEW S, 0 \in S, \A m \in 0..n : m \in S /\ m < n => m + 1 \in S
    PROVE  \A m \in 0..n : m \in S
<1> DEFINE B == {m \in 0..n : m \notin S}
<1> SUFFICES ASSUME B # {} PROVE FALSE
  OBVIOUS
<1>1. B \subseteq Nat
  OBVIOUS
<1>2. PICK m \in B : \A j \in B : m <= j
  BY <1>1, LeastOf
<1>3. m # 0 /\ m - 1 \in 0..n /\ m - 1 < n
  OBVIOUS
<1>4. m - 1 \in S
  BY <1>2, <1>3
<1> QED BY <1>2, <1>3, <1>4

(* What FoldLeft makes of the events at places in S, from the last to the  *)
(* first.                                                                  *)
Folds(it, N, s, events) ==
    it = [S \in SUBSET (1..N) |->
             IF S = {} THEN s ELSE Apply(it[S \ {Max(S)}], events[Max(S)])]

LEMMA ReplayFolds ==
    ASSUME NEW s, NEW E, NEW events \in Seq(E)
    PROVE  Replay(s, events) = (CHOOSE it : Folds(it, Len(events), s, events))[1..Len(events)]
<1>1. DOMAIN events = 1..Len(events)
  OBVIOUS
<1>2. Replay(s, events) = (CHOOSE it : it = [S \in SUBSET DOMAIN events |->
          IF S = {} THEN s ELSE Apply(it[S \ {Max(S)}], events[Max(S)])])[DOMAIN events]
  BY Zenon DEF Replay, FoldLeft, MapThenFoldSet
<1> QED BY <1>1, <1>2, Zenon DEF Folds

LEMMA MaxOf ==
    ASSUME NEW n \in Nat, NEW S \in SUBSET (1..n+1), n + 1 \in S
    PROVE  Max(S) = n + 1 /\ S \ {n + 1} \in SUBSET (1..n)
<1>1. \A y \in S : n + 1 >= y
  OBVIOUS
<1>2. \A x \in S : (\A y \in S : x >= y) => x = n + 1
  OBVIOUS
<1>3. Max(S) = n + 1
  BY <1>1, <1>2 DEF Max
<1> QED BY <1>3

LEMMA FoldsExist ==
    ASSUME NEW N \in Nat, NEW s, NEW events
    PROVE  \E it : Folds(it, N, s, events)
<1> DEFINE P == {n \in Nat : \E it : Folds(it, n, s, events)}
<1>1. 0 \in P
  <2> DEFINE it == [S \in SUBSET (1..0) |-> s]
  <2>1. SUBSET (1..0) = {{}}
    OBVIOUS
  <2>2. Folds(it, 0, s, events)
    BY <2>1 DEF Folds
  <2> QED BY <2>2
<1>2. ASSUME NEW n \in 0..N, n \in P PROVE n + 1 \in P
  <2>1. PICK it : Folds(it, n, s, events)
    BY <1>2
  <2> DEFINE up == [S \in SUBSET (1..n+1) |->
                       IF n + 1 \in S THEN Apply(it[S \ {n + 1}], events[n + 1]) ELSE it[S]]
  <2>0. n \in Nat
    OBVIOUS
  <2>2. ASSUME NEW S \in SUBSET (1..n) PROVE up[S] = it[S]
    BY <2>0
  <2>3. ASSUME NEW S \in SUBSET (1..n+1)
        PROVE  up[S] = IF S = {} THEN s ELSE Apply(up[S \ {Max(S)}], events[Max(S)])
    <3>1. CASE n + 1 \in S
      <4>1. Max(S) = n + 1 /\ S \ {n + 1} \in SUBSET (1..n)
        BY <2>0, <3>1, MaxOf
      <4>2. up[S \ {n + 1}] = it[S \ {n + 1}]
        BY <2>2, <4>1
      <4>3. up[S] = Apply(it[S \ {n + 1}], events[n + 1])
        BY <3>1
      <4> QED BY <3>1, <4>1, <4>2, <4>3, Zenon
    <3>2. CASE n + 1 \notin S
      <4>0. S \in SUBSET (1..n)
        BY <2>0, <3>2
      <4>1. S \in SUBSET (1..n) /\ S \ {Max(S)} \in SUBSET (1..n)
        BY <4>0, Zenon
      <4>2. it[S] = IF S = {} THEN s ELSE Apply(it[S \ {Max(S)}], events[Max(S)])
        BY <2>1, <4>1, Zenon DEF Folds
      <4>3. up[S] = it[S] /\ up[S \ {Max(S)}] = it[S \ {Max(S)}]
        BY <2>2, <4>1
      <4> QED BY <4>2, <4>3, Zenon
    <3> QED BY <3>1, <3>2
  <2>4. up = [S \in SUBSET (1..n+1) |-> up[S]]
    BY Zenon
  <2> HIDE DEF up
  <2>5. Folds(up, n + 1, s, events)
    BY <2>3, <2>4, Zenon DEF Folds
  <2>6. n + 1 \in Nat
    BY <2>0
  <2> QED BY <2>5, <2>6, Zenon
<1> HIDE DEF P
<1>3. \A m \in 0..N : m \in P
  BY <1>1, <1>2, Climb
<1>4. N \in P
  BY <1>3
<1> QED BY <1>4 DEF P

(* The same events, the same folds.                                        *)
LEMMA FoldsAgree ==
    ASSUME NEW N \in Nat, NEW s, NEW e1, NEW e2, NEW f1, NEW f2,
           \A i \in 1..N : e1[i] = e2[i],
           Folds(f1, N, s, e1), Folds(f2, N + 1, s, e2)
    PROVE  f1[1..N] = f2[1..N]
<1> DEFINE P == {n \in 0..N : \A S \in SUBSET (1..n) : f1[S] = f2[S]}
<1>0. ASSUME NEW S \in SUBSET (1..N)
      PROVE  /\ f1[S] = IF S = {} THEN s ELSE Apply(f1[S \ {Max(S)}], e1[Max(S)])
             /\ f2[S] = IF S = {} THEN s ELSE Apply(f2[S \ {Max(S)}], e2[Max(S)])
  <2>1. S \in SUBSET (1..N) /\ S \in SUBSET (1..N + 1)
    OBVIOUS
  <2> QED BY <2>1, Zenon DEF Folds
<1>1. 0 \in P
  <2>1. \A S \in SUBSET (1..0) : S = {} /\ S \in SUBSET (1..N)
    OBVIOUS
  <2>2. \A S \in SUBSET (1..0) : f1[S] = f2[S]
    BY <1>0, <2>1, Zenon
  <2> QED BY <2>2
<1>2. ASSUME NEW n \in 0..N, n \in P, n < N PROVE n + 1 \in P
  <2>0. n \in Nat /\ n + 1 \in 0..N /\ n + 1 \in 1..N
    BY <1>2
  <2> SUFFICES ASSUME NEW S \in SUBSET (1..n+1) PROVE f1[S] = f2[S]
    BY <2>0
  <2>1. CASE n + 1 \in S
    <3>1. Max(S) = n + 1 /\ S \ {n + 1} \in SUBSET (1..n) /\ S \in SUBSET (1..N) /\ S # {}
      BY <2>0, <2>1, MaxOf
    <3>2. f1[S \ {n + 1}] = f2[S \ {n + 1}] /\ e1[n + 1] = e2[n + 1]
      BY <1>2, <2>0, <3>1
    <3> QED BY <1>0, <3>1, <3>2, Zenon
  <2>2. CASE n + 1 \notin S
    <3>1. S \in SUBSET (1..n)
      BY <2>0, <2>2
    <3> QED BY <1>2, <3>1
  <2> QED BY <2>1, <2>2
<1> HIDE DEF P
<1>3. \A m \in 0..N : m \in P
  BY <1>1, <1>2, Climb
<1>4. N \in P
  BY <1>3
<1>5. 1..N \in SUBSET (1..N)
  OBVIOUS
<1> QED BY <1>4, <1>5 DEF P

LEMMA ReplayNothing == ASSUME NEW s PROVE Replay(s, <<>>) = s
<1>1. <<>> \in Seq({}) /\ Len(<<>>) = 0
  OBVIOUS
<1>2. Replay(s, <<>>) = (CHOOSE it : Folds(it, 0, s, <<>>))[1..0]
  BY <1>1, ReplayFolds
<1>3. \E it : Folds(it, 0, s, <<>>)
  BY FoldsExist
<1>4. 1..0 = {} /\ 1..0 \in SUBSET (1..0)
  OBVIOUS
<1>5. ASSUME NEW it, Folds(it, 0, s, <<>>) PROVE it[1..0] = s
  BY <1>4, <1>5, Zenon DEF Folds
<1> QED BY <1>2, <1>3, <1>5

LEMMA ReplayAppend ==
    ASSUME NEW s, NEW E, NEW events \in Seq(E), NEW e \in E
    PROVE  Replay(s, Append(events, e)) = Apply(Replay(s, events), e)
<1> DEFINE n == Len(events)
<1>0. PICK more : more = Append(events, e)
  OBVIOUS
<1>1. n \in Nat /\ n + 1 \in Nat /\ more \in Seq(E) /\ Len(more) = n + 1
      /\ more[n + 1] = e /\ \A i \in 1..n : more[i] = events[i]
  BY <1>0, AppendProperties
<1>2. PICK f : f = (CHOOSE it : Folds(it, n, s, events)) /\ Folds(f, n, s, events)
  BY <1>1, FoldsExist
<1>3. PICK g : g = (CHOOSE it : Folds(it, n + 1, s, more)) /\ Folds(g, n + 1, s, more)
  BY <1>1, FoldsExist
<1>4. Replay(s, events) = f[1..n] /\ Replay(s, more) = g[1..n + 1]
  BY <1>1, <1>2, <1>3, ReplayFolds
<1>5. f[1..n] = g[1..n]
  <2>1. n \in Nat /\ \A i \in 1..n : events[i] = more[i]
    BY <1>1
  <2> HIDE DEF n
  <2> QED BY <1>2, <1>3, <2>1, FoldsAgree
<1>6. Max(1..n + 1) = n + 1 /\ (1..n + 1) \ {n + 1} = 1..n /\ 1..n + 1 # {}
  <2>1. n + 1 \in 1..n + 1 /\ (1..n + 1) \ {n + 1} = 1..n /\ 1..n + 1 \in SUBSET (1..n+1)
    BY <1>1
  <2> QED BY <1>1, <2>1, MaxOf
<1>7. 1..n + 1 \in SUBSET (1..n + 1)
  OBVIOUS
<1>8. g[1..n + 1] = Apply(g[1..n], more[n + 1])
  BY <1>3, <1>6, <1>7, Zenon DEF Folds
<1> QED BY <1>0, <1>1, <1>4, <1>5, <1>8

-----------------------------------------------------------------------------
(* What an event does to the state.                                        *)
Fields == {"failed", "seq", "phase", "owner", "evidence", "charter", "raci", "tasks",
           "decisions", "approved", "receipts", "gates", "overridden", "history"}

IsState(s) ==
    /\ DOMAIN s = Fields
    /\ s.failed \in Nat /\ s.seq \in Nat
    /\ \E H : s.history \in Seq(H)

(* All but phase changes and evaluations leave history and views alone,    *)
(* or take something away.                                                 *)
PlainEffect(s, e, r) ==
    /\ DOMAIN r = Fields /\ r.failed = s.failed /\ r.history = s.history
    /\ s.evidence \subseteq r.evidence
    /\ e.type = "raci.assigned" => r.raci = s.raci \cup {<<e.role, e.actor>>}
    /\ e.type = "raci.revoked" => r.raci = s.raci \ {<<e.role, e.actor>>}
    /\ e.type \notin {"raci.assigned", "raci.revoked"} => r.raci = s.raci
    /\ r.approved = IF e.type = "decision.disassociated" THEN s.approved \ {e.id}
                    ELSE s.approved
    /\ \A t \in DOMAIN r.tasks :
          r.tasks[t] = Unknown \/ (t \in DOMAIN s.tasks /\ r.tasks[t] = s.tasks[t])
    /\ \A d \in DOMAIN r.decisions :
          \/ e.type = "decision.associated" /\ d = e.id /\ r.decisions[d] = "pending"
          \/ d \in DOMAIN s.decisions /\ r.decisions[d] = s.decisions[d]
    /\ e.type = "override" /\ OverrideAllowed(e, EffectiveAuthority(s)) =>
          e.gate \in r.overridden

LEMMA EffectPlain ==
    ASSUME NEW s, IsState(s), NEW e, e.type \in EventTypes \ {"phase", "evaluated"}
    PROVE  PlainEffect(s, e, Effect(s, e))
<1> USE DEF IsState, Fields, PlainEffect
<1>1. CASE e.type = "created"
  <2>1. Effect(s, e) = [s EXCEPT !.phase = "DISCOVERY", !.owner = s.owner \/ e.owner]
    BY <1>1 DEF Effect
  <2> QED BY <1>1, <2>1
<1>2. CASE e.type = "evidence"
  <2>1. \E x : Effect(s, e) = [s EXCEPT !.evidence = s.evidence \cup {e.ref}, !.charter = x]
    BY <1>2 DEF Effect
  <2> QED BY <1>2, <2>1
<1>3. CASE e.type \in {"raci.assigned", "raci.revoked"}
  <2>1. Effect(s, e) = [s EXCEPT !.raci = IF e.type = "raci.assigned"
                                           THEN s.raci \cup {<<e.role, e.actor>>}
                                           ELSE s.raci \ {<<e.role, e.actor>>}]
    BY <1>3 DEF Effect
  <2> QED BY <1>3, <2>1
<1>0. CASE e.type = "public"
  <2>1. Effect(s, e) = s
    BY <1>0 DEF Effect
  <2> QED BY <1>0, <2>1
<1>4. CASE e.type = "task.associated"
  <2>1. Effect(s, e) = [s EXCEPT !.tasks = With(s.tasks, e.id, Unknown)]
    BY <1>4 DEF Effect
  <2> QED BY <1>4, <2>1 DEF With, Over
<1>5. CASE e.type = "task.disassociated"
  <2>1. Effect(s, e) = [s EXCEPT !.tasks = Without(s.tasks, e.id)]
    BY <1>5 DEF Effect
  <2> QED BY <1>5, <2>1 DEF Without
<1>6. CASE e.type = "decision.associated"
  <2>1. Effect(s, e) = [s EXCEPT !.decisions = With(s.decisions, e.id, "pending")]
    BY <1>6 DEF Effect
  <2> QED BY <1>6, <2>1 DEF With, Over
<1>7. CASE e.type = "decision.disassociated"
  <2>1. Effect(s, e) = [s EXCEPT !.decisions = Without(s.decisions, e.id),
                                 !.approved = s.approved \ {e.id}]
    BY <1>7 DEF Effect
  <2> QED BY <1>7, <2>1 DEF Without
<1>8. CASE e.type = "override"
  <2>1. Effect(s, e) = IF OverrideAllowed(e, EffectiveAuthority(s))
                       THEN [s EXCEPT !.overridden = s.overridden \cup {e.gate}] ELSE s
    BY <1>8 DEF Effect
  <2> QED BY <1>8, <2>1
<1> QED BY <1>0, <1>1, <1>2, <1>3, <1>4, <1>5, <1>6, <1>7, <1>8 DEF EventTypes

-----------------------------------------------------------------------------
(* The inductive invariant.                                                *)
EventsTo(n) == Range(Base) \cup {log[i] : i \in 1..n}

(* An evaluation among E saw t in a terminal state, d with this status,    *)
(* or approved d.                                                          *)
SawTerminal(E, t) ==
    \E e \in E : /\ e.type = "evaluated" /\ t \in DOMAIN e.tasks
                 /\ e.tasks[t].state \in Terminal
SawStatus(E, d, status) ==
    \E e \in E : e.type = "evaluated" /\ d \in DOMAIN e.decisions /\ e.decisions[d] = status
SawApproval(E, d) ==
    \E e \in E : /\ e.type = "evaluated" /\ d \in e.approved
                 /\ d \in DOMAIN e.decisions /\ e.decisions[d] = "approved"

ClosedOnViews(E, h) ==
    h.from = "CLOSING" /\ h.to = "CLOSED" =>
        /\ \A t \in h.tasks : SawTerminal(E, t)
        /\ \A d \in DOMAIN h.decisions :
               h.decisions[d] \in Resolved /\ SawStatus(E, d, h.decisions[d])

(* Where a phase change is in the ledger, and what it stands on.           *)
HistoryFits(E, m, h) ==
    /\ h.seq \in 0..m
    /\ ClosedOnViews(E, h)
    /\ \A d \in h.approvals : SawApproval(E, d)

(* What holds of a state s replayed from m events, all of them in E.       *)
FromViews(s, E) ==
    /\ DOMAIN s.decisions \subseteq Decisions
    /\ \A t \in DOMAIN s.tasks : s.tasks[t].state \in Terminal => SawTerminal(E, t)
    /\ \A d \in DOMAIN s.decisions :
           s.decisions[d] # "pending" => SawStatus(E, d, s.decisions[d])
    /\ \A d \in s.approved : SawApproval(E, d)

(* And besides: where it is, and what it has recorded of phases.           *)
Replayed(s, E, m) ==
    /\ IsState(s)
    /\ s.failed = 0 => s.seq = m
    /\ s.failed <= m
    /\ FromViews(s, E)
    /\ \A i \in 1..Len(s.history) : HistoryFits(E, m, s.history[i])

(* So it is after each event of the ledger.                                *)
LogReplays ==
    \A n \in 0..Len(log) : Replayed(StateAt(n), EventsTo(n), Len(Base) + n)

(* Between a state and a later one nothing went that the override o needs. *)
Keeps(s, r, o) ==
    /\ s.evidence \subseteq r.evidence
    /\ AccountableSet(r) = AccountableSet(s)
    /\ \A role \in OverrideRoles : <<role, o.actor>> \in s.raci => <<role, o.actor>> \in r.raci
    /\ o.by \in s.approved => o.by \in r.approved

LogKeeps ==
    \A o : \A n \in 0..Len(log) : \A b \in 0..n :
        \/ \E j \in b + 1..n : TakesFrom(log[j], o, StateAt(b))
        \/ StateAt(n).failed # 0
        \/ Keeps(StateAt(b), StateAt(n), o)

(* An event the replay knows.                                              *)
Proper(e) ==
    /\ e.type \in EventTypes
    /\ e.type = "decision.associated" => e.id \in Decisions

(* An evaluation stands on the stores.                                     *)
Founded(e) ==
    e.type = "evaluated" =>
        /\ DOMAIN e.tasks \subseteq Tasks /\ DOMAIN e.decisions \subseteq Decisions
        /\ e.approved \subseteq shown
        /\ \A d \in DOMAIN e.decisions : e.decisions[d] = "expired" => decision[d] = "expired"

IsSeq(f) == f \in Seq(Range(f))

LogType ==
    /\ IsSeq(log) /\ IsSeq(approvedAt) /\ Len(approvedAt) = Len(log)
    /\ \A i \in 1..Len(log) : Proper(log[i])

LogFounded == \A e \in Range(Base) \cup Range(log) : Proper(e) /\ Founded(e)

(* The task as it is when the open transaction is undone.                  *)
Settled(t) == IF tx # None /\ tx.of = t THEN tx.old ELSE task[t]

StoreInv ==
    /\ tx # None /\ tx.of \in Decisions => decision[tx.of] \in {"approved", "rejected"}
    /\ \A t \in Tasks :
           /\ Settled(t).state \in Terminal => task[t].state \in Terminal
           /\ \A v \in journal[t] :
                  v.state \in Terminal => v = task[t] \/ Settled(t).state \in Terminal
    /\ \A a \in answered : decision[a[1]] = a[2] /\ (a[2] = "approved" => a[1] \in shown)

(* What a caller has read, of the ledger and of the stores.                *)
CallFields == {"at", "c", "base", "head", "claims", "tasks", "decisions", "again", "look",
               "approved", "receipts"}

(* What it may look for: the receipt of what it read.                      *)
LooksFor(q) ==
    \/ q.look = None
    \/ \E d \in Decisions : /\ q.look = <<d, "approved">>
                             /\ d \in DOMAIN q.decisions /\ q.decisions[d] = "approved"
    \/ \E t \in Tasks : \E r : q.look = <<t, r>> /\ t \in DOMAIN q.tasks

CallBody(q, s) ==
    /\ DOMAIN q = CallFields
    /\ q.base \in 0..Len(log) /\ q.head \in q.base..Len(log)
    /\ s.failed = 0 /\ q.c.refs \subseteq s.evidence
    /\ q.at \in {"read", "append"} /\ (q.at = "read" => q.head = q.base)
    /\ DOMAIN q.tasks \subseteq DOMAIN s.tasks \cap Tasks
    /\ DOMAIN q.decisions \subseteq DOMAIN s.decisions
    /\ \A d \in q.approved : d \in shown /\ d \in DOMAIN q.decisions
                             /\ q.decisions[d] = "approved"
    /\ \A d \in DOMAIN q.decisions : q.decisions[d] = "expired" => decision[d] = "expired"
    /\ \A tr \in q.receipts : tr[1] \in DOMAIN q.tasks
    /\ LooksFor(q)

CallInv(p) == call[p] = Idle \/ CallBody(call[p], StateAt(call[p].base))

(* Of the shape of things, and all of it.                                  *)
ShapeInv == LogType /\ TypeOK /\ StoreInv

GovernedInv ==
    /\ ShapeInv /\ LogReplays /\ LogKeeps /\ LogFounded
    /\ \A p \in Procs : CallInv(p)

-----------------------------------------------------------------------------
(* One event more.                                                         *)
LEMMA PhaseEffect ==
    ASSUME NEW s, IsState(s), NEW e, e.type = "phase"
    PROVE  LET r == Effect(s, e) IN
           /\ DOMAIN r = Fields /\ r.failed = s.failed /\ r.evidence = s.evidence
           /\ r.raci = s.raci /\ r.approved = s.approved /\ r.tasks = s.tasks
           /\ r.decisions = s.decisions
           /\ r.history = Append(s.history,
                  [seq |-> s.seq + 1, from |-> s.phase, to |-> e.to,
                   approvals |-> e.approvals \cap s.approved,
                   tasks |-> DOMAIN s.tasks, decisions |-> s.decisions])
<1>1. Effect(s, e) = ChangePhase(s, e)
  BY DEF Effect
<1> QED BY <1>1 DEF ChangePhase, IsState, Fields

LEMMA EvaluatedEffect ==
    ASSUME NEW s, IsState(s), NEW e, e.type = "evaluated"
    PROVE  LET r == Effect(s, e) IN
           /\ DOMAIN r = Fields /\ r.failed = s.failed /\ r.evidence = s.evidence
           /\ r.raci = s.raci /\ r.approved = s.approved \cup e.approved
           /\ r.tasks = Over(e.tasks, s.tasks)
           /\ r.decisions = Over(e.decisions, s.decisions)
           /\ r.history = s.history
<1>1. Effect(s, e) = RecordEvaluation(s, e)
  BY DEF Effect
<1> QED BY <1>1 DEF RecordEvaluation, IsState, Fields

LEMMA Refused ==
    ASSUME NEW s, IsState(s), NEW e, s.failed = 0, Raises(s, e)
    PROVE  /\ DOMAIN Apply(s, e) = Fields
           /\ Apply(s, e).failed = s.seq + 1
           /\ \A f \in Fields \ {"failed"} : Apply(s, e)[f] = s[f]
<1>1. Apply(s, e) = [s EXCEPT !.failed = s.seq + 1]
  BY DEF Apply
<1> QED BY <1>1 DEF IsState, Fields

LEMMA Accepted ==
    ASSUME NEW s, IsState(s), NEW e, s.failed = 0, ~Raises(s, e),
           DOMAIN Effect(s, e) = Fields
    PROVE  /\ DOMAIN Apply(s, e) = Fields
           /\ Apply(s, e).seq = s.seq + 1
           /\ \A f \in Fields \ {"seq"} : Apply(s, e)[f] = Effect(s, e)[f]
<1>1. Apply(s, e) = [Effect(s, e) EXCEPT !.seq = s.seq + 1]
  BY DEF Apply
<1> QED BY <1>1 DEF Fields

(* What the replay takes from the views of evaluations, it takes from this *)
(* event or had before.                                                    *)
LEMMA EffectFromViews ==
    ASSUME NEW E, NEW s, IsState(s), FromViews(s, E), NEW e \in E, Proper(e), ~Raises(s, e)
    PROVE  FromViews(Effect(s, e), E) /\ DOMAIN Effect(s, e) = Fields
<1> DEFINE r == Effect(s, e)
<1>1. CASE e.type = "phase"
  BY <1>1, PhaseEffect DEF FromViews
<1>2. CASE e.type = "evaluated"
  <2>1. EvaluationFits(s, e)
    BY <1>2 DEF Raises
  <2>2. /\ DOMAIN r = Fields /\ r.approved = s.approved \cup e.approved
        /\ r.tasks = Over(e.tasks, s.tasks) /\ r.decisions = Over(e.decisions, s.decisions)
    BY <1>2, EvaluatedEffect
  <2> HIDE DEF r
  <2>3. DOMAIN r.decisions \subseteq Decisions
    BY <2>1, <2>2 DEF FromViews, EvaluationFits, Over
  <2>4. \A t \in DOMAIN r.tasks : r.tasks[t].state \in Terminal => SawTerminal(E, t)
    BY <1>2, <2>2 DEF FromViews, SawTerminal, Over
  <2>5. \A d \in DOMAIN r.decisions :
           r.decisions[d] # "pending" => SawStatus(E, d, r.decisions[d])
    BY <1>2, <2>2 DEF FromViews, SawStatus, Over
  <2>6. \A d \in r.approved : SawApproval(E, d)
    BY <1>2, <2>1, <2>2 DEF FromViews, SawApproval, EvaluationFits
  <2> QED BY <2>2, <2>3, <2>4, <2>5, <2>6, Zenon DEF r, FromViews
<1>3. CASE e.type \notin {"phase", "evaluated"}
  <2>1. PlainEffect(s, e, r)
    BY <1>3, EffectPlain DEF Proper
  <2> HIDE DEF r
  <2>2. Unknown.state \notin Terminal
    BY DEF Unknown, Terminal
  <2> QED BY <2>1, <2>2 DEF FromViews, Proper, PlainEffect, r
<1> QED BY <1>1, <1>2, <1>3

(* Closing a project asks that all is finished, as evaluations saw it.     *)
LEMMA ClosingOnViews ==
    ASSUME NEW E, NEW s, IsState(s), FromViews(s, E), NEW e, e.type = "phase",
           ~Raises(s, e), NEW h, h.from = s.phase, h.to = e.to, h.tasks = DOMAIN s.tasks,
           h.decisions = s.decisions
    PROVE  ClosedOnViews(E, h)
<1> SUFFICES ASSUME s.phase = "CLOSING", e.to = "CLOSED" PROVE ClosedOnViews(E, h)
  BY Zenon DEF ClosedOnViews
<1> DEFINE rule == Legal[<<s.phase, e.to>>]
<1>1. {"all_tasks_terminal", "all_decisions_resolved"} \subseteq rule.pre
  <2>1. <<"CLOSING", "CLOSED">> \in LegalSteps
    BY DEF LegalSteps
  <2>2. rule = Rule("dod_final_closing", TRUE, TRUE, FALSE,
                    {"dod_passed", "all_tasks_terminal", "all_decisions_resolved"})
    BY <2>1 DEF Legal
  <2> HIDE DEF rule
  <2> QED BY <2>2 DEF Rule
<1>2. TransitionAllowed(s, e, EffectiveAuthority(s))
  BY DEF Raises
<1>3. \A pre \in rule.pre : Precondition(pre, s, e, EffectiveAuthority(s))
  BY <1>2, Zenon DEF TransitionAllowed
<1> HIDE DEF rule
<1>4. AllTerminal(s) /\ AllResolved(s)
  BY <1>1, <1>3 DEF Precondition
<1>5. "pending" \notin Resolved
  BY DEF Resolved
<1> QED BY <1>4, <1>5 DEF ClosedOnViews, AllTerminal, AllResolved, FromViews

LEMMA ClosedLater ==
    ASSUME NEW E, NEW F, E \subseteq F, NEW h, ClosedOnViews(E, h)
    PROVE  ClosedOnViews(F, h)
BY DEF ClosedOnViews, SawTerminal, SawStatus

LEMMA HistoryLater ==
    ASSUME NEW E, NEW F, E \subseteq F, NEW m \in Nat, NEW h, HistoryFits(E, m, h)
    PROVE  HistoryFits(F, m, h) /\ HistoryFits(F, m + 1, h)
<1>1. ClosedOnViews(F, h)
  BY ClosedLater DEF HistoryFits
<1>2. \A d \in h.approvals : SawApproval(F, d)
  BY DEF HistoryFits, SawApproval
<1> QED BY <1>1, <1>2 DEF HistoryFits

LEMMA ViewsLater ==
    ASSUME NEW E, NEW F, E \subseteq F, NEW s, FromViews(s, E)
    PROVE  FromViews(s, F)
BY DEF FromViews, SawTerminal, SawStatus, SawApproval

LEMMA AppendedOne ==
    ASSUME NEW H, NEW f \in Seq(H), NEW x
    PROVE  /\ Append(f, x) \in Seq(H \cup {x}) /\ Len(Append(f, x)) = Len(f) + 1
           /\ Append(f, x)[Len(f) + 1] = x
           /\ \A i \in 1..Len(f) : Append(f, x)[i] = f[i]
<1>1. f \in Seq(H \cup {x})
  OBVIOUS
<1> QED BY <1>1, AppendProperties

LEMMA ReplayedStep ==
    ASSUME NEW m \in Nat, NEW E, NEW F, E \subseteq F, NEW s, Replayed(s, E, m),
           NEW e \in F, Proper(e)
    PROVE  Replayed(Apply(s, e), F, m + 1)
<1> DEFINE r == Apply(s, e)
<1>0. /\ IsState(s) /\ FromViews(s, F)
      /\ \A i \in 1..Len(s.history) : HistoryFits(F, m + 1, s.history[i])
  BY ViewsLater, HistoryLater DEF Replayed
<1>1. CASE s.failed # 0
  <2>1. r = s
    BY <1>1 DEF Apply
  <2> QED BY <1>0, <1>1, <2>1 DEF Replayed, IsState
<1>2. CASE s.failed = 0 /\ Raises(s, e)
  <2>1. /\ DOMAIN r = Fields /\ r.failed = s.seq + 1 /\ r.seq = s.seq
        /\ r.history = s.history /\ r.decisions = s.decisions /\ r.tasks = s.tasks
        /\ r.approved = s.approved
    BY <1>0, <1>2, Refused DEF Fields
  <2> HIDE DEF r
  <2>2. s.seq = m /\ s.seq \in Nat
    BY <1>2 DEF Replayed, IsState
  <2>3. FromViews(r, F)
    BY <1>0, <2>1 DEF FromViews
  <2>4. IsState(r)
    BY <1>0, <2>1, <2>2 DEF IsState
  <2> QED BY <1>0, <2>1, <2>2, <2>3, <2>4 DEF Replayed, r
<1>3. CASE s.failed = 0 /\ ~Raises(s, e)
  <2> DEFINE u == Effect(s, e)
  <2>0. s.seq = m /\ s.seq \in Nat
    BY <1>3 DEF Replayed, IsState
  <2>1. FromViews(u, F) /\ DOMAIN u = Fields
    BY <1>0, <1>3, EffectFromViews
  <2>2. /\ DOMAIN r = Fields /\ r.seq = s.seq + 1 /\ r.failed = u.failed
        /\ r.history = u.history /\ r.decisions = u.decisions /\ r.tasks = u.tasks
        /\ r.approved = u.approved
    BY <1>0, <1>3, <2>1, Accepted DEF Fields
  <2> HIDE DEF r, u
  <2>3. FromViews(r, F)
    BY <2>1, <2>2 DEF FromViews
  <2>4. /\ u.failed = 0 /\ \E H : u.history \in Seq(H)
        /\ \A i \in 1..Len(u.history) : HistoryFits(F, m + 1, u.history[i])
    <3>1. CASE e.type = "phase"
      <4> DEFINE h == [seq |-> s.seq + 1, from |-> s.phase, to |-> e.to,
                       approvals |-> e.approvals \cap s.approved,
                       tasks |-> DOMAIN s.tasks, decisions |-> s.decisions]
      <4>1. u.history = Append(s.history, h) /\ u.failed = s.failed
        BY <1>0, <3>1, PhaseEffect DEF u
      <4>2. ClosedOnViews(F, h)
        BY <1>0, <1>3, <3>1, ClosingOnViews
      <4>3. HistoryFits(F, m + 1, h)
        BY <1>0, <2>0, <4>2 DEF HistoryFits, FromViews
      <4> HIDE DEF h
      <4>4. PICK H : s.history \in Seq(H)
        BY <1>0 DEF IsState
      <4>5. /\ u.history \in Seq(H \cup {h}) /\ Len(u.history) = Len(s.history) + 1
            /\ u.history[Len(s.history) + 1] = h
            /\ \A i \in 1..Len(s.history) : u.history[i] = s.history[i]
        BY <4>1, <4>4, AppendedOne
      <4>6. Len(s.history) \in Nat
        BY <4>4
      <4> QED BY <1>0, <1>3, <4>1, <4>3, <4>5, <4>6
    <3>2. CASE e.type = "evaluated"
      <4>1. u.history = s.history /\ u.failed = s.failed
        BY <1>0, <3>2, EvaluatedEffect DEF u
      <4> QED BY <1>0, <1>3, <4>1 DEF IsState
    <3>3. CASE e.type \notin {"phase", "evaluated"}
      <4>1. u.history = s.history /\ u.failed = s.failed
        BY <1>0, <3>3, EffectPlain DEF u, Proper, PlainEffect
      <4> QED BY <1>0, <1>3, <4>1 DEF IsState
    <3> QED BY <3>1, <3>2, <3>3
  <2>5. IsState(r)
    BY <2>0, <2>2, <2>4 DEF IsState
  <2> QED BY <2>0, <2>2, <2>3, <2>4, <2>5 DEF Replayed, r
<1> QED BY <1>1, <1>2, <1>3 DEF Replayed, IsState

(* The ledger that was there at first replays to a state like this.        *)
LEMMA NewProjectReplayed == Replayed(NewProject, {}, 0)
<1>1. IsState(NewProject)
  <2>1. <<>> \in Seq({})
    OBVIOUS
  <2> QED BY <2>1 DEF IsState, Fields, NewProject
<1>2. FromViews(NewProject, {})
  BY DEF FromViews, NewProject
<1>3. NewProject.history = <<>> /\ NewProject.failed = 0 /\ NewProject.seq = 0
  BY DEF NewProject
<1> QED BY <1>1, <1>2, <1>3 DEF Replayed

LEMMA Prefix ==
    ASSUME NEW E, NEW f \in Seq(E), NEW n \in 0..Len(f)
    PROVE  /\ SubSeq(f, 1, n) \in Seq(E) /\ Len(SubSeq(f, 1, n)) = n
           /\ n < Len(f) => SubSeq(f, 1, n + 1) = Append(SubSeq(f, 1, n), f[n + 1])
           /\ n = Len(f) => SubSeq(f, 1, n) = f
           /\ SubSeq(f, 1, 0) = <<>>
<1>0. n \in Nat /\ Len(f) \in Nat /\ \A i \in 1..Len(f) : f[i] \in E
  OBVIOUS
<1>1. SubSeq(f, 1, n) \in Seq(E) /\ Len(SubSeq(f, 1, n)) = n
      /\ \A i \in 1..n : SubSeq(f, 1, n)[i] = f[i]
  BY <1>0
<1>2. ASSUME n < Len(f) PROVE SubSeq(f, 1, n + 1) = Append(SubSeq(f, 1, n), f[n + 1])
  <2>1. n + 1 \in 0..Len(f) /\ f[n + 1] \in E
    BY <1>0, <1>2
  <2>2. SubSeq(f, 1, n + 1) \in Seq(E) /\ Len(SubSeq(f, 1, n + 1)) = n + 1
        /\ \A i \in 1..n + 1 : SubSeq(f, 1, n + 1)[i] = f[i]
    BY <1>0, <2>1
  <2>3. LET a == Append(SubSeq(f, 1, n), f[n + 1]) IN
        a \in Seq(E) /\ Len(a) = n + 1 /\ a[n + 1] = f[n + 1] /\ \A i \in 1..n : a[i] = f[i]
    BY <1>1, <2>1, AppendProperties
  <2> QED BY <1>0, <2>2, <2>3, SeqEqual
<1>3. n = Len(f) => SubSeq(f, 1, n) = f
  BY <1>1, SeqEqual
<1>4. SubSeq(f, 1, 0) = <<>>
  OBVIOUS
<1> QED BY <1>1, <1>2, <1>3, <1>4

LEMMA BaseReplayed ==
    Replayed(BaseState, Range(Base), Len(Base)) /\ Len(Base) \in Nat
<1> DEFINE at(n) == Replay(NewProject, SubSeq(Base, 1, n))
           S == {n \in 0..Len(Base) : Replayed(at(n), Range(Base), n)}
<1>0. Base \in Seq(Range(Base)) /\ Len(Base) \in Nat
  BY GovernedLedger
<1>1. 0 \in S
  <2>1. at(0) = NewProject
    <3>1. SubSeq(Base, 1, 0) = <<>>
      BY <1>0
    <3> QED BY <3>1, ReplayNothing, Zenon
  <2>2. Replayed(NewProject, {}, 0)
    BY NewProjectReplayed
  <2>3. Replayed(NewProject, Range(Base), 0)
    <3>1. ASSUME NEW h, HistoryFits({}, 0, h) PROVE HistoryFits(Range(Base), 0, h)
      BY <3>1, HistoryLater
    <3>2. FromViews(NewProject, Range(Base))
      BY <2>2, ViewsLater DEF Replayed
    <3> QED BY <2>2, <3>1, <3>2 DEF Replayed
  <2> QED BY <1>0, <2>1, <2>3
<1>2. ASSUME NEW n \in 0..Len(Base), n \in S, n < Len(Base) PROVE n + 1 \in S
  <2>1. n \in Nat /\ n + 1 \in 0..Len(Base) /\ n + 1 \in 1..Len(Base)
    BY <1>0, <1>2
  <2>2. Base[n + 1] \in Range(Base) /\ Proper(Base[n + 1])
    <3>1. Base[n + 1] \in Range(Base)
      BY <1>0, <2>1
    <3> QED BY <3>1, GovernedLedger DEF Proper
  <2>3. at(n + 1) = Apply(at(n), Base[n + 1])
    <3>1. SubSeq(Base, 1, n) \in Seq(Range(Base))
          /\ SubSeq(Base, 1, n + 1) = Append(SubSeq(Base, 1, n), Base[n + 1])
      BY <1>0, <1>2, Prefix
    <3>2. Replay(NewProject, Append(SubSeq(Base, 1, n), Base[n + 1]))
          = Apply(Replay(NewProject, SubSeq(Base, 1, n)), Base[n + 1])
      BY <2>2, <3>1, ReplayAppend
    <3> QED BY <3>1, <3>2, Zenon
  <2>4. Replayed(at(n), Range(Base), n)
    BY <1>2
  <2> HIDE DEF at
  <2>5. Replayed(at(n + 1), Range(Base), n + 1)
    BY <2>1, <2>2, <2>3, <2>4, ReplayedStep
  <2> QED BY <2>1, <2>5
<1> HIDE DEF S
<1>3. \A m \in 0..Len(Base) : m \in S
  BY <1>0, <1>1, <1>2, Climb
<1>4. Len(Base) \in S
  BY <1>0, <1>3
<1>5. at(Len(Base)) = BaseState
  <2>1. SubSeq(Base, 1, Len(Base)) = Base
    BY <1>0, Prefix
  <2> QED BY <2>1, Zenon DEF BaseState
<1> QED BY <1>0, <1>4, <1>5 DEF S

(* The past of a ledger stays what it was when an event is appended.       *)
LEMMA LogStep ==
    ASSUME NEW S, log \in Seq(S), NEW e, log' = Append(log, e)
    PROVE  /\ Len(log) \in Nat /\ Len(log') = Len(log) + 1
           /\ log' \in Seq(S \cup {e}) /\ log'[Len(log) + 1] = e
           /\ \A i \in 1..Len(log) : log'[i] = log[i]
           /\ \A n \in 0..Len(log) : StateAt(n)' = StateAt(n)
           /\ \A n \in Nat : n = Len(log) + 1 => StateAt(n)' = Apply(Now, e)
           /\ Now' = Apply(Now, e)
<1> DEFINE T == S \cup {e}
<1>1. Len(log) \in Nat /\ Len(log') = Len(log) + 1 /\ log' \in Seq(T)
      /\ log'[Len(log) + 1] = e /\ \A i \in 1..Len(log) : log'[i] = log[i]
  BY AppendedOne
<1>2. log \in Seq(T)
  OBVIOUS
<1>3. ASSUME NEW n \in 0..Len(log) PROVE SubSeq(log', 1, n) = SubSeq(log, 1, n)
  <2>1. n \in 0..Len(log')
    BY <1>1
  <2>2. /\ SubSeq(log, 1, n) \in Seq(T) /\ Len(SubSeq(log, 1, n)) = n
        /\ SubSeq(log', 1, n) \in Seq(T) /\ Len(SubSeq(log', 1, n)) = n
    BY <1>1, <1>2, <2>1, Prefix
  <2>3. \A i \in 1..n : SubSeq(log', 1, n)[i] = log'[i] /\ SubSeq(log, 1, n)[i] = log[i]
    BY <1>1, <1>2
  <2> QED BY <1>1, <2>2, <2>3, SeqEqual
<1>4. SubSeq(log', 1, Len(log) + 1) = log' /\ SubSeq(log, 1, Len(log)) = log
  BY <1>1, <1>2, Prefix
<1>5. Replay(BaseState, log') = Apply(Replay(BaseState, log), e)
  BY <1>2, ReplayAppend
<1>6. \A n \in 0..Len(log) : StateAt(n)' = StateAt(n)
  BY <1>3 DEF StateAt, BaseState
<1>7. ASSUME NEW n \in Nat, n = Len(log) + 1 PROVE StateAt(n)' = Apply(Now, e)
  <2>1. StateAt(n)' = Replay(BaseState, SubSeq(log', 1, Len(log) + 1))
    BY <1>7 DEF StateAt, BaseState
  <2> QED BY <1>4, <1>5, <2>1, Zenon DEF StateAt, Now
<1>8. Now' = Apply(Now, e)
  <2>1. Now' = Replay(BaseState, SubSeq(log', 1, Len(log')))
    BY Zenon DEF Now, StateAt, BaseState
  <2> QED BY <1>1, <1>4, <1>5, <2>1, Zenon DEF StateAt, Now
<1> QED BY <1>1, <1>6, <1>7, <1>8

LEMMA EventsStep ==
    ASSUME NEW S, log \in Seq(S), NEW e, log' = Append(log, e)
    PROVE  /\ \A n \in 0..Len(log) : EventsTo(n)' = EventsTo(n)
           /\ \A n \in Nat : n = Len(log) + 1 => EventsTo(n)' = EventsTo(Len(log)) \cup {e}
           /\ Range(log') = Range(log) \cup {e}
<1>1. Len(log) \in Nat /\ Len(log') = Len(log) + 1 /\ log' \in Seq(S \cup {e})
      /\ log'[Len(log) + 1] = e /\ \A i \in 1..Len(log) : log'[i] = log[i]
  BY LogStep
<1>2. \A n \in 0..Len(log) : EventsTo(n)' = EventsTo(n)
  BY <1>1 DEF EventsTo
<1>3. ASSUME NEW n \in Nat, n = Len(log) + 1
      PROVE  EventsTo(n)' = EventsTo(Len(log)) \cup {e}
  <2>1. EventsTo(n)' = Range(Base) \cup {log'[i] : i \in 1..n}
    BY DEF EventsTo
  <2>2. {log'[i] : i \in 1..n} = {log[i] : i \in 1..Len(log)} \cup {e}
    BY <1>1, <1>3
  <2> QED BY <2>1, <2>2 DEF EventsTo
<1>4. DOMAIN log = 1..Len(log) /\ DOMAIN log' = 1..Len(log) + 1
  BY <1>1
<1>5. Range(log') = Range(log) \cup {e}
  BY <1>1, <1>4 DEF Range
<1> QED BY <1>2, <1>3, <1>5

(* Only what TakesFrom names takes away what the override o needs.         *)
LEMMA KeepsStep ==
    ASSUME NEW o, NEW b, NEW s, Keeps(b, s, o), IsState(s), NEW E, FromViews(s, E),
           NEW e \in E, Proper(e), ~TakesFrom(e, o, b)
    PROVE  Keeps(b, Apply(s, e), o)
<1> DEFINE r == Apply(s, e)
<1>1. CASE s.failed # 0
  BY <1>1 DEF Apply
<1>2. CASE s.failed = 0 /\ Raises(s, e)
  BY <1>2, Refused DEF Fields, Keeps, AccountableSet
<1>3. CASE s.failed = 0 /\ ~Raises(s, e)
  <2> DEFINE u == Effect(s, e)
  <2>1. Keeps(b, u, o)
    <3>1. CASE e.type = "phase"
      BY <3>1, PhaseEffect DEF Keeps, AccountableSet
    <3>2. CASE e.type = "evaluated"
      BY <3>2, EvaluatedEffect DEF Keeps, AccountableSet
    <3>3. CASE e.type \notin {"phase", "evaluated"}
      <4>1. /\ s.evidence \subseteq u.evidence
            /\ e.type = "raci.assigned" => u.raci = s.raci \cup {<<e.role, e.actor>>}
            /\ e.type = "raci.revoked" => u.raci = s.raci \ {<<e.role, e.actor>>}
            /\ e.type \notin {"raci.assigned", "raci.revoked"} => u.raci = s.raci
            /\ u.approved = IF e.type = "decision.disassociated" THEN s.approved \ {e.id}
                            ELSE s.approved
        BY <3>3, EffectPlain DEF Proper, PlainEffect
      <4> HIDE DEF u
      <4>2. o.by \in b.approved => o.by \in u.approved
        BY <4>1 DEF Keeps, TakesFrom
      <4>3. CASE e.type = "raci.assigned"
        <5>1. u.raci = s.raci \cup {<<e.role, e.actor>>}
          BY <4>1, <4>3
        <5>2. e.role = "Accountable" => e.actor \in AccountableSet(s)
          BY <4>3 DEF TakesFrom, Keeps
        <5>3. AccountableSet(u) = AccountableSet(s)
          BY <5>1, <5>2 DEF AccountableSet
        <5> QED BY <4>1, <4>2, <5>1, <5>3 DEF Keeps
      <4>4. CASE e.type = "raci.revoked"
        <5>1. u.raci = s.raci \ {<<e.role, e.actor>>}
          BY <4>1, <4>4
        <5>2. /\ e.role = "Accountable" => e.actor \notin AccountableSet(s)
              /\ ~(e.role \in OverrideRoles /\ e.actor = o.actor)
          BY <4>4 DEF TakesFrom, Keeps
        <5>3. AccountableSet(u) = AccountableSet(s)
          BY <5>1, <5>2 DEF AccountableSet
        <5>4. \A role \in OverrideRoles : <<role, o.actor>> # <<e.role, e.actor>>
          BY <5>2
        <5> QED BY <4>1, <4>2, <5>1, <5>3, <5>4 DEF Keeps
      <4>5. CASE e.type \notin {"raci.assigned", "raci.revoked"}
        <5>1. u.raci = s.raci
          BY <4>1, <4>5
        <5> QED BY <4>1, <4>2, <5>1 DEF Keeps, AccountableSet
      <4> QED BY <4>3, <4>4, <4>5
    <3> QED BY <3>1, <3>2, <3>3
  <2>2. DOMAIN u = Fields
    BY <1>3, EffectFromViews
  <2>3. r.evidence = u.evidence /\ r.raci = u.raci /\ r.approved = u.approved
    BY <1>3, <2>2, Accepted DEF Fields
  <2> QED BY <2>1, <2>3 DEF Keeps, AccountableSet
<1> QED BY <1>1, <1>2, <1>3 DEF IsState

LEMMA LogReplaysStep ==
    ASSUME NEW S, log \in Seq(S), NEW e, log' = Append(log, e), Proper(e), LogReplays
    PROVE  LogReplays'
<1>1. /\ Len(log) \in Nat /\ Len(log') = Len(log) + 1
      /\ \A n \in 0..Len(log) : StateAt(n)' = StateAt(n)
      /\ \A n \in Nat : n = Len(log) + 1 => StateAt(n)' = Apply(Now, e)
      /\ \A n \in 0..Len(log) : EventsTo(n)' = EventsTo(n)
      /\ \A n \in Nat : n = Len(log) + 1 => EventsTo(n)' = EventsTo(Len(log)) \cup {e}
  BY LogStep, EventsStep
<1>2. Len(Base) \in Nat
  BY BaseReplayed
<1>3. Replayed(Now, EventsTo(Len(log)), Len(Base) + Len(log))
  BY <1>1 DEF LogReplays, Now
<1>4. Replayed(Apply(Now, e), EventsTo(Len(log)) \cup {e}, Len(Base) + Len(log) + 1)
  BY <1>1, <1>2, <1>3, ReplayedStep
<1>5. SUFFICES ASSUME NEW n \in 0..Len(log) + 1
               PROVE  Replayed(StateAt(n)', EventsTo(n)', Len(Base) + n)
  BY <1>1 DEF LogReplays
<1>6. CASE n \in 0..Len(log)
  BY <1>1, <1>6 DEF LogReplays
<1>7. CASE n = Len(log) + 1
  <2>1. StateAt(n)' = Apply(Now, e) /\ EventsTo(n)' = EventsTo(Len(log)) \cup {e}
    BY <1>1, <1>7
  <2>2. Len(Base) + n = Len(Base) + Len(log) + 1
    BY <1>1, <1>2, <1>7
  <2> QED BY <1>4, <2>1, <2>2, Zenon
<1> QED BY <1>1, <1>6, <1>7

LEMMA LogKeepsStep ==
    ASSUME NEW S, log \in Seq(S), NEW e, log' = Append(log, e), Proper(e), LogReplays, LogKeeps
    PROVE  LogKeeps'
<1>1. /\ Len(log) \in Nat /\ Len(log') = Len(log) + 1 /\ log'[Len(log) + 1] = e
      /\ \A i \in 1..Len(log) : log'[i] = log[i]
      /\ \A n \in 0..Len(log) : StateAt(n)' = StateAt(n)
      /\ \A n \in Nat : n = Len(log) + 1 => StateAt(n)' = Apply(Now, e)
  BY LogStep
<1>2. SUFFICES ASSUME NEW o, NEW n \in 0..Len(log) + 1, NEW b \in 0..n
               PROVE  \/ \E j \in b + 1..n : TakesFrom(log'[j], o, StateAt(b)')
                      \/ StateAt(n)'.failed # 0
                      \/ Keeps(StateAt(b)', StateAt(n)', o)
  BY <1>1, Zenon DEF LogKeeps, TakesFrom, Keeps, AccountableSet
<1>3. CASE n \in 0..Len(log)
  <2>1. b \in 0..Len(log) /\ \A j \in b + 1..n : j \in 1..Len(log)
    BY <1>1, <1>3
  <2>2. \/ \E j \in b + 1..n : TakesFrom(log[j], o, StateAt(b))
        \/ StateAt(n).failed # 0
        \/ Keeps(StateAt(b), StateAt(n), o)
    BY <1>3 DEF LogKeeps
  <2> QED BY <1>1, <1>3, <2>1, <2>2
<1>4. CASE n = Len(log) + 1 /\ b = n
  BY <1>4 DEF Keeps
<1>5. CASE n = Len(log) + 1 /\ b \in 0..Len(log)
  <2> DEFINE s == StateAt(b)
  <2>0. /\ Len(log) \in 0..Len(log) /\ n \in b + 1..n
        /\ \A j \in b + 1..Len(log) : j \in b + 1..n /\ j \in 1..Len(log)
        /\ StateAt(b)' = s /\ StateAt(n)' = Apply(Now, e) /\ log'[n] = e
    BY <1>1, <1>5
  <2>1. \/ \E j \in b + 1..Len(log) : TakesFrom(log[j], o, s)
        \/ Now.failed # 0
        \/ Keeps(s, Now, o)
    BY <1>5, <2>0 DEF LogKeeps, Now
  <2>2. CASE \E j \in b + 1..Len(log) : TakesFrom(log[j], o, s)
    <3>1. PICK j \in b + 1..Len(log) : TakesFrom(log[j], o, s)
      BY <2>2
    <3>2. j \in b + 1..n /\ log'[j] = log[j]
      BY <1>1, <2>0
    <3> HIDE DEF s
    <3> QED BY <2>0, <3>1, <3>2
  <2>3. CASE Now.failed # 0
    <3>1. Apply(Now, e) = Now
      BY <2>3 DEF Apply
    <3> QED BY <2>0, <2>3, <3>1
  <2>4. CASE TakesFrom(e, o, s)
    BY <2>0, <2>4
  <2>5. CASE ~TakesFrom(e, o, s) /\ Keeps(s, Now, o)
    <3>1. Replayed(Now, EventsTo(Len(log)), Len(Base) + Len(log))
      BY <2>0 DEF LogReplays, Now
    <3>2. IsState(Now) /\ FromViews(Now, EventsTo(Len(log)) \cup {e})
      BY <3>1, ViewsLater DEF Replayed
    <3> HIDE DEF s
    <3>3. Keeps(s, Apply(Now, e), o)
      BY <2>5, <3>2, KeepsStep
    <3> QED BY <2>0, <3>3
  <2> QED BY <2>1, <2>2, <2>3, <2>4, <2>5
<1> QED BY <1>1, <1>3, <1>4, <1>5

-----------------------------------------------------------------------------
(* What a step never takes back: approvals shown, expiries.                *)
StoresMove ==
    /\ shown \subseteq shown'
    /\ \A d \in Decisions : decision[d] = "expired" => decision'[d] = "expired"

LEMMA TxCases ==
    ASSUME TypeOK, tx # None
    PROVE  /\ DOMAIN tx = {"of", "old", "at"}
           /\ \/ tx.of \in Tasks /\ tx.of \notin Decisions /\ tx.old \in View
              \/ tx.of \in Decisions /\ tx.of \notin Tasks /\ tx.old = "pending"
BY GovernedStores DEF TypeOK, Transaction

LEMMA WriteTaskStep ==
    ASSUME TypeOK, StoreInv, NEW t \in Tasks, NEW to \in Ends, WriteTask(t, to)
    PROVE  TypeOK' /\ StoreInv' /\ StoresMove
<1> DEFINE new == [state |-> to, revision |-> task[t].revision + 1,
                   receipts |-> task[t].receipts \cup
                                (IF to = "completed" THEN {task[t].revision + 1} ELSE {})]
<1>1. new \in View /\ new.state \in Terminal /\ task[t] \in View
  BY GovernedStores DEF TypeOK, View
<1>2. /\ tx = None /\ tx' = [of |-> t, old |-> task[t], at |-> "written"]
      /\ task' = [task EXCEPT ![t] = new]
      /\ UNCHANGED <<journal, receipts, decision, answered, call, shown>>
  BY DEF WriteTask, ghosts
<1> HIDE DEF new
<1>3. tx' \in Transaction /\ tx' # None /\ t \notin Decisions
  BY <1>1, <1>2, GovernedStores DEF Transaction, TxSteps
<1>4. TypeOK'
  BY <1>1, <1>2, <1>3 DEF TypeOK
<1>5. ASSUME NEW x \in Tasks
      PROVE  /\ (Settled(x).state \in Terminal => task[x].state \in Terminal)'
             /\ (\A v \in journal[x] :
                    v.state \in Terminal => v = task[x] \/ Settled(x).state \in Terminal)'
  <2>1. Settled(x) = task[x]
    BY <1>2 DEF Settled
  <2>2. \A v \in journal[x] : v.state \in Terminal => task[x].state \in Terminal
    BY <2>1 DEF StoreInv
  <2>3. Settled(x)' = task[x]
    BY <1>2, <1>3, <2>1 DEF TypeOK, Settled
  <2>4. task'[x] = IF x = t THEN new ELSE task[x]
    BY <1>2 DEF TypeOK
  <2>5. journal' = journal
    BY <1>2
  <2> QED BY <1>1, <2>2, <2>3, <2>4, <2>5
<1>6. StoreInv'
  BY <1>2, <1>3, <1>5 DEF StoreInv
<1> QED BY <1>2, <1>4, <1>6 DEF StoresMove

LEMMA WriteDecisionStep ==
    ASSUME TypeOK, StoreInv, NEW d \in Decisions, NEW status \in {"approved", "rejected"},
           WriteDecision(d, status)
    PROVE  TypeOK' /\ StoreInv' /\ StoresMove
<1>1. /\ tx = None /\ tx' = [of |-> d, old |-> "pending", at |-> "written"]
      /\ decision[d] = "pending" /\ decision' = [decision EXCEPT ![d] = status]
      /\ UNCHANGED <<task, journal, receipts, answered, call, shown>>
  BY DEF WriteDecision, ghosts
<1>2. tx' \in Transaction /\ tx' # None /\ d \notin Tasks
  BY <1>1, GovernedStores DEF Transaction, TxSteps
<1>3. decision' \in [Decisions -> Statuses] /\ decision'[d] = status
      /\ \A x \in Decisions : x # d => decision'[x] = decision[x]
  BY <1>1 DEF TypeOK, Statuses, Resolved
<1>4. TypeOK'
  BY <1>1, <1>2, <1>3 DEF TypeOK
<1>5. \A x \in Tasks : Settled(x)' = Settled(x)
  BY <1>1, <1>2 DEF Settled
<1>6. \A a \in answered : decision'[a[1]] = a[2] /\ (a[2] = "approved" => a[1] \in shown)
  BY <1>1, <1>3 DEF StoreInv, TypeOK
<1>7. StoreInv'
  BY <1>1, <1>2, <1>3, <1>5, <1>6 DEF StoreInv
<1> QED BY <1>1, <1>3, <1>4, <1>7 DEF StoresMove

LEMMA ExpireStep ==
    ASSUME TypeOK, StoreInv, NEW d \in Decisions, Expire(d)
    PROVE  TypeOK' /\ StoreInv' /\ StoresMove
<1>1. /\ tx = None /\ decision[d] = "pending"
      /\ decision' = [decision EXCEPT ![d] = "expired"]
      /\ UNCHANGED <<task, journal, receipts, answered, tx, call, shown>>
  BY DEF Expire, ghosts
<1>2. decision' \in [Decisions -> Statuses] /\ decision'[d] = "expired"
      /\ \A x \in Decisions : x # d => decision'[x] = decision[x]
  BY <1>1 DEF TypeOK, Statuses, Resolved
<1>3. TypeOK'
  BY <1>1, <1>2 DEF TypeOK
<1>4. \A x \in Tasks : Settled(x)' = Settled(x)
  BY <1>1 DEF Settled
<1>5. \A a \in answered : decision'[a[1]] = a[2] /\ (a[2] = "approved" => a[1] \in shown)
  BY <1>1, <1>2 DEF StoreInv, TypeOK
<1>6. StoreInv'
  BY <1>1, <1>4, <1>5 DEF StoreInv
<1> QED BY <1>1, <1>2, <1>3, <1>6 DEF StoresMove

LEMMA WriteRestStep ==
    ASSUME TypeOK, StoreInv, WriteRest
    PROVE  TypeOK' /\ StoreInv' /\ StoresMove
<1>1. /\ tx # None /\ tx' = [tx EXCEPT !.at = "complete"]
      /\ UNCHANGED <<task, decision, call>>
  BY DEF WriteRest
<1>2. tx' \in Transaction /\ tx'.of = tx.of /\ tx'.old = tx.old /\ tx' # None
  BY <1>1, GovernedStores DEF TypeOK, Transaction, TxSteps
<1>3. \A x \in Tasks : Settled(x)' = Settled(x)
  BY <1>1, <1>2 DEF Settled
<1>4. CASE tx.of \in Tasks
  <2>1. /\ journal' = [journal EXCEPT ![tx.of] = @ \cup {task[tx.of]}]
        /\ receipts' = receipts \cup
               {<<tx.of, r>> : r \in task[tx.of].receipts \ tx.old.receipts}
        /\ UNCHANGED <<answered, shown>>
    BY <1>4 DEF WriteRest
  <2>2. TypeOK'
    <3>1. task[tx.of].receipts \subseteq Nat
      BY <1>4 DEF TypeOK, View
    <3>2. receipts' \subseteq Tasks \X Nat
      BY <1>4, <2>1, <3>1 DEF TypeOK
    <3> QED BY <1>1, <1>2, <1>4, <2>1, <3>2 DEF TypeOK
  <2>3. ASSUME NEW x \in Tasks, NEW v \in journal'[x], v.state \in Terminal
        PROVE  v = task[x] \/ Settled(x).state \in Terminal
    BY <2>1, <2>3 DEF TypeOK, StoreInv
  <2>4. StoreInv'
    BY <1>1, <1>2, <1>3, <2>1, <2>3 DEF StoreInv
  <2> QED BY <1>1, <2>1, <2>2, <2>4 DEF StoresMove
<1>5. CASE tx.of \notin Tasks
  <2>1. /\ answered' = answered \cup {<<tx.of, decision[tx.of]>>}
        /\ shown' = IF decision[tx.of] = "approved" THEN shown \cup {tx.of} ELSE shown
        /\ journal' = journal /\ receipts' = receipts
    BY <1>5 DEF WriteRest
  <2>2. tx.of \in Decisions /\ decision[tx.of] \in {"approved", "rejected"}
    BY <1>1, <1>5, TxCases DEF StoreInv
  <2>3. TypeOK'
    BY <1>1, <1>2, <2>1, <2>2 DEF TypeOK
  <2>4. \A a \in answered' : decision[a[1]] = a[2] /\ (a[2] = "approved" => a[1] \in shown')
    BY <2>1 DEF StoreInv
  <2>5. StoreInv'
    BY <1>1, <1>2, <1>3, <2>1, <2>2, <2>4 DEF StoreInv
  <2> QED BY <1>1, <2>1, <2>3, <2>5 DEF StoresMove
<1> QED BY <1>4, <1>5

LEMMA CommitStep ==
    ASSUME TypeOK, StoreInv, Commit
    PROVE  TypeOK' /\ StoreInv' /\ StoresMove
<1>1. tx # None /\ tx' = None /\ UNCHANGED <<task, journal, receipts, decision, answered, call, shown>>
  BY DEF Commit, ghosts
<1>2. TypeOK'
  BY <1>1 DEF TypeOK
<1>3. \A x \in Tasks : Settled(x)' = task[x]
  BY <1>1 DEF Settled
<1>4. StoreInv'
  BY <1>1, <1>3 DEF StoreInv
<1> QED BY <1>1, <1>2, <1>4 DEF StoresMove

LEMMA UndoStep ==
    ASSUME TypeOK, StoreInv, Undo
    PROVE  TypeOK' /\ StoreInv' /\ StoresMove
<1>1. tx # None /\ tx' = None /\ UNCHANGED <<call, shown>>
  BY DEF Undo, ghosts
<1>2. CASE tx.of \in Tasks
  <2>1. /\ task' = [task EXCEPT ![tx.of] = tx.old]
        /\ journal' = [journal EXCEPT ![tx.of] = @ \ {task[tx.of]}]
        /\ receipts' \subseteq receipts
        /\ UNCHANGED <<decision, answered>>
    BY <1>2 DEF Undo
  <2>2. tx.old \in View
    BY <1>1, <1>2, TxCases, GovernedStores
  <2>3. TypeOK'
    BY <1>1, <1>2, <2>1, <2>2 DEF TypeOK
  <2>4. ASSUME NEW x \in Tasks
        PROVE  /\ task'[x] = Settled(x) /\ Settled(x)' = task'[x]
               /\ \A v \in journal'[x] : v.state \in Terminal => task'[x].state \in Terminal
    <3>1. task'[x] = Settled(x)
      BY <1>1, <1>2, <2>1 DEF TypeOK, Settled
    <3>2. Settled(x)' = task'[x]
      BY <1>1 DEF Settled
    <3>3. ASSUME NEW v \in journal'[x], v.state \in Terminal
          PROVE  Settled(x).state \in Terminal
      <4>1. CASE x = tx.of
        BY <2>1, <3>3, <4>1 DEF TypeOK, StoreInv
      <4>2. CASE x # tx.of
        <5>1. v \in journal[x] /\ Settled(x) = task[x]
          BY <2>1, <3>3, <4>2 DEF TypeOK, Settled
        <5> QED BY <3>3, <5>1 DEF StoreInv
      <4> QED BY <4>1, <4>2
    <3> QED BY <3>1, <3>2, <3>3
  <2>5. StoreInv'
    BY <1>1, <2>1, <2>4 DEF StoreInv
  <2> QED BY <1>1, <2>1, <2>3, <2>5 DEF StoresMove
<1>3. CASE tx.of \notin Tasks
  <2>1. /\ decision' = [decision EXCEPT ![tx.of] = tx.old]
        /\ answered' = answered \ {<<tx.of, decision[tx.of]>>}
        /\ UNCHANGED <<task, journal, receipts>>
    BY <1>3 DEF Undo
  <2>2. tx.of \in Decisions /\ tx.old = "pending" /\ decision[tx.of] \in {"approved", "rejected"}
    BY <1>1, <1>3, TxCases DEF StoreInv
  <2>3. decision' \in [Decisions -> Statuses]
        /\ \A d \in Decisions : d # tx.of => decision'[d] = decision[d]
    BY <2>1, <2>2 DEF TypeOK, Statuses
  <2>4. TypeOK'
    BY <1>1, <2>1, <2>3 DEF TypeOK
  <2>5. \A a \in answered' : decision'[a[1]] = a[2] /\ (a[2] = "approved" => a[1] \in shown)
    <3>1. ASSUME NEW a \in answered' PROVE a \in answered /\ a[1] \in Decisions /\ a[1] # tx.of
      <4>1. a \in answered /\ a \in Decisions \X {"approved", "rejected"}
            /\ a # <<tx.of, decision[tx.of]>>
        BY <2>1 DEF TypeOK
      <4>2. decision[a[1]] = a[2] /\ a = <<a[1], a[2]>>
        BY <4>1 DEF StoreInv
      <4> QED BY <4>1, <4>2
    <3> QED BY <2>3, <3>1 DEF StoreInv
  <2>6. \A x \in Tasks : Settled(x)' = Settled(x) /\ Settled(x) = task[x]
    BY <1>1, <1>3, <2>1 DEF Settled
  <2>7. StoreInv'
    BY <1>1, <2>1, <2>5, <2>6 DEF StoreInv
  <2>8. \A d \in Decisions : decision[d] = "expired" => decision'[d] = "expired"
    BY <2>2, <2>3
  <2> QED BY <1>1, <2>4, <2>7, <2>8 DEF StoresMove
<1> QED BY <1>2, <1>3

-----------------------------------------------------------------------------
(* The ledger and the callers.                                             *)
StaticLog == UNCHANGED <<log, approvedAt>>
PastStays == /\ Len(log) \in Nat /\ Len(log') \in Nat /\ Len(log) <= Len(log')
             /\ \A n \in 0..Len(log) : StateAt(n)' = StateAt(n)

LEMMA LogSame ==
    ASSUME LogType, StaticLog
    PROVE  /\ PastStays /\ LogType'
           /\ LogReplays => LogReplays'
           /\ LogKeeps => LogKeeps'
<1>1. log' = log /\ approvedAt' = approvedAt /\ Len(log) \in Nat
  BY DEF StaticLog, LogType, IsSeq
<1>2. \A n \in 0..Len(log) : StateAt(n)' = StateAt(n) /\ EventsTo(n)' = EventsTo(n)
  BY <1>1 DEF StateAt, BaseState, EventsTo
<1>3. LogType'
  BY <1>1 DEF LogType
<1> QED BY <1>1, <1>2, <1>3 DEF PastStays, LogReplays, LogKeeps

LEMMA FoundedSame ==
    ASSUME LogFounded, TypeOK, StoresMove, log' = log
    PROVE  LogFounded'
<1>1. ASSUME NEW e, Founded(e) PROVE Founded(e)'
  BY <1>1 DEF Founded, StoresMove, TypeOK
<1> QED BY <1>1 DEF LogFounded, Proper

LEMMA CallKept ==
    ASSUME NEW p, CallInv(p), call'[p] = call[p], PastStays, StoresMove, LogReplays
    PROVE  CallInv(p)'
<1> DEFINE q == call[p]
           s == StateAt(q.base)
<1>1. CASE q = Idle
  BY <1>1 DEF CallInv
<1>2. CASE q # Idle
  <2>1. CallBody(q, s)
    BY <1>2 DEF CallInv
  <2>2. StateAt(q.base)' = s
    <3>1. \A n \in 0..Len(log) : n = q.base => StateAt(n)' = StateAt(n)
      BY DEF PastStays
    <3> QED BY <2>1, <3>1 DEF CallBody
  <2>3. DOMAIN s.decisions \subseteq Decisions
    BY <2>1 DEF CallBody, LogReplays, Replayed, FromViews
  <2>4. q.base \in 0..Len(log') /\ q.head \in q.base..Len(log')
    BY <2>1 DEF PastStays, CallBody
  <2>5. \A d \in DOMAIN q.decisions : q.decisions[d] = "expired" => decision'[d] = "expired"
    BY <2>1, <2>3 DEF CallBody, StoresMove
  <2>6. \A d \in q.approved : d \in shown'
    BY <2>1 DEF CallBody, StoresMove
  <2> HIDE DEF s
  <2>7. CallBody(q, s)'
    BY <2>1, <2>2, <2>4, <2>5, <2>6 DEF CallBody, LooksFor, s
  <2> QED BY <2>7 DEF CallInv, s
<1> QED BY <1>1, <1>2

(* An event is appended: the ledger's part of the invariant.               *)
LEMMA AppendStep ==
    ASSUME NEW e, AppendEvent(e), LogType, LogReplays, LogKeeps, LogFounded, Proper(e),
           Founded(e), UNCHANGED decision
    PROVE  /\ LogType' /\ LogReplays' /\ LogKeeps' /\ LogFounded' /\ PastStays
           /\ log'[Len(log) + 1] = e
           /\ approvedAt'[Len(log) + 1] = IF e.type = "phase" THEN shown ELSE {}
           /\ \A i \in 1..Len(log) : log'[i] = log[i] /\ approvedAt'[i] = approvedAt[i]
<1> DEFINE a == IF e.type = "phase" THEN shown ELSE {}
<1>1. /\ log' = Append(log, e) /\ approvedAt' = Append(approvedAt, a) /\ shown' = shown
      /\ log \in Seq(Range(log)) /\ approvedAt \in Seq(Range(approvedAt))
      /\ Len(approvedAt) = Len(log)
  BY DEF AppendEvent, LogType, IsSeq
<1>2. /\ Len(log) \in Nat /\ Len(log') = Len(log) + 1 /\ log' \in Seq(Range(log) \cup {e})
      /\ log'[Len(log) + 1] = e /\ \A i \in 1..Len(log) : log'[i] = log[i]
      /\ \A n \in 0..Len(log) : StateAt(n)' = StateAt(n)
  BY <1>1, LogStep
<1>3. /\ Len(approvedAt') = Len(log') /\ approvedAt' \in Seq(Range(approvedAt) \cup {a})
      /\ approvedAt'[Len(log) + 1] = a
      /\ \A i \in 1..Len(log) : approvedAt'[i] = approvedAt[i]
  BY <1>1, <1>2, AppendedOne
<1>4. Range(log') = Range(log) \cup {e}
  BY <1>1, EventsStep
<1>5. IsSeq(approvedAt')
  <2>1. approvedAt' \in Seq(Range(approvedAt'))
    BY <1>3, SeqOfRange
  <2> QED BY <2>1 DEF IsSeq
<1>6. LogType'
  <2>1. IsSeq(log')
    BY <1>2, <1>4 DEF IsSeq
  <2>2. \A i \in 1..Len(log') : Proper(log'[i])
    BY <1>2 DEF LogType
  <2> QED BY <1>3, <1>5, <2>1, <2>2 DEF LogType, Proper
<1>7. LogReplays'
  BY <1>1, LogReplaysStep
<1>8. LogKeeps'
  BY <1>1, LogKeepsStep
<1>9. LogFounded'
  BY <1>1, <1>4 DEF LogFounded, Founded, Proper
<1>10. PastStays
  BY <1>2 DEF PastStays
<1> QED BY <1>2, <1>3, <1>6, <1>7, <1>8, <1>9, <1>10

LEMMA NowReplayed ==
    ASSUME LogType, LogReplays
    PROVE  /\ Len(log) \in Nat /\ Now = StateAt(Len(log))
           /\ Replayed(Now, EventsTo(Len(log)), Len(Base) + Len(log))
           /\ EventsTo(Len(log)) = Range(Base) \cup Range(log)
<1>1. Len(log) \in Nat /\ DOMAIN log = 1..Len(log)
  BY DEF LogType, IsSeq
<1>2. Now = StateAt(Len(log))
  BY DEF Now
<1>3. Replayed(Now, EventsTo(Len(log)), Len(Base) + Len(log))
  BY <1>1, <1>2 DEF LogReplays
<1>4. EventsTo(Len(log)) = Range(Base) \cup Range(log)
  BY <1>1 DEF EventsTo, Range
<1> QED BY <1>1, <1>2, <1>3, <1>4

(* What an evaluation records stands on the stores.                        *)
LEMMA EvaluationFounded ==
    ASSUME NEW p, AllRead(p), CallInv(p), LogReplays
    PROVE  Proper(Evaluation(p)) /\ Founded(Evaluation(p))
<1> DEFINE q == call[p]
           s == StateAt(q.base)
           e == Evaluation(p)
<1>1. CallBody(q, s)
  BY DEF CallInv, AllRead, Idle
<1>2. /\ q.base \in 0..Len(log) /\ DOMAIN q.tasks \subseteq Tasks
      /\ DOMAIN q.decisions \subseteq DOMAIN s.decisions /\ q.approved \subseteq shown
      /\ \A d \in DOMAIN q.decisions : q.decisions[d] = "expired" => decision[d] = "expired"
  BY <1>1 DEF CallBody
<1>3. DOMAIN s.decisions \subseteq Decisions
  BY <1>2 DEF LogReplays, Replayed, FromViews
<1>4. /\ e.type = "evaluated" /\ e.tasks = q.tasks /\ e.decisions = q.decisions
      /\ e.approved = q.approved
  BY DEF Evaluation
<1> HIDE DEF e, s, q
<1>5. Founded(e)
  BY <1>2, <1>3, <1>4 DEF Founded
<1>6. Proper(e)
  BY <1>4 DEF Proper, EventTypes
<1> QED BY <1>5, <1>6 DEF e

(* Steps that leave the ledger and the files alone.                        *)
Quiet == StaticLog /\ UNCHANGED <<task, journal, receipts, decision, answered, tx, shown>>

LEMMA QuietStep ==
    ASSUME ShapeInv, LogReplays, LogKeeps, LogFounded, Quiet, DOMAIN call' = Procs
    PROVE  /\ ShapeInv' /\ LogReplays' /\ LogKeeps' /\ LogFounded' /\ StoresMove
           /\ PastStays /\ \A n \in 0..Len(log) : StateAt(n)' = StateAt(n)
<1>1. StoresMove
  BY DEF Quiet, StoresMove
<1>2. LogType' /\ LogReplays' /\ LogKeeps' /\ PastStays
  BY LogSame DEF Quiet, ShapeInv
<1>3. LogFounded'
  BY <1>1, FoundedSame DEF Quiet, StaticLog, ShapeInv
<1>4. TypeOK'
  BY DEF Quiet, ShapeInv, TypeOK
<1>5. \A x \in Tasks : Settled(x)' = Settled(x)
  BY DEF Quiet, Settled
<1>6. StoreInv'
  BY <1>5 DEF Quiet, ShapeInv, StoreInv
<1> QED BY <1>1, <1>2, <1>3, <1>4, <1>6 DEF ShapeInv, PastStays

(* A caller who goes on with a record of the right form.                   *)
LEMMA CallMoves ==
    ASSUME GovernedInv, NEW p \in Procs, NEW r, call' = [call EXCEPT ![p] = r],
           CallBody(r, StateAt(r.base)), UNCHANGED <<log, decision, shown>>,
           \A n \in 0..Len(log) : StateAt(n)' = StateAt(n)
    PROVE  CallInv(p)'
<1>1. call'[p] = r
  BY DEF GovernedInv, ShapeInv, TypeOK
<1>2. StateAt(call[p].base)' = StateAt(r.base)
  <2>1. r.base \in 0..Len(log)
    BY DEF CallBody
  <2>2. \A n \in 0..Len(log) : n = call'[p].base => StateAt(call[p].base)' = StateAt(n)'
    OBVIOUS
  <2> QED BY <1>1, <2>1, <2>2
<1>3. CallBody(call[p], StateAt(call[p].base))'
  BY <1>1, <1>2 DEF CallBody, LooksFor
<1> QED BY <1>3 DEF CallInv

LEMMA StartBody ==
    ASSUME GovernedInv, NEW p \in Procs, NEW c \in Calls, Start(p, c)
    PROVE  \E r : call' = [call EXCEPT ![p] = r] /\ CallBody(r, StateAt(r.base))
<1> DEFINE r == [at |-> "read", c |-> c, base |-> Len(log), head |-> Len(log),
                 claims |-> AllClaims, tasks |-> <<>>, decisions |-> <<>>, again |-> {},
                 look |-> None, approved |-> {}, receipts |-> {}]
<1>1. call' = [call EXCEPT ![p] = r] /\ Now.failed = 0 /\ c.refs \subseteq Now.evidence
  BY DEF Start
<1>2. Len(log) \in Nat /\ Now = StateAt(Len(log))
  BY NowReplayed DEF GovernedInv, ShapeInv
<1>3. DOMAIN r = CallFields
  BY DEF CallFields
<1>4. /\ r.at = "read" /\ r.c = c /\ r.base = Len(log) /\ r.head = Len(log)
      /\ DOMAIN r.tasks = {} /\ DOMAIN r.decisions = {} /\ r.look = None
      /\ r.approved = {} /\ r.receipts = {}
  OBVIOUS
<1> HIDE DEF r
<1>5. StateAt(r.base) = Now
  BY <1>2, <1>4
<1>6. CallBody(r, StateAt(r.base))
  BY <1>1, <1>2, <1>3, <1>4, <1>5 DEF CallBody, LooksFor
<1> QED BY <1>1, <1>6

(* A call that goes on reading.                                            *)
LEMMA ReadBody ==
    ASSUME GovernedInv, NEW p \in Procs, Read(p)
    PROVE  \E r : call' = [call EXCEPT ![p] = r] /\ CallBody(r, StateAt(r.base))
<1> DEFINE q == call[p]
           s == StateAt(q.base)
<1>1. CallBody(q, s) /\ q.at = "read"
  BY DEF Read, GovernedInv, CallInv, Idle
<1>2. DOMAIN s.decisions \subseteq Decisions
  BY <1>1 DEF CallBody, GovernedInv, LogReplays, Replayed, FromViews
<1>3. CASE \E x \in Head(q.claims) : Validate(p, x)
  <2>1. PICK y : call' = [call EXCEPT ![p] = [q EXCEPT !.claims = y]]
    BY <1>3 DEF Validate
  <2> DEFINE r == [q EXCEPT !.claims = y]
  <2>2. DOMAIN r = CallFields /\ \A f \in CallFields \ {"claims"} : r[f] = q[f]
    BY <1>1 DEF CallBody, CallFields
  <2> HIDE DEF r
  <2>3. CallBody(r, StateAt(r.base))
    BY <1>1, <2>2 DEF CallBody, LooksFor, CallFields
  <2> QED BY <2>1, <2>3 DEF r
<1>4. CASE \E t \in Tasks : ReadTask(p, t)
  <2>1. PICK t \in Tasks : ReadTask(p, t)
    BY <1>4
  <2> DEFINE r == [q EXCEPT !.tasks = With(q.tasks, t, task[t])]
  <2>2. call' = [call EXCEPT ![p] = r] /\ t \in DOMAIN s.tasks
    BY <2>1 DEF ReadTask
  <2>3. DOMAIN r = CallFields /\ r.tasks = With(q.tasks, t, task[t])
        /\ \A f \in CallFields \ {"tasks"} : r[f] = q[f]
    BY <1>1 DEF CallBody, CallFields
  <2> HIDE DEF r
  <2>4. DOMAIN r.tasks = DOMAIN q.tasks \cup {t}
    BY <2>3 DEF With, Over
  <2>5. CallBody(r, StateAt(r.base))
    BY <1>1, <2>2, <2>3, <2>4 DEF CallBody, LooksFor, CallFields
  <2> QED BY <2>2, <2>5
<1>5. CASE \E t \in Tasks : ReadAgain(p, t)
  <2>1. PICK t \in Tasks : ReadAgain(p, t)
    BY <1>5
  <2> DEFINE look == IF task[t].state \in Terminal /\ task[t].revision \in task[t].receipts
                     THEN <<t, task[t].revision>> ELSE None
             r == [q EXCEPT !.again = q.again \cup {t}, !.look = look]
  <2>2. call' = [call EXCEPT ![p] = r] /\ t \in DOMAIN q.tasks
    BY <2>1 DEF ReadAgain
  <2> HIDE DEF look
  <2>3. DOMAIN r = CallFields /\ r.look = look
        /\ \A f \in CallFields \ {"again", "look"} : r[f] = q[f]
    BY <1>1 DEF CallBody, CallFields
  <2> HIDE DEF r
  <2>4. LooksFor(r)
    BY <2>2, <2>3 DEF LooksFor, look, CallFields
  <2>5. CallBody(r, StateAt(r.base))
    BY <1>1, <2>2, <2>3, <2>4 DEF CallBody, CallFields
  <2> QED BY <2>2, <2>5
<1>6. CASE \E d \in Decisions : ReadDecision(p, d)
  <2>1. PICK d \in Decisions : ReadDecision(p, d)
    BY <1>6
  <2> DEFINE look == IF decision[d] = "approved" THEN <<d, "approved">> ELSE None
             ds == With(q.decisions, d, decision[d])
             r == [q EXCEPT !.decisions = ds, !.look = look]
  <2>2. /\ call' = [call EXCEPT ![p] = r]
        /\ d \in DOMAIN s.decisions \ DOMAIN q.decisions
    BY <2>1 DEF ReadDecision
  <2>3. /\ DOMAIN ds = DOMAIN q.decisions \cup {d} /\ ds[d] = decision[d]
        /\ \A x \in DOMAIN q.decisions : ds[x] = q.decisions[x]
    BY <2>2 DEF With, Over
  <2> HIDE DEF look, ds
  <2>4. DOMAIN r = CallFields /\ r.look = look /\ r.decisions = ds
        /\ \A f \in CallFields \ {"decisions", "look"} : r[f] = q[f]
    BY <1>1 DEF CallBody, CallFields
  <2> HIDE DEF r
  <2>5. LooksFor(r)
    BY <2>3, <2>4 DEF LooksFor, look
  <2>6. CallBody(r, StateAt(r.base))
    BY <1>1, <2>2, <2>3, <2>4, <2>5 DEF CallBody, CallFields
  <2> QED BY <2>2, <2>6
<1>7. CASE LookUp(p)
  <2> DEFINE x == q.look
             a == IF x[1] \in Decisions /\ x \in answered THEN q.approved \cup {x[1]}
                  ELSE q.approved
             b == IF x[1] \in Tasks /\ x \in receipts THEN q.receipts \cup {x}
                  ELSE q.receipts
             r == [q EXCEPT !.look = None, !.approved = a, !.receipts = b]
  <2>1. call' = [call EXCEPT ![p] = r] /\ x # None
    BY <1>7 DEF LookUp
  <2>2. \A d \in a : d \in shown /\ d \in DOMAIN q.decisions /\ q.decisions[d] = "approved"
    BY <1>1, <2>1, GovernedStores DEF CallBody, LooksFor, GovernedInv, ShapeInv, StoreInv
  <2>3. \A tr \in b : tr[1] \in DOMAIN q.tasks
    BY <1>1, <2>1, GovernedStores DEF CallBody, LooksFor
  <2> HIDE DEF a, b
  <2>4. DOMAIN r = CallFields /\ r.look = None /\ r.approved = a /\ r.receipts = b
        /\ \A f \in CallFields \ {"look", "approved", "receipts"} : r[f] = q[f]
    BY <1>1 DEF CallBody, CallFields
  <2> HIDE DEF r
  <2>5. CallBody(r, StateAt(r.base))
    BY <1>1, <2>2, <2>3, <2>4 DEF CallBody, LooksFor, CallFields
  <2> QED BY <2>1, <2>5
<1> QED BY <1>3, <1>4, <1>5, <1>6, <1>7, Zenon DEF Read

LEMMA ReadHeadBody ==
    ASSUME GovernedInv, NEW p \in Procs, ReadHead(p)
    PROVE  \E r : call' = [call EXCEPT ![p] = r] /\ CallBody(r, StateAt(r.base))
<1> DEFINE q == call[p]
           r == [q EXCEPT !.at = "append", !.head = Len(log)]
<1>1. call' = [call EXCEPT ![p] = r]
  BY DEF ReadHead
<1>2. CallBody(q, StateAt(q.base))
  BY DEF ReadHead, GovernedInv, CallInv, Idle
<1>3. DOMAIN r = CallFields /\ r.at = "append" /\ r.head = Len(log)
      /\ \A f \in CallFields \ {"at", "head"} : r[f] = q[f]
  BY <1>2 DEF CallBody, CallFields
<1> HIDE DEF r
<1>4. Len(log) \in q.base..Len(log)
  BY <1>2, NowReplayed DEF CallBody, GovernedInv, ShapeInv
<1>5. CallBody(r, StateAt(r.base))
  BY <1>2, <1>3, <1>4 DEF CallBody, LooksFor, CallFields
<1> QED BY <1>1, <1>5

-----------------------------------------------------------------------------
LEMMA GovernedInit == Init => GovernedInv
<1> SUFFICES ASSUME Init PROVE GovernedInv
  OBVIOUS
<1>1. /\ log = <<>> /\ task = [t \in Tasks |-> Done(BaseTasks[t])]
      /\ journal = [t \in Tasks |-> {Unknown, Done(BaseTasks[t])}]
      /\ decision = BaseDecisions /\ tx = None /\ call = [p \in Procs |-> Idle]
      /\ answered = {<<d, "approved">> : d \in {x \in Decisions : BaseDecisions[x] = "approved"}}
      /\ shown = {a[1] : a \in answered} /\ approvedAt = <<>>
      /\ receipts = {<<t, 2>> : t \in {x \in Tasks : BaseTasks[x] = "completed"}}
  BY DEF Init
<1>2. log \in Seq({}) /\ Len(log) = 0 /\ Range(log) = {} /\ IsSeq(log) /\ IsSeq(approvedAt)
  BY <1>1 DEF IsSeq, Range
<1>3. LogType
  BY <1>1, <1>2 DEF LogType
<1>4. \A t \in Tasks : Done(BaseTasks[t]) \in View
  BY GovernedStores DEF Done, View
<1>5. Unknown \in View /\ Unknown.state \notin Terminal
  BY DEF Unknown, View, Terminal
<1>6. TypeOK
  <2>1. answered \subseteq Decisions \X {"approved", "rejected"} /\ shown \subseteq Decisions
    BY <1>1
  <2>2. receipts \subseteq Tasks \X Nat
    BY <1>1
  <2> QED BY <1>1, <1>4, <1>5, <2>1, <2>2, GovernedStores DEF TypeOK
<1>7. StoreInv
  <2>1. \A t \in Tasks : Settled(t) = task[t]
    BY <1>1 DEF Settled
  <2>2. \A a \in answered : decision[a[1]] = a[2] /\ a[1] \in shown
    BY <1>1
  <2> QED BY <1>1, <1>5, <2>1, <2>2 DEF StoreInv
<1>8. StateAt(0) = BaseState /\ EventsTo(0) = Range(Base)
  <2>1. SubSeq(log, 1, 0) = <<>>
    BY <1>2, Prefix
  <2>2. StateAt(0) = BaseState
    BY <2>1, ReplayNothing, Zenon DEF StateAt
  <2>3. EventsTo(0) = Range(Base)
    BY DEF EventsTo
  <2> QED BY <2>2, <2>3
<1>9. LogReplays
  <2>1. \A n \in 0..Len(log) : n = 0
    BY <1>2
  <2>2. Replayed(StateAt(0), EventsTo(0), Len(Base) + 0)
    BY <1>8, BaseReplayed
  <2> QED BY <2>1, <2>2 DEF LogReplays
<1>10. LogKeeps
  BY <1>2 DEF LogKeeps, Keeps
<1>11. LogFounded
  <2>1. ASSUME NEW d \in Decisions, BaseDecisions[d] = "approved" PROVE d \in shown
    <3>1. <<d, "approved">> \in answered
      BY <1>1, <2>1
    <3>2. shown = {a[1] : a \in answered}
      BY <1>1
    <3>3. \E a \in answered : a[1] = d
      BY <3>1
    <3> QED BY <3>2, <3>3
  <2>2. ASSUME NEW e \in Range(Base) PROVE Proper(e) /\ Founded(e)
    BY <1>1, <2>1, GovernedLedger DEF Proper, Founded
  <2> QED BY <1>2, <2>2 DEF LogFounded
<1>12. \A p \in Procs : CallInv(p)
  BY <1>1 DEF CallInv
<1> QED BY <1>3, <1>6, <1>7, <1>9, <1>10, <1>11, <1>12 DEF GovernedInv, ShapeInv

LEMMA StoreStep ==
    ASSUME GovernedInv, Store
    PROVE  GovernedInv'
<1>1. TypeOK' /\ StoreInv' /\ StoresMove
  <2> USE DEF GovernedInv, ShapeInv
  <2>1. CASE \E t \in Tasks : \E to \in Ends : WriteTask(t, to)
    BY <2>1, WriteTaskStep
  <2>2. CASE \E d \in Decisions : \E status \in {"approved", "rejected"} :
                WriteDecision(d, status)
    BY <2>2, WriteDecisionStep
  <2>3. CASE \E d \in Decisions : Expire(d)
    BY <2>3, ExpireStep
  <2>4. CASE WriteRest
    BY <2>4, WriteRestStep
  <2>5. CASE Commit
    BY <2>5, CommitStep
  <2>6. CASE Undo
    BY <2>6, UndoStep
  <2> QED BY <2>1, <2>2, <2>3, <2>4, <2>5, <2>6, Zenon DEF Store
<1>2. StaticLog /\ UNCHANGED call
  BY Zenon DEF Store, WriteTask, WriteDecision, Expire, WriteRest, Commit, Undo, StaticLog, ghosts
<1>3. LogType' /\ LogReplays' /\ LogKeeps' /\ PastStays
  BY <1>2, LogSame DEF GovernedInv, ShapeInv
<1>4. LogFounded'
  BY <1>1, <1>2, FoundedSame DEF StaticLog, GovernedInv, ShapeInv
<1>5. \A p \in Procs : CallInv(p)'
  BY <1>1, <1>2, <1>3, CallKept DEF GovernedInv
<1> QED BY <1>1, <1>3, <1>4, <1>5 DEF GovernedInv, ShapeInv

(* An event is appended, by a caller who is done then or by a writer.      *)
LEMMA AppendKeeps ==
    ASSUME GovernedInv, NEW e, AppendEvent(e), Proper(e), Founded(e), UNCHANGED stores,
           DOMAIN call' = Procs, \A p \in Procs : call'[p] = call[p] \/ call'[p] = Idle
    PROVE  GovernedInv'
<1>1. /\ UNCHANGED <<task, journal, receipts, decision, answered, tx, shown>>
  BY DEF stores, AppendEvent
<1>2. LogType' /\ LogReplays' /\ LogKeeps' /\ LogFounded' /\ PastStays
  BY <1>1, AppendStep DEF GovernedInv, ShapeInv
<1>3. StoresMove
  BY <1>1 DEF StoresMove
<1>4. TypeOK'
  BY <1>1 DEF TypeOK, GovernedInv, ShapeInv
<1>5. \A x \in Tasks : Settled(x)' = Settled(x)
  BY <1>1 DEF Settled
<1>6. StoreInv'
  BY <1>1, <1>5 DEF StoreInv, GovernedInv, ShapeInv
<1>7. ASSUME NEW p \in Procs PROVE CallInv(p)'
  <2>1. CASE call'[p] = call[p]
    BY <1>2, <1>3, <2>1, CallKept DEF GovernedInv
  <2>2. CASE call'[p] = Idle
    BY <2>2 DEF CallInv
  <2> QED BY <2>1, <2>2
<1> QED BY <1>2, <1>4, <1>6, <1>7 DEF GovernedInv, ShapeInv

LEMMA WriteStep ==
    ASSUME GovernedInv, NEW e \in Writes, Write(e)
    PROVE  GovernedInv'
<1>1. Proper(e) /\ Founded(e)
  BY GovernedLedger DEF Proper, Founded
<1>2. AppendEvent(e) /\ UNCHANGED stores /\ call' = call
  BY DEF Write
<1> QED BY <1>1, <1>2, AppendKeeps DEF GovernedInv, ShapeInv, TypeOK

LEMMA OverrideProper ==
    ASSUME NEW p
    PROVE  Proper(Override(p)) /\ Founded(Override(p)) /\ Override(p).type = "override"
BY DEF Override, Proper, Founded, EventTypes

LEMMA ServiceStep ==
    ASSUME GovernedInv, NEW p \in Procs, Service(p)
    PROVE  GovernedInv'
<1>0. \A o \in Procs : CallInv(o)
  BY DEF GovernedInv
<1>1. CASE AppendEvaluation(p)
  <2>1. /\ AllRead(p) /\ AppendEvent(Evaluation(p)) /\ UNCHANGED stores
        /\ call' = [call EXCEPT ![p] = Idle]
    BY <1>1 DEF AppendEvaluation
  <2>2. Proper(Evaluation(p)) /\ Founded(Evaluation(p))
    BY <2>1, EvaluationFounded DEF GovernedInv
  <2>3. DOMAIN call' = Procs /\ \A o \in Procs : call'[o] = call[o] \/ call'[o] = Idle
    BY <2>1 DEF GovernedInv, ShapeInv, TypeOK
  <2> QED BY <2>1, <2>2, <2>3, AppendKeeps
<1>2. CASE AppendOverride(p)
  <2>1. /\ AppendEvent(Override(p)) /\ UNCHANGED stores
        /\ call' = [call EXCEPT ![p] = Idle]
    BY <1>2 DEF AppendOverride
  <2>2. DOMAIN call' = Procs /\ \A o \in Procs : call'[o] = call[o] \/ call'[o] = Idle
    BY <2>1 DEF GovernedInv, ShapeInv, TypeOK
  <2> QED BY <2>1, <2>2, OverrideProper, AppendKeeps
<1>3. ASSUME UNCHANGED <<log, stores, ghosts>>,
             DOMAIN call' = Procs, \A o \in Procs \ {p} : call'[o] = call[o],
             (\A n \in 0..Len(log) : StateAt(n)' = StateAt(n)) => CallInv(p)'
      PROVE  GovernedInv'
  <2>1. Quiet
    BY <1>3 DEF Quiet, StaticLog, stores, ghosts
  <2>2. /\ ShapeInv' /\ LogReplays' /\ LogKeeps' /\ LogFounded' /\ StoresMove
        /\ PastStays /\ \A n \in 0..Len(log) : StateAt(n)' = StateAt(n)
    BY <1>3, <2>1, QuietStep DEF GovernedInv
  <2>3. ASSUME NEW o \in Procs PROVE CallInv(o)'
    <3>1. CASE o = p
      BY <1>3, <2>2, <3>1
    <3>2. CASE o # p
      <4>1. call'[o] = call[o]
        BY <1>3, <3>2
      <4> QED BY <2>2, <4>1, CallKept DEF GovernedInv
    <3> QED BY <3>1, <3>2
  <2> QED BY <2>2, <2>3 DEF GovernedInv
<1>4. ASSUME UNCHANGED <<log, stores, ghosts>>, NEW r, call' = [call EXCEPT ![p] = r]
      PROVE  /\ DOMAIN call' = Procs /\ \A o \in Procs \ {p} : call'[o] = call[o]
             /\ call'[p] = r /\ UNCHANGED <<decision, shown>>
  BY <1>4 DEF GovernedInv, ShapeInv, TypeOK, stores, ghosts
<1>5. CASE (\E c \in Calls : Start(p, c)) \/ Read(p) \/ ReadHead(p)
  <2>1. UNCHANGED <<log, stores, ghosts>>
    BY <1>5, Zenon DEF Start, Read, Validate, ReadTask, ReadAgain, ReadDecision, LookUp, ReadHead
  <2>2. PICK r : call' = [call EXCEPT ![p] = r] /\ CallBody(r, StateAt(r.base))
    BY <1>5, StartBody, ReadBody, ReadHeadBody
  <2>3. (\A n \in 0..Len(log) : StateAt(n)' = StateAt(n)) => CallInv(p)'
    BY <1>4, <2>1, <2>2, CallMoves
  <2> QED BY <1>3, <1>4, <2>1, <2>2, <2>3
<1>6. CASE Raise(p)
  <2>1. UNCHANGED <<log, stores, ghosts>> /\ call' = [call EXCEPT ![p] = Idle]
    BY <1>6 DEF Raise
  <2>2. CallInv(p)'
    BY <1>4, <2>1 DEF CallInv
  <2> QED BY <1>3, <1>4, <2>1, <2>2
<1> QED BY <1>1, <1>2, <1>5, <1>6, Zenon DEF Service

LEMMA GovernedNext == GovernedInv /\ [Next]_vars => GovernedInv'
<1> SUFFICES ASSUME GovernedInv, [Next]_vars PROVE GovernedInv'
  OBVIOUS
<1>1. CASE Store
  BY <1>1, StoreStep
<1>2. CASE \E e \in Writes : Write(e)
  BY <1>2, WriteStep
<1>3. CASE \E p \in Procs : Service(p)
  BY <1>3, ServiceStep
<1>4. CASE UNCHANGED vars
  <2>1. /\ UNCHANGED <<log, stores, call, ghosts>> /\ Quiet /\ DOMAIN call' = Procs
    BY <1>4 DEF vars, Quiet, StaticLog, stores, ghosts, GovernedInv, ShapeInv, TypeOK
  <2>2. /\ ShapeInv' /\ LogReplays' /\ LogKeeps' /\ LogFounded' /\ StoresMove /\ PastStays
    BY <2>1, QuietStep DEF GovernedInv
  <2>3. \A p \in Procs : CallInv(p)'
    BY <2>1, <2>2, CallKept DEF GovernedInv
  <2> QED BY <2>2, <2>3 DEF GovernedInv
<1> QED BY <1>1, <1>2, <1>3, <1>4 DEF Next

(* Every reachable state is well typed, and what callers have read and     *)
(* what the ledger records stays true of the stores (GovernedInv).         *)
THEOREM Governed == Spec => []GovernedInv
<1> QED BY GovernedInit, GovernedNext, PTL DEF Spec

(* The files, receipts and the open transaction of the stores are well     *)
(* typed (TaskStore, DecisionService).                                     *)
THEOREM TypeCorrect == Spec => []TypeOK
<1>1. GovernedInv => TypeOK
  BY DEF GovernedInv, ShapeInv
<1> QED BY <1>1, Governed, PTL

-----------------------------------------------------------------------------
(* While the project can be rebuilt, what its evaluations claim stands.    *)
LEMMA ClaimsStand ==
    ASSUME GovernedInv, Readable, NEW e \in Range(Base) \cup Range(log), e.type = "evaluated"
    PROVE  /\ \A t \in DOMAIN e.tasks : t \in Tasks /\ e.tasks[t] \in journal[t]
           /\ \A d \in DOMAIN e.decisions : e.decisions[d] = "approved" =>
                  d \in Decisions /\ <<d, "approved">> \in answered
<1>1. \A x \in Claims(e) : Stands(x)
  BY DEF Readable, Validated
<1>2. DOMAIN e.tasks \subseteq Tasks /\ DOMAIN e.decisions \subseteq Decisions
  BY DEF GovernedInv, LogFounded, Founded
<1>3. ASSUME NEW t \in DOMAIN e.tasks PROVE e.tasks[t] \in journal[t]
  <2>1. <<t, e.tasks[t]>> \in Claims(e) /\ t \notin Decisions
    BY <1>2, GovernedStores DEF Claims
  <2> QED BY <1>1, <2>1 DEF Stands
<1>4. ASSUME NEW d \in DOMAIN e.decisions, e.decisions[d] = "approved"
      PROVE  <<d, "approved">> \in answered
  <2>1. <<d, "approved">> \in Claims(e)
    BY <1>4 DEF Claims
  <2> QED BY <1>1, <1>2, <2>1 DEF Stands
<1> QED BY <1>2, <1>3, <1>4

(* Closed as finished: the views that the replay closed on are validated,  *)
(* and what they say of tasks and decisions still holds in the stores.     *)
LEMMA ClosedIsFinishedByInv == GovernedInv => ClosedIsFinished
<1> SUFFICES ASSUME GovernedInv, Readable, NEW i \in 1..Len(Now.history),
                    Now.history[i].from = "CLOSING", Now.history[i].to = "CLOSED"
             PROVE  /\ \A t \in Now.history[i].tasks : task[t].state \in Terminal
                    /\ \A d \in DOMAIN Now.history[i].decisions :
                           decision[d] \in Resolved \/ Now.history[i].decisions[d] = "rejected"
  BY DEF ClosedIsFinished
<1> DEFINE h == Now.history[i]
           E == Range(Base) \cup Range(log)
<1>1. /\ \A t \in h.tasks : SawTerminal(E, t)
      /\ \A d \in DOMAIN h.decisions : h.decisions[d] \in Resolved
                                       /\ SawStatus(E, d, h.decisions[d])
  <2>1. Replayed(Now, E, Len(Base) + Len(log))
    BY NowReplayed DEF GovernedInv, ShapeInv
  <2>2. ClosedOnViews(E, h)
    BY <2>1 DEF Replayed, HistoryFits
  <2> HIDE DEF E
  <2> QED BY <2>2 DEF ClosedOnViews
<1>2. \A e \in E : e.type = "evaluated" =>
          /\ \A t \in DOMAIN e.tasks : t \in Tasks /\ e.tasks[t] \in journal[t]
          /\ \A d \in DOMAIN e.decisions :
                 /\ e.decisions[d] = "approved" => <<d, "approved">> \in answered
                 /\ e.decisions[d] = "expired" => decision[d] = "expired"
  BY ClaimsStand DEF GovernedInv, LogFounded, Founded
<1> HIDE DEF h, E
<1>3. ASSUME NEW t \in h.tasks PROVE task[t].state \in Terminal
  <2>1. PICK e \in E : /\ e.type = "evaluated" /\ t \in DOMAIN e.tasks
                       /\ e.tasks[t].state \in Terminal
    BY <1>1 DEF SawTerminal
  <2>2. t \in Tasks /\ e.tasks[t] \in journal[t]
    BY <1>2, <2>1
  <2> QED BY <2>1, <2>2 DEF GovernedInv, ShapeInv, StoreInv
<1>4. ASSUME NEW d \in DOMAIN h.decisions
      PROVE  decision[d] \in Resolved \/ h.decisions[d] = "rejected"
  <2>1. PICK e \in E : /\ e.type = "evaluated" /\ d \in DOMAIN e.decisions
                       /\ e.decisions[d] = h.decisions[d]
    BY <1>1 DEF SawStatus
  <2>2. h.decisions[d] \in {"approved", "rejected", "expired"}
    BY <1>1 DEF Resolved
  <2>3. CASE h.decisions[d] = "approved"
    <3>1. <<d, "approved">> \in answered
      BY <1>2, <2>1, <2>3
    <3>2. \A a \in answered : decision[a[1]] = a[2]
      BY DEF GovernedInv, ShapeInv, StoreInv
    <3>3. decision[d] = "approved"
      BY <3>1, <3>2
    <3> QED BY <3>3 DEF Resolved
  <2>4. CASE h.decisions[d] = "expired"
    BY <1>2, <2>1, <2>4 DEF Resolved
  <2> QED BY <2>2, <2>3, <2>4
<1> QED BY <1>3, <1>4 DEF h

(* A project that was closed as finished and that can be rebuilt is        *)
(* finished in the stores, its gate overridden or not (decide_transition's *)
(* preconditions), but for decisions that were seen as rejected.           *)
THEOREM ClosedAreFinished == Spec => []ClosedIsFinished
<1> QED BY Governed, ClosedIsFinishedByInv, PTL

-----------------------------------------------------------------------------
(* Every step that changes the ledger appends one of three kinds.          *)
LEMMA LogChanges ==
    ASSUME GovernedInv, [Next]_vars
    PROVE  \/ StaticLog
           \/ \E e \in Writes : AppendEvent(e) /\ Proper(e) /\ Founded(e)
                                /\ e.type \notin {"evaluated", "override"}
           \/ \E p \in Procs : /\ AppendEvaluation(p) /\ CallInv(p)
                               /\ Proper(Evaluation(p)) /\ Founded(Evaluation(p))
           \/ \E p \in Procs : AppendOverride(p) /\ CallInv(p)
<1>1. CASE Store
  BY <1>1, Zenon DEF Store, WriteTask, WriteDecision, Expire, WriteRest, Commit, Undo, StaticLog,
     ghosts
<1>2. CASE \E e \in Writes : Write(e)
  BY <1>2, GovernedLedger DEF Write, Proper, Founded
<1>3. ASSUME NEW p \in Procs, Service(p)
      PROVE  StaticLog \/ AppendEvaluation(p) \/ AppendOverride(p)
  BY <1>3, Zenon DEF Service, Start, Read, Validate, ReadTask, ReadAgain, ReadDecision, LookUp,
     ReadHead, Raise, StaticLog, ghosts
<1>4. ASSUME NEW p \in Procs, AppendEvaluation(p)
      PROVE  CallInv(p) /\ Proper(Evaluation(p)) /\ Founded(Evaluation(p))
  BY <1>4, EvaluationFounded DEF AppendEvaluation, GovernedInv
<1>5. CASE UNCHANGED vars
  BY <1>5 DEF vars, ghosts, StaticLog
<1>6. \A p \in Procs : CallInv(p)
  BY DEF GovernedInv
<1>7. CASE \E p \in Procs : Service(p)
  BY <1>3, <1>4, <1>6, <1>7
<1> QED BY <1>1, <1>2, <1>5, <1>7 DEF Next

LEMMA AppendNow ==
    ASSUME GovernedInv, NEW e, AppendEvent(e)
    PROVE  /\ Now' = Apply(Now, e) /\ Len(log') = Len(log) + 1 /\ log'[Len(log) + 1] = e
           /\ \A i \in 1..Len(log) : log'[i] = log[i]
           /\ \A n \in 0..Len(log) : StateAt(n)' = StateAt(n)
           /\ \A n \in Nat : n = Len(log) + 1 => StateAt(n)' = Apply(Now, e)
           /\ Len(log) \in Nat /\ Len(Base) \in Nat
           /\ Replayed(Now, EventsTo(Len(log)), Len(Base) + Len(log))
           /\ IsState(Now) /\ FromViews(Now, EventsTo(Len(log)) \cup {e})
<1>1. log' = Append(log, e) /\ log \in Seq(Range(log))
  BY DEF AppendEvent, GovernedInv, ShapeInv, LogType, IsSeq
<1>2. Replayed(Now, EventsTo(Len(log)), Len(Base) + Len(log)) /\ Len(Base) \in Nat
  BY NowReplayed, BaseReplayed DEF GovernedInv, ShapeInv
<1>3. IsState(Now) /\ FromViews(Now, EventsTo(Len(log)) \cup {e})
  BY <1>2, ViewsLater DEF Replayed
<1> QED BY <1>1, <1>2, <1>3, LogStep

(* Only what replay refuses makes it fail.                                 *)
LEMMA FailsAt ==
    ASSUME NEW s, IsState(s), NEW e, NEW E, FromViews(s, E), e \in E, Proper(e), s.failed = 0
    PROVE  Apply(s, e).failed = IF Raises(s, e) THEN s.seq + 1 ELSE 0
<1>1. CASE Raises(s, e)
  BY <1>1, Refused
<1>2. CASE ~Raises(s, e)
  <2>1. DOMAIN Effect(s, e) = Fields
    BY <1>2, EffectFromViews
  <2>2. Effect(s, e).failed = 0
    <3>1. CASE e.type = "phase"
      BY <3>1, PhaseEffect
    <3>2. CASE e.type = "evaluated"
      BY <3>2, EvaluatedEffect
    <3>3. CASE e.type \notin {"phase", "evaluated"}
      BY <3>3, EffectPlain DEF Proper, PlainEffect
    <3> QED BY <3>1, <3>2, <3>3
  <2> QED BY <1>2, <2>1, <2>2, Accepted DEF Fields
<1> QED BY <1>1, <1>2

(* What replay may refuse.                                                 *)
Refusable(e) ==
    \/ e.type = "phase"
    \/ e.type = "public" /\ ~e.fits
    \/ e.type = "evaluated" /\ DOMAIN e.tasks = {}

(* The ledger's part of OnlyTasklessFail: the failure is after Base.       *)
FailInv ==
    Now.failed # 0 =>
        /\ Now.failed - Len(Base) \in 1..Len(log)
        /\ Refusable(log[Now.failed - Len(Base)])

LEMMA FailStep ==
    ASSUME GovernedInv, FailInv, NEW e, AppendEvent(e), Proper(e),
           Now.failed = 0 /\ Raises(Now, e) => Refusable(e)
    PROVE  FailInv'
<1>1. /\ Now' = Apply(Now, e) /\ Len(log') = Len(log) + 1 /\ log'[Len(log) + 1] = e
      /\ \A i \in 1..Len(log) : log'[i] = log[i]
      /\ Len(log) \in Nat /\ Len(Base) \in Nat
      /\ Replayed(Now, EventsTo(Len(log)), Len(Base) + Len(log))
      /\ IsState(Now) /\ FromViews(Now, EventsTo(Len(log)) \cup {e})
  BY AppendNow
<1>2. CASE Now.failed # 0
  <2>1. Now' = Now
    BY <1>1, <1>2 DEF Apply
  <2> QED BY <1>1, <1>2, <2>1 DEF FailInv, Refusable
<1>3. CASE Now.failed = 0
  <2>1. Now'.failed = IF Raises(Now, e) THEN Now.seq + 1 ELSE 0
    BY <1>1, <1>3, FailsAt
  <2>2. Now.seq = Len(Base) + Len(log)
    BY <1>1, <1>3 DEF Replayed
  <2>3. Now'.failed # 0 => Raises(Now, e) /\ Now'.failed - Len(Base) = Len(log) + 1
    BY <1>1, <2>1, <2>2
  <2> QED BY <1>1, <1>3, <2>3 DEF FailInv, Refusable
<1> QED BY <1>2, <1>3

(* An evaluation appended on the head it read fits, but for its tasks.     *)
LEMMA EvaluationStands ==
    ASSUME GovernedInv, NEW p \in Procs, AppendEvaluation(p), CallInv(p),
           Raises(Now, Evaluation(p))
    PROVE  DOMAIN Evaluation(p).tasks = {}
<1> DEFINE q == call[p]
           s == StateAt(q.base)
           e == Evaluation(p)
<1>1. q.at = "read" /\ AllRead(p) /\ Len(log) = q.head /\ EvaluationPasses(p) /\ q # Idle
  BY DEF AppendEvaluation, AllRead, HeadStands, Idle
<1>2. /\ q.head = q.base /\ q.c.refs \subseteq s.evidence
      /\ DOMAIN q.tasks \subseteq DOMAIN s.tasks /\ DOMAIN q.decisions \subseteq DOMAIN s.decisions
      /\ \A d \in q.approved : d \in DOMAIN q.decisions /\ q.decisions[d] = "approved"
      /\ \A tr \in q.receipts : tr[1] \in DOMAIN q.tasks
  BY <1>1 DEF CallInv, CallBody
<1>3. s = Now
  BY <1>1, <1>2 DEF Now
<1>4. \A tr \in q.receipts : tr[2] \in q.tasks[tr[1]].receipts
  BY <1>1 DEF EvaluationPasses
<1>5. /\ e.type = "evaluated" /\ e.from = s.phase /\ e.tasks = q.tasks
      /\ e.decisions = q.decisions /\ e.approved = q.approved /\ e.receipts = q.receipts
      /\ e.refs = q.c.refs /\ e.accountable = Accountable(s)
  BY DEF Evaluation
<1>6. ~EvaluationFits(Now, e)
  BY <1>5 DEF Raises
<1> HIDE DEF e, s, q
<1> QED BY <1>2, <1>3, <1>4, <1>5, <1>6 DEF EvaluationFits, e

LEMMA OnlyTasklessFailInit == Init => FailInv
<1> SUFFICES ASSUME Init PROVE FailInv
  OBVIOUS
<1>1. Len(log) = 0 /\ log \in Seq({})
  BY DEF Init
<1>2. SubSeq(log, 1, Len(log)) = <<>>
  BY <1>1, Prefix
<1>3. Now = BaseState
  BY <1>2, ReplayNothing, Zenon DEF Now, StateAt
<1> QED BY <1>3, GovernedLedger DEF FailInv, BaseState

LEMMA OnlyTasklessFailNext == GovernedInv /\ FailInv /\ [Next]_vars => FailInv'
<1> SUFFICES ASSUME GovernedInv, FailInv, [Next]_vars PROVE FailInv'
  OBVIOUS
<1>1. CASE StaticLog
  BY <1>1 DEF StaticLog, FailInv, Refusable, Now, StateAt, BaseState
<1>2. ASSUME NEW e, AppendEvent(e), Proper(e), e.type \notin {"evaluated", "override"}
      PROVE  FailInv'
  <2>1. Raises(Now, e) => Refusable(e)
    BY <1>2 DEF Raises, Refusable
  <2> QED BY <1>2, <2>1, FailStep
<1>3. ASSUME NEW p \in Procs, AppendEvaluation(p), CallInv(p), Proper(Evaluation(p))
      PROVE  FailInv'
  <2>1. AppendEvent(Evaluation(p)) /\ Evaluation(p).type = "evaluated"
    BY <1>3 DEF AppendEvaluation, Evaluation
  <2>2. Raises(Now, Evaluation(p)) => Refusable(Evaluation(p))
    BY <1>3, <2>1, EvaluationStands DEF Refusable
  <2> QED BY <1>3, <2>1, <2>2, FailStep
<1>4. ASSUME NEW p \in Procs, AppendOverride(p)
      PROVE  FailInv'
  <2>1. AppendEvent(Override(p)) /\ Proper(Override(p)) /\ Override(p).type = "override"
    BY <1>4, OverrideProper DEF AppendOverride
  <2>2. ~Raises(Now, Override(p))
    BY <2>1 DEF Raises
  <2> QED BY <2>1, <2>2, FailStep
<1> QED BY <1>1, <1>2, <1>3, <1>4, LogChanges

(* What the service records replays: the first event that replay refuses   *)
(* is a trusted writer's phase change, a public event that does not fit    *)
(* the model of its entity, or an evaluation of a project without tasks.   *)
THEOREM OnlyTasklessFails == Spec => []OnlyTasklessFail
<1>1. FailInv => OnlyTasklessFail
  BY DEF FailInv, Refusable, OnlyTasklessFail
<1> QED BY <1>1, Governed, OnlyTasklessFailInit, OnlyTasklessFailNext, PTL DEF Spec

-----------------------------------------------------------------------------
(* An override is answered on the ledger read first; what it needed of it  *)
(* is still there when it is appended, or was taken by a later event.      *)
LEMMA AllowedStill ==
    ASSUME NEW s, NEW r, NEW e, Keeps(s, r, e), OverrideAllowed(e, EffectiveAuthority(s))
    PROVE  OverrideAllowed(e, EffectiveAuthority(r))
<1>1. Accountable(s) = Accountable(r)
  BY DEF Keeps, Accountable
<1> QED BY <1>1 DEF Keeps, OverrideAllowed, EffectiveAuthority

LEMMA OverrideStands ==
    ASSUME GovernedInv, NEW p \in Procs, AppendOverride(p), CallInv(p),
           Apply(Now, Override(p)).failed = 0
    PROVE  \/ Override(p).gate \in Apply(Now, Override(p)).overridden
           \/ \E j \in Override(p).read + 1..Len(log) :
                  TakesFrom(log[j], Override(p), StateAt(Override(p).read))
<1> DEFINE q == call[p]
           s == StateAt(q.base)
           e == Override(p)
<1>1. AppendEvent(e) /\ OverrideAllowed(e, EffectiveAuthority(s)) /\ q # Idle
  BY DEF AppendOverride, OverrideGranted, Idle
<1>2. q.base \in 0..Len(log)
  BY <1>1 DEF CallInv, CallBody
<1>3. e.type = "override" /\ e.read = q.base /\ Proper(e)
  BY OverrideProper DEF Override
<1>4. IsState(Now) /\ FromViews(Now, EventsTo(Len(log)) \cup {e}) /\ Len(log) \in Nat
  BY <1>1, AppendNow
<1> HIDE DEF e, s
<1>5. ~Raises(Now, e)
  BY <1>3 DEF Raises
<1>6. Now.failed = 0
  BY DEF Apply, e
<1>7. \/ \E j \in q.base + 1..Len(log) : TakesFrom(log[j], e, s)
      \/ Keeps(s, Now, e)
  <2>1. Len(log) \in 0..Len(log) /\ Now = StateAt(Len(log))
    BY <1>4 DEF Now
  <2>2. \/ \E j \in q.base + 1..Len(log) : TakesFrom(log[j], e, StateAt(q.base))
        \/ StateAt(Len(log)).failed # 0
        \/ Keeps(StateAt(q.base), StateAt(Len(log)), e)
    BY <1>2, <2>1 DEF GovernedInv, LogKeeps
  <2> QED BY <1>6, <2>1, <2>2 DEF s
<1>8. CASE Keeps(s, Now, e)
  <2>1. OverrideAllowed(e, EffectiveAuthority(Now))
    BY <1>1, <1>8, AllowedStill
  <2>2. e.gate \in Effect(Now, e).overridden
    BY <1>3, <1>4, <2>1, EffectPlain DEF Proper, PlainEffect
  <2>3. DOMAIN Effect(Now, e) = Fields
    BY <1>3, <1>4, <1>5, EffectFromViews
  <2>4. Apply(Now, e).overridden = Effect(Now, e).overridden
    BY <1>4, <1>5, <1>6, <2>3, Accepted DEF Fields
  <2> QED BY <2>2, <2>4 DEF e
<1> QED BY <1>3, <1>7, <1>8 DEF e, s

(* With where each override was read.                                      *)
OverrideInv ==
    /\ \A k \in 1..Len(log) : log[k].type = "override" => log[k].read \in 0..k - 1
    /\ OverridesTakeEffect

LEMMA OverridesNext == GovernedInv /\ OverrideInv /\ [Next]_vars => OverrideInv'
<1> SUFFICES ASSUME GovernedInv, OverrideInv, [Next]_vars PROVE OverrideInv'
  OBVIOUS
<1>1. CASE StaticLog
  BY <1>1 DEF StaticLog, OverrideInv, OverridesTakeEffect, StateAt, BaseState
<1>2. ASSUME NEW e, AppendEvent(e), e.type = "override" => e.read \in 0..Len(log),
             e.type = "override" /\ Apply(Now, e).failed = 0 =>
                 \/ e.gate \in Apply(Now, e).overridden
                 \/ \E j \in e.read + 1..Len(log) : TakesFrom(log[j], e, StateAt(e.read))
      PROVE  OverrideInv'
  <2>1. /\ Len(log') = Len(log) + 1 /\ log'[Len(log) + 1] = e
        /\ \A i \in 1..Len(log) : log'[i] = log[i]
        /\ \A n \in 0..Len(log) : StateAt(n)' = StateAt(n)
        /\ \A n \in Nat : n = Len(log) + 1 => StateAt(n)' = Apply(Now, e)
        /\ Len(log) \in Nat
    BY <1>2, AppendNow
  <2>2. \A k \in 1..Len(log') : log'[k].type = "override" => log'[k].read \in 0..k - 1
    BY <1>2, <2>1 DEF OverrideInv
  <2>3. ASSUME NEW k \in 1..Len(log) + 1, log'[k].type = "override", NEW o, o = log'[k],
               StateAt(k)'.failed = 0, o.gate \notin StateAt(k)'.overridden,
               NEW n \in 0..Len(log), n = o.read
        PROVE  \E j \in n + 1..k - 1 : TakesFrom(log'[j], o, StateAt(n))
    <3>1. CASE k \in 1..Len(log)
      <4>1. log[k] = o /\ StateAt(k)' = StateAt(k)
        BY <2>1, <2>3, <3>1
      <4>2. \E j \in n + 1..k - 1 : TakesFrom(log[j], o, StateAt(n))
        BY <2>3, <3>1, <4>1 DEF OverrideInv, OverridesTakeEffect
      <4> QED BY <2>1, <3>1, <4>2
    <3>2. CASE k = Len(log) + 1
      <4>1. o = e /\ StateAt(k)' = Apply(Now, e) /\ k - 1 = Len(log)
        BY <2>1, <2>3, <3>2
      <4>2. \E j \in n + 1..Len(log) : TakesFrom(log[j], o, StateAt(n))
        BY <1>2, <2>3, <4>1
      <4> QED BY <2>1, <4>1, <4>2
    <3> QED BY <2>1, <3>1, <3>2
  <2>4. ASSUME NEW k \in 1..Len(log'), log'[k].type = "override"
        PROVE  /\ log'[k].read \in 0..Len(log)
               /\ StateAt(log[k].read)' = StateAt(log'[k].read)
    <3>1. log'[k].read \in 0..Len(log)
      BY <2>1, <2>2, <2>4
    <3>2. \A n \in 0..Len(log) : n = log'[k].read => StateAt(log[k].read)' = StateAt(n)'
      OBVIOUS
    <3> QED BY <2>1, <3>1, <3>2
  <2>5. OverridesTakeEffect'
    <3>1. SUFFICES ASSUME NEW k \in 1..Len(log'), log'[k].type = "override",
                          StateAt(k)'.failed = 0, log'[k].gate \notin StateAt(k)'.overridden
                   PROVE  \E j \in log'[k].read + 1..k - 1 :
                              TakesFrom(log'[j], log'[k], StateAt(log[k].read)')
      BY DEF OverridesTakeEffect, TakesFrom, AccountableSet
    <3>2. /\ log'[k].read \in 0..Len(log)
          /\ StateAt(log[k].read)' = StateAt(log'[k].read)
      BY <2>4, <3>1
    <3>3. \E j \in log'[k].read + 1..k - 1 :
              TakesFrom(log'[j], log'[k], StateAt(log'[k].read))
      BY <2>1, <2>3, <3>1, <3>2
    <3> QED BY <3>2, <3>3
  <2> QED BY <2>2, <2>5 DEF OverrideInv
<1>3. ASSUME NEW p \in Procs, AppendEvaluation(p)
      PROVE  AppendEvent(Evaluation(p)) /\ Evaluation(p).type = "evaluated"
  BY <1>3 DEF AppendEvaluation, Evaluation
<1>4. ASSUME NEW p \in Procs, AppendOverride(p), CallInv(p)
      PROVE  OverrideInv'
  <2>1. call[p] # Idle /\ Override(p).read = call[p].base
    BY <1>4 DEF AppendOverride, Idle, Override
  <2>2. Override(p).read \in 0..Len(log)
    BY <1>4, <2>1 DEF CallInv, CallBody
  <2> QED BY <1>2, <1>4, <2>2, OverrideStands DEF AppendOverride
<1> QED BY <1>1, <1>2, <1>3, <1>4, LogChanges

(* An override that was answered takes effect in a replay that comes so    *)
(* far, unless an event between the ledger it was judged on and its append *)
(* named a second Accountable, revoked the Accountable or the actor's      *)
(* role, or disassociated the approving decision (override_gate).          *)
THEOREM OverridesTake == Spec => []OverridesTakeEffect
<1>1. Init => OverrideInv
  <2>1. Init => Len(log) = 0
    BY DEF Init
  <2> QED BY <2>1 DEF OverrideInv, OverridesTakeEffect
<1>2. OverrideInv => OverridesTakeEffect
  BY DEF OverrideInv
<1> QED BY <1>1, <1>2, Governed, OverridesNext, PTL DEF Spec

-----------------------------------------------------------------------------
(* Approved beforehand: what replay knows as approved was shown.           *)
LEMMA ApprovedShown ==
    ASSUME GovernedInv
    PROVE  Now.approved \subseteq shown
<1>1. FromViews(Now, Range(Base) \cup Range(log))
  BY NowReplayed DEF GovernedInv, ShapeInv, Replayed
<1> QED BY <1>1 DEF FromViews, SawApproval, GovernedInv, LogFounded, Founded

(* The history grows by the phase changes that replay accepts.             *)
LEMMA HistoryStep ==
    ASSUME NEW s, IsState(s), NEW E, FromViews(s, E), NEW e \in E, Proper(e)
    PROVE  \/ Apply(s, e).history = s.history
           \/ /\ s.failed = 0 /\ e.type = "phase" /\ ~Raises(s, e)
              /\ Apply(s, e).history = Append(s.history,
                     [seq |-> s.seq + 1, from |-> s.phase, to |-> e.to,
                      approvals |-> e.approvals \cap s.approved,
                      tasks |-> DOMAIN s.tasks, decisions |-> s.decisions])
<1>1. CASE s.failed # 0
  BY <1>1 DEF Apply
<1>2. CASE s.failed = 0 /\ Raises(s, e)
  BY <1>2, Refused DEF Fields
<1>3. CASE s.failed = 0 /\ ~Raises(s, e)
  <2>1. DOMAIN Effect(s, e) = Fields
    BY <1>3, EffectFromViews
  <2>2. Apply(s, e).history = Effect(s, e).history
    BY <1>3, <2>1, Accepted DEF Fields
  <2>3. CASE e.type = "phase"
    BY <1>3, <2>2, <2>3, PhaseEffect
  <2>4. CASE e.type = "evaluated"
    BY <2>2, <2>4, EvaluatedEffect
  <2>5. CASE e.type \notin {"phase", "evaluated"}
    BY <2>2, <2>5, EffectPlain DEF Proper, PlainEffect
  <2> QED BY <2>3, <2>4, <2>5
<1> QED BY <1>1, <1>2, <1>3 DEF IsState

(* A phase change on approvals names a decision that was shown by then.    *)
Beforehand(h, at) ==
    LET rule == Legal[<<h.from, h.to>>] IN
    h.seq > Len(Base) /\ rule.approval /\ "accountable_approval" \notin rule.pre =>
        h.approvals \cap at[h.seq - Len(Base)] # {}

ShownBeforehand == \A i \in 1..Len(Now.history) : Beforehand(Now.history[i], approvedAt)

LEMMA ShownNext == GovernedInv /\ ShownBeforehand /\ [Next]_vars => ShownBeforehand'
<1> SUFFICES ASSUME GovernedInv, ShownBeforehand, [Next]_vars PROVE ShownBeforehand'
  OBVIOUS
<1>0. \A i \in 1..Len(Now.history) : Beforehand(Now.history[i], approvedAt)
  BY DEF ShownBeforehand
<1>1. CASE StaticLog
  <2>1. Now' = Now /\ approvedAt' = approvedAt
    BY <1>1 DEF StaticLog, Now, StateAt, BaseState
  <2> QED BY <2>1 DEF ShownBeforehand, Beforehand
<1>2. ASSUME NEW e, AppendEvent(e), Proper(e) PROVE ShownBeforehand'
  <2>1. /\ Now' = Apply(Now, e) /\ Len(log) \in Nat /\ Len(Base) \in Nat
        /\ Replayed(Now, EventsTo(Len(log)), Len(Base) + Len(log))
        /\ IsState(Now) /\ FromViews(Now, EventsTo(Len(log)) \cup {e})
    BY <1>2, AppendNow
  <2>2. /\ approvedAt'[Len(log) + 1] = (IF e.type = "phase" THEN shown ELSE {})
        /\ \A i \in 1..Len(log) : approvedAt'[i] = approvedAt[i]
    <3>1. approvedAt' = Append(approvedAt, IF e.type = "phase" THEN shown ELSE {})
          /\ approvedAt \in Seq(Range(approvedAt)) /\ Len(approvedAt) = Len(log)
      BY <1>2 DEF AppendEvent, GovernedInv, ShapeInv, LogType, IsSeq
    <3> QED BY <3>1, AppendedOne
  <2>3. ASSUME NEW i \in 1..Len(Now.history) PROVE Beforehand(Now.history[i], approvedAt')
    <3>1. Now.history[i].seq \in 0..Len(Base) + Len(log)
      BY <2>1 DEF Replayed, HistoryFits
    <3>2. Now.history[i].seq > Len(Base) => Now.history[i].seq - Len(Base) \in 1..Len(log)
      BY <2>1, <3>1
    <3> QED BY <1>0, <2>2, <3>2 DEF Beforehand
  <2> SUFFICES \A i \in 1..Len(Now'.history) : Beforehand(Now'.history[i], approvedAt')
    BY DEF ShownBeforehand, Beforehand
  <2>4. CASE Now'.history = Now.history
    BY <2>3, <2>4
  <2> DEFINE h == [seq |-> Now.seq + 1, from |-> Now.phase, to |-> e.to,
                   approvals |-> e.approvals \cap Now.approved,
                   tasks |-> DOMAIN Now.tasks, decisions |-> Now.decisions]
  <2>5. CASE /\ Now.failed = 0 /\ e.type = "phase" /\ ~Raises(Now, e)
             /\ Now'.history = Append(Now.history, h)
    <3>1. h.seq - Len(Base) = Len(log) + 1
      BY <2>1, <2>5 DEF Replayed
    <3>2. TransitionAllowed(Now, e, EffectiveAuthority(Now))
      BY <2>5 DEF Raises
    <3>3. Legal[<<h.from, h.to>>].approval =>
              ApprovalGiven(e, Legal[<<h.from, h.to>>], EffectiveAuthority(Now))
      BY <3>2 DEF TransitionAllowed
    <3>4. Legal[<<h.from, h.to>>].approval =>
              \/ h.approvals # {} /\ h.approvals \subseteq Now.approved
              \/ "accountable_approval" \in Legal[<<h.from, h.to>>].pre
      BY <3>3 DEF ApprovalGiven, EffectiveAuthority
    <3> HIDE DEF h
    <3>5. Beforehand(h, approvedAt')
      BY <2>2, <2>5, <3>1, <3>4, ApprovedShown DEF Beforehand
    <3>6. PICK H : Now.history \in Seq(H)
      BY <2>1 DEF IsState
    <3>7. /\ Len(Now'.history) = Len(Now.history) + 1 /\ Len(Now.history) \in Nat
          /\ Now'.history[Len(Now.history) + 1] = h
          /\ \A i \in 1..Len(Now.history) : Now'.history[i] = Now.history[i]
      BY <2>5, <3>6, AppendedOne
    <3> QED BY <2>3, <3>5, <3>7
  <2> QED BY <1>2, <2>1, <2>4, <2>5, HistoryStep
<1>3. ASSUME NEW p \in Procs, AppendEvaluation(p) PROVE AppendEvent(Evaluation(p))
  BY <1>3 DEF AppendEvaluation
<1>4. ASSUME NEW p \in Procs, AppendOverride(p)
      PROVE  AppendEvent(Override(p)) /\ Proper(Override(p))
  BY <1>4, OverrideProper DEF AppendOverride
<1> QED BY <1>1, <1>2, <1>3, <1>4, LogChanges

LEMMA ShownInit == Init => ShownBeforehand
<1> SUFFICES ASSUME Init PROVE ShownBeforehand
  OBVIOUS
<1>1. GovernedInv /\ Len(log) = 0
  BY GovernedInit DEF Init
<1>2. Replayed(Now, EventsTo(0), Len(Base)) /\ Len(Base) \in Nat
  BY <1>1, NowReplayed, BaseReplayed DEF GovernedInv, ShapeInv
<1> QED BY <1>2 DEF ShownBeforehand, Beforehand, Replayed, HistoryFits

(* What replay takes for approved an evaluation claimed, and the claim     *)
(* stands while the project can be rebuilt.                                *)
LEMMA ApprovedStands ==
    ASSUME GovernedInv, Readable, NEW i \in 1..Len(Now.history),
           NEW d \in Now.history[i].approvals
    PROVE  d \in ApprovedNow
<1> DEFINE E == Range(Base) \cup Range(log)
<1>1. SawApproval(E, d)
  BY NowReplayed DEF GovernedInv, ShapeInv, Replayed, HistoryFits
<1>2. PICK e \in E : /\ e.type = "evaluated" /\ d \in DOMAIN e.decisions
                     /\ e.decisions[d] = "approved"
  BY <1>1 DEF SawApproval
<1>3. d \in Decisions /\ <<d, "approved">> \in answered
  BY <1>2, ClaimsStand
<1>4. \A a \in answered : decision[a[1]] = a[2]
  BY DEF GovernedInv, ShapeInv, StoreInv
<1> QED BY <1>3, <1>4 DEF ApprovedNow

LEMMA ApprovedByInv == GovernedInv /\ ShownBeforehand => ApprovedBeforehand
BY ApprovedStands DEF ShownBeforehand, Beforehand, ApprovedBeforehand

(* No authority found after sequence N authorizes event N                  *)
(* (reduce_events with a historical authority): one of the approving       *)
(* decisions was shown as approved before the transition was appended, and *)
(* is approved in its store while the project can be rebuilt.              *)
THEOREM ApprovedBefore == Spec => []ApprovedBeforehand
<1> QED BY Governed, ShownInit, ShownNext, ApprovedByInv, PTL DEF Spec
================================================================================
