---------------------------- MODULE PoolLocksProofs ----------------------------
(***************************************************************************)
(* Theorems about the locks and about the pool whose workers take them,    *)
(* for any threads, processes, handles, workers and calls.                 *)
(*                                                                         *)
(* Of LockHierarchy: no lock is held twice, and no set of threads waits    *)
(* for itself.  Of BlockingPool: the pool restricts when its workers take  *)
(* locks and adds no other step on them, so that it implements             *)
(* LockHierarchy and what is shown of the locks holds under it.  For the   *)
(* slots, an operation enters Admitted once, from "none", and leaves it    *)
(* once: with Finish, or with the withdrawal of a read that no worker has  *)
(* taken.                                                                  *)
(***************************************************************************)
EXTENDS BlockingPool, FiniteSetTheorems, TLAPS

(* Whoever has entered, or waits for the file only, owns the RLock; and    *)
(* nobody else does.                                                       *)
MutexOwned == \A t \in Threads : \A h \in Handles :
    mutex[h] = t <=> Holds(t, h) \/ (want[t].h = h /\ want[t].step = "file")

(* The lock file of every block is locked by the thread inside it.         *)
FlockOwned == \A t \in Threads : \A i \in 1..Len(held[t]) :
    flock[held[t][i].file] = t

FlockUsed == \A t \in Threads : \A f \in Files :
    flock[f] = t => \E i \in 1..Len(held[t]) : held[t][i].file = f

(* A thread is inside one file through one handle only.                    *)
OneHandle == \A t \in Threads : \A i, j \in 1..Len(held[t]) :
    held[t][i].file = held[t][j].file => held[t][i] = held[t][j]

(* A thread wants a higher level than all it holds, or what it holds.      *)
Ascends == \A t \in Threads : \A i \in 1..Len(held[t]) :
    want[t] # NoWant =>
        \/ held[t][i].level < want[t].h.level
        \/ /\ want[t].step = "mutex" /\ want[t].h = held[t][i]
           /\ want[t].h.level # 1

IInv == TypeOK /\ MutexOwned /\ FlockOwned /\ FlockUsed /\ OneHandle /\ Ascends

-----------------------------------------------------------------------------
LEMMA WithoutLast ==
    ASSUME NEW q \in Seq(Handles), q # <<>>
    PROVE  /\ Without(q) \in Seq(Handles)
           /\ Len(q) \in Nat \ {0}
           /\ Len(Without(q)) = Len(q) - 1
           /\ \A i \in 1..(Len(q) - 1) : Without(q)[i] = q[i]
           /\ q[Len(q)] \in Handles
<1>1. Len(q) \in Nat \ {0}
  OBVIOUS
<1>2. Without(q) = [i \in 1..(Len(q) - 1) |-> q[i]]
  BY <1>1 DEF Without
<1>3. \A i \in 1..Len(q) : q[i] \in Handles
  OBVIOUS
<1>4. QED
  BY <1>1, <1>2, <1>3

LEMMA WithLast ==
    ASSUME NEW q \in Seq(Handles), NEW h \in Handles
    PROVE  /\ Append(q, h) \in Seq(Handles)
           /\ Len(q) \in Nat
           /\ Len(Append(q, h)) = Len(q) + 1
           /\ \A i \in 1..Len(q) : Append(q, h)[i] = q[i]
           /\ Append(q, h)[Len(q) + 1] = h
OBVIOUS

LEMMA WithLastAgain ==
    ASSUME NEW q \in Seq(Handles), NEW k \in 1..Len(q), NEW r, r = Append(q, q[k])
    PROVE  /\ \A i \in 1..Len(r) : \E j \in 1..Len(q) : r[i] = q[j]
           /\ \A i \in 1..Len(q) : i \in 1..Len(r) /\ r[i] = q[i]
<1>1. q[k] \in Handles /\ Len(q) \in Nat
  OBVIOUS
<1>2. \A i \in 1..(Len(q) + 1) : i \in 1..Len(q) \/ i = Len(q) + 1
  BY <1>1
<1>3. QED
  BY <1>1, <1>2, WithLast

LEMMA Wanting ==
    ASSUME TypeOK, NEW t \in Threads
    PROVE  /\ want[t] = NoWant <=> want[t].step = "none"
           /\ want[t] # NoWant =>
                /\ want[t].h \in Handles /\ want[t].h.file \in Files
                /\ want[t].step \in {"mutex", "file"}
                /\ want[t] = [h |-> want[t].h, step |-> want[t].step]
BY DEF TypeOK, NoWant, Files

LEMMA InitIInv == Init => IInv
BY NobodyAssumption DEF Init, IInv, TypeOK, MutexOwned, FlockOwned, FlockUsed,
   OneHandle, Ascends, Holds, NoWant, Files

LEMMA AskKeeps ==
    ASSUME IInv, NEW t \in Threads, NEW h \in Handles, Ask(t, h)
    PROVE  IInv'
<1>1. TypeOK'
  BY DEF Ask, AskTracker, Wants, IInv, TypeOK
<1>2. \A u \in Threads : want'[u] = IF u = t THEN [h |-> h, step |-> "mutex"] ELSE want[u]
  BY DEF Ask, AskTracker, Wants, IInv, TypeOK
<1>3. held' = held /\ mutex' = mutex /\ flock' = flock /\ want[t] = NoWant
  BY DEF Ask, AskTracker
<1>4. MutexOwned'
  BY <1>2, <1>3 DEF IInv, MutexOwned, Holds, NoWant
<1>5. FlockOwned' /\ FlockUsed' /\ OneHandle'
  BY <1>3 DEF IInv, FlockOwned, FlockUsed, OneHandle
<1>6. Ascends'
  <2>1. \A i \in 1..Len(held[t]) : held[t][i] \in Handles
    BY DEF IInv, TypeOK
  <2>2. \A i \in 1..Len(held[t]) :
            held[t][i].level < h.level \/ (held[t][i] = h /\ h.level # 1)
    <3> SUFFICES ASSUME NEW i \in 1..Len(held[t]), ~(held[t][i].level < h.level)
                 PROVE  held[t][i] = h /\ h.level # 1
      OBVIOUS
    <3>1. held[t][i].level = h.level
      BY <2>1, LevelAssumption DEF Ask, AskTracker, Permitted
    <3>2. held[t][i].project = h.project
      BY <3>1, <2>1, ProjectAssumption DEF Ask, AskTracker, Permitted
    <3>3. QED
      BY <3>1, <3>2 DEF Ask, AskTracker, Disciplined
  <2>3. QED
    BY <1>2, <1>3, <2>2 DEF IInv, Ascends
<1>7. QED
  BY <1>1, <1>4, <1>5, <1>6 DEF IInv

LEMMA TakeMutexKeeps ==
    ASSUME IInv, NEW t \in Threads, TakeMutex(t)
    PROVE  IInv'
<1>0. want[t] # NoWant /\ want[t].h \in Handles /\ want[t].step = "mutex"
  BY Wanting DEF TakeMutex, IInv
<1> PICK h \in Handles : h = want[t].h
  BY <1>0
<1>1. /\ want[t] # NoWant /\ h = want[t].h /\ want[t].step = "mutex"
      /\ mutex[h] \in {Nobody, t} /\ flock' = flock
      /\ \A g \in Handles : mutex'[g] = IF g = h THEN t ELSE mutex[g]
      /\ mutex' \in [Handles -> Threads \cup {Nobody}]
  BY <1>0 DEF TakeMutex, IInv, TypeOK
<1>2. \A u \in Threads : u # t => mutex[h] # u
  BY <1>1, NobodyAssumption
<1>3. CASE Reenters(t, h)
  <2>1. /\ held' = [held EXCEPT ![t] = Append(held[t], h)]
        /\ want' = [want EXCEPT ![t] = NoWant]
    BY <1>1, <1>3 DEF TakeMutex, Enter, WantsNothing
  <2>2. TypeOK'
    BY <1>1, <2>1 DEF IInv, TypeOK
  <2>3. /\ held[t] \in Seq(Handles)
        /\ \A u \in Threads : held'[u] = IF u = t THEN Append(held[t], h) ELSE held[u]
        /\ \A u \in Threads : want'[u] = IF u = t THEN NoWant ELSE want[u]
    BY <2>1 DEF IInv, TypeOK
  <2>4. PICK k \in 1..Len(held[t]) : held[t][k] = h
    BY <1>3 DEF Reenters, Holds
  <2>. held'[t] = Append(held[t], held[t][k])
    BY <2>3, <2>4
  <2>5. \A u \in Threads : \A i \in 1..Len(held'[u]) :
            \E j \in 1..Len(held[u]) : held'[u][i] = held[u][j]
    <3>1. \A i \in 1..Len(held'[t]) : \E j \in 1..Len(held[t]) : held'[t][i] = held[t][j]
      BY <2>3, <2>4, WithLastAgain
    <3>2. QED
      BY <3>1, <2>3
  <2>6. \A u \in Threads : \A i \in 1..Len(held[u]) :
            i \in 1..Len(held'[u]) /\ held'[u][i] = held[u][i]
    <3>1. \A i \in 1..Len(held[t]) : i \in 1..Len(held'[t]) /\ held'[t][i] = held[t][i]
      BY <2>3, <2>4, WithLastAgain
    <3>2. QED
      BY <3>1, <2>3
  <2>7. \A u \in Threads : \A g \in Handles : Holds(u, g)' <=> Holds(u, g)
    <3> SUFFICES ASSUME NEW u \in Threads, NEW g \in Handles
                 PROVE  Holds(u, g)' <=> Holds(u, g)
      OBVIOUS
    <3>1. ASSUME NEW i \in 1..Len(held'[u]), held'[u][i] = g PROVE Holds(u, g)
      BY <3>1, <2>5 DEF Holds
    <3>2. ASSUME NEW i \in 1..Len(held[u]), held[u][i] = g PROVE Holds(u, g)'
      BY <3>2, <2>6 DEF Holds
    <3>3. QED
      BY <3>1, <3>2 DEF Holds
  <2>8. MutexOwned'
    <3>1. \A u \in Threads, g \in Handles :
             mutex'[g] = u <=> Holds(u, g) \/ (want[u].h = g /\ want[u].step = "file")
      BY <1>1, <1>2, <1>3 DEF IInv, MutexOwned, Reenters
    <3>2. \A u \in Threads, g \in Handles :
             (want'[u].h = g /\ want'[u].step = "file")
                <=> (want[u].h = g /\ want[u].step = "file")
      BY <1>1, <2>3 DEF NoWant
    <3>3. QED
      BY <3>1, <3>2, <2>7 DEF MutexOwned
  <2>9. FlockOwned' /\ FlockUsed' /\ OneHandle'
    <3>1. FlockOwned'
      <4> SUFFICES ASSUME NEW u \in Threads, NEW i \in 1..Len(held'[u])
                   PROVE  flock'[held'[u][i].file] = u
        BY DEF FlockOwned
      <4>1. PICK j \in 1..Len(held[u]) : held'[u][i] = held[u][j]
        BY <2>5
      <4>2. QED
        BY <4>1, <1>1 DEF IInv, FlockOwned
    <3>2. FlockUsed'
      BY <1>1, <2>6 DEF IInv, FlockUsed
    <3>3. OneHandle'
      <4> SUFFICES ASSUME NEW u \in Threads,
                          NEW i \in 1..Len(held'[u]), NEW j \in 1..Len(held'[u]),
                          held'[u][i].file = held'[u][j].file
                   PROVE  held'[u][i] = held'[u][j]
        BY DEF OneHandle
      <4>1. PICK k1 \in 1..Len(held[u]) : held'[u][i] = held[u][k1]
        BY <2>5
      <4>2. PICK k2 \in 1..Len(held[u]) : held'[u][j] = held[u][k2]
        BY <2>5
      <4>3. QED
        BY <4>1, <4>2 DEF IInv, OneHandle
    <3>4. QED
      BY <3>1, <3>2, <3>3
  <2>10. Ascends'
    BY <2>3 DEF IInv, Ascends
  <2>11. QED
    BY <2>2, <2>8, <2>9, <2>10 DEF IInv
<1>4. CASE ~Reenters(t, h)
  <2>1. /\ held' = held
        /\ want' = [want EXCEPT ![t] = [h |-> h, step |-> "file"]]
    BY <1>1, <1>4 DEF TakeMutex, Wants
  <2>2. TypeOK'
    BY <1>1, <2>1 DEF IInv, TypeOK
  <2>3. \A u \in Threads : want'[u] = IF u = t THEN [h |-> h, step |-> "file"] ELSE want[u]
    BY <2>1 DEF IInv, TypeOK
  <2>4. MutexOwned'
    <3>1. \A u \in Threads, g \in Handles : g # h =>
             (mutex'[g] = u <=> Holds(u, g)' \/ (want'[u].h = g /\ want'[u].step = "file"))
      BY <1>1, <2>1, <2>3 DEF IInv, MutexOwned, Holds
    <3>2. \A u \in Threads :
             mutex'[h] = u <=> Holds(u, h)' \/ (want'[u].h = h /\ want'[u].step = "file")
      BY <1>1, <1>2, <2>1, <2>3 DEF IInv, MutexOwned, Holds
    <3>3. QED
      BY <3>1, <3>2 DEF MutexOwned
  <2>5. FlockOwned' /\ FlockUsed' /\ OneHandle'
    BY <1>1, <2>1 DEF IInv, FlockOwned, FlockUsed, OneHandle
  <2>6. Ascends'
    <3>1. \A i \in 1..Len(held[t]) : held[t][i].level < h.level
      BY <1>1, <1>4 DEF IInv, Ascends, Reenters, Holds
    <3>2. QED
      BY <3>1, <2>1, <2>3 DEF IInv, Ascends
  <2>7. QED
    BY <2>2, <2>4, <2>5, <2>6 DEF IInv
<1>5. QED
  BY <1>3, <1>4

LEMMA TakeFlockKeeps ==
    ASSUME IInv, NEW t \in Threads, TakeFlock(t)
    PROVE  IInv'
<1>0. want[t] # NoWant /\ want[t].h \in Handles /\ want[t].step = "file"
  BY Wanting DEF TakeFlock, IInv
<1> PICK h \in Handles : h = want[t].h
  BY <1>0
<1>1. /\ want[t] # NoWant /\ h = want[t].h /\ want[t].step = "file"
      /\ h.file \in Files /\ flock[h.file] = Nobody /\ mutex' = mutex
      /\ held' = [held EXCEPT ![t] = Append(held[t], h)]
      /\ want' = [want EXCEPT ![t] = NoWant]
      /\ \A f \in Files : flock'[f] = IF f = h.file THEN t ELSE flock[f]
      /\ flock' \in [Files -> Threads \cup {Nobody}]
  BY <1>0 DEF TakeFlock, Enter, WantsNothing, IInv, TypeOK, Files
<1>2. TypeOK'
  BY <1>1 DEF IInv, TypeOK
<1>3. /\ held[t] \in Seq(Handles) /\ Len(held[t]) \in Nat
      /\ \A u \in Threads : u # t => held'[u] = held[u] /\ want'[u] = want[u]
      /\ want'[t] = NoWant
      /\ \A u \in Threads : \A i \in 1..Len(held[u]) : held[u][i] \in Handles
  BY <1>1 DEF IInv, TypeOK
<1>4. /\ Len(held'[t]) = Len(held[t]) + 1
      /\ \A i \in 1..Len(held[t]) : held'[t][i] = held[t][i]
      /\ held'[t][Len(held[t]) + 1] = h
  <2>1. held'[t] = Append(held[t], h)
    BY <1>1 DEF IInv, TypeOK
  <2>2. QED
    BY <2>1, <1>3, WithLast
<1>5. \A i \in 1..Len(held'[t]) :
          (i \in 1..Len(held[t]) /\ held'[t][i] = held[t][i]) \/ held'[t][i] = h
  BY <1>3, <1>4
(* No block was on this file before.                                       *)
<1>6. \A u \in Threads : \A i \in 1..Len(held[u]) :
          held[u][i].file # h.file /\ held[u][i].file \in Files
  BY <1>1, <1>3, NobodyAssumption DEF IInv, FlockOwned, Files
<1>7. \A u \in Threads, g \in Handles :
          Holds(u, g)' <=> Holds(u, g) \/ (u = t /\ g = h)
  <2>1. ASSUME NEW g \in Handles PROVE Holds(t, g)' <=> Holds(t, g) \/ g = h
    <3>1. Holds(t, g)' => Holds(t, g) \/ g = h
      BY <1>5 DEF Holds
    <3>2. Holds(t, g) => Holds(t, g)'
      BY <1>3, <1>4 DEF Holds
    <3>3. Holds(t, h)'
      BY <1>3, <1>4 DEF Holds
    <3>4. QED
      BY <3>1, <3>2, <3>3
  <2>2. ASSUME NEW g \in Handles, NEW u \in Threads, u # t
        PROVE  Holds(u, g)' <=> Holds(u, g)
    BY <2>2, <1>3 DEF Holds
  <2>3. QED
    BY <2>1, <2>2
<1>8. MutexOwned'
  <2>1. \A u \in Threads, g \in Handles :
            (want'[u].h = g /\ want'[u].step = "file")
                <=> (want[u].h = g /\ want[u].step = "file" /\ u # t)
    BY <1>3 DEF NoWant
  <2>2. QED
    BY <2>1, <1>1, <1>7 DEF IInv, MutexOwned
<1>9. FlockOwned'
  <2>1. ASSUME NEW i \in 1..Len(held'[t]) PROVE flock'[held'[t][i].file] = t
    BY <1>1, <1>5, <1>6 DEF IInv, FlockOwned
  <2>2. ASSUME NEW u \in Threads, u # t, NEW i \in 1..Len(held'[u])
        PROVE  flock'[held'[u][i].file] = u
    BY <2>2, <1>1, <1>3, <1>6 DEF IInv, FlockOwned
  <2>3. QED
    BY <2>1, <2>2 DEF FlockOwned
<1>10. FlockUsed'
  <2> SUFFICES ASSUME NEW u \in Threads, NEW f \in Files, flock'[f] = u
               PROVE  \E i \in 1..Len(held'[u]) : held'[u][i].file = f
    BY DEF FlockUsed
  <2>1. CASE f = h.file
    BY <2>1, <1>1, <1>3, <1>4
  <2>2. CASE f # h.file
    <3>1. PICK i \in 1..Len(held[u]) : held[u][i].file = f
      BY <2>2, <1>1 DEF IInv, FlockUsed
    <3>2. i \in 1..Len(held'[u]) /\ held'[u][i] = held[u][i]
      BY <1>3, <1>4
    <3>3. QED
      BY <3>1, <3>2
  <2>3. QED
    BY <2>1, <2>2
<1>11. OneHandle'
  <2>1. ASSUME NEW i \in 1..Len(held'[t]), NEW j \in 1..Len(held'[t]),
               held'[t][i].file = held'[t][j].file
        PROVE  held'[t][i] = held'[t][j]
    BY <2>1, <1>5, <1>6 DEF IInv, OneHandle
  <2>2. QED
    BY <2>1, <1>3 DEF IInv, OneHandle
<1>12. Ascends'
  BY <1>3 DEF IInv, Ascends
<1>13. QED
  BY <1>2, <1>8, <1>9, <1>10, <1>11, <1>12 DEF IInv

LEMMA ReleaseKeeps ==
    ASSUME IInv, NEW t \in Threads, Release(t)
    PROVE  IInv'
<1>0. held[t] \in Seq(Handles) /\ held[t] # <<>>
  BY DEF Release, IInv, TypeOK
<1> PICK h \in Handles : h = held[t][Len(held[t])]
  BY <1>0, WithoutLast
<1>1. /\ Len(held[t]) \in Nat \ {0} /\ h.file \in Files
      /\ want' = want /\ want[t] = NoWant
      /\ held' = [held EXCEPT ![t] = Without(held[t])]
      /\ \A f \in Files : flock'[f] =
            IF f = h.file /\ ~Outer(t) THEN Nobody ELSE flock[f]
      /\ \A g \in Handles : mutex'[g] =
            IF g = h /\ ~Outer(t) THEN Nobody ELSE mutex[g]
      /\ flock' \in [Files -> Threads \cup {Nobody}]
      /\ mutex' \in [Handles -> Threads \cup {Nobody}]
  BY <1>0, WithoutLast DEF Release, IInv, TypeOK, Files
<1>2. /\ Len(held'[t]) = Len(held[t]) - 1
      /\ \A i \in 1..Len(held'[t]) : i \in 1..Len(held[t]) /\ held'[t][i] = held[t][i]
      /\ \A u \in Threads : u # t => held'[u] = held[u]
  <2>1. /\ held'[t] = Without(held[t])
        /\ \A u \in Threads : u # t => held'[u] = held[u]
    BY <1>1 DEF IInv, TypeOK
  <2>2. /\ Len(held'[t]) = Len(held[t]) - 1
        /\ \A i \in 1..(Len(held[t]) - 1) : held'[t][i] = held[t][i]
    BY <2>1, <1>0, WithoutLast
  <2>3. QED
    BY <2>1, <2>2, <1>1
<1>3. TypeOK'
  BY <1>0, <1>1, WithoutLast DEF IInv, TypeOK
<1>4. \A u \in Threads : \A i \in 1..Len(held'[u]) :
          i \in 1..Len(held[u]) /\ held'[u][i] = held[u][i]
  BY <1>2
<1>5. \A u \in Threads : \A i \in 1..Len(held[u]) :
          held[u][i] \in Handles /\ held[u][i].file \in Files
  BY DEF IInv, TypeOK, Files
<1>6. Outer(t) <=> Holds(t, h)'
  BY <1>1, <1>2 DEF Outer, Holds
<1>7. \A u \in Threads, g \in Handles : (u # t \/ g # h) =>
          (Holds(u, g)' <=> Holds(u, g))
  <2>1. ASSUME NEW g \in Handles, g # h PROVE Holds(t, g) => Holds(t, g)'
    <3> SUFFICES ASSUME NEW i \in 1..Len(held[t]), held[t][i] = g
                 PROVE  Holds(t, g)'
      BY DEF Holds
    <3>1. i # Len(held[t])
      BY <2>1
    <3>2. QED
      BY <3>1, <1>1, <1>2 DEF Holds
  <2>2. ASSUME NEW g \in Handles PROVE Holds(t, g)' => Holds(t, g)
    BY <1>4 DEF Holds
  <2>3. ASSUME NEW u \in Threads, u # t, NEW g \in Handles
        PROVE  Holds(u, g)' <=> Holds(u, g)
    BY <2>3, <1>2 DEF Holds
  <2>4. QED
    BY <2>1, <2>2, <2>3
<1>8. mutex[h] = t /\ flock[h.file] = t /\ Holds(t, h)
  BY <1>0, <1>1 DEF IInv, MutexOwned, FlockOwned, Holds
<1>9. MutexOwned'
  <2>1. ASSUME NEW u \in Threads, NEW g \in Handles, g # h
        PROVE  mutex'[g] = u <=> Holds(u, g)' \/ (want'[u].h = g /\ want'[u].step = "file")
    BY <2>1, <1>1, <1>7 DEF IInv, MutexOwned
  <2>2. ASSUME NEW u \in Threads, u # t
        PROVE  mutex'[h] = u <=> Holds(u, h)' \/ (want'[u].h = h /\ want'[u].step = "file")
    BY <2>2, <1>1, <1>7, <1>8, NobodyAssumption DEF IInv, MutexOwned
  <2>3. mutex'[h] = t <=> Holds(t, h)' \/ (want'[t].h = h /\ want'[t].step = "file")
    BY <1>1, <1>6, <1>8, NobodyAssumption DEF NoWant
  <2>4. QED
    BY <2>1, <2>2, <2>3 DEF MutexOwned
<1>10. FlockOwned'
  <2> SUFFICES ASSUME NEW u \in Threads, NEW i \in 1..Len(held'[u])
               PROVE  flock'[held'[u][i].file] = u
    BY DEF FlockOwned
  <2>1. /\ i \in 1..Len(held[u]) /\ held'[u][i] = held[u][i]
        /\ held[u][i].file \in Files /\ flock[held[u][i].file] = u
    BY <1>4, <1>5 DEF IInv, FlockOwned
  <2>2. CASE held[u][i].file # h.file
    BY <2>1, <2>2, <1>1
  <2>3. CASE held[u][i].file = h.file
    <3>1. u = t
      BY <2>1, <2>3, <1>8
    <3>2. held[u][i] = h
      BY <2>1, <2>3, <3>1, <1>1 DEF IInv, OneHandle
    <3>3. Outer(t)
      BY <2>1, <3>1, <3>2, <1>1, <1>2 DEF Outer
    <3>4. QED
      BY <2>1, <3>3, <1>1
  <2>4. QED
    BY <2>2, <2>3
<1>11. FlockUsed'
  <2> SUFFICES ASSUME NEW u \in Threads, NEW f \in Files, flock'[f] = u
               PROVE  \E i \in 1..Len(held'[u]) : held'[u][i].file = f
    BY DEF FlockUsed
  <2>1. flock[f] = u
    BY <1>1, NobodyAssumption
  <2>2. CASE f = h.file
    <3>1. u = t /\ Outer(t)
      BY <2>1, <2>2, <1>1, <1>8, NobodyAssumption
    <3>2. QED
      BY <3>1, <2>2, <1>6 DEF Holds
  <2>3. CASE f # h.file
    <3>1. PICK i \in 1..Len(held[u]) : held[u][i].file = f
      BY <2>1 DEF IInv, FlockUsed
    <3>2. u = t => i # Len(held[t])
      BY <3>1, <2>3
    <3>3. i \in 1..Len(held'[u]) /\ held'[u][i] = held[u][i]
      BY <3>2, <1>1, <1>2
    <3>4. QED
      BY <3>1, <3>3
  <2>4. QED
    BY <2>2, <2>3
<1>12. OneHandle'
  <2> SUFFICES ASSUME NEW u \in Threads,
                      NEW i \in 1..Len(held'[u]), NEW j \in 1..Len(held'[u]),
                      held'[u][i].file = held'[u][j].file
               PROVE  held'[u][i] = held'[u][j]
    BY DEF OneHandle
  <2>1. QED
    BY <1>4 DEF IInv, OneHandle
<1>13. Ascends'
  <2> SUFFICES ASSUME NEW u \in Threads, NEW i \in 1..Len(held'[u]), want'[u] # NoWant
               PROVE  \/ held'[u][i].level < want'[u].h.level
                      \/ /\ want'[u].step = "mutex" /\ want'[u].h = held'[u][i]
                         /\ want'[u].h.level # 1
    BY DEF Ascends
  <2>1. QED
    BY <1>1, <1>4 DEF IInv, Ascends
<1>14. QED
  BY <1>3, <1>9, <1>10, <1>11, <1>12, <1>13 DEF IInv

LEMMA TimeoutKeeps ==
    ASSUME IInv, NEW t \in Threads, Timeout(t)
    PROVE  IInv'
<1>0. want[t] # NoWant /\ want[t].h \in Handles /\ want[t].step \in {"mutex", "file"}
  BY Wanting DEF Timeout, IInv
<1> PICK h \in Handles : h = want[t].h
  BY <1>0
<1>1. /\ h.level = 3 /\ ~Reenters(t, h)
      /\ held' = held /\ flock' = flock
      /\ want' = [want EXCEPT ![t] = NoWant]
      /\ \A g \in Handles : mutex'[g] =
            IF g = h /\ want[t].step = "file" THEN Nobody ELSE mutex[g]
      /\ mutex' \in [Handles -> Threads \cup {Nobody}]
  BY <1>0 DEF Timeout, WantsNothing, IInv, TypeOK
<1>2. TypeOK'
  BY <1>1 DEF IInv, TypeOK
<1>3. \A u \in Threads : want'[u] = IF u = t THEN NoWant ELSE want[u]
  BY <1>1 DEF IInv, TypeOK
<1>4. ~Holds(t, h)
  BY <1>1 DEF Reenters
<1>5. MutexOwned'
  <2>1. \A u \in Threads, g \in Handles :
            (want'[u].h = g /\ want'[u].step = "file")
                <=> (u # t /\ want[u].h = g /\ want[u].step = "file")
    BY <1>3 DEF NoWant
  <2>2. \A u \in Threads, g \in Handles : Holds(u, g)' <=> Holds(u, g)
    BY <1>1 DEF Holds
  <2>3. want[t].step = "file" => mutex[h] = t
    BY DEF IInv, MutexOwned
  <2>4. ASSUME NEW u \in Threads, NEW g \in Handles
        PROVE  mutex'[g] = u <=> Holds(u, g) \/ (u # t /\ want[u].h = g /\ want[u].step = "file")
    <3>1. CASE g = h /\ want[t].step = "file"
      BY <3>1, <2>3, <1>1, <1>4, NobodyAssumption DEF IInv, MutexOwned
    <3>2. CASE g # h \/ want[t].step # "file"
      BY <3>2, <1>1 DEF IInv, MutexOwned
    <3>3. QED
      BY <3>1, <3>2
  <2>5. QED
    BY <2>1, <2>2, <2>4 DEF MutexOwned
<1>6. FlockOwned' /\ FlockUsed' /\ OneHandle'
  BY <1>1 DEF IInv, FlockOwned, FlockUsed, OneHandle
<1>7. Ascends'
  BY <1>1, <1>3 DEF IInv, Ascends
<1>8. QED
  BY <1>2, <1>5, <1>6, <1>7 DEF IInv

LEMMA KillKeeps ==
    ASSUME IInv, NEW p \in Processes, Kill(p)
    PROVE  IInv'
<1> DEFINE gone == {t \in Threads : ProcessOf[t] = p}
<1>1. /\ held' = [t \in Threads |-> IF t \in gone THEN <<>> ELSE held[t]]
      /\ want' = [t \in Threads |-> IF t \in gone THEN NoWant ELSE want[t]]
      /\ mutex' = [h \in Handles |-> IF mutex[h] \in gone THEN Nobody ELSE mutex[h]]
      /\ flock' = [f \in Files |-> IF flock[f] \in gone THEN Nobody ELSE flock[f]]
      /\ gone \subseteq Threads
  BY DEF Kill
<1> HIDE DEF gone
<1>2. TypeOK'
  BY <1>1 DEF IInv, TypeOK
<1>3. \A t \in Threads :
          /\ t \in gone => held'[t] = <<>> /\ want'[t] = NoWant
          /\ t \notin gone => held'[t] = held[t] /\ want'[t] = want[t]
  BY <1>1
<1>4. \A t \in gone : Len(held'[t]) = 0
  BY <1>1, <1>3
<1>5. \A t \in Threads, h \in Handles :
          Holds(t, h)' <=> t \notin gone /\ Holds(t, h)
  <2>1. ASSUME NEW t \in gone, NEW h \in Handles PROVE ~Holds(t, h)'
    BY <1>4 DEF Holds
  <2>2. ASSUME NEW t \in Threads, t \notin gone, NEW h \in Handles
        PROVE  Holds(t, h)' <=> Holds(t, h)
    BY <2>2, <1>3 DEF Holds
  <2>3. QED
    BY <2>1, <2>2
<1>6. MutexOwned'
  <2>1. \A t \in Threads, h \in Handles : mutex'[h] = t <=> t \notin gone /\ mutex[h] = t
    BY <1>1, NobodyAssumption DEF IInv, TypeOK
  <2>2. \A t \in Threads, h \in Handles :
            (want'[t].h = h /\ want'[t].step = "file")
                <=> (t \notin gone /\ want[t].h = h /\ want[t].step = "file")
    BY <1>3 DEF NoWant
  <2>3. QED
    BY <2>1, <2>2, <1>5 DEF IInv, MutexOwned
<1>7. FlockOwned'
  <2> SUFFICES ASSUME NEW t \in Threads, NEW i \in 1..Len(held'[t])
               PROVE  flock'[held'[t][i].file] = t
    BY DEF FlockOwned
  <2>1. t \notin gone
    BY <1>4
  <2>2. held'[t] = held[t] /\ held[t][i] \in Handles /\ flock[held[t][i].file] = t
    BY <2>1, <1>3 DEF IInv, FlockOwned, TypeOK
  <2>3. QED
    BY <2>1, <2>2, <1>1 DEF Files
<1>8. FlockUsed'
  <2> SUFFICES ASSUME NEW t \in Threads, NEW f \in Files, flock'[f] = t
               PROVE  \E i \in 1..Len(held'[t]) : held'[t][i].file = f
    BY DEF FlockUsed
  <2>1. t \notin gone /\ flock[f] = t
    BY <1>1, NobodyAssumption
  <2>2. QED
    BY <2>1, <1>3 DEF IInv, FlockUsed
<1>9. OneHandle'
  <2> SUFFICES ASSUME NEW t \in Threads,
                      NEW i \in 1..Len(held'[t]), NEW j \in 1..Len(held'[t]),
                      held'[t][i].file = held'[t][j].file
               PROVE  held'[t][i] = held'[t][j]
    BY DEF OneHandle
  <2>1. t \notin gone
    BY <1>4
  <2>2. QED
    BY <2>1, <1>3 DEF IInv, OneHandle
<1>10. Ascends'
  BY <1>3 DEF IInv, Ascends
<1>11. QED
  BY <1>2, <1>6, <1>7, <1>8, <1>9, <1>10 DEF IInv

THEOREM Invariance == Spec => []IInv
<1>1. IInv /\ [Next]_vars => IInv'
  <2> SUFFICES ASSUME IInv, [Next]_vars PROVE IInv'
    OBVIOUS
  <2>1. ASSUME NEW t \in Threads, NEW h \in Handles, Ask(t, h) PROVE IInv'
    BY <2>1, AskKeeps
  <2>2. ASSUME NEW t \in Threads, Step(t) PROVE IInv'
    BY <2>2, TakeMutexKeeps, TakeFlockKeeps, TimeoutKeeps DEF Step
  <2>3. ASSUME NEW t \in Threads, Release(t) PROVE IInv'
    BY <2>3, ReleaseKeeps
  <2>4. ASSUME NEW p \in Processes, Kill(p) PROVE IInv'
    BY <2>4, KillKeeps
  <2>5. CASE UNCHANGED vars
    BY <2>5 DEF vars, IInv, TypeOK, MutexOwned, FlockOwned, FlockUsed, OneHandle,
       Ascends, Holds
  <2>6. QED
    BY <2>1, <2>2, <2>3, <2>4, <2>5 DEF Next
<1>2. QED
  BY <1>1, InitIInv, PTL DEF Spec

-----------------------------------------------------------------------------
(* Every reachable state is well typed.                                    *)
THEOREM TypeCorrect == Spec => []TypeOK
BY Invariance, PTL DEF IInv

(* vault_mutation, TaskStore.lock and project_lock: two threads are never  *)
(* inside the same lock of a vault.                                        *)
THEOREM LocksExclude == Spec => []Exclusive
<1>1. IInv => Exclusive
  BY DEF IInv, FlockOwned, Exclusive
<1>2. QED
  BY <1>1, Invariance, PTL

(* A thread that is waited for, and itself waits, waits for more: a higher *)
(* level, or the file of the same lock.                                    *)
Height(t) == 2 * want[t].h.level + (IF want[t].step = "file" THEN 1 ELSE 0)

LEMMA WaitsClimb ==
    ASSUME IInv, NEW t \in Threads, NEW u \in Threads, NEW v \in Threads,
           Waits(t, u), Waits(u, v)
    PROVE  /\ Height(t) \in 2..7 /\ Height(u) \in 2..7
           /\ Height(t) < Height(u)
<1>1. /\ want[t] # NoWant /\ want[t].h \in Handles /\ want[t].step \in {"mutex", "file"}
      /\ want[u] # NoWant /\ want[u].h \in Handles /\ want[u].step \in {"mutex", "file"}
  BY Wanting DEF Waits, IInv
<1>2. want[t].h.level \in 1..3 /\ want[u].h.level \in 1..3
  BY <1>1, LevelAssumption
<1>3. \A i \in 1..Len(held[u]) : held[u][i].level < want[u].h.level
  <2> SUFFICES ASSUME NEW i \in 1..Len(held[u]),
                      want[u].step = "mutex", want[u].h = held[u][i]
               PROVE  FALSE
    BY <1>1 DEF IInv, Ascends
  <2>1. mutex[want[u].h] = u
    BY <1>1 DEF IInv, MutexOwned, Holds
  <2>2. QED
    BY <2>1 DEF Waits
<1>4. CASE want[t].step = "mutex"
  <2>1. mutex[want[t].h] = u
    BY <1>4 DEF Waits
  <2>2. Holds(u, want[t].h) \/ (want[u].h = want[t].h /\ want[u].step = "file")
    BY <2>1, <1>1 DEF IInv, MutexOwned
  <2>3. want[t].h.level < want[u].h.level \/ (want[u].h = want[t].h /\ want[u].step = "file")
    BY <2>2, <1>3 DEF Holds
  <2>4. QED
    BY <2>3, <1>1, <1>2, <1>4 DEF Height
<1>5. CASE want[t].step = "file"
  <2>1. flock[want[t].h.file] = u /\ want[t].h.file \in Files
    BY <1>1, <1>5 DEF Waits, Files
  <2>2. PICK i \in 1..Len(held[u]) : held[u][i].file = want[t].h.file
    BY <2>1 DEF IInv, FlockUsed
  <2>3. held[u][i] \in Handles
    BY DEF IInv, TypeOK
  <2>4. held[u][i].level = want[t].h.level
    BY <2>2, <2>3, <1>1, FileAssumption
  <2>5. want[t].h.level < want[u].h.level
    BY <2>4, <1>3
  <2>6. QED
    BY <2>5, <1>1, <1>2, <1>5 DEF Height
<1>6. QED
  BY <1>1, <1>4, <1>5

(* push_level lets no set of threads, of one process or of several, wait   *)
(* for each other, as long as no thread opens a second vault_mutation or a *)
(* second TaskStore object inside the first (Disciplined): the tracker     *)
(* permits that, and such a thread waits for itself.                       *)
THEOREM DeadlockFree == Spec => []NoDeadlock
<1>1. ASSUME IInv, NEW S \in SUBSET Threads, Deadlocked(S) PROVE FALSE
  <2>1. \A t \in S : \E u \in S : Height(t) \in 2..7 /\ Height(u) \in 2..7 /\ Height(t) < Height(u)
    <3> SUFFICES ASSUME NEW t \in S
                 PROVE  \E u \in S : Height(t) \in 2..7 /\ Height(u) \in 2..7 /\ Height(t) < Height(u)
      OBVIOUS
    <3>1. PICK u \in S : Waits(t, u)
      BY <1>1 DEF Deadlocked
    <3>2. PICK v \in S : Waits(u, v)
      BY <1>1 DEF Deadlocked
    <3>3. QED
      BY <3>1, <3>2, <1>1, WaitsClimb
  <2> HIDE DEF Height
  <2>2. \A t \in S : Height(t) \in 2..7 /\ Height(t) # 7
    BY <2>1
  <2>3. \A t \in S : Height(t) # 6
    BY <2>1, <2>2
  <2>4. \A t \in S : Height(t) # 5
    BY <2>1, <2>2, <2>3
  <2>5. \A t \in S : Height(t) # 4
    BY <2>1, <2>2, <2>3, <2>4
  <2>6. \A t \in S : Height(t) # 3
    BY <2>1, <2>2, <2>3, <2>4, <2>5
  <2>7. \A t \in S : Height(t) # 2
    BY <2>1, <2>2, <2>3, <2>4, <2>5, <2>6
  <2>8. QED
    BY <1>1, <2>2, <2>3, <2>4, <2>5, <2>6, <2>7 DEF Deadlocked
<1>2. IInv => NoDeadlock
  BY <1>1 DEF NoDeadlock
<1>3. QED
  BY <1>2, Invariance, PTL

-----------------------------------------------------------------------------
(* The pool.                                                               *)
(* How far a call is, and how far its operation.                           *)
CallFits(c) ==
    /\ call[c].pc = "queued" => job[c].st = "none"
    /\ call[c].pc \in {"polling", "joining"} =>
           job[c].st \in {"pending", "running", "leaving", "done"}
    /\ call[c].pc = "joining" => call[c].mutation

PoolInv ==
    /\ PoolTypeOK
    /\ \A c \in Calls : CallFits(c)

CallTypeOK ==
    call \in [Calls -> [pc : {"queued", "polling", "joining", "ended", "lost"},
                        mutation : BOOLEAN, out : {"none", "ok", "failed", "cancelled"}]]

(* A call that ends.                                                       *)
LEMMA EndsCall ==
    ASSUME CallTypeOK, NEW c \in Calls, NEW out \in {"ok", "failed", "cancelled"},
           Ends(c, out)
    PROVE  /\ CallTypeOK'
           /\ call'[c].pc = "ended" /\ call'[c].out = out
           /\ call'[c].mutation = call[c].mutation
           /\ \A d \in Calls \ {c} : call'[d] = call[d]
    BY DEF CallTypeOK, Ends

LEMMA PoolInvInit == PoolInit => PoolInv
<1> SUFFICES ASSUME PoolInit PROVE PoolInv
    OBVIOUS
<1>1. \A c \in Calls : call[c].pc = "queued" /\ call[c].mutation \in BOOLEAN
                       /\ call[c] = NewCall(call[c].mutation)
    BY DEF PoolInit, NewCall
<1>2. call \in [Calls -> [pc : {"queued", "polling", "joining", "ended", "lost"},
                          mutation : BOOLEAN, out : {"none", "ok", "failed", "cancelled"}]]
    BY DEF PoolInit, NewCall
<1>3. Limit \in Int
    BY PoolAssumption, FS_CardinalityType DEF Limit
<1>4. PoolTypeOK
    BY <1>2, <1>3 DEF PoolInit, PoolTypeOK, NoJob
<1> QED
    BY <1>1, <1>4 DEF PoolInv, CallFits, PoolInit, NoJob

LEMMA PoolInvEnds ==
    ASSUME PoolInv, NEW c \in Calls, NEW out \in {"ok", "failed", "cancelled"}, Ends(c, out),
           UNCHANGED <<job, does, slots>>
    PROVE  PoolInv'
<1>1. CallTypeOK
    BY DEF PoolInv, PoolTypeOK, CallTypeOK
<1>2. /\ CallTypeOK' /\ call'[c].pc = "ended"
      /\ \A d \in Calls \ {c} : call'[d] = call[d]
    BY <1>1, EndsCall
<1>3. PoolTypeOK'
    BY <1>2 DEF PoolInv, PoolTypeOK, CallTypeOK
<1>4. \A d \in Calls : CallFits(d)'
    BY <1>2 DEF PoolInv, CallFits
<1> QED
    BY <1>3, <1>4 DEF PoolInv

LEMMA PoolInvNext == PoolInv /\ [PoolNext]_<<vars, poolVars>> => PoolInv'
<1> SUFFICES ASSUME PoolInv, [PoolNext]_<<vars, poolVars>> PROVE PoolInv'
    OBVIOUS
<1>1. ASSUME NEW c \in Calls, CancelQueued(c) \/ SubmitFails(c) \/ Return(c) PROVE PoolInv'
  <2>1. /\ \E out \in {"ok", "failed", "cancelled"} : Ends(c, out)
        /\ UNCHANGED <<job, does, slots>>
      BY <1>1 DEF CancelQueued, SubmitFails, Return
  <2> QED
      BY <2>1, PoolInvEnds
<1>2. ASSUME NEW c \in Calls, Submit(c) PROVE PoolInv'
  <2>1. PoolTypeOK'
      BY <1>2 DEF Submit, PoolInv, PoolTypeOK
  <2>2. \A d \in Calls : CallFits(d)'
      BY <1>2 DEF Submit, PoolInv, PoolTypeOK, CallFits
  <2> QED
      BY <2>1, <2>2 DEF PoolInv
<1>3. ASSUME NEW c \in Calls, Abandon(c) PROVE PoolInv'
  <2>1. CASE job[c].st # "pending"
      BY <1>3, <2>1, PoolInvEnds DEF Abandon
  <2>2. CASE job[c].st = "pending"
    <3>1. CallTypeOK /\ Ends(c, "cancelled")
        BY <1>3 DEF Abandon, PoolInv, PoolTypeOK, CallTypeOK
    <3>2. /\ CallTypeOK' /\ call'[c].pc = "ended"
          /\ \A d \in Calls \ {c} : call'[d] = call[d]
        BY <3>1, EndsCall
    <3>3. job' = [job EXCEPT ![c].st = "cancelled"] /\ slots' = slots + 1 /\ does' = does
        BY <1>3, <2>2 DEF Abandon
    <3>4. PoolTypeOK'
        BY <3>2, <3>3 DEF PoolInv, PoolTypeOK, CallTypeOK
    <3>5. \A d \in Calls : CallFits(d)'
        BY <3>2, <3>3 DEF PoolInv, PoolTypeOK, CallFits
    <3> QED
        BY <3>4, <3>5 DEF PoolInv
  <2> QED
      BY <2>1, <2>2
<1>5. ASSUME NEW c \in Calls, Heed(c) PROVE PoolInv'
  <2>1. PoolTypeOK'
      BY <1>5 DEF Heed, PoolInv, PoolTypeOK
  <2>2. \A d \in Calls : CallFits(d)'
      BY <1>5 DEF Heed, PoolInv, PoolTypeOK, CallFits
  <2> QED
      BY <2>1, <2>2 DEF PoolInv
<1>7. ASSUME NEW c \in Calls, NEW w \in Workers, Run(w, c) PROVE PoolInv'
  <2>1. PoolTypeOK'
      BY <1>7 DEF Run, PoolInv, PoolTypeOK
  <2>2. \A d \in Calls : CallFits(d)'
      BY <1>7 DEF Run, PoolInv, PoolTypeOK, CallFits
  <2> QED
      BY <2>1, <2>2 DEF PoolInv
<1>8. ASSUME NEW w \in Workers, Deliver(w) PROVE PoolInv'
  <2>1. PoolTypeOK'
      BY <1>8 DEF Deliver, PoolInv, PoolTypeOK
  <2>2. \A d \in Calls : CallFits(d)'
      BY <1>8 DEF Deliver, PoolInv, PoolTypeOK, CallFits
  <2> QED
      BY <2>1, <2>2 DEF PoolInv
<1>9. ASSUME NEW w \in Workers, NEW ok \in BOOLEAN, Finish(w, ok) PROVE PoolInv'
  <2>1. PoolTypeOK'
      BY <1>9 DEF Finish, PoolInv, PoolTypeOK
  <2>2. \A d \in Calls : CallFits(d)'
      BY <1>9 DEF Finish, PoolInv, PoolTypeOK, CallFits
  <2> QED
      BY <2>1, <2>2 DEF PoolInv
<1>10. ASSUME UNCHANGED poolVars PROVE PoolInv'
    BY <1>10 DEF poolVars, PoolInv, PoolTypeOK, CallFits
<1>11. ASSUME NEW p \in Processes, Crash(p) PROVE PoolInv'
  <2>1. CASE UNCHANGED poolVars
      BY <1>10, <2>1
  <2>2. CASE ~UNCHANGED poolVars
    <3>1. Limit \in Int
        BY PoolAssumption, FS_CardinalityType DEF Limit
    <3>2. /\ call' = [c \in Calls |-> IF call[c].pc \in {"polling", "joining"}
                                      THEN [call[c] EXCEPT !.pc = "lost"] ELSE call[c]]
          /\ job' = [c \in Calls |-> IF call[c].pc = "ended" /\ job[c].st = "done"
                                     THEN job[c] ELSE NoJob]
          /\ does' = [w \in Workers |-> NoCall] /\ slots' = Limit
        BY <1>11, <2>2 DEF Crash
    <3>3. ASSUME NEW c \in Calls
          PROVE  /\ call'[c] \in [pc : {"queued", "polling", "joining", "ended", "lost"},
                        mutation : BOOLEAN, out : {"none", "ok", "failed", "cancelled"}]
                 /\ CallFits(c)'
      <4>1. CASE call[c].pc \in {"polling", "joining"}
          BY <3>2, <4>1 DEF PoolInv, PoolTypeOK, CallFits, NoJob
      <4>2. CASE call[c].pc \notin {"polling", "joining"}
          BY <3>2, <4>2 DEF PoolInv, PoolTypeOK, CallFits, NoJob
      <4> QED
          BY <4>1, <4>2
    <3>4. call' \in [Calls -> [pc : {"queued", "polling", "joining", "ended", "lost"},
                        mutation : BOOLEAN, out : {"none", "ok", "failed", "cancelled"}]]
        BY <3>2, <3>3
    <3>5. PoolTypeOK'
        BY <3>1, <3>2, <3>4 DEF PoolInv, PoolTypeOK, NoJob
    <3> QED
        BY <3>3, <3>5 DEF PoolInv
  <2> QED
      BY <2>1, <2>2
<1> QED
    BY <1>1, <1>2, <1>3, <1>5, <1>7, <1>8, <1>9, <1>10, <1>11
    DEF PoolNext, LockStep

LEMMA AlwaysPoolInv == PoolSpec => []PoolInv
    BY PoolInvInit, PoolInvNext, PTL DEF PoolSpec

-----------------------------------------------------------------------------
(* The locks under the pool.                                               *)

LEMMA StepIsLockStep == [PoolNext]_<<vars, poolVars>> => [Next]_vars
    BY DEF PoolNext, CancelQueued, Submit, SubmitFails, Abandon, Heed, Return, Run,
           Deliver, Finish, LockStep, Crash, Next, vars

(* The pool implements the locks: each of its steps is one that the lock   *)
(* hierarchy allows, or leaves the locks alone (mutation.py, run_blocking  *)
(* around vault_mutation).                                                 *)
THEOREM PoolImplementsLocks == PoolSpec => Spec
<1>1. PoolInit => Init
    BY DEF PoolInit
<1> QED
    BY <1>1, StepIsLockStep, PTL DEF PoolSpec, Spec

(* No set of threads waits for itself, workers of the pool included, for   *)
(* any number of workers: a worker that waits for a lock keeps its slot,   *)
(* and whoever holds the lock needs no slot to go on.  The nesting is that *)
(* of Disciplined here too.                                                *)
THEOREM PoolDeadlockFree == PoolSpec => []NoDeadlock
    BY PoolImplementsLocks, DeadlockFree, PTL

-----------------------------------------------------------------------------
(* The slots.                                                              *)

LEMMA SlotsInit == PoolInit => SlotsAccounted
<1> SUFFICES ASSUME PoolInit PROVE SlotsAccounted
    OBVIOUS
<1>1. Admitted = {}
    BY DEF PoolInit, Admitted, NoJob
<1>2. Cardinality(Workers) \in Nat
    BY PoolAssumption, FS_CardinalityType
<1> QED
    BY <1>1, <1>2, FS_EmptySet DEF SlotsAccounted, PoolInit, Limit

LEMMA AdmittedFinite ==
    IsFiniteSet(Admitted) /\ Cardinality(Admitted) \in Nat
<1>1. Admitted \subseteq Calls
    BY DEF Admitted
<1> QED
    BY <1>1, PoolAssumption, FS_Subset, FS_CardinalityType

(* An operation gets a slot.                                               *)
LEMMA SlotTaken ==
    ASSUME PoolInv, SlotsAccounted, NEW c \in Calls, c \notin Admitted,
           Admitted' = Admitted \cup {c}, slots' = slots - 1
    PROVE  SlotsAccounted'
<1>1. Cardinality(Admitted') = Cardinality(Admitted) + 1
    BY AdmittedFinite, FS_AddElement
<1> QED
    BY <1>1, AdmittedFinite DEF SlotsAccounted, PoolInv, PoolTypeOK, Limit

(* An operation gives its slot back.                                       *)
LEMMA SlotFreed ==
    ASSUME PoolInv, SlotsAccounted, NEW c \in Calls, c \in Admitted,
           Admitted' = Admitted \ {c}, slots' = slots + 1
    PROVE  SlotsAccounted'
<1>1. Cardinality(Admitted') = Cardinality(Admitted) - 1
    BY AdmittedFinite, FS_RemoveElement
<1> QED
    BY <1>1, AdmittedFinite DEF SlotsAccounted, PoolInv, PoolTypeOK, Limit

LEMMA SlotsNext ==
    PoolInv /\ SlotsAccounted /\ [PoolNext]_<<vars, poolVars>> => SlotsAccounted'
<1> SUFFICES ASSUME PoolInv, SlotsAccounted, [PoolNext]_<<vars, poolVars>>
             PROVE  SlotsAccounted'
    OBVIOUS
<1>0. job \in [Calls -> [st : {"none", "pending", "running", "leaving", "done", "cancelled"},
                         ok : BOOLEAN]]
    BY DEF PoolInv, PoolTypeOK
<1>1. ASSUME UNCHANGED <<slots, Admitted>> PROVE SlotsAccounted'
    BY <1>1 DEF SlotsAccounted, Limit
<1>2. ASSUME UNCHANGED <<job, slots>> PROVE SlotsAccounted'
    BY <1>1, <1>2 DEF Admitted
<1>3. ASSUME NEW c \in Calls, Submit(c) PROVE SlotsAccounted'
  <2>1. c \notin Admitted /\ Admitted' = Admitted \cup {c}
      BY <1>0, <1>3 DEF Submit, Admitted, PoolInv, CallFits
  <2> QED
      BY <1>3, <2>1, SlotTaken DEF Submit
<1>4. ASSUME NEW c \in Calls, Abandon(c) PROVE SlotsAccounted'
  <2>1. CASE job[c].st = "pending"
    <3>1. c \in Admitted /\ Admitted' = Admitted \ {c}
        BY <1>0, <1>4, <2>1 DEF Abandon, Admitted
    <3> QED
        BY <1>4, <2>1, <3>1, SlotFreed DEF Abandon
  <2>2. CASE job[c].st # "pending"
      BY <1>2, <1>4, <2>2 DEF Abandon
  <2> QED
      BY <2>1, <2>2
<1>5. ASSUME NEW c \in Calls, NEW w \in Workers, Run(w, c) PROVE SlotsAccounted'
  <2>1. Admitted' = Admitted
      BY <1>0, <1>5 DEF Run, Admitted
  <2> QED
      BY <1>1, <1>5, <2>1 DEF Run
<1>6. ASSUME NEW w \in Workers, Deliver(w) PROVE SlotsAccounted'
  <2>1. does[w] \in Calls
      BY <1>6 DEF Deliver, PoolInv, PoolTypeOK
  <2>2. Admitted' = Admitted
      BY <1>0, <1>6, <2>1 DEF Deliver, Admitted
  <2> QED
      BY <1>1, <1>6, <2>2 DEF Deliver
<1>7. ASSUME NEW w \in Workers, NEW ok \in BOOLEAN, Finish(w, ok) PROVE SlotsAccounted'
  <2>1. does[w] \in Calls
      BY <1>7 DEF Finish, PoolInv, PoolTypeOK
  <2>2. does[w] \in Admitted /\ Admitted' = Admitted \ {does[w]}
      BY <1>0, <1>7, <2>1 DEF Finish, Admitted
  <2> QED
      BY <1>7, <2>1, <2>2, SlotFreed DEF Finish
<1>8. ASSUME NEW p \in Processes, Crash(p) PROVE SlotsAccounted'
  <2>1. CASE UNCHANGED poolVars
      BY <1>2, <2>1 DEF poolVars
  <2>2. CASE ~UNCHANGED poolVars
    <3>1. job' = [c \in Calls |-> IF call[c].pc = "ended" /\ job[c].st = "done"
                                  THEN job[c] ELSE NoJob] /\ slots' = Limit
        BY <1>8, <2>2 DEF Crash
    <3>2. Admitted' = {}
        BY <3>1 DEF Admitted, NoJob
    <3>3. Cardinality(Workers) \in Nat
        BY PoolAssumption, FS_CardinalityType
    <3> QED
        BY <3>1, <3>2, <3>3, FS_EmptySet DEF SlotsAccounted, Limit
  <2> QED
      BY <2>1, <2>2
<1> QED
    BY <1>2, <1>3, <1>4, <1>5, <1>6, <1>7, <1>8
    DEF PoolNext, LockStep, CancelQueued, SubmitFails, Heed, Return, poolVars

(* No slot is lost and none is given back twice, whatever calls are        *)
(* cancelled in whatever stage and whichever processes are killed          *)
(* (mutation.py, _blocking_slots).                                         *)
THEOREM SlotsAreAccounted == PoolSpec => []SlotsAccounted
    BY AlwaysPoolInv, SlotsInit, SlotsNext, PTL DEF PoolSpec

-----------------------------------------------------------------------------
(* The outcomes.                                                           *)

LEMMA OutcomeNext ==
    PoolInv /\ TruthfulOutcome /\ [PoolNext]_<<vars, poolVars>> => TruthfulOutcome'
<1> SUFFICES ASSUME PoolInv, TruthfulOutcome, [PoolNext]_<<vars, poolVars>>
             PROVE  TruthfulOutcome'
    OBVIOUS
<1> DEFINE Truthful(c) == call[c].mutation /\ call[c].pc = "ended" =>
                              IF job[c].st = "done"
                              THEN call[c].out = "failed" <=> ~job[c].ok
                              ELSE job[c].st = "none" /\ call[c].out # "ok"
<1>0. CallTypeOK /\ \A c \in Calls : Truthful(c) /\ CallFits(c)
    BY DEF PoolInv, PoolTypeOK, CallTypeOK, TruthfulOutcome
<1>a. job \in [Calls -> [st : {"none", "pending", "running", "leaving", "done", "cancelled"},
                         ok : BOOLEAN]]
    BY DEF PoolInv, PoolTypeOK
<1>1. ASSUME NEW c \in Calls, UNCHANGED <<call[c], job[c]>> PROVE Truthful(c)'
    BY <1>0, <1>1
<1>2. ASSUME NEW c \in Calls, NEW out \in {"ok", "failed", "cancelled"}, Ends(c, out),
             UNCHANGED job,
             call[c].mutation => IF job[c].st = "done" THEN out = "failed" <=> ~job[c].ok
                                 ELSE job[c].st = "none" /\ out # "ok"
      PROVE  TruthfulOutcome'
  <2>1. /\ call'[c].pc = "ended" /\ call'[c].out = out
        /\ call'[c].mutation = call[c].mutation
        /\ \A d \in Calls \ {c} : call'[d] = call[d]
      BY <1>0, <1>2, EndsCall
  <2>2. Truthful(c)'
      BY <1>2, <2>1
  <2>3. \A d \in Calls \ {c} : Truthful(d)'
      BY <1>1, <1>2, <2>1
  <2> QED
      BY <2>2, <2>3 DEF TruthfulOutcome
<1>3. ASSUME UNCHANGED poolVars PROVE TruthfulOutcome'
    BY <1>1, <1>3 DEF poolVars, TruthfulOutcome
<1>4. ASSUME NEW c \in Calls, CancelQueued(c) \/ SubmitFails(c) PROVE TruthfulOutcome'
  <2>1. job[c].st = "none" /\ UNCHANGED job
        /\ \E out \in {"failed", "cancelled"} : Ends(c, out)
      BY <1>0, <1>4 DEF CancelQueued, SubmitFails, CallFits
  <2> QED
      BY <1>2, <2>1
<1>5. ASSUME NEW c \in Calls, Submit(c) PROVE TruthfulOutcome'
  <2>1. Truthful(c)'
      BY <1>0, <1>5 DEF Submit, CallTypeOK
  <2>2. \A d \in Calls \ {c} : Truthful(d)'
      BY <1>1, <1>5 DEF Submit
  <2> QED
      BY <2>1, <2>2 DEF TruthfulOutcome
<1>6. ASSUME NEW c \in Calls, Abandon(c) PROVE TruthfulOutcome'
  <2>1. ~call[c].mutation /\ Ends(c, "cancelled")
      BY <1>6 DEF Abandon
  <2>2. call'[c].mutation = call[c].mutation /\ \A d \in Calls \ {c} : call'[d] = call[d]
      BY <1>0, <2>1, EndsCall
  <2>3. Truthful(c)'
      BY <2>1, <2>2
  <2>4. \A d \in Calls \ {c} : job'[d] = job[d]
      BY <1>6, <1>a DEF Abandon
  <2>5. \A d \in Calls \ {c} : Truthful(d)'
      BY <1>1, <2>2, <2>4
  <2> QED
      BY <2>3, <2>5 DEF TruthfulOutcome
<1>7. ASSUME NEW c \in Calls, Heed(c) PROVE TruthfulOutcome'
  <2>1. Truthful(c)'
      BY <1>0, <1>7 DEF Heed, CallTypeOK
  <2>2. \A d \in Calls \ {c} : Truthful(d)'
      BY <1>1, <1>7 DEF Heed
  <2> QED
      BY <2>1, <2>2 DEF TruthfulOutcome
<1>8. ASSUME NEW c \in Calls, Return(c) PROVE TruthfulOutcome'
  <2>1. /\ job[c].st = "done" /\ UNCHANGED job
        /\ \E out \in {"ok", "failed", "cancelled"} :
               Ends(c, out) /\ (out = "failed" <=> ~job[c].ok)
      BY <1>8 DEF Return
  <2> QED
      BY <1>2, <2>1
(* A worker has an operation whose call has not ended, or is a read's.     *)
<1>9. ASSUME NEW c \in Calls, job[c].st \in {"pending", "running", "leaving"},
             UNCHANGED call, \A d \in Calls \ {c} : job'[d] = job[d]
      PROVE  TruthfulOutcome'
  <2>1. Truthful(c)'
      BY <1>0, <1>9
  <2>2. \A d \in Calls \ {c} : Truthful(d)'
      BY <1>1, <1>9
  <2> QED
      BY <2>1, <2>2 DEF TruthfulOutcome
<1>10. ASSUME NEW c \in Calls, NEW w \in Workers, Run(w, c) PROVE TruthfulOutcome'
    BY <1>9, <1>10, <1>a DEF Run
<1>11. ASSUME NEW w \in Workers, Deliver(w) PROVE TruthfulOutcome'
  <2>1. does[w] \in Calls
      BY <1>11 DEF Deliver, PoolInv, PoolTypeOK
  <2> QED
      BY <1>9, <1>11, <1>a, <2>1 DEF Deliver
<1>12. ASSUME NEW w \in Workers, NEW ok \in BOOLEAN, Finish(w, ok) PROVE TruthfulOutcome'
  <2>1. does[w] \in Calls
      BY <1>12 DEF Finish, PoolInv, PoolTypeOK
  <2> QED
      BY <1>9, <1>12, <1>a, <2>1 DEF Finish
<1>13. ASSUME NEW p \in Processes, Crash(p) PROVE TruthfulOutcome'
  <2>1. CASE UNCHANGED poolVars
      BY <1>3, <2>1
  <2>2. CASE ~UNCHANGED poolVars
    <3>1. ASSUME NEW c \in Calls PROVE Truthful(c)'
      <4>1. call'[c].pc = "ended" => call'[c] = call[c] /\ call[c].pc = "ended"
          BY <1>0, <1>13, <2>2 DEF Crash, CallTypeOK
      <4>2. job'[c] = IF call[c].pc = "ended" /\ job[c].st = "done" THEN job[c] ELSE NoJob
          BY <1>13, <2>2 DEF Crash
      <4> QED
          BY <1>0, <4>1, <4>2 DEF NoJob
    <3> QED
        BY <3>1 DEF TruthfulOutcome
  <2> QED
      BY <2>1, <2>2
<1> QED
    BY <1>3, <1>4, <1>5, <1>6, <1>7, <1>8, <1>10, <1>11, <1>12, <1>13
    DEF PoolNext, LockStep

(* A mutation never reports an outcome while its operation can still       *)
(* change something, and never another one than the operation had          *)
(* (mutation.py, run_blocking).                                            *)
THEOREM MutationsAreTruthful == PoolSpec => []TruthfulOutcome
<1>1. PoolInit => TruthfulOutcome
    BY DEF PoolInit, TruthfulOutcome, NewCall
<1> QED
    BY <1>1, AlwaysPoolInv, OutcomeNext, PTL DEF PoolSpec
================================================================================
