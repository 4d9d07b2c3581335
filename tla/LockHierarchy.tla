----------------------------- MODULE LockHierarchy -----------------------------
(***************************************************************************)
(* The three locks of a vault (core/lock_tracker.py, core/mutation.py,     *)
(* core/task_store.py, core/project_store.py):                             *)
(*   level 1  vault_mutation   .power/mutation.lock                        *)
(*   level 2  TaskStore.lock   .power/tasks/.lock                          *)
(*   level 3  project_lock     .power/projects/<id>/.lock                  *)
(*                                                                         *)
(* Each is a reentrant mutex among the threads of one process, and a flock *)
(* on a file among processes.  A handle stands for the mutex: the vault's  *)
(* RLock in a process, a TaskStore object, the project's RLock in a        *)
(* process.  A flock belongs to an open file, so that a second open of the *)
(* same file waits for the first, in the same thread too.                  *)
(***************************************************************************)
EXTENDS Naturals, Sequences

CONSTANTS
    Threads, Nobody,
    Processes, ProcessOf,   \* the process of each thread
    Handles, NoHandle,      \* [process, level, file, project]
    MaxDepth                \* bound on nested with-blocks

VARIABLES
    held,    \* the with-blocks each thread is in, innermost last
    want,    \* the handle a thread is acquiring, and how far it is
    mutex,   \* owner of each RLock
    flock    \* owner of each lock file

vars == <<held, want, mutex, flock>>

Files == {h.file : h \in Handles}
NoWant == [h |-> NoHandle, step |-> "none"]

ASSUME NobodyAssumption == Nobody \notin Threads
ASSUME ProcessAssumption == ProcessOf \in [Threads -> Processes]
ASSUME LevelAssumption == \A h \in Handles : h.level \in 1..3
ASSUME ProjectAssumption ==     \* levels 1 and 2 are of no project
    \A g, h \in Handles : (g.level = h.level /\ g.level # 3) => g.project = h.project
ASSUME FileAssumption == \A g, h \in Handles : g.file = h.file => g.level = h.level
ASSUME HandleAssumption == NoHandle \notin Handles
ASSUME DepthAssumption == MaxDepth \in Nat

Holds(t, h) == \E i \in 1..Len(held[t]) : held[t][i] = h

-----------------------------------------------------------------------------
Init ==
    /\ held = [t \in Threads |-> <<>>]
    /\ want = [t \in Threads |-> NoWant]
    /\ mutex = [h \in Handles |-> Nobody]
    /\ flock = [f \in Files |-> Nobody]

Wants(t, h, step) == want' = [want EXCEPT ![t] = [h |-> h, step |-> step]]

WantsNothing(t) == want' = [want EXCEPT ![t] = NoWant]

(* Mutant: the order of the levels is not looked at.                       *)
PermittedInAnyOrder(t, h) == TRUE

(* push_level: a lower level than one held is a violation, and so is the   *)
(* lock of a second project.                                               *)
Permitted(t, h) == \A i \in 1..Len(held[t]) :
    /\ held[t][i].level <= h.level
    /\ (h.level = 3 /\ held[t][i].level = 3) => held[t][i].project = h.project

(* What the callers in the code do, although the tracker permits more: no  *)
(* second vault_mutation and no second TaskStore object inside the first,  *)
(* nor the same project of two vaults.                                     *)
Disciplined(t, h) == \A i \in 1..Len(held[t]) :
    (held[t][i].level = h.level /\ held[t][i].project = h.project)
        => held[t][i] = h /\ h.level # 1

(* A LockHierarchyViolationError, which leaves everything as it was, is    *)
(* not a step.                                                             *)
AskTracker(t, h) ==
    /\ want[t] = NoWant /\ Len(held[t]) < MaxDepth
    /\ h.process = ProcessOf[t]
    /\ Permitted(t, h)
    /\ Wants(t, h, "mutex")
    /\ UNCHANGED <<held, mutex, flock>>

Ask(t, h) == Disciplined(t, h) /\ AskTracker(t, h)

Enter(t, h) ==
    /\ held' = [held EXCEPT ![t] = Append(@, h)]
    /\ WantsNothing(t)

(* A TaskStore or a project that this thread holds already is entered by   *)
(* count; vault_mutation opens its file again.                             *)
Reenters(t, h) == h.level # 1 /\ Holds(t, h)

TakeMutex(t) == LET h == want[t].h IN
    /\ want[t].step = "mutex" /\ mutex[h] \in {Nobody, t}
    /\ mutex' = [mutex EXCEPT ![h] = t]
    /\ IF Reenters(t, h) THEN Enter(t, h) ELSE Wants(t, h, "file") /\ UNCHANGED held
    /\ UNCHANGED flock

TakeFlock(t) == LET h == want[t].h IN
    /\ want[t].step = "file" /\ flock[h.file] = Nobody
    /\ flock' = [flock EXCEPT ![h.file] = t]
    /\ Enter(t, h)
    /\ UNCHANGED mutex

Without(q) == SubSeq(q, 1, Len(q) - 1)

(* A block further out is of the same handle.                              *)
Outer(t) == \E i \in 1..(Len(held[t]) - 1) : held[t][i] = held[t][Len(held[t])]

(* Mutant: leaving an inner block unlocks the file.                        *)
ReleaseInner(t) == LET h == held[t][Len(held[t])] IN
    /\ want[t] = NoWant /\ held[t] # <<>>
    /\ held' = [held EXCEPT ![t] = Without(@)]
    /\ flock' = [flock EXCEPT ![h.file] = Nobody]
    /\ mutex' = [mutex EXCEPT ![h] = IF Outer(t) THEN @ ELSE Nobody]
    /\ UNCHANGED want

(* The innermost with-block is left.                                       *)
Release(t) == LET h == held[t][Len(held[t])] IN
    /\ want[t] = NoWant /\ held[t] # <<>>
    /\ held' = [held EXCEPT ![t] = Without(@)]
    /\ flock' = [flock EXCEPT ![h.file] = IF Outer(t) THEN @ ELSE Nobody]
    /\ mutex' = [mutex EXCEPT ![h] = IF Outer(t) THEN @ ELSE Nobody]
    /\ UNCHANGED want

(* project_lock gives up after its timeout, in either stage; the others    *)
(* wait without one.                                                       *)
Timeout(t) == LET h == want[t].h IN
    /\ want[t].step # "none" /\ h.level = 3 /\ ~Reenters(t, h)
    /\ want[t].step = "mutex" => mutex[h] \notin {Nobody, t}
    /\ want[t].step = "file" => flock[h.file] # Nobody
    /\ mutex' = [mutex EXCEPT ![h] = IF want[t].step = "file" THEN Nobody ELSE @]
    /\ WantsNothing(t)
    /\ UNCHANGED <<held, flock>>

(* A process is killed, with all its threads; the kernel drops its flocks, *)
(* and its RLocks and TaskStore objects are gone with its memory.          *)
Kill(p) == LET gone == {t \in Threads : ProcessOf[t] = p} IN
    /\ held' = [t \in Threads |-> IF t \in gone THEN <<>> ELSE held[t]]
    /\ want' = [t \in Threads |-> IF t \in gone THEN NoWant ELSE want[t]]
    /\ mutex' = [h \in Handles |-> IF mutex[h] \in gone THEN Nobody ELSE mutex[h]]
    /\ flock' = [f \in Files |-> IF flock[f] \in gone THEN Nobody ELSE flock[f]]

Step(t) == TakeMutex(t) \/ TakeFlock(t) \/ Timeout(t)

Next ==
    \/ \E t \in Threads : Step(t) \/ Release(t) \/ \E h \in Handles : Ask(t, h)
    \/ \E p \in Processes : Kill(p)

Spec == Init /\ [][Next]_vars

-----------------------------------------------------------------------------
(* Every variable has its type.                                            *)
TypeOK ==
    /\ held \in [Threads -> Seq(Handles)]
    /\ want \in [Threads -> [h : Handles, step : {"mutex", "file"}] \cup {NoWant}]
    /\ mutex \in [Handles -> Threads \cup {Nobody}]
    /\ flock \in [Files -> Threads \cup {Nobody}]

(* No two threads, of one process or of two, are inside the same lock of   *)
(* one vault, through whichever handles (mutation.py:3, "Mutations are     *)
(* serialized").                                                           *)
Exclusive == \A t, u \in Threads :
    \A i \in 1..Len(held[t]), j \in 1..Len(held[u]) :
        held[t][i].file = held[u][j].file => t = u

(* t cannot go on before u lets go.                                        *)
Waits(t, u) ==
    \/ want[t].step = "mutex" /\ mutex[want[t].h] = u /\ u # t
    \/ want[t].step = "file" /\ flock[want[t].h.file] = u

(* Every thread of S waits for one of S, itself included.                  *)
Deadlocked(S) == S # {} /\ \A t \in S : \E u \in S : Waits(t, u)

(* No set of threads is deadlocked, a single one that waits for itself     *)
(* included: callers that nest as the code's do are kept from it by the    *)
(* ascending order of the levels.  Without Disciplined it does not hold.   *)
NoDeadlock == \A S \in SUBSET Threads : ~Deadlocked(S)
================================================================================
