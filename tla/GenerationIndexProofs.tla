------------------------- MODULE GenerationIndexProofs -------------------------
(***************************************************************************)
(* Proofs about GenerationIndex, for any number of callers, readers,       *)
(* versions, generations, faults and edits, with the vault lock or without *)
(* it, under PublicationStands (below).                                    *)
(*                                                                         *)
(* Four inductive invariants, one over the other:                          *)
(*                                                                         *)
(*   PublishInv  what the rows, the files and the pointer have to do with  *)
(*               each other (RowInv, ActiveInv), and what a caller has     *)
(*               while it works: the vault lock (ModeInv), a generation    *)
(*               of its own that is not active (OwnInv, OwnersDiffer), and *)
(*               claims that a transaction of its own protects (SweepInv,  *)
(*               CommitInv)                                                *)
(*   ReaderInv   what a request has seen since it began includes all that  *)
(*               was published since, and its cache holds the active       *)
(*               generation or nothing                                     *)
(*   SnapInv     what a build has read differs from its inventory only if  *)
(*               the notes do too, so that the comparison finds it out     *)
(*   NoteInv     what the index serves at each step of a note mutation     *)
(*                                                                         *)
(* Publication numbers are counts, so that the retention, which keeps the  *)
(* newest, can be compared with what a request has seen.  Lemmas named     *)
(* ...Does say field by field what an action does; lemmas named ...Keeps   *)
(* that the group of actions keeps CallerInv; the Quiet, Row and Others    *)
(* lemmas carry the parts that an action does not touch.                   *)
(***************************************************************************)
EXTENDS GenerationIndex, FiniteSetTheorems, TLAPS

-----------------------------------------------------------------------------
(* Types.                                                                  *)
Row == [state : {"none", "building", "ready", "failed", "superseded"}, done : Nat,
        file : {"none", "staging", "generation"}, text : Versions \cup {None}]

Job == [kind : {"none", "sync", "note"}, g : 0..MaxGens, snap : Versions \cup {None},
        proj : Versions \cup {None}, todo : SUBSET Gens, claimed : SUBSET Gens,
        published : BOOLEAN, agreed : BOOLEAN, edited : BOOLEAN]

Reader == [pc : {"idle", "cache", "read", "verify", "held"}, fp : BOOLEAN,
           g : Gens \cup {None}, window : SUBSET (Gens \cup {None}),
           cache : Gens \cup {None}]

StoresOK ==
    /\ serial \in BOOLEAN
    /\ note \in Versions /\ pre \in Versions \cup {None}
    /\ gen \in [Gens -> Row] /\ active \in Gens \cup {None}
    /\ vault \in Callers \cup {None} /\ dbLock \in Callers \cup {None}
    /\ faults \in Nat /\ edits \in Nat

CallersOK == pc \in [Callers -> PCs] /\ job \in [Callers -> Job]
ReadersOK == rd \in [Readers -> Reader]

TypeOK == StoresOK /\ CallersOK /\ ReadersOK

Activated == {g \in Gens : gen[g].done # 0}

LEMMA GensFinite ==
    /\ IsFiniteSet(Gens)
    /\ \A S \in SUBSET Gens : IsFiniteSet(S) /\ Cardinality(S) \in Nat
<1>1. IsFiniteSet(Gens)
  BY IndexBounds, FS_Interval DEF Gens
<1>2. ASSUME NEW S \in SUBSET Gens PROVE IsFiniteSet(S)
  BY <1>1, <1>2, FS_Subset
<1> QED BY <1>1, <1>2, FS_CardinalityType

LEMMA LaterType == Later \in Nat \ {0} /\ Later = Cardinality(Activated) + 1
<1>1. Activated \in SUBSET Gens
  BY DEF Activated
<1> QED BY <1>1, GensFinite DEF Later, Activated

LEMMA TypeInit == Init => TypeOK
<1>1. 0 \in 0..MaxGens
  BY IndexBounds
<1>2. NoGen \in Row /\ NoJob \in Job /\ NoRead \in Reader
  BY <1>1 DEF NoGen, NoJob, NoRead, Row, Job, Reader
<1> QED BY <1>2, IndexDeployments DEF Init, TypeOK, StoresOK, CallersOK, ReadersOK, PCs

-----------------------------------------------------------------------------
(* What the steps do, field by field.                                      *)

(* c goes on to l, and nobody else does anything.                          *)
Goes(c, l) ==
    /\ pc' \in [Callers -> PCs]
    /\ pc'[c] = l
    /\ \A d \in Callers \ {c} : pc'[d] = pc[d]

(* The local variables of c become these, and no others change.            *)
Has(c, kind, g, snap, proj, todo, claimed, published, agreed, edited) ==
    /\ job' \in [Callers -> Job]
    /\ \A d \in Callers \ {c} : job'[d] = job[d]
    /\ job'[c].kind = kind /\ job'[c].g = g /\ job'[c].snap = snap /\ job'[c].proj = proj
    /\ job'[c].todo = todo /\ job'[c].claimed = claimed
    /\ job'[c].published = published /\ job'[c].agreed = agreed /\ job'[c].edited = edited

(* The row and file of g become these, and no others change.               *)
Becomes(g, state, done, file, text) ==
    /\ gen' \in [Gens -> Row]
    /\ \A h \in Gens \ {g} : gen'[h] = gen[h]
    /\ gen'[g].state = state /\ gen'[g].done = done
    /\ gen'[g].file = file /\ gen'[g].text = text

LEMMA ToGoes == ASSUME TypeOK, NEW c \in Callers, NEW l \in PCs, To(c, l) PROVE Goes(c, l)
BY DEF TypeOK, CallersOK, To, Goes

LEMMA JobGoes ==
    ASSUME TypeOK, NEW c \in Callers, NEW j \in Job, job' = [job EXCEPT ![c] = j]
    PROVE  Has(c, j.kind, j.g, j.snap, j.proj, j.todo, j.claimed, j.published, j.agreed, j.edited)
BY DEF TypeOK, CallersOK, Has

LEMMA RowGoes ==
    ASSUME TypeOK, NEW g \in Gens, NEW x \in Row, gen' = [gen EXCEPT ![g] = x]
    PROVE  Becomes(g, x.state, x.done, x.file, x.text)
BY DEF TypeOK, StoresOK, Becomes

LEMMA JobFields ==
    ASSUME NEW j \in Job
    PROVE  /\ j.kind \in {"none", "sync", "note"} /\ j.g \in 0..MaxGens
           /\ j.snap \in Versions \cup {None} /\ j.proj \in Versions \cup {None}
           /\ j.todo \subseteq Gens /\ j.claimed \subseteq Gens
           /\ j.published \in BOOLEAN /\ j.agreed \in BOOLEAN /\ j.edited \in BOOLEAN
BY DEF Job

LEMMA RaisedType == ASSUME NEW c PROVE Raised(c) \in {"failed", "broken", "undo"}
BY DEF Raised

LEMMA JobTodo ==
    ASSUME TypeOK, NEW c \in Callers, NEW t \in SUBSET Gens,
           job' = [job EXCEPT ![c].todo = t]
    PROVE  Has(c, job[c].kind, job[c].g, job[c].snap, job[c].proj,
               t, job[c].claimed, job[c].published, job[c].agreed, job[c].edited)
<1> DEFINE j == [job[c] EXCEPT !.todo = t]
<1>1. job[c] \in Job /\ job' = [job EXCEPT ![c] = j]
  BY DEF TypeOK, CallersOK
<1>2. j \in Job
  BY <1>1 DEF Job
<1>3. Has(c, j.kind, j.g, j.snap, j.proj, j.todo, j.claimed, j.published, j.agreed, j.edited)
  BY <1>1, <1>2, JobGoes
<1> QED BY <1>1, <1>3 DEF Job

LEMMA JobClaimed ==
    ASSUME TypeOK, NEW c \in Callers, NEW m \in SUBSET Gens,
           job' = [job EXCEPT ![c].claimed = m]
    PROVE  Has(c, job[c].kind, job[c].g, job[c].snap, job[c].proj,
               job[c].todo, m, job[c].published, job[c].agreed, job[c].edited)
<1> DEFINE j == [job[c] EXCEPT !.claimed = m]
<1>1. job[c] \in Job /\ job' = [job EXCEPT ![c] = j]
  BY DEF TypeOK, CallersOK
<1>2. j \in Job
  BY <1>1 DEF Job
<1>3. Has(c, j.kind, j.g, j.snap, j.proj, j.todo, j.claimed, j.published, j.agreed, j.edited)
  BY <1>1, <1>2, JobGoes
<1> QED BY <1>1, <1>3 DEF Job

LEMMA JobSweep ==
    ASSUME TypeOK, NEW c \in Callers, NEW t \in SUBSET Gens, NEW m \in SUBSET Gens,
           job' = [job EXCEPT ![c].todo = t, ![c].claimed = m]
    PROVE  Has(c, job[c].kind, job[c].g, job[c].snap, job[c].proj,
               t, m, job[c].published, job[c].agreed, job[c].edited)
<1> DEFINE j == [job[c] EXCEPT !.todo = t, !.claimed = m]
<1>1. job[c] \in Job /\ job' = [job EXCEPT ![c] = j]
  BY DEF TypeOK, CallersOK
<1>2. j \in Job
  BY <1>1 DEF Job
<1>3. Has(c, j.kind, j.g, j.snap, j.proj, j.todo, j.claimed, j.published, j.agreed, j.edited)
  BY <1>1, <1>2, JobGoes
<1> QED BY <1>1, <1>3 DEF Job

LEMMA JobSnap ==
    ASSUME TypeOK, NEW c \in Callers, NEW v \in Versions \cup {None},
           job' = [job EXCEPT ![c].snap = v]
    PROVE  Has(c, job[c].kind, job[c].g, v, job[c].proj,
               job[c].todo, job[c].claimed, job[c].published, job[c].agreed, job[c].edited)
<1> DEFINE j == [job[c] EXCEPT !.snap = v]
<1>1. job[c] \in Job /\ job' = [job EXCEPT ![c] = j]
  BY DEF TypeOK, CallersOK
<1>2. j \in Job
  BY <1>1 DEF Job
<1>3. Has(c, j.kind, j.g, j.snap, j.proj, j.todo, j.claimed, j.published, j.agreed, j.edited)
  BY <1>1, <1>2, JobGoes
<1> QED BY <1>1, <1>3 DEF Job

LEMMA JobProj ==
    ASSUME TypeOK, NEW c \in Callers, NEW v \in Versions \cup {None},
           job' = [job EXCEPT ![c].proj = v]
    PROVE  Has(c, job[c].kind, job[c].g, job[c].snap, v,
               job[c].todo, job[c].claimed, job[c].published, job[c].agreed, job[c].edited)
<1> DEFINE j == [job[c] EXCEPT !.proj = v]
<1>1. job[c] \in Job /\ job' = [job EXCEPT ![c] = j]
  BY DEF TypeOK, CallersOK
<1>2. j \in Job
  BY <1>1 DEF Job
<1>3. Has(c, j.kind, j.g, j.snap, j.proj, j.todo, j.claimed, j.published, j.agreed, j.edited)
  BY <1>1, <1>2, JobGoes
<1> QED BY <1>1, <1>3 DEF Job

LEMMA JobForgets ==
    ASSUME TypeOK, NEW c \in Callers,
           job' = [job EXCEPT ![c].snap = None, ![c].proj = None]
    PROVE  Has(c, job[c].kind, job[c].g, None, None,
               job[c].todo, job[c].claimed, job[c].published, job[c].agreed, job[c].edited)
<1> DEFINE j == [job[c] EXCEPT !.snap = None, !.proj = None]
<1>1. job[c] \in Job /\ job' = [job EXCEPT ![c] = j]
  BY DEF TypeOK, CallersOK
<1>2. j \in Job
  BY <1>1 DEF Job
<1>3. Has(c, j.kind, j.g, j.snap, j.proj, j.todo, j.claimed, j.published, j.agreed, j.edited)
  BY <1>1, <1>2, JobGoes
<1> QED BY <1>1, <1>3 DEF Job

LEMMA JobG ==
    ASSUME TypeOK, NEW c \in Callers, NEW g \in Gens,
           job' = [job EXCEPT ![c].g = g]
    PROVE  Has(c, job[c].kind, g, job[c].snap, job[c].proj,
               job[c].todo, job[c].claimed, job[c].published, job[c].agreed, job[c].edited)
<1> DEFINE j == [job[c] EXCEPT !.g = g]
<1>1. job[c] \in Job /\ job' = [job EXCEPT ![c] = j]
  BY DEF TypeOK, CallersOK
<1>2. j \in Job
  BY <1>1 DEF Job, Gens
<1>3. Has(c, j.kind, j.g, j.snap, j.proj, j.todo, j.claimed, j.published, j.agreed, j.edited)
  BY <1>1, <1>2, JobGoes
<1> QED BY <1>1, <1>3 DEF Job

LEMMA JobPublished ==
    ASSUME TypeOK, NEW c \in Callers,
           job' = [job EXCEPT ![c].published = TRUE]
    PROVE  Has(c, job[c].kind, job[c].g, job[c].snap, job[c].proj,
               job[c].todo, job[c].claimed, TRUE, job[c].agreed, job[c].edited)
<1> DEFINE j == [job[c] EXCEPT !.published = TRUE]
<1>1. job[c] \in Job /\ job' = [job EXCEPT ![c] = j]
  BY DEF TypeOK, CallersOK
<1>2. j \in Job
  BY <1>1 DEF Job
<1>3. Has(c, j.kind, j.g, j.snap, j.proj, j.todo, j.claimed, j.published, j.agreed, j.edited)
  BY <1>1, <1>2, JobGoes
<1> QED BY <1>1, <1>3 DEF Job

LEMMA JobAgreed ==
    ASSUME TypeOK, NEW c \in Callers, NEW b \in BOOLEAN,
           job' = [job EXCEPT ![c].agreed = b]
    PROVE  Has(c, job[c].kind, job[c].g, job[c].snap, job[c].proj,
               job[c].todo, job[c].claimed, job[c].published, b, job[c].edited)
<1> DEFINE j == [job[c] EXCEPT !.agreed = b]
<1>1. job[c] \in Job /\ job' = [job EXCEPT ![c] = j]
  BY DEF TypeOK, CallersOK
<1>2. j \in Job
  BY <1>1 DEF Job
<1>3. Has(c, j.kind, j.g, j.snap, j.proj, j.todo, j.claimed, j.published, j.agreed, j.edited)
  BY <1>1, <1>2, JobGoes
<1> QED BY <1>1, <1>3 DEF Job

LEMMA RowRemoved ==
    ASSUME TypeOK, NEW g \in Gens,
           gen' = [gen EXCEPT ![g] = Removed(@)]
    PROVE  Becomes(g, gen[g].state, gen[g].done, "none", None)
<1> DEFINE x == Removed(gen[g])
<1>1. gen[g] \in Row /\ gen' = [gen EXCEPT ![g] = x]
  BY DEF TypeOK, StoresOK
<1>2. x \in Row
  BY <1>1 DEF Row, Removed
<1>3. Becomes(g, x.state, x.done, x.file, x.text)
  BY <1>1, <1>2, RowGoes
<1> QED BY <1>1, <1>3 DEF Row, Removed

LEMMA RowState ==
    ASSUME TypeOK, NEW g \in Gens, NEW s \in {"building", "failed"},
           gen' = [gen EXCEPT ![g].state = s]
    PROVE  Becomes(g, s, gen[g].done, gen[g].file, gen[g].text)
<1> DEFINE x == [gen[g] EXCEPT !.state = s]
<1>1. gen[g] \in Row /\ gen' = [gen EXCEPT ![g] = x]
  BY DEF TypeOK, StoresOK
<1>2. x \in Row
  BY <1>1 DEF Row, Removed
<1>3. Becomes(g, x.state, x.done, x.file, x.text)
  BY <1>1, <1>2, RowGoes
<1> QED BY <1>1, <1>3 DEF Row, Removed

LEMMA RowBuilt ==
    ASSUME TypeOK, NEW g \in Gens, NEW v \in Versions,
           gen' = [gen EXCEPT ![g].file = "staging", ![g].text = v]
    PROVE  Becomes(g, gen[g].state, gen[g].done, "staging", v)
<1> DEFINE x == [gen[g] EXCEPT !.file = "staging", !.text = v]
<1>1. gen[g] \in Row /\ gen' = [gen EXCEPT ![g] = x]
  BY DEF TypeOK, StoresOK
<1>2. x \in Row
  BY <1>1 DEF Row, Removed
<1>3. Becomes(g, x.state, x.done, x.file, x.text)
  BY <1>1, <1>2, RowGoes
<1> QED BY <1>1, <1>3 DEF Row, Removed

LEMMA RowMoved ==
    ASSUME TypeOK, NEW g \in Gens,
           gen' = [gen EXCEPT ![g].file = "generation"]
    PROVE  Becomes(g, gen[g].state, gen[g].done, "generation", gen[g].text)
<1> DEFINE x == [gen[g] EXCEPT !.file = "generation"]
<1>1. gen[g] \in Row /\ gen' = [gen EXCEPT ![g] = x]
  BY DEF TypeOK, StoresOK
<1>2. x \in Row
  BY <1>1 DEF Row, Removed
<1>3. Becomes(g, x.state, x.done, x.file, x.text)
  BY <1>1, <1>2, RowGoes
<1> QED BY <1>1, <1>3 DEF Row, Removed

LEMMA RowReady ==
    ASSUME TypeOK, NEW g \in Gens, NEW n \in Nat,
           gen' = [gen EXCEPT ![g].state = "ready", ![g].done = n]
    PROVE  Becomes(g, "ready", n, gen[g].file, gen[g].text)
<1> DEFINE x == [gen[g] EXCEPT !.state = "ready", !.done = n]
<1>1. gen[g] \in Row /\ gen' = [gen EXCEPT ![g] = x]
  BY DEF TypeOK, StoresOK
<1>2. x \in Row
  BY <1>1 DEF Row, Removed
<1>3. Becomes(g, x.state, x.done, x.file, x.text)
  BY <1>1, <1>2, RowGoes
<1> QED BY <1>1, <1>3 DEF Row, Removed

LEMMA RowFailed ==
    ASSUME TypeOK, NEW g \in Gens,
           gen' = [gen EXCEPT ![g] = [(IF @.file = "staging" THEN Removed(@) ELSE @) EXCEPT !.state = "failed"]]
    PROVE  Becomes(g, "failed", gen[g].done, IF gen[g].file = "staging" THEN "none" ELSE gen[g].file, IF gen[g].file = "staging" THEN None ELSE gen[g].text)
<1> DEFINE x == [(IF gen[g].file = "staging" THEN Removed(gen[g]) ELSE gen[g]) EXCEPT !.state = "failed"]
<1>1. gen[g] \in Row /\ gen' = [gen EXCEPT ![g] = x]
  BY DEF TypeOK, StoresOK
<1>2. x \in Row
  BY <1>1 DEF Row, Removed
<1>3. Becomes(g, x.state, x.done, x.file, x.text)
  BY <1>1, <1>2, RowGoes
<1> QED BY <1>1, <1>3 DEF Row, Removed

-----------------------------------------------------------------------------
(* The actions.                                                            *)

LEMMA ServesType == ASSUME NEW v PROVE Serves(v) \in BOOLEAN
BY DEF Serves

LEMMA NewJob ==
    ASSUME TypeOK, NEW c \in Callers, NEW k \in {"none", "sync", "note"},
           job' = [job EXCEPT ![c] = [NoJob EXCEPT !.kind = k]]
    PROVE  Has(c, k, 0, None, None, {}, {}, FALSE, FALSE, FALSE)
<1> DEFINE j == [NoJob EXCEPT !.kind = k]
<1>1. 0 \in 0..MaxGens
  BY IndexBounds
<1>2. NoJob \in Job
  BY <1>1 DEF Job, NoJob
<1>3. j \in Job
  BY <1>2 DEF Job
<1>4. /\ j.kind = k /\ j.g = 0 /\ j.snap = None /\ j.proj = None /\ j.todo = {}
      /\ j.claimed = {} /\ j.published = FALSE /\ j.agreed = FALSE /\ j.edited = FALSE
  BY DEF NoJob
<1>5. Has(c, j.kind, j.g, j.snap, j.proj, j.todo, j.claimed, j.published, j.agreed, j.edited)
  BY <1>3, JobGoes
<1> HIDE DEF j
<1> QED BY <1>4, <1>5

LEMMA EmptyJob ==
    ASSUME TypeOK, NEW c \in Callers, job' = [job EXCEPT ![c] = NoJob]
    PROVE  Has(c, "none", 0, None, None, {}, {}, FALSE, FALSE, FALSE)
<1>1. 0 \in 0..MaxGens
  BY IndexBounds
<1>2. NoJob \in Job
  BY <1>1 DEF Job, NoJob
<1>3. Has(c, NoJob.kind, NoJob.g, NoJob.snap, NoJob.proj, NoJob.todo, NoJob.claimed,
             NoJob.published, NoJob.agreed, NoJob.edited)
  BY <1>2, JobGoes
<1> QED BY <1>3 DEF NoJob

LEMMA StartDoes ==
    ASSUME TypeOK, NEW c \in Callers, NEW kind \in {"sync", "note"}, Start(c, kind)
    PROVE  /\ pc[c] = "idle"
           /\ ~serial => kind = "sync"
           /\ Goes(c, IF serial THEN "lock" ELSE "reap")
           /\ Has(c, kind, 0, None, None,
                  {}, {}, FALSE, FALSE, FALSE)
           /\ UNCHANGED <<stores, locks, rd, bounds>>
<1>1. Goes(c, IF serial THEN "lock" ELSE "reap")
  BY ToGoes DEF Start, PCs
<1>2. Has(c, kind, 0, None, None,
         {}, {}, FALSE, FALSE, FALSE)
  BY NewJob DEF Start, TypeOK, StoresOK, CallersOK
<1> QED BY <1>1, <1>2 DEF Start

LEMMA TakeLockDoes ==
    ASSUME TypeOK, NEW c \in Callers, TakeLock(c)
    PROVE  /\ pc[c] = "lock" /\ vault = None
           /\ vault' = c
           /\ Goes(c, IF job[c].kind = "note" THEN "recover" ELSE "reap")
           /\ job' = job
           /\ UNCHANGED <<stores, dbLock, rd, bounds>>
<1>1. Goes(c, IF job[c].kind = "note" THEN "recover" ELSE "reap")
  BY ToGoes DEF TakeLock, PCs
<1> QED BY <1>1 DEF TakeLock

LEMMA LeaveDoes ==
    ASSUME TypeOK, NEW c \in Callers, Leave(c)
    PROVE  /\ pc[c] \in {"ok", "failed", "broken"}
           /\ vault' = IF vault = c THEN None ELSE vault
           /\ Goes(c, "idle")
           /\ Has(c, "none", 0, None, None,
                  {}, {}, FALSE, FALSE, FALSE)
           /\ UNCHANGED <<stores, dbLock, rd, bounds>>
<1>1. Goes(c, "idle")
  BY ToGoes DEF Leave, PCs
<1>2. Has(c, "none", 0, None, None,
         {}, {}, FALSE, FALSE, FALSE)
  BY EmptyJob DEF Leave, TypeOK, StoresOK, CallersOK
<1> QED BY <1>1, <1>2 DEF Leave

LEMMA WriteNoteDoes ==
    ASSUME TypeOK, NEW c \in Callers, NEW v \in Versions, WriteNote(c, v)
    PROVE  /\ pc[c] = "write" /\ v # note
           /\ pre' = note /\ note' = v
           /\ Goes(c, "reap")
           /\ Has(c, job[c].kind, job[c].g, job[c].snap, job[c].proj,
                  job[c].todo, job[c].claimed, job[c].published, Serves(note), job[c].edited)
           /\ UNCHANGED <<gen, active, locks, rd, bounds>>
<1>1. Goes(c, "reap")
  BY ToGoes DEF WriteNote, PCs
<1>2. Has(c, job[c].kind, job[c].g, job[c].snap, job[c].proj,
         job[c].todo, job[c].claimed, job[c].published, Serves(note), job[c].edited)
  BY JobAgreed, ServesType DEF WriteNote, TypeOK, StoresOK, CallersOK
<1> QED BY <1>1, <1>2 DEF WriteNote

LEMMA TakeInventoryDoes ==
    ASSUME TypeOK, NEW c \in Callers, TakeInventory(c)
    PROVE  /\ pc[c] = "inventory"
           /\ Goes(c, IF Resolvable THEN "record" ELSE Raised(c))
           /\ Has(c, job[c].kind, job[c].g, note, job[c].proj,
                  job[c].todo, job[c].claimed, job[c].published, job[c].agreed, job[c].edited)
           /\ UNCHANGED <<stores, locks, rd, bounds>>
<1>1. Goes(c, IF Resolvable THEN "record" ELSE Raised(c))
  BY ToGoes, RaisedType DEF TakeInventory, PCs
<1>2. Has(c, job[c].kind, job[c].g, note, job[c].proj,
         job[c].todo, job[c].claimed, job[c].published, job[c].agreed, job[c].edited)
  BY JobSnap DEF TakeInventory, Raised, TypeOK, StoresOK, CallersOK
<1> QED BY <1>1, <1>2 DEF TakeInventory, Raised

LEMMA ProjectDoes ==
    ASSUME TypeOK, NEW c \in Callers, Project(c)
    PROVE  /\ pc[c] = "project"
           /\ Goes(c, "check")
           /\ Has(c, job[c].kind, job[c].g, job[c].snap, note,
                  job[c].todo, job[c].claimed, job[c].published, job[c].agreed, job[c].edited)
           /\ UNCHANGED <<stores, locks, rd, bounds>>
<1>1. Goes(c, "check")
  BY ToGoes DEF Project, PCs
<1>2. Has(c, job[c].kind, job[c].g, job[c].snap, note,
         job[c].todo, job[c].claimed, job[c].published, job[c].agreed, job[c].edited)
  BY JobProj DEF Project, TypeOK, StoresOK, CallersOK
<1> QED BY <1>1, <1>2 DEF Project

LEMMA ReportDoes ==
    ASSUME TypeOK, NEW c \in Callers, Report(c)
    PROVE  /\ pc[c] = "published"
           /\ Goes(c, IF job[c].kind = "sync" THEN "ok" ELSE IF job[c].published THEN "failed" ELSE "receipt")
           /\ Has(c, job[c].kind, job[c].g, job[c].snap, job[c].proj,
                  job[c].todo, job[c].claimed, TRUE, job[c].agreed, job[c].edited)
           /\ UNCHANGED <<stores, locks, rd, bounds>>
<1>1. Goes(c, IF job[c].kind = "sync" THEN "ok" ELSE IF job[c].published THEN "failed" ELSE "receipt")
  BY ToGoes DEF Report, PCs
<1>2. Has(c, job[c].kind, job[c].g, job[c].snap, job[c].proj,
         job[c].todo, job[c].claimed, TRUE, job[c].agreed, job[c].edited)
  BY JobPublished DEF Report, TypeOK, StoresOK, CallersOK
<1> QED BY <1>1, <1>2 DEF Report

LEMMA KillDoes ==
    ASSUME TypeOK, NEW c \in Callers, Kill(c)
    PROVE  /\ pc[c] # "idle" /\ <<"kill", pc[c]>> \in FaultPoints[serial]
           /\ serial' = serial
           /\ vault' = IF vault = c THEN None ELSE vault
           /\ dbLock' = IF dbLock = c THEN None ELSE dbLock
           /\ Goes(c, "idle")
           /\ Has(c, "none", 0, None, None,
                  {}, {}, FALSE, FALSE, FALSE)
           /\ UNCHANGED <<stores, rd>>
<1>1. Goes(c, "idle")
  BY ToGoes DEF Kill, Strikes, FreeLocks, PCs
<1>2. Has(c, "none", 0, None, None,
         {}, {}, FALSE, FALSE, FALSE)
  BY EmptyJob DEF Kill, Strikes, FreeLocks, TypeOK, StoresOK, CallersOK
<1> QED BY <1>1, <1>2 DEF Kill, Strikes, FreeLocks

LEMMA ErrorDoes ==
    ASSUME TypeOK, NEW c \in Callers, Error(c)
    PROVE  /\ pc[c] # "idle" /\ <<"error", pc[c]>> \in FaultPoints[serial]
           /\ serial' = serial
           /\ dbLock' = IF dbLock = c THEN None ELSE dbLock
           /\ Goes(c, Handled(c))
           /\ Has(c, job[c].kind, job[c].g, job[c].snap, job[c].proj,
                  {}, {}, job[c].published, job[c].agreed, job[c].edited)
           /\ UNCHANGED <<stores, vault, rd>>
<1>1. Goes(c, Handled(c))
  BY ToGoes, RaisedType DEF Error, Strikes, Handled, PCs
<1>2. Has(c, job[c].kind, job[c].g, job[c].snap, job[c].proj,
         {}, {}, job[c].published, job[c].agreed, job[c].edited)
  BY JobSweep DEF Error, Strikes, Handled, Raised, TypeOK, StoresOK, CallersOK
<1> QED BY <1>1, <1>2 DEF Error, Strikes, Handled, Raised

LEMMA ScanStaleDoes ==
    ASSUME TypeOK, NEW c \in Callers, ScanStale(c)
    PROVE  \E stale \in SUBSET (InState("building") \ {active}) :
              /\ pc[c] = "reap"
              /\ Goes(c, IF stale = {} THEN "inventory" ELSE "reaping")
              /\ Has(c, job[c].kind, job[c].g, job[c].snap, job[c].proj,
                        stale, job[c].claimed, job[c].published, job[c].agreed, job[c].edited)
              /\ UNCHANGED <<stores, locks, rd, bounds>>
<1> PICK stale \in SUBSET (InState("building") \ {active}) :
      /\ pc[c] = "reap"
      /\ job' = [job EXCEPT ![c].todo = stale]
      /\ To(c, IF stale = {} THEN "inventory" ELSE "reaping")
      /\ UNCHANGED <<stores, locks, rd, bounds>>
  BY DEF ScanStale
<1>1. stale \in SUBSET Gens
  BY DEF InState
<1>2. Has(c, job[c].kind, job[c].g, job[c].snap, job[c].proj,
             stale, job[c].claimed, job[c].published, job[c].agreed, job[c].edited)
  BY <1>1, JobTodo
<1> QED BY <1>2, ToGoes DEF PCs

LEMMA ScanReadyDoes ==
    ASSUME TypeOK, NEW c \in Callers, ScanReady(c)
    PROVE  LET old == InState("ready") \ Newest(InState("ready"), Retain) IN
              /\ pc[c] = "retain"
              /\ Goes(c, IF old = {} THEN "published" ELSE "retaining")
              /\ Has(c, job[c].kind, job[c].g, job[c].snap, job[c].proj,
                        old, job[c].claimed, job[c].published, job[c].agreed, job[c].edited)
              /\ UNCHANGED <<stores, locks, rd, bounds>>
<1> DEFINE old == InState("ready") \ Newest(InState("ready"), Retain)
<1>0. /\ pc[c] = "retain"
      /\ job' = [job EXCEPT ![c].todo = old]
      /\ To(c, IF old = {} THEN "published" ELSE "retaining")
      /\ UNCHANGED <<stores, locks, rd, bounds>>
  BY DEF ScanReady
<1>1. old \in SUBSET Gens
  BY DEF InState
<1> HIDE DEF old
<1>2. Has(c, job[c].kind, job[c].g, job[c].snap, job[c].proj,
             old, job[c].claimed, job[c].published, job[c].agreed, job[c].edited)
  BY <1>0, <1>1, JobTodo
<1>3. Goes(c, IF old = {} THEN "published" ELSE "retaining")
  BY <1>0, ToGoes DEF PCs
<1> QED BY <1>0, <1>2, <1>3 DEF old

(* Claiming one row, for the reaper or the retention.                      *)
LEMMA SweepJob ==
    ASSUME TypeOK, NEW c \in Callers, NEW g \in job[c].todo,
           job' = [job EXCEPT ![c].todo = @ \ {g}, ![c].claimed = @ \cup {g}]
    PROVE  Has(c, job[c].kind, job[c].g, job[c].snap, job[c].proj,
                  job[c].todo \ {g}, job[c].claimed \cup {g},
                  job[c].published, job[c].agreed, job[c].edited)
<1>1. job[c].todo \subseteq Gens /\ job[c].claimed \subseteq Gens
  BY JobFields DEF TypeOK, CallersOK
<1> DEFINE t == job[c].todo \ {g}
           m == job[c].claimed \cup {g}
<1>2. t \in SUBSET Gens /\ m \in SUBSET Gens
  BY <1>1
<1>3. job' = [job EXCEPT ![c].todo = t, ![c].claimed = m]
  BY DEF TypeOK, CallersOK
<1> HIDE DEF t, m
<1>4. Has(c, job[c].kind, job[c].g, job[c].snap, job[c].proj, t, m,
                  job[c].published, job[c].agreed, job[c].edited)
  BY <1>2, <1>3, JobSweep
<1> QED BY <1>4 DEF t, m

LEMMA ShrinkJob ==
    ASSUME TypeOK, NEW c \in Callers, NEW g \in job[c].todo,
           job' = [job EXCEPT ![c].todo = @ \ {g}]
    PROVE  Has(c, job[c].kind, job[c].g, job[c].snap, job[c].proj,
                  job[c].todo \ {g}, job[c].claimed,
                  job[c].published, job[c].agreed, job[c].edited)
<1>1. job[c].todo \subseteq Gens
  BY JobFields DEF TypeOK, CallersOK
<1> DEFINE t == job[c].todo \ {g}
<1>2. t \in SUBSET Gens /\ job' = [job EXCEPT ![c].todo = t]
  BY <1>1
<1> HIDE DEF t
<1>3. Has(c, job[c].kind, job[c].g, job[c].snap, job[c].proj, t, job[c].claimed,
                  job[c].published, job[c].agreed, job[c].edited)
  BY <1>2, JobTodo
<1> QED BY <1>3 DEF t

(* A row is claimed, and its file removed unless the row has changed or    *)
(* the unlink fails.                                                       *)
Claims(c, g) ==
    /\ dbLock \in {None, c} /\ dbLock' = c
    /\ Has(c, job[c].kind, job[c].g, job[c].snap, job[c].proj,
              job[c].todo \ {g}, job[c].claimed \cup {g},
              job[c].published, job[c].agreed, job[c].edited)
Passes(c, g) ==
    Has(c, job[c].kind, job[c].g, job[c].snap, job[c].proj,
           job[c].todo \ {g}, job[c].claimed,
           job[c].published, job[c].agreed, job[c].edited)

LEMMA ClaimStaleDoes ==
    ASSUME TypeOK, NEW c \in Callers, ClaimStale(c)
    PROVE  \E g \in job[c].todo :
              /\ pc[c] = "reaping" /\ g \in Gens
              /\ \/ /\ gen[g].state = "building" /\ Claims(c, g)
                    /\ Becomes(g, gen[g].state, gen[g].done, "none", None)
                 \/ /\ gen[g].state # "building" /\ Passes(c, g)
                    /\ dbLock \in {None, c} /\ dbLock' = c /\ gen' = gen
              /\ UNCHANGED <<note, pre, active, vault, pc, rd, bounds>>
<1>1. PICK g \in job[c].todo :
        /\ pc[c] = "reaping" /\ dbLock \in {None, c}
        /\ dbLock' = c
        /\ IF gen[g].state = "building"
           THEN /\ job' = [job EXCEPT ![c].todo = @ \ {g}, ![c].claimed = @ \cup {g}]
                /\ gen' = [gen EXCEPT ![g] = Removed(@)]
           ELSE /\ job' = [job EXCEPT ![c].todo = @ \ {g}]
                /\ UNCHANGED gen
        /\ UNCHANGED <<note, pre, active, vault, pc, rd, bounds>>
  BY DEF ClaimStale
<1>2. g \in Gens
  BY JobFields DEF TypeOK, CallersOK
<1>3. CASE gen[g].state = "building"
  BY <1>1, <1>2, <1>3, SweepJob, RowRemoved DEF Claims
<1>4. CASE gen[g].state # "building"
  BY <1>1, <1>2, <1>4, ShrinkJob DEF Passes
<1> QED BY <1>3, <1>4

LEMMA RemoveOldDoes ==
    ASSUME TypeOK, NEW c \in Callers, RemoveOld(c)
    PROVE  \E g \in job[c].todo :
              /\ pc[c] = "retaining" /\ g \in Gens /\ Claims(c, g)
              /\ Becomes(g, gen[g].state, gen[g].done, "none", None)
              /\ UNCHANGED <<note, pre, active, vault, pc, rd, bounds>>
<1>1. PICK g \in job[c].todo :
        /\ pc[c] = "retaining" /\ dbLock \in {None, c}
        /\ dbLock' = c
        /\ gen' = [gen EXCEPT ![g] = Removed(@)]
        /\ job' = [job EXCEPT ![c].todo = @ \ {g}, ![c].claimed = @ \cup {g}]
        /\ UNCHANGED <<note, pre, active, vault, pc, rd, bounds>>
  BY DEF RemoveOld
<1>2. g \in Gens
  BY JobFields DEF TypeOK, CallersOK
<1> QED BY <1>1, <1>2, SweepJob, RowRemoved DEF Claims

LEMMA UnlinkFailsDoes ==
    ASSUME TypeOK, NEW c \in Callers, UnlinkFails(c)
    PROVE  \E g \in job[c].todo :
              /\ pc[c] = "retaining" /\ Passes(c, g)
              /\ UNCHANGED <<stores, locks, pc, rd, serial>>
<1>1. PICK g \in job[c].todo :
        /\ pc[c] = "retaining" /\ serial' = serial
        /\ job' = [job EXCEPT ![c].todo = @ \ {g}]
        /\ UNCHANGED <<stores, locks, pc, rd>>
  BY DEF UnlinkFails, Strikes
<1> QED BY <1>1, ShrinkJob DEF Passes

LEMMA ReapUnlinkFailsDoes ==
    ASSUME TypeOK, NEW c \in Callers, ReapUnlinkFails(c)
    PROVE  \E g \in job[c].todo :
              /\ pc[c] = "reaping" /\ g \in Gens /\ gen[g].state = "building" /\ Claims(c, g)
              /\ UNCHANGED <<stores, vault, pc, rd, serial>>
<1>1. PICK g \in job[c].todo :
        /\ pc[c] = "reaping" /\ dbLock \in {None, c} /\ gen[g].state = "building"
        /\ serial' = serial /\ dbLock' = c
        /\ job' = [job EXCEPT ![c].todo = @ \ {g}, ![c].claimed = @ \cup {g}]
        /\ UNCHANGED <<stores, vault, pc, rd>>
  BY DEF ReapUnlinkFails, Strikes
<1>2. g \in Gens
  BY JobFields DEF TypeOK, CallersOK
<1> QED BY <1>1, <1>2, SweepJob DEF Claims

LEMMA CommitRowsDoes ==
    ASSUME TypeOK, NEW c \in Callers, NEW state \in {"failed", "superseded"},
           NEW label \in PCs, CommitRows(c, state, label)
    PROVE  /\ job[c].todo = {} /\ Goes(c, label)
           /\ Has(c, job[c].kind, job[c].g, job[c].snap, job[c].proj,
                     job[c].todo, {}, job[c].published, job[c].agreed, job[c].edited)
           /\ gen' \in [Gens -> Row]
           /\ \A g \in Gens : /\ gen'[g].state = IF g \in job[c].claimed THEN state ELSE gen[g].state
                              /\ gen'[g].done = gen[g].done /\ gen'[g].file = gen[g].file
                              /\ gen'[g].text = gen[g].text
           /\ dbLock' = IF dbLock = c THEN None ELSE dbLock
           /\ UNCHANGED <<note, pre, active, vault, bounds>>
<1>0. {} \in SUBSET Gens
  OBVIOUS
<1>1. Has(c, job[c].kind, job[c].g, job[c].snap, job[c].proj,
             job[c].todo, {}, job[c].published, job[c].agreed, job[c].edited)
  BY <1>0, JobClaimed DEF CommitRows
<1>2. Goes(c, label)
  BY ToGoes DEF CommitRows
<1>3. /\ gen' \in [Gens -> Row]
      /\ \A g \in Gens : /\ gen'[g].state = IF g \in job[c].claimed THEN state ELSE gen[g].state
                         /\ gen'[g].done = gen[g].done /\ gen'[g].file = gen[g].file
                         /\ gen'[g].text = gen[g].text
  <2>1. gen' = [g \in Gens |-> IF g \in job[c].claimed THEN [gen[g] EXCEPT !.state = state] ELSE gen[g]]
    BY DEF CommitRows
  <2>2. ASSUME NEW g \in Gens
        PROVE  /\ [gen[g] EXCEPT !.state = state] \in Row
               /\ gen[g] \in Row
    BY DEF TypeOK, StoresOK, Row
  <2> QED BY <2>1, <2>2 DEF Row
<1> QED BY <1>1, <1>2, <1>3 DEF CommitRows

LEMMA RecordBuildingDoes ==
    ASSUME TypeOK, NEW c \in Callers, RecordBuilding(c)
    PROVE  \E g \in Gens :
              /\ pc[c] = "record" /\ dbLock = None /\ gen[g].state = "none"
              /\ Becomes(g, "building", gen[g].done, gen[g].file, gen[g].text)
              /\ Goes(c, "build")
              /\ Has(c, job[c].kind, g, job[c].snap, job[c].proj,
                        job[c].todo, job[c].claimed,
                        job[c].published, job[c].agreed, job[c].edited)
              /\ UNCHANGED <<note, pre, active, locks, bounds>> /\ Committed
<1>1. PICK g \in InState("none") :
        /\ pc[c] = "record" /\ dbLock = None
        /\ gen' = [gen EXCEPT ![g].state = "building"]
        /\ job' = [job EXCEPT ![c].g = g]
        /\ To(c, "build")
        /\ UNCHANGED <<note, pre, active, locks, bounds>>
        /\ Committed
  BY DEF RecordBuilding
<1>2. g \in Gens /\ gen[g].state = "none"
  BY DEF InState
<1> QED BY <1>1, <1>2, RowState, JobG, ToGoes DEF PCs

LEMMA BuildDoes ==
    ASSUME TypeOK, NEW c \in Callers, job[c].g \in Gens, Build(c)
    PROVE  /\ pc[c] = "build"
           /\ \/ /\ Resolvable /\ Goes(c, "project")
                 /\ Becomes(job[c].g, gen[job[c].g].state, gen[job[c].g].done, "staging", note)
              \/ ~Resolvable /\ Goes(c, Raised(c)) /\ gen' = gen
           /\ UNCHANGED <<note, pre, active, locks, job, rd, bounds>>
<1>1. CASE Resolvable
  <2>1. Becomes(job[c].g, gen[job[c].g].state, gen[job[c].g].done, "staging", note)
    BY <1>1, RowBuilt DEF Build, TypeOK, StoresOK
  <2> QED BY <1>1, <2>1, ToGoes DEF Build, PCs
<1>2. CASE ~Resolvable
  BY <1>2, ToGoes, RaisedType DEF Build, PCs
<1> QED BY <1>1, <1>2

LEMMA MoveDoes ==
    ASSUME TypeOK, NEW c \in Callers, job[c].g \in Gens, Move(c)
    PROVE  LET g == job[c].g IN
           /\ pc[c] = "move"
           /\ \/ /\ gen[g].file = "staging" /\ Goes(c, "commit")
                 /\ Becomes(g, gen[g].state, gen[g].done, "generation", gen[g].text)
              \/ gen[g].file # "staging" /\ Goes(c, "fail") /\ gen' = gen
           /\ UNCHANGED <<note, pre, active, locks, job, rd, bounds>>
<1>1. CASE gen[job[c].g].file = "staging"
  <2>1. Becomes(job[c].g, gen[job[c].g].state, gen[job[c].g].done, "generation", gen[job[c].g].text)
    BY <1>1, RowMoved DEF Move
  <2> QED BY <1>1, <2>1, ToGoes DEF Move, PCs
<1>2. CASE gen[job[c].g].file # "staging"
  BY <1>2, ToGoes DEF Move, PCs
<1> QED BY <1>1, <1>2

LEMMA PublishDoes ==
    ASSUME TypeOK, NEW c \in Callers, job[c].g \in Gens, Publish(c)
    PROVE  LET g == job[c].g IN
           /\ pc[c] = "commit" /\ dbLock = None /\ gen[g].state = "building"
           /\ Becomes(g, "ready", Cardinality(Activated) + 1, gen[g].file, gen[g].text)
           /\ active' = g /\ Goes(c, "readback")
           /\ Has(c, job[c].kind, job[c].g, None, None,
                     job[c].todo, job[c].claimed,
                     job[c].published, job[c].agreed, job[c].edited)
           /\ UNCHANGED <<note, pre, locks, bounds>> /\ Committed
<1>1. Later \in Nat /\ Later = Cardinality(Activated) + 1
  BY LaterType
<1>2. Becomes(job[c].g, "ready", Later, gen[job[c].g].file, gen[job[c].g].text)
  BY <1>1, RowReady DEF Publish
<1> QED BY <1>1, <1>2, JobForgets, ToGoes DEF Publish, PCs

LEMMA PublishRevokedDoes ==
    ASSUME TypeOK, NEW c \in Callers, job[c].g \in Gens, PublishRevoked(c)
    PROVE  LET g == job[c].g IN
           /\ pc[c] = "commit" /\ gen[g].state # "building"
           /\ Becomes(g, gen[g].state, gen[g].done, "none", None)
           /\ Goes(c, "fail")
           /\ UNCHANGED <<note, pre, active, locks, job, rd, bounds>>
BY RowRemoved, ToGoes DEF PublishRevoked, PCs

LEMMA RecordFailureDoes ==
    ASSUME TypeOK, NEW c \in Callers, job[c].g \in Gens, RecordFailure(c)
    PROVE  LET g == job[c].g
               staged == gen[g].file = "staging" IN
           /\ pc[c] = "fail" /\ dbLock = None
           /\ Becomes(g, "failed", gen[g].done, IF staged THEN "none" ELSE gen[g].file,
                         IF staged THEN None ELSE gen[g].text)
           /\ Goes(c, Raised(c))
           /\ Has(c, job[c].kind, job[c].g, None, None,
                     job[c].todo, job[c].claimed,
                     job[c].published, job[c].agreed, job[c].edited)
           /\ UNCHANGED <<note, pre, active, locks, bounds>> /\ Committed
<1>1. gen' = [gen EXCEPT ![job[c].g] = [(IF @.file = "staging" THEN Removed(@) ELSE @) EXCEPT !.state = "failed"]]
  BY DEF RecordFailure
<1>2. Becomes(job[c].g, "failed", gen[job[c].g].done,
              IF gen[job[c].g].file = "staging" THEN "none" ELSE gen[job[c].g].file,
              IF gen[job[c].g].file = "staging" THEN None ELSE gen[job[c].g].text)
  BY <1>1, RowFailed
<1>3. Has(c, job[c].kind, job[c].g, None, None, job[c].todo, job[c].claimed,
             job[c].published, job[c].agreed, job[c].edited)
  BY JobForgets DEF RecordFailure
<1>4. Goes(c, Raised(c))
  BY ToGoes, RaisedType DEF RecordFailure, PCs
<1> QED BY <1>2, <1>3, <1>4 DEF RecordFailure

(* The steps that leave the local variables alone.                         *)
LEMMA PlainDoes ==
    ASSUME TypeOK, NEW c \in Callers
    PROVE  /\ Check(c) => /\ pc[c] = "check"
                          /\ Goes(c, IF note = job[c].snap /\ job[c].proj = job[c].snap
                                     THEN "move" ELSE "fail")
                          /\ UNCHANGED <<stores, locks, job, rd, bounds>>
           /\ ReadBack(c) => /\ pc[c] = "readback"
                             /\ Goes(c, IF active = job[c].g /\ Resolvable
                                        THEN "retain" ELSE "fail")
                             /\ UNCHANGED <<stores, locks, job, rd, bounds>>
           /\ Recover(c) => /\ pc[c] = "recover" /\ RollBackNote /\ Goes(c, "write")
                            /\ UNCHANGED <<gen, active, locks, job, rd, bounds>>
           /\ AppendReceipt(c) => /\ pc[c] = "receipt" /\ Goes(c, "ok") /\ pre' = None
                                  /\ UNCHANGED <<note, gen, active, locks, job, rd, bounds>>
           /\ Undo(c) => /\ pc[c] = "undo" /\ RollBackNote
                         /\ Goes(c, IF job[c].published THEN "reap" ELSE "failed")
                         /\ UNCHANGED <<gen, active, locks, job, rd, bounds>>
<1> USE ToGoes DEF PCs
<1>1. Check(c) => /\ pc[c] = "check"
                  /\ Goes(c, IF note = job[c].snap /\ job[c].proj = job[c].snap
                             THEN "move" ELSE "fail")
                  /\ UNCHANGED <<stores, locks, job, rd, bounds>>
  BY DEF Check
<1>2. ReadBack(c) => /\ pc[c] = "readback"
                     /\ Goes(c, IF active = job[c].g /\ Resolvable THEN "retain" ELSE "fail")
                     /\ UNCHANGED <<stores, locks, job, rd, bounds>>
  BY DEF ReadBack
<1>3. Recover(c) => /\ pc[c] = "recover" /\ RollBackNote /\ Goes(c, "write")
                    /\ UNCHANGED <<gen, active, locks, job, rd, bounds>>
  BY DEF Recover
<1>4. AppendReceipt(c) => /\ pc[c] = "receipt" /\ Goes(c, "ok") /\ pre' = None
                          /\ UNCHANGED <<note, gen, active, locks, job, rd, bounds>>
  BY DEF AppendReceipt
<1>5. Undo(c) => /\ pc[c] = "undo" /\ RollBackNote
                 /\ Goes(c, IF job[c].published THEN "reap" ELSE "failed")
                 /\ UNCHANGED <<gen, active, locks, job, rd, bounds>>
  BY DEF Undo
<1> QED BY <1>1, <1>2, <1>3, <1>4, <1>5

LEMMA EditDoes ==
    ASSUME TypeOK, NEW v \in Versions, Edit(v)
    PROVE  /\ note' = v /\ v # note /\ job' \in [Callers -> Job]
           /\ \A c \in Callers :
                /\ v # job[c].snap
                /\ job'[c].kind = job[c].kind /\ job'[c].g = job[c].g
                /\ job'[c].snap = job[c].snap /\ job'[c].proj = job[c].proj
                /\ job'[c].todo = job[c].todo /\ job'[c].claimed = job[c].claimed
                /\ job'[c].published = job[c].published /\ job'[c].agreed = job[c].agreed
                /\ job'[c].edited = (job[c].kind = "note")
           /\ UNCHANGED <<pre, gen, active, locks, pc, rd, serial>>
<1>1. job' = [c \in Callers |-> [job[c] EXCEPT !.edited = (job[c].kind = "note")]]
  BY DEF Edit
<1>2. ASSUME NEW c \in Callers
      PROVE  job[c] \in Job /\ [job[c] EXCEPT !.edited = (job[c].kind = "note")] \in Job
  BY DEF TypeOK, CallersOK, Job
<1>3. job' \in [Callers -> Job]
  BY <1>1, <1>2
<1>4. ASSUME NEW c \in Callers
      PROVE /\ job'[c].kind = job[c].kind /\ job'[c].g = job[c].g
            /\ job'[c].snap = job[c].snap /\ job'[c].proj = job[c].proj
            /\ job'[c].todo = job[c].todo /\ job'[c].claimed = job[c].claimed
            /\ job'[c].published = job[c].published /\ job'[c].agreed = job[c].agreed
            /\ job'[c].edited = (job[c].kind = "note")
  BY <1>1, <1>2 DEF Job
<1> QED BY <1>3, <1>4 DEF Edit

-----------------------------------------------------------------------------
(* The inductive invariant of the publishers.                              *)

OwnPcs == {"build", "project", "check", "move", "commit", "readback", "fail"}
MakePcs == {"build", "project", "check", "move", "commit"}
NotePcs == {"recover", "write", "receipt", "undo"}

Kept(g) == Cardinality(After(g)) >= Retain

(* What the row and the file of a generation have to do with each other.   *)
RowInv(g) ==
    /\ gen[g].state \in {"none", "building"} => gen[g].done = 0
    /\ gen[g].state = "ready" => gen[g].done # 0
    /\ gen[g].done <= Cardinality(Activated)
    /\ gen[g].done # 0 /\ gen[g].file # "generation" => Kept(g)

ActiveInv ==
    /\ active = None => Activated = {}
    /\ active # None =>
        /\ gen[active].state = "ready" /\ gen[active].file = "generation"
        /\ \A h \in Gens \ {active} : gen[h].done < gen[active].done

(* With the vault lock one caller is at work at a time.                    *)
ModeInv(c) ==
    /\ serial => pc[c] \in {"idle", "lock"} \/ vault = c
    /\ ~serial => pc[c] \notin {"lock"} \cup NotePcs /\ job[c].kind # "note"
    /\ pc[c] # "idle" => job[c].kind # "none"
    /\ pc[c] \in NotePcs => job[c].kind = "note"

(* The generation that a caller builds is its own and not active, until it *)
(* publishes it.                                                           *)
OwnInv(c) ==
    /\ pc[c] \in OwnPcs => job[c].g \in Gens /\ gen[job[c].g].state # "none"
    /\ pc[c] \in MakePcs => /\ gen[job[c].g].done = 0
                            /\ gen[job[c].g].state \in {"building", "failed"}
    /\ pc[c] = "fail" => job[c].g # active

OwnersDiffer(c, d) ==
    (c # d /\ pc[c] \in OwnPcs /\ pc[d] \in OwnPcs) => job[c].g # job[d].g

(* What a reaper or the retention has claimed, it claimed in a transaction *)
(* that still runs; the retention only has what enough others have         *)
(* followed.                                                               *)
SweepInv(c) ==
    /\ pc[c] \notin {"reaping", "retaining"} =>
        job[c].todo = {} /\ job[c].claimed = {} /\ dbLock # c
    /\ job[c].claimed # {} => dbLock = c
    /\ pc[c] = "reaping" => \A h \in job[c].claimed : gen[h].state = "building"
    /\ pc[c] = "retaining" => \A h \in job[c].todo \cup job[c].claimed :
                                 gen[h].done # 0 /\ Kept(h)

Revoking(g) == \E d \in Callers : pc[d] = "reaping" /\ g \in job[d].claimed

(* Only a reaper that is about to revoke a build takes its file away.      *)
CommitInv(c) ==
    (pc[c] = "commit" /\ gen[job[c].g].state = "building")
        => gen[job[c].g].file = "generation" \/ Revoking(job[c].g)

RowsInv == \A g \in Gens : RowInv(g)

PublishInv ==
    /\ RowsInv /\ ActiveInv
    /\ \A c \in Callers : ModeInv(c) /\ OwnInv(c) /\ SweepInv(c) /\ CommitInv(c)
    /\ \A c, d \in Callers : OwnersDiffer(c, d)

(* Errors of the file system or of SQLite strike up to the commit of the   *)
(* pointer, and after it only the receipt of a note and the unlinks of the *)
(* retention.  Without the vault lock, no reaper stops between its first   *)
(* unlink and its commit.                                                  *)
ErrorPcs == {"recover", "write", "reap", "reaping", "inventory", "record", "build",
             "project", "check", "move", "commit", "fail", "receipt"}

PublicationStands ==
    /\ \A s \in Deployments : \A at \in PCs \ ErrorPcs : <<"error", at>> \notin FaultPoints[s]
    /\ FALSE \in Deployments => \A fault \in {"kill", "error"} :
                                   <<fault, "reaping">> \notin FaultPoints[FALSE]

-----------------------------------------------------------------------------
(* Generations that have been published.                                   *)

LEMMA AfterFinite == ASSUME NEW g PROVE IsFiniteSet(After(g)) /\ Cardinality(After(g)) \in Nat
<1>1. After(g) \in SUBSET Gens
  BY DEF After
<1> QED BY <1>1, GensFinite

LEMMA SameDone ==
    ASSUME \A g \in Gens : gen'[g].done = gen[g].done
    PROVE  /\ Activated' = Activated
           /\ \A g \in Gens : Kept(g)' = Kept(g)
<1>1. \A g \in Gens : After(g)' = After(g)
  BY DEF After
<1> QED BY <1>1 DEF Activated, Kept

LEMMA OneMore ==
    ASSUME TypeOK, RowsInv, NEW g \in Gens, gen[g].done = 0,
           gen'[g].done = Cardinality(Activated) + 1,
           \A h \in Gens \ {g} : gen'[h] = gen[h]
    PROVE  /\ Cardinality(Activated)' = Cardinality(Activated) + 1
           /\ \A h \in Gens : gen[h].done < gen'[g].done
           /\ \A h \in Gens : gen[h].done # 0 /\ Kept(h) => Kept(h)'
<1>0. \A h \in Gens : gen[h].done \in Nat
  BY DEF TypeOK, StoresOK, Row
<1>1. Activated \in SUBSET Gens /\ g \notin Activated
  BY DEF Activated
<1>2. Cardinality(Activated) \in Nat /\ IsFiniteSet(Activated)
  BY <1>1, GensFinite
<1>3. Activated' = Activated \cup {g}
  BY <1>2 DEF Activated
<1>4. Cardinality(Activated') = Cardinality(Activated) + 1
  BY <1>1, <1>2, <1>3, FS_AddElement
<1>5. \A h \in Gens : gen[h].done < gen'[g].done
  BY <1>0, <1>2 DEF RowsInv, RowInv
<1>6. ASSUME NEW h \in Gens, gen[h].done # 0, Kept(h) PROVE Kept(h)'
  <2>1. After(h) \subseteq After(h)'
    <3> SUFFICES ASSUME NEW x \in Gens, gen[x].done > gen[h].done PROVE gen'[x].done > gen'[h].done
      BY DEF After
    <3>1. gen'[h] = gen[h]
      BY <1>6
    <3>2. x # g
      BY <1>0
    <3> QED BY <3>1, <3>2
  <2>2. After(h)' \in SUBSET Gens
    BY DEF After, Gens
  <2>3. IsFiniteSet(After(h)') /\ Cardinality(After(h)') \in Nat
    BY <2>2, GensFinite
  <2>4. Cardinality(After(h)) <= Cardinality(After(h)')
    BY <2>1, <2>3, FS_Subset
  <2> QED BY <1>6, <2>3, <2>4, AfterFinite, IndexBounds DEF Kept
<1> QED BY <1>4, <1>5, <1>6

(* A generation that is not among the newest of those ready is followed.   *)
LEMMA OldAreFollowed ==
    ASSUME TypeOK, RowsInv, NEW g \in InState("ready") \ Newest(InState("ready"), Retain)
    PROVE  g \in Gens /\ gen[g].done # 0 /\ Kept(g)
<1>1. g \in Gens /\ gen[g].state = "ready"
  BY DEF InState
<1> DEFINE S == {h \in InState("ready") : gen[h].done > gen[g].done}
<1>2. ~(Cardinality(S) < Retain)
  BY DEF Newest
<1>3. S \subseteq After(g) /\ S \in SUBSET Gens
  BY DEF After, InState
<1>4. Cardinality(S) <= Cardinality(After(g)) /\ Cardinality(S) \in Nat
  BY <1>3, AfterFinite, FS_Subset, GensFinite
<1>5. Kept(g)
  BY <1>2, <1>4, AfterFinite, IndexBounds DEF Kept
<1> QED BY <1>1, <1>5 DEF RowsInv, RowInv

-----------------------------------------------------------------------------
(* The steps of one caller and what they leave to the others.              *)

(* Only c acts, and it takes or leaves locks that are its own or free.     *)
Alone(c) ==
    /\ pc' \in [Callers -> PCs] /\ job' \in [Callers -> Job]
    /\ \A d \in Callers \ {c} : pc'[d] = pc[d] /\ job'[d] = job[d]
    /\ serial' = serial
    /\ vault' = vault \/ (vault \in {None, c} /\ vault' \in {None, c})
    /\ dbLock' = dbLock \/ (dbLock \in {None, c} /\ dbLock' \in {None, c})

CallerInv(c) == ModeInv(c) /\ OwnInv(c) /\ SweepInv(c) /\ CommitInv(c)

(* c keeps the generation it has, or takes one that nobody had.            *)
KeepsOwn(c) ==
    pc'[c] \in OwnPcs => \/ pc[c] \in OwnPcs /\ job'[c].g = job[c].g
                         \/ job'[c].g \in Gens /\ gen[job'[c].g].state = "none"

(* A reaper goes on, or nobody builds while it works.                      *)
KeepsClaims(c) ==
    pc[c] = "reaping" => serial \/ (pc'[c] = "reaping" /\ job[c].claimed \subseteq job'[c].claimed)

LEMMA OwnersStep ==
    ASSUME PublishInv, NEW c \in Callers, Alone(c), KeepsOwn(c)
    PROVE  \A d, e \in Callers : OwnersDiffer(d, e)'
<1>1. ASSUME NEW d \in Callers \ {c}, pc[d] \in OwnPcs, pc'[c] \in OwnPcs PROVE job'[c].g # job[d].g
  <2>1. job[d].g \in Gens /\ gen[job[d].g].state # "none"
    BY <1>1 DEF PublishInv, OwnInv
  <2>2. pc[c] \in OwnPcs => job[c].g # job[d].g
    BY <1>1 DEF PublishInv, OwnersDiffer
  <2> QED BY <1>1, <2>1, <2>2 DEF KeepsOwn
<1>2. ASSUME NEW d \in Callers, NEW e \in Callers, d # e, pc'[d] \in OwnPcs, pc'[e] \in OwnPcs
      PROVE  job'[d].g # job'[e].g
  <2>1. CASE d = c
    BY <1>1, <1>2, <2>1 DEF Alone
  <2>2. CASE e = c
    BY <1>1, <1>2, <2>2 DEF Alone
  <2>3. CASE d # c /\ e # c
    BY <1>2, <2>3 DEF Alone, PublishInv, OwnersDiffer
  <2> QED BY <2>1, <2>2, <2>3
<1> QED BY <1>2 DEF OwnersDiffer

LEMMA OtherModes ==
    ASSUME PublishInv, NEW c \in Callers, Alone(c), NEW d \in Callers \ {c}
    PROVE  ModeInv(d)'
<1>1. ModeInv(d) /\ d # None /\ pc'[d] = pc[d] /\ job'[d] = job[d] /\ serial' = serial
  BY IndexSets DEF PublishInv, Alone
<1>2. vault = d => vault' = d
  BY <1>1 DEF Alone
<1> QED BY <1>1, <1>2 DEF ModeInv

(* Others keep their claims, if what they have claimed stays so.           *)
LEMMA OtherSweeps ==
    ASSUME PublishInv, NEW c \in Callers, Alone(c), NEW d \in Callers \ {c},
           \A h \in Gens : h \in job[d].claimed /\ gen[h].state = "building"
                              => gen'[h].state = "building",
           \A h \in Gens : gen[h].done # 0 => gen'[h].done # 0 /\ (Kept(h) => Kept(h)'),
           job[d] \in Job
    PROVE  SweepInv(d)'
<1>1. SweepInv(d) /\ d # None /\ pc'[d] = pc[d] /\ job'[d] = job[d]
  BY IndexSets DEF PublishInv, Alone
<1>2. dbLock' = d <=> dbLock = d
  BY <1>1 DEF Alone
<1>3. job[d].todo \subseteq Gens /\ job[d].claimed \subseteq Gens
  BY JobFields
<1>4. /\ pc'[d] \notin {"reaping", "retaining"} =>
           job'[d].todo = {} /\ job'[d].claimed = {} /\ dbLock' # d
      /\ job'[d].claimed # {} => dbLock' = d
  BY <1>1, <1>2 DEF SweepInv
<1>5. pc'[d] = "reaping" => \A h \in job'[d].claimed : gen'[h].state = "building"
  BY <1>1, <1>3 DEF SweepInv
<1>6. pc'[d] = "retaining" => \A h \in job'[d].todo \cup job'[d].claimed :
                                 gen'[h].done # 0 /\ Kept(h)'
  BY <1>1, <1>3 DEF SweepInv
<1> QED BY <1>4, <1>5, <1>6 DEF SweepInv

(* Who is about to revoke the build of another goes on to do so.           *)
LEMMA OtherRevoking ==
    ASSUME PublishInv, NEW c \in Callers, Alone(c), KeepsClaims(c),
           NEW d \in Callers \ {c}, pc[d] = "commit"
    PROVE  \A g : Revoking(g) => Revoking(g)'
<1> SUFFICES ASSUME NEW g, Revoking(g) PROVE Revoking(g)'
  OBVIOUS
<1>1. PICK e \in Callers : pc[e] = "reaping" /\ g \in job[e].claimed
  BY DEF Revoking
<1>2. CASE e # c
  BY <1>1, <1>2 DEF Alone, Revoking
<1>3. CASE e = c
  <2>1. ~serial
    BY <1>1, <1>3 DEF PublishInv, ModeInv
  <2> QED BY <1>1, <1>3, <2>1 DEF KeepsClaims, Revoking
<1> QED BY <1>2, <1>3

(* Steps that leave the generations alone.                                 *)
LEMMA QuietStep ==
    ASSUME TypeOK, PublishInv, NEW c \in Callers, Alone(c), KeepsOwn(c), KeepsClaims(c),
           gen' = gen, active' = active, CallerInv(c)'
    PROVE  PublishInv'
<1>1. Activated' = Activated /\ \A g \in Gens : Kept(g)' = Kept(g)
  BY SameDone
<1>2. RowsInv' /\ ActiveInv'
  <2>1. \A g \in Gens : RowInv(g)'
    BY <1>1 DEF PublishInv, RowsInv, RowInv
  <2>2. ActiveInv'
    BY <1>1 DEF PublishInv, ActiveInv
  <2> QED BY <2>1, <2>2 DEF RowsInv
<1>3. ASSUME NEW d \in Callers \ {c} PROVE CallerInv(d)'
  <2>1. OwnInv(d)'
    BY DEF PublishInv, OwnInv, Alone
  <2>2. CommitInv(d)'
    BY OtherRevoking DEF PublishInv, CommitInv, Alone
  <2>3. SweepInv(d)'
    BY <1>1, OtherSweeps DEF TypeOK, CallersOK
  <2> QED BY <2>1, <2>2, <2>3, OtherModes DEF CallerInv
<1>4. \A d \in Callers : CallerInv(d)'
  BY <1>3
<1> QED BY <1>2, <1>4, OwnersStep DEF PublishInv, CallerInv

(* What c may make of a row and a file without publishing it.              *)
RowAllowed(c, g, state, file) ==
    /\ state # "none"
    /\ state = "building" => gen[g].done = 0
    /\ state = "ready" => gen[g].done # 0
    /\ gen[g].done # 0 /\ file # "generation" => Kept(g)
    /\ g = active => state = "ready" /\ file = "generation"
    /\ \/ state = gen[g].state
       \/ \A d \in Callers \ {c} : g \notin job[d].claimed /\ (pc[d] \in MakePcs => job[d].g # g)
    /\ \/ file \in {gen[g].file, "generation"}
       \/ Revoking(g)'
       \/ \A d \in Callers \ {c} : pc[d] = "commit" => job[d].g # g

LEMMA RowStep ==
    ASSUME TypeOK, PublishInv, NEW c \in Callers, Alone(c), KeepsOwn(c), KeepsClaims(c),
           NEW g \in Gens, NEW state, NEW file, NEW text,
           Becomes(g, state, gen[g].done, file, text), active' = active,
           RowAllowed(c, g, state, file),
           CallerInv(c)'
    PROVE  PublishInv'
<1>0. \A h \in Gens : gen'[h].done = gen[h].done
  BY DEF Becomes
<1>1. Activated' = Activated /\ \A h \in Gens : Kept(h)' = Kept(h)
  BY <1>0, SameDone
<1>2. ASSUME NEW h \in Gens PROVE RowInv(h)'
  <2>1. CASE h = g
    BY <2>1, <1>0, <1>1 DEF PublishInv, RowsInv, RowInv, Becomes, RowAllowed
  <2>2. CASE h # g
    BY <2>2, <1>1 DEF PublishInv, RowsInv, RowInv, Becomes
  <2> QED BY <2>1, <2>2
<1>3. ActiveInv'
  <2>1. active # None => gen'[active].state = "ready" /\ gen'[active].file = "generation"
    BY DEF PublishInv, ActiveInv, Becomes, RowAllowed, TypeOK, StoresOK
  <2> QED BY <2>1, <1>0, <1>1 DEF PublishInv, ActiveInv, TypeOK, StoresOK
<1>4. ASSUME NEW d \in Callers \ {c} PROVE CallerInv(d)'
  <2>0. /\ OwnInv(d) /\ CommitInv(d) /\ pc'[d] = pc[d] /\ job'[d] = job[d]
        /\ \A h \in Gens \ {g} : gen'[h] = gen[h]
        /\ gen'[g].state = state /\ gen'[g].file = file /\ gen'[g].done = gen[g].done
    BY DEF PublishInv, Alone, Becomes
  <2>1. OwnInv(d)'
    BY <2>0, <1>0 DEF OwnInv, MakePcs, OwnPcs, RowAllowed
  <2>2. CommitInv(d)'
    <3> SUFFICES ASSUME pc[d] = "commit", gen'[job[d].g].state = "building",
                        gen'[job[d].g].file # "generation"
                 PROVE  Revoking(job[d].g)'
      BY <2>0 DEF CommitInv
    <3>1. job[d].g \in Gens
      BY <2>0 DEF OwnInv, OwnPcs
    <3>2. CASE job[d].g # g
      <4>1. Revoking(job[d].g)
        BY <2>0, <3>1, <3>2 DEF CommitInv
      <4> QED BY <4>1, <2>0, OtherRevoking DEF Revoking
    <3>3. CASE job[d].g = g
      <4>1. gen[g].state = "building"
        BY <2>0, <3>3 DEF MakePcs, RowAllowed
      <4>2. CASE file = gen[g].file
        <5>1. Revoking(g)
          BY <2>0, <3>3, <4>1, <4>2 DEF CommitInv
        <5> QED BY <5>1, <3>3, <2>0, OtherRevoking DEF Revoking
      <4> QED BY <2>0, <3>3, <4>2 DEF RowAllowed
    <3> QED BY <3>2, <3>3
  <2>3. SweepInv(d)'
    <3>1. \A h \in Gens : h \in job[d].claimed /\ gen[h].state = "building"
                              => gen'[h].state = "building"
      BY <2>0 DEF RowAllowed
    <3>2. job[d] \in Job
      BY DEF TypeOK, CallersOK
    <3> QED BY <1>0, <1>1, <3>1, <3>2, OtherSweeps
  <2> QED BY <2>1, <2>2, <2>3, OtherModes DEF CallerInv
<1>5. \A d \in Callers : CallerInv(d)'
  BY <1>4
<1> QED BY <1>2, <1>3, <1>5, OwnersStep DEF PublishInv, CallerInv, RowsInv

-----------------------------------------------------------------------------
(* The steps keep the types and the invariant.                             *)

Sweeps == {"reaping", "retaining"}

(* c goes on with the generation it builds.                                *)
GoesOn(c) ==
    /\ pc[c] \in OwnPcs /\ job'[c].g = job[c].g /\ pc'[c] # "commit"
    /\ pc'[c] \in MakePcs => pc[c] \in MakePcs
    /\ pc'[c] = "fail" => pc[c] \in MakePcs \cup {"fail"} \/ job[c].g # active

LEMMA ModeKept ==
    ASSUME PublishInv, NEW c \in Callers, serial' = serial, vault' = vault,
           job'[c].kind = job[c].kind, pc[c] \notin {"idle", "lock"}, pc'[c] # "lock",
           pc'[c] \in NotePcs => job[c].kind = "note", serial \in BOOLEAN
    PROVE  ModeInv(c)'
BY DEF PublishInv, ModeInv

LEMMA NothingClaimed ==
    ASSUME PublishInv, NEW c \in Callers, pc[c] \notin Sweeps
    PROVE  job[c].todo = {} /\ job[c].claimed = {} /\ dbLock # c
BY DEF PublishInv, SweepInv, Sweeps

LEMMA NoSweep ==
    ASSUME NEW c \in Callers, pc'[c] \notin Sweeps, dbLock' # c,
           job'[c].todo = {}, job'[c].claimed = {}
    PROVE  SweepInv(c)'
BY DEF SweepInv, Sweeps

LEMMA QuietOwn ==
    ASSUME TypeOK, PublishInv, NEW c \in Callers, gen' = gen, active' = active,
           pc'[c] \in OwnPcs => GoesOn(c)
    PROVE  OwnInv(c)' /\ CommitInv(c)' /\ KeepsOwn(c)
<1>1. OwnInv(c) /\ ActiveInv /\ RowsInv
  BY DEF PublishInv
<1>2. pc[c] \in MakePcs => pc[c] \in OwnPcs /\ job[c].g # active
  <2>1. pc[c] \in MakePcs => /\ pc[c] \in OwnPcs
                             /\ gen[job[c].g].state \in {"building", "failed"}
    BY <1>1 DEF OwnInv, MakePcs, OwnPcs
  <2>2. pc[c] \in OwnPcs => job[c].g # None
    BY <1>1, IndexSets DEF OwnInv, Gens
  <2> QED BY <1>1, <2>1, <2>2 DEF ActiveInv
<1>3. KeepsOwn(c)
  BY DEF KeepsOwn, GoesOn
<1>4. CommitInv(c)'
  BY DEF CommitInv, GoesOn, OwnPcs
<1>5. OwnInv(c)'
  <2>1. pc'[c] \in MakePcs \cup {"fail"} => pc'[c] \in OwnPcs
    BY DEF MakePcs, OwnPcs
  <2>2. pc'[c] \in OwnPcs => job'[c].g \in Gens /\ gen'[job'[c].g].state # "none"
    BY <1>1 DEF OwnInv, GoesOn
  <2>3. pc'[c] \in MakePcs => /\ gen'[job'[c].g].done = 0
                              /\ gen'[job'[c].g].state \in {"building", "failed"}
    BY <1>1, <2>1 DEF OwnInv, GoesOn
  <2>4. pc'[c] = "fail" => job'[c].g # active'
    BY <1>1, <1>2, <2>1 DEF OwnInv, GoesOn
  <2> QED BY <2>2, <2>3, <2>4 DEF OwnInv
<1> QED BY <1>3, <1>4, <1>5

LEMMA Proceeds ==
    ASSUME TypeOK, PublishInv, NEW c \in Callers, Alone(c), gen' = gen, active' = active,
           vault' = vault, dbLock' = dbLock, job'[c].kind = job[c].kind,
           job'[c].todo = job[c].todo, job'[c].claimed = job[c].claimed,
           pc[c] \notin {"idle", "lock"} \cup Sweeps, pc'[c] \notin {"lock"} \cup Sweeps,
           pc'[c] \in NotePcs => job[c].kind = "note",
           pc'[c] \in OwnPcs => GoesOn(c)
    PROVE  PublishInv'
<1>1. ModeInv(c)'
  BY ModeKept DEF Alone, TypeOK, StoresOK
<1>2. SweepInv(c)'
  BY NothingClaimed, NoSweep
<1>3. KeepsClaims(c)
  BY DEF KeepsClaims, Sweeps
<1> QED BY <1>1, <1>2, <1>3, QuietOwn, QuietStep DEF CallerInv

LEMMA RaisedIs ==
    ASSUME TypeOK, PublishInv, NEW c \in Callers, pc[c] # "idle"
    PROVE  /\ Raised(c) \in {"failed", "broken", "undo"}
           /\ Raised(c) \in NotePcs => job[c].kind = "note" /\ pre # None
<1>1. job[c].kind \in {"none", "sync", "note"}
  BY JobFields DEF TypeOK, CallersOK
<1>2. job[c].kind # "none"
  BY DEF PublishInv, ModeInv
<1> QED BY <1>1, <1>2 DEF Raised, NotePcs

(* A step of c that changes no lock.                                       *)
Steps(c, l) ==
    /\ Goes(c, l) /\ job' \in [Callers -> Job]
    /\ \A d \in Callers \ {c} : job'[d] = job[d]
    /\ UNCHANGED <<serial, vault, dbLock>>

LEMMA StepsAlone == ASSUME NEW c \in Callers, NEW l, Steps(c, l) PROVE Alone(c)
BY DEF Steps, Goes, Alone

LEMMA QuietTypes ==
    ASSUME TypeOK, NEW c \in Callers, Alone(c),
           UNCHANGED <<gen, active, rd>>, note' \in Versions, pre' \in Versions \cup {None},
           faults' \in Nat, edits' \in Nat
    PROVE  TypeOK'
BY DEF TypeOK, StoresOK, CallersOK, ReadersOK, Alone

LEMMA StartKeeps ==
    ASSUME TypeOK, PublishInv, NEW c \in Callers, NEW kind \in {"sync", "note"}, Start(c, kind)
    PROVE  TypeOK' /\ PublishInv'
<1>1. /\ pc[c] = "idle" /\ (~serial => kind = "sync")
      /\ Goes(c, IF serial THEN "lock" ELSE "reap")
      /\ Has(c, kind, 0, None, None, {}, {}, FALSE, FALSE, FALSE)
      /\ UNCHANGED <<stores, locks, rd, bounds>>
  BY StartDoes
<1>2. pc'[c] = (IF serial THEN "lock" ELSE "reap") /\ job'[c].kind = kind
  BY <1>1 DEF Goes, Has
<1>3. Alone(c)
  BY <1>1 DEF Alone, Goes, Has, locks, bounds
<1>4. ModeInv(c)'
  BY <1>1, <1>2 DEF ModeInv, NotePcs, bounds, TypeOK, StoresOK
<1>5. SweepInv(c)'
  BY <1>1, <1>2, NothingClaimed, NoSweep DEF Has, Sweeps, locks
<1>6. KeepsClaims(c) /\ pc'[c] \notin OwnPcs
  BY <1>1, <1>2 DEF KeepsClaims, OwnPcs
<1>7. PublishInv'
  BY <1>1, <1>3, <1>4, <1>5, <1>6, QuietOwn, QuietStep DEF CallerInv, stores
<1> QED BY <1>1, <1>3, <1>7, QuietTypes DEF stores, bounds, TypeOK, StoresOK

LEMMA TakeLockKeeps ==
    ASSUME TypeOK, PublishInv, NEW c \in Callers, TakeLock(c)
    PROVE  TypeOK' /\ PublishInv'
<1>1. /\ pc[c] = "lock" /\ vault = None /\ vault' = c
      /\ Goes(c, IF job[c].kind = "note" THEN "recover" ELSE "reap")
      /\ job' = job /\ UNCHANGED <<stores, dbLock, rd, bounds>>
  BY TakeLockDoes
<1>2. pc'[c] = (IF job[c].kind = "note" THEN "recover" ELSE "reap")
  BY <1>1 DEF Goes
<1>3. Alone(c)
  BY <1>1 DEF Alone, Goes, bounds, TypeOK, CallersOK
<1>4. ModeInv(c)'
  BY <1>1, <1>2 DEF ModeInv, PublishInv, NotePcs, bounds, TypeOK, StoresOK
<1>5. SweepInv(c)'
  BY <1>1, <1>2, NothingClaimed, NoSweep DEF Sweeps
<1>6. KeepsClaims(c) /\ pc'[c] \notin OwnPcs
  BY <1>1, <1>2 DEF KeepsClaims, OwnPcs
<1>7. PublishInv'
  BY <1>1, <1>3, <1>4, <1>5, <1>6, QuietOwn, QuietStep DEF CallerInv, stores
<1> QED BY <1>1, <1>3, <1>7, QuietTypes DEF stores, bounds, TypeOK, StoresOK

LEMMA LeaveKeeps ==
    ASSUME TypeOK, PublishInv, NEW c \in Callers, Leave(c)
    PROVE  TypeOK' /\ PublishInv'
<1>1. /\ pc[c] \in {"ok", "failed", "broken"}
      /\ vault' = (IF vault = c THEN None ELSE vault)
      /\ Goes(c, "idle")
      /\ Has(c, "none", 0, None, None, {}, {}, FALSE, FALSE, FALSE)
      /\ UNCHANGED <<stores, dbLock, rd, bounds>>
  BY LeaveDoes
<1>2. pc'[c] = "idle" /\ job'[c].kind = "none"
  BY <1>1 DEF Goes, Has
<1>3. Alone(c)
  BY <1>1 DEF Alone, Goes, Has, bounds
<1>4. ModeInv(c)'
  BY <1>2 DEF ModeInv, NotePcs
<1>5. SweepInv(c)'
  BY <1>1, <1>2, NothingClaimed, NoSweep DEF Has, Sweeps
<1>6. KeepsClaims(c) /\ pc'[c] \notin OwnPcs
  BY <1>1, <1>2 DEF KeepsClaims, OwnPcs
<1>7. PublishInv'
  BY <1>1, <1>3, <1>4, <1>5, <1>6, QuietOwn, QuietStep DEF CallerInv, stores
<1> QED BY <1>1, <1>3, <1>7, QuietTypes DEF stores, bounds, TypeOK, StoresOK

(* The steps of a mutation inside its file transaction.                    *)
LEMMA NoteKeeps ==
    ASSUME TypeOK, PublishInv, NEW c \in Callers,
           \/ Recover(c) \/ AppendReceipt(c) \/ Undo(c)
           \/ \E v \in Versions : WriteNote(c, v)
    PROVE  TypeOK' /\ PublishInv'
<1>1. /\ pc[c] \in NotePcs /\ rd' = rd /\ gen' = gen /\ active' = active
      /\ vault' = vault /\ dbLock' = dbLock /\ UNCHANGED bounds
      /\ note' \in Versions /\ pre' \in Versions \cup {None}
      /\ job' \in [Callers -> Job] /\ (\A d \in Callers \ {c} : job'[d] = job[d])
      /\ job'[c].kind = job[c].kind
      /\ job'[c].todo = job[c].todo /\ job'[c].claimed = job[c].claimed
      /\ \E l \in {"write", "ok", "reap", "failed"} : Goes(c, l)
  <2>0. TypeOK /\ note \in Versions /\ pre \in Versions \cup {None} /\ job \in [Callers -> Job]
    BY DEF TypeOK, StoresOK, CallersOK
  <2>1. CASE Recover(c) \/ AppendReceipt(c) \/ Undo(c)
    BY <2>0, <2>1, PlainDoes DEF NotePcs, RollBackNote, locks
  <2>2. CASE \E v \in Versions : WriteNote(c, v)
    BY <2>0, <2>2, WriteNoteDoes DEF NotePcs, Has, locks
  <2> QED BY <2>1, <2>2
<1>2. PICK l \in {"write", "ok", "reap", "failed"} : Goes(c, l)
  BY <1>1
<1>3. Alone(c)
  BY <1>1, <1>2, StepsAlone DEF Steps, bounds
<1>4. pc[c] \notin {"idle", "lock"} \cup Sweeps /\ pc'[c] \notin {"lock"} \cup Sweeps \cup OwnPcs
  BY <1>1, <1>2 DEF Goes, NotePcs, Sweeps, OwnPcs
<1>5. job[c].kind = "note"
  BY <1>1 DEF PublishInv, ModeInv
<1> QED BY <1>1, <1>3, <1>4, <1>5, Proceeds, QuietTypes DEF bounds, TypeOK, StoresOK

(* The steps of a build that only read.                                    *)
LEMMA ReadingKeeps ==
    ASSUME TypeOK, PublishInv, NEW c \in Callers,
           \/ TakeInventory(c) \/ Project(c) \/ Check(c) \/ ReadBack(c) \/ Report(c)
    PROVE  TypeOK' /\ PublishInv'
<1>1. /\ rd' = rd /\ gen' = gen /\ active' = active /\ note' = note /\ pre' = pre
      /\ vault' = vault /\ dbLock' = dbLock /\ UNCHANGED bounds
      /\ job' \in [Callers -> Job] /\ (\A d \in Callers \ {c} : job'[d] = job[d])
      /\ job'[c].kind = job[c].kind /\ job'[c].g = job[c].g
      /\ job'[c].todo = job[c].todo /\ job'[c].claimed = job[c].claimed
  <2>0. TypeOK /\ job \in [Callers -> Job]
    BY DEF TypeOK, CallersOK
  <2>1. CASE Check(c) \/ ReadBack(c)
    BY <2>0, <2>1, PlainDoes DEF stores, locks
  <2>2. CASE TakeInventory(c)
    BY <2>2, TakeInventoryDoes DEF Has, stores, locks
  <2>3. CASE Project(c)
    BY <2>3, ProjectDoes DEF Has, stores, locks
  <2>4. CASE Report(c)
    BY <2>4, ReportDoes DEF Has, stores, locks
  <2> QED BY <2>1, <2>2, <2>3, <2>4
<1>2. /\ pc[c] \in {"inventory", "project", "check", "readback", "published"}
      /\ \E l \in {"record", "failed", "broken", "undo", "check", "move", "fail", "retain",
                   "ok", "receipt"} :
            /\ Goes(c, l)
            /\ l \in NotePcs => job[c].kind = "note"
            /\ l \in OwnPcs => pc[c] \in OwnPcs
            /\ l = "fail" => pc[c] \in MakePcs \/ job[c].g # active
            /\ l \in MakePcs => pc[c] \in MakePcs
  <2> USE DEF NotePcs, OwnPcs, MakePcs
  <2>1. CASE TakeInventory(c)
    <3>1. pc[c] = "inventory" /\ Goes(c, IF Resolvable THEN "record" ELSE Raised(c))
      BY <2>1, TakeInventoryDoes
    <3>2. CASE Resolvable
      BY <3>1, <3>2
    <3>3. CASE ~Resolvable
      BY <3>1, <3>3, RaisedIs
    <3> QED BY <3>2, <3>3
  <2>2. CASE Project(c)
    BY <2>2, ProjectDoes
  <2>3. CASE Check(c)
    BY <2>3, PlainDoes
  <2>4. CASE ReadBack(c)
    <3>1. Resolvable
      BY DEF PublishInv, ActiveInv, Resolvable
    <3>2. /\ pc[c] = "readback"
          /\ Goes(c, IF active = job[c].g /\ Resolvable THEN "retain" ELSE "fail")
      BY <2>4, PlainDoes
    <3> QED BY <3>1, <3>2
  <2>5. CASE Report(c)
    <3>1. /\ pc[c] = "published"
          /\ Goes(c, IF job[c].kind = "sync" THEN "ok"
                     ELSE IF job[c].published THEN "failed" ELSE "receipt")
      BY <2>5, ReportDoes
    <3>2. job[c].kind \in {"sync", "note"}
      BY <3>1, JobFields DEF PublishInv, ModeInv, TypeOK, CallersOK
    <3> QED BY <3>1, <3>2
  <2> QED BY <2>1, <2>2, <2>3, <2>4, <2>5
<1>3. PICK l \in {"record", "failed", "broken", "undo", "check", "move", "fail", "retain",
                  "ok", "receipt"} :
            /\ Goes(c, l)
            /\ l \in NotePcs => job[c].kind = "note"
            /\ l \in OwnPcs => pc[c] \in OwnPcs
            /\ l = "fail" => pc[c] \in MakePcs \/ job[c].g # active
            /\ l \in MakePcs => pc[c] \in MakePcs
  BY <1>2
<1>4. Alone(c) /\ pc'[c] = l
  BY <1>1, <1>3, StepsAlone DEF Steps, Goes, bounds
<1>5. pc[c] \notin {"idle", "lock"} \cup Sweeps /\ l \notin {"lock"} \cup Sweeps
  BY <1>2 DEF Sweeps
<1>6. pc'[c] \in OwnPcs => GoesOn(c)
  BY <1>1, <1>3, <1>4 DEF GoesOn
<1>7. PublishInv'
  BY <1>1, <1>3, <1>4, <1>5, <1>6, Proceeds
<1> QED BY <1>1, <1>4, <1>7, QuietTypes DEF bounds, TypeOK, StoresOK

(* A sweep begins with what it has found, and has claimed nothing.         *)
LEMMA ScanKeeps ==
    ASSUME TypeOK, PublishInv, NEW c \in Callers, ScanStale(c) \/ ScanReady(c)
    PROVE  TypeOK' /\ PublishInv'
<1>1. PICK todo, l :
        /\ pc[c] \in {"reap", "retain"} /\ l \in {"inventory", "reaping", "published", "retaining"}
        /\ Goes(c, l)
        /\ Has(c, job[c].kind, job[c].g, job[c].snap, job[c].proj,
                  todo, job[c].claimed, job[c].published, job[c].agreed, job[c].edited)
        /\ l \notin Sweeps => todo = {}
        /\ l = "retaining" => \A h \in todo : gen[h].done # 0 /\ Kept(h)
        /\ UNCHANGED <<stores, locks, rd, bounds>>
  <2>1. CASE ScanStale(c)
    <3>1. PICK stale \in SUBSET (InState("building") \ {active}) :
              /\ pc[c] = "reap"
              /\ Goes(c, IF stale = {} THEN "inventory" ELSE "reaping")
              /\ Has(c, job[c].kind, job[c].g, job[c].snap, job[c].proj,
                        stale, job[c].claimed, job[c].published, job[c].agreed, job[c].edited)
              /\ UNCHANGED <<stores, locks, rd, bounds>>
      BY <2>1, ScanStaleDoes
    <3>2. CASE stale = {}
      BY <3>1, <3>2
    <3>3. CASE stale # {}
      BY <3>1, <3>3 DEF Sweeps
    <3> QED BY <3>2, <3>3
  <2>2. CASE ScanReady(c)
    <3> DEFINE old == InState("ready") \ Newest(InState("ready"), Retain)
    <3>1. /\ pc[c] = "retain"
          /\ Goes(c, IF old = {} THEN "published" ELSE "retaining")
          /\ Has(c, job[c].kind, job[c].g, job[c].snap, job[c].proj,
                    old, job[c].claimed, job[c].published, job[c].agreed, job[c].edited)
          /\ UNCHANGED <<stores, locks, rd, bounds>>
      BY <2>2, ScanReadyDoes
    <3>2. \A h \in old : gen[h].done # 0 /\ Kept(h)
      BY OldAreFollowed DEF PublishInv
    <3> HIDE DEF old
    <3>3. CASE old = {}
      BY <3>1, <3>3
    <3>4. CASE old # {}
      BY <3>1, <3>2, <3>4 DEF Sweeps
    <3> QED BY <3>3, <3>4
  <2> QED BY <2>1, <2>2
<1>2. /\ pc'[c] = l /\ job'[c].todo = todo /\ job'[c].claimed = {} /\ dbLock' # c
      /\ job'[c].kind = job[c].kind
  BY <1>1, NothingClaimed DEF Goes, Has, locks, Sweeps
<1>3. Alone(c)
  BY <1>1 DEF Alone, Goes, Has, locks, bounds
<1>4. ModeInv(c)'
  BY <1>1, <1>2, ModeKept DEF NotePcs, locks, bounds, TypeOK, StoresOK
<1>5. SweepInv(c)'
  <2>1. Activated' = Activated /\ \A g \in Gens : Kept(g)' = Kept(g)
    BY <1>1, SameDone DEF stores
  <2>2. job'[c].todo \subseteq Gens
    BY <1>1, <1>3, JobFields DEF Alone
  <2>3. pc'[c] = "retaining" => \A h \in job'[c].todo : gen'[h].done # 0 /\ Kept(h)'
    BY <1>1, <1>2, <2>1, <2>2 DEF stores
  <2> QED BY <1>1, <1>2, <2>3 DEF SweepInv, Sweeps
<1>6. KeepsClaims(c) /\ pc'[c] \notin OwnPcs
  BY <1>1, <1>2 DEF KeepsClaims, OwnPcs
<1>7. PublishInv'
  BY <1>1, <1>3, <1>4, <1>5, <1>6, QuietOwn, QuietStep DEF CallerInv, stores
<1> QED BY <1>1, <1>3, <1>7, QuietTypes DEF stores, bounds, TypeOK, StoresOK

LEMMA FaultCounts ==
    ASSUME TypeOK, NEW c \in Callers, Fault(c)
    PROVE  faults' \in Nat /\ edits' \in Nat /\ serial' = serial
<1>1. \E fault, at : Strikes(fault, at)
  <2>1. CASE Kill(c)
    BY <2>1 DEF Kill
  <2>2. CASE Error(c)
    BY <2>2 DEF Error
  <2>3. CASE UnlinkFails(c)
    BY <2>3 DEF UnlinkFails
  <2>4. CASE ReapUnlinkFails(c)
    BY <2>4 DEF ReapUnlinkFails
  <2> QED BY <2>1, <2>2, <2>3, <2>4 DEF Fault
<1> QED BY <1>1 DEF Strikes, TypeOK, StoresOK

(* No kill or error stops a reaper of another caller's builds.             *)
LEMMA ReaperSurvives ==
    ASSUME PublicationStands, serial \in Deployments, serial \in BOOLEAN, NEW at,
           <<"kill", at>> \in FaultPoints[serial] \/ <<"error", at>> \in FaultPoints[serial]
    PROVE  at = "reaping" => serial
BY DEF PublicationStands

LEMMA KillKeeps ==
    ASSUME TypeOK, PublishInv, PublicationStands, serial \in Deployments, NEW c \in Callers, Kill(c)
    PROVE  TypeOK' /\ PublishInv'
<1>1. /\ pc[c] # "idle" /\ <<"kill", pc[c]>> \in FaultPoints[serial]
      /\ serial' = serial
      /\ vault' = (IF vault = c THEN None ELSE vault)
      /\ dbLock' = (IF dbLock = c THEN None ELSE dbLock)
      /\ Goes(c, "idle")
      /\ Has(c, "none", 0, None, None, {}, {}, FALSE, FALSE, FALSE)
      /\ UNCHANGED <<stores, rd>>
  BY KillDoes
<1>2. pc'[c] = "idle" /\ job'[c].kind = "none"
  BY <1>1 DEF Goes, Has
<1>3. Alone(c)
  BY <1>1 DEF Alone, Goes, Has
<1>4. ModeInv(c)'
  BY <1>2 DEF ModeInv, NotePcs
<1>5. SweepInv(c)'
  BY <1>1, <1>2, NoSweep, IndexSets DEF Has, Sweeps
<1>6. KeepsClaims(c) /\ pc'[c] \notin OwnPcs
  BY <1>1, <1>2, ReaperSurvives DEF KeepsClaims, OwnPcs, TypeOK, StoresOK
<1>7. PublishInv'
  BY <1>1, <1>3, <1>4, <1>5, <1>6, QuietOwn, QuietStep DEF CallerInv, stores
<1>8. Fault(c)
  BY DEF Fault
<1> QED BY <1>1, <1>3, <1>7, <1>8, FaultCounts, QuietTypes DEF stores, TypeOK, StoresOK

LEMMA ErrorKeeps ==
    ASSUME TypeOK, PublishInv, PublicationStands, serial \in Deployments, NEW c \in Callers, Error(c)
    PROVE  TypeOK' /\ PublishInv'
<1>1. /\ pc[c] # "idle" /\ <<"error", pc[c]>> \in FaultPoints[serial]
      /\ serial' = serial
      /\ dbLock' = (IF dbLock = c THEN None ELSE dbLock)
      /\ Goes(c, Handled(c))
      /\ Has(c, job[c].kind, job[c].g, job[c].snap, job[c].proj,
                {}, {}, job[c].published, job[c].agreed, job[c].edited)
      /\ UNCHANGED <<stores, vault, rd>>
  BY ErrorDoes
<1>2. pc'[c] = Handled(c) /\ job'[c].kind = job[c].kind /\ job'[c].g = job[c].g
  BY <1>1 DEF Goes, Has
<1>3. Alone(c)
  BY <1>1 DEF Alone, Goes, Has
<1>4. pc[c] \in ErrorPcs
  BY <1>1 DEF PublicationStands, TypeOK, CallersOK
<1>5. /\ Handled(c) \in {"failed", "inventory", "broken", "undo", "fail"}
      /\ Handled(c) \in NotePcs => job[c].kind = "note"
      /\ Handled(c) = "fail" => pc[c] \in MakePcs
  <2>1. CASE pc[c] \in {"recover", "write", "reap", "reaping", "receipt"}
    BY <2>1 DEF Handled, NotePcs, PublishInv, ModeInv
  <2>2. CASE pc[c] \in {"inventory", "record", "fail"}
    BY <1>1, <2>2, RaisedIs DEF Handled
  <2>3. CASE pc[c] \in MakePcs
    BY <2>3 DEF Handled, MakePcs, NotePcs
  <2> QED BY <1>4, <2>1, <2>2, <2>3 DEF ErrorPcs, MakePcs
<1>6. ModeInv(c)'
  BY <1>1, <1>2, <1>4, <1>5, ModeKept DEF ErrorPcs, TypeOK, StoresOK
<1>7. SweepInv(c)'
  BY <1>1, <1>2, <1>5, NoSweep, IndexSets DEF Has, Sweeps
<1>8. KeepsClaims(c)
  BY <1>1, ReaperSurvives DEF KeepsClaims, TypeOK, StoresOK
<1>9. pc'[c] \in OwnPcs => GoesOn(c)
  BY <1>2, <1>5 DEF GoesOn, OwnPcs, MakePcs
<1>10. PublishInv'
  BY <1>1, <1>3, <1>6, <1>7, <1>8, <1>9, QuietOwn, QuietStep DEF CallerInv, stores
<1>11. Fault(c)
  BY DEF Fault
<1> QED BY <1>1, <1>3, <1>10, <1>11, FaultCounts, QuietTypes DEF stores, TypeOK, StoresOK

(* A sweep goes on.                                                        *)
LEMMA SweepGoesOn ==
    ASSUME TypeOK, PublishInv, NEW c \in Callers, pc[c] \in Sweeps, pc' = pc,
           NEW g \in job[c].todo, dbLock \in {None, c},
           \/ Claims(c, g)
           \/ Passes(c, g) /\ (dbLock' = c \/ dbLock' = dbLock),
           vault' = vault, serial' = serial
    PROVE  /\ Alone(c) /\ ModeInv(c)' /\ KeepsClaims(c) /\ KeepsOwn(c)
           /\ OwnInv(c)' /\ CommitInv(c)'
<1>1. /\ job' \in [Callers -> Job] /\ job'[c].kind = job[c].kind
      /\ \A d \in Callers \ {c} : job'[d] = job[d]
      /\ job[c].claimed \subseteq job'[c].claimed
  BY DEF Claims, Passes, Has
<1>2. Alone(c)
  BY <1>1 DEF Alone, Claims, TypeOK, CallersOK
<1>3. ModeInv(c)'
  BY <1>1, ModeKept DEF Sweeps, NotePcs, TypeOK, StoresOK
<1>4. KeepsClaims(c)
  BY <1>1 DEF KeepsClaims
<1>5. pc'[c] \notin OwnPcs \cup MakePcs \cup {"fail", "commit"}
  BY DEF Sweeps, OwnPcs, MakePcs
<1>6. KeepsOwn(c) /\ OwnInv(c)' /\ CommitInv(c)'
  BY <1>5 DEF KeepsOwn, OwnInv, CommitInv
<1> QED BY <1>2, <1>3, <1>4, <1>6

(* The newest generation has nobody after it.                              *)
LEMMA NewestKept ==
    ASSUME TypeOK, ActiveInv, NEW g \in Gens, Kept(g) PROVE g # active
<1> SUFFICES ASSUME g = active PROVE FALSE
  OBVIOUS
<1>0. \A h \in Gens : gen[h].done \in Nat
  BY DEF TypeOK, StoresOK, Row
<1>1. active # None
  BY IndexSets DEF Gens
<1>2. \A h \in Gens : ~(gen[h].done > gen[g].done)
  BY <1>0, <1>1 DEF ActiveInv
<1>3. After(g) = {}
  BY <1>2 DEF After
<1>4. Cardinality(After(g)) = 0
  BY <1>3, FS_EmptySet
<1> QED BY <1>4, IndexBounds DEF Kept

LEMMA UnlinkFailsKeeps ==
    ASSUME TypeOK, PublishInv, NEW c \in Callers, UnlinkFails(c) \/ ReapUnlinkFails(c)
    PROVE  TypeOK' /\ PublishInv'
<1>0. Fault(c)
  BY DEF Fault
<1>1. PICK g \in job[c].todo :
        /\ \/ /\ pc[c] = "retaining" /\ Passes(c, g) /\ dbLock' = dbLock
           \/ pc[c] = "reaping" /\ g \in Gens /\ gen[g].state = "building" /\ Claims(c, g)
        /\ UNCHANGED <<stores, vault, pc, rd, serial>>
  <2>1. CASE UnlinkFails(c)
    <3>1. PICK g \in job[c].todo :
              /\ pc[c] = "retaining" /\ Passes(c, g)
              /\ UNCHANGED <<stores, locks, pc, rd, serial>>
      BY <2>1, UnlinkFailsDoes
    <3> QED BY <3>1 DEF locks
  <2>2. CASE ReapUnlinkFails(c)
    BY <2>2, ReapUnlinkFailsDoes
  <2> QED BY <2>1, <2>2
<1>2. /\ Alone(c) /\ ModeInv(c)' /\ KeepsClaims(c) /\ KeepsOwn(c) /\ OwnInv(c)' /\ CommitInv(c)'
  <2>1. CASE pc[c] = "retaining" /\ Passes(c, g) /\ dbLock' = dbLock
    <3>1. Alone(c)
      BY <1>1, <2>1 DEF Alone, Passes, Has, TypeOK, CallersOK
    <3>2. ModeInv(c)'
      BY <1>1, <2>1, ModeKept DEF Passes, Has, NotePcs, TypeOK, StoresOK
    <3>3. KeepsClaims(c)
      BY <2>1 DEF KeepsClaims
    <3>4. pc'[c] \notin OwnPcs \cup MakePcs \cup {"fail", "commit"}
      BY <1>1, <2>1 DEF OwnPcs, MakePcs
    <3>5. KeepsOwn(c) /\ OwnInv(c)' /\ CommitInv(c)'
      BY <3>4 DEF KeepsOwn, OwnInv, CommitInv
    <3> QED BY <3>1, <3>2, <3>3, <3>5
  <2>2. CASE pc[c] = "reaping" /\ Claims(c, g)
    BY <1>1, <2>2, SweepGoesOn DEF Sweeps, Claims
  <2> QED BY <1>1, <2>1, <2>2
<1>3. SweepInv(c)'
  <2>0. SweepInv(c) /\ gen' = gen /\ pc' = pc
    BY <1>1 DEF PublishInv, stores
  <2>1. Activated' = Activated /\ \A h \in Gens : Kept(h)' = Kept(h)
    BY <2>0, SameDone
  <2>2. job[c].todo \subseteq Gens /\ job[c].claimed \subseteq Gens
    BY JobFields DEF TypeOK, CallersOK
  <2>3. CASE pc[c] = "retaining" /\ Passes(c, g) /\ dbLock' = dbLock
    <3>1. job'[c].todo \subseteq job[c].todo /\ job'[c].claimed = job[c].claimed
      BY <2>3 DEF Passes, Has
    <3> QED BY <2>0, <2>1, <2>2, <2>3, <3>1 DEF SweepInv
  <2>4. CASE pc[c] = "reaping" /\ gen[g].state = "building" /\ Claims(c, g)
    <3>1. job'[c].claimed = job[c].claimed \cup {g} /\ dbLock' = c
      BY <2>4 DEF Claims, Has
    <3> QED BY <2>0, <2>4, <3>1 DEF SweepInv
  <2> QED BY <1>1, <2>3, <2>4
<1>4. PublishInv'
  BY <1>1, <1>2, <1>3, QuietStep DEF CallerInv, stores
<1> QED BY <1>0, <1>1, <1>2, <1>4, FaultCounts, QuietTypes DEF stores, TypeOK, StoresOK

(* The reaper takes the file of a build, and says so.                      *)
LEMMA ClaimStaleKeeps ==
    ASSUME TypeOK, PublishInv, NEW c \in Callers, ClaimStale(c)
    PROVE  TypeOK' /\ PublishInv'
<1>1. PICK g \in job[c].todo :
        /\ pc[c] = "reaping" /\ g \in Gens
        /\ \/ /\ gen[g].state = "building" /\ Claims(c, g)
              /\ Becomes(g, gen[g].state, gen[g].done, "none", None)
           \/ /\ gen[g].state # "building" /\ Passes(c, g)
              /\ dbLock \in {None, c} /\ dbLock' = c /\ gen' = gen
        /\ UNCHANGED <<note, pre, active, vault, pc, rd, bounds>>
  BY ClaimStaleDoes
<1>2. /\ Alone(c) /\ ModeInv(c)' /\ KeepsClaims(c) /\ KeepsOwn(c) /\ OwnInv(c)' /\ CommitInv(c)'
  BY <1>1, SweepGoesOn DEF Sweeps, Claims, bounds
<1>3. /\ SweepInv(c) /\ RowInv(g) /\ ActiveInv
      /\ job[c].todo \subseteq Gens /\ job[c].claimed \subseteq Gens
  BY <1>1, JobFields DEF PublishInv, RowsInv, TypeOK, CallersOK
<1>4. CASE /\ gen[g].state = "building" /\ Claims(c, g)
           /\ Becomes(g, gen[g].state, gen[g].done, "none", None)
  <2>1. job'[c].claimed = job[c].claimed \cup {g} /\ dbLock' = c
    BY <1>4 DEF Claims, Has
  <2>2. \A h \in Gens : gen'[h].state = gen[h].state
    BY <1>4 DEF Becomes
  <2>3. SweepInv(c)'
    BY <1>1, <1>3, <1>4, <2>1, <2>2 DEF SweepInv
  <2>4. Revoking(g)'
    BY <1>1, <2>1 DEF Revoking
  <2>5. gen[g].done = 0 /\ g # active
    BY <1>3, <1>4, IndexSets DEF RowInv, ActiveInv, Gens
  <2>8. RowAllowed(c, g, gen[g].state, "none")
    BY <1>4, <2>4, <2>5 DEF RowAllowed
  <2>6. PublishInv'
    BY <1>1, <1>2, <1>4, <2>3, <2>8, RowStep DEF CallerInv
  <2>7. TypeOK'
    BY <1>1, <1>2, <1>4, <2>1 DEF TypeOK, StoresOK, CallersOK, ReadersOK, Alone, Becomes, bounds
  <2> QED BY <2>6, <2>7
<1>5. CASE gen[g].state # "building" /\ Passes(c, g) /\ dbLock' = c /\ gen' = gen
  <2>1. job'[c].claimed = job[c].claimed
    BY <1>5 DEF Passes, Has
  <2>2. SweepInv(c)'
    BY <1>1, <1>3, <1>5, <2>1 DEF SweepInv
  <2>3. PublishInv'
    BY <1>1, <1>2, <1>5, <2>2, QuietStep DEF CallerInv
  <2>4. TypeOK'
    BY <1>1, <1>2, <1>5 DEF TypeOK, StoresOK, CallersOK, ReadersOK, Alone, bounds
  <2> QED BY <2>3, <2>4
<1> QED BY <1>1, <1>4, <1>5

(* The retention takes the file of a generation that Retain have followed. *)
LEMMA RemoveOldKeeps ==
    ASSUME TypeOK, PublishInv, NEW c \in Callers, RemoveOld(c)
    PROVE  TypeOK' /\ PublishInv'
<1>1. PICK g \in job[c].todo :
        /\ pc[c] = "retaining" /\ g \in Gens /\ Claims(c, g)
        /\ Becomes(g, gen[g].state, gen[g].done, "none", None)
        /\ UNCHANGED <<note, pre, active, vault, pc, rd, bounds>>
  BY RemoveOldDoes
<1>2. /\ Alone(c) /\ ModeInv(c)' /\ KeepsClaims(c) /\ KeepsOwn(c) /\ OwnInv(c)' /\ CommitInv(c)'
  BY <1>1, SweepGoesOn DEF Sweeps, Claims, bounds
<1>3. /\ SweepInv(c) /\ RowInv(g) /\ ActiveInv
      /\ job[c].todo \subseteq Gens /\ job[c].claimed \subseteq Gens
  BY <1>1, JobFields DEF PublishInv, RowsInv, TypeOK, CallersOK
<1>4. /\ job'[c].claimed = job[c].claimed \cup {g} /\ dbLock' = c
      /\ job'[c].todo \subseteq job[c].todo
  BY <1>1 DEF Claims, Has
<1>5. gen[g].done # 0 /\ Kept(g)
  BY <1>1, <1>3 DEF SweepInv
<1>6. \A h \in Gens : gen'[h].done = gen[h].done
  BY <1>1 DEF Becomes
<1>7. Activated' = Activated /\ \A h \in Gens : Kept(h)' = Kept(h)
  BY <1>6, SameDone
<1>8. SweepInv(c)'
  <2>1. \A h \in job'[c].todo \cup job'[c].claimed :
           h \in Gens /\ gen'[h].done # 0 /\ Kept(h)'
    BY <1>1, <1>3, <1>4, <1>5, <1>6, <1>7 DEF SweepInv
  <2> QED BY <1>1, <1>4, <2>1 DEF SweepInv
<1>9. g # active
  BY <1>1, <1>5, NewestKept DEF PublishInv
<1>10. gen[g].state # "building" /\ gen[g].state # "none"
  BY <1>3, <1>5 DEF RowInv
<1>11. \A d \in Callers \ {c} : pc[d] = "commit" => job[d].g # g
  BY <1>5 DEF PublishInv, OwnInv, MakePcs
<1>14. RowAllowed(c, g, gen[g].state, "none")
  BY <1>3, <1>5, <1>9, <1>10, <1>11 DEF RowAllowed, RowInv
<1>12. PublishInv'
  BY <1>1, <1>2, <1>8, <1>14, RowStep DEF CallerInv
<1>13. TypeOK'
  BY <1>1, <1>2, <1>4 DEF TypeOK, StoresOK, CallersOK, ReadersOK, Alone, Becomes, bounds
<1> QED BY <1>12, <1>13

LEMMA CommittedType ==
    ASSUME TypeOK, Committed, active' \in Gens \cup {None}
    PROVE  ReadersOK'
<1>1. ASSUME NEW r \in Readers
      PROVE [rd[r] EXCEPT !.fp = FALSE, !.cache = None,
                  !.window = IF rd[r].pc = "idle" THEN {} ELSE @ \cup {active'}] \in Reader
  BY DEF TypeOK, ReadersOK, Reader
<1>2. Gens' = Gens
  BY DEF Gens
<1> QED BY <1>1 DEF Committed, ReadersOK, Reader, Gens

(* A sweep ends: the rows that it has claimed are committed.               *)
LEMMA CommitRowsKeeps ==
    ASSUME TypeOK, PublishInv, NEW c \in Callers, ReapCommit(c) \/ RetainCommit(c)
    PROVE  TypeOK' /\ PublishInv'
<1>0. \E state \in {"failed", "superseded"}, l \in {"inventory", "published"} :
         /\ CommitRows(c, state, l) /\ Committed
         /\ \/ pc[c] = "reaping" /\ state = "failed"
            \/ pc[c] = "retaining" /\ state = "superseded"
  BY DEF ReapCommit, RetainCommit
<1>1. PICK state \in {"failed", "superseded"}, l \in {"inventory", "published"} :
         /\ CommitRows(c, state, l) /\ Committed
         /\ \/ pc[c] = "reaping" /\ state = "failed"
            \/ pc[c] = "retaining" /\ state = "superseded"
  BY <1>0
<1>2. /\ job[c].todo = {} /\ Goes(c, l)
      /\ Has(c, job[c].kind, job[c].g, job[c].snap, job[c].proj,
                job[c].todo, {}, job[c].published, job[c].agreed, job[c].edited)
      /\ gen' \in [Gens -> Row]
      /\ \A g \in Gens : /\ gen'[g].state = (IF g \in job[c].claimed THEN state ELSE gen[g].state)
                         /\ gen'[g].done = gen[g].done /\ gen'[g].file = gen[g].file
                         /\ gen'[g].text = gen[g].text
      /\ dbLock' = (IF dbLock = c THEN None ELSE dbLock)
      /\ UNCHANGED <<note, pre, active, vault, bounds>>
  BY <1>1, CommitRowsDoes DEF PCs
<1>3. Alone(c) /\ pc'[c] = l /\ job'[c].claimed = {} /\ job'[c].todo = {}
      /\ job'[c].kind = job[c].kind /\ c # None
  BY <1>2, IndexSets DEF Alone, Goes, Has, bounds
<1>4. Activated' = Activated /\ \A h \in Gens : Kept(h)' = Kept(h)
  BY <1>2, SameDone
<1>5. ASSUME NEW h \in job[c].claimed
      PROVE  /\ h \in Gens /\ dbLock = c /\ h # active
             /\ \/ state = "failed" /\ gen[h].state = "building" /\ gen[h].done = 0
                \/ state = "superseded" /\ gen[h].done # 0 /\ gen[h].state # "building"
  <2>1. h \in Gens /\ dbLock = c /\ SweepInv(c) /\ RowInv(h) /\ ActiveInv
    BY JobFields DEF PublishInv, SweepInv, RowsInv, TypeOK, CallersOK
  <2>2. CASE pc[c] = "reaping"
    BY <1>1, <2>1, <2>2, IndexSets DEF SweepInv, RowInv, ActiveInv, Gens
  <2>3. CASE pc[c] = "retaining"
    <3>1. gen[h].done # 0 /\ Kept(h)
      BY <2>1, <2>3 DEF SweepInv
    <3> QED BY <1>1, <2>1, <2>3, <3>1, NewestKept DEF RowInv
  <2> QED BY <1>1, <2>2, <2>3
<1>6. ASSUME NEW h \in Gens PROVE RowInv(h)'
  BY <1>2, <1>4, <1>5 DEF PublishInv, RowsInv, RowInv
<1>7. ActiveInv'
  BY <1>2, <1>4, <1>5 DEF PublishInv, ActiveInv, TypeOK, StoresOK
<1>8. CallerInv(c)'
  <2>1. ModeInv(c)'
    BY <1>1, <1>2, <1>3, ModeKept DEF NotePcs, bounds, TypeOK, StoresOK
  <2>2. SweepInv(c)'
    BY <1>2, <1>3, NoSweep DEF Sweeps
  <2>3. OwnInv(c)' /\ CommitInv(c)'
    BY <1>3 DEF OwnInv, CommitInv, OwnPcs, MakePcs
  <2> QED BY <2>1, <2>2, <2>3 DEF CallerInv
<1>9. ASSUME NEW d \in Callers \ {c} PROVE CallerInv(d)'
  <2>0. /\ OwnInv(d) /\ CommitInv(d) /\ SweepInv(d) /\ pc'[d] = pc[d] /\ job'[d] = job[d]
        /\ job[d] \in Job
    BY <1>3 DEF PublishInv, Alone, TypeOK, CallersOK
  <2>1. OwnInv(d)'
    <3>1. pc[d] \in OwnPcs => job[d].g \in Gens /\ gen'[job[d].g].state # "none"
      BY <1>2, <2>0 DEF OwnInv
    <3>2. pc[d] \in MakePcs => /\ gen'[job[d].g].done = 0
                               /\ gen'[job[d].g].state \in {"building", "failed"}
      BY <1>2, <1>5, <2>0, <3>1 DEF OwnInv, MakePcs, OwnPcs
    <3> QED BY <1>2, <2>0, <3>1, <3>2 DEF OwnInv
  <2>2. CommitInv(d)'
    <3> SUFFICES ASSUME pc[d] = "commit", gen'[job[d].g].state = "building",
                        gen'[job[d].g].file # "generation"
                 PROVE  Revoking(job[d].g)'
      BY <2>0 DEF CommitInv
    <3>1. job[d].g \in Gens
      BY <2>0 DEF OwnInv, OwnPcs
    <3>2. job[d].g \notin job[c].claimed /\ gen[job[d].g].state = "building"
          /\ gen[job[d].g].file # "generation"
      BY <1>2, <1>5, <3>1
    <3>3. PICK e \in Callers : pc[e] = "reaping" /\ job[d].g \in job[e].claimed
      BY <2>0, <3>2 DEF CommitInv, Revoking
    <3>4. e # c
      BY <3>2, <3>3
    <3> QED BY <1>3, <2>0, <3>3, <3>4 DEF Alone, Revoking
  <2>3. SweepInv(d)'
    <3>1. \A h \in Gens : h \in job[d].claimed /\ gen[h].state = "building"
                              => gen'[h].state = "building"
      <4>1. job[d].claimed # {} => dbLock = d
        BY <2>0 DEF SweepInv
      <4> QED BY <1>2, <1>5, <4>1
    <3> QED BY <1>2, <1>3, <1>4, <2>0, <3>1, OtherSweeps
  <2> QED BY <1>3, <2>1, <2>2, <2>3, OtherModes DEF CallerInv
<1>10. KeepsOwn(c)
  BY <1>3 DEF KeepsOwn, OwnPcs
<1>11. \A d \in Callers : CallerInv(d)'
  BY <1>8, <1>9
<1>12. PublishInv'
  BY <1>3, <1>6, <1>7, <1>10, <1>11, OwnersStep DEF PublishInv, CallerInv, RowsInv
<1>13. ReadersOK'
  BY <1>1, <1>2, CommittedType DEF TypeOK, StoresOK
<1>14. TypeOK'
  BY <1>2, <1>3, <1>13 DEF TypeOK, StoresOK, CallersOK, Alone, bounds
<1> QED BY <1>12, <1>14

(* While nobody holds the write lock, nobody has claimed anything.         *)
LEMMA NoneClaimed ==
    ASSUME PublishInv, dbLock = None
    PROVE  /\ \A d \in Callers : job[d].claimed = {}
           /\ \A g : ~Revoking(g)
<1>1. \A d \in Callers : d # None /\ SweepInv(d)
  BY IndexSets DEF PublishInv
<1> QED BY <1>1 DEF SweepInv, Revoking

LEMMA RecordBuildingKeeps ==
    ASSUME TypeOK, PublishInv, NEW c \in Callers, RecordBuilding(c)
    PROVE  TypeOK' /\ PublishInv'
<1>1. PICK g \in Gens :
        /\ pc[c] = "record" /\ dbLock = None /\ gen[g].state = "none"
        /\ Becomes(g, "building", gen[g].done, gen[g].file, gen[g].text)
        /\ Goes(c, "build")
        /\ Has(c, job[c].kind, g, job[c].snap, job[c].proj,
                  job[c].todo, job[c].claimed,
                  job[c].published, job[c].agreed, job[c].edited)
        /\ UNCHANGED <<note, pre, active, locks, bounds>> /\ Committed
  BY RecordBuildingDoes
<1>2. Alone(c) /\ pc'[c] = "build" /\ job'[c].g = g /\ job'[c].kind = job[c].kind
      /\ job'[c].todo = job[c].todo /\ job'[c].claimed = job[c].claimed
  BY <1>1 DEF Alone, Goes, Has, locks, bounds
<1>3. gen[g].done = 0 /\ g # active
  BY <1>1, IndexSets DEF PublishInv, RowsInv, RowInv, ActiveInv, Gens
<1>4. gen'[g].state = "building" /\ gen'[g].done = 0
  BY <1>1, <1>3 DEF Becomes
<1>5. ModeInv(c)'
  BY <1>1, <1>2, ModeKept DEF NotePcs, locks, bounds, TypeOK, StoresOK
<1>6. SweepInv(c)'
  BY <1>1, <1>2, NothingClaimed, NoSweep DEF Sweeps, locks
<1>7. OwnInv(c)' /\ CommitInv(c)'
  BY <1>2, <1>4 DEF OwnInv, CommitInv, OwnPcs, MakePcs
<1>8. KeepsOwn(c) /\ KeepsClaims(c)
  BY <1>1, <1>2 DEF KeepsOwn, KeepsClaims
<1>9. /\ \A d \in Callers \ {c} : g \notin job[d].claimed
      /\ \A d \in Callers \ {c} : pc[d] \in MakePcs => job[d].g # g
  BY <1>1, NoneClaimed DEF PublishInv, OwnInv
<1>10. PublishInv'
  <2>1. CallerInv(c)' /\ active' = active
    BY <1>1, <1>5, <1>6, <1>7 DEF CallerInv
  <2>2. Becomes(g, "building", gen[g].done, gen[g].file, gen[g].text)
    BY <1>1
  <2>3. RowAllowed(c, g, "building", gen[g].file)
    BY <1>3, <1>9 DEF RowAllowed
  <2> QED BY <1>2, <1>8, <2>1, <2>2, <2>3, RowStep
<1>11. ReadersOK'
  BY <1>1, CommittedType DEF TypeOK, StoresOK
<1>12. TypeOK'
  BY <1>1, <1>2, <1>11 DEF TypeOK, StoresOK, CallersOK, Alone, Becomes, locks, bounds
<1> QED BY <1>10, <1>12

(* What c knows of the generation that it builds.                          *)
LEMMA OwnFacts ==
    ASSUME TypeOK, PublishInv, NEW c \in Callers, pc[c] \in MakePcs \cup {"fail"}
    PROVE  /\ job[c].g \in Gens /\ gen[job[c].g].state # "none" /\ job[c].g # active
           /\ pc[c] \in OwnPcs
           /\ pc[c] \in MakePcs => /\ gen[job[c].g].done = 0
                                   /\ gen[job[c].g].state \in {"building", "failed"}
           /\ \A d \in Callers \ {c} : pc[d] \in OwnPcs => job[d].g # job[c].g
<1>1. pc[c] \in OwnPcs
  BY DEF MakePcs, OwnPcs
<1>2. OwnInv(c) /\ ActiveInv
  BY DEF PublishInv
<1>3. job[c].g \in Gens /\ job[c].g # None
  BY <1>1, <1>2, IndexSets DEF OwnInv, Gens
<1>4. \A d \in Callers \ {c} : pc[d] \in OwnPcs => job[d].g # job[c].g
  BY <1>1 DEF PublishInv, OwnersDiffer
<1>5. pc[c] \in MakePcs => /\ gen[job[c].g].done = 0
                           /\ gen[job[c].g].state \in {"building", "failed"}
  BY <1>2 DEF OwnInv
<1>6. job[c].g # active
  BY <1>2, <1>3, <1>5 DEF OwnInv, ActiveInv
<1> QED BY <1>1, <1>2, <1>3, <1>4, <1>5, <1>6 DEF OwnInv

(* The steps that write or move the file being built.                      *)
LEMMA FileKeeps ==
    ASSUME TypeOK, PublishInv, NEW c \in Callers, Build(c) \/ Move(c) \/ PublishRevoked(c)
    PROVE  TypeOK' /\ PublishInv'
<1>0. pc[c] \in {"build", "move", "commit"}
  BY DEF Build, Move, PublishRevoked
<1>1. /\ job[c].g \in Gens /\ job[c].g # active /\ gen[job[c].g].done = 0
      /\ gen[job[c].g].state \in {"building", "failed"} /\ pc[c] \in OwnPcs
      /\ \A d \in Callers \ {c} : pc[d] \in OwnPcs => job[d].g # job[c].g
  BY <1>0, OwnFacts DEF MakePcs
<1> DEFINE g == job[c].g
<1>2. Resolvable
  BY DEF PublishInv, ActiveInv, Resolvable
<1>3. /\ UNCHANGED <<note, pre, active, locks, job, rd, bounds>>
      /\ \/ \E l \in {"project", "commit", "fail"}, file \in {"staging", "generation", "none"} :
            \E text :
              /\ Goes(c, l) /\ Becomes(g, gen[g].state, gen[g].done, file, text)
              /\ l = "commit" => file = "generation"
         \/ gen' = gen /\ Goes(c, "fail")
  <2>1. CASE Build(c)
    BY <1>1, <1>2, <2>1, BuildDoes
  <2>2. CASE Move(c)
    BY <1>1, <2>2, MoveDoes
  <2>3. CASE PublishRevoked(c)
    BY <1>1, <2>3, PublishRevokedDoes
  <2> QED BY <2>1, <2>2, <2>3
<1>4. CASE gen' = gen /\ Goes(c, "fail")
  <2>1. Alone(c) /\ pc'[c] = "fail"
    BY <1>3, <1>4 DEF Alone, Goes, locks, bounds, TypeOK, CallersOK
  <2>2. GoesOn(c)
    BY <1>0, <1>1, <1>3, <2>1 DEF GoesOn, MakePcs
  <2>3. PublishInv'
    BY <1>0, <1>3, <1>4, <2>1, <2>2, Proceeds DEF NotePcs, Sweeps, locks
  <2> QED BY <1>3, <1>4, <2>1, <2>3, QuietTypes DEF bounds, TypeOK, StoresOK
<1>5. ASSUME NEW l \in {"project", "commit", "fail"},
             NEW file \in {"staging", "generation", "none"}, NEW text,
             Goes(c, l), Becomes(g, gen[g].state, gen[g].done, file, text),
             l = "commit" => file = "generation"
      PROVE  TypeOK' /\ PublishInv'
  <2>1. Alone(c) /\ pc'[c] = l /\ job' = job
    BY <1>3, <1>5 DEF Alone, Goes, locks, bounds, TypeOK, CallersOK
  <2>2. gen'[g].state = gen[g].state /\ gen'[g].done = 0 /\ gen'[g].file = file
    BY <1>1, <1>5 DEF Becomes
  <2>3. ModeInv(c)'
    BY <1>0, <1>3, <2>1, ModeKept DEF NotePcs, locks, bounds, TypeOK, StoresOK
  <2>4. SweepInv(c)'
    BY <1>0, <1>3, <2>1, NothingClaimed, NoSweep DEF Sweeps, locks
  <2>5. OwnInv(c)'
    BY <1>1, <1>3, <2>1, <2>2 DEF OwnInv
  <2>6. CommitInv(c)'
    BY <1>5, <2>1, <2>2 DEF CommitInv
  <2>7. KeepsOwn(c) /\ KeepsClaims(c)
    BY <1>0, <1>1, <2>1 DEF KeepsOwn, KeepsClaims
  <2>8. \A d \in Callers \ {c} : pc[d] = "commit" => job[d].g # g
    BY <1>1 DEF OwnPcs
  <2>9. RowAllowed(c, g, gen[g].state, file)
    BY <1>1, <2>8 DEF RowAllowed, PublishInv, RowsInv, RowInv
  <2>11. PublishInv'
    BY <1>1, <1>3, <1>5, <2>1, <2>3, <2>4, <2>5, <2>6, <2>7, <2>9, RowStep DEF CallerInv
  <2>10. TypeOK'
    BY <1>3, <1>5, <2>1 DEF TypeOK, StoresOK, CallersOK, ReadersOK, Alone, Becomes, locks, bounds
  <2> QED BY <2>10, <2>11
<1> QED BY <1>3, <1>4, <1>5

LEMMA RecordFailureKeeps ==
    ASSUME TypeOK, PublishInv, NEW c \in Callers, RecordFailure(c)
    PROVE  TypeOK' /\ PublishInv'
<1>0. pc[c] = "fail"
  BY DEF RecordFailure
<1>1. /\ job[c].g \in Gens /\ job[c].g # active
      /\ \A d \in Callers \ {c} : pc[d] \in OwnPcs => job[d].g # job[c].g
  BY <1>0, OwnFacts
<1> DEFINE g == job[c].g
           staged == gen[g].file = "staging"
           file == IF staged THEN "none" ELSE gen[g].file
           text == IF staged THEN None ELSE gen[g].text
<1>2. /\ dbLock = None /\ Becomes(g, "failed", gen[g].done, file, text)
      /\ Goes(c, Raised(c))
      /\ Has(c, job[c].kind, job[c].g, None, None, job[c].todo, job[c].claimed,
                job[c].published, job[c].agreed, job[c].edited)
      /\ UNCHANGED <<note, pre, active, locks, bounds>> /\ Committed
  BY <1>1, RecordFailureDoes
<1>3. Alone(c) /\ pc'[c] = Raised(c) /\ job'[c].kind = job[c].kind
      /\ job'[c].todo = job[c].todo /\ job'[c].claimed = job[c].claimed
  BY <1>2 DEF Alone, Goes, Has, locks, bounds
<1>4. /\ Raised(c) \in {"failed", "broken", "undo"}
      /\ Raised(c) \in NotePcs => job[c].kind = "note"
  BY <1>0, RaisedIs
<1>5. ModeInv(c)'
  BY <1>0, <1>2, <1>3, <1>4, ModeKept DEF locks, bounds, TypeOK, StoresOK
<1>6. SweepInv(c)'
  BY <1>0, <1>2, <1>3, <1>4, NothingClaimed, NoSweep DEF Sweeps, locks
<1>7. OwnInv(c)' /\ CommitInv(c)' /\ KeepsOwn(c) /\ KeepsClaims(c)
  BY <1>0, <1>3, <1>4 DEF OwnInv, CommitInv, OwnPcs, MakePcs, KeepsOwn, KeepsClaims
<1>8. /\ \A d \in Callers \ {c} : g \notin job[d].claimed
      /\ \A d \in Callers \ {c} : pc[d] \in MakePcs => job[d].g # g
      /\ \A d \in Callers \ {c} : pc[d] = "commit" => job[d].g # g
  BY <1>1, <1>2, NoneClaimed DEF OwnPcs, MakePcs
<1>9. gen[g].done # 0 /\ file # "generation" => Kept(g)
  BY <1>1 DEF PublishInv, RowsInv, RowInv
<1> HIDE DEF file, text
<1>10. PublishInv'
  <2>1. CallerInv(c)' /\ active' = active
    BY <1>2, <1>5, <1>6, <1>7 DEF CallerInv
  <2>2. Becomes(g, "failed", gen[g].done, file, text)
    BY <1>2
  <2>3. RowAllowed(c, g, "failed", file)
    BY <1>1, <1>8, <1>9 DEF RowAllowed
  <2> QED BY <1>1, <1>3, <1>7, <2>1, <2>2, <2>3, RowStep
<1>11. ReadersOK'
  BY <1>2, CommittedType DEF TypeOK, StoresOK
<1>12. TypeOK'
  BY <1>2, <1>3, <1>11 DEF TypeOK, StoresOK, CallersOK, Alone, Becomes, locks, bounds
<1> QED BY <1>10, <1>12

LEMMA PublishKeeps ==
    ASSUME TypeOK, PublishInv, NEW c \in Callers, Publish(c)
    PROVE  TypeOK' /\ PublishInv'
<1>0. pc[c] = "commit"
  BY DEF Publish
<1>1. /\ job[c].g \in Gens /\ gen[job[c].g].done = 0 /\ pc[c] \in OwnPcs
      /\ \A d \in Callers \ {c} : pc[d] \in OwnPcs => job[d].g # job[c].g
  BY <1>0, OwnFacts DEF MakePcs
<1> DEFINE g == job[c].g
<1>2. /\ dbLock = None /\ gen[g].state = "building"
      /\ Becomes(g, "ready", Cardinality(Activated) + 1, gen[g].file, gen[g].text)
      /\ active' = g /\ Goes(c, "readback")
      /\ Has(c, job[c].kind, job[c].g, None, None, job[c].todo, job[c].claimed,
                job[c].published, job[c].agreed, job[c].edited)
      /\ UNCHANGED <<note, pre, locks, bounds>> /\ Committed
  BY <1>1, PublishDoes
<1>3. gen[g].file = "generation"
  BY <1>0, <1>2, NoneClaimed DEF PublishInv, CommitInv
<1>4. /\ gen' \in [Gens -> Row] /\ \A h \in Gens \ {g} : gen'[h] = gen[h]
      /\ gen'[g].state = "ready" /\ gen'[g].done = Cardinality(Activated) + 1
      /\ gen'[g].file = "generation"
  BY <1>2, <1>3 DEF Becomes
<1>5. /\ Cardinality(Activated)' = Cardinality(Activated) + 1
      /\ \A h \in Gens : gen[h].done < gen'[g].done
      /\ \A h \in Gens : gen[h].done # 0 /\ Kept(h) => Kept(h)'
  BY <1>1, <1>4, OneMore DEF PublishInv
<1>6. Cardinality(Activated) \in Nat /\ \A h \in Gens : gen[h].done \in Nat
  <2>1. Activated \in SUBSET Gens
    BY DEF Activated
  <2> QED BY <2>1, GensFinite DEF TypeOK, StoresOK, Row
<1>7. Alone(c) /\ pc'[c] = "readback" /\ job'[c].g = g /\ job'[c].kind = job[c].kind
      /\ job'[c].todo = job[c].todo /\ job'[c].claimed = job[c].claimed
  BY <1>2 DEF Alone, Goes, Has, locks, bounds
<1>8. ASSUME NEW h \in Gens PROVE RowInv(h)'
  <2>1. CASE h = g
    BY <1>4, <1>5, <1>6, <2>1 DEF RowInv
  <2>2. CASE h # g
    BY <1>4, <1>5, <1>6, <2>2 DEF PublishInv, RowsInv, RowInv
  <2> QED BY <2>1, <2>2
<1>9. ActiveInv'
  <2>1. g # None
    BY <1>1, IndexSets DEF Gens
  <2> QED BY <1>2, <1>4, <1>5, <2>1 DEF ActiveInv, Gens
<1>10. CallerInv(c)'
  <2>1. ModeInv(c)'
    BY <1>0, <1>2, <1>7, ModeKept DEF NotePcs, locks, bounds, TypeOK, StoresOK
  <2>2. SweepInv(c)'
    BY <1>0, <1>2, <1>7, NothingClaimed, NoSweep DEF Sweeps, locks
  <2>3. OwnInv(c)' /\ CommitInv(c)'
    BY <1>1, <1>4, <1>7 DEF OwnInv, CommitInv, MakePcs
  <2> QED BY <2>1, <2>2, <2>3 DEF CallerInv
<1>11. ASSUME NEW d \in Callers \ {c} PROVE CallerInv(d)'
  <2>0. /\ OwnInv(d) /\ CommitInv(d) /\ pc'[d] = pc[d] /\ job'[d] = job[d] /\ job[d] \in Job
    BY <1>7 DEF PublishInv, Alone, TypeOK, CallersOK
  <2>1. pc[d] \in OwnPcs => job[d].g \in Gens \ {g}
    BY <1>1, <2>0 DEF OwnInv
  <2>2. OwnInv(d)'
    BY <1>2, <1>4, <2>0, <2>1 DEF OwnInv, MakePcs, OwnPcs
  <2>3. CommitInv(d)'
    BY <1>2, <1>4, <2>0, <2>1, NoneClaimed DEF CommitInv, OwnPcs
  <2>4. SweepInv(d)'
    <3>1. job[d].claimed = {}
      BY <1>2, NoneClaimed
    <3>2. \A h \in Gens : gen[h].done # 0 => gen'[h].done # 0 /\ (Kept(h) => Kept(h)')
      BY <1>1, <1>4, <1>5
    <3> QED BY <1>7, <2>0, <3>1, <3>2, OtherSweeps
  <2> QED BY <1>7, <2>2, <2>3, <2>4, OtherModes DEF CallerInv
<1>12. KeepsOwn(c)
  BY <1>1, <1>7 DEF KeepsOwn
<1>13. \A d \in Callers : CallerInv(d)'
  BY <1>10, <1>11
<1>14. PublishInv'
  BY <1>7, <1>8, <1>9, <1>12, <1>13, OwnersStep DEF PublishInv, CallerInv, RowsInv
<1>15. ReadersOK'
  BY <1>1, <1>2, CommittedType
<1>16. TypeOK'
  BY <1>1, <1>2, <1>4, <1>7, <1>15 DEF TypeOK, StoresOK, CallersOK, Alone, locks, bounds
<1> QED BY <1>14, <1>16

-----------------------------------------------------------------------------
(* The readers, and the programs that edit notes.                          *)

(* Nothing that the invariant of the publishers speaks of changes.         *)
LEMMA SameCallers ==
    ASSUME TypeOK, PublishInv, UNCHANGED <<gen, active, locks, pc, serial>>,
           \A c \in Callers : /\ job'[c].kind = job[c].kind /\ job'[c].g = job[c].g
                              /\ job'[c].todo = job[c].todo
                              /\ job'[c].claimed = job[c].claimed
    PROVE  PublishInv'
<1>1. Activated' = Activated /\ \A g \in Gens : Kept(g)' = Kept(g)
  BY SameDone
<1>2. RowsInv' /\ ActiveInv'
  <2>1. \A g \in Gens : RowInv(g)'
    BY <1>1 DEF PublishInv, RowsInv, RowInv
  <2>2. ActiveInv'
    BY <1>1 DEF PublishInv, ActiveInv
  <2> QED BY <2>1, <2>2 DEF RowsInv
<1>3. ASSUME NEW c \in Callers PROVE ModeInv(c)' /\ OwnInv(c)' /\ SweepInv(c)' /\ CommitInv(c)'
  <2>0. ModeInv(c) /\ OwnInv(c) /\ SweepInv(c) /\ CommitInv(c)
        /\ job[c].todo \subseteq Gens /\ job[c].claimed \subseteq Gens
    BY JobFields DEF PublishInv, TypeOK, CallersOK
  <2>1. ModeInv(c)'
    BY <2>0 DEF ModeInv, locks
  <2>2. OwnInv(c)'
    BY <2>0 DEF OwnInv
  <2>3. SweepInv(c)'
    BY <1>1, <2>0 DEF SweepInv, locks
  <2>4. CommitInv(c)'
    BY <2>0 DEF CommitInv, Revoking
  <2> QED BY <2>1, <2>2, <2>3, <2>4
<1>4. \A c, d \in Callers : OwnersDiffer(c, d)'
  BY DEF PublishInv, OwnersDiffer
<1> QED BY <1>2, <1>3, <1>4 DEF PublishInv

LEMMA ReaderTypes ==
    ASSUME TypeOK, PublishInv, NEW r \in Readers, Read(r)
    PROVE  ReadersOK'
<1>0. rd[r] \in Reader /\ rd \in [Readers -> Reader] /\ active \in Gens \cup {None}
      /\ Gens' = Gens
  BY DEF TypeOK, ReadersOK, StoresOK, Gens
<1>1. \E x \in Reader : rd' = [rd EXCEPT ![r] = x]
  <2>0. [NoRead EXCEPT !.cache = rd[r].cache] \in Reader
    BY <1>0 DEF Reader, NoRead
  <2>1. CASE Fingerprint(r)
    <3>1. [rd[r] EXCEPT !.pc = "cache", !.fp = TRUE, !.window = {active}] \in Reader
      BY <1>0 DEF Reader
    <3> QED BY <1>0, <2>1, <3>1 DEF Fingerprint
  <2>2. CASE AskCache(r)
    <3> DEFINE hit == rd[r].cache # None /\ rd[r].fp /\ gen[rd[r].cache].file = "generation"
    <3>1. [rd[r] EXCEPT !.pc = IF hit THEN "held" ELSE "read",
                        !.g = IF hit THEN rd[r].cache ELSE None] \in Reader
      BY <1>0 DEF Reader
    <3> QED BY <1>0, <2>2, <3>1 DEF AskCache
  <2>3. CASE ReadRow(r)
    <3>1. [rd[r] EXCEPT !.pc = "verify", !.g = active] \in Reader
      BY <1>0 DEF Reader
    <3> QED BY <1>0, <2>0, <2>3, <3>1 DEF ReadRow, EndRead
  <2>4. CASE VerifyFile(r)
    <3>1. [rd[r] EXCEPT !.pc = "held", !.cache = IF rd[r].fp THEN rd[r].g ELSE None] \in Reader
      BY <1>0 DEF Reader
    <3> QED BY <1>0, <2>0, <2>4, <3>1 DEF VerifyFile, EndRead
  <2>5. CASE Release(r)
    BY <1>0, <2>0, <2>5 DEF Release, EndRead
  <2> QED BY <2>1, <2>2, <2>3, <2>4, <2>5 DEF Read
<1> QED BY <1>0, <1>1 DEF ReadersOK, Reader

LEMMA ReadChanges ==
    ASSUME NEW r \in Readers, Read(r)
    PROVE  UNCHANGED <<stores, locks, pc, job, bounds>>
BY DEF Read, Fingerprint, AskCache, ReadRow, VerifyFile, Release

LEMMA OthersKeep ==
    ASSUME TypeOK, PublishInv,
           \/ \E r \in Readers : Read(r)
           \/ \E v \in Versions : Edit(v)
           \/ RecoverElsewhere
           \/ UNCHANGED indexVars
    PROVE  TypeOK' /\ PublishInv'
<1>1. CASE \E r \in Readers : Read(r)
  <2>1. UNCHANGED <<stores, locks, pc, job, bounds>> /\ ReadersOK'
    BY <1>1, ReadChanges, ReaderTypes
  <2>2. PublishInv'
    BY <2>1, SameCallers DEF stores, bounds
  <2> QED BY <2>1, <2>2 DEF TypeOK, StoresOK, CallersOK, stores, locks, bounds
<1>2. CASE \E v \in Versions : Edit(v)
  <2>1. PICK v \in Versions : Edit(v)
    BY <1>2
  <2>2. /\ note' = v /\ job' \in [Callers -> Job]
        /\ \A c \in Callers : /\ job'[c].kind = job[c].kind /\ job'[c].g = job[c].g
                              /\ job'[c].todo = job[c].todo
                              /\ job'[c].claimed = job[c].claimed
        /\ UNCHANGED <<pre, gen, active, locks, pc, rd, serial>>
    BY <2>1, EditDoes
  <2>3. PublishInv'
    BY <2>2, SameCallers
  <2>4. faults' \in Nat /\ edits' \in Nat
    BY <2>1 DEF Edit, TypeOK, StoresOK
  <2> QED BY <2>2, <2>3, <2>4 DEF TypeOK, StoresOK, CallersOK, ReadersOK, locks
<1>3. CASE RecoverElsewhere
  <2>1. /\ UNCHANGED <<gen, active, locks, pc, job, rd, bounds>>
        /\ note' \in Versions /\ pre' \in Versions \cup {None}
    BY <1>3 DEF RecoverElsewhere, RollBackNote, TypeOK, StoresOK
  <2>2. PublishInv'
    BY <2>1, SameCallers DEF bounds
  <2> QED BY <2>1, <2>2 DEF TypeOK, StoresOK, CallersOK, ReadersOK, locks, bounds
<1>4. CASE UNCHANGED indexVars
  <2>1. PublishInv'
    BY <1>4, SameCallers DEF indexVars, stores, bounds
  <2> QED BY <1>4, <2>1 DEF indexVars, stores, locks, bounds, TypeOK, StoresOK, CallersOK, ReadersOK
<1> QED BY <1>1, <1>2, <1>3, <1>4

-----------------------------------------------------------------------------
(* The invariant of the publishers holds.                                  *)

LEMMA PublishInit == Init => PublishInv
<1> SUFFICES ASSUME Init PROVE PublishInv
  OBVIOUS
<1>1. \A g \in Gens : gen[g].state = "none" /\ gen[g].done = 0 /\ gen[g].file = "none"
  BY DEF Init, NoGen
<1>2. Activated = {} /\ Cardinality(Activated) = 0
  BY <1>1, FS_EmptySet DEF Activated
<1>3. RowsInv /\ ActiveInv
  BY <1>1, <1>2 DEF Init, RowsInv, RowInv, ActiveInv
<1>4. ASSUME NEW c \in Callers PROVE ModeInv(c) /\ OwnInv(c) /\ SweepInv(c) /\ CommitInv(c)
  <2>1. pc[c] = "idle" /\ job[c].kind = "none" /\ job[c].todo = {} /\ job[c].claimed = {}
        /\ dbLock # c
    BY IndexSets DEF Init, NoJob
  <2> QED BY <2>1 DEF ModeInv, OwnInv, SweepInv, CommitInv, NotePcs, OwnPcs, MakePcs
<1>5. \A c, d \in Callers : OwnersDiffer(c, d)
  BY DEF Init, OwnersDiffer, OwnPcs
<1> QED BY <1>3, <1>4, <1>5 DEF PublishInv

(* What a caller does.                                                     *)
Calls(c) ==
    \/ \E kind \in {"sync", "note"} : Start(c, kind)
    \/ Sync(c) \/ Mutation(c) \/ Fault(c)

LEMMA CallerKeeps ==
    ASSUME TypeOK, PublishInv, PublicationStands, serial \in Deployments,
           NEW c \in Callers, Calls(c)
    PROVE  TypeOK' /\ PublishInv'
<1>1. CASE \E kind \in {"sync", "note"} : Start(c, kind)
  BY <1>1, StartKeeps
<1>2. CASE Sync(c)
  BY <1>2, ScanKeeps, ClaimStaleKeeps, CommitRowsKeeps, ReadingKeeps, RecordBuildingKeeps,
     FileKeeps, PublishKeeps, RemoveOldKeeps, RecordFailureKeeps DEF Sync
<1>3. CASE Mutation(c)
  BY <1>3, TakeLockKeeps, LeaveKeeps, NoteKeeps DEF Mutation
<1>4. CASE Fault(c)
  BY <1>4, KillKeeps, ErrorKeeps, UnlinkFailsKeeps DEF Fault
<1> QED BY <1>1, <1>2, <1>3, <1>4 DEF Calls

LEMMA NextIs ==
    ASSUME [Next]_indexVars
    PROVE  \/ \E c \in Callers : Calls(c)
           \/ \E r \in Readers : Read(r)
           \/ \E v \in Versions : Edit(v)
           \/ RecoverElsewhere
           \/ UNCHANGED indexVars
BY DEF Next, Calls

LEMMA SerialSame == ASSUME TypeOK, [Next]_indexVars PROVE serial' = serial
<1>1. CASE \E c \in Callers : Calls(c)
  <2> PICK c \in Callers : Calls(c)
    BY <1>1
  <2>1. CASE \E kind \in {"sync", "note"} : Start(c, kind)
    BY <2>1 DEF Start, bounds
  <2>2. CASE Sync(c)
    BY <2>2 DEF Sync, ScanStale, ClaimStale, ReapCommit, TakeInventory, RecordBuilding, Build,
       Project, Check, Move, Publish, PublishRevoked, ReadBack, ScanReady, RemoveOld,
       RetainCommit, Report, RecordFailure, CommitRows, bounds
  <2>3. CASE Mutation(c)
    BY <2>3 DEF Mutation, TakeLock, Leave, Recover, AppendReceipt, Undo, WriteNote, bounds
  <2>4. CASE Fault(c)
    BY <2>4, FaultCounts
  <2> QED BY <2>1, <2>2, <2>3, <2>4 DEF Calls
<1>2. CASE \E r \in Readers : Read(r)
  BY <1>2, ReadChanges DEF bounds
<1>3. CASE \E v \in Versions : Edit(v)
  BY <1>3 DEF Edit
<1>4. CASE RecoverElsewhere
  BY <1>4 DEF RecoverElsewhere, bounds
<1>5. CASE UNCHANGED indexVars
  BY <1>5 DEF indexVars, bounds
<1> QED BY <1>1, <1>2, <1>3, <1>4, <1>5, NextIs

CoreInv == TypeOK /\ PublishInv /\ serial \in Deployments

(* PublishInv and the types hold in every reachable state.                 *)
LEMMA CoreHolds == ASSUME PublicationStands PROVE Spec => []CoreInv
<1>1. Init => CoreInv
  BY TypeInit, PublishInit DEF Init, CoreInv
<1>2. CoreInv /\ [Next]_indexVars => CoreInv'
  BY CallerKeeps, OthersKeep, NextIs, SerialSame DEF CoreInv
<1> QED BY <1>1, <1>2, PTL DEF Spec

(* Every variable keeps its type: what sync_vault_atomically and           *)
(* resolve_active_generation keep in rows, files and locals, where they    *)
(* can be and whom the two locks belong to.                                *)
THEOREM TypeCorrect == ASSUME PublicationStands PROVE Spec => []TypeOK
<1>1. CoreInv => TypeOK
  BY DEF CoreInv
<1> QED BY <1>1, CoreHolds, PTL

(* resolve_active_generation never raises on what it finds: whatever       *)
(* publishers, reapers and the retention do to each other, killed or       *)
(* failing where PublicationStands lets them, the pointer names a ready    *)
(* generation whose file is there.  Left out are errors in the retention   *)
(* and, without the vault lock, a reaper that stops between its first      *)
(* unlink and its commit: either breaks it.                                *)
THEOREM PointerStands == ASSUME PublicationStands PROVE Spec => []PointerReadable
<1>1. CoreInv => PointerReadable
  BY DEF CoreInv, PublishInv, ActiveInv, PointerReadable, Resolvable
<1> QED BY <1>1, CoreHolds, PTL

-----------------------------------------------------------------------------
(* Requests.                                                               *)

(* What a reader has seen since it began is closed under later ones, and   *)
(* its cache is good while it is there.                                    *)
ReaderInv(r) ==
    /\ rd[r].pc # "idle" =>
        /\ active \in rd[r].window
        /\ \A a \in rd[r].window : \A h \in Gens :
              gen[h].done # 0 /\ (a = None \/ gen[h].done > gen[a].done) => h \in rd[r].window
    /\ rd[r].cache # None => rd[r].cache = active
    /\ rd[r].pc \in {"verify", "held"} =>
        /\ rd[r].g \in Gens /\ rd[r].g \in rd[r].window /\ gen[rd[r].g].done # 0
        /\ rd[r].fp => rd[r].g = active

(* What a step does to the pointer: nothing; a commit that leaves it; a    *)
(* commit that moves it to a generation newer than all.                    *)
PointerKept == active' = active /\ \A g \in Gens : gen'[g].done = gen[g].done
PointerMoved == \E g \in Gens :
    /\ active' = g /\ gen[g].done = 0 /\ gen'[g].done \in Nat
    /\ \A h \in Gens : gen[h].done < gen'[g].done
    /\ \A h \in Gens \ {g} : gen'[h].done = gen[h].done

LEMMA QuietPointer ==
    ASSUME NEW c \in Callers,
           \/ \E kind \in {"sync", "note"} : Start(c, kind)
           \/ Mutation(c) \/ Fault(c)
           \/ ScanStale(c) \/ TakeInventory(c) \/ Project(c) \/ Check(c) \/ ReadBack(c)
           \/ ScanReady(c) \/ Report(c)
    PROVE  gen' = gen /\ active' = active /\ rd' = rd
<1>1. CASE \E kind \in {"sync", "note"} : Start(c, kind)
  BY <1>1 DEF Start, stores
<1>2. CASE Mutation(c)
  BY <1>2 DEF Mutation, TakeLock, Leave, Recover, AppendReceipt, Undo, WriteNote, stores
<1>3. CASE Fault(c)
  <2>1. CASE Kill(c)
    BY <2>1 DEF Kill, stores
  <2>2. CASE Error(c)
    BY <2>2 DEF Error, stores
  <2>3. CASE UnlinkFails(c)
    BY <2>3 DEF UnlinkFails, stores
  <2>4. CASE ReapUnlinkFails(c)
    BY <2>4 DEF ReapUnlinkFails, stores
  <2> QED BY <1>3, <2>1, <2>2, <2>3, <2>4 DEF Fault
<1>4. CASE \/ ScanStale(c) \/ TakeInventory(c) \/ Project(c) \/ Check(c) \/ ReadBack(c)
           \/ ScanReady(c) \/ Report(c)
  BY <1>4 DEF ScanStale, TakeInventory, Project, Check, ReadBack, ScanReady, Report, stores
<1> QED BY <1>1, <1>2, <1>3, <1>4

LEMMA CallerPointer ==
    ASSUME TypeOK, PublishInv, NEW c \in Callers, Calls(c)
    PROVE  \/ PointerKept /\ rd' = rd
           \/ PointerKept /\ Committed
           \/ Publish(c) /\ PointerMoved /\ Committed
<1>0. \A h \in Gens : gen[h] \in Row
  BY DEF TypeOK, StoresOK
<1>1. CASE ClaimStale(c)
  BY <1>1, ClaimStaleDoes DEF PointerKept, Becomes
<1>2. CASE RemoveOld(c)
  BY <1>2, RemoveOldDoes DEF PointerKept, Becomes
<1>3. CASE ReapCommit(c) \/ RetainCommit(c)
  <2>1. \E state \in {"failed", "superseded"}, l \in PCs : CommitRows(c, state, l) /\ Committed
    BY <1>3 DEF ReapCommit, RetainCommit, PCs
  <2> QED BY <2>1, CommitRowsDoes DEF PointerKept
<1>4. CASE RecordBuilding(c)
  BY <1>4, RecordBuildingDoes DEF PointerKept, Becomes
<1>5. CASE Build(c) \/ Move(c) \/ PublishRevoked(c) \/ RecordFailure(c)
  <2>1. job[c].g \in Gens
    <3>1. pc[c] \in MakePcs \cup {"fail"}
      BY <1>5 DEF Build, Move, PublishRevoked, RecordFailure, MakePcs
    <3> QED BY <3>1, OwnFacts
  <2>2. CASE Build(c)
    BY <2>1, <2>2, BuildDoes DEF PointerKept, Becomes
  <2>3. CASE Move(c)
    BY <2>1, <2>3, MoveDoes DEF PointerKept, Becomes
  <2>4. CASE PublishRevoked(c)
    BY <2>1, <2>4, PublishRevokedDoes DEF PointerKept, Becomes
  <2>5. CASE RecordFailure(c)
    BY <2>1, <2>5, RecordFailureDoes DEF PointerKept, Becomes
  <2> QED BY <1>5, <2>2, <2>3, <2>4, <2>5
<1>6. CASE Publish(c)
  <2>0. pc[c] = "commit"
    BY <1>6 DEF Publish
  <2>1. job[c].g \in Gens /\ gen[job[c].g].done = 0
    BY <2>0, OwnFacts DEF MakePcs
  <2>2. /\ Becomes(job[c].g, "ready", Cardinality(Activated) + 1, gen[job[c].g].file,
                   gen[job[c].g].text)
        /\ active' = job[c].g /\ Committed
    BY <1>6, <2>1, PublishDoes
  <2>3. \A h \in Gens : gen[h].done < gen'[job[c].g].done
    BY <2>1, <2>2, OneMore DEF PublishInv, Becomes
  <2>4. gen'[job[c].g].done \in Nat
    BY <2>1, <2>2 DEF Becomes, Row
  <2> QED BY <1>6, <2>1, <2>2, <2>3, <2>4 DEF PointerMoved, Becomes
<1>7. CASE \/ \E kind \in {"sync", "note"} : Start(c, kind)
           \/ Mutation(c) \/ Fault(c)
           \/ ScanStale(c) \/ TakeInventory(c) \/ Project(c) \/ Check(c) \/ ReadBack(c)
           \/ ScanReady(c) \/ Report(c)
  BY <1>7, QuietPointer DEF PointerKept
<1> QED BY <1>1, <1>2, <1>3, <1>4, <1>5, <1>6, <1>7 DEF Calls, Sync

LEMMA CommittedFields ==
    ASSUME TypeOK, Committed, NEW r \in Readers
    PROVE  /\ rd'[r].pc = rd[r].pc /\ rd'[r].g = rd[r].g
           /\ rd'[r].fp = FALSE /\ rd'[r].cache = None
           /\ rd[r].pc # "idle" => rd'[r].window = rd[r].window \cup {active'}
BY DEF TypeOK, ReadersOK, Reader, Committed

LEMMA ReaderKept ==
    ASSUME TypeOK, PublishInv, NEW r \in Readers, ReaderInv(r),
           \/ PointerKept /\ rd' = rd
           \/ PointerKept /\ Committed
           \/ PointerMoved /\ Committed
    PROVE  ReaderInv(r)'
<1>0. /\ \A h \in Gens : gen[h].done \in Nat
      /\ rd[r].window \subseteq Gens \cup {None} /\ None \notin Gens
  BY IndexSets DEF TypeOK, StoresOK, ReadersOK, Row, Reader, Gens
<1>1. CASE PointerKept /\ rd' = rd
  BY <1>0, <1>1 DEF ReaderInv, PointerKept
<1>2. CASE PointerKept /\ Committed
  <2>1. /\ rd'[r].pc = rd[r].pc /\ rd'[r].g = rd[r].g
        /\ rd'[r].fp = FALSE /\ rd'[r].cache = None
        /\ rd[r].pc # "idle" => rd'[r].window = rd[r].window
    BY <1>2, CommittedFields DEF ReaderInv, PointerKept
  <2> QED BY <1>0, <1>2, <2>1 DEF ReaderInv, PointerKept
<1>3. CASE PointerMoved /\ Committed
  <2>1. /\ rd'[r].pc = rd[r].pc /\ rd'[r].g = rd[r].g
        /\ rd'[r].fp = FALSE /\ rd'[r].cache = None
        /\ rd[r].pc # "idle" => rd'[r].window = rd[r].window \cup {active'}
    BY <1>3, CommittedFields
  <2>2. PICK g \in Gens :
          /\ active' = g /\ gen[g].done = 0 /\ gen'[g].done \in Nat
          /\ \A h \in Gens : gen[h].done < gen'[g].done
          /\ \A h \in Gens \ {g} : gen'[h].done = gen[h].done
    BY <1>3 DEF PointerMoved
  <2>3. rd[r].pc # "idle" =>
          \A a \in rd'[r].window : \A h \in Gens :
              gen'[h].done # 0 /\ (a = None \/ gen'[h].done > gen'[a].done)
                => h \in rd'[r].window
    <3> SUFFICES ASSUME rd[r].pc # "idle", NEW a \in rd'[r].window, NEW h \in Gens, h # g,
                        gen'[h].done # 0, a = None \/ gen'[h].done > gen'[a].done
                 PROVE  h \in rd[r].window
      BY <2>1, <2>2
    <3>1. gen'[h].done = gen[h].done /\ gen[h].done < gen'[g].done /\ gen[h].done \in Nat
      BY <1>0, <2>2
    <3>2. a # g
      BY <1>0, <2>2, <3>1
    <3>3. a \in rd[r].window
      BY <2>1, <2>2, <3>2
    <3>4. a = None \/ gen'[a].done = gen[a].done
      BY <1>0, <2>2, <3>2, <3>3
    <3> QED BY <3>1, <3>3, <3>4 DEF ReaderInv
  <2>4. rd[r].pc \in {"verify", "held"} => gen'[rd[r].g].done # 0
    BY <2>2 DEF ReaderInv
  <2> QED BY <2>1, <2>2, <2>3, <2>4 DEF ReaderInv
<1> QED BY <1>1, <1>2, <1>3

LEMMA ReaderFields ==
    ASSUME TypeOK, NEW r \in Readers, Read(r)
    PROVE  \A q \in Readers \ {r} : rd'[q] = rd[q]
BY DEF Read, Fingerprint, AskCache, ReadRow, VerifyFile, Release, EndRead, TypeOK, ReadersOK

LEMMA ReaderReads ==
    ASSUME TypeOK, PublishInv, NEW r \in Readers, ReaderInv(r), Read(r)
    PROVE  ReaderInv(r)'
<1>0. /\ rd[r] \in Reader /\ rd \in [Readers -> Reader]
      /\ gen' = gen /\ active' = active /\ None \notin Gens /\ Gens' = Gens
      /\ active \in Gens \cup {None}
  BY ReadChanges, IndexSets DEF TypeOK, ReadersOK, StoresOK, stores, Gens
<1>1. /\ \A h \in Gens : gen[h].done \in Nat
      /\ active = None => \A h \in Gens : gen[h].done = 0
      /\ active # None => gen[active].done # 0 /\ \A h \in Gens : ~(gen[h].done > gen[active].done)
  <2>1. \A h \in Gens : gen[h].done \in Nat /\ RowInv(h)
    BY DEF TypeOK, StoresOK, Row, PublishInv, RowsInv
  <2>2. ActiveInv
    BY DEF PublishInv
  <2>3. active = None => \A h \in Gens : gen[h].done = 0
    BY <2>2 DEF ActiveInv, Activated
  <2>4. ASSUME active # None
        PROVE  gen[active].done # 0 /\ \A h \in Gens : ~(gen[h].done > gen[active].done)
    <3>1. active \in Gens /\ gen[active].state = "ready"
      BY <1>0, <2>2, <2>4 DEF ActiveInv
    <3>2. gen[active].done # 0
      BY <2>1, <3>1 DEF RowInv
    <3>3. \A h \in Gens \ {active} : gen[h].done < gen[active].done
      BY <2>2, <2>4 DEF ActiveInv
    <3> QED BY <2>1, <3>1, <3>2, <3>3
  <2> QED BY <2>1, <2>3, <2>4
<1>2. CASE Fingerprint(r)
  <2>1. /\ rd'[r].pc = "cache" /\ rd'[r].window = {active} /\ rd'[r].cache = rd[r].cache
    BY <1>0, <1>2 DEF Fingerprint, Reader
  <2> QED BY <1>0, <1>1, <2>1 DEF ReaderInv
<1>3. CASE AskCache(r)
  <2> DEFINE hit == rd[r].cache # None /\ rd[r].fp /\ gen[rd[r].cache].file = "generation"
  <2>1. /\ rd[r].pc = "cache"
        /\ rd'[r].pc = (IF hit THEN "held" ELSE "read")
        /\ rd'[r].g = (IF hit THEN rd[r].cache ELSE None)
        /\ rd'[r].window = rd[r].window /\ rd'[r].cache = rd[r].cache /\ rd'[r].fp = rd[r].fp
    BY <1>0, <1>3 DEF AskCache, Reader
  <2>2. hit => rd[r].cache # None
    OBVIOUS
  <2> HIDE DEF hit
  <2>3. CASE hit
    BY <1>0, <1>1, <2>1, <2>2, <2>3 DEF ReaderInv
  <2>4. CASE ~hit
    BY <1>0, <1>1, <2>1, <2>4 DEF ReaderInv
  <2> QED BY <2>3, <2>4
<1>4. ASSUME EndRead(r) PROVE ReaderInv(r)'
  <2>1. /\ rd'[r].pc = "idle" /\ rd'[r].cache = rd[r].cache
    BY <1>0, <1>4 DEF EndRead, NoRead
  <2> QED BY <1>0, <2>1 DEF ReaderInv
<1>5. CASE ReadRow(r)
  <2>1. CASE active # None /\ gen[active].state = "ready"
    <3>1. /\ rd[r].pc = "read" /\ rd'[r].pc = "verify" /\ rd'[r].g = active
          /\ rd'[r].window = rd[r].window /\ rd'[r].cache = rd[r].cache /\ rd'[r].fp = rd[r].fp
      BY <1>0, <1>5, <2>1 DEF ReadRow, Reader
    <3> QED BY <1>0, <1>1, <2>1, <3>1 DEF ReaderInv
  <2> QED BY <1>4, <1>5, <2>1 DEF ReadRow
<1>6. CASE VerifyFile(r)
  <2>1. CASE gen[rd[r].g].file = "generation"
    <3>1. /\ rd[r].pc = "verify" /\ rd'[r].pc = "held" /\ rd'[r].g = rd[r].g
          /\ rd'[r].cache = (IF rd[r].fp THEN rd[r].g ELSE None)
          /\ rd'[r].window = rd[r].window /\ rd'[r].fp = rd[r].fp
      BY <1>0, <1>6, <2>1 DEF VerifyFile, Reader
    <3> QED BY <1>0, <1>1, <3>1 DEF ReaderInv
  <2> QED BY <1>4, <1>6, <2>1 DEF VerifyFile
<1>7. CASE Release(r)
  BY <1>4, <1>7 DEF Release
<1> QED BY <1>2, <1>3, <1>5, <1>6, <1>7 DEF Read

ReadersInv == \A r \in Readers : ReaderInv(r)

LEMMA ReadersStep ==
    ASSUME CoreInv, ReadersInv, [Next]_indexVars
    PROVE  ReadersInv'
<1>0. TypeOK /\ PublishInv
  BY DEF CoreInv
<1>1. CASE \E c \in Callers : Calls(c)
  <2>1. \/ PointerKept /\ rd' = rd
        \/ PointerKept /\ Committed
        \/ PointerMoved /\ Committed
    BY <1>0, <1>1, CallerPointer
  <2> QED BY <1>0, <2>1, ReaderKept DEF ReadersInv
<1>2. CASE \E r \in Readers : Read(r)
  <2> PICK r \in Readers : Read(r)
    BY <1>2
  <2>1. ReaderInv(r)'
    BY <1>0, ReaderReads DEF ReadersInv
  <2>2. \A q \in Readers \ {r} : rd'[q] = rd[q] /\ ReaderInv(q)
    BY <1>0, ReaderFields DEF ReadersInv
  <2>3. UNCHANGED stores
    BY ReadChanges
  <2>4. \A q \in Readers \ {r} : ReaderInv(q)'
    BY <2>2, <2>3 DEF ReaderInv, stores
  <2> QED BY <2>1, <2>4 DEF ReadersInv
<1>3. CASE (\E v \in Versions : Edit(v)) \/ RecoverElsewhere \/ UNCHANGED indexVars
  <2>1. PointerKept /\ rd' = rd
    BY <1>3 DEF Edit, RecoverElsewhere, indexVars, stores, PointerKept
  <2> QED BY <1>0, <2>1, ReaderKept DEF ReadersInv
<1> QED BY <1>1, <1>2, <1>3, NextIs

LEMMA ReadersHold == ASSUME PublicationStands PROVE Spec => [](CoreInv /\ ReadersInv)
<1>1. Init => ReadersInv
  BY DEF Init, ReadersInv, ReaderInv, NoRead
<1>2. CoreInv /\ ReadersInv /\ [Next]_indexVars => ReadersInv'
  BY ReadersStep
<1> QED BY <1>1, <1>2, CoreHolds, PTL DEF Spec

(* A path that resolve_active_generation returned can be opened until      *)
(* Retain further generations were published since the request began:      *)
(* _cleanup_generations keeps the newest, and a reaper takes nothing that  *)
(* was ever active.                                                        *)
THEOREM HeldStays == ASSUME PublicationStands PROVE Spec => []HeldFileStays
<1>1. ASSUME CoreInv, ReadersInv PROVE HeldFileStays
  <2> SUFFICES ASSUME NEW r \in Readers, rd[r].pc = "held", gen[rd[r].g].file # "generation"
               PROVE  Cardinality(rd[r].window \cap After(rd[r].g)) >= Retain
    BY DEF HeldFileStays
  <2>0. \A h \in Gens : gen[h].done \in Nat
    BY <1>1 DEF CoreInv, TypeOK, StoresOK, Row
  <2>1. rd[r].g \in Gens /\ rd[r].g \in rd[r].window /\ gen[rd[r].g].done # 0
    BY <1>1 DEF ReadersInv, ReaderInv
  <2>2. After(rd[r].g) \subseteq rd[r].window
    BY <1>1, <2>0, <2>1 DEF ReadersInv, ReaderInv, After
  <2>3. rd[r].window \cap After(rd[r].g) = After(rd[r].g)
    BY <2>2
  <2>4. Kept(rd[r].g)
    BY <1>1, <2>1 DEF CoreInv, PublishInv, RowsInv, RowInv
  <2> QED BY <2>3, <2>4 DEF Kept
<1> QED BY <1>1, ReadersHold, PTL

(* What resolve_active_generation returns, from the cache of the process   *)
(* or from the row, was the active generation at some time during the      *)
(* call: a stale cache is never served.                                    *)
THEOREM ResolvedWithin == ASSUME PublicationStands PROVE Spec => []ResolvesWithinCall
<1>1. ASSUME ReadersInv PROVE ResolvesWithinCall
  BY <1>1 DEF ReadersInv, ReaderInv, ResolvesWithinCall
<1> QED BY <1>1, ReadersHold, PTL

(* A step of a build or a sweep is one of its caller alone.                *)
LEMMA SyncAlone ==
    ASSUME TypeOK, PublishInv, NEW c \in Callers, Sync(c)
    PROVE  Alone(c)
<1> USE DEF Alone, Goes, Has, locks, bounds
<1>0. pc \in [Callers -> PCs] /\ job \in [Callers -> Job]
  BY DEF TypeOK, CallersOK
<1>1. CASE ScanStale(c) \/ ScanReady(c)
  BY <1>1, ScanStaleDoes, ScanReadyDoes
<1>2. CASE ClaimStale(c) \/ RemoveOld(c)
  BY <1>0, <1>2, ClaimStaleDoes, RemoveOldDoes DEF Claims, Passes
<1>3. CASE ReapCommit(c) \/ RetainCommit(c)
  <2>1. \E state \in {"failed", "superseded"}, l \in PCs : CommitRows(c, state, l)
    BY <1>3 DEF ReapCommit, RetainCommit, PCs
  <2> QED BY <2>1, CommitRowsDoes
<1>4. CASE TakeInventory(c)
  BY <1>4, TakeInventoryDoes
<1>5. CASE RecordBuilding(c)
  BY <1>5, RecordBuildingDoes
<1>6. CASE Project(c)
  BY <1>6, ProjectDoes
<1>7. CASE Check(c) \/ ReadBack(c)
  BY <1>0, <1>7, PlainDoes
<1>8. CASE Report(c)
  BY <1>8, ReportDoes
<1>9. CASE Build(c) \/ Move(c) \/ PublishRevoked(c) \/ RecordFailure(c) \/ Publish(c)
  <2>0. pc[c] \in MakePcs \cup {"fail"}
    BY <1>9 DEF Build, Move, PublishRevoked, RecordFailure, Publish, MakePcs
  <2>1. job[c].g \in Gens
    BY <2>0, OwnFacts
  <2>2. CASE Build(c)
    BY <1>0, <2>1, <2>2, BuildDoes
  <2>3. CASE Move(c)
    BY <1>0, <2>1, <2>3, MoveDoes
  <2>4. CASE PublishRevoked(c)
    BY <1>0, <2>1, <2>4, PublishRevokedDoes
  <2>5. CASE RecordFailure(c)
    BY <2>1, <2>5, RecordFailureDoes
  <2>6. CASE Publish(c)
    BY <2>1, <2>6, PublishDoes
  <2> QED BY <1>9, <2>2, <2>3, <2>4, <2>5, <2>6
<1> QED BY <1>1, <1>2, <1>3, <1>4, <1>5, <1>6, <1>7, <1>8, <1>9 DEF Sync

-----------------------------------------------------------------------------
(* What is published is one state of the notes.                            *)

(* From the inventory of a build on: what the file, if it is still there,  *)
(* and the projection hold, the inventory held, or the notes differ from   *)
(* it and the comparison is going to find that out.                        *)
SnapInv(c) == LET g == job[c].g  snap == job[c].snap IN
    /\ pc[c] = "project" =>
        (gen[g].file # "none" /\ gen[g].text # snap => note # snap)
    /\ pc[c] = "check" =>
        (job[c].proj # snap \/ (gen[g].file # "none" /\ gen[g].text # snap) => note # snap)
    /\ pc[c] \in {"move", "commit"} =>
        job[c].proj = snap /\ (gen[g].file # "none" => gen[g].text = snap)

SnapsInv == \A c \in Callers : SnapInv(c)

(* What a step of c may do to a file that is not the one that c builds.    *)
FilesKept(c) == \A g \in Gens :
    \/ gen'[g].file = gen[g].file /\ gen'[g].text = gen[g].text
    \/ gen'[g].file = "none"
    \/ pc[c] \in MakePcs \cup {"fail"} /\ g = job[c].g

LEMMA FilesStep ==
    ASSUME TypeOK, PublishInv, NEW c \in Callers, Calls(c)
    PROVE  FilesKept(c)
<1>1. CASE ClaimStale(c)
  BY <1>1, ClaimStaleDoes DEF FilesKept, Becomes
<1>2. CASE RemoveOld(c)
  BY <1>2, RemoveOldDoes DEF FilesKept, Becomes
<1>3. CASE ReapCommit(c) \/ RetainCommit(c)
  <2>1. \E state \in {"failed", "superseded"}, l \in PCs : CommitRows(c, state, l) /\ Committed
    BY <1>3 DEF ReapCommit, RetainCommit, PCs
  <2> QED BY <2>1, CommitRowsDoes DEF FilesKept
<1>4. CASE RecordBuilding(c)
  BY <1>4, RecordBuildingDoes DEF FilesKept, Becomes
<1>5. CASE Build(c) \/ Move(c) \/ PublishRevoked(c) \/ RecordFailure(c) \/ Publish(c)
  <2>0. pc[c] \in MakePcs \cup {"fail"}
    BY <1>5 DEF Build, Move, PublishRevoked, RecordFailure, Publish, MakePcs
  <2>1. job[c].g \in Gens
    BY <2>0, OwnFacts
  <2>2. \A g \in Gens \ {job[c].g} : gen'[g] = gen[g]
    BY <1>5, <2>1, BuildDoes, MoveDoes, PublishRevokedDoes, RecordFailureDoes, PublishDoes
       DEF Becomes
  <2> QED BY <2>0, <2>2 DEF FilesKept
<1>6. CASE \/ \E kind \in {"sync", "note"} : Start(c, kind)
           \/ Mutation(c) \/ Fault(c)
           \/ ScanStale(c) \/ TakeInventory(c) \/ Project(c) \/ Check(c) \/ ReadBack(c)
           \/ ScanReady(c) \/ Report(c)
  BY <1>6, QuietPointer DEF FilesKept
<1> QED BY <1>1, <1>2, <1>3, <1>4, <1>5, <1>6 DEF Calls, Sync

(* Only the steps of a mutation write notes.                               *)
LEMMA NotesStep ==
    ASSUME TypeOK, PublishInv, NEW c \in Callers, Calls(c)
    PROVE  /\ note' = note \/ (serial /\ vault = c /\ pc[c] \in NotePcs)
           /\ pre' = pre \/ (serial /\ vault = c /\ pc[c] \in NotePcs)
           /\ job' \in [Callers -> Job] /\ \A d \in Callers \ {c} : pc'[d] = pc[d] /\ job'[d] = job[d]
<1>0. pc[c] \in NotePcs => serial /\ vault = c
  BY DEF PublishInv, ModeInv, NotePcs, TypeOK, StoresOK
<1>1. CASE \E kind \in {"sync", "note"} : Start(c, kind)
  BY <1>1, StartDoes DEF stores, Goes, Has
<1>2. CASE Sync(c)
  <2>1. note' = note /\ pre' = pre
    BY <1>2 DEF Sync, ScanStale, ClaimStale, ReapCommit, TakeInventory, RecordBuilding, Build,
       Project, Check, Move, Publish, PublishRevoked, ReadBack, ScanReady, RemoveOld,
       RetainCommit, Report, RecordFailure, CommitRows, stores
  <2> QED BY <1>2, <2>1, SyncAlone DEF Alone
<1>3. CASE Mutation(c)
  <2>1. CASE TakeLock(c)
    BY <2>1, TakeLockDoes DEF stores, Goes, TypeOK, CallersOK
  <2>2. CASE Leave(c)
    BY <2>2, LeaveDoes DEF stores, Goes, Has
  <2>3. CASE Recover(c) \/ AppendReceipt(c) \/ Undo(c)
    BY <1>0, <2>3, PlainDoes DEF Goes, NotePcs, TypeOK, CallersOK
  <2>4. CASE \E v \in Versions : WriteNote(c, v)
    BY <1>0, <2>4, WriteNoteDoes DEF Goes, Has, NotePcs
  <2> QED BY <1>3, <2>1, <2>2, <2>3, <2>4 DEF Mutation
<1>4. CASE Fault(c)
  <2>1. CASE Kill(c)
    BY <2>1, KillDoes DEF stores, Goes, Has
  <2>2. CASE Error(c)
    BY <2>2, ErrorDoes DEF stores, Goes, Has
  <2>3. CASE UnlinkFails(c)
    BY <2>3, UnlinkFailsDoes DEF stores, Passes, Has
  <2>4. CASE ReapUnlinkFails(c)
    BY <2>4, ReapUnlinkFailsDoes DEF stores, Claims, Has
  <2> QED BY <1>4, <2>1, <2>2, <2>3, <2>4 DEF Fault
<1> QED BY <1>1, <1>2, <1>3, <1>4 DEF Calls

SnapPcs == {"project", "check", "move", "commit"}

(* No other step leads into the second half of a build.                    *)
LEMMA SnapPcsStep ==
    ASSUME TypeOK, PublishInv, NEW c \in Callers, Calls(c), pc'[c] \in SnapPcs
    PROVE  Build(c) \/ Project(c) \/ Check(c) \/ Move(c)
<1> USE DEF SnapPcs, Goes
<1>1. CASE \E kind \in {"sync", "note"} : Start(c, kind)
  BY <1>1, StartDoes
<1>2. CASE Mutation(c)
  <2>1. CASE TakeLock(c)
    BY <2>1, TakeLockDoes
  <2>2. CASE Leave(c)
    BY <2>2, LeaveDoes
  <2>3. CASE Recover(c) \/ AppendReceipt(c) \/ Undo(c)
    BY <2>3, PlainDoes
  <2>4. CASE \E v \in Versions : WriteNote(c, v)
    BY <2>4, WriteNoteDoes
  <2> QED BY <1>2, <2>1, <2>2, <2>3, <2>4 DEF Mutation
<1>3. CASE Fault(c)
  <2>1. CASE Kill(c)
    BY <2>1, KillDoes
  <2>2. CASE Error(c)
    <3>1. Handled(c) \in {"failed", "inventory", "broken", "undo", "fail"}
      BY RaisedType DEF Handled
    <3> QED BY <2>2, <3>1, ErrorDoes
  <2>3. CASE UnlinkFails(c) \/ ReapUnlinkFails(c)
    BY <2>3, UnlinkFailsDoes, ReapUnlinkFailsDoes
  <2> QED BY <1>3, <2>1, <2>2, <2>3 DEF Fault
<1>4. CASE Sync(c)
  <2>1. CASE ScanStale(c)
    BY <2>1, ScanStaleDoes
  <2>2. CASE ScanReady(c)
    <3>1. \E l \in {"published", "retaining"} : To(c, l)
      BY <2>2 DEF ScanReady
    <3> QED BY <3>1, ToGoes DEF PCs
  <2>3. CASE ClaimStale(c) \/ RemoveOld(c)
    BY <2>3, ClaimStaleDoes, RemoveOldDoes
  <2>4. CASE ReapCommit(c) \/ RetainCommit(c)
    <3>1. \E l \in {"inventory", "published"} : To(c, l)
      BY <2>4 DEF ReapCommit, RetainCommit, CommitRows
    <3> QED BY <3>1, ToGoes DEF PCs
  <2>5. CASE TakeInventory(c)
    <3>1. Goes(c, IF Resolvable THEN "record" ELSE Raised(c))
      BY <2>5, TakeInventoryDoes
    <3> QED BY <3>1, RaisedType
  <2>6. CASE RecordBuilding(c)
    BY <2>6, RecordBuildingDoes
  <2>7. CASE ReadBack(c)
    BY <2>7, PlainDoes
  <2>8. CASE Report(c)
    BY <2>8, ReportDoes
  <2>9. CASE Publish(c) \/ PublishRevoked(c) \/ RecordFailure(c)
    <3>1. \E l \in {"readback", "fail", "failed", "broken", "undo"} : To(c, l)
      BY <2>9, RaisedType DEF Publish, PublishRevoked, RecordFailure
    <3> QED BY <3>1, ToGoes DEF PCs
  <2> QED BY <1>4, <2>1, <2>2, <2>3, <2>4, <2>5, <2>6, <2>7, <2>8, <2>9 DEF Sync
<1> QED BY <1>1, <1>2, <1>3, <1>4 DEF Calls

LEMMA SnapsStep ==
    ASSUME CoreInv, SnapsInv, [Next]_indexVars
    PROVE  SnapsInv'
<1>0. TypeOK /\ PublishInv
  BY DEF CoreInv
<1>1. ASSUME NEW c \in Callers, Calls(c), NEW d \in Callers \ {c} PROVE SnapInv(d)'
  <2>0. SnapInv(d) /\ pc'[d] = pc[d] /\ job'[d] = job[d] /\ FilesKept(c)
    BY <1>0, <1>1, NotesStep, FilesStep DEF SnapsInv
  <2> SUFFICES ASSUME pc[d] \in SnapPcs PROVE SnapInv(d)'
    BY <2>0 DEF SnapInv, SnapPcs
  <2>1. /\ job[d].g \in Gens
        /\ \A e \in Callers \ {d} : pc[e] \in OwnPcs => job[e].g # job[d].g
    BY <1>0, OwnFacts DEF SnapPcs, MakePcs
  <2>2. \/ gen'[job[d].g].file = gen[job[d].g].file /\ gen'[job[d].g].text = gen[job[d].g].text
        \/ gen'[job[d].g].file = "none"
    BY <2>0, <2>1 DEF FilesKept, MakePcs, OwnPcs
  <2>3. note' = note
    <3>1. serial => vault = d
      BY <1>0 DEF PublishInv, ModeInv, SnapPcs
    <3> QED BY <1>0, <1>1, <3>1, NotesStep
  <2> QED BY <2>0, <2>2, <2>3 DEF SnapInv
<1>2. ASSUME NEW c \in Callers, Calls(c) PROVE SnapInv(c)'
  <2> SUFFICES ASSUME pc'[c] \in SnapPcs PROVE SnapInv(c)'
    BY DEF SnapInv, SnapPcs
  <2>1. Build(c) \/ Project(c) \/ Check(c) \/ Move(c)
    BY <1>0, <1>2, SnapPcsStep
  <2>2. SnapInv(c)
    BY DEF SnapsInv
  <2>3. pc[c] \in {"build", "project", "check", "move"}
    BY <2>1 DEF Build, Project, Check, Move
  <2>4. job[c].g \in Gens
    BY <1>0, <2>3, OwnFacts DEF MakePcs
  <2>5. CASE Build(c)
    <3>1. Resolvable
      BY <1>0 DEF PublishInv, ActiveInv, Resolvable
    <3>2. /\ pc'[c] = "project" /\ job' = job /\ note' = note
          /\ gen'[job[c].g].text = note
      BY <1>0, <2>4, <2>5, <3>1, BuildDoes DEF Goes, Becomes
    <3> QED BY <3>2 DEF SnapInv
  <2>6. CASE Project(c)
    <3>1. /\ pc[c] = "project" /\ pc'[c] = "check" /\ note' = note /\ gen' = gen
          /\ job'[c].g = job[c].g /\ job'[c].snap = job[c].snap /\ job'[c].proj = note
      BY <1>0, <2>6, ProjectDoes DEF Goes, Has, stores
    <3> QED BY <2>2, <3>1 DEF SnapInv
  <2>7. CASE Check(c)
    <3>1. /\ pc[c] = "check" /\ note' = note /\ gen' = gen /\ job' = job
          /\ pc'[c] = (IF note = job[c].snap /\ job[c].proj = job[c].snap THEN "move" ELSE "fail")
      BY <1>0, <2>7, PlainDoes DEF Goes, stores
    <3>2. pc'[c] = "move" /\ note = job[c].snap /\ job[c].proj = job[c].snap
      BY <3>1 DEF SnapPcs
    <3> QED BY <2>2, <3>1, <3>2 DEF SnapInv
  <2>8. CASE Move(c)
    <3>1. /\ pc[c] = "move" /\ note' = note /\ job' = job
          /\ \/ gen[job[c].g].file = "staging" /\ pc'[c] = "commit"
                /\ gen'[job[c].g].text = gen[job[c].g].text
             \/ pc'[c] = "fail"
      BY <1>0, <2>4, <2>8, MoveDoes DEF Goes, Becomes
    <3> QED BY <2>2, <3>1 DEF SnapInv, SnapPcs
  <2> QED BY <2>1, <2>5, <2>6, <2>7, <2>8
<1>3. CASE \E v \in Versions : Edit(v)
  <2>1. PICK v \in Versions : Edit(v)
    BY <1>3
  <2>2. /\ note' = v /\ gen' = gen /\ pc' = pc
        /\ \A c \in Callers : /\ v # job[c].snap /\ job'[c].g = job[c].g
                              /\ job'[c].snap = job[c].snap /\ job'[c].proj = job[c].proj
    BY <1>0, <2>1, EditDoes
  <2> QED BY <2>2 DEF SnapsInv, SnapInv
<1>4. CASE RecoverElsewhere
  <2>1. /\ UNCHANGED <<gen, pc, job>>
        /\ note' = note \/ \A c \in Callers : note' # job[c].snap
    BY <1>4 DEF RecoverElsewhere, RollBackNote
  <2> QED BY <2>1 DEF SnapsInv, SnapInv
<1>5. CASE (\E r \in Readers : Read(r)) \/ UNCHANGED indexVars
  <2>1. UNCHANGED <<note, gen, pc, job>>
    BY <1>5, ReadChanges DEF indexVars, stores
  <2> QED BY <2>1 DEF SnapsInv, SnapInv
<1>6. CASE \E c \in Callers : Calls(c)
  BY <1>1, <1>2, <1>6 DEF SnapsInv
<1> QED BY <1>3, <1>4, <1>5, <1>6, NextIs

LEMMA SnapsHold == ASSUME PublicationStands PROVE Spec => [](CoreInv /\ SnapsInv)
<1>1. Init => SnapsInv
  BY DEF Init, SnapsInv, SnapInv
<1>2. CoreInv /\ SnapsInv /\ [Next]_indexVars => SnapsInv'
  BY SnapsStep
<1> QED BY <1>1, <1>2, CoreHolds, PTL DEF Spec

(* Publication is of one state of the notes: the rows that a build read    *)
(* and the projection that a second scan read are those of its inventory,  *)
(* though other programs edit notes in between and the reaper may revoke   *)
(* the build.                                                              *)
THEOREM OneSnapshot == ASSUME PublicationStands PROVE Spec => []PublishesOneSnapshot
<1>1. SnapsInv => PublishesOneSnapshot
  BY DEF SnapsInv, SnapInv, PublishesOneSnapshot
<1> QED BY <1>1, SnapsHold, PTL

-----------------------------------------------------------------------------
(* Notes and index agree after a mutation.                                 *)

NewPcs == {"lock", "recover", "write"}
PendingPcs == {"reap", "reaping", "inventory", "record", "build", "project", "check",
               "move", "commit", "fail"}
SnappedPcs == {"record", "build", "project", "check", "move", "commit"}
ServedPcs == {"readback", "retain", "retaining", "published"}

(* A mutation has published iff its note is rolled back already; if not,   *)
(* the index that it found may still serve the preimage.                   *)
Pending(c) ==
    /\ job[c].published <=> pre = None
    /\ ~job[c].published /\ job[c].agreed => Serves(pre)

(* A note mutation that nobody disturbs.                                   *)
NoteInv(c) == job[c].kind = "note" /\ ~job[c].edited =>
    /\ pc[c] \in NewPcs => ~job[c].published /\ ~job[c].agreed
    /\ pc[c] \in PendingPcs => Pending(c)
    /\ pc[c] \in SnappedPcs => note = job[c].snap
    /\ pc[c] \in ServedPcs => Serves(note) /\ (job[c].published <=> pre = None)
    /\ pc[c] = "readback" => active = job[c].g
    /\ pc[c] = "receipt" => job[c].published /\ pre # None /\ Serves(note)
    /\ pc[c] = "undo" => pre # None /\ (~job[c].published /\ job[c].agreed => Serves(pre))
    /\ pc[c] = "ok" => Serves(note)
    /\ pc[c] = "failed" => (job[c].agreed => Serves(note))

NotesInv == \A c \in Callers : NoteInv(c)

SameNote(c) ==
    /\ job'[c].kind = job[c].kind /\ job'[c].published = job[c].published
    /\ job'[c].agreed = job[c].agreed /\ job'[c].edited = job[c].edited
    /\ note' = note /\ pre' = pre

(* The ways from label to label that change nothing for the note.          *)
Passage(from, to) ==
    \/ to \in NewPcs /\ from \in NewPcs
    \/ to \in PendingPcs \ SnappedPcs /\ from \in PendingPcs
    \/ to \in SnappedPcs /\ from \in SnappedPcs
    \/ to \in ServedPcs \ {"readback"} /\ from \in ServedPcs
    \/ to = "undo" /\ pre # None /\ from \in PendingPcs \cup {"receipt"}
    \/ to = "failed" /\ from \in NewPcs
    \/ to = "broken"

LEMMA PassageKeeps ==
    ASSUME NEW c \in Callers, NoteInv(c), SameNote(c), Passage(pc[c], pc'[c]),
           \A v : Serves(v) => Serves(v)',
           pc'[c] \in SnappedPcs => job'[c].snap = job[c].snap
    PROVE  NoteInv(c)'
<1> SUFFICES ASSUME job'[c].kind = "note", ~job'[c].edited PROVE NoteInv(c)'
  BY DEF NoteInv
<1> USE DEF SameNote
<1>0. job[c].kind = "note" /\ ~job[c].edited /\ pre' = pre /\ note' = note
  OBVIOUS
<1>1. Pending(c) => Pending(c)'
  <2>1. Serves(pre) => Serves(pre)'
    BY <1>0 DEF Serves
  <2> QED BY <1>0, <2>1 DEF Pending
<1>2. Serves(note) => Serves(note)'
  BY <1>0 DEF Serves
<1>3. Serves(pre) => Serves(pre)'
  BY <1>0 DEF Serves
<1> USE DEF NewPcs, PendingPcs, SnappedPcs, ServedPcs
<1>4. CASE pc'[c] \in NewPcs /\ pc[c] \in NewPcs
  BY <1>0, <1>4 DEF NoteInv
<1>5. CASE pc'[c] \in PendingPcs \ SnappedPcs /\ pc[c] \in PendingPcs
  BY <1>0, <1>1, <1>5 DEF NoteInv
<1>6. CASE pc'[c] \in SnappedPcs /\ pc[c] \in SnappedPcs
  BY <1>0, <1>1, <1>6 DEF NoteInv
<1>7. CASE pc'[c] \in ServedPcs \ {"readback"} /\ pc[c] \in ServedPcs
  BY <1>0, <1>2, <1>7 DEF NoteInv
<1>8. CASE pc'[c] = "undo" /\ pre # None /\ pc[c] \in PendingPcs \cup {"receipt"}
  BY <1>0, <1>3, <1>8 DEF NoteInv, Pending
<1>9. CASE pc'[c] = "failed" /\ pc[c] \in NewPcs
  BY <1>0, <1>9 DEF NoteInv
<1>10. CASE pc'[c] = "broken"
  BY <1>10 DEF NoteInv
<1> QED BY <1>4, <1>5, <1>6, <1>7, <1>8, <1>9, <1>10 DEF Passage

(* What the index serves it goes on to serve until the next publication.   *)
LEMMA ServesKept ==
    ASSUME TypeOK, PublishInv, PublishInv', NEW c \in Callers, Calls(c), ~Publish(c)
    PROVE  \A v : Serves(v) => Serves(v)'
<1> SUFFICES ASSUME NEW v, active # None, gen[active].text = v PROVE Serves(v)'
  BY DEF Serves
<1>1. active' = active /\ active \in Gens
  BY CallerPointer DEF PointerKept, TypeOK, StoresOK
<1>2. gen'[active].file = "generation"
  BY <1>1 DEF PublishInv, ActiveInv
<1>3. pc[c] \in MakePcs \cup {"fail"} => job[c].g # active
  BY OwnFacts
<1>4. gen'[active].text = gen[active].text
  BY <1>1, <1>2, <1>3, FilesStep DEF FilesKept
<1> QED BY <1>1, <1>4 DEF Serves

(* Who waits for the vault lock changes nothing.                           *)
LEMMA WaitingStep ==
    ASSUME TypeOK, PublishInv, NEW c \in Callers, Calls(c), pc[c] \in {"idle", "lock"}
    PROVE  UNCHANGED <<note, pre, gen, active>>
<1>1. ~Sync(c)
  BY DEF Sync, ScanStale, ClaimStale, ReapCommit, TakeInventory, RecordBuilding, Build,
     Project, Check, Move, Publish, PublishRevoked, ReadBack, ScanReady, RemoveOld,
     RetainCommit, Report, RecordFailure
<1>2. gen' = gen /\ active' = active
  BY <1>1, QuietPointer DEF Calls
<1> QED BY <1>2, NotesStep DEF NotePcs

LEMMA OtherNotes ==
    ASSUME TypeOK, PublishInv, NEW c \in Callers, Calls(c), NEW d \in Callers \ {c}, NoteInv(d)
    PROVE  NoteInv(d)'
<1>1. pc'[d] = pc[d] /\ job'[d] = job[d]
  BY NotesStep
<1> SUFFICES ASSUME job[d].kind = "note" PROVE NoteInv(d)'
  BY <1>1 DEF NoteInv
<1>2. serial
  BY DEF PublishInv, ModeInv
<1>3. CASE pc[d] \in {"idle", "lock"}
  BY <1>1, <1>3 DEF NoteInv, NewPcs, PendingPcs, SnappedPcs, ServedPcs
<1>4. CASE pc[d] \notin {"idle", "lock"}
  <2>1. pc[c] \in {"idle", "lock"}
    BY <1>2, <1>4 DEF PublishInv, ModeInv
  <2>2. UNCHANGED <<note, pre, gen, active>>
    BY <2>1, WaitingStep
  <2> QED BY <1>1, <2>2 DEF NoteInv, Pending, Serves
<1> QED BY <1>3, <1>4

(* The steps of a mutation that do not touch its note.                     *)
LEMMA PassingNotes ==
    ASSUME TypeOK, PublishInv, PublishInv', PublicationStands, serial \in Deployments,
           NEW c \in Callers, NoteInv(c), job[c].kind = "note", ~job[c].edited, Calls(c),
           \/ TakeLock(c) \/ ScanStale(c) \/ ClaimStale(c) \/ ReapCommit(c)
           \/ RecordBuilding(c) \/ Build(c) \/ Project(c) \/ Check(c) \/ Move(c)
           \/ PublishRevoked(c) \/ ReadBack(c) \/ ScanReady(c) \/ RemoveOld(c) \/ RetainCommit(c)
           \/ RecordFailure(c) \/ Error(c) \/ UnlinkFails(c) \/ ReapUnlinkFails(c)
    PROVE  NoteInv(c)'
<1>0. Resolvable /\ pc \in [Callers -> PCs]
  BY DEF PublishInv, ActiveInv, Resolvable, TypeOK, CallersOK
<1>1. ~Publish(c) => \A v : Serves(v) => Serves(v)'
  BY ServesKept
<1>g. pc[c] \in MakePcs \cup {"fail"} => job[c].g \in Gens
  BY OwnFacts
<1>q. ASSUME SameNote(c), ~Publish(c), Passage(pc[c], pc'[c]),
             pc'[c] \in SnappedPcs => job'[c].snap = job[c].snap
      PROVE  NoteInv(c)'
  BY <1>1, <1>q, PassageKeeps
<1>r. pc[c] # "idle" => /\ Raised(c) \in {"broken", "undo"}
                        /\ Raised(c) = "undo" => pre # None
  BY DEF Raised
<1> USE DEF NewPcs, PendingPcs, SnappedPcs, ServedPcs
<1>2. CASE TakeLock(c)
  <2>1. /\ pc[c] = "lock" /\ pc'[c] = "recover" /\ job' = job /\ note' = note /\ pre' = pre
    BY <1>2, TakeLockDoes DEF Goes, stores
  <2>2. ~Publish(c)
    BY <2>1 DEF Publish
  <2> QED BY <1>q, <2>1, <2>2 DEF SameNote, Passage
<1>3. CASE ScanStale(c)
  <2>1. /\ pc[c] = "reap" /\ pc'[c] \in {"inventory", "reaping"} /\ SameNote(c)
    BY <1>3, ScanStaleDoes DEF Goes, Has, stores, SameNote
  <2>2. ~Publish(c)
    BY <2>1 DEF Publish
  <2> QED BY <1>q, <2>1, <2>2 DEF Passage
<1>4. CASE ClaimStale(c) \/ ReapUnlinkFails(c)
  <2>1. /\ pc[c] = "reaping" /\ pc' = pc /\ SameNote(c)
    BY <1>4, ClaimStaleDoes, ReapUnlinkFailsDoes DEF Claims, Passes, Has, stores, SameNote
  <2>2. ~Publish(c)
    BY <2>1 DEF Publish
  <2> QED BY <1>q, <2>1, <2>2 DEF Passage
<1>5. CASE ReapCommit(c)
  <2>1. pc[c] = "reaping" /\ CommitRows(c, "failed", "inventory") /\ "inventory" \in PCs
    BY <1>5 DEF ReapCommit, PCs
  <2>2. pc'[c] = "inventory" /\ SameNote(c)
    BY <2>1, CommitRowsDoes DEF Goes, Has, SameNote
  <2>3. ~Publish(c)
    BY <2>1 DEF Publish
  <2> QED BY <1>q, <2>1, <2>2, <2>3 DEF Passage
<1>6. CASE RecordBuilding(c)
  <2>1. /\ pc[c] = "record" /\ pc'[c] = "build" /\ SameNote(c) /\ job'[c].snap = job[c].snap
    BY <1>6, RecordBuildingDoes DEF Goes, Has, SameNote
  <2>2. ~Publish(c)
    BY <2>1 DEF Publish
  <2> QED BY <1>q, <2>1, <2>2 DEF Passage
<1>7. CASE Build(c) \/ Move(c) \/ PublishRevoked(c)
  <2>0. pc[c] \in {"build", "move", "commit"} /\ ~Publish(c)
    BY <1>7 DEF Build, Move, PublishRevoked, Publish
  <2>1. job[c].g \in Gens
    BY <1>g, <2>0 DEF MakePcs
  <2>2. CASE Build(c)
    BY <1>0, <1>q, <2>0, <2>1, <2>2, BuildDoes DEF Goes, SameNote, Passage
  <2>3. CASE Move(c)
    BY <1>q, <2>0, <2>1, <2>3, MoveDoes DEF Goes, SameNote, Passage
  <2>4. CASE PublishRevoked(c)
    BY <1>q, <2>0, <2>1, <2>4, PublishRevokedDoes DEF Goes, SameNote, Passage
  <2> QED BY <1>7, <2>2, <2>3, <2>4
<1>8. CASE Project(c)
  <2>1. /\ pc[c] = "project" /\ pc'[c] = "check" /\ SameNote(c) /\ job'[c].snap = job[c].snap
    BY <1>8, ProjectDoes DEF Goes, Has, stores, SameNote
  <2>2. ~Publish(c)
    BY <2>1 DEF Publish
  <2> QED BY <1>q, <2>1, <2>2 DEF Passage
<1>9. CASE Check(c)
  <2>1. /\ pc[c] = "check" /\ pc'[c] \in {"move", "fail"} /\ SameNote(c) /\ job' = job
    BY <1>9, PlainDoes DEF Goes, stores, SameNote
  <2>2. ~Publish(c)
    BY <2>1 DEF Publish
  <2> QED BY <1>q, <2>1, <2>2 DEF Passage
<1>10. CASE ReadBack(c)
  <2>1. /\ pc[c] = "readback" /\ SameNote(c)
        /\ pc'[c] = (IF active = job[c].g /\ Resolvable THEN "retain" ELSE "fail")
    BY <1>10, PlainDoes DEF Goes, stores, SameNote
  <2>2. active = job[c].g
    BY <2>1 DEF NoteInv
  <2>3. ~Publish(c)
    BY <2>1 DEF Publish
  <2> QED BY <1>0, <1>q, <2>1, <2>2, <2>3 DEF Passage
<1>11. CASE ScanReady(c)
  <2>1. /\ pc[c] = "retain" /\ pc'[c] \in {"published", "retaining"} /\ SameNote(c)
    <3> DEFINE old == InState("ready") \ Newest(InState("ready"), Retain)
    <3>1. /\ pc[c] = "retain"
          /\ Goes(c, IF old = {} THEN "published" ELSE "retaining")
          /\ Has(c, job[c].kind, job[c].g, job[c].snap, job[c].proj,
                    old, job[c].claimed, job[c].published, job[c].agreed, job[c].edited)
          /\ UNCHANGED <<stores, locks, rd, bounds>>
      BY <1>11, ScanReadyDoes
    <3> HIDE DEF old
    <3> QED BY <3>1 DEF Goes, Has, stores, SameNote
  <2>2. ~Publish(c)
    BY <2>1 DEF Publish
  <2> QED BY <1>q, <2>1, <2>2 DEF Passage
<1>12. CASE RemoveOld(c) \/ UnlinkFails(c)
  <2>1. /\ pc[c] = "retaining" /\ pc' = pc /\ SameNote(c)
    BY <1>12, RemoveOldDoes, UnlinkFailsDoes DEF Claims, Passes, Has, stores, SameNote
  <2>2. ~Publish(c)
    BY <2>1 DEF Publish
  <2> QED BY <1>q, <2>1, <2>2 DEF Passage
<1>13. CASE RetainCommit(c)
  <2>1. pc[c] = "retaining" /\ CommitRows(c, "superseded", "published") /\ "published" \in PCs
    BY <1>13 DEF RetainCommit, PCs
  <2>2. pc'[c] = "published" /\ SameNote(c)
    BY <2>1, CommitRowsDoes DEF Goes, Has, SameNote
  <2>3. ~Publish(c)
    BY <2>1 DEF Publish
  <2> QED BY <1>q, <2>1, <2>2, <2>3 DEF Passage
<1>14. CASE RecordFailure(c)
  <2>0. pc[c] = "fail" /\ ~Publish(c)
    BY <1>14 DEF RecordFailure, Publish
  <2>1. job[c].g \in Gens
    BY <1>g, <2>0
  <2>2. pc'[c] = Raised(c) /\ SameNote(c)
    BY <1>14, <2>1, RecordFailureDoes DEF Goes, Has, SameNote
  <2> QED BY <1>q, <1>r, <2>0, <2>2 DEF Passage
<1>15. CASE Error(c)
  <2>1. /\ pc[c] # "idle" /\ pc'[c] = Handled(c) /\ SameNote(c)
        /\ pc[c] \in ErrorPcs
    BY <1>0, <1>15, ErrorDoes DEF Goes, Has, stores, SameNote, PublicationStands
  <2>2. Passage(pc[c], Handled(c)) /\ Handled(c) \notin SnappedPcs
    <3>1. CASE pc[c] \in {"recover", "write", "reap", "reaping", "receipt"}
      BY <3>1 DEF Handled, Passage, NoteInv
    <3>2. CASE pc[c] \in {"inventory", "record", "fail"}
      BY <1>r, <3>2 DEF Handled, Passage
    <3>3. CASE pc[c] \in MakePcs
      BY <3>3 DEF Handled, Passage, MakePcs
    <3> QED BY <2>1, <3>1, <3>2, <3>3 DEF ErrorPcs, MakePcs
  <2>3. ~Publish(c)
    <3>1. gen' = gen /\ gen \in [Gens -> Row]
      BY <1>15, QuietPointer DEF Fault, TypeOK, StoresOK
    <3>2. ASSUME Publish(c) PROVE FALSE
      <4>1. pc[c] = "commit" /\ gen[job[c].g].state = "building"
        BY <3>2 DEF Publish
      <4>2. job[c].g \in Gens
        BY <1>g, <4>1 DEF MakePcs
      <4>3. gen'[job[c].g].state = "ready"
        BY <3>2, <4>2, PublishDoes DEF Becomes
      <4> QED BY <3>1, <4>1, <4>3
    <3> QED BY <3>2
  <2> QED BY <1>q, <2>1, <2>2, <2>3
<1> QED BY <1>2, <1>3, <1>4, <1>5, <1>6, <1>7, <1>8, <1>9, <1>10, <1>11, <1>12, <1>13, <1>14, <1>15

LEMMA SameKind ==
    ASSUME TypeOK, PublishInv, NEW c \in Callers, Calls(c),
           ~(\E kind \in {"sync", "note"} : Start(c, kind)), ~Leave(c), ~Kill(c)
    PROVE  job'[c].kind = job[c].kind /\ job'[c].edited = job[c].edited
<1>1. CASE ScanStale(c) \/ ScanReady(c) \/ ClaimStale(c) \/ RemoveOld(c)
  BY <1>1, ScanStaleDoes, ScanReadyDoes, ClaimStaleDoes, RemoveOldDoes DEF Claims, Passes, Has
<1>2. CASE ReapCommit(c) \/ RetainCommit(c)
  <2>1. \E state \in {"failed", "superseded"}, l \in PCs : CommitRows(c, state, l)
    BY <1>2 DEF ReapCommit, RetainCommit, PCs
  <2> QED BY <2>1, CommitRowsDoes DEF Has
<1>3. CASE TakeInventory(c) \/ RecordBuilding(c) \/ Project(c) \/ Report(c)
  BY <1>3, TakeInventoryDoes, RecordBuildingDoes, ProjectDoes, ReportDoes DEF Has
<1>4. CASE Check(c) \/ ReadBack(c) \/ Recover(c) \/ AppendReceipt(c) \/ Undo(c)
  BY <1>4, PlainDoes
<1>5. CASE Build(c) \/ Move(c) \/ PublishRevoked(c) \/ TakeLock(c)
  BY <1>5 DEF Build, Move, PublishRevoked, TakeLock
<1>6. CASE Publish(c) \/ RecordFailure(c)
  <2>0. pc[c] \in MakePcs \cup {"fail"}
    BY <1>6 DEF RecordFailure, Publish, MakePcs
  <2>1. job[c].g \in Gens
    BY <2>0, OwnFacts
  <2> QED BY <1>6, <2>1, RecordFailureDoes, PublishDoes DEF Has
<1>7. CASE \E v \in Versions : WriteNote(c, v)
  BY <1>7, WriteNoteDoes DEF Has
<1>8. CASE Error(c)
  BY <1>8, ErrorDoes DEF Has
<1>9. CASE UnlinkFails(c) \/ ReapUnlinkFails(c)
  BY <1>9, UnlinkFailsDoes, ReapUnlinkFailsDoes DEF Passes, Claims, Has
<1> QED BY <1>1, <1>2, <1>3, <1>4, <1>5, <1>6, <1>7, <1>8, <1>9 DEF Calls, Sync, Mutation, Fault

(* The steps that begin, end or roll back a mutation, and the publication. *)
LEMMA ActingNotes ==
    ASSUME TypeOK, PublishInv, PublishInv', NEW c \in Callers, NoteInv(c), SnapInv(c),
           job[c].kind = "note", ~job[c].edited, Calls(c),
           \/ Recover(c) \/ AppendReceipt(c) \/ Undo(c)
           \/ \E v \in Versions : WriteNote(c, v)
           \/ TakeInventory(c) \/ Publish(c) \/ Report(c)
    PROVE  NoteInv(c)'
<1>0. /\ note \in Versions /\ None \notin Versions /\ Resolvable
  BY IndexSets DEF TypeOK, StoresOK, PublishInv, ActiveInv, Resolvable
<1> USE DEF NewPcs, PendingPcs, SnappedPcs, ServedPcs
<1>1. CASE Recover(c)
  <2>1. /\ pc[c] = "recover" /\ pc'[c] = "write" /\ job' = job
    BY <1>1, PlainDoes DEF Goes
  <2> QED BY <2>1 DEF NoteInv
<1>2. CASE AppendReceipt(c)
  <2>1. /\ pc[c] = "receipt" /\ pc'[c] = "ok" /\ note' = note /\ gen' = gen /\ active' = active
    BY <1>2, PlainDoes DEF Goes
  <2> QED BY <2>1 DEF NoteInv, Serves
<1>3. CASE Undo(c)
  <2>1. /\ pc[c] = "undo" /\ RollBackNote /\ job' = job /\ gen' = gen /\ active' = active
        /\ pc'[c] = (IF job[c].published THEN "reap" ELSE "failed")
    BY <1>3, PlainDoes DEF Goes
  <2>2. pre # None /\ (~job[c].published /\ job[c].agreed => Serves(pre))
    BY <2>1 DEF NoteInv
  <2>3. note' = pre /\ pre' = None
    BY <2>1, <2>2 DEF RollBackNote
  <2>4. CASE job[c].published
    BY <2>1, <2>3, <2>4 DEF NoteInv, Pending
  <2>5. CASE ~job[c].published
    BY <2>1, <2>2, <2>3, <2>5 DEF NoteInv, Serves
  <2> QED BY <2>4, <2>5
<1>4. CASE \E v \in Versions : WriteNote(c, v)
  <2>1. /\ pc[c] = "write" /\ pc'[c] = "reap" /\ pre' = note /\ gen' = gen /\ active' = active
        /\ job'[c].published = job[c].published /\ job'[c].agreed = Serves(note)
    BY <1>4, WriteNoteDoes DEF Goes, Has
  <2>2. ~job[c].published
    BY <2>1 DEF NoteInv
  <2> QED BY <1>0, <2>1, <2>2 DEF NoteInv, Pending, Serves
<1>5. CASE TakeInventory(c)
  <2>1. /\ pc[c] = "inventory" /\ pc'[c] = "record" /\ job'[c].snap = note
        /\ gen' = gen /\ active' = active /\ SameNote(c)
    BY <1>0, <1>5, TakeInventoryDoes DEF Goes, Has, stores, SameNote
  <2>2. Pending(c)
    BY <2>1 DEF NoteInv
  <2> QED BY <2>1, <2>2 DEF NoteInv, Pending, Serves, SameNote
<1>6. CASE Publish(c)
  <2>1. pc[c] = "commit" /\ gen[job[c].g].state = "building" /\ dbLock = None
    BY <1>6 DEF Publish
  <2>2. job[c].g \in Gens
    BY <2>1, OwnFacts DEF MakePcs
  <2>3. gen[job[c].g].text = note
    <3>1. gen[job[c].g].file = "generation"
      BY <2>1, NoneClaimed DEF PublishInv, CommitInv
    <3> QED BY <2>1, <3>1 DEF NoteInv, SnapInv
  <2>4. /\ pc'[c] = "readback" /\ SameNote(c) /\ job'[c].g = job[c].g
        /\ active' = job[c].g /\ gen'[job[c].g].text = note
    BY <1>6, <2>2, <2>3, PublishDoes DEF Goes, Has, Becomes, SameNote
  <2>5. Serves(note)'
    BY <2>2, <2>4, IndexSets DEF Serves, Gens, SameNote
  <2>6. job[c].published <=> pre = None
    BY <2>1 DEF NoteInv, Pending
  <2> QED BY <2>4, <2>5, <2>6 DEF NoteInv, SameNote
<1>7. CASE Report(c)
  <2>1. /\ pc[c] = "published" /\ note' = note /\ pre' = pre /\ gen' = gen /\ active' = active
        /\ pc'[c] = (IF job[c].published THEN "failed" ELSE "receipt")
        /\ job'[c].published = TRUE
    BY <1>7, ReportDoes DEF Goes, Has, stores
  <2>2. Serves(note) /\ (job[c].published <=> pre = None)
    BY <2>1 DEF NoteInv
  <2> QED BY <2>1, <2>2 DEF NoteInv, Serves
<1> QED BY <1>1, <1>2, <1>3, <1>4, <1>5, <1>6, <1>7

LEMMA OwnNotes ==
    ASSUME TypeOK, PublishInv, PublishInv', PublicationStands, serial \in Deployments,
           NEW c \in Callers, NoteInv(c), SnapInv(c), Calls(c)
    PROVE  NoteInv(c)'
<1>1. CASE \E kind \in {"sync", "note"} : Start(c, kind)
  <2>1. pc'[c] \in {"lock", "reap"} /\ ~job'[c].published /\ ~job'[c].agreed
        /\ (job'[c].kind = "note" => pc'[c] = "lock")
    BY <1>1, StartDoes DEF Goes, Has
  <2> QED BY <2>1 DEF NoteInv, NewPcs, PendingPcs, SnappedPcs, ServedPcs
<1>2. CASE Leave(c) \/ Kill(c)
  <2>1. job'[c].kind = "none"
    BY <1>2, LeaveDoes, KillDoes DEF Has
  <2> QED BY <2>1 DEF NoteInv
<1>3. CASE ~(\E kind \in {"sync", "note"} : Start(c, kind)) /\ ~Leave(c) /\ ~Kill(c)
  <2>1. job'[c].kind = job[c].kind /\ job'[c].edited = job[c].edited
    BY <1>3, SameKind
  <2> SUFFICES ASSUME job[c].kind = "note", ~job[c].edited PROVE NoteInv(c)'
    BY <2>1 DEF NoteInv
  <2> QED BY <1>3, PassingNotes, ActingNotes DEF Calls, Sync, Mutation, Fault
<1> QED BY <1>1, <1>2, <1>3

LEMMA NotesInvStep ==
    ASSUME CoreInv, CoreInv', PublicationStands, SnapsInv, NotesInv, [Next]_indexVars
    PROVE  NotesInv'
<1>0. TypeOK /\ PublishInv /\ PublishInv' /\ serial \in Deployments
  BY DEF CoreInv
<1>1. CASE \E c \in Callers : Calls(c)
  <2> PICK c \in Callers : Calls(c)
    BY <1>1
  <2>1. NoteInv(c)'
    BY <1>0, OwnNotes DEF NotesInv, SnapsInv
  <2>2. \A d \in Callers \ {c} : NoteInv(d)'
    BY <1>0, OtherNotes DEF NotesInv
  <2> QED BY <2>1, <2>2 DEF NotesInv
<1>2. CASE \E v \in Versions : Edit(v)
  <2>1. \A c \in Callers : job'[c].edited = (job[c].kind = "note") /\ job'[c].kind = job[c].kind
    BY <1>0, <1>2, EditDoes
  <2> QED BY <2>1 DEF NotesInv, NoteInv
<1>3. CASE RecoverElsewhere
  <2>1. /\ UNCHANGED <<gen, active, pc, job>>
        /\ \A c \in Callers : job[c].kind = "note" => pc[c] \in {"lock", "recover"}
    BY <1>3 DEF RecoverElsewhere
  <2> QED BY <2>1 DEF NotesInv, NoteInv, NewPcs, PendingPcs, SnappedPcs, ServedPcs
<1>4. CASE (\E r \in Readers : Read(r)) \/ UNCHANGED indexVars
  <2>1. UNCHANGED <<note, pre, gen, active, pc, job>>
    BY <1>4, ReadChanges DEF indexVars, stores
  <2> QED BY <2>1 DEF NotesInv, NoteInv, Pending, Serves
<1> QED BY <1>1, <1>2, <1>3, <1>4, NextIs

(* _apply_note_mutation leaves notes and index agreeing: a mutation that   *)
(* succeeded is served by the active generation, one that failed and was   *)
(* rolled back is not, at whatever step publication raised.                *)
THEOREM NotesServed == ASSUME PublicationStands PROVE Spec => []NoteAndIndexAgree
<1>1. Init => NotesInv
  BY DEF Init, NotesInv, NoteInv, NoJob
<1>2. CoreInv /\ CoreInv' /\ SnapsInv /\ NotesInv /\ [Next]_indexVars => NotesInv'
  BY NotesInvStep
<1>3. NotesInv => NoteAndIndexAgree
  BY DEF NotesInv, NoteInv, NoteAndIndexAgree
<1> QED BY <1>1, <1>2, <1>3, CoreHolds, SnapsHold, PTL DEF Spec
================================================================================
