------------------------------ MODULE AtomicStore ------------------------------
(***************************************************************************)
(* What the transactions of core/task_store.py promise: the files of the   *)
(* store change only by whole transactions.  Nobody sees, after a crash and*)
(* its recovery, a part of one.                                            *)
(***************************************************************************)
EXTENDS Naturals, Sequences

CONSTANTS Files, Images, NoFile,
          Plans     \* the transactions there are

VARIABLE content

(* A write plan: the files a transaction declares, in order, and the       *)
(* images its body writes to some of them.                                 *)
Plan == [touch : Seq(Files), writes : Seq(Files \X Images)]

RangeOf(q) == {q[i] : i \in 1..Len(q)}

(* Every written file is declared, once.                                   *)
Declared(p) ==
    /\ \A w \in RangeOf(p.writes) : w[1] \in RangeOf(p.touch)
    /\ \A i, j \in 1..Len(p.writes) : p.writes[i][1] = p.writes[j][1] => i = j

(* What a plan makes of the content c.                                     *)
Applied(c, p) ==
    [f \in Files |->
        IF \E w \in RangeOf(p.writes) : w[1] = f
        THEN (CHOOSE w \in RangeOf(p.writes) : w[1] = f)[2]
        ELSE c[f]]

Init == content = [f \in Files |-> NoFile]

Apply == \E p \in Plans : Declared(p) /\ content' = Applied(content, p)

Next == Apply
Spec == Init /\ [][Next]_content
================================================================================
