--------------------------- MODULE MCGenerationIndex ---------------------------
(* Small instances of GenerationIndex.                                     *)
EXTENDS GenerationIndex, TLC

At(fault, labels) == {<<fault, l>> : l \in labels}

Kills == At("kill", PCs \ {"idle"})

(* Errors of the file system or of SQLite before the pointer is committed. *)
ErrorsBefore == At("error", {"recover", "write", "reap", "reaping", "inventory",
                             "record", "build", "project", "check", "move", "commit",
                             "fail", "receipt"})

(* Publishers without the vault lock: a reaper that is killed between its  *)
(* unlinks and its commit is left out.                                     *)
Published ==
    [s \in BOOLEAN |-> (Kills \cup ErrorsBefore \cup At("unlink", {"retaining", "reaping"}))
                            \ (IF s THEN {} ELSE At("kill", {"reaping"})
                                                    \cup At("error", {"reaping"}))]

(* SQLite refuses the bookkeeping of the retention: locked, or disk full.  *)
InRetention == [s \in BOOLEAN |-> At("error", {"retain", "retaining"})]

EditWhenSerial == [s \in BOOLEAN |-> IF s THEN 1 ELSE 0]

Alike == Permutations(Callers)
================================================================================
