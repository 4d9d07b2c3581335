--------------------------- MODULE MCProjectEventStore ---------------------------
(* Small instances of ProjectEventStore for TLC.                           *)
EXTENDS ProjectEventStore, TLC

CONSTANTS k1, k2, i1, i2, i9

C(k, i, b) == [key |-> k, eid |-> i, body |-> b]

(* deterministic ids: i1 for k1, i2 for k2; i9 is an id a caller made up   *)
MCDetId == (k1 :> i1) @@ (k2 :> i2)

(* The same request twice (k1, body 1), another body under its key, a      *)
(* request that only has an event id.                                      *)
MCCmds == {C(k1, NoId, 1), C(k1, NoId, 2), C(NoKey, i9, 1)}

(* One request with a key, one without anything.                           *)
PlainCmds == {C(k1, NoId, 1), C(NoKey, NoId, 1)}

MCBatches == {<<C(k2, i2, 1), C(NoKey, NoId, 1)>>, <<C(k1, i1, 1)>>}

KeyedCmd == {C(k1, NoId, 1)}
OneBatch == {<<C(k2, i2, 1), C(NoKey, NoId, 1)>>}
NoBatches == {}
=================================================================================
