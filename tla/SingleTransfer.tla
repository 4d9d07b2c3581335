---------------------------- MODULE SingleTransfer ----------------------------
(***************************************************************************)
(* What the broker promises of REPLICATE, whatever files, tokens and       *)
(* rollbacks lie underneath: contents are sent, once each, on a key and an *)
(* approval that pay for nothing else; what has arrived is never touched   *)
(* again; and a caller is told of a transfer only if it was made under its *)
(* key and has arrived.                                                    *)
(***************************************************************************)

CONSTANTS Runs, Keys, Approvals, NoApproval

VARIABLES
    sent,      \* the transfers: a run, its key and its approval
    arrived,   \* the runs the receiver has
    told       \* keys and runs that were answered with OK

vars == <<sent, arrived, told>>

Transfer == [run : Runs, key : Keys, approval : Approvals \cup {NoApproval}]

(* Two transfers may not share what is used up by one.                     *)
Apart(b, c) ==
    /\ b.run # c.run
    /\ b.key # c.key
    /\ b.approval = c.approval => b.approval = NoApproval

Init ==
    /\ sent = {}
    /\ arrived = {}
    /\ told = {}

Send ==
    /\ \E b \in Transfer :
        /\ \A c \in sent : Apart(b, c)
        /\ sent' = sent \cup {b}
    /\ UNCHANGED <<arrived, told>>

Arrive ==
    /\ \E b \in sent : arrived' = arrived \cup {b.run}
    /\ UNCHANGED <<sent, told>>

Tell ==
    /\ \E b \in sent :
        /\ b.run \in arrived
        /\ told' = told \cup {<<b.key, b.run>>}
    /\ UNCHANGED <<sent, arrived>>

Next == Send \/ Arrive \/ Tell

Spec == Init /\ [][Next]_vars
================================================================================
