------------------------------- MODULE Governance -------------------------------
(***************************************************************************)
(* The rules of a project's lifecycle (core/governance_engine.py) and the  *)
(* replay of its ledger under them (core/state_reducer.py, with a          *)
(* historical authority: the one the state service uses).                  *)
(*                                                                         *)
(* A state of the project is a record; "failed" is the sequence number of  *)
(* the event at which the replay raises, 0 if it does not.                 *)
(* Risks, issues, assumptions, dependencies and observations are "public"  *)
(* events: anyone may append them, and no rule reads what they record.     *)
(* Their payloads are not checked when they are appended, so that replay   *)
(* raises at one that does not fit the strict model of its entity.  Left   *)
(* out: what they record, health flags and owner changes.  "open" stands   *)
(* for every state of a task that is not terminal, "canceled" for the      *)
(* terminal ones that leave no receipt.                                    *)
(***************************************************************************)
EXTENDS Naturals, Sequences, FiniteSets, FiniteSetsExt, SequencesExt

CONSTANT None

Terminal == {"completed", "canceled"}
Resolved == {"approved", "rejected", "expired"}
OverrideRoles == {"Accountable", "admin", "architect", "lead"}

-----------------------------------------------------------------------------
(* The seventeen legal transitions, with what each of them asks for.       *)
Rule(gate, approval, evidence, rollback, pre) ==
    [gate |-> gate, approval |-> approval, evidence |-> evidence, rollback |-> rollback,
     pre |-> pre]

Free == Rule(None, FALSE, FALSE, FALSE, {})
Stopped == Rule(None, TRUE, TRUE, FALSE, {"reason"})
Reverted == Rule(None, TRUE, TRUE, TRUE, {"reason"})
Reopened == Rule(None, TRUE, TRUE, TRUE, {"reason", "accountable_approval"})
Closing == Rule("dod_execution_to_closing", FALSE, TRUE, FALSE, {"all_tasks_terminal"})

LegalSteps ==
    {<<"DISCOVERY", "PLANNING">>, <<"PLANNING", "EXECUTION">>, <<"EXECUTION", "MONITORING">>,
     <<"MONITORING", "EXECUTION">>, <<"EXECUTION", "CLOSING">>, <<"MONITORING", "CLOSING">>,
     <<"CLOSING", "CLOSED">>, <<"CLOSING", "EXECUTION">>, <<"PLANNING", "DISCOVERY">>,
     <<"EXECUTION", "PLANNING">>, <<"MONITORING", "PLANNING">>, <<"DISCOVERY", "CLOSED">>,
     <<"PLANNING", "CLOSED">>, <<"EXECUTION", "CLOSED">>, <<"MONITORING", "CLOSED">>,
     <<"CLOSED", "PLANNING">>, <<"CLOSED", "EXECUTION">>}

Legal == [step \in LegalSteps |->
    CASE step = <<"DISCOVERY", "PLANNING">> -> Rule("dor_discovery_to_planning", FALSE, TRUE,
            FALSE, {"charter_present", "owner_assigned"})
      [] step = <<"PLANNING", "EXECUTION">> -> Rule("dor_planning_to_execution", TRUE, TRUE,
            FALSE, {"dor_passed", "raci_accountable_assigned", "initial_tasks_registered"})
      [] step[2] = "CLOSING" -> Closing
      [] step = <<"CLOSING", "CLOSED">> -> Rule("dod_final_closing", TRUE, TRUE, FALSE,
            {"dod_passed", "all_tasks_terminal", "all_decisions_resolved"})
      [] step = <<"CLOSING", "EXECUTION">> -> Rule(None, FALSE, TRUE, TRUE, {"reason"})
      [] step[1] # "CLOSING" /\ step[2] = "CLOSED" -> Stopped
      [] step[1] = "CLOSED" -> Reopened
      [] step \in {<<"EXECUTION", "MONITORING">>, <<"MONITORING", "EXECUTION">>} -> Free
      [] OTHER -> Reverted]

DorGates == {"dor_discovery_to_planning", "dor_planning_to_execution"}
DodGates == {"dod_execution_to_closing", "dod_final_closing"}

-----------------------------------------------------------------------------
(* The actors accountable in s, and the one actor if there is one.         *)
AccountableSet(s) == {ra[2] : ra \in {x \in s.raci : x[1] = "Accountable"}}
Accountable(s) ==
    IF Cardinality(AccountableSet(s)) = 1 THEN CHOOSE a \in AccountableSet(s) : TRUE
    ELSE None

(* What the replay of the prefix makes known to a rule applied in s: the   *)
(* approvals and receipts that evaluations recorded, never the live ones.  *)
EffectiveAuthority(s) ==
    [evidence |-> s.evidence, approved |-> s.approved, receipts |-> s.receipts,
     raci |-> s.raci, accountable |-> Accountable(s)]

AllTerminal(s) == \A t \in DOMAIN s.tasks : s.tasks[t].state \in Terminal
AllResolved(s) == \A d \in DOMAIN s.decisions : s.decisions[d] \in Resolved

(* Definition of Ready for the phase "to".                                 *)
DorPassed(s, to) ==
    \/ "dor_planning_to_execution" \in s.overridden
    \/ (to = "EXECUTION" => DOMAIN s.tasks # {})

(* Definition of Done, with the evidence refs that the event gives.        *)
DodPassed(s, refs, authority) ==
    \/ s.overridden \cap DodGates # {}
    \/ /\ AllTerminal(s)
       /\ AllResolved(s)
       /\ \/ refs # {} /\ refs \subseteq authority.evidence
          \/ \E t \in DOMAIN s.tasks : \E r \in s.tasks[t].receipts :
                 <<t, r>> \in authority.receipts

(* An approval is a decision named by the event and approved for the       *)
(* authority, or the Accountable where the rule says so.                   *)
ApprovalGiven(e, rule, authority) ==
    \/ e.approvals \cap authority.approved # {}
    \/ /\ "accountable_approval" \in rule.pre
       /\ e.by # None
       /\ e.by = authority.accountable

Precondition(pre, s, e, authority) ==
    CASE pre = "charter_present" -> s.charter # {}
      [] pre = "owner_assigned" -> s.owner
      [] pre = "reason" -> e.reason
      [] pre = "dor_passed" -> DorPassed(s, "EXECUTION")
      [] pre = "raci_accountable_assigned" -> authority.accountable # None
      [] pre = "initial_tasks_registered" -> DOMAIN s.tasks # {}
      [] pre = "all_tasks_terminal" -> AllTerminal(s) /\ DOMAIN s.tasks # {}
      [] pre = "dod_passed" -> DodPassed(s, e.refs, authority)
      [] pre = "all_decisions_resolved" -> AllResolved(s)
      [] pre = "accountable_approval" -> e.by # None /\ e.by = authority.accountable

(* Is the phase change e allowed in s?                                     *)
TransitionAllowed(s, e, authority) ==
    LET rule == Legal[<<s.phase, e.to>>] IN
    /\ s.phase = "CLOSED" => e.reopen
    /\ <<s.phase, e.to>> \in DOMAIN Legal
    /\ Cardinality(AccountableSet(s)) <= 1
    /\ rule.rollback => e.reason
    /\ rule.evidence => e.refs # {} /\ e.refs \subseteq authority.evidence
    /\ rule.approval => ApprovalGiven(e, rule, authority)
    /\ \A pre \in rule.pre : Precondition(pre, s, e, authority)
    /\ rule.gate \in DorGates \ s.overridden => DorPassed(s, e.to)
    /\ rule.gate \in DodGates \ s.overridden => DodPassed(s, e.refs, authority)

(* May the actor of e override a gate, as e says?                          *)
OverrideAllowed(e, authority) ==
    /\ authority.accountable # None
    /\ e.refs # {} /\ e.refs \subseteq authority.evidence
    /\ \E role \in OverrideRoles : <<role, e.actor>> \in authority.raci
    /\ e.by = authority.accountable \/ e.by \in authority.approved

-----------------------------------------------------------------------------
(* The replay, event by event.                                             *)
NewProject ==
    [failed |-> 0, seq |-> 0, phase |-> "DISCOVERY", owner |-> FALSE, evidence |-> {},
     charter |-> {}, raci |-> {}, tasks |-> <<>>, decisions |-> <<>>, approved |-> {},
     receipts |-> {}, gates |-> <<>>, overridden |-> {}, history |-> <<>>]

Unknown == [state |-> "open", revision |-> 1, receipts |-> {}]

Without(f, x) == [y \in DOMAIN f \ {x} |-> f[y]]
Over(f, g) == [x \in DOMAIN f \cup DOMAIN g |-> IF x \in DOMAIN f THEN f[x] ELSE g[x]]
With(f, x, v) == Over(f, [y \in {x} |-> v])

(* A transition that needs a gate needs, as the event just before it, the  *)
(* evaluation that passed for this phase and from the current one.         *)
EvaluatedJustBefore(s, to) ==
    Legal[<<s.phase, to>>].gate # None =>
        /\ to \in DOMAIN s.gates
        /\ s.gates[to].seq = s.seq
        /\ s.gates[to].origin = s.phase

ChangePhase(s, e) ==
    [s EXCEPT !.phase = e.to,
              !.gates = IF Legal[<<s.phase, e.to>>].gate = None THEN @
                        ELSE Without(@, e.to),
              !.history = Append(@, [seq |-> s.seq + 1, from |-> s.phase, to |-> e.to,
                                     approvals |-> e.approvals \cap s.approved,
                                     tasks |-> DOMAIN s.tasks, decisions |-> s.decisions])]

(* An evaluation is accepted where it was made: in its phase, on the       *)
(* evidence, the Accountable and the associations known by then, and with  *)
(* views of tasks if it opens a phase of work.                             *)
EvaluationFits(s, e) ==
    /\ e.from = s.phase
    /\ e.refs \subseteq s.evidence
    /\ e.accountable # None => Accountable(s) = e.accountable
    /\ DOMAIN e.tasks \subseteq DOMAIN s.tasks
    /\ DOMAIN e.decisions \subseteq DOMAIN s.decisions
    /\ e.to = "PLANNING" \/ DOMAIN e.tasks # {}
    /\ \A d \in e.approved : d \in DOMAIN e.decisions /\ e.decisions[d] = "approved"
    /\ \A tr \in e.receipts : tr[1] \in DOMAIN e.tasks /\ tr[2] \in e.tasks[tr[1]].receipts

RecordEvaluation(s, e) ==
    [s EXCEPT !.tasks = Over(e.tasks, @),
              !.decisions = Over(e.decisions, @),
              !.gates = With(Without(@, e.to), e.to, [seq |-> s.seq + 1, origin |-> e.from]),
              !.approved = @ \cup e.approved,
              !.receipts = @ \cup e.receipts]

(* Does the replay raise at e in s?                                        *)
Raises(s, e) ==
    CASE e.type = "phase" ->
            ~ /\ <<s.phase, e.to>> \in DOMAIN Legal
              /\ EvaluatedJustBefore(s, e.to)
              /\ TransitionAllowed(s, e, EffectiveAuthority(s))
      [] e.type = "evaluated" -> ~EvaluationFits(s, e)
      [] e.type = "public" -> ~e.fits
      [] OTHER -> FALSE

EventTypes ==
    {"created", "evidence", "raci.assigned", "raci.revoked", "task.associated",
     "task.disassociated", "decision.associated", "decision.disassociated", "phase",
     "evaluated", "override", "public"}

Effect(s, e) ==
    CASE e.type = "created" -> [s EXCEPT !.phase = "DISCOVERY", !.owner = @ \/ e.owner]
      [] e.type = "evidence" ->
            [s EXCEPT !.evidence = @ \cup {e.ref},
                      !.charter = CASE e.kind = "charter" -> @ \cup {e.ref}
                                    [] e.kind = None -> @
                                    [] OTHER -> @ \ {e.ref}]
      [] e.type = "raci.assigned" -> [s EXCEPT !.raci = @ \cup {<<e.role, e.actor>>}]
      [] e.type = "raci.revoked" -> [s EXCEPT !.raci = @ \ {<<e.role, e.actor>>}]
      [] e.type = "task.associated" -> [s EXCEPT !.tasks = With(@, e.id, Unknown)]
      [] e.type = "task.disassociated" -> [s EXCEPT !.tasks = Without(@, e.id)]
      [] e.type = "decision.associated" -> [s EXCEPT !.decisions = With(@, e.id, "pending")]
      [] e.type = "decision.disassociated" ->
            [s EXCEPT !.decisions = Without(@, e.id), !.approved = @ \ {e.id}]
      [] e.type = "phase" -> ChangePhase(s, e)
      [] e.type = "evaluated" -> RecordEvaluation(s, e)
      [] e.type = "override" ->
            IF OverrideAllowed(e, EffectiveAuthority(s))
            THEN [s EXCEPT !.overridden = @ \cup {e.gate}]
            ELSE s
      [] e.type = "public" -> s

Apply(s, e) ==
    IF s.failed # 0 THEN s
    ELSE IF Raises(s, e) THEN [s EXCEPT !.failed = s.seq + 1]
    ELSE [Effect(s, e) EXCEPT !.seq = s.seq + 1]

Replay(s, events) == FoldLeft(Apply, s, events)
================================================================================
