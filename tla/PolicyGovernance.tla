-------------------------- MODULE PolicyGovernance --------------------------
(***************************************************************************)
(* The policy governor: proposals to change the live chain, validated,     *)
(* simulated, approved, rejected or withdrawn by people, and deployed into *)
(* the policy engine, whose calls it awaits.                               *)
(***************************************************************************)
EXTENDS PolicyEngine

CONSTANTS
    RequireSimulation,   \* the governor's require_simulation
    RequireApproval,     \* the governor's require_approval
    Clashes,             \* sets of providers whose patterns contradict
    ProposalOps          \* bound: the kinds of change proposed

ASSUME GovernorFlags ==
    /\ RequireSimulation \in BOOLEAN
    /\ RequireApproval \in BOOLEAN
    /\ Clashes \subseteq SUBSET Providers

VARIABLE prop            \* self._proposals

govVars == <<engineVars, prop>>

-----------------------------------------------------------------------------
Statuses == {"none", "draft", "validated", "validation_failed", "simulated",
             "approved", "deployed", "rejected", "withdrawn"}
Events == {"validated", "simulated", "approved", "deployed", "rejected", "withdrawn"}

(* "held": the live provider objects the proposal carries, never stored.   *)
(* "reviewed" is a history variable: the chain validation looked at.       *)
ProposalRecords ==
    [status : Statuses, want : Calls, base : Nat, held : BOOLEAN,
     report : BOOLEAN, trail : SUBSET Events, reviewed : Seq(Providers)]
NoProposal ==
    [status |-> "none", want |-> NoCall, base |-> 0, held |-> FALSE,
     report |-> FALSE, trail |-> {}, reviewed |-> <<>>]

GovTypeOK == TypeOK /\ prop \in [Proposals -> ProposalRecords]

Contradictory(ch) == \E clash \in Clashes : clash \subseteq ToSet(ch)

FreshUnchecked(p) == p \in Proposals  (* mutant: the base version is not compared *)

(* _raise_if_stale: a proposal drafted against another version is refused. *)
Fresh(p) == current = 0 \/ prop[p].base = 0 \/ prop[p].base = current

(* A proposal loaded from storage has lost the objects it would install.   *)
Deployable(p) == prop[p].want.op = "remove" \/ prop[p].held

(* _build_hypothetical_providers: what the chain would be after it.        *)
HasHypothetical(p) == Deployable(p) /\ Applicable(prop[p].want, chain)
Hypothetical(p) == Changed(prop[p].want, chain)

Mark(p, status) ==
    prop' = [prop EXCEPT ![p].status = status, ![p].trail = prop[p].trail \cup {status}]

Quiet == running = NoTask

-----------------------------------------------------------------------------
(* The lifecycle of a proposal *)

(* propose_add, propose_swap, propose_remove, propose_replace_chain.       *)
Propose(p) ==
    /\ Quiet
    /\ prop[p].status = "none"
    /\ Len(changes) < MaxChanges
    /\ \E o \in Offers(chain) :
        /\ o.op \in ProposalOps
        /\ prop' = [prop EXCEPT ![p] =
              [NoProposal EXCEPT !.status = "draft", !.want = CallFor(o, p),
                                 !.base = current, !.held = TRUE]]
    /\ UNCHANGED engineVars

Validate(p) ==
    /\ Quiet
    /\ prop[p].status \in {"draft", "validation_failed"}
    /\ Fresh(p) /\ HasHypothetical(p)
    /\ LET valid == ~Contradictory(Hypothetical(p)) IN
       prop' = [prop EXCEPT
          ![p].status = IF valid THEN "validated" ELSE "validation_failed",
          ![p].trail = prop[p].trail \cup (IF valid THEN {"validated"} ELSE {}),
          ![p].reviewed = Hypothetical(p)]
    /\ UNCHANGED engineVars

(* Mutant: the status is not looked at.                                    *)
SimulatableAnytime(p) == prop[p].status # "none" /\ Fresh(p) /\ HasHypothetical(p)

Simulatable(p) ==
    /\ prop[p].status \in {"validated", "simulated"}
    /\ Fresh(p) /\ HasHypothetical(p)

(* The report of a simulation is stored, and the status set, whatever the  *)
(* status has become while the scenarios ran.                              *)
Reported(p) ==
    prop' = [prop EXCEPT ![p].report = TRUE, ![p].status = "simulated",
                         ![p].trail = prop[p].trail \cup {"simulated"}]

(* simulate_proposal: scenarios are evaluated against the hypothetical     *)
(* chain, and may suspend at its providers.                                *)
Simulate(p, t) ==
    /\ Quiet /\ pc[t] = "idle"
    /\ Simulatable(p)
    /\ \/ Reported(p) /\ UNCHANGED engineVars
       \/ /\ ToSet(Hypothetical(p)) \cap AsyncProviders # {}
          /\ pc' = [pc EXCEPT ![t] = "simulating"]
          /\ call' = [call EXCEPT ![t] =
                [NoCall EXCEPT !.op = "simulate", !.by = p]]
          /\ UNCHANGED <<chain, history, mutex, running, changes, eval, prop>>

SimulationEnds(t) ==
    /\ Quiet /\ pc[t] = "simulating"
    /\ Reported(call[t].by)
    /\ pc' = [pc EXCEPT ![t] = "idle"]
    /\ call' = [call EXCEPT ![t] = NoCall]
    /\ UNCHANGED <<chain, history, mutex, running, changes, eval>>

Approve(p) ==
    /\ Quiet
    /\ prop[p].status \in {"validated", "simulated"}
    /\ Fresh(p)
    /\ RequireSimulation => prop[p].report
    /\ Mark(p, "approved")
    /\ UNCHANGED engineVars

Reject(p) ==
    /\ Quiet
    /\ prop[p].status \notin {"none", "deployed", "rejected", "withdrawn"}
    /\ Mark(p, "rejected")
    /\ UNCHANGED engineVars

Withdraw(p) ==
    /\ Quiet
    /\ prop[p].status \notin {"none", "deployed", "withdrawn"}
    /\ Mark(p, "withdrawn")
    /\ UNCHANGED engineVars

-----------------------------------------------------------------------------
(* Deployment: the checks are made here, once; the change is made when the *)
(* engine's lock is obtained, and the status is set when the call returns. *)

(* The statuses from which a proposal may be deployed.                     *)
Grants == IF RequireApproval THEN {"approved"} ELSE {"validated", "simulated", "approved"}

(* Mutant: approval is not asked for.                                      *)
CanDeployUnapproved(p) ==
    /\ prop[p].status \in {"validated", "simulated", "approved"}
    /\ Fresh(p)
    /\ Deployable(p)

CanDeploy(p) ==
    /\ prop[p].status \in Grants
    /\ Fresh(p)
    /\ Deployable(p)

Deploy(p, t) ==
    /\ Free(t)
    /\ CanDeploy(p)
    /\ prop[p].want.op = "swap" => Applicable(prop[p].want, chain)
    /\ Enter(t, prop[p].want)
    /\ UNCHANGED prop

(* An engine call that raised leaves the status as it was.                 *)
SucceededAnyway(t) == pc[t] \in {"done", "failed"}  (* mutant *)
Succeeded(t) == pc[t] = "done"

DeployReturns(t) ==
    /\ running = t
    /\ pc[t] \in {"done", "failed"}
    /\ IF Succeeded(t) THEN Mark(call[t].by, "deployed") ELSE UNCHANGED prop
    /\ pc' = [pc EXCEPT ![t] = "idle"]
    /\ call' = [call EXCEPT ![t] = NoCall]
    /\ running' = NoTask
    /\ UNCHANGED <<chain, history, mutex, changes, eval>>

-----------------------------------------------------------------------------
(* Every transition is saved as it is made, so a restarted governor finds  *)
(* its proposals as they were, less the objects and reports held in memory.*)
RestartAll ==
    /\ Restart
    /\ prop' = [p \in Proposals |-> [prop[p] EXCEPT !.held = FALSE, !.report = FALSE]]

Init == EngineInit /\ prop = [p \in Proposals |-> NoProposal]

Step(t) ==
    \/ TaskStep(t) /\ UNCHANGED prop
    \/ SimulationEnds(t)
    \/ DeployReturns(t)

(* Evaluations only read the chain: EngineSpec runs them against its       *)
(* changes, and this composition leaves them out.                          *)
Next ==
    \/ \E p \in Proposals :
        \/ Propose(p) \/ Validate(p) \/ Approve(p) \/ Reject(p) \/ Withdraw(p)
        \/ \E t \in Tasks : Simulate(p, t) \/ Deploy(p, t)
    \/ \E t \in Tasks : (DirectCall(t) \/ Rollback(t)) /\ UNCHANGED prop
    \/ \E t \in Tasks : Step(t)
    \/ RestartAll

Spec == Init /\ [][Next]_govVars

-----------------------------------------------------------------------------
(* Properties *)

(* The decisions a proposal needs before it may change the chain.          *)
Entitled(p) ==
    /\ "validated" \in prop[p].trail
    /\ RequireApproval => "approved" \in prop[p].trail
    /\ RequireApproval /\ RequireSimulation => "simulated" \in prop[p].trail

Made(p) == \E i \in DOMAIN changes : changes[i].by = p

(* "Prevents unsafe policy changes from reaching production without        *)
(* review": no change reaches the chain for a proposal that was not        *)
(* validated and approved, and simulated where that is required, whatever  *)
(* restarts and concurrent calls came between.                             *)
OnlyReviewed == \A p \in Proposals : Made(p) => Entitled(p)

(* What a deployment leaves in place is the very chain that was validated  *)
(* for it: "the registry blocks stale proposals once the live chain *)
(* moves forward".                                                         *)
DeployedAsReviewed ==
    \A i \in DOMAIN changes : changes[i].by # Direct =>
        changes[i].after = prop[changes[i].by].reviewed

(* A deployed proposal did change the chain.                               *)
DeployedWasMade == \A p \in Proposals : prop[p].status = "deployed" => Made(p)

(* "deployed" and "withdrawn" are the end of a proposal, and a rejected    *)
(* one can only be withdrawn.                                              *)
FinalStatus ==
    [][\A p \in Proposals :
        /\ prop[p].status \in {"deployed", "withdrawn"} => prop'[p].status = prop[p].status
        /\ prop[p].status = "rejected" => prop'[p].status \in {"rejected", "withdrawn"}]_govVars

(* The governor implements the abstract governed policy, where no provider *)
(* suspends and saves succeed: a proposal's standing is what its status    *)
(* says, and its review is of the chain of its base version.               *)
Standings == [p \in Proposals |->
    CASE prop[p].status = "deployed"                   -> "enacted"
      [] prop[p].status \in {"rejected", "withdrawn"} -> "closed"
      [] prop[p].status \in Grants                    -> "granted"
      [] OTHER                                        -> "open"]
Reviews == [p \in Proposals |->
    IF "validated" \in prop[p].trail
    THEN {[on |-> versions[prop[p].base], gives |-> prop[p].reviewed]} ELSE {}]

Governed == INSTANCE ReviewedPolicy WITH
    Operator <- Direct, Policies <- Seq(Providers), Start <- InitialChain,
    Approval <- RequireApproval, Overrides <- DirectOps \ {"rollback"} # {},
    policy <- chain, past <- ToSet(versions), log <- changes,
    review <- Reviews, standing <- Standings
ImplementsReview == Governed!Spec
=============================================================================
