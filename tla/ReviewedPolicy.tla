--------------------------- MODULE ReviewedPolicy ---------------------------
(***************************************************************************)
(* What a governed policy promises.  The policy in force moves for a       *)
(* proposal only while the proposal is granted, only from the policy it    *)
(* was reviewed on, and only to the one the review passed.  Operators may  *)
(* go back to a policy of the past and, where that is allowed, override.   *)
(* Every move is logged, a restart is none, and a proposal that was        *)
(* enacted or closed stays so.  PolicyGovernance implements this           *)
(* specification where no provider suspends and saves succeed.             *)
(***************************************************************************)
EXTENDS Sequences

CONSTANTS Proposals, Operator,
          Policies,     \* what can be in force
          Start,        \* the policy at first
          Approval,     \* does a passed review have to be approved?
          Overrides     \* may operators put any policy in force?

VARIABLES policy,       \* the policy in force
          past,         \* the policies that were in force so far
          log,          \* who put which policy in force
          review,       \* the review a proposal passed: on which policy, for which
          standing      \* of a proposal: open, granted, enacted or closed

vars == <<policy, past, log, review, standing>>

Init ==
    /\ policy = Start /\ past = {Start} /\ log = <<>>
    /\ review = [p \in Proposals |-> {}]
    /\ standing = [p \in Proposals |-> "open"]

\* A proposal passes its review, once.
Pass(p) ==
    /\ standing[p] = "open" /\ review[p] = {}
    /\ \E r \in review'[p] :
          /\ r.on = policy /\ r.gives \in Policies
          /\ review' = [review EXCEPT ![p] = {r}]
    /\ standing' = IF Approval THEN standing ELSE [standing EXCEPT ![p] = "granted"]
    /\ UNCHANGED <<policy, past, log>>

Grant(p) ==
    /\ standing[p] = "open" /\ review[p] # {}
    /\ standing' = [standing EXCEPT ![p] = "granted"]
    /\ UNCHANGED <<policy, past, log, review>>

Close(p) ==
    /\ standing[p] \in {"open", "granted"}
    /\ standing' = [standing EXCEPT ![p] = "closed"]
    /\ UNCHANGED <<policy, past, log, review>>

Put(who) ==
    /\ past' = past \cup {policy'}
    /\ log' = Append(log, [by |-> who, after |-> policy'])
    /\ UNCHANGED <<review, standing>>

\* A crash before Finish leaves the proposal granted: it may be enacted again
\* once the policy is again the one it was reviewed on.
Enact(p) ==
    /\ standing[p] = "granted"
    /\ \E r \in review[p] : policy = r.on /\ policy' = r.gives
    /\ Put(p)

Finish(p) ==
    /\ standing[p] = "granted"
    /\ \E i \in DOMAIN log : log[i].by = p
    /\ standing' = [standing EXCEPT ![p] = "enacted"]
    /\ UNCHANGED <<policy, past, log, review>>

GoBack == policy' \in past /\ Put(Operator)

Override == Overrides /\ policy' \in Policies /\ Put(Operator)

Next ==
    \/ \E p \in Proposals : Pass(p) \/ Grant(p) \/ Close(p) \/ Enact(p) \/ Finish(p)
    \/ GoBack
    \/ Override

Spec == Init /\ [][Next]_vars
=============================================================================
