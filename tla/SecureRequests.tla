--------------------------- MODULE SecureRequests ---------------------------
(***************************************************************************)
(* Tool calls on their way through the security middleware, over the       *)
(* components it asks: the contract broker, the provenance ledger, the     *)
(* reflexive core and the consent graph, in the order the orchestrator     *)
(* registers them.                                                         *)
(*                                                                         *)
(*     contract  ->  provenance  ->  reflexive  ->  consent  ->  tool      *)
(*                                                                         *)
(* A call passes the gates in one stretch, unless the reflexive gate makes *)
(* it sleep, and suspends in the tool; everything else may happen in       *)
(* between.  A denial by the contract gate leaves no provenance, because   *)
(* the recorder is behind it; a denial by a later gate is an exception the *)
(* recorder sees.  The verdicts of the analyzer and the escalation engine  *)
(* come from statistics and are any verdict.                               *)
(***************************************************************************)
EXTENDS ContractBroker, ConsentGraph, ProvenanceLedger

CONSTANTS Calls,
          MaxOperations     \* bound: management operations and restarts

ASSUME RequestsAssumption == Agents \subseteq Holders /\ MaxOperations \in Nat

VARIABLES calls,        \* the calls: their phase, agent and contract
          suspended,    \* ReflexiveMiddleware._suspended_actors
          operations    \* bound: management operations so far

vars == <<faults, brokerVars, consentVars, ledger, calls, suspended, operations>>

-----------------------------------------------------------------------------
Phases == {"idle", "throttled", "running", "asking", "answered", "failed"}

TypeOK ==
    /\ BrokerTypeOK /\ ConsentTypeOK /\ LedgerTypeOK
    /\ faults \in 0..MaxFaults
    /\ calls \in [Calls -> [phase : Phases, agent : Agents \cup {None},
                            contract : ContractIds \cup {None}]]
    /\ suspended \subseteq Agents
    /\ operations \in 0..MaxOperations

Idle == [phase |-> "idle", agent |-> None, contract |-> None]

\* Call c, made by agent a and admitted under contract k, is now in phase.
Move(c, a, k, phase) ==
    calls' = [calls EXCEPT ![c] = [phase |-> phase, agent |-> a, contract |-> k]]

\* _process_drift after the call of agent a: it may be suspended.
Drift(a) == suspended' \in {suspended, suspended \cup {a}}

-----------------------------------------------------------------------------
\* Mutant: the receipt is issued although the record could not be stored.
RecordOutcomeRegardless(event, c, o1, o2) ==
    LET first == Recorded(ledger, <<event, c>>, o1)
    IN  /\ MayEnd(ledger, o1) /\ MayEnd(first, o2)
        /\ Storing(o1 = "kept" /\ o2 = "kept")
        /\ ledger' = Recorded(first, <<"receipt", c>>, o2)

\* The recorder: a record of the call's outcome, then the receipt, in one
\* stretch; an exception of the ledger ends it.
RecordOutcome(event, c, o1, o2) ==
    LET first == Recorded(ledger, <<event, c>>, o1)
    IN  /\ MayEnd(ledger, o1)
        /\ IF o1 = "kept"
           THEN /\ MayEnd(first, o2)
                /\ Storing(o2 = "kept")
                /\ ledger' = Recorded(first, <<"receipt", c>>, o2)
           ELSE o2 = o1 /\ Storing(FALSE) /\ ledger' = first

\* An exception from behind the recorder: it is recorded and raised again.
Fail(c, a, k) ==
    /\ \E o1, o2 \in Outcomes : RecordOutcome("error", c, o1, o2)
    /\ Move(c, a, k, "failed")

\* The consent gate, and the tool starts; a valid grant may have expired, or
\* its conditions fail.
ConsentGate(c, a, k) ==
    \/ /\ Consented(edges, a)
       /\ Move(c, a, k, "running")
       /\ UNCHANGED <<ledger, suspended, faults>>
    \/ Fail(c, a, k) /\ Drift(a)

\* The reflexive gate: suspended, halted or to be confirmed; throttled; or
\* passed on.  What it raises here does not count as drift.
ReflexiveGate(c, a, k) ==
    \/ Fail(c, a, k) /\ UNCHANGED suspended
    \/ /\ a \notin suspended
       /\ \/ Move(c, a, k, "throttled") /\ UNCHANGED <<ledger, suspended, faults>>
          \/ ConsentGate(c, a, k)

\* A call arrives: the contract gate takes an active contract of the agent.
Arrive(c, a) ==
    /\ calls[c] = Idle
    /\ \E k \in ActiveContracts(a) : ReflexiveGate(c, a, k)
    /\ UNCHANGED <<brokerVars, consentVars, operations>>

\* The contract gate finds no contract that has not expired, or cannot log
\* that it found one; the recorder does not see the call.
Deny(c, a) ==
    /\ calls[c] = Idle
    /\ Move(c, a, None, "failed")
    /\ UNCHANGED <<faults, brokerVars, consentVars, ledger, suspended, operations>>

\* The throttled call wakes up behind the gates it has passed.
Wake(c) ==
    /\ calls[c].phase = "throttled"
    /\ ConsentGate(c, calls[c].agent, calls[c].contract)
    /\ UNCHANGED <<brokerVars, consentVars, operations>>

\* Mutant: the result is answered whether or not it could be recorded.
ReturnAnyway(c) ==
    /\ calls[c].phase = "running"
    /\ Drift(calls[c].agent)
    /\ \E o1, o2 \in Outcomes : RecordOutcome("tool_called", c, o1, o2)
    /\ Move(c, calls[c].agent, calls[c].contract, "answered")
    /\ UNCHANGED <<brokerVars, consentVars, operations>>

\* The tool returns a result, which is answered if it could be recorded.
Return(c) ==
    /\ calls[c].phase = "running"
    /\ Drift(calls[c].agent)
    /\ \E o1, o2 \in Outcomes :
          /\ RecordOutcome("tool_called", c, o1, o2)
          /\ Move(c, calls[c].agent, calls[c].contract, IF o2 = "kept" THEN "answered" ELSE "failed")
    /\ UNCHANGED <<brokerVars, consentVars, operations>>

\* The tool raises.
Raise(c) ==
    /\ calls[c].phase = "running"
    /\ Drift(calls[c].agent)
    /\ Fail(c, calls[c].agent, calls[c].contract)
    /\ UNCHANGED <<brokerVars, consentVars, operations>>

\* The tool asks for input: the recorder returns without a record.
Ask(c) ==
    /\ calls[c].phase = "running"
    /\ Drift(calls[c].agent)
    /\ Move(c, calls[c].agent, calls[c].contract, "asking")
    /\ UNCHANGED <<faults, brokerVars, consentVars, ledger, operations>>

\* The request is cancelled while it sleeps or the tool runs: the recorder
\* catches exceptions only, and a cancellation is not one.
Cancel(c) ==
    /\ calls[c].phase \in {"throttled", "running"}
    /\ Move(c, calls[c].agent, calls[c].contract, "failed")
    /\ UNCHANGED <<faults, brokerVars, consentVars, ledger, suspended, operations>>

-----------------------------------------------------------------------------
\* The process ends, with every call in it, and a new one loads what storage
\* has; who was suspended is not stored.
Restart ==
    /\ ReloadBroker
    /\ ReloadConsent
    /\ ledger' = Reloaded(ledger)
    /\ calls' = [c \in Calls |->
                    IF calls[c].phase \in {"throttled", "running"}
                    THEN [calls[c] EXCEPT !.phase = "failed"] ELSE calls[c]]
    /\ suspended' = {}
    /\ UNCHANGED faults

\* What operators and agents do besides calling tools.
Manage ==
    /\ operations < MaxOperations
    /\ operations' = operations + 1
    /\ \/ BrokerNext /\ UNCHANGED <<consentVars, ledger, calls, suspended>>
       \/ ConsentNext /\ UNCHANGED <<brokerVars, ledger, calls, suspended>>
       \/ Restart

-----------------------------------------------------------------------------
Init ==
    /\ BrokerInit /\ ConsentInit /\ LedgerInit
    /\ faults = 0
    /\ calls = [c \in Calls |-> Idle]
    /\ suspended = {}
    /\ operations = 0

Next ==
    \/ \E c \in Calls :
          \/ \E a \in Agents : Arrive(c, a) \/ Deny(c, a)
          \/ Wake(c) \/ Return(c) \/ Raise(c) \/ Ask(c) \/ Cancel(c)
    \/ Manage

Spec == Init /\ [][Next]_vars

-----------------------------------------------------------------------------
(***************************************************************************)
(* Properties                                                              *)
(***************************************************************************)
\* A call that got its result has the record of it in storage, directly
\* followed by its receipt, whatever other calls, failing writes and restarts
\* came before and after (on_call_tool, issue_execution_receipt).
AnsweredIsRecorded ==
    \A c \in Calls : calls[c].phase = "answered" =>
        \E i \in DOMAIN ledger.disk :
            /\ ledger.disk[i].what = <<"tool_called", c>>
            /\ i + 1 \in DOMAIN ledger.disk
            /\ ledger.disk[i + 1].what = <<"receipt", c>>

\* A stored receipt directly follows, and links to, the stored record of the
\* same call: no call's receipt stands without its record or behind another's.
ReceiptFollowsItsRecord ==
    \A i \in DOMAIN ledger.disk : ledger.disk[i].what[1] = "receipt" =>
        /\ i > 1
        /\ ledger.disk[i].prev = ledger.disk[i - 1].hash
        /\ ledger.disk[i - 1].what \in {"tool_called", "error"} \X {ledger.disk[i].what[2]}

\* No call gets past the contract gate under a contract whose revocation has
\* been acknowledged, and no tool starts without consent over edges none of
\* which was withdrawn; a contract revoked while its call is throttled does
\* not stop the call, a grant does.
AdmittedOnLiveGrants ==
    [][\A c \in Calls :
          /\ calls[c] = Idle /\ calls'[c].phase \in {"throttled", "running"}
             => calls'[c].contract \notin ended
          /\ calls[c].phase # "running" /\ calls'[c].phase = "running"
             => Consented([e \in DOMAIN edges \ withdrawn |-> edges[e]], calls'[c].agent)]_vars
=============================================================================
