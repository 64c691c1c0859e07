--------------------------- MODULE ContractBroker ---------------------------
(***************************************************************************)
(* The context broker: agents negotiate contracts with the server in       *)
(* sessions, countersign them, and the server revokes them.                *)
(*                                                                         *)
(* negotiate() holds the broker's lock while it awaits the term evaluator; *)
(* countersigning, revoking and the middleware's look-ups do not take the  *)
(* lock and run in between.  Nothing else suspends.  Sessions live in      *)
(* memory only; contracts are stored one at a time.  What an entry of the  *)
(* exchange log announces is stored after the entry, and a write that      *)
(* raises ends the method with memory ahead of storage.  Writes whose      *)
(* failure changes nothing that is kept here are left out.                 *)
(*                                                                         *)
(* The server signs its contracts (crypto_handler is configured).  Of the  *)
(* exchange log the signing entries are kept.  The terms are left out, and *)
(* so is an agent's invalid signature, which changes nothing.  An active   *)
(* contract may have expired when it is used: whoever uses one allows for  *)
(* that.                                                                   *)
(***************************************************************************)
EXTENDS Storage, FiniteSets

CONSTANTS Agents,
          Countersigned,    \* an agent_registry is configured
          MaxRounds,        \* max_rounds
          MaxSessions,      \* bound: sessions opened
          MaxContracts,     \* bound: contracts made
          None

ASSUME BrokerAssumption ==
    /\ Countersigned \in BOOLEAN
    /\ MaxRounds \in Nat /\ MaxSessions \in Nat /\ MaxContracts \in Nat
    /\ None \notin Nat

VARIABLES contracts,        \* ContextBroker._active_contracts, by contract id
          savedContracts,   \* the backend's contracts
          sessions,         \* ContextBroker._sessions, by session id
          evaluating,       \* the session whose request holds the lock, or None
          opened, made,     \* session and contract ids used so far
          entries,          \* the signing entries of the stored exchange log
          refused,          \* history: sessions the agent was told are rejected
          ended             \* history: contracts revoked by a call that returned

brokerVars == <<contracts, savedContracts, sessions, evaluating, opened, made,
                entries, refused, ended>>

-----------------------------------------------------------------------------
SessionIds == 1..MaxSessions
ContractIds == 1..MaxContracts

Sessions == [agent : Agents, status : {"pending", "counter", "accepted", "rejected"},
             rounds : Nat, timedOut : BOOLEAN]

Contracts == [agent : Agents, session : SessionIds,
              status : {"pending_countersign", "active", "revoked"}]

ASSUME NoneAssumption == None \notin Sessions /\ None \notin Contracts

Entries == {"contract_signed", "agent_signed"} \X ContractIds

\* Contracts and sessions that are not there are None.
ContractMap(m) == /\ DOMAIN m = ContractIds
                  /\ \A c \in ContractIds : IF c <= made THEN m[c] \in Contracts \cup {None}
                                                         ELSE m[c] = None

BrokerTypeOK ==
    /\ ContractMap(contracts) /\ ContractMap(savedContracts)
    /\ sessions \in [SessionIds -> Sessions \cup {None}]
    /\ evaluating \in SessionIds \cup {None}
    /\ opened \in 0..MaxSessions /\ made \in 0..MaxContracts
    /\ entries \subseteq Entries
    /\ refused \subseteq 1..opened
    /\ ended \subseteq 1..made

-----------------------------------------------------------------------------
\* _start_negotiation up to the evaluation; writing the first entries of the
\* session's log may raise.
OpenSession(a) ==
    /\ evaluating = None
    /\ opened < MaxSessions
    /\ opened' = opened + 1
    /\ sessions' = [sessions EXCEPT ![opened + 1] =
                       [agent |-> a, status |-> "pending", rounds |-> 0, timedOut |-> FALSE]]
    /\ \E ok \in BOOLEAN :
          /\ Storing(ok)
          /\ evaluating' = IF ok THEN opened + 1 ELSE None
    /\ UNCHANGED <<contracts, savedContracts, made, entries, refused, ended>>

\* session_timeout has passed since last_activity; it is not counted again.
SessionTimesOut(s) ==
    /\ sessions[s] # None /\ ~sessions[s].timedOut
    /\ sessions' = [sessions EXCEPT ![s].timedOut = TRUE]
    /\ UNCHANGED <<contracts, savedContracts, evaluating, opened, made, entries, refused,
                   ended, faults>>

TooLate(s) == sessions[s].timedOut \/ sessions[s].rounds >= MaxRounds

\* Mutant: a refused session may start over.
RefuseStartsOver(s) ==
    /\ evaluating = None
    /\ sessions[s] # None /\ TooLate(s)
    /\ sessions' = [sessions EXCEPT ![s].status = "rejected", ![s].rounds = 0]
    /\ Storing(TRUE)
    /\ refused' = refused \cup {s}
    /\ UNCHANGED <<contracts, savedContracts, evaluating, opened, made, entries, ended>>

\* _continue_negotiation of a session that is over; the entry that says so is
\* written only when the rounds are exceeded.
Refuse(s) ==
    /\ evaluating = None
    /\ sessions[s] # None /\ TooLate(s)
    /\ sessions' = [sessions EXCEPT ![s].status = "rejected"]
    /\ \E ok \in BOOLEAN :
          /\ Storing(ok)
          /\ sessions[s].timedOut => ok
          /\ refused' = IF ok THEN refused \cup {s} ELSE refused
    /\ UNCHANGED <<contracts, savedContracts, evaluating, opened, made, entries, ended>>

\* _continue_negotiation up to the evaluation, whatever the session's status.
Continue(s) ==
    /\ evaluating = None
    /\ sessions[s] # None /\ ~TooLate(s)
    /\ sessions' = [sessions EXCEPT ![s].rounds = @ + 1]
    /\ \E ok \in BOOLEAN :
          /\ Storing(ok)
          /\ evaluating' = IF ok THEN s ELSE None
    /\ UNCHANGED <<contracts, savedContracts, opened, made, entries, refused, ended>>

-----------------------------------------------------------------------------
\* The evaluator rejects some terms; the first proposal is counted only here.
CounterPropose ==
    /\ evaluating # None
    /\ sessions' = [sessions EXCEPT ![evaluating].status = "counter",
                                    ![evaluating].rounds = IF @ = 0 THEN 1 ELSE @]
    /\ evaluating' = None
    /\ UNCHANGED <<contracts, savedContracts, opened, made, entries, refused, ended, faults>>

\* Mutant: the agent's id is not filled in.
NewContractUnbound ==
    [agent |-> None, session |-> evaluating,
     status |-> IF Countersigned THEN "pending_countersign" ELSE "active"]

NewContract ==
    [agent |-> sessions[evaluating].agent, session |-> evaluating,
     status |-> IF Countersigned THEN "pending_countersign" ELSE "active"]

\* The evaluator accepts, or fails: _create_contract and the end of the
\* request.  Writing the entry may raise, and then saving the contract.
Accept ==
    /\ evaluating # None
    /\ made < MaxContracts
    /\ evaluating' = None
    /\ \/ /\ Storing(FALSE)
          /\ UNCHANGED <<contracts, savedContracts, sessions, made, entries>>
       \/ /\ made' = made + 1
          /\ entries' = entries \cup {<<"contract_signed", made + 1>>}
          /\ contracts' = [contracts EXCEPT ![made + 1] = NewContract]
          /\ \E ok \in BOOLEAN :
                /\ Storing(ok)
                /\ savedContracts' = IF ok THEN [savedContracts EXCEPT ![made + 1] = NewContract]
                                           ELSE savedContracts
                /\ sessions' = IF ok THEN [sessions EXCEPT ![evaluating].status = "accepted"]
                                     ELSE sessions
    /\ UNCHANGED <<opened, refused, ended>>

-----------------------------------------------------------------------------
\* Mutant: the contract is saved before the event is logged.
UpdateSavesFirst(c, status, event, done) ==
    /\ contracts[c] # None
    /\ Storing(done = "all")
    /\ contracts' = [contracts EXCEPT ![c].status = status]
    /\ entries' = IF done = "all" THEN entries \cup event ELSE entries
    /\ savedContracts' = IF done = "memory" THEN savedContracts
                                            ELSE [savedContracts EXCEPT ![c] = contracts'[c]]
    /\ UNCHANGED <<sessions, evaluating, opened, made, refused>>

\* The contract gets a status in memory, the event is logged, the contract is
\* saved: done is "all", or how far it came before a write raised.
Update(c, status, event, done) ==
    /\ contracts[c] # None
    /\ Storing(done = "all")
    /\ contracts' = [contracts EXCEPT ![c].status = status]
    /\ entries' = IF done = "memory" THEN entries ELSE entries \cup event
    /\ savedContracts' = IF done = "all" THEN [savedContracts EXCEPT ![c] = contracts'[c]]
                                         ELSE savedContracts
    /\ UNCHANGED <<sessions, evaluating, opened, made, refused>>

Progress == {"memory", "logged", "all"}

\* Mutant: a countersignature is taken whatever the contract's status.
SignAnyTime(c, done) ==
    /\ Update(c, "active", {<<"agent_signed", c>>}, done)
    /\ UNCHANGED ended

\* agent_sign_contract with a valid signature.
Sign(c, done) ==
    /\ contracts[c] # None /\ contracts[c].status = "pending_countersign"
    /\ Update(c, "active", {<<"agent_signed", c>>}, done)
    /\ UNCHANGED ended

\* revoke_contract, of a contract in any status.
RevokeContract(c, done) ==
    /\ Update(c, "revoked", {}, done)
    /\ ended' = IF done = "all" THEN ended \cup {c} ELSE ended

\* A new process loads the contracts; sessions and the lock are gone.
ReloadBroker ==
    /\ contracts' = savedContracts
    /\ sessions' = [s \in SessionIds |-> None]
    /\ evaluating' = None
    /\ UNCHANGED <<savedContracts, opened, made, entries, refused, ended>>

\* get_active_contracts_for_agent.
ActiveContracts(a) ==
    {c \in ContractIds : /\ contracts[c] # None
                         /\ contracts[c].agent = a
                         /\ contracts[c].status = "active"}

-----------------------------------------------------------------------------
BrokerInit ==
    /\ contracts = [c \in ContractIds |-> None]
    /\ savedContracts = [c \in ContractIds |-> None]
    /\ sessions = [s \in SessionIds |-> None]
    /\ evaluating = None
    /\ opened = 0 /\ made = 0
    /\ entries = {}
    /\ refused = {} /\ ended = {}

BrokerNext ==
    \/ \E a \in Agents : OpenSession(a)
    \/ \E s \in SessionIds : SessionTimesOut(s) \/ Refuse(s) \/ Continue(s)
    \/ CounterPropose
    \/ Accept
    \/ \E c \in ContractIds, done \in Progress : Sign(c, done) \/ RevokeContract(c, done)

-----------------------------------------------------------------------------
(***************************************************************************)
(* Properties                                                              *)
(***************************************************************************)
\* A contract revoked by a call that returned stays revoked in memory and in
\* storage: no countersignature that comes late, negotiation in flight, failed
\* write or restart makes it active again (revoke_contract takes no lock).
EndedContractsStayEnded ==
    \A c \in ended : /\ contracts[c] # None /\ contracts[c].status = "revoked"
                     /\ savedContracts[c] # None /\ savedContracts[c].status = "revoked"

\* No stored contract is without the stored log entries that account for it:
\* the server's signature, and the agent's for one that is active although it
\* needed it, whichever writes failed (_create_contract, agent_sign_contract).
StoredContractsLogged ==
    \A c \in ContractIds : savedContracts[c] # None =>
        /\ <<"contract_signed", c>> \in entries
        /\ Countersigned /\ savedContracts[c].status = "active" => <<"agent_signed", c>> \in entries

\* An agent that was told its negotiation is rejected gets no contract from
\* that session later: _continue_negotiation does not look at the session's
\* status, so the reason for the rejection has to last.
RefusalsHold ==
    [][\A c \in ContractIds :
          contracts[c] = None /\ contracts'[c] # None => contracts'[c].session \notin refused]_brokerVars
=============================================================================
