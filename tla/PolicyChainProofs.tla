------------------------- MODULE PolicyChainProofs -------------------------
(***************************************************************************)
(* Theorems about the live chain: that its changes are recorded, and made  *)
(* as they were reviewed, and that evaluations cover it.  Some hold under  *)
(* a premise that their statement names; the runs of PolicyEngine and      *)
(* PolicyGovernance show that they fail without it.                        *)
(***************************************************************************)
EXTENDS PolicyGovernanceProofs

-----------------------------------------------------------------------------
(* The log of changes *)

LogEntries == [by : Proposals \cup {Direct}, after : Seq(Providers)]

(* One more entry in the log.                                              *)
LEMMA LogGrows ==
    ASSUME TypeOK, NEW who \in Proposals \cup {Direct}, chain' \in Seq(Providers),
           changes' = Append(changes, [by |-> who, after |-> chain'])
    PROVE  /\ DOMAIN changes \subseteq DOMAIN changes'
           /\ \A i \in DOMAIN changes : changes'[i] = changes[i]
           /\ \A i \in DOMAIN changes' \ DOMAIN changes :
                 changes'[i] = [by |-> who, after |-> chain']
           /\ Made(who)'
<1>1. PICK e \in LogEntries : e = [by |-> who, after |-> chain']  BY DEF LogEntries
<1>2. changes \in Seq(LogEntries)  BY DEF TypeOK, LogEntries
<1>3. Len(changes) \in Nat /\ DOMAIN changes = 1 .. Len(changes)  BY <1>2, LenProperties
<1>4. /\ changes' \in Seq(LogEntries)
      /\ Len(changes') = Len(changes) + 1
      /\ \A i \in 1 .. Len(changes) : changes'[i] = changes[i]
      /\ changes'[Len(changes) + 1] = e
  BY <1>1, <1>2, AppendProperties
<1>5. DOMAIN changes' = 1 .. (Len(changes) + 1)  BY <1>4, LenProperties
<1>6. e.by = who  BY <1>1
<1>7. Len(changes) + 1 \in DOMAIN changes'  BY <1>3, <1>5
<1>8. Made(who)'  BY <1>4, <1>6, <1>7 DEF Made
<1>9. \A i \in DOMAIN changes' \ DOMAIN changes : i = Len(changes) + 1  BY <1>3, <1>5
<1> QED  BY <1>1, <1>3, <1>4, <1>5, <1>8, <1>9

LEMMA MadeStays ==
    ASSUME TypeOK, chain' \in Seq(Providers), NEW who \in Proposals \cup {Direct},
           changes' = changes \/ changes' = Append(changes, [by |-> who, after |-> chain'])
    PROVE  \A p : Made(p) => Made(p)'
<1>1. CASE changes' = changes  BY <1>1 DEF Made
<1>2. CASE changes' = Append(changes, [by |-> who, after |-> chain'])
  BY <1>2, LogGrows DEF Made
<1> QED  BY <1>1, <1>2

-----------------------------------------------------------------------------
(* What is called deployed was made *)

(* A call that comes back to the governor as done has changed the chain.   *)
DoneInv ==
    /\ GovTypeOK
    /\ DeployedWasMade
    /\ \A t \in Tasks : pc[t] = "done" => Made(call[t].by)

Logged(t) ==
    pc'[t] = "done" => changes' = Append(changes, [by |-> call'[t].by, after |-> chain'])

LEMMA ReturnLogged ==
    ASSUME TypeOK, NEW t \in Tasks, NEW c \in Calls, NEW how \in {"done", "failed"},
           Return(t, c, how), how = "done" => LogChange(c)
    PROVE  Logged(t)
  BY DEF Return, LogChange, Logged, TypeOK

LEMMA BodyLogged ==
    ASSUME TypeOK, NEW t \in Tasks, NEW c \in Calls, Body(t, c)
    PROVE  Logged(t)
<1>1. CASE Return(t, c, "failed")  BY <1>1, ReturnLogged
<1>2. CASE Commit(t, c, Entered(c, chain))  BY <1>2, ReturnLogged DEF Commit
<1>3. CASE pc' = [pc EXCEPT ![t] = "resolving"]  BY <1>3 DEF Logged, TypeOK
<1> QED  BY <1>1, <1>2, <1>3 DEF Body

LEMMA EnterLogged ==
    ASSUME TypeOK, NEW t \in Tasks, NEW c \in Calls, Enter(t, c)
    PROVE  Logged(t)
  BY BodyLogged DEF Enter, Logged, TypeOK

LEMMA TaskStepLogged ==
    ASSUME TypeOK, NEW t \in Tasks, TaskStep(t)
    PROVE  Logged(t)
<1>1. PICK c \in Calls : c = call[t]  BY DEF TypeOK
<1>2. CASE Wake(t)  BY <1>1, <1>2, BodyLogged DEF Wake
<1>3. CASE Resolve(t)  BY <1>1, <1>3, ReturnLogged DEF Resolve, Commit
<1>4. CASE ResolveFails(t)  BY <1>1, <1>4, ReturnLogged DEF ResolveFails
<1> QED  BY <1>2, <1>3, <1>4 DEF TaskStep

LEMMA DirectLogged ==
    ASSUME TypeOK, NEW t \in Tasks, DirectCall(t) \/ Rollback(t)
    PROVE  Logged(t)
<1>1. CASE DirectCall(t)
  <2>1. PICK o \in Offers(chain) : Enter(t, CallFor(o, Direct))
     BY <1>1 DEF DirectCall
  <2>2. PICK c \in Calls : c = CallFor(o, Direct)  BY OfferType DEF TypeOK
  <2> QED  BY <2>1, <2>2, EnterLogged
<1>2. CASE Rollback(t)
  <2>1. pc[t] = "idle"  BY <1>2 DEF Rollback, Free
  <2>2. pc' = pc \/ pc' = [pc EXCEPT ![t] = "queued"]
     BY <1>2 DEF Rollback, RollbackTo, RollbackFails, RestoreNow, RestoreLater
  <2> QED  BY <2>1, <2>2 DEF Logged, TypeOK
<1> QED  BY <1>1, <1>2

(* A step of the engine: the proposals stay as they are.                   *)
LEMMA EngineStepDone ==
    ASSUME DoneInv, GovTypeOK', NEW t \in Tasks, NEW who \in Proposals \cup {Direct},
           Attributed(t, who), Logged(t), UNCHANGED prop
    PROVE  DoneInv'
<1>1. TypeOK /\ chain' \in Seq(Providers)  BY DEF DoneInv, GovTypeOK, TypeOK
<1>2. \A p : Made(p) => Made(p)'  BY <1>1, MadeStays DEF Attributed
<1>3. DeployedWasMade'  BY <1>2 DEF DoneInv, DeployedWasMade
<1>4. ASSUME NEW u \in Tasks, pc'[u] = "done"  PROVE Made(call[u].by)'
  <2>1. CASE u # t
    <3>1. pc[u] = "done" /\ call'[u] = call[u]  BY <1>4, <2>1 DEF Attributed
    <3>2. Made(call[u].by)  BY <3>1 DEF DoneInv
    <3> QED  BY <1>2, <3>1, <3>2
  <2>2. CASE u = t
    <3>1. PICK w \in Proposals \cup {Direct} : w = call'[t].by
       BY DEF GovTypeOK, TypeOK, Calls
    <3>2. changes' = Append(changes, [by |-> w, after |-> chain'])
       BY <1>4, <2>2, <3>1 DEF Logged
    <3>3. Made(w)'  BY <1>1, <3>2, LogGrows
    <3> QED  BY <2>2, <3>1, <3>3 DEF Made
  <2> QED  BY <2>1, <2>2
<1> QED  BY <1>3, <1>4 DEF DoneInv

(* A step that does not change the chain and deploys nothing.              *)
LEMMA OtherStepDone ==
    ASSUME DoneInv, GovTypeOK', UNCHANGED changes,
           \A t \in Tasks : pc'[t] # "done" \/ (pc'[t] = pc[t] /\ call'[t] = call[t]),
           \A p \in Proposals : prop'[p].status = "deployed" =>
               prop[p].status = "deployed" \/ Made(p)
    PROVE  DoneInv'
<1>1. \A p : Made(p)' <=> Made(p)  BY DEF Made
<1>2. DeployedWasMade'  BY <1>1 DEF DoneInv, DeployedWasMade
<1>3. ASSUME NEW t \in Tasks, pc'[t] = "done"  PROVE Made(call[t].by)'
  <2>1. pc[t] = "done" /\ call'[t] = call[t]  BY <1>3
  <2>2. Made(call[t].by)  BY <2>1 DEF DoneInv
  <2> QED  BY <1>1, <2>1, <2>2
<1> QED  BY <1>2, <1>3 DEF DoneInv

LEMMA DeployReturnsDone ==
    ASSUME DoneInv, GovTypeOK', NEW t \in Tasks, DeployReturns(t)
    PROVE  DoneInv'
<1>1. TypeOK /\ prop \in [Proposals -> ProposalRecords]  BY DEF DoneInv, GovTypeOK
<1>2. UNCHANGED changes
      /\ \A u \in Tasks : pc'[u] # "done" \/ (pc'[u] = pc[u] /\ call'[u] = call[u])
  BY <1>1 DEF DeployReturns, TypeOK
<1>3. ASSUME NEW p \in Proposals, prop'[p].status = "deployed", prop[p].status # "deployed"
      PROVE  Made(p)
  <2>1. Succeeded(t) /\ Mark(call[t].by, "deployed")  BY <1>3 DEF DeployReturns
  <2>2. p = call[t].by  BY <1>1, <1>3, <2>1 DEF Mark
  <2> QED  BY <2>1, <2>2 DEF DoneInv, Succeeded
<1> QED  BY <1>2, <1>3, OtherStepDone

LEMMA LifecycleStepDone ==
    ASSUME DoneInv, GovTypeOK', NEW p \in Proposals,
           Propose(p) \/ Validate(p) \/ Approve(p) \/ Reject(p) \/ Withdraw(p)
    PROVE  DoneInv'
<1>1. prop \in [Proposals -> ProposalRecords]  BY DEF DoneInv, GovTypeOK
<1>2. UNCHANGED changes /\ UNCHANGED pc /\ UNCHANGED call
  BY DEF Propose, Validate, Approve, Reject, Withdraw, engineVars
<1>3. prop[p] \in ProposalRecords  BY <1>1
<1>4. ASSUME NEW q \in Proposals, q # p  PROVE prop'[q] = prop[q]
  BY <1>1, <1>4 DEF Propose, Validate, Approve, Reject, Withdraw, Mark
<1>5. prop'[p].status # "deployed"
  <2>1. CASE Propose(p)  BY <1>1, <2>1 DEF Propose, NoProposal
  <2>2. CASE Validate(p)
    <3> DEFINE s == IF ~Contradictory(Hypothetical(p)) THEN "validated" ELSE "validation_failed"
    <3>1. prop'[p].status = s  BY <1>1, <1>3, <2>2 DEF Validate, ProposalRecords
    <3> QED  BY <3>1
  <2>3. CASE Approve(p) \/ Reject(p) \/ Withdraw(p)
    <3>1. PICK s \in {"approved", "rejected", "withdrawn"} : Mark(p, s)
       BY <2>3 DEF Approve, Reject, Withdraw
    <3> QED  BY <1>1, <1>3, <3>1 DEF Mark, ProposalRecords
  <2> QED  BY <2>1, <2>2, <2>3
<1> QED  BY <1>2, <1>4, <1>5, OtherStepDone

LEMMA SimulationStepDone ==
    ASSUME DoneInv, GovTypeOK', NEW t \in Tasks,
           SimulationEnds(t) \/ \E p \in Proposals : Simulate(p, t)
    PROVE  DoneInv'
<1>1. TypeOK /\ prop \in [Proposals -> ProposalRecords]  BY DEF DoneInv, GovTypeOK
<1>2. UNCHANGED changes
      /\ \A u \in Tasks : pc'[u] # "done" \/ (pc'[u] = pc[u] /\ call'[u] = call[u])
  BY <1>1 DEF SimulationEnds, Simulate, engineVars, TypeOK
<1>3. ASSUME NEW p, Reported(p), NEW q \in Proposals, prop'[q].status = "deployed"
      PROVE  prop[q].status = "deployed"
  <2>1. prop[q] \in ProposalRecords  BY <1>1
  <2>2. CASE q # p  BY <1>1, <1>3, <2>2 DEF Reported
  <2>3. CASE q = p  BY <1>1, <1>3, <2>1, <2>3 DEF Reported, ProposalRecords
  <2> QED  BY <2>2, <2>3
<1>4. \A q \in Proposals : prop'[q].status = "deployed" => prop[q].status = "deployed"
  BY <1>3 DEF SimulationEnds, Simulate
<1> QED  BY <1>2, <1>4, OtherStepDone

(* "deployed" is not said of a proposal whose change was not made: deploy  *)
(* marks it only when its call to the engine came back without raising,    *)
(* whatever the engine did while it waited (governance.py deploy).         *)
THEOREM DeployedMade == Spec => []DeployedWasMade
<1>1. Init => DoneInv
  <2> SUFFICES ASSUME Init PROVE DoneInv  OBVIOUS
  <2>1. GovTypeOK
    <3>1. NoProposal \in ProposalRecords
       BY NoCallType, EmptySeq DEF NoProposal, ProposalRecords, Statuses
    <3> QED  BY <3>1, InitType DEF Init, GovTypeOK
  <2> QED  BY <2>1 DEF Init, EngineInit, DoneInv, DeployedWasMade, NoProposal
<1>2. ASSUME DoneInv, [Next]_govVars  PROVE DoneInv'
  <2>1. GovTypeOK' /\ TypeOK  BY <1>2, GovTypeStep DEF DoneInv, GovTypeOK
  <2>2. CASE UNCHANGED govVars
    <3>1. UNCHANGED changes /\ UNCHANGED pc /\ UNCHANGED call /\ UNCHANGED prop
       BY <2>2 DEF govVars, engineVars
    <3> QED  BY <1>2, <2>1, <3>1, OtherStepDone
  <2>3. ASSUME NEW t \in Tasks, (DirectCall(t) \/ Rollback(t)) /\ UNCHANGED prop
        PROVE  DoneInv'
    <3>1. Attributed(t, Direct) /\ Logged(t)
       BY <2>1, <2>3, DirectAttributed, DirectLogged
    <3>2. PICK who \in Proposals \cup {Direct} : who = Direct  OBVIOUS
    <3> QED  BY <1>2, <2>1, <2>3, <3>1, <3>2, EngineStepDone
  <2>4. ASSUME NEW t \in Tasks, TaskStep(t) /\ UNCHANGED prop  PROVE DoneInv'
    <3>1. PICK who \in Proposals \cup {Direct} : who = call[t].by
       BY <2>1 DEF TypeOK, Calls
    <3>2. Attributed(t, who) /\ Logged(t)
       BY <2>1, <2>4, <3>1, TaskStepAttributed, TaskStepLogged
    <3> QED  BY <1>2, <2>1, <2>4, <3>2, EngineStepDone
  <2>5. ASSUME NEW t \in Tasks, NEW p \in Proposals, Deploy(p, t)  PROVE DoneInv'
    <3>1. PICK c \in Calls : c = prop[p].want  BY <1>2 DEF DoneInv, GovTypeOK, ProposalRecords
    <3>2. PICK who \in Proposals \cup {Direct} : who = c.by  BY DEF Calls
    <3>3. Attributed(t, who) /\ Logged(t)
       BY <2>1, <2>5, <3>1, <3>2, EnterAttributed, EnterLogged DEF Deploy
    <3> QED  BY <1>2, <2>1, <2>5, <3>3, EngineStepDone DEF Deploy
  <2>6. CASE RestartAll
    <3>1. UNCHANGED changes /\ \A t \in Tasks : pc'[t] = "idle"
       BY <2>6 DEF RestartAll, Restart
    <3>2. \A p \in Proposals : prop'[p].status = prop[p].status
       BY <1>2, <2>6 DEF RestartAll, DoneInv, GovTypeOK, ProposalRecords
    <3> QED  BY <1>2, <2>1, <3>1, <3>2, OtherStepDone
  <2> QED
     BY <1>2, <2>1, <2>2, <2>3, <2>4, <2>5, <2>6, LifecycleStepDone, SimulationStepDone,
        DeployReturnsDone DEF Next, Step
<1>3. DoneInv => DeployedWasMade  BY DEF DoneInv
<1> QED  BY <1>1, <1>2, <1>3, PTL DEF Spec

-----------------------------------------------------------------------------
(* Every change is recorded *)

Clear(ch) == ToSet(ch) \cap Opaque = {}

(* A rollback that waits for the lock holds a chain of the history; what   *)
(* suspends under the lock will be recorded when it ends.                  *)
Waits(t) ==
    /\ pc[t] = "queued" /\ call[t].op = "restore" => call[t].chain \in ToSet(versions)
    /\ pc[t] = "resolving" => call[t].op # "restore"

AuditInv ==
    /\ GovTypeOK
    /\ LiveChainAudited
    /\ \A t \in Tasks : Waits(t)
    /\ \A p \in Proposals : prop[p].want.op # "restore"

(* What a step on behalf of t does to the history.                         *)
Audits(t) ==
    /\ LiveChainAudited'
    /\ ToSet(versions) \subseteq ToSet(versions')
    /\ Waits(t)'
    /\ \A u \in Tasks \ {t} : pc'[u] = pc[u] /\ call'[u] = call[u]

LEMMA RecordAudited ==
    ASSUME TypeOK, NEW ch \in Seq(Providers), RecordSnapshot(ch)
    PROVE  /\ Clear(ch) => ch \in ToSet(versions')
           /\ ToSet(versions) \subseteq ToSet(versions')
<1>1. CASE UNCHANGED history /\ ~Clear(ch)  BY <1>1 DEF history
<1>2. CASE versions' = Append(versions, ch)
  <2>1. versions \in Seq(Seq(Providers))  BY DEF TypeOK
  <2>2. /\ Len(versions) \in Nat /\ DOMAIN versions = 1 .. Len(versions)
        /\ versions' \in Seq(Seq(Providers)) /\ Len(versions') = Len(versions) + 1
        /\ \A i \in 1 .. Len(versions) : versions'[i] = versions[i]
        /\ versions'[Len(versions) + 1] = ch
     BY <1>2, <2>1, AppendProperties, LenProperties
  <2>3. DOMAIN versions' = 1 .. (Len(versions) + 1)  BY <2>2, LenProperties
  <2>4. DOMAIN versions \subseteq DOMAIN versions' /\ Len(versions) + 1 \in DOMAIN versions'
     BY <2>2, <2>3
  <2> QED  BY <2>2, <2>4 DEF ToSet
<1> QED  BY <1>1, <1>2 DEF RecordSnapshot, Clear

LEMMA CommitAudited ==
    ASSUME TypeOK, NEW t \in Tasks, NEW c \in Calls, NEW ch \in Seq(Providers),
           Commit(t, c, ch), c.op = "restore" => c.chain \in ToSet(versions)
    PROVE  /\ Clear(chain') => chain' \in ToSet(versions')
           /\ ToSet(versions) \subseteq ToSet(versions')
           /\ Waits(t)'
           /\ \A u \in Tasks \ {t} : pc'[u] = pc[u] /\ call'[u] = call[u]
<1>1. PICK next \in Seq(Providers) : next = chain'  BY SettledType DEF Commit
<1> DEFINE Goal == /\ Clear(chain') => chain' \in ToSet(versions')
                   /\ ToSet(versions) \subseteq ToSet(versions')
<1>2. ASSUME c.op = "restore"  PROVE Goal
  <2>1. chain' = c.chain /\ versions' = versions
     BY <1>2 DEF Commit, Recorded, Settled, history
  <2> QED  BY <1>2, <2>1
<1>3. ASSUME c.op # "restore"  PROVE Goal
  <2>1. RecordSnapshot(next)  BY <1>1, <1>3 DEF Commit, Recorded
  <2> QED  BY <1>1, <2>1, RecordAudited
<1>4. pc'[t] \in {"idle", "done"} /\ \A u \in Tasks \ {t} : pc'[u] = pc[u] /\ call'[u] = call[u]
   BY DEF Commit, Return, TypeOK
<1> QED  BY <1>2, <1>3, <1>4 DEF Waits

LEMMA BodyAudited ==
    ASSUME TypeOK, LiveChainAudited, lock = NoTask, NEW t \in Tasks, NEW c \in Calls,
           Body(t, c), c.op = "restore" => c.chain \in ToSet(versions)
    PROVE  Audits(t)
<1>1. CASE /\ Return(t, c, "failed")
           /\ UNCHANGED <<chain, history, lock, changes, eval>>
  <2>1. pc'[t] \in {"idle", "failed"} /\ \A u \in Tasks \ {t} : pc'[u] = pc[u] /\ call'[u] = call[u]
     BY <1>1 DEF Return, TypeOK
  <2> QED  BY <1>1, <2>1 DEF Audits, LiveChainAudited, Waits, history
<1>2. CASE Applicable(c, chain) /\ Commit(t, c, Entered(c, chain)) /\ UNCHANGED lock
  <2>1. PICK ch \in Seq(Providers) : ch = Entered(c, chain)
     BY <1>2, EnteredType DEF TypeOK
  <2> QED  BY <1>2, <2>1, CommitAudited DEF Audits, LiveChainAudited, Clear
<1>3. CASE /\ Identified(c, chain) \cap AsyncProviders # {}
           /\ lock' = t
           /\ pc' = [pc EXCEPT ![t] = "resolving"]
           /\ call' = [call EXCEPT ![t] =
                        IF c.op = "remove" THEN [c EXCEPT !.new = chain[c.at]] ELSE c]
           /\ UNCHANGED history
  <2>1. c.op \in {"add", "swap", "remove"}  BY <1>3 DEF Identified
  <2>2. call'[t].op = c.op  BY <1>3 DEF TypeOK, Calls
  <2>3. /\ pc'[t] = "resolving"
        /\ \A u \in Tasks \ {t} : pc'[u] = pc[u] /\ call'[u] = call[u]
     BY <1>3 DEF TypeOK
  <2>4. LiveChainAudited'  BY <1>3, EngineSets DEF LiveChainAudited
  <2> QED  BY <1>3, <2>1, <2>2, <2>3, <2>4 DEF Audits, Waits, history
<1> QED  BY <1>1, <1>2, <1>3 DEF Body

LEMMA EnterAudited ==
    ASSUME TypeOK, LiveChainAudited, NEW t \in Tasks, NEW c \in Calls, Enter(t, c),
           c.op = "restore" => c.chain \in ToSet(versions)
    PROVE  Audits(t)
<1>1. CASE lock = NoTask /\ Body(t, c)  BY <1>1, BodyAudited
<1>2. CASE /\ pc' = [pc EXCEPT ![t] = "queued"]
           /\ call' = [call EXCEPT ![t] = c]
           /\ UNCHANGED <<chain, history, lock, changes, eval>>
   BY <1>2 DEF Audits, LiveChainAudited, Waits, TypeOK, history
<1> QED  BY <1>1, <1>2 DEF Enter

(* Without lookups that raise, ResolveFails never happens.                 *)
LEMMA TaskStepAudited ==
    ASSUME FlakyProviders = {}, TypeOK, LiveChainAudited, NEW t \in Tasks, Waits(t), TaskStep(t)
    PROVE  Audits(t)
<1>1. PICK c \in Calls : c = call[t]  BY DEF TypeOK
<1>2. CASE Wake(t)
   BY <1>1, <1>2, BodyAudited DEF Wake, Waits
<1>3. CASE Resolve(t)
  <2>1. PICK ch \in Seq(Providers) : ch = chain  BY DEF TypeOK
  <2>2. Commit(t, c, ch) /\ c.op # "restore"  BY <1>1, <1>3, <2>1 DEF Resolve, Waits
  <2> QED  BY <2>2, CommitAudited DEF Audits, LiveChainAudited, Clear
<1>4. ~ResolveFails(t)  BY DEF ResolveFails
<1> QED  BY <1>2, <1>3, <1>4 DEF TaskStep

LEMMA OfferNoRestore ==
    ASSUME NEW ch, NEW o \in Offers(ch), NEW origin
    PROVE  CallFor(o, origin).op \in {"add", "swap", "remove", "replace"}
  BY DEF Offers, CallFor

LEMMA DirectAudited ==
    ASSUME TypeOK, LiveChainAudited, NEW t \in Tasks, Waits(t), DirectCall(t) \/ Rollback(t)
    PROVE  Audits(t)
<1>1. CASE DirectCall(t)
  <2>1. PICK o \in Offers(chain) : Enter(t, CallFor(o, Direct))
     BY <1>1 DEF DirectCall
  <2>2. PICK c \in Calls : c = CallFor(o, Direct)  BY OfferType DEF TypeOK
  <2>3. c.op # "restore"  BY <2>2, OfferNoRestore
  <2> QED  BY <2>1, <2>2, <2>3, EnterAudited
<1>2. CASE Rollback(t)
  <2>1. PICK v \in DOMAIN versions : RollbackTo(t, v)  BY <1>2 DEF Rollback
  <2>2. pc[t] = "idle" /\ UNCHANGED versions  BY <1>2, <2>1 DEF Rollback, Free, RollbackTo
  <2>3. versions[v] \in ToSet(versions)  BY DEF ToSet
  <2>4. CASE RollbackFails(v)
     BY <2>2, <2>4 DEF RollbackFails, mutex, Audits, LiveChainAudited, Waits
  <2>5. CASE RestoreNow(v)
     BY <2>2, <2>3, <2>5 DEF RestoreNow, mutex, Audits, LiveChainAudited, Waits
  <2>6. CASE RestoreLater(t, v)
    <3>1. pc'[t] = "queued" /\ call'[t].chain = versions[v]
       BY <2>6 DEF RestoreLater, Restoring, NoCall, TypeOK
    <3>2. \A u \in Tasks \ {t} : pc'[u] = pc[u] /\ call'[u] = call[u]
       BY <2>6 DEF RestoreLater, TypeOK
    <3> QED  BY <2>2, <2>3, <2>6, <3>1, <3>2 DEF RestoreLater, Audits, LiveChainAudited, Waits
  <2> QED  BY <2>1, <2>4, <2>5, <2>6 DEF RollbackTo
<1> QED  BY <1>1, <1>2

LEMMA AuditedStep ==
    ASSUME AuditInv, GovTypeOK', NEW t \in Tasks, Audits(t), UNCHANGED prop
    PROVE  AuditInv'
<1>1. \A u \in Tasks : Waits(u)'
  <2> SUFFICES ASSUME NEW u \in Tasks, u # t PROVE Waits(u)'  BY DEF Audits
  <2>1. pc'[u] = pc[u] /\ call'[u] = call[u] /\ Waits(u)  BY DEF Audits, AuditInv
  <2> QED  BY <2>1 DEF Audits, Waits
<1> QED  BY <1>1 DEF AuditInv, Audits

(* A step that leaves the engine's chain, lock and history alone.          *)
LEMMA GovernanceAudited ==
    ASSUME AuditInv, GovTypeOK', UNCHANGED <<chain, lock, versions>>,
           \A t \in Tasks : \/ pc'[t] \notin {"queued", "resolving"}
                            \/ pc'[t] = pc[t] /\ call'[t] = call[t],
           \A p \in Proposals : prop'[p].want.op # "restore"
    PROVE  AuditInv'
<1>1. \A t \in Tasks : Waits(t)'  BY DEF AuditInv, Waits
<1> QED  BY <1>1 DEF AuditInv, LiveChainAudited

LEMMA LifecycleAudited ==
    ASSUME AuditInv, GovTypeOK', NEW p \in Proposals,
           Propose(p) \/ Validate(p) \/ Approve(p) \/ Reject(p) \/ Withdraw(p)
    PROVE  AuditInv'
<1>1. prop \in [Proposals -> ProposalRecords] /\ prop[p] \in ProposalRecords
  BY DEF AuditInv, GovTypeOK
<1>2. UNCHANGED <<chain, lock, versions, pc, call>>
  BY DEF Propose, Validate, Approve, Reject, Withdraw, engineVars, history, mutex
<1>3. ASSUME NEW q \in Proposals, q # p  PROVE prop'[q] = prop[q]
  BY <1>1, <1>3 DEF Propose, Validate, Approve, Reject, Withdraw, Mark
<1>4. prop'[p].want.op # "restore"
  <2>1. CASE Propose(p)
    <3>1. PICK o \in Offers(chain) : prop' = [prop EXCEPT ![p] =
              [NoProposal EXCEPT !.status = "draft", !.want = CallFor(o, p),
                                 !.base = current, !.held = TRUE]]
       BY <2>1 DEF Propose
    <3>2. prop'[p].want = CallFor(o, p)  BY <1>1, <3>1 DEF NoProposal
    <3> QED  BY <3>2, OfferNoRestore
  <2>2. CASE Validate(p)
    <3>1. prop'[p].want = prop[p].want
      <4> DEFINE s == IF ~Contradictory(Hypothetical(p)) THEN "validated" ELSE "validation_failed"
                 tr == prop[p].trail \cup (IF ~Contradictory(Hypothetical(p)) THEN {"validated"} ELSE {})
      <4>1. prop' = [prop EXCEPT ![p].status = s, ![p].trail = tr, ![p].reviewed = Hypothetical(p)]
         BY <2>2 DEF Validate
      <4> HIDE DEF s, tr
      <4> QED  BY <1>1, <4>1 DEF ProposalRecords
    <3> QED  BY <3>1 DEF AuditInv
  <2>3. CASE Approve(p) \/ Reject(p) \/ Withdraw(p)
    <3>1. PICK s : Mark(p, s)  BY <2>3 DEF Approve, Reject, Withdraw
    <3>2. prop'[p].want = prop[p].want  BY <1>1, <3>1 DEF Mark, ProposalRecords
    <3> QED  BY <3>2 DEF AuditInv
  <2> QED  BY <2>1, <2>2, <2>3
<1> QED  BY <1>2, <1>3, <1>4, GovernanceAudited DEF AuditInv

LEMMA ReportKeepsWant ==
    ASSUME GovTypeOK, NEW p, Reported(p)
    PROVE  \A q \in Proposals : prop'[q].want = prop[q].want
<1> SUFFICES ASSUME NEW q \in Proposals PROVE prop'[q].want = prop[q].want  OBVIOUS
<1>1. prop \in [Proposals -> ProposalRecords] /\ prop[q] \in ProposalRecords  BY DEF GovTypeOK
<1>2. CASE q # p  BY <1>1, <1>2 DEF Reported
<1>3. CASE q = p  BY <1>1, <1>3 DEF Reported, ProposalRecords
<1> QED  BY <1>2, <1>3

LEMMA SimulationAudited ==
    ASSUME AuditInv, GovTypeOK', NEW t \in Tasks,
           SimulationEnds(t) \/ \E p \in Proposals : Simulate(p, t)
    PROVE  AuditInv'
<1>1. TypeOK /\ GovTypeOK  BY DEF AuditInv, GovTypeOK
<1>2. UNCHANGED <<chain, lock, versions>>
  BY DEF SimulationEnds, Simulate, engineVars, history, mutex
<1>3. \A u \in Tasks : \/ pc'[u] \notin {"queued", "resolving"}
                       \/ pc'[u] = pc[u] /\ call'[u] = call[u]
  BY <1>1 DEF SimulationEnds, Simulate, engineVars, TypeOK
<1>4. \A q \in Proposals : prop'[q].want = prop[q].want
  BY <1>1, ReportKeepsWant DEF SimulationEnds, Simulate
<1> QED  BY <1>2, <1>3, <1>4, GovernanceAudited DEF AuditInv

LEMMA DeployReturnsAudited ==
    ASSUME AuditInv, GovTypeOK', NEW t \in Tasks, DeployReturns(t)
    PROVE  AuditInv'
<1>1. TypeOK /\ prop \in [Proposals -> ProposalRecords]  BY DEF AuditInv, GovTypeOK
<1>2. UNCHANGED <<chain, lock, versions>>  BY DEF DeployReturns, history, mutex
<1>3. \A u \in Tasks : \/ pc'[u] \notin {"queued", "resolving"}
                       \/ pc'[u] = pc[u] /\ call'[u] = call[u]
  BY <1>1 DEF DeployReturns, TypeOK
<1>4. ASSUME NEW q \in Proposals  PROVE prop'[q].want = prop[q].want
  <2>1. prop[q] \in ProposalRecords  BY <1>1
  <2>2. CASE Mark(call[t].by, "deployed") /\ q = call[t].by
     BY <1>1, <2>1, <2>2 DEF Mark, ProposalRecords
  <2>3. CASE Mark(call[t].by, "deployed") /\ q # call[t].by
     BY <1>1, <2>3 DEF Mark
  <2> QED  BY <2>2, <2>3 DEF DeployReturns
<1> QED  BY <1>2, <1>3, <1>4, GovernanceAudited DEF AuditInv

LEMMA RestartAudited ==
    ASSUME AuditInv, GovTypeOK', RestartAll
    PROVE  AuditInv'
<1>1. TypeOK /\ prop \in [Proposals -> ProposalRecords]  BY DEF AuditInv, GovTypeOK
<1>2. chain' \in ToSet(versions')
  <2>1. CASE disk.current # 0
    <3>1. disk.current \in DOMAIN disk.versions
       BY <1>1, <2>1, LenProperties DEF TypeOK
    <3> QED  BY <2>1, <3>1 DEF RestartAll, Restart, Attach, Loaded, ToSet
  <2>2. CASE disk.current = 0
    <3>1. chain' = InitialChain /\ versions' = <<InitialChain>>
       BY <2>2 DEF RestartAll, Restart, Attach
    <3> QED  BY <3>1 DEF ToSet
  <2> QED  BY <2>1, <2>2
<1>3. \A t \in Tasks : pc'[t] = "idle"  BY DEF RestartAll, Restart
<1>4. \A p \in Proposals : prop'[p].want = prop[p].want
  BY <1>1 DEF RestartAll, ProposalRecords
<1> QED  BY <1>2, <1>3, <1>4 DEF AuditInv, LiveChainAudited, Waits

LEMMA AuditInitially == Init => AuditInv
<1> SUFFICES ASSUME Init PROVE AuditInv  OBVIOUS
<1>1. GovTypeOK
  <2>1. NoProposal \in ProposalRecords
     BY NoCallType, EmptySeq DEF NoProposal, ProposalRecords, Statuses
  <2> QED  BY <2>1, InitType DEF Init, GovTypeOK
<1>2. chain \in ToSet(versions)  BY DEF Init, EngineInit, ToSet
<1> QED  BY <1>1, <1>2 DEF Init, EngineInit, AuditInv, LiveChainAudited, Waits, NoProposal, NoCall

LEMMA AuditStep ==
    ASSUME FlakyProviders = {}, AuditInv, [Next]_govVars
    PROVE  AuditInv'
<1>1. GovTypeOK' /\ TypeOK /\ LiveChainAudited /\ \A t \in Tasks : Waits(t)
  BY GovTypeStep DEF AuditInv, GovTypeOK
<1>2. CASE UNCHANGED govVars
  <2>1. UNCHANGED <<chain, lock, versions, pc, call, prop>>
     BY <1>2 DEF govVars, engineVars, history, mutex
  <2> QED  BY <1>1, <2>1, GovernanceAudited DEF AuditInv
<1>3. ASSUME NEW t \in Tasks, (DirectCall(t) \/ Rollback(t)) /\ UNCHANGED prop
      PROVE  AuditInv'
  BY <1>1, <1>3, DirectAudited, AuditedStep
<1>4. ASSUME NEW t \in Tasks, TaskStep(t) /\ UNCHANGED prop  PROVE AuditInv'
  BY <1>1, <1>4, TaskStepAudited, AuditedStep
<1>5. ASSUME NEW t \in Tasks, NEW p \in Proposals, Deploy(p, t)  PROVE AuditInv'
  <2>1. PICK c \in Calls : c = prop[p].want  BY DEF AuditInv, GovTypeOK, ProposalRecords
  <2>2. c.op # "restore"  BY <2>1 DEF AuditInv
  <2>3. Audits(t)  BY <1>1, <1>5, <2>1, <2>2, EnterAudited DEF Deploy
  <2> QED  BY <1>1, <1>5, <2>3, AuditedStep DEF Deploy
<1> QED
  BY <1>1, <1>2, <1>3, <1>4, <1>5, LifecycleAudited, SimulationAudited,
     DeployReturnsAudited, RestartAudited DEF Next, Step

(* If no identity lookup raises, no change of the live chain escapes the   *)
(* history, through rollbacks, lost saves, crashes and restarts at any     *)
(* point: a lookup that raises is the one way to a change without a        *)
(* version (add_provider, remove_provider change the list before it).      *)
THEOREM ChainAlwaysAudited == FlakyProviders = {} => (Spec => []LiveChainAudited)
<1> SUFFICES ASSUME FlakyProviders = {} PROVE Spec => []LiveChainAudited  OBVIOUS
<1>1. AuditInv /\ [Next]_govVars => AuditInv'  BY AuditStep
<1>2. AuditInv => LiveChainAudited  BY DEF AuditInv
<1> QED  BY <1>1, <1>2, AuditInitially, PTL DEF Spec

-----------------------------------------------------------------------------
(* Engines without suspension: the current version is the live chain       *)

(* No provider suspends, every snapshot can be encoded and loaded, and     *)
(* saves succeed: every operation runs to its end at once.                 *)
Atomic ==
    AsyncProviders = {} /\ Opaque = {} /\ Unrestorable = {} /\ ~SaveMayFail

InStep ==
    /\ lock = NoTask /\ queue = <<>>
    /\ current \in DOMAIN versions
    /\ chain = versions[current]
    /\ disk = [versions |-> versions, current |-> current]
    /\ \A t \in Tasks : pc[t] \in {"idle", "done", "failed"}

(* The history only grows.                                                 *)
Grows ==
    /\ DOMAIN versions \subseteq DOMAIN versions'
    /\ \A v \in DOMAIN versions : versions'[v] = versions[v]

LEMMA RecordInStep ==
    ASSUME Atomic, TypeOK, NEW ch \in Seq(Providers), RecordSnapshot(ch)
    PROVE  /\ Grows
           /\ current' \in DOMAIN versions' /\ versions'[current'] = ch
           /\ disk' = [versions |-> versions', current |-> current']
<1>1. /\ versions' = Append(versions, ch) /\ current' = Len(versions) + 1
      /\ disk' = [versions |-> versions', current |-> current']
  BY DEF Atomic, RecordSnapshot, Save
<1>2. versions \in Seq(Seq(Providers))  BY DEF TypeOK
<1>3. /\ Len(versions) \in Nat /\ DOMAIN versions = 1 .. Len(versions)
      /\ versions' \in Seq(Seq(Providers)) /\ Len(versions') = Len(versions) + 1
      /\ \A i \in 1 .. Len(versions) : versions'[i] = versions[i]
      /\ versions'[Len(versions) + 1] = ch
  BY <1>1, <1>2, AppendProperties, LenProperties
<1>4. DOMAIN versions' = 1 .. (Len(versions) + 1)  BY <1>3, LenProperties
<1> QED  BY <1>1, <1>3, <1>4 DEF Grows

LEMMA EnterInStep ==
    ASSUME Atomic, TypeOK, InStep, NEW t \in Tasks, NEW c \in Calls, c.op # "restore",
           Enter(t, c)
    PROVE  /\ InStep' /\ Grows
           /\ changes' = changes \/ chain' = Changed(c, chain)
<1>1. Body(t, c) /\ UNCHANGED queue  BY DEF Enter, InStep
<1>2. ASSUME NEW how \in {"done", "failed"}, Return(t, c, how)
      PROVE  \A u \in Tasks : pc'[u] \in {"idle", "done", "failed"}
  BY <1>2 DEF Return, TypeOK, InStep
<1>3. CASE /\ Return(t, c, "failed")
           /\ UNCHANGED <<chain, history, lock, changes, eval>>
  BY <1>1, <1>2, <1>3 DEF InStep, Grows, history
<1>4. CASE /\ Applicable(c, chain) /\ Commit(t, c, Entered(c, chain)) /\ UNCHANGED lock
  <2>1. Entered(c, chain) \in Seq(Providers)  BY <1>4, EnteredType DEF TypeOK
  <2>2. PICK ch \in Seq(Providers) : ch = Settled(c, Entered(c, chain))
     BY <2>1, SettledType
  <2>3. chain' = ch /\ RecordSnapshot(ch) /\ Return(t, c, "done")
     BY <1>4, <2>2 DEF Commit, Recorded
  <2>4. /\ Grows
        /\ current' \in DOMAIN versions' /\ versions'[current'] = ch
        /\ disk' = [versions |-> versions', current |-> current']
     BY <2>3, RecordInStep
  <2> QED  BY <1>1, <1>2, <1>4, <2>2, <2>3, <2>4 DEF InStep, Changed
<1> QED  BY <1>1, <1>3, <1>4 DEF Body, Atomic

LEMMA DirectInStep ==
    ASSUME Atomic, TypeOK, InStep, NEW t \in Tasks, DirectCall(t) \/ Rollback(t)
    PROVE  InStep' /\ Grows
<1>1. CASE DirectCall(t)
  <2>1. PICK o \in Offers(chain) : Enter(t, CallFor(o, Direct))
     BY <1>1 DEF DirectCall
  <2>2. PICK c \in Calls : c = CallFor(o, Direct)  BY OfferType DEF TypeOK
  <2>3. c.op # "restore"  BY <2>2, OfferNoRestore
  <2> QED  BY <2>1, <2>2, <2>3, EnterInStep
<1>2. CASE Rollback(t)
  <2>1. PICK v \in DOMAIN versions : RollbackTo(t, v)  BY <1>2 DEF Rollback
  <2>2. RestoreNow(v) /\ disk' = [versions |-> versions, current |-> v]
     BY <2>1 DEF RollbackTo, RollbackFails, RestoreLater, Atomic, InStep
  <2> QED  BY <2>1, <2>2 DEF RollbackTo, RestoreNow, InStep, Grows, mutex
<1> QED  BY <1>1, <1>2

LEMMA StillInStep ==
    ASSUME InStep, UNCHANGED <<chain, history, mutex>>,
           \A t \in Tasks : pc'[t] = "idle" \/ pc'[t] = pc[t]
    PROVE  InStep' /\ Grows
  BY DEF InStep, Grows, history, mutex

LEMMA LifecycleInStep ==
    ASSUME InStep, NEW p \in Proposals,
           Propose(p) \/ Validate(p) \/ Approve(p) \/ Reject(p) \/ Withdraw(p)
    PROVE  InStep' /\ Grows
  BY StillInStep DEF Propose, Validate, Approve, Reject, Withdraw, engineVars

LEMMA RestartInStep ==
    ASSUME TypeOK, InStep, RestartAll
    PROVE  InStep' /\ Grows
<1>1. disk.current = current /\ disk.versions = versions  BY DEF InStep
<1>2. current # 0  BY LenProperties DEF InStep, TypeOK
<1>3. versions' = versions /\ current' = current /\ chain' = versions[current] /\ disk' = disk
  BY <1>1, <1>2 DEF RestartAll, Restart, Attach, Loaded
<1> QED  BY <1>3 DEF InStep, Grows, RestartAll, Restart

(* Which steps there are, and what they do to chain and history.           *)
LEMMA SequentialStep ==
    ASSUME Atomic, AuditInv, InStep, [Next]_govVars
    PROVE  InStep' /\ Grows
<1>1. TypeOK  BY DEF AuditInv, GovTypeOK
<1>2. CASE UNCHANGED govVars
  BY <1>2, StillInStep DEF govVars, engineVars
<1>3. ASSUME NEW t \in Tasks, Step(t)  PROVE InStep' /\ Grows
  <2>1. pc[t] \in {"idle", "done", "failed"}  BY DEF InStep
  <2>2. DeployReturns(t)
     BY <1>3, <2>1 DEF Step, TaskStep, Wake, Resolve, ResolveFails, SimulationEnds
  <2> QED  BY <1>1, <2>2, StillInStep DEF DeployReturns, TypeOK
<1>4. ASSUME NEW t \in Tasks, NEW p \in Proposals, Simulate(p, t)  PROVE InStep' /\ Grows
  BY <1>4, StillInStep DEF Simulate, Atomic, engineVars
<1>5. ASSUME NEW t \in Tasks, NEW p \in Proposals, Deploy(p, t)  PROVE InStep' /\ Grows
  <2>1. PICK c \in Calls : c = prop[p].want  BY DEF AuditInv, GovTypeOK, ProposalRecords
  <2>2. c.op # "restore"  BY <2>1 DEF AuditInv
  <2> QED  BY <1>1, <1>5, <2>1, <2>2, EnterInStep DEF Deploy
<1> QED
  BY <1>1, <1>2, <1>3, <1>4, <1>5, DirectInStep, LifecycleInStep, RestartInStep DEF Next

LEMMA InStepInitially == Atomic /\ Init => InStep
<1> SUFFICES ASSUME Atomic, Init PROVE InStep  OBVIOUS
<1>1. InitialChain \in Seq(Providers)  BY EngineSets
<1>2. 1 \in DOMAIN <<InitialChain>> /\ <<InitialChain>>[1] = InitialChain  OBVIOUS
<1> QED  BY <1>2 DEF Init, EngineInit, InStep, Atomic

(* Where nothing suspends and no save fails, the live chain is the current *)
(* version's after every operation, rollback and restart: the chain and    *)
(* the history can only part while an operation waits or a save is lost.   *)
THEOREM CurrentAlways == Atomic => (Spec => []LiveChainIsCurrent)
<1> SUFFICES ASSUME Atomic PROVE Spec => []LiveChainIsCurrent  OBVIOUS
<1>1. FlakyProviders = {}  BY EngineSets DEF Atomic
<1>2. Init => AuditInv /\ InStep  BY AuditInitially, InStepInitially
<1>3. AuditInv /\ InStep /\ [Next]_govVars => (AuditInv /\ InStep)'
  BY <1>1, AuditStep, SequentialStep
<1>4. AuditInv /\ InStep => LiveChainIsCurrent
  <2>1. AuditInv /\ InStep => current # 0
     BY LenProperties DEF AuditInv, GovTypeOK, TypeOK, InStep
  <2> QED  BY <2>1 DEF InStep, LiveChainIsCurrent
<1> QED  BY <1>2, <1>3, <1>4, PTL DEF Spec

-----------------------------------------------------------------------------
(* Engines without suspension: what is deployed is what was reviewed       *)

(* A proposal validated against its base version stays bound to it, and is *)
(* never reviewed again.                                                   *)
Fixed(p) ==
    prop[p].status # "none" =>
        /\ prop[p].base \in DOMAIN versions
        /\ prop[p].status \in {"draft", "validation_failed"} =>
              "validated" \notin prop[p].trail
        /\ "validated" \in prop[p].trail =>
              prop[p].reviewed = Changed(prop[p].want, versions[prop[p].base])

DeployInv ==
    /\ AuditInv /\ InStep /\ ReviewInv
    /\ DeployedAsReviewed
    /\ \A p \in Proposals : Fixed(p)

(* A step that leaves what was reviewed of p as it was.                    *)
Kept(p) ==
    /\ prop'[p].base = prop[p].base /\ prop'[p].want = prop[p].want
    /\ prop'[p].reviewed = prop[p].reviewed
    /\ "validated" \in prop'[p].trail => "validated" \in prop[p].trail
    /\ \/ prop'[p].status = prop[p].status
       \/ /\ prop[p].status # "none"
          /\ prop'[p].status \notin {"draft", "validation_failed"}

LEMMA KeptFixed ==
    ASSUME NEW p \in Proposals, Fixed(p), Kept(p), Grows
    PROVE  Fixed(p)'
<1> SUFFICES ASSUME prop'[p].status # "none" PROVE Fixed(p)'  BY DEF Fixed
<1>1. prop[p].base \in DOMAIN versions'
      /\ versions'[prop[p].base] = versions[prop[p].base]
  BY DEF Fixed, Kept, Grows
<1>2. Changed(prop[p].want, versions[prop[p].base])'
        = Changed(prop[p].want, versions[prop[p].base])
  BY <1>1 DEF Kept, Changed, Settled, Entered
<1> QED  BY <1>1, <1>2 DEF Fixed, Kept

(* No change is made, and nothing is reviewed that already made one.       *)
LEMMA QuietReviewed ==
    ASSUME DeployInv, UNCHANGED changes,
           \A p \in Proposals : prop'[p].reviewed = prop[p].reviewed \/ ~Made(p)
    PROVE  DeployedAsReviewed'
<1> SUFFICES ASSUME NEW i \in DOMAIN changes, changes[i].by # Direct
             PROVE  changes[i].after = prop'[changes[i].by].reviewed
  BY DEF DeployedAsReviewed
<1>1. changes \in Seq(LogEntries)
  BY DEF DeployInv, AuditInv, GovTypeOK, TypeOK, LogEntries
<1>2. i \in 1 .. Len(changes)  BY <1>1, LenProperties
<1>3. PICK e \in LogEntries : e = changes[i]  BY <1>1, <1>2, ElementOfSeq
<1>4. changes[i].by \in Proposals  BY <1>3 DEF LogEntries
<1>5. Made(changes[i].by)  BY DEF Made
<1> QED  BY <1>4, <1>5 DEF DeployInv, DeployedAsReviewed

(* A change is made, by nobody or as reviewed.                             *)
LEMMA LoggedReviewed ==
    ASSUME DeployInv, chain' \in Seq(Providers), NEW who \in Proposals \cup {Direct},
           changes' = changes \/ changes' = Append(changes, [by |-> who, after |-> chain']),
           UNCHANGED prop,
           who # Direct => changes' = changes \/ chain' = prop[who].reviewed
    PROVE  DeployedAsReviewed'
<1>1. CASE changes' = changes  BY <1>1, QuietReviewed
<1>2. CASE changes' # changes
  <2>1. TypeOK  BY DEF DeployInv, AuditInv, GovTypeOK
  <2>2. changes' = Append(changes, [by |-> who, after |-> chain'])  BY <1>2
  <2>3. /\ \A i \in DOMAIN changes : changes'[i] = changes[i]
        /\ \A i \in DOMAIN changes' \ DOMAIN changes :
              changes'[i] = [by |-> who, after |-> chain']
     BY <2>1, <2>2, LogGrows
  <2>4. ASSUME NEW i \in DOMAIN changes', changes'[i].by # Direct
        PROVE  changes'[i].after = prop'[changes'[i].by].reviewed
    <3>1. CASE i \in DOMAIN changes
       BY <2>3, <2>4, <3>1 DEF DeployInv, DeployedAsReviewed
    <3>2. CASE i \notin DOMAIN changes
       BY <1>2, <2>3, <2>4, <3>2
    <3> QED  BY <3>1, <3>2
  <2> QED  BY <2>4 DEF DeployedAsReviewed
<1> QED  BY <1>1, <1>2

LEMMA DeployReviewed ==
    ASSUME Atomic, DeployInv, GovTypeOK', NEW t \in Tasks, NEW p \in Proposals, Deploy(p, t)
    PROVE  DeployedAsReviewed'
<1>1. TypeOK /\ prop[p] \in ProposalRecords /\ TrailKept(p) /\ Fixed(p) /\ InStep
  BY DEF DeployInv, AuditInv, GovTypeOK, ReviewInv
<1>2. prop[p].status \in {"validated", "simulated", "approved"} /\ Fresh(p)
  BY DEF Deploy, CanDeploy, Grants
<1>3. PICK c \in Calls : c = prop[p].want  BY <1>1 DEF ProposalRecords
<1>4. c.by = p /\ c.op # "restore"  BY <1>1, <1>2, <1>3 DEF TrailKept, DeployInv, AuditInv
<1>5. prop[p].reviewed = Changed(c, versions[prop[p].base])
  BY <1>1, <1>2, <1>3 DEF TrailKept, Fixed
<1>6. chain = versions[prop[p].base]
  <2>1. current # 0 /\ prop[p].base # 0
     BY <1>1, <1>2, LenProperties DEF InStep, Fixed, TypeOK
  <2> QED  BY <1>1, <1>2, <2>1 DEF Fresh, InStep
<1>7. changes' = changes \/ chain' = Changed(c, chain)
  BY <1>1, <1>3, <1>4, EnterInStep DEF Deploy
<1>8. Attributed(t, p)  BY <1>1, <1>3, <1>4, EnterAttributed DEF Deploy
<1>9. chain' \in Seq(Providers)  BY DEF GovTypeOK, TypeOK
<1> QED  BY <1>5, <1>6, <1>7, <1>8, <1>9, LoggedReviewed DEF Deploy, Attributed

(* A step of a proposal's lifecycle that reviews nothing.                  *)
LEMMA MarkKept ==
    ASSUME DeployInv, NEW p \in Proposals, prop[p].status # "none",
           NEW status \in {"simulated", "approved", "deployed", "rejected", "withdrawn"},
           Mark(p, status) \/ (status = "simulated" /\ Reported(p))
    PROVE  \A q \in Proposals : Kept(q)
<1> SUFFICES ASSUME NEW q \in Proposals PROVE Kept(q)  OBVIOUS
<1>1. prop \in [Proposals -> ProposalRecords] /\ prop[q] \in ProposalRecords
  BY DEF DeployInv, AuditInv, GovTypeOK
<1>2. CASE q # p  BY <1>1, <1>2 DEF Mark, Reported, Kept
<1>3. CASE q = p /\ Mark(p, status)
  <2>1. /\ prop'[p].status = status /\ prop'[p].trail = prop[p].trail \cup {status}
        /\ prop'[p].base = prop[p].base /\ prop'[p].want = prop[p].want
        /\ prop'[p].reviewed = prop[p].reviewed
     BY <1>1, <1>3 DEF Mark, ProposalRecords
  <2> QED  BY <1>3, <2>1 DEF Kept
<1>4. CASE q = p /\ Reported(p)
  <2>1. /\ prop'[p].status = "simulated" /\ prop'[p].trail = prop[p].trail \cup {"simulated"}
        /\ prop'[p].base = prop[p].base /\ prop'[p].want = prop[p].want
        /\ prop'[p].reviewed = prop[p].reviewed
     BY <1>1, <1>4 DEF Reported, ProposalRecords
  <2> QED  BY <1>4, <2>1 DEF Kept
<1> QED  BY <1>2, <1>3, <1>4

LEMMA KeptStep ==
    ASSUME DeployInv, Grows, UNCHANGED changes, \A p \in Proposals : Kept(p)
    PROVE  DeployedAsReviewed' /\ \A p \in Proposals : Fixed(p)'
<1>1. \A p \in Proposals : Fixed(p)'  BY KeptFixed DEF DeployInv
<1>2. DeployedAsReviewed'  BY QuietReviewed DEF Kept
<1> QED  BY <1>1, <1>2

(* A step that proposes or reviews.                                        *)
LEMMA DraftReviewed ==
    ASSUME DeployInv, Grows, NEW p \in Proposals, Propose(p) \/ Validate(p)
    PROVE  DeployedAsReviewed' /\ \A q \in Proposals : Fixed(q)'
<1>1. prop \in [Proposals -> ProposalRecords] /\ prop[p] \in ProposalRecords
  BY DEF DeployInv, AuditInv, GovTypeOK
<1>2. UNCHANGED <<chain, versions, current, changes>>
  BY DEF Propose, Validate, engineVars, history
<1>3. \A q \in Proposals \ {p} : prop'[q] = prop[q]
  BY <1>1 DEF Propose, Validate
<1>4. \A q \in Proposals \ {p} : Fixed(q)'
  BY <1>3, KeptFixed DEF DeployInv, Kept
<1>5. TypeOK /\ InStep /\ Fixed(p) /\ TrailKept(p) /\ OnlyReviewed
  BY DEF DeployInv, AuditInv, GovTypeOK, ReviewInv
<1>6. CASE Propose(p)
  <2>1. PICK o : prop' = [prop EXCEPT ![p] =
              [NoProposal EXCEPT !.status = "draft", !.want = CallFor(o, p),
                                 !.base = current, !.held = TRUE]]
     BY <1>6 DEF Propose
  <2>2. prop'[p].status = "draft" /\ prop'[p].base = current /\ prop'[p].trail = {}
     BY <1>1, <2>1 DEF NoProposal
  <2>3. Fixed(p)'  BY <1>2, <1>5, <2>2 DEF Fixed, InStep
  <2>4. ~Made(p)  BY <1>5, <1>6 DEF Propose, TrailKept
  <2> QED  BY <1>2, <1>3, <1>4, <2>3, <2>4, QuietReviewed
<1>7. CASE Validate(p)
  <2> DEFINE valid == ~Contradictory(Hypothetical(p))
  <2>1. /\ prop'[p].status = IF valid THEN "validated" ELSE "validation_failed"
        /\ prop'[p].trail = prop[p].trail \cup (IF valid THEN {"validated"} ELSE {})
        /\ prop'[p].base = prop[p].base /\ prop'[p].want = prop[p].want
        /\ prop'[p].reviewed = Hypothetical(p)
    <3> HIDE DEF valid
    <3> QED  BY <1>1, <1>7 DEF Validate, valid, ProposalRecords
  <2>2. /\ prop[p].status \in {"draft", "validation_failed"}
        /\ "validated" \notin prop[p].trail /\ Fresh(p) /\ prop[p].base \in DOMAIN versions
     BY <1>5, <1>7 DEF Validate, Fixed
  <2>3. chain = versions[prop[p].base]
    <3>1. current # 0 /\ prop[p].base # 0
       BY <1>5, <2>2, LenProperties DEF InStep, TypeOK
    <3> QED  BY <1>5, <2>2, <3>1 DEF Fresh, InStep
  <2>4. Hypothetical(p) = Changed(prop[p].want, versions[prop[p].base])
     BY <2>3 DEF Hypothetical
  <2>5. Changed(prop[p].want, versions[prop[p].base])'
          = Changed(prop[p].want, versions[prop[p].base])
    <3> HIDE DEF valid
    <3> QED  BY <1>2, <2>1 DEF Changed, Settled, Entered
  <2>6. Fixed(p)'
    <3> HIDE DEF valid
    <3> QED  BY <1>2, <2>1, <2>2, <2>4, <2>5 DEF Fixed
  <2>7. ~Made(p)  BY <1>5, <2>2 DEF OnlyReviewed, Entitled
  <2> QED  BY <1>2, <1>3, <1>4, <2>6, <2>7, QuietReviewed
<1> QED  BY <1>6, <1>7

LEMMA DeployStep ==
    ASSUME Atomic, DeployInv, [Next]_govVars
    PROVE  DeployInv'
<1>1. AuditInv' /\ ReviewInv' /\ InStep' /\ Grows
  <2>1. FlakyProviders = {}  BY EngineSets DEF Atomic
  <2> QED  BY <2>1, AuditStep, ReviewStep, SequentialStep DEF DeployInv
<1>2. TypeOK /\ GovTypeOK' /\ chain' \in Seq(Providers)
  BY <1>1 DEF DeployInv, AuditInv, GovTypeOK, TypeOK
<1> DEFINE Goal == DeployedAsReviewed' /\ \A p \in Proposals : Fixed(p)'
<1>3. ASSUME UNCHANGED prop  PROVE \A p \in Proposals : Fixed(p)'
  BY <1>1, <1>3, KeptFixed DEF DeployInv, Kept
<1>4. ASSUME UNCHANGED govVars  PROVE Goal
  BY <1>3, <1>4, QuietReviewed DEF govVars, engineVars
<1>5. ASSUME NEW t \in Tasks, (DirectCall(t) \/ Rollback(t)) /\ UNCHANGED prop
      PROVE  Goal
  <2>1. PICK who \in Proposals \cup {Direct} : who = Direct  OBVIOUS
  <2>2. Attributed(t, who)  BY <1>2, <1>5, <2>1, DirectAttributed
  <2> QED  BY <1>2, <1>3, <1>5, <2>1, <2>2, LoggedReviewed DEF Attributed
<1>6. ASSUME NEW t \in Tasks, NEW p \in Proposals, Deploy(p, t)  PROVE Goal
  BY <1>2, <1>3, <1>6, DeployReviewed DEF Deploy
<1>7. ASSUME NEW t \in Tasks, NEW p \in Proposals, Simulate(p, t)  PROVE Goal
  <2>1. Reported(p) /\ UNCHANGED changes /\ prop[p].status # "none"
     BY <1>7 DEF Simulate, Simulatable, Atomic, engineVars
  <2> QED  BY <1>1, <2>1, MarkKept, KeptStep
<1>8. ASSUME NEW t \in Tasks, Step(t)  PROVE Goal
  <2>1. pc[t] \in {"idle", "done", "failed"} /\ InCharge(t)
     BY DEF DeployInv, InStep, ReviewInv
  <2>2. DeployReturns(t)
     BY <1>8, <2>1 DEF Step, TaskStep, Wake, Resolve, ResolveFails, SimulationEnds
  <2>3. PICK who \in Proposals \cup {Direct} : who = call[t].by  BY <1>2 DEF TypeOK, Calls
  <2>4. CASE Succeeded(t) /\ who # Direct
    <3>1. who \in Proposals /\ Mark(who, "deployed") /\ prop[who].status # "none"
          /\ UNCHANGED changes
       BY <2>1, <2>2, <2>3, <2>4 DEF DeployReturns, Succeeded, InCharge
    <3> QED  BY <1>1, <3>1, MarkKept, KeptStep
  <2>5. CASE ~Succeeded(t) \/ who = Direct
    <3>1. UNCHANGED prop /\ UNCHANGED changes
       BY <2>2, <2>3, <2>5, EngineSets
          DEF DeployReturns, Mark, DeployInv, AuditInv, GovTypeOK
    <3> QED  BY <1>3, <3>1, QuietReviewed
  <2> QED  BY <2>4, <2>5
<1>9. ASSUME NEW p \in Proposals, Approve(p) \/ Reject(p) \/ Withdraw(p)  PROVE Goal
  <2>1. PICK status \in {"approved", "rejected", "withdrawn"} : Mark(p, status)
     BY <1>9 DEF Approve, Reject, Withdraw
  <2>2. prop[p].status # "none" /\ UNCHANGED changes
     BY <1>9 DEF Approve, Reject, Withdraw, engineVars
  <2> QED  BY <1>1, <2>1, <2>2, MarkKept, KeptStep
<1>10. ASSUME RestartAll  PROVE Goal
  <2>1. \A p \in Proposals : Kept(p)
    <3> SUFFICES ASSUME NEW p \in Proposals PROVE Kept(p)  OBVIOUS
    <3>1. prop[p] \in ProposalRecords  BY DEF DeployInv, AuditInv, GovTypeOK
    <3> QED  BY <1>10, <3>1 DEF RestartAll, Kept, ProposalRecords
  <2> QED  BY <1>1, <1>10, <2>1, KeptStep DEF RestartAll, Restart
<1>11. ASSUME NEW p \in Proposals, Propose(p) \/ Validate(p)  PROVE Goal
  BY <1>1, <1>11, DraftReviewed
<1>12. Goal
  BY <1>4, <1>5, <1>6, <1>7, <1>8, <1>9, <1>10, <1>11 DEF Next
<1> QED  BY <1>1, <1>12 DEF DeployInv

LEMMA DeployInitially == Atomic /\ Init => DeployInv
<1> SUFFICES ASSUME Atomic, Init PROVE DeployInv  OBVIOUS
<1>1. DeployedAsReviewed /\ \A p \in Proposals : Fixed(p)
  BY DEF Init, EngineInit, DeployedAsReviewed, Fixed, NoProposal
<1> QED  BY <1>1, AuditInitially, InStepInitially, ReviewInitially DEF DeployInv

(* Where nothing suspends and no save fails, a deployment leaves in place  *)
(* the very chain that was validated: comparing version numbers is enough  *)
(* to catch a stale proposal, even after a rollback to its base version or *)
(* a restart between the change and its status (governance.py deploy).     *)
THEOREM DeployedReviewed == Atomic => (Spec => []DeployedAsReviewed)
<1> SUFFICES ASSUME Atomic PROVE Spec => []DeployedAsReviewed  OBVIOUS
<1>1. DeployInv /\ [Next]_govVars => DeployInv'  BY DeployStep
<1>2. DeployInv => DeployedAsReviewed  BY DEF DeployInv
<1> QED  BY <1>1, <1>2, DeployInitially, PTL DEF Spec

-----------------------------------------------------------------------------
(* The governor implements the abstract governed policy                    *)

(* A call that came back to the governor is of a proposal that could be    *)
(* deployed, and still can; a proposal not yet made has no decisions.      *)
Returns(t) ==
    running = t /\ call[t].by \in Proposals => prop[call[t].by].status \in Grants
Untouched(p) == prop[p].status = "none" => prop[p].trail = {}

GovernedInv ==
    DeployInv /\ (\A t \in Tasks : Returns(t)) /\ \A p \in Proposals : Untouched(p)

(* What a step that leaves the engine to itself does to the proposals.     *)
Decisions(p) == Propose(p) \/ Validate(p) \/ Approve(p) \/ Reject(p) \/ Withdraw(p)

LEMMA TouchedStep ==
    ASSUME Atomic, GovernedInv, [Next]_govVars, NEW p \in Proposals
    PROVE  Untouched(p)'
<1> SUFFICES ASSUME prop'[p].status = "none" PROVE prop'[p].trail = {}
  BY DEF Untouched
<1>1. prop \in [Proposals -> ProposalRecords] /\ prop[p] \in ProposalRecords
  BY DEF GovernedInv, DeployInv, AuditInv, GovTypeOK
<1>2. CASE prop'[p] = prop[p]  BY <1>2 DEF GovernedInv, Untouched
<1>3. ASSUME NEW q \in Proposals, Decisions(q)  PROVE prop'[p] = prop[p]
  <2>1. CASE q # p
     BY <1>1, <1>3, <2>1 DEF Decisions, Propose, Validate, Approve, Reject, Withdraw, Mark
  <2>2. CASE q = p /\ Propose(p)
     BY <1>1, <2>2 DEF Propose, NoProposal
  <2>3. CASE q = p /\ Validate(p)
    <3> DEFINE s == IF ~Contradictory(Hypothetical(p)) THEN "validated" ELSE "validation_failed"
    <3>1. prop'[p].status = s  BY <1>1, <2>3 DEF Validate, ProposalRecords
    <3> QED  BY <3>1
  <2>4. CASE q = p /\ (Approve(p) \/ Reject(p) \/ Withdraw(p))
     BY <1>1, <2>4 DEF Approve, Reject, Withdraw, Mark, ProposalRecords
  <2> QED  BY <1>3, <2>1, <2>2, <2>3, <2>4 DEF Decisions
<1>4. ASSUME NEW q \in Proposals, NEW t \in Tasks, Simulate(q, t)  PROVE prop'[p] = prop[p]
  <2>1. Reported(q)  BY <1>4 DEF Simulate, Simulatable, Atomic
  <2> QED  BY <1>1, <2>1 DEF Reported, ProposalRecords
<1>5. ASSUME NEW t \in Tasks, Step(t)  PROVE prop'[p] = prop[p]
  <2>1. DeployReturns(t) \/ UNCHANGED prop
     BY <1>5 DEF GovernedInv, DeployInv, InStep, Step, SimulationEnds
  <2> QED  BY <1>1, <2>1 DEF DeployReturns, Mark, ProposalRecords
<1>6. CASE RestartAll
  BY <1>1, <1>6 DEF RestartAll, ProposalRecords, GovernedInv, Untouched
<1> QED  BY <1>2, <1>3, <1>4, <1>5, <1>6 DEF Next, Decisions, Deploy, govVars

LEMMA ReturnsStep ==
    ASSUME Atomic, GovernedInv, [Next]_govVars, NEW u \in Tasks
    PROVE  Returns(u)'
<1>1. TypeOK /\ InStep /\ prop \in [Proposals -> ProposalRecords]
  BY DEF GovernedInv, DeployInv, AuditInv, GovTypeOK
<1>2. CASE running' = NoTask  BY <1>2, EngineSets DEF Returns
<1>3. CASE UNCHANGED govVars
  BY <1>3 DEF govVars, engineVars, Returns, GovernedInv
<1>4. ASSUME NEW p \in Proposals, NEW t \in Tasks, Deploy(p, t)  PROVE Returns(u)'
  <2>1. prop[p].status \in Grants /\ prop' = prop  BY <1>4 DEF Deploy, CanDeploy
  <2>2. Body(t, prop[p].want)  BY <1>1, <1>4 DEF Deploy, Enter, InStep
  <2>3. \E how \in {"done", "failed"} : Return(t, prop[p].want, how)
     BY <2>2 DEF Body, Commit, Atomic
  <2>4. prop[p].want.by = p
     BY <2>1 DEF GovernedInv, DeployInv, ReviewInv, TrailKept, Grants
  <2>5. running' = t /\ call'[t].by = p
     BY <1>1, <2>3, <2>4, EngineSets DEF Return, TypeOK
  <2> QED  BY <2>1, <2>5 DEF Returns
<1>5. ASSUME NEW t \in Tasks, DirectCall(t)  PROVE running' = NoTask
  <2>1. PICK o \in Offers(chain) : Enter(t, CallFor(o, Direct))  BY <1>5 DEF DirectCall
  <2>2. Body(t, CallFor(o, Direct))  BY <1>1, <2>1 DEF Enter, InStep
  <2>3. \E how : Return(t, CallFor(o, Direct), how)  BY <2>2 DEF Body, Commit, Atomic
  <2> QED  BY <2>3 DEF Return, CallFor
<1>6. ASSUME NEW t \in Tasks, Rollback(t)  PROVE running' = NoTask
  BY <1>6 DEF Rollback, Free, RollbackTo, RollbackFails, RestoreNow, RestoreLater
<1>7. ASSUME NEW t \in Tasks, Step(t)  PROVE running' = NoTask
  <2>1. pc[t] \in {"idle", "done", "failed"}  BY <1>1 DEF InStep
  <2> QED
     BY <1>7, <2>1 DEF Step, TaskStep, Wake, Resolve, ResolveFails, SimulationEnds, DeployReturns
<1>8. ASSUME NEW p \in Proposals, NEW t \in Tasks, Simulate(p, t)  PROVE running' = NoTask
  BY <1>8 DEF Simulate, engineVars, Quiet
<1>9. ASSUME NEW p \in Proposals, Decisions(p)  PROVE running' = NoTask
  BY <1>9 DEF Decisions, Propose, Validate, Approve, Reject, Withdraw, engineVars, Quiet
<1>10. CASE RestartAll  BY <1>2, <1>10 DEF RestartAll, Restart
<1> QED
  BY <1>2, <1>3, <1>4, <1>5, <1>6, <1>7, <1>8, <1>9, <1>10 DEF Next, Decisions

LEMMA GovernedStep ==
    ASSUME Atomic, GovernedInv, [Next]_govVars
    PROVE  GovernedInv'
  BY DeployStep, TouchedStep, ReturnsStep DEF GovernedInv

LEMMA GovernedInitially == Atomic /\ Init => GovernedInv
<1> SUFFICES ASSUME Atomic, Init PROVE GovernedInv  OBVIOUS
<1>1. DeployInv  BY DeployInitially
<1> QED  BY <1>1, EngineSets DEF Init, EngineInit, NoProposal, GovernedInv, Returns, Untouched

(* A proposal the abstract policy sees unchanged.                          *)
Alike(q) == Reviews'[q] = Reviews[q] /\ Standings'[q] = Standings[q]

(* Nothing but the proposals changed.                                      *)
Settles == UNCHANGED <<chain, versions, changes>>

LEMMA ReviewKept ==
    ASSUME GovernedInv, Grows, NEW q \in Proposals, Kept(q),
           prop[q].trail \subseteq prop'[q].trail
    PROVE  Reviews'[q] = Reviews[q]
<1>1. CASE "validated" \in prop[q].trail
  <2>1. prop[q].base \in DOMAIN versions
     BY <1>1 DEF GovernedInv, Untouched, DeployInv, Fixed
  <2>2. versions'[prop'[q].base] = versions[prop[q].base]
     BY <2>1 DEF Grows, Kept
  <2> QED  BY <1>1, <2>2 DEF Reviews, Kept
<1>2. CASE "validated" \notin prop[q].trail  BY <1>2 DEF Reviews, Kept
<1> QED  BY <1>1, <1>2

LEMMA AlikeIf ==
    ASSUME GovernedInv, Grows, NEW q \in Proposals, prop'[q] = prop[q]
    PROVE  Alike(q)
  BY ReviewKept DEF Kept, Alike, Standings

LEMMA AllAlike ==
    ASSUME \A q \in Proposals : Alike(q)
    PROVE  Reviews' = Reviews /\ Standings' = Standings
  BY DEF Alike, Reviews, Standings

LEMMA OneChanged ==
    ASSUME NEW f, NEW g, f = [q \in Proposals |-> f[q]], g = [q \in Proposals |-> g[q]],
           NEW p \in Proposals, \A q \in Proposals \ {p} : g[q] = f[q]
    PROVE  g = [f EXCEPT ![p] = g[p]]
  OBVIOUS

LEMMA NoneChanged ==
    ASSUME NEW f, NEW g, f = [q \in Proposals |-> f[q]],
           NEW p \in Proposals, g = [f EXCEPT ![p] = g[p]], g[p] = f[p]
    PROVE  g = f
  OBVIOUS

LEMMA OneMoved ==
    ASSUME NEW p \in Proposals, \A q \in Proposals \ {p} : Alike(q)
    PROVE  /\ Reviews' = [Reviews EXCEPT ![p] = Reviews'[p]]
           /\ Standings' = [Standings EXCEPT ![p] = Standings'[p]]
<1>1. Reviews = [q \in Proposals |-> Reviews[q]] /\ Reviews' = [q \in Proposals |-> Reviews'[q]]
  BY DEF Reviews
<1>2. /\ Standings = [q \in Proposals |-> Standings[q]]
      /\ Standings' = [q \in Proposals |-> Standings'[q]]
  BY DEF Standings
<1> QED  BY <1>1, <1>2, OneChanged DEF Alike

(* What an operation called at the engine does to chain and history.       *)
LEMMA EnterRecorded ==
    ASSUME Atomic, TypeOK, InStep, NEW t \in Tasks, NEW c \in Calls, c.op # "restore",
           Enter(t, c)
    PROVE  \/ UNCHANGED <<chain, versions, changes>>
           \/ /\ chain' = Changed(c, chain)
              /\ ToSet(versions') = ToSet(versions) \cup {chain'}
              /\ changes' = Append(changes, [by |-> c.by, after |-> chain'])
<1>1. Body(t, c)  BY DEF Enter, InStep
<1>2. CASE UNCHANGED <<chain, history, lock, changes, eval>>  BY <1>2 DEF history
<1>3. CASE /\ Applicable(c, chain) /\ Commit(t, c, Entered(c, chain))
  <2>1. Entered(c, chain) \in Seq(Providers)  BY <1>3, EnteredType DEF TypeOK
  <2>2. PICK ch \in Seq(Providers) : ch = Settled(c, Entered(c, chain))
     BY <2>1, SettledType
  <2>3. chain' = ch /\ RecordSnapshot(ch) /\ LogChange(c)
     BY <1>3, <2>2 DEF Commit, Recorded
  <2>4. versions' = Append(versions, ch)  BY <2>3 DEF RecordSnapshot, Atomic
  <2>5. /\ versions \in Seq(Seq(Providers))
        /\ DOMAIN versions = 1 .. Len(versions) /\ Len(versions) \in Nat
        /\ versions' \in Seq(Seq(Providers)) /\ Len(versions') = Len(versions) + 1
        /\ DOMAIN versions' = 1 .. Len(versions')
        /\ \A i \in 1 .. Len(versions) : versions'[i] = versions[i]
        /\ versions'[Len(versions) + 1] = ch
     BY <2>4, AppendProperties, LenProperties DEF TypeOK
  <2>6. ToSet(versions') = ToSet(versions) \cup {ch}
    <3>1. \A i \in DOMAIN versions' : i \in DOMAIN versions \/ i = Len(versions) + 1
       BY <2>5
    <3>2. Len(versions) + 1 \in DOMAIN versions' /\ DOMAIN versions \subseteq DOMAIN versions'
       BY <2>5
    <3> QED  BY <2>5, <3>1, <3>2 DEF ToSet
  <2> QED  BY <2>2, <2>3, <2>6 DEF Changed, LogChange
<1> QED  BY <1>1, <1>2, <1>3 DEF Body, Atomic

(* A change of the chain is one of the abstract policy's.                  *)
LEMMA DirectGoverned ==
    ASSUME Atomic, GovernedInv, chain' \in Seq(Providers), NEW t \in Tasks,
           DirectCall(t) \/ Rollback(t), UNCHANGED prop
    PROVE  [Governed!Next]_(Governed!vars)
<1>1. TypeOK /\ InStep  BY DEF GovernedInv, DeployInv, AuditInv, GovTypeOK
<1>2. Reviews' = Reviews /\ Standings' = Standings
  <2>1. Grows  BY <1>1, DirectInStep
  <2> QED  BY <2>1, AlikeIf, AllAlike
<1>3. CASE DirectCall(t)
  <2>1. PICK o \in Offers(chain) : o.op \in DirectOps /\ Enter(t, CallFor(o, Direct))
     BY <1>3 DEF DirectCall
  <2>2. PICK c \in Calls : c = CallFor(o, Direct)  BY <1>1, OfferType DEF TypeOK
  <2>3. c.op # "restore" /\ c.by = Direct /\ o.op # "rollback"
     BY <2>2, OfferNoRestore DEF CallFor, Offers
  <2>4. \/ UNCHANGED <<chain, versions, changes>>
        \/ /\ ToSet(versions') = ToSet(versions) \cup {chain'}
           /\ changes' = Append(changes, [by |-> Direct, after |-> chain'])
     BY <1>1, <2>1, <2>2, <2>3, EnterRecorded
  <2>5. DirectOps \ {"rollback"} # {}  BY <2>1, <2>3
  <2> QED
     BY <1>2, <2>4, <2>5 DEF Governed!Next, Governed!Override, Governed!Put, Governed!vars
<1>4. CASE Rollback(t)
  <2>1. PICK v \in DOMAIN versions : RollbackTo(t, v)  BY <1>4 DEF Rollback
  <2>2. RestoreNow(v) /\ versions' = versions
     BY <1>1, <2>1 DEF RollbackTo, RollbackFails, RestoreLater, Atomic, InStep
  <2>3. chain' = versions[v] /\ changes' = Append(changes, [by |-> Direct, after |-> chain'])
     BY <2>2 DEF RestoreNow, LogChange, Restoring, NoCall
  <2>4. chain' \in ToSet(versions) /\ ToSet(versions') = ToSet(versions) \cup {chain'}
     BY <2>2, <2>3 DEF ToSet
  <2> QED  BY <1>2, <2>3, <2>4 DEF Governed!Next, Governed!GoBack, Governed!Put
<1> QED  BY <1>3, <1>4

LEMMA DeployGoverned ==
    ASSUME Atomic, GovernedInv, NEW t \in Tasks, NEW p \in Proposals, Deploy(p, t)
    PROVE  [Governed!Next]_(Governed!vars)
<1>1. TypeOK /\ prop[p] \in ProposalRecords /\ TrailKept(p) /\ Fixed(p) /\ InStep
  BY DEF GovernedInv, DeployInv, AuditInv, GovTypeOK, ReviewInv
<1>2. prop[p].status \in Grants /\ Fresh(p) /\ prop' = prop
  BY DEF Deploy, CanDeploy
<1>3. prop[p].status \in {"validated", "simulated", "approved"}  BY <1>2 DEF Grants
<1>4. PICK c \in Calls : c = prop[p].want  BY <1>1 DEF ProposalRecords
<1>5. c.by = p /\ c.op # "restore"
  BY <1>1, <1>3, <1>4 DEF TrailKept, GovernedInv, DeployInv, AuditInv
<1>6. Enter(t, c)  BY <1>4 DEF Deploy
<1>7. Reviews' = Reviews /\ Standings' = Standings
  <2>1. Grows  BY <1>1, <1>5, <1>6, EnterInStep
  <2> QED  BY <1>2, <2>1, AlikeIf, AllAlike
<1>8. Standings[p] = "granted"  BY <1>2, <1>3 DEF Standings
<1>9. Reviews[p] = {[on |-> chain, gives |-> Changed(c, chain)]}
  <2>1. current # 0 /\ prop[p].base # 0
     BY <1>1, <1>3, LenProperties DEF InStep, Fixed, TypeOK
  <2>2. chain = versions[prop[p].base]  BY <1>1, <1>2, <2>1 DEF Fresh, InStep
  <2> QED  BY <1>1, <1>3, <1>4, <2>2 DEF TrailKept, Fixed, Reviews
<1>10. CASE UNCHANGED <<chain, versions, changes>>  BY <1>7, <1>10 DEF Governed!vars
<1>11. CASE /\ chain' = Changed(c, chain)
            /\ ToSet(versions') = ToSet(versions) \cup {chain'}
            /\ changes' = Append(changes, [by |-> p, after |-> chain'])
  <2>1. Governed!Enact(p)
     BY <1>7, <1>8, <1>9, <1>11 DEF Governed!Enact, Governed!Put
  <2> QED  BY <2>1 DEF Governed!Next
<1> QED  BY <1>1, <1>5, <1>6, <1>10, <1>11, EnterRecorded

(* What a step that changes p alone, and not the chain, may do to p.       *)
LEMMA OneDecided ==
    ASSUME NEW p \in Proposals, Settles, \A q \in Proposals \ {p} : Alike(q),
           \/ Alike(p)
           \/ /\ Standings[p] \in {"open", "granted"} /\ Standings'[p] = "closed"
              /\ Reviews'[p] = Reviews[p]
           \/ /\ Standings[p] = "open" /\ Standings'[p] = "granted"
              /\ Reviews[p] # {} /\ Reviews'[p] = Reviews[p]
           \/ /\ Standings[p] = "granted" /\ Standings'[p] = "enacted"
              /\ Made(p) /\ Reviews'[p] = Reviews[p]
    PROVE  [Governed!Next]_(Governed!vars)
<1>1. UNCHANGED <<chain, ToSet(versions), changes>>  BY DEF Settles
<1>2. /\ Reviews' = [Reviews EXCEPT ![p] = Reviews'[p]]
      /\ Standings' = [Standings EXCEPT ![p] = Standings'[p]]
  BY OneMoved
<1>3. Reviews'[p] = Reviews[p] => Reviews' = Reviews  <2>1. Reviews = [q \in Proposals |-> Reviews[q]]  BY DEF Reviews
  <2> QED  BY <1>2, <2>1, NoneChanged
<1>4. CASE Alike(p)
  <2>1. Reviews' = Reviews /\ Standings' = Standings  BY <1>4, AllAlike
  <2> QED  BY <1>1, <2>1 DEF Governed!vars
<1>5. CASE Standings[p] \in {"open", "granted"} /\ Standings'[p] = "closed"
           /\ Reviews'[p] = Reviews[p]
  BY <1>1, <1>2, <1>3, <1>5 DEF Governed!Next, Governed!Close
<1>6. CASE Standings[p] = "open" /\ Standings'[p] = "granted"
           /\ Reviews[p] # {} /\ Reviews'[p] = Reviews[p]
  BY <1>1, <1>2, <1>3, <1>6 DEF Governed!Next, Governed!Grant
<1>7. CASE Standings[p] = "granted" /\ Standings'[p] = "enacted"
           /\ Made(p) /\ Reviews'[p] = Reviews[p]
  BY <1>1, <1>2, <1>3, <1>7 DEF Governed!Next, Governed!Finish, Made
<1> QED  BY <1>4, <1>5, <1>6, <1>7

LEMMA ReviewGoverned ==
    ASSUME Atomic, GovernedInv, GovTypeOK', NEW p \in Proposals, Propose(p) \/ Validate(p)
    PROVE  [Governed!Next]_(Governed!vars)
<1>1. /\ prop \in [Proposals -> ProposalRecords] /\ prop[p] \in ProposalRecords
      /\ TypeOK /\ InStep /\ Fixed(p) /\ Untouched(p)
  BY DEF GovernedInv, DeployInv, AuditInv, GovTypeOK
<1>2. Settles /\ Grows
  BY <1>1, LifecycleInStep DEF Propose, Validate, engineVars, history, Settles
<1>3. \A q \in Proposals \ {p} : Alike(q)
  <2>1. \A q \in Proposals \ {p} : prop'[q] = prop[q]  BY <1>1 DEF Propose, Validate
  <2> QED  BY <1>2, <2>1, AlikeIf
<1>4. CASE Propose(p)
  <2>1. PICK o : prop' = [prop EXCEPT ![p] =
              [NoProposal EXCEPT !.status = "draft", !.want = CallFor(o, p),
                                 !.base = current, !.held = TRUE]]
     BY <1>4 DEF Propose
  <2>2. prop'[p].status = "draft" /\ prop'[p].trail = {}  BY <1>1, <2>1 DEF NoProposal
  <2>3. prop[p].status = "none" /\ prop[p].trail = {}  BY <1>1, <1>4 DEF Propose, Untouched
  <2>4. Alike(p)  BY <2>2, <2>3 DEF Alike, Reviews, Standings, Grants
  <2> QED  BY <1>2, <1>3, <2>4, OneDecided
<1>5. CASE Validate(p)
  <2> DEFINE valid == ~Contradictory(Hypothetical(p))
  <2>1. /\ prop'[p].status = IF valid THEN "validated" ELSE "validation_failed"
        /\ prop'[p].trail = prop[p].trail \cup (IF valid THEN {"validated"} ELSE {})
        /\ prop'[p].base = prop[p].base /\ prop'[p].reviewed \in Seq(Providers)
    <3>1. prop'[p] \in ProposalRecords  BY DEF GovTypeOK
    <3> HIDE DEF valid
    <3> QED  BY <1>1, <1>5, <3>1 DEF Validate, valid, ProposalRecords
  <2> HIDE DEF valid
  <2>2. /\ prop[p].status \in {"draft", "validation_failed"}
        /\ "validated" \notin prop[p].trail /\ Fresh(p) /\ prop[p].base \in DOMAIN versions
     BY <1>1, <1>5 DEF Validate, Fixed
  <2>3. chain = versions[prop[p].base]
    <3>1. current # 0 /\ prop[p].base # 0
       BY <1>1, <2>2, LenProperties DEF InStep, TypeOK
    <3> QED  BY <1>1, <2>2, <3>1 DEF Fresh, InStep
  <2>4. Reviews[p] = {} /\ Standings[p] = "open"  BY <2>2 DEF Reviews, Standings, Grants
  <2>5. CASE ~valid
    <3>1. Alike(p)  BY <2>1, <2>2, <2>4, <2>5 DEF Alike, Reviews, Standings, Grants
    <3> QED  BY <1>2, <1>3, <3>1, OneDecided
  <2>6. CASE valid
    <3>1. Reviews'[p] = {[on |-> chain, gives |-> prop'[p].reviewed]}
      <4>1. versions'[prop'[p].base] = chain  BY <1>2, <2>1, <2>3 DEF Settles
      <4> QED  BY <2>1, <2>6, <4>1 DEF Reviews
    <3>2. Standings'[p] = IF RequireApproval THEN "open" ELSE "granted"
       BY <2>1, <2>6 DEF Standings, Grants
    <3>3. /\ Reviews' = [Reviews EXCEPT ![p] = Reviews'[p]]
          /\ Standings' = [Standings EXCEPT ![p] = Standings'[p]]
       BY <1>3, OneMoved
    <3>4. RequireApproval => Standings' = Standings
      <4>1. Standings = [q \in Proposals |-> Standings[q]]  BY DEF Standings
      <4> QED  BY <2>4, <3>2, <3>3, <4>1, NoneChanged
    <3>5. Governed!Pass(p)
      <4> DEFINE r == [on |-> chain, gives |-> prop'[p].reviewed]
      <4>1. r \in Reviews'[p] /\ r.on = chain /\ r.gives \in Seq(Providers)
         BY <2>1, <3>1
      <4>2. Reviews' = [Reviews EXCEPT ![p] = {r}]  BY <3>1, <3>3
      <4>3. UNCHANGED <<chain, ToSet(versions), changes>>  BY <1>2 DEF Settles
      <4>4. Standings' = IF RequireApproval THEN Standings
                         ELSE [Standings EXCEPT ![p] = "granted"]
         BY <3>2, <3>3, <3>4
      <4> HIDE DEF r
      <4> QED  BY <2>4, <4>1, <4>2, <4>3, <4>4 DEF Governed!Pass
    <3> QED  BY <3>5 DEF Governed!Next
  <2> QED  BY <2>5, <2>6
<1> QED  BY <1>4, <1>5

LEMMA MarkIs ==
    ASSUME GovernedInv, NEW p \in Proposals,
           NEW status \in {"simulated", "approved", "deployed", "rejected", "withdrawn"},
           prop[p].status # "none",
           Mark(p, status) \/ (status = "simulated" /\ Reported(p)), Grows
    PROVE  /\ prop'[p].status = status /\ Reviews'[p] = Reviews[p]
           /\ \A q \in Proposals \ {p} : Alike(q)
<1>1. prop \in [Proposals -> ProposalRecords] /\ prop[p] \in ProposalRecords
  BY DEF GovernedInv, DeployInv, AuditInv, GovTypeOK
<1>2. prop'[p].status = status /\ prop[p].trail \subseteq prop'[p].trail
  BY <1>1 DEF Mark, Reported, ProposalRecords
<1>3. Kept(p)  BY MarkKept DEF GovernedInv
<1>4. \A q \in Proposals \ {p} : prop'[q] = prop[q]  BY <1>1 DEF Mark, Reported
<1> QED  BY <1>2, <1>3, <1>4, ReviewKept, AlikeIf

LEMMA DecisionGoverned ==
    ASSUME Atomic, GovernedInv, NEW p \in Proposals,
           Approve(p) \/ Reject(p) \/ Withdraw(p) \/ \E t \in Tasks : Simulate(p, t)
    PROVE  [Governed!Next]_(Governed!vars)
<1>1. InStep /\ TrailKept(p) /\ prop[p].status \in Statuses
  BY DEF GovernedInv, DeployInv, AuditInv, GovTypeOK, ReviewInv, ProposalRecords
<1>2. CASE Approve(p)
  <2>1. Settles /\ Grows
     BY <1>1, <1>2, LifecycleInStep DEF Approve, engineVars, history, Settles
  <2>2. prop[p].status \in {"validated", "simulated"} /\ Mark(p, "approved")
     BY <1>2 DEF Approve
  <2>3. /\ prop'[p].status = "approved" /\ Reviews'[p] = Reviews[p]
        /\ \A q \in Proposals \ {p} : Alike(q)
     BY <2>1, <2>2, MarkIs
  <2>4. Reviews[p] # {}  BY <1>1, <2>2 DEF TrailKept, Reviews
  <2>5. Standings'[p] = "granted"  BY <2>3 DEF Standings, Grants
  <2>6. Standings[p] \in {"open", "granted"}  BY <2>2 DEF Standings, Grants
  <2> QED  BY <2>1, <2>3, <2>4, <2>5, <2>6, OneDecided DEF Alike
<1>3. CASE Reject(p) \/ Withdraw(p)
  <2>1. Settles /\ Grows
     BY <1>1, <1>3, LifecycleInStep DEF Reject, Withdraw, engineVars, history, Settles
  <2>2. PICK status \in {"rejected", "withdrawn"} :
           Mark(p, status) /\ prop[p].status \notin {"none", "deployed"}
     BY <1>3 DEF Reject, Withdraw
  <2>3. /\ prop'[p].status = status /\ Reviews'[p] = Reviews[p]
        /\ \A q \in Proposals \ {p} : Alike(q)
     BY <2>1, <2>2, MarkIs
  <2>4. Standings'[p] = "closed"  BY <2>3 DEF Standings, Grants
  <2>5. Standings[p] \in {"open", "granted", "closed"}  BY <2>2 DEF Standings, Grants
  <2> QED  BY <2>1, <2>3, <2>4, <2>5, OneDecided DEF Alike
<1>4. ASSUME NEW t \in Tasks, Simulate(p, t)  PROVE [Governed!Next]_(Governed!vars)
  <2>1. /\ Reported(p) /\ UNCHANGED engineVars
        /\ prop[p].status \in {"validated", "simulated"}
     BY <1>4 DEF Simulate, Simulatable, Atomic
  <2>2. Settles /\ Grows
     BY <1>1, <2>1, StillInStep DEF engineVars, history, Settles
  <2>3. /\ prop'[p].status = "simulated" /\ Reviews'[p] = Reviews[p]
        /\ \A q \in Proposals \ {p} : Alike(q)
     BY <2>1, <2>2, MarkIs
  <2>4. Standings'[p] = Standings[p]  BY <2>1, <2>3 DEF Standings, Grants
  <2> QED  BY <2>2, <2>3, <2>4, OneDecided DEF Alike
<1> QED  BY <1>2, <1>3, <1>4

(* The engine call of a deployment comes back, or the process restarts.    *)
LEMMA ReturnGoverned ==
    ASSUME Atomic, GovernedInv, DeployedWasMade', NEW t \in Tasks, DeployReturns(t)
    PROVE  [Governed!Next]_(Governed!vars)
<1>1. InStep /\ prop \in [Proposals -> ProposalRecords]
  BY DEF GovernedInv, DeployInv, AuditInv, GovTypeOK
<1>2. Settles /\ Grows
  <2>1. \A u \in Tasks : pc'[u] = "idle" \/ pc'[u] = pc[u]
     BY DEF DeployReturns, GovernedInv, DeployInv, AuditInv, GovTypeOK, TypeOK
  <2> QED  BY <1>1, <2>1, StillInStep DEF DeployReturns, history, Settles
<1>3. CASE UNCHANGED prop
  <2>1. \A q \in Proposals : Alike(q)  BY <1>2, <1>3, AlikeIf
  <2>2. Reviews' = Reviews /\ Standings' = Standings  BY <2>1, AllAlike
  <2> QED  BY <1>2, <2>2 DEF Settles, Governed!vars
<1>4. CASE ~UNCHANGED prop
  <2>1. PICK p \in Proposals : p = call[t].by
     BY <1>1, <1>4 DEF DeployReturns, Mark
  <2>2. Mark(p, "deployed")  BY <1>4, <2>1 DEF DeployReturns
  <2>3. prop[p].status \in Grants  BY <2>1 DEF DeployReturns, GovernedInv, Returns
  <2>4. /\ prop'[p].status = "deployed" /\ Reviews'[p] = Reviews[p]
        /\ \A q \in Proposals \ {p} : Alike(q)
     BY <1>2, <2>2, <2>3, MarkIs DEF Grants
  <2>5. Standings[p] = "granted" /\ Standings'[p] = "enacted"
     BY <2>3, <2>4 DEF Standings, Grants
  <2>6. Made(p)
    <3>1. Made(p)'  BY <2>4 DEF DeployedWasMade
    <3> QED  BY <1>2, <3>1 DEF Made, Settles
  <2> QED  BY <1>2, <2>4, <2>5, <2>6, OneDecided
<1> QED  BY <1>3, <1>4

LEMMA RestartGoverned ==
    ASSUME Atomic, GovernedInv, RestartAll
    PROVE  [Governed!Next]_(Governed!vars)
<1>1. TypeOK /\ InStep /\ prop \in [Proposals -> ProposalRecords]
  BY DEF GovernedInv, DeployInv, AuditInv, GovTypeOK
<1>2. current # 0 /\ disk.current = current /\ disk.versions = versions
  BY <1>1, LenProperties DEF InStep, TypeOK
<1>3. Settles
  BY <1>1, <1>2 DEF InStep, RestartAll, Restart, Attach, Loaded, Settles
<1>4. ASSUME NEW q \in Proposals PROVE Alike(q)
  <2>1. /\ prop'[q].status = prop[q].status /\ prop'[q].trail = prop[q].trail
        /\ prop'[q].base = prop[q].base /\ prop'[q].reviewed = prop[q].reviewed
     BY <1>1 DEF RestartAll, ProposalRecords
  <2> QED  BY <1>3, <2>1 DEF Alike, Reviews, Standings, Settles
<1>5. Reviews' = Reviews /\ Standings' = Standings  BY <1>4, AllAlike
<1> QED  BY <1>3, <1>5 DEF Settles, Governed!vars

LEMMA StepGoverned ==
    ASSUME Atomic, GovernedInv, DeployedWasMade', [Next]_govVars
    PROVE  [Governed!Next]_(Governed!vars)
<1>1. GovTypeOK' /\ chain' \in Seq(Providers)
  BY GovernedStep DEF GovernedInv, DeployInv, AuditInv, GovTypeOK, TypeOK
<1>2. CASE UNCHANGED govVars
  <2>1. UNCHANGED <<chain, versions, changes, prop>>
     BY <1>2 DEF govVars, engineVars, history
  <2>2. Reviews' = Reviews /\ Standings' = Standings  BY <2>1 DEF Reviews, Standings
  <2> QED  BY <2>1, <2>2 DEF Governed!vars
<1>3. ASSUME NEW t \in Tasks, Step(t)  PROVE DeployReturns(t)
  <2>1. pc[t] \in {"idle", "done", "failed"}  BY DEF GovernedInv, DeployInv, InStep
  <2> QED  BY <1>3, <2>1 DEF Step, TaskStep, Wake, Resolve, ResolveFails, SimulationEnds
<1> QED
  BY <1>1, <1>2, <1>3, DirectGoverned, DeployGoverned, ReviewGoverned, DecisionGoverned,
     ReturnGoverned, RestartGoverned DEF Next

LEMMA InitGoverned == Atomic /\ Init => Governed!Init
<1> SUFFICES ASSUME Atomic, Init PROVE Governed!Init  OBVIOUS
<1>1. chain = InitialChain /\ versions = <<InitialChain>> /\ changes = <<>>
  BY DEF Init, EngineInit
<1>2. ToSet(versions) = {InitialChain}
  <2>1. DOMAIN <<InitialChain>> = {1} /\ <<InitialChain>>[1] = InitialChain  OBVIOUS
  <2> QED  BY <1>1, <2>1 DEF ToSet
<1>3. Reviews = [p \in Proposals |-> {}] /\ Standings = [p \in Proposals |-> "open"]
  BY DEF Init, NoProposal, Reviews, Standings, Grants
<1> QED  BY <1>1, <1>2, <1>3 DEF Governed!Init

(* Where nothing suspends and no save fails, the governor over its engine  *)
(* implements the abstract governed policy: each proposal goes from its    *)
(* one review to its grant and to its end, the chain moves for it only     *)
(* while it is granted and from the chain it was reviewed on, and crashes, *)
(* rollbacks and direct changes are no way around that.                    *)
THEOREM GovernorImplementsReview == Atomic => (Spec => ImplementsReview)
<1> SUFFICES ASSUME Atomic PROVE Spec => ImplementsReview  OBVIOUS
<1>1. Init => GovernedInv /\ Governed!Init  BY GovernedInitially, InitGoverned
<1>2. GovernedInv /\ [Next]_govVars => GovernedInv'  BY GovernedStep
<1>3. GovernedInv /\ DeployedWasMade' /\ [Next]_govVars => [Governed!Next]_(Governed!vars)
  BY StepGoverned
<1> QED
  BY <1>1, <1>2, <1>3, DeployedMade, PTL DEF Spec, ImplementsReview, Governed!Spec

(* Where no simulation suspends, "deployed" and "withdrawn" are the end of *)
(* a proposal, and a rejected one can only be withdrawn.                   *)
THEOREM EndsAreFinal == Atomic => (Spec => FinalStatus)
<1> SUFFICES ASSUME Atomic PROVE Spec => FinalStatus  OBVIOUS
<1> DEFINE Final ==
        \A p \in Proposals :
            /\ prop[p].status \in {"deployed", "withdrawn"} => prop'[p].status = prop[p].status
            /\ prop[p].status = "rejected" => prop'[p].status \in {"rejected", "withdrawn"}
<1>1. Init => GovernedInv  BY GovernedInitially
<1>2. GovernedInv /\ [Next]_govVars => GovernedInv'  BY GovernedStep
<1>3. ASSUME GovernedInv, [Next]_govVars, NEW p \in Proposals,
             prop[p].status \in {"deployed", "withdrawn", "rejected"}
      PROVE  \/ prop'[p].status = prop[p].status
             \/ prop[p].status = "rejected" /\ prop'[p].status = "withdrawn"
  <2>1. prop \in [Proposals -> ProposalRecords] /\ prop[p] \in ProposalRecords
     BY <1>3 DEF GovernedInv, DeployInv, AuditInv, GovTypeOK
  <2>2. CASE prop'[p].status = prop[p].status  BY <2>2
  <2>3. ASSUME NEW q \in Proposals, Decisions(q)
        PROVE  \/ prop'[p].status = prop[p].status
               \/ prop[p].status = "rejected" /\ prop'[p].status = "withdrawn"
    <3>1. CASE q # p
       BY <2>1, <2>3, <3>1 DEF Decisions, Propose, Validate, Approve, Reject, Withdraw, Mark
    <3>2. CASE q = p /\ Withdraw(p)
       BY <1>3, <2>1, <3>2 DEF Withdraw, Mark, ProposalRecords
    <3> QED
       BY <1>3, <2>3, <3>1, <3>2 DEF Decisions, Propose, Validate, Approve, Reject
  <2>4. ASSUME NEW q \in Proposals, NEW t \in Tasks, Simulate(q, t)
        PROVE  prop'[p].status = prop[p].status
    <3>1. Reported(q) /\ prop[q].status \in {"validated", "simulated"}
       BY <2>4 DEF Simulate, Simulatable, Atomic
    <3> QED  BY <1>3, <2>1, <3>1 DEF Reported
  <2>5. ASSUME NEW t \in Tasks, Step(t)  PROVE prop'[p].status = prop[p].status
    <3>1. pc[t] \in {"idle", "done", "failed"}  BY <1>3 DEF GovernedInv, DeployInv, InStep
    <3>2. DeployReturns(t)
       BY <2>5, <3>1 DEF Step, TaskStep, Wake, Resolve, ResolveFails, SimulationEnds
    <3>3. CASE call[t].by = p
       BY <1>3, <3>2, <3>3 DEF DeployReturns, GovernedInv, Returns, Grants
    <3>4. CASE call[t].by # p  BY <2>1, <3>2, <3>4 DEF DeployReturns, Mark
    <3> QED  BY <3>3, <3>4
  <2>6. CASE RestartAll  BY <2>1, <2>6 DEF RestartAll, ProposalRecords
  <2> QED
     BY <1>3, <2>2, <2>3, <2>4, <2>5, <2>6 DEF Next, Decisions, Deploy, govVars
<1>4. GovernedInv /\ [Next]_govVars => [Final]_govVars  BY <1>3
<1> QED  BY <1>1, <1>2, <1>4, PTL DEF Spec, FinalStatus

-----------------------------------------------------------------------------
(* Engines without removal: every provider in force is asked               *)

NoRemoval == "remove" \notin DirectOps

Underway(r) == eval[r].phase \in {"consulting", "awaiting"}

(* Provider j of the list has had its turn.                                *)
Passed(r, j) ==
    j < eval[r].next \/ (j = eval[r].next /\ eval[r].phase = "awaiting")

(* An evaluation underway has asked every provider it passed that it must  *)
(* hear, and all it must hear are on its list: what is passed stays so.    *)
Covers(r) ==
    /\ eval[r].outcome = "none" /\ eval[r].next >= 1
    /\ eval[r].phase = "awaiting" => eval[r].next \in DOMAIN ListOf(r)
    /\ eval[r].must \subseteq ToSet(ListOf(r))
    /\ \A j \in DOMAIN ListOf(r) :
          Passed(r, j) /\ ListOf(r)[j] \in eval[r].must => ListOf(r)[j] \in eval[r].seen

EvalOK(r) ==
    /\ eval[r].phase = "idle" => eval[r] = NoEvaluation
    /\ Underway(r) => Covers(r)
    /\ eval[r].outcome = "allow" => eval[r].must \subseteq eval[r].seen

EvalInv ==
    /\ TypeOK
    /\ \A t \in Tasks : call[t].op # "remove"
    /\ \A r \in Requests : eval[r].phase = "consulting" <=> running = r
    /\ \A r \in Requests : EvalOK(r)

(* The list changes in place: it keeps its places, and what comes into a   *)
(* place that was filled is new.                                           *)
Extends(new) ==
    /\ DOMAIN chain \subseteq DOMAIN chain'
    /\ \A j \in DOMAIN chain : chain'[j] = chain[j] \/ chain'[j] \in new

LEMMA SettledExtends ==
    ASSUME TypeOK, NEW c \in Calls, c.op \notin {"remove", "replace", "restore"},
           NEW ch, ch \in {chain, Entered(c, chain)}, chain' = Settled(c, ch)
    PROVE  Extends(IF c.op = "swap" THEN {c.new} ELSE {})
<1>1. chain \in Seq(Providers)  BY DEF TypeOK
<1>2. CASE c.op = "add"
  <2>1. c.new \in Providers  BY <1>2 DEF Calls
  <2>2. chain' = chain \/ chain' = Append(chain, c.new)  BY <1>2 DEF Settled, Entered
  <2> QED  BY <1>1, <1>2, <2>1, <2>2, AppendProperties, LenProperties DEF Extends
<1>3. CASE c.op = "swap"
  <2>1. chain' = [chain EXCEPT ![c.at] = c.new]  BY <1>3 DEF Settled, Entered, ReplaceAt
  <2> QED  BY <1>3, <2>1 DEF Extends
<1>4. CASE c.op \notin {"add", "swap"}
  <2>1. chain' = chain  BY <1>4 DEF Settled, Entered
  <2> QED  BY <2>1 DEF Extends
<1> QED  BY <1>2, <1>3, <1>4

LEMMA ObserveCovers ==
    ASSUME EvalInv, TypeOK', running = NoTask, NEW rebound \in BOOLEAN, NEW swappedIn,
           Observe(rebound, swappedIn), rebound \/ Extends(swappedIn)
    PROVE  \A r \in Requests : EvalOK(r)' /\ eval'[r].phase # "consulting"
<1> SUFFICES ASSUME NEW r \in Requests
             PROVE  EvalOK(r)' /\ eval'[r].phase # "consulting"
  OBVIOUS
<1>1. EvalOK(r) /\ eval[r].phase # "consulting"  BY EngineSets DEF EvalInv
<1>2. CASE eval[r].phase # "awaiting"
  <2>1. eval'[r] = eval[r]  BY <1>1, <1>2 DEF Observe
  <2> QED  BY <1>1, <1>2, <2>1 DEF EvalOK, Underway
<1>3. CASE eval[r].phase = "awaiting"
  <2>1. eval[r] \in Evaluations /\ chain \in Seq(Providers) /\ chain' \in Seq(Providers)
     BY DEF EvalInv, TypeOK
  <2>2. eval'[r] = [eval[r] EXCEPT
                !.must = (eval[r].must \cap ToSet(chain')) \ swappedIn,
                !.aliased = eval[r].aliased /\ ~rebound,
                !.list = IF rebound /\ eval[r].aliased THEN chain ELSE eval[r].list]
     BY <1>3 DEF Observe
  <2>3. /\ eval'[r].phase = "awaiting" /\ eval'[r].next = eval[r].next
        /\ eval'[r].outcome = eval[r].outcome /\ eval'[r].seen = eval[r].seen
        /\ eval'[r].must = (eval[r].must \cap ToSet(chain')) \ swappedIn
        /\ eval'[r].aliased = (eval[r].aliased /\ ~rebound)
        /\ eval'[r].list = IF rebound /\ eval[r].aliased THEN chain ELSE eval[r].list
     BY <1>3, <2>1, <2>2 DEF Evaluations
  <2>4. Covers(r)  BY <1>1, <1>3 DEF EvalOK, Underway
  <2>5. CASE rebound \/ ~eval[r].aliased
    <3>1. ListOf(r)' = ListOf(r)  BY <2>3, <2>5 DEF ListOf
    <3>2. Covers(r)'  BY <1>3, <2>3, <2>4, <3>1 DEF Covers, Passed
    <3> QED  BY <2>3, <2>4, <3>2 DEF EvalOK, Underway, Covers
  <2>6. CASE ~rebound /\ eval[r].aliased
    <3>1. ListOf(r) = chain /\ ListOf(r)' = chain'  BY <2>3, <2>6 DEF ListOf
    <3>2. Extends(swappedIn)  BY <2>6
    <3>3. eval[r].next \in DOMAIN chain /\ eval[r].next \in Nat
       BY <1>3, <2>1, <2>4, <3>1 DEF Covers, Evaluations
    <3>4. DOMAIN chain = 1 .. Len(chain) /\ DOMAIN chain' = 1 .. Len(chain')
          /\ Len(chain) \in Nat /\ Len(chain') \in Nat
       BY <2>1, LenProperties
    <3>5. ASSUME NEW j \in DOMAIN chain', Passed(r, j)', chain'[j] \in eval'[r].must
          PROVE  chain'[j] \in eval'[r].seen
      <4>1. j <= eval[r].next /\ Passed(r, j)  BY <1>3, <2>3, <3>3, <3>4, <3>5 DEF Passed
      <4>2. j \in DOMAIN chain  BY <3>3, <3>4, <4>1
      <4>3. chain'[j] = chain[j]  BY <2>3, <3>2, <3>5, <4>2 DEF Extends
      <4> QED  BY <2>3, <2>4, <3>1, <3>5, <4>1, <4>2, <4>3 DEF Covers
    <3>6. Covers(r)'
       BY <2>3, <2>4, <3>1, <3>2, <3>3, <3>5 DEF Covers, Extends
    <3> QED  BY <2>3, <2>4, <3>6 DEF EvalOK, Underway, Covers
  <2> QED  BY <2>5, <2>6
<1> QED  BY <1>2, <1>3

(* What a step of a coroutine that changes the chain does to evaluations.  *)
Evolves(t) ==
    /\ \/ UNCHANGED <<chain, eval>>
       \/ \E rebound \in BOOLEAN, swappedIn \in SUBSET Providers :
             Observe(rebound, swappedIn) /\ (rebound \/ Extends(swappedIn))
    /\ running' \in Tasks \cup {NoTask}
    /\ call'[t].op # "remove"
    /\ \A u \in Tasks \ {t} : call'[u] = call[u]

LEMMA ReturnEvolves ==
    ASSUME TypeOK, NEW t \in Tasks, NEW c \in Calls, c.op # "remove",
           NEW how, Return(t, c, how)
    PROVE  /\ running' \in Tasks \cup {NoTask}
           /\ call'[t].op # "remove"
           /\ \A u \in Tasks \ {t} : call'[u] = call[u]
  BY DEF Return, NoCall, TypeOK

LEMMA CommitEvolves ==
    ASSUME TypeOK, NEW t \in Tasks, NEW c \in Calls, c.op # "remove",
           NEW ch, ch \in {chain, Entered(c, chain)}, Commit(t, c, ch)
    PROVE  Evolves(t)
<1>1. /\ running' \in Tasks \cup {NoTask}
      /\ call'[t].op # "remove"
      /\ \A u \in Tasks \ {t} : call'[u] = call[u]
  BY ReturnEvolves DEF Commit
<1> DEFINE new == IF c.op = "swap" THEN {c.new} ELSE {}
<1>2. PICK rebound \in BOOLEAN : rebound <=> c.op \in {"replace", "restore"}
  OBVIOUS
<1>3. Observe(rebound, new)  BY <1>2 DEF Commit, Observe
<1>4. new \in SUBSET Providers  BY DEF Calls
<1>5. rebound \/ Extends(new)  BY <1>2, SettledExtends DEF Commit
<1> HIDE DEF new
<1> QED  BY <1>1, <1>3, <1>4, <1>5 DEF Evolves

LEMMA BodyEvolves ==
    ASSUME TypeOK, NEW t \in Tasks, NEW c \in Calls, c.op # "remove", Body(t, c)
    PROVE  Evolves(t)
<1>1. CASE Return(t, c, "failed") /\ UNCHANGED <<chain, eval>>
  BY <1>1, ReturnEvolves DEF Evolves
<1>2. CASE Commit(t, c, Entered(c, chain))  BY <1>2, CommitEvolves
<1>3. CASE /\ chain' = Entered(c, chain) /\ Observe(FALSE, {})
           /\ Identified(c, chain) \cap AsyncProviders # {}
           /\ call' = [call EXCEPT ![t] =
                        IF c.op = "remove" THEN [c EXCEPT !.new = chain[c.at]] ELSE c]
           /\ running' = NoTask
  <2>1. c.op \in {"add", "swap"}  BY <1>3 DEF Identified
  <2>2. chain \in Seq(Providers)  BY DEF TypeOK
  <2>3. Extends({})
    <3>1. CASE c.op = "add"
      <4>1. c.new \in Providers /\ chain' = Append(chain, c.new)
         BY <1>3, <3>1 DEF Entered, Calls
      <4> QED  BY <2>2, <4>1, AppendProperties, LenProperties DEF Extends
    <3>2. CASE c.op = "swap"
      <4>1. chain' = chain  BY <1>3, <3>2 DEF Entered
      <4> QED  BY <4>1 DEF Extends
    <3> QED  BY <2>1, <3>1, <3>2
  <2>4. call' = [call EXCEPT ![t] = c]  BY <1>3, <2>1
  <2> QED  BY <1>3, <2>3, <2>4 DEF Evolves, TypeOK
<1> QED  BY <1>1, <1>2, <1>3 DEF Body

LEMMA TaskEvolves ==
    ASSUME NoRemoval, EvalInv, NEW t \in Tasks,
           DirectCall(t) \/ Rollback(t) \/ TaskStep(t)
    PROVE  Evolves(t) /\ running = NoTask
<1>1. TypeOK /\ call[t].op # "remove"  BY DEF EvalInv
<1>2. PICK k \in Calls : k = call[t]  BY <1>1 DEF TypeOK
<1>3. CASE DirectCall(t)
  <2>1. PICK o \in Offers(chain) : o.op \in DirectOps /\ Enter(t, CallFor(o, Direct))
     BY <1>3 DEF DirectCall
  <2>2. PICK c \in Calls : c = CallFor(o, Direct)  BY <1>1, OfferType DEF TypeOK
  <2>3. c.op # "remove"  BY <2>1, <2>2 DEF CallFor, NoRemoval
  <2>4. CASE Body(t, c)  BY <1>1, <1>3, <2>3, <2>4, BodyEvolves DEF DirectCall, Free
  <2>5. CASE call' = [call EXCEPT ![t] = c] /\ running' = NoTask /\ UNCHANGED <<chain, eval>>
     BY <1>1, <1>3, <2>3, <2>5 DEF Evolves, TypeOK, DirectCall, Free
  <2> QED  BY <2>1, <2>2, <2>4, <2>5 DEF Enter
<1>4. CASE Rollback(t)
  <2>1. PICK v \in DOMAIN versions : RollbackTo(t, v)  BY <1>4 DEF Rollback
  <2>2. running = NoTask  BY <1>4 DEF Rollback, Free
  <2>3. CASE RollbackFails(v)  BY <1>1, <2>2, <2>3 DEF RollbackFails, Evolves
  <2>4. CASE RestoreNow(v)  BY <1>1, <2>2, <2>4 DEF RestoreNow, Evolves
  <2>5. CASE RestoreLater(t, v)
     BY <1>1, <2>2, <2>5 DEF RestoreLater, Restoring, NoCall, Evolves, TypeOK
  <2> QED  BY <2>1, <2>2, <2>3, <2>4, <2>5 DEF RollbackTo
<1>5. CASE Wake(t)  BY <1>1, <1>2, <1>5, BodyEvolves DEF Wake
<1>6. CASE Resolve(t)  BY <1>1, <1>2, <1>6, CommitEvolves DEF Resolve
<1>7. CASE ResolveFails(t)  BY <1>1, <1>2, <1>7, ReturnEvolves DEF ResolveFails, Evolves
<1> QED  BY <1>3, <1>4, <1>5, <1>6, <1>7 DEF TaskStep

LEMMA TaskStepCovers ==
    ASSUME EvalInv, TypeOK', NEW t \in Tasks, Evolves(t), running = NoTask
    PROVE  EvalInv'
<1>1. \A u \in Tasks : call'[u].op # "remove"  BY DEF Evolves, EvalInv
<1>2. \A r \in Requests : eval[r].phase # "consulting" /\ running' # r
  BY EngineSets DEF EvalInv, Evolves
<1>3. CASE UNCHANGED <<chain, eval>>
  <2>1. \A r \in Requests : EvalOK(r)'
     BY <1>3 DEF EvalInv, EvalOK, Underway, Covers, Passed, ListOf
  <2> QED  BY <1>1, <1>2, <1>3, <2>1 DEF EvalInv
<1>4. CASE \E rebound \in BOOLEAN, swappedIn \in SUBSET Providers :
             Observe(rebound, swappedIn) /\ (rebound \/ Extends(swappedIn))
  <2>1. \A r \in Requests : EvalOK(r)' /\ eval'[r].phase # "consulting"
     BY <1>4, ObserveCovers
  <2> QED  BY <1>1, <1>2, <2>1 DEF EvalInv
<1> QED  BY <1>3, <1>4 DEF Evolves

(* A verdict of the provider at the place next of the list.                *)
LEMMA VerdictCovers ==
    ASSUME EvalInv, NEW r \in Requests, Underway(r), UNCHANGED chain,
           eval[r].next \in DOMAIN ListOf(r), NEW seen, TakeVerdict(r, seen),
           eval[r].seen \subseteq seen, ListOf(r)[eval[r].next] \in seen \/ Passed(r, eval[r].next)
    PROVE  EvalOK(r)' /\ (eval'[r].phase = "consulting" <=> running' = r)
<1>1. PICK v \in Verdicts \cup {"raise"} :
         LET stop == v = "deny" \/ (v = "raise" /\ FailClosed) IN
         /\ eval' = [eval EXCEPT ![r] = IF stop THEN Decided("deny") ELSE Heard(r, v, seen)]
         /\ running' = IF stop THEN NoTask ELSE r
  BY DEF TakeVerdict
<1>2. eval[r] \in Evaluations /\ eval \in [Requests -> Evaluations]  BY DEF EvalInv, TypeOK
<1>3. Covers(r)  BY DEF EvalInv, EvalOK
<1>4. CASE v = "deny" \/ (v = "raise" /\ FailClosed)
  <2>1. eval'[r].phase = "decided" /\ eval'[r].outcome = "deny" /\ running' = NoTask
     BY <1>1, <1>2, <1>4 DEF Decided, NoEvaluation
  <2> QED  BY <2>1, EngineSets DEF EvalOK, Underway
<1>5. CASE ~(v = "deny" \/ (v = "raise" /\ FailClosed))
  <2>1. eval'[r] = Heard(r, v, seen) /\ running' = r  BY <1>1, <1>2, <1>5
  <2>2. /\ eval'[r].phase = "consulting" /\ eval'[r].next = eval[r].next + 1
        /\ eval'[r].outcome = eval[r].outcome /\ eval'[r].seen = seen
        /\ eval'[r].must = eval[r].must /\ eval'[r].aliased = eval[r].aliased
        /\ eval'[r].list = eval[r].list
     BY <1>2, <2>1 DEF Heard, Evaluations
  <2>3. ListOf(r)' = ListOf(r)  BY <2>2 DEF ListOf
  <2>4. ListOf(r) \in Seq(Providers) /\ eval[r].next \in Nat
     BY <1>2 DEF ListOf, Evaluations, EvalInv, TypeOK
  <2>5. ASSUME NEW j \in DOMAIN ListOf(r), Passed(r, j)', ListOf(r)[j] \in eval[r].must
        PROVE  ListOf(r)[j] \in seen
    <3>1. j \in Nat  BY <2>4, LenProperties
    <3>2. j < eval[r].next \/ j = eval[r].next  BY <2>2, <2>4, <2>5, <3>1 DEF Passed
    <3>3. CASE Passed(r, j)  BY <1>3, <2>5, <3>3 DEF Covers
    <3>4. CASE j = eval[r].next /\ ListOf(r)[j] \in seen  BY <3>4
    <3> QED  BY <3>2, <3>3, <3>4 DEF Passed
  <2>6. Covers(r)'  BY <1>3, <2>2, <2>3, <2>4, <2>5 DEF Covers
  <2> QED  BY <1>3, <2>1, <2>2, <2>6 DEF EvalOK, Underway, Covers
<1> QED  BY <1>4, <1>5

LEMMA EvaluationCovers ==
    ASSUME EvalInv, TypeOK', NEW r \in Requests, StartEvaluation(r) \/ EvaluationStep(r)
    PROVE  EvalInv'
<1>1. TypeOK /\ EvalOK(r) /\ (eval[r].phase = "consulting" <=> running = r)  BY DEF EvalInv
<1>2. UNCHANGED chain /\ UNCHANGED call
  BY DEF StartEvaluation, EvaluationStep, Consult, Answer, Decide
<1>3. eval[r] \in Evaluations /\ chain \in Seq(Providers)  BY <1>1 DEF TypeOK
<1> DEFINE Goal == EvalOK(r)' /\ (eval'[r].phase = "consulting" <=> running' = r)
<1>4. ASSUME StartEvaluation(r)  PROVE Goal
  <2>1. eval[r] = NoEvaluation  BY <1>1, <1>4 DEF StartEvaluation, EvalOK
  <2>2. /\ eval'[r].phase = "consulting" /\ eval'[r].next = 1
        /\ eval'[r].outcome = "none" /\ eval'[r].must = ToSet(chain)
        /\ eval'[r].aliased = TRUE /\ running' = r
     BY <1>1, <1>4, <2>1 DEF StartEvaluation, NoEvaluation, TypeOK
  <2>3. ListOf(r)' = chain  BY <1>2, <2>2 DEF ListOf
  <2>4. \A j \in DOMAIN chain : ~Passed(r, j)'
     BY <1>3, <2>2, LenProperties DEF Passed
  <2>5. Covers(r)'  BY <2>2, <2>3, <2>4 DEF Covers
  <2> QED  BY <2>2, <2>5 DEF EvalOK, Underway
<1>5. ASSUME Consult(r)  PROVE Goal
  <2>1. /\ eval[r].phase = "consulting" /\ Covers(r)
        /\ eval[r].next \in DOMAIN ListOf(r)
     BY <1>1, <1>5 DEF Consult, EvalOK, Underway
  <2> DEFINE p == ListOf(r)[eval[r].next]
  <2>2. CASE /\ eval' = [eval EXCEPT ![r].phase = "awaiting",
                                      ![r].seen = eval[r].seen \cup {p}]
             /\ running' = NoTask
    <3>1. /\ eval'[r].phase = "awaiting" /\ eval'[r].next = eval[r].next
          /\ eval'[r].outcome = eval[r].outcome /\ eval'[r].seen = eval[r].seen \cup {p}
          /\ eval'[r].must = eval[r].must /\ eval'[r].aliased = eval[r].aliased
          /\ eval'[r].list = eval[r].list
       BY <1>1, <1>3, <2>2 DEF Evaluations, TypeOK
    <3>2. ListOf(r)' = ListOf(r)  BY <1>2, <3>1 DEF ListOf
    <3>3. Covers(r)'  BY <2>1, <3>1, <3>2 DEF Covers, Passed
    <3> QED  BY <2>1, <2>2, <3>1, <3>3, EngineSets DEF EvalOK, Underway, Covers
  <2>3. CASE TakeVerdict(r, eval[r].seen \cup {p})
     BY <1>2, <2>1, <2>3, VerdictCovers DEF Underway
  <2> QED  BY <1>5, <2>2, <2>3 DEF Consult
<1>6. ASSUME Answer(r)  PROVE Goal
  <2>1. /\ eval[r].phase = "awaiting" /\ Covers(r) /\ TakeVerdict(r, eval[r].seen)
     BY <1>1, <1>6 DEF Answer, EvalOK, Underway
  <2>2. eval[r].next \in DOMAIN ListOf(r) /\ Passed(r, eval[r].next)
     BY <2>1 DEF Covers, Passed
  <2> QED  BY <1>2, <2>1, <2>2, VerdictCovers DEF Underway
<1>7. ASSUME Decide(r)  PROVE Goal
  <2>1. /\ eval[r].phase = "consulting" /\ Covers(r)
        /\ eval[r].next \notin DOMAIN ListOf(r) /\ running' = NoTask
     BY <1>1, <1>7 DEF Decide, EvalOK, Underway
  <2>2. ListOf(r) \in Seq(Providers) /\ eval[r].next \in Nat
     BY <1>1, <1>3 DEF ListOf, Evaluations
  <2>3. \A j \in DOMAIN ListOf(r) : Passed(r, j)
     BY <2>1, <2>2, LenProperties DEF Passed, Covers
  <2>4. eval[r].must \subseteq eval[r].seen  BY <2>1, <2>3 DEF Covers, ToSet
  <2>5. PICK outcome : eval' = [eval EXCEPT ![r] =
          [Decided(outcome) EXCEPT
              !.seen = IF outcome = "allow" THEN eval[r].seen ELSE {},
              !.must = IF outcome = "allow" THEN eval[r].must ELSE {}]]
     BY <1>7 DEF Decide
  <2>6. /\ eval'[r].phase = "decided"
        /\ eval'[r].must \subseteq eval'[r].seen
     BY <1>1, <2>4, <2>5 DEF Decided, NoEvaluation, TypeOK
  <2> QED  BY <2>1, <2>6, EngineSets DEF EvalOK, Underway
<1>8. Goal  BY <1>4, <1>5, <1>6, <1>7 DEF EvaluationStep
<1>9. running \in {NoTask, r} /\ running' \in {NoTask, r}
      /\ \A q \in Requests \ {r} : eval'[q] = eval[q]
  BY <1>1 DEF StartEvaluation, EvaluationStep, Consult, Answer, Decide, TakeVerdict, TypeOK
<1>10. ASSUME NEW q \in Requests \ {r}
       PROVE  EvalOK(q)' /\ (eval'[q].phase = "consulting" <=> running' = q)
  <2>1. EvalOK(q)'
     BY <1>2, <1>9 DEF EvalInv, EvalOK, Underway, Covers, Passed, ListOf
  <2> QED  BY <1>9, <2>1, EngineSets DEF EvalInv
<1> QED  BY <1>2, <1>8, <1>10 DEF EvalInv

(* In an engine no provider is ever removed from, a request is allowed     *)
(* only after every provider in force throughout its evaluation was asked: *)
(* additions, swaps, replacements, rollbacks and restarts in the middle    *)
(* of it skip nobody, whatever the chain, the providers that suspend and   *)
(* the number of requests evaluated at once.                               *)
THEOREM AllowedAfterAll == NoRemoval => (EngineSpec => []AllowedByAll)
<1> SUFFICES ASSUME NoRemoval PROVE EngineSpec => []AllowedByAll  OBVIOUS
<1>1. EngineInit => EvalInv
  <2> SUFFICES ASSUME EngineInit PROVE EvalInv  OBVIOUS
  <2>1. \A r \in Requests : EvalOK(r) /\ eval[r].phase = "idle" /\ running # r
     BY EngineSets DEF EngineInit, EvalOK, Underway, NoEvaluation
  <2> QED  BY <2>1, InitType DEF EngineInit, EvalInv, NoCall
<1>2. ASSUME EvalInv, [EngineNext]_engineVars  PROVE EvalInv'
  <2>1. TypeOK'  BY <1>2, EngineTypeStep DEF EvalInv
  <2>2. CASE UNCHANGED engineVars
     BY <1>2, <2>1, <2>2 DEF engineVars, EvalInv, EvalOK, Underway, Covers, Passed, ListOf
  <2>3. CASE Restart
    <3>1. \A r \in Requests : EvalOK(r)' /\ eval'[r].phase = "idle" /\ running' # r
       BY <2>3, EngineSets DEF Restart, EvalOK, Underway, NoEvaluation
    <3> QED  BY <2>1, <2>3, <3>1 DEF Restart, EvalInv, NoCall
  <2> QED
     BY <1>2, <2>1, <2>2, <2>3, TaskEvolves, TaskStepCovers, EvaluationCovers DEF EngineNext
<1>3. EvalInv => AllowedByAll  BY DEF EvalInv, EvalOK, AllowedByAll
<1> QED  BY <1>1, <1>2, <1>3, PTL DEF EngineSpec
=============================================================================
