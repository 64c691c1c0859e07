---------------------------- MODULE PolicyEngine ----------------------------
(***************************************************************************)
(* The policy engine: the live chain of policy providers, the swap lock    *)
(* that serialises changes to it, the version history every change is      *)
(* recorded in, rollback, restart, and the evaluation of requests.         *)
(*                                                                         *)
(* The program is one asyncio event loop.  A coroutine runs from one real  *)
(* suspension to the next without interleaving: "running" names the        *)
(* coroutine on the loop when one atomic stretch of code takes several     *)
(* steps here (only a process crash can fall between them), NoTask         *)
(* otherwise.  Awaiting a coroutine that never suspends is no scheduling   *)
(* point, so only AsyncProviders yield the loop when they are awaited.     *)
(***************************************************************************)
EXTENDS Integers, Sequences, SequencesExt

CONSTANTS
    Providers,           \* policy providers, told apart by their configuration
    AsyncProviders,      \* those whose methods suspend when awaited
    FlakyProviders,      \* those whose identity lookup may raise
    Opaque,              \* those a version snapshot cannot encode (TypeError)
    Unrestorable,        \* those encoded in a form that cannot be loaded again
    InitialChain,        \* the providers the engine is constructed with
    ReplacementChains,   \* chains offered to replace the whole chain
    DirectOps,           \* operations called on the engine without governance
    Proposals,           \* names of the governance proposals
    Direct,              \* origin of a call that no proposal stands behind
    Tasks,               \* coroutines that change the chain
    Requests,            \* coroutines that evaluate a request
    NoTask, NoProvider,
    SaveMayFail,         \* can the storage backend raise when history is saved?
    FailClosed,          \* the engine's fail_closed flag
    MaxChanges           \* bound: no operation starts after this many changes

ASSUME EngineSets ==
    /\ AsyncProviders \subseteq Providers
    /\ FlakyProviders \subseteq AsyncProviders
    /\ Opaque \subseteq Providers
    /\ Unrestorable \subseteq Providers
    /\ InitialChain \in Seq(Providers)
    /\ ReplacementChains \subseteq Seq(Providers)
    /\ ToSet(InitialChain) \cap (Opaque \cup Unrestorable) = {}
    /\ Direct \notin Proposals
    /\ NoTask \notin Tasks \cup Requests
    /\ Tasks \cap Requests = {}
    /\ NoProvider \notin Providers
ASSUME EngineFlags ==
    /\ SaveMayFail \in BOOLEAN
    /\ FailClosed \in BOOLEAN
    /\ MaxChanges \in Nat

VARIABLES
    chain,      \* self._providers, the live list
    versions,   \* the policy_data of every version, oldest first
    current,    \* number of the current version, 0 when there is none
    disk,       \* the version history the storage backend holds
    lock,       \* holder of _swap_lock
    queue,      \* coroutines waiting for it, in arrival order
    call,       \* what each coroutine is doing
    pc,         \* where it is suspended
    running,    \* the coroutine on the event loop
    changes,    \* history: every change made to the chain, and on whose behalf
    eval        \* the evaluations of requests

history == <<versions, current, disk>>
mutex   == <<lock, queue>>
engineVars == <<chain, history, mutex, call, pc, running, changes, eval>>

-----------------------------------------------------------------------------
(* Types *)

Ops == {"add", "swap", "remove", "replace", "restore", "simulate"}
Calls == {c \in [op : Ops \cup {"none"}, at : Nat, new : Providers \cup {NoProvider},
                 chain : Seq(Providers), by : Proposals \cup {Direct}] :
             c.op \in {"add", "swap"} => c.new \in Providers}
NoCall == [op |-> "none", at |-> 0, new |-> NoProvider, chain |-> <<>>, by |-> Direct]

Verdicts == {"allow", "deny", "approval", "defer"}
Evaluations == [phase : {"idle", "consulting", "awaiting", "decided"},
                aliased : BOOLEAN, list : Seq(Providers), next : Nat,
                seen : SUBSET Providers, must : SUBSET Providers,
                verdicts : SUBSET Verdicts, outcome : Verdicts \cup {"none"}]
NoEvaluation == [phase |-> "idle", aliased |-> TRUE, list |-> <<>>, next |-> 1,
                 seen |-> {}, must |-> {}, verdicts |-> {}, outcome |-> "none"]

TypeOK ==
    /\ chain \in Seq(Providers)
    /\ versions \in Seq(Seq(Providers))
    /\ current \in 0 .. Len(versions)
    /\ disk \in [versions : Seq(Seq(Providers)), current : Nat]
    /\ disk.current \in 0 .. Len(disk.versions)
    /\ lock \in Tasks \cup {NoTask}
    /\ queue \in Seq(Tasks)
    /\ call \in [Tasks -> Calls]
    /\ pc \in [Tasks -> {"idle", "queued", "resolving", "simulating", "done", "failed"}]
    /\ running \in Tasks \cup Requests \cup {NoTask}
    /\ changes \in Seq([by : Proposals \cup {Direct}, after : Seq(Providers)])
    /\ eval \in [Requests -> Evaluations]

-----------------------------------------------------------------------------
(* What one operation does to the chain.  An addition and a removal touch  *)
(* the list before they await the provider's identity, a swap after.       *)

Applicable(c, ch) == c.op \in {"swap", "remove"} => c.at \in DOMAIN ch

Entered(c, ch) ==
    CASE c.op = "add"    -> Append(ch, c.new)
      [] c.op = "remove" -> RemoveAt(ch, c.at)
      [] OTHER           -> ch

Settled(c, ch) ==
    CASE c.op = "swap"                   -> ReplaceAt(ch, c.at, c.new)
      [] c.op \in {"replace", "restore"} -> c.chain
      [] OTHER                           -> ch

Changed(c, ch) == Settled(c, Entered(c, ch))

(* The providers whose get_policy_id and get_policy_version are awaited.   *)
Identified(c, ch) ==
    CASE c.op = "add"    -> {c.new}
      [] c.op = "swap"   -> {ch[c.at], c.new}
      [] c.op = "remove" -> {ch[c.at]}
      [] OTHER           -> {}

Save == \/ disk' = [versions |-> versions', current |-> current']
        \/ SaveMayFail /\ UNCHANGED disk

(* Mutant: the current version is numbered one too high.                   *)
RecordSnapshotOffByOne(ch) ==
    /\ versions' = Append(versions, ch)
    /\ current' = Len(versions) + 2
    /\ Save

(* A snapshot that cannot be encoded, and a save that fails, are logged    *)
(* and swallowed: the change stands.                                       *)
RecordSnapshot(ch) ==
    IF ToSet(ch) \cap Opaque # {}
    THEN UNCHANGED history
    ELSE /\ versions' = Append(versions, ch)
         /\ current' = Len(versions) + 1
         /\ Save

(* An evaluation iterates over the list object it started with: a list     *)
(* changed in place changes under it, a list replaced leaves it the old    *)
(* one.  "must" is the set of providers in force ever since it started; a  *)
(* provider swapped into a slot is a new one, whatever its configuration.  *)
Observe(rebound, swappedIn) ==
    eval' = [r \in Requests |->
        IF eval[r].phase \notin {"consulting", "awaiting"} THEN eval[r]
        ELSE [eval[r] EXCEPT
                !.must = (eval[r].must \cap ToSet(chain')) \ swappedIn,
                !.aliased = eval[r].aliased /\ ~rebound,
                !.list = IF rebound /\ eval[r].aliased THEN chain ELSE eval[r].list]]

LogChange(c) == changes' = Append(changes, [by |-> c.by, after |-> chain'])

(* A call ends: one made directly is over, one made by a governor goes on  *)
(* in the governor's code without a suspension.                            *)
Return(t, c, how) ==
    IF c.by = Direct
    THEN /\ pc' = [pc EXCEPT ![t] = "idle"]
         /\ call' = [call EXCEPT ![t] = NoCall]
         /\ running' = NoTask
    ELSE /\ pc' = [pc EXCEPT ![t] = how]
         /\ call' = [call EXCEPT ![t] = c]
         /\ running' = t

(* A restored version is not recorded again.                               *)
RecordedForgetsRemoval(c) == c.op \notin {"restore", "remove"}  (* mutant *)
Recorded(c) == c.op # "restore"

(* "async with" releases the lock however its body ends.                   *)
ReleaseForgotten == UNCHANGED lock  (* mutant *)
Release == lock' = NoTask

(* The end of an operation, from chain ch, still under the lock.           *)
Commit(t, c, ch) ==
    /\ chain' = Settled(c, ch)
    /\ IF Recorded(c) THEN RecordSnapshot(chain') ELSE UNCHANGED history
    /\ Observe(c.op \in {"replace", "restore"}, IF c.op = "swap" THEN {c.new} ELSE {})
    /\ LogChange(c)
    /\ Return(t, c, "done")

(* The body of "async with self._swap_lock", entered by t: it raises, runs *)
(* to its end, or suspends holding the lock.                               *)
Body(t, c) ==
    \/ /\ ~Applicable(c, chain)
       /\ Return(t, c, "failed")
       /\ UNCHANGED <<chain, history, lock, changes, eval>>
    \/ /\ Applicable(c, chain)
       /\ Identified(c, chain) \cap AsyncProviders = {}
       /\ Commit(t, c, Entered(c, chain))
       /\ UNCHANGED lock
    \/ /\ Applicable(c, chain)
       /\ Identified(c, chain) \cap AsyncProviders # {}
       /\ chain' = Entered(c, chain)
       /\ Observe(FALSE, {})
       /\ lock' = t
       /\ pc' = [pc EXCEPT ![t] = "resolving"]
       /\ call' = [call EXCEPT ![t] =
                    IF c.op = "remove" THEN [c EXCEPT !.new = chain[c.at]] ELSE c]
       /\ running' = NoTask
       /\ UNCHANGED <<history, changes>>

(* Acquire the lock: at once when it is free and nobody waits, else queue. *)
Enter(t, c) ==
    \/ /\ lock = NoTask /\ queue = <<>>
       /\ Body(t, c)
       /\ UNCHANGED queue
    \/ /\ lock # NoTask \/ queue # <<>>
       /\ queue' = Append(queue, t)
       /\ pc' = [pc EXCEPT ![t] = "queued"]
       /\ call' = [call EXCEPT ![t] = c]
       /\ running' = NoTask
       /\ UNCHANGED <<chain, history, lock, changes, eval>>

Free(t) == running = NoTask /\ pc[t] = "idle" /\ Len(changes) < MaxChanges

-----------------------------------------------------------------------------
(* Actions *)

(* What a caller may ask for now; a swap checks its index before the lock, *)
(* and the management API rejects an index outside the chain it reads.     *)
Offers(ch) ==
    [op : {"add"}, at : {0}, new : Providers, chain : {<<>>}]
    \cup [op : {"swap"}, at : DOMAIN ch, new : Providers, chain : {<<>>}]
    \cup [op : {"remove"}, at : DOMAIN ch, new : {NoProvider}, chain : {<<>>}]
    \cup [op : {"replace"}, at : {0}, new : {NoProvider}, chain : ReplacementChains]

CallFor(o, origin) ==
    [op |-> o.op, at |-> o.at, new |-> o.new, chain |-> o.chain, by |-> origin]

(* add_provider, hot_swap, remove_provider or replace_providers.           *)
DirectCall(t) ==
    /\ Free(t)
    /\ \E o \in Offers(chain) :
          o.op \in DirectOps /\ Enter(t, CallFor(o, Direct))

(* rollback_to moves the current version at once; restore_version then     *)
(* puts that version's chain in place, waiting for the lock if it is held. *)
(* A save that fails, or a version that cannot be loaded, ends the call    *)
(* with the current version moved and the chain as it was.                 *)
Restoring(v) == [NoCall EXCEPT !.op = "restore", !.chain = versions[v]]

RollbackFails(v) ==
    /\ \/ SaveMayFail /\ UNCHANGED disk
       \/ /\ disk' = [versions |-> versions, current |-> v]
          /\ ToSet(versions[v]) \cap Unrestorable # {}
    /\ UNCHANGED <<chain, mutex, call, pc, running, changes, eval>>

RestoreNow(v) ==
    /\ lock = NoTask /\ queue = <<>>
    /\ chain' = versions[v]
    /\ Observe(TRUE, {})
    /\ LogChange(Restoring(v))
    /\ UNCHANGED <<mutex, call, pc, running>>

RestoreLater(t, v) ==
    /\ lock # NoTask \/ queue # <<>>
    /\ queue' = Append(queue, t)
    /\ pc' = [pc EXCEPT ![t] = "queued"]
    /\ call' = [call EXCEPT ![t] = Restoring(v)]
    /\ UNCHANGED <<chain, lock, running, changes, eval>>

RollbackTo(t, v) ==
    /\ current' = v
    /\ UNCHANGED versions
    /\ \/ RollbackFails(v)
       \/ /\ disk' = [versions |-> versions, current |-> v]
          /\ ToSet(versions[v]) \cap Unrestorable = {}
          /\ RestoreNow(v) \/ RestoreLater(t, v)

Rollback(t) ==
    /\ Free(t)
    /\ "rollback" \in DirectOps
    /\ \E v \in DOMAIN versions : RollbackTo(t, v)

(* The first waiter runs once the lock is released.                        *)
Wake(t) ==
    /\ running = NoTask
    /\ lock = NoTask
    /\ pc[t] = "queued" /\ queue # <<>> /\ Head(queue) = t
    /\ queue' = Tail(queue)
    /\ Body(t, call[t])

(* The awaited identities arrive: the operation ends, the lock is free.    *)
Resolve(t) ==
    /\ running = NoTask
    /\ pc[t] = "resolving"
    /\ Release
    /\ Commit(t, call[t], chain)
    /\ UNCHANGED queue

(* An identity lookup raises: what was done to the list stays, no version  *)
(* is recorded, the lock is released, the caller gets the exception.       *)
ResolveFails(t) ==
    /\ running = NoTask
    /\ pc[t] = "resolving"
    /\ \/ call[t].new \in FlakyProviders
       \/ call[t].op = "swap" /\ chain[call[t].at] \in FlakyProviders
    /\ Release
    /\ UNCHANGED chain
    /\ IF call[t].op \in {"add", "remove"} THEN LogChange(call[t]) ELSE UNCHANGED changes
    /\ Return(t, call[t], "failed")
    /\ UNCHANGED <<history, queue, eval>>

-----------------------------------------------------------------------------
(* Evaluation *)

ListOf(r) == IF eval[r].aliased THEN chain ELSE eval[r].list

(* The aggregate outcome once no provider denied.                          *)
Aggregate(verdicts) ==
    IF verdicts \subseteq {"defer"} THEN (IF FailClosed THEN "deny" ELSE "allow")
    ELSE IF "approval" \in verdicts THEN "approval" ELSE "allow"

StartEvaluation(r) ==
    /\ running = NoTask
    /\ eval[r].phase = "idle"
    /\ eval' = [eval EXCEPT ![r].phase = "consulting", ![r].must = ToSet(chain)]
    /\ running' = r
    /\ UNCHANGED <<chain, history, mutex, call, pc, changes>>

(* Only an ALLOW keeps what it rests on.                                   *)
Decided(outcome) == [NoEvaluation EXCEPT !.phase = "decided", !.outcome = outcome]

(* Mutant: the same provider is asked again.                               *)
HeardAgain(r, v, seen) ==
    [eval[r] EXCEPT !.seen = seen, !.phase = "consulting",
                    !.verdicts = eval[r].verdicts \cup ({v} \ {"raise"})]

Heard(r, v, seen) ==
    [eval[r] EXCEPT !.seen = seen, !.next = eval[r].next + 1, !.phase = "consulting",
                    !.verdicts = eval[r].verdicts \cup ({v} \ {"raise"})]

(* Mutant: the first provider that allows decides.                         *)
TakeVerdictAnyAllows(r, seen) ==
    \E v \in Verdicts :
        /\ eval' = [eval EXCEPT ![r] =
              IF v = "allow"
              THEN [Heard(r, v, seen) EXCEPT !.phase = "decided", !.outcome = "allow"]
              ELSE Heard(r, v, seen)]
        /\ running' = IF v = "allow" THEN NoTask ELSE r

(* A verdict, or an exception, of the provider asked is taken in.          *)
TakeVerdict(r, seen) ==
    \E v \in Verdicts \cup {"raise"} :
        LET stop == v = "deny" \/ (v = "raise" /\ FailClosed) IN
        /\ eval' = [eval EXCEPT ![r] = IF stop THEN Decided("deny") ELSE Heard(r, v, seen)]
        /\ running' = IF stop THEN NoTask ELSE r

(* Ask the next provider of the list; one that suspends yields the loop.   *)
Consult(r) ==
    /\ running = r
    /\ eval[r].next \in DOMAIN ListOf(r)
    /\ LET p == ListOf(r)[eval[r].next] IN
       IF p \in AsyncProviders
       THEN /\ eval' = [eval EXCEPT ![r].phase = "awaiting",
                                     ![r].seen = eval[r].seen \cup {p}]
            /\ running' = NoTask
       ELSE TakeVerdict(r, eval[r].seen \cup {p})
    /\ UNCHANGED <<chain, history, mutex, call, pc, changes>>

Answer(r) ==
    /\ running = NoTask
    /\ eval[r].phase = "awaiting"
    /\ TakeVerdict(r, eval[r].seen)
    /\ UNCHANGED <<chain, history, mutex, call, pc, changes>>

Decide(r) ==
    /\ running = r
    /\ eval[r].next \notin DOMAIN ListOf(r)
    /\ LET outcome == Aggregate(eval[r].verdicts) IN
       eval' = [eval EXCEPT ![r] =
          [Decided(outcome) EXCEPT
              !.seen = IF outcome = "allow" THEN eval[r].seen ELSE {},
              !.must = IF outcome = "allow" THEN eval[r].must ELSE {}]]
    /\ running' = NoTask
    /\ UNCHANGED <<chain, history, mutex, call, pc, changes>>

-----------------------------------------------------------------------------
LoadedLatest(stored) == Last(stored.versions)  (* mutant *)
Loaded(stored) == stored.versions[stored.current]

(* attach_version_manager: the chain is loaded from the stored current     *)
(* version, or, when nothing is stored, starts as constructed and is       *)
(* recorded as the first version.                                          *)
Attach(stored) ==
    \/ /\ stored.current # 0
       /\ versions' = stored.versions
       /\ current' = stored.current
       /\ chain' = Loaded(stored)
       /\ disk' = stored
    \/ /\ stored.current = 0
       /\ chain' = InitialChain
       /\ versions' = <<InitialChain>>
       /\ current' = 1
       /\ \/ disk' = [versions |-> versions', current |-> current']
          \/ SaveMayFail /\ disk' = stored

(* The process dies at any point and starts again from what was saved.  A  *)
(* version that cannot be loaded makes it refuse to start: no step then.   *)
Restart ==
    /\ disk.current # 0 =>
          ToSet(Loaded(disk)) \cap Unrestorable = {}
    /\ Attach(disk)
    /\ lock' = NoTask
    /\ queue' = <<>>
    /\ call' = [t \in Tasks |-> NoCall]
    /\ pc' = [t \in Tasks |-> "idle"]
    /\ running' = NoTask
    /\ eval' = [r \in Requests |-> NoEvaluation]
    /\ UNCHANGED changes

EngineInit ==
    /\ chain = InitialChain
    /\ versions = <<InitialChain>>
    /\ current = 1
    /\ \/ disk = [versions |-> <<InitialChain>>, current |-> 1]
       \/ SaveMayFail /\ disk = [versions |-> <<>>, current |-> 0]
    /\ lock = NoTask
    /\ queue = <<>>
    /\ call = [t \in Tasks |-> NoCall]
    /\ pc = [t \in Tasks |-> "idle"]
    /\ running = NoTask
    /\ changes = <<>>
    /\ eval = [r \in Requests |-> NoEvaluation]

TaskStep(t) == Wake(t) \/ Resolve(t) \/ ResolveFails(t)
EvaluationStep(r) == Consult(r) \/ Answer(r) \/ Decide(r)

EngineNext ==
    \/ \E t \in Tasks : DirectCall(t) \/ Rollback(t) \/ TaskStep(t)
    \/ \E r \in Requests : StartEvaluation(r) \/ EvaluationStep(r)
    \/ Restart

(* The loop runs every ready coroutine, and what is awaited comes back.    *)
EngineSpec ==
    /\ EngineInit /\ [][EngineNext]_engineVars
    /\ \A t \in Tasks : WF_engineVars(TaskStep(t))
    /\ \A r \in Requests : WF_engineVars(EvaluationStep(r))

-----------------------------------------------------------------------------
(* Properties *)

(* "When multiple providers are configured, ALL must allow the request":   *)
(* a request allowed was put to every provider that was in the chain from  *)
(* the start of its evaluation to the end.                                 *)
AllowedByAll ==
    \A r \in Requests :
        eval[r].outcome = "allow" => eval[r].must \subseteq eval[r].seen

(* No change of the chain escapes the history: whenever no operation is in *)
(* progress, whatever rollbacks, lost saves and restarts came before, the  *)
(* live chain is the content of some recorded version, unless it holds a   *)
(* provider no snapshot can encode.                                        *)
LiveChainAudited ==
    lock = NoTask /\ ToSet(chain) \cap Opaque = {} => chain \in ToSet(versions)

(* The live chain is the current version's, as attach_version_manager      *)
(* "syncs the live provider state to it".                                  *)
LiveChainIsCurrent ==
    lock = NoTask /\ queue = <<>> => current # 0 /\ chain = versions[current]

(* A change that waits for the swap lock gets it, whatever the holder does.*)
WaitersServed == \A t \in Tasks : pc[t] = "queued" ~> pc[t] # "queued"

(* An evaluation of the live list ends although the list changes under it. *)
EvaluationsEnd ==
    \A r \in Requests :
        eval[r].phase = "consulting" ~> eval[r].phase \in {"decided", "idle"}
=============================================================================
