----------------------- MODULE PolicyGovernanceProofs -----------------------
(***************************************************************************)
(* Theorems about PolicyGovernance, for every value of its constants.      *)
(***************************************************************************)
EXTENDS PolicyGovernance, SequenceTheorems, TLAPS

-----------------------------------------------------------------------------
(* What the operations do to a chain *)

(* Removing a provider at a valid index leaves a chain of providers.       *)
LEMMA RemoveAtType ==
    ASSUME NEW S, NEW s \in Seq(S), NEW i \in DOMAIN s
    PROVE  RemoveAt(s, i) \in Seq(S)
<1>1. i \in 1 .. Len(s)  BY LenProperties
<1>2. SubSeq(s, 1, i - 1) \in Seq(S)  BY <1>1, SubSeqProperties
<1>3. SubSeq(s, i + 1, Len(s)) \in Seq(S)  BY <1>1, SubSeqProperties
<1> QED  BY <1>2, <1>3, ConcatProperties DEF RemoveAt

(* Every operation turns a chain into a chain.                             *)
LEMMA EnteredType ==
    ASSUME NEW c \in Calls, NEW ch \in Seq(Providers), Applicable(c, ch)
    PROVE  Entered(c, ch) \in Seq(Providers)
<1>1. CASE c.op = "add"  BY <1>1, AppendProperties DEF Entered, Calls
<1>2. CASE c.op = "remove"
  <2>1. RemoveAt(ch, c.at) \in Seq(Providers)  BY <1>2, RemoveAtType DEF Applicable
  <2> QED  BY <1>2, <2>1 DEF Entered
<1>3. CASE c.op \notin {"add", "remove"}  BY <1>3 DEF Entered
<1> QED  BY <1>1, <1>2, <1>3

LEMMA SettledType ==
    ASSUME NEW c \in Calls, NEW ch \in Seq(Providers)
    PROVE  Settled(c, ch) \in Seq(Providers)
<1>1. CASE c.op = "swap"
  <2>1. /\ c.new \in Providers
        /\ DOMAIN ch = 1 .. Len(ch)
     BY <1>1, LenProperties DEF Calls
  <2>2. CASE c.at \in 1 .. Len(ch)
     BY <1>1, <2>1, <2>2, ExceptSeq DEF ReplaceAt, Settled
  <2>3. CASE c.at \notin 1 .. Len(ch)
    <3>1. ReplaceAt(ch, c.at, c.new) = ch
      <4>1. ch = [i \in 1 .. Len(ch) |-> ch[i]]  BY <2>1, LenProperties
      <4> QED  BY <2>1, <2>3, <4>1 DEF ReplaceAt
    <3> QED  BY <1>1, <3>1 DEF Settled
  <2> QED  BY <2>2, <2>3
<1>2. CASE c.op # "swap"  BY <1>2 DEF Settled, Calls
<1> QED  BY <1>1, <1>2

-----------------------------------------------------------------------------
(* Type correctness, operator by operator *)

StatePart == chain' \in Seq(Providers) /\ eval' \in [Requests -> Evaluations]
HistoryPart ==
    /\ versions' \in Seq(Seq(Providers))
    /\ current' \in 0 .. Len(versions')
    /\ disk' \in [versions : Seq(Seq(Providers)), current : Nat]
    /\ disk'.current \in 0 .. Len(disk'.versions)
ControlPart ==
    /\ call' \in [Tasks -> Calls]
    /\ pc' \in [Tasks -> {"idle", "queued", "resolving", "simulating", "done", "failed"}]
    /\ running' \in Tasks \cup Requests \cup {NoTask}
    /\ changes' \in Seq([by : Proposals \cup {Direct}, after : Seq(Providers)])

LEMMA NoCallType == NoCall \in Calls
  BY EmptySeq DEF NoCall, Calls, Ops

LEMMA ObserveType ==
    ASSUME TypeOK, NEW rebound \in BOOLEAN, NEW swappedIn, Observe(rebound, swappedIn)
    PROVE  eval' \in [Requests -> Evaluations]
<1> SUFFICES ASSUME NEW r \in Requests PROVE eval'[r] \in Evaluations
    BY DEF Observe
<1>1. eval[r] \in Evaluations  BY DEF TypeOK
<1>2. chain \in Seq(Providers)  BY DEF TypeOK
<1> QED  BY <1>1, <1>2 DEF Observe, Evaluations

LEMMA RecordType ==
    ASSUME TypeOK, NEW ch \in Seq(Providers), RecordSnapshot(ch)
    PROVE  HistoryPart
<1>1. CASE UNCHANGED history  BY <1>1 DEF TypeOK, HistoryPart, history
<1>2. CASE /\ versions' = Append(versions, ch)
           /\ current' = Len(versions) + 1
           /\ Save
  <2>1. /\ versions' \in Seq(Seq(Providers))
        /\ Len(versions') = Len(versions) + 1
        /\ Len(versions) \in Nat
     BY <1>2, AppendProperties, LenProperties DEF TypeOK
  <2>2. current' \in 0 .. Len(versions')  BY <1>2, <2>1
  <2>3. CASE disk' = [versions |-> versions', current |-> current']
     BY <2>1, <2>2, <2>3 DEF HistoryPart
  <2>4. CASE UNCHANGED disk  BY <2>1, <2>2, <2>4 DEF HistoryPart, TypeOK
  <2> QED  BY <1>2, <2>3, <2>4 DEF Save
<1> QED  BY <1>1, <1>2 DEF RecordSnapshot

LEMMA ReturnType ==
    ASSUME TypeOK, NEW t \in Tasks, NEW c \in Calls, NEW how \in {"done", "failed"},
           Return(t, c, how), chain' \in Seq(Providers),
           LogChange(c) \/ UNCHANGED changes
    PROVE  ControlPart
<1>1. changes' \in Seq([by : Proposals \cup {Direct}, after : Seq(Providers)])
  <2> DEFINE Entries == [by : Proposals \cup {Direct}, after : Seq(Providers)]
  <2>1. PICK e \in Entries : e = [by |-> c.by, after |-> chain']  BY DEF Calls
  <2>2. changes \in Seq(Entries)  BY DEF TypeOK
  <2>3. Append(changes, e) \in Seq(Entries)  BY <2>2, AppendProperties
  <2> QED  BY <2>1, <2>2, <2>3 DEF LogChange
<1> QED  BY <1>1, NoCallType DEF Return, ControlPart, TypeOK

LEMMA CommitType ==
    ASSUME TypeOK, NEW t \in Tasks, NEW c \in Calls, NEW ch \in Seq(Providers),
           Commit(t, c, ch)
    PROVE  StatePart /\ HistoryPart /\ ControlPart
<1>1. chain' \in Seq(Providers)  BY SettledType DEF Commit
<1>2. HistoryPart
  <2>1. CASE RecordSnapshot(chain')
    <3>1. PICK next \in Seq(Providers) : next = chain'  BY <1>1
    <3> QED  BY <2>1, <3>1, RecordType
  <2>2. CASE UNCHANGED history  BY <2>2 DEF TypeOK, HistoryPart, history
  <2> QED  BY <2>1, <2>2 DEF Commit
<1>3. eval' \in [Requests -> Evaluations]
  <2> SUFFICES ASSUME NEW r \in Requests PROVE eval'[r] \in Evaluations
      BY DEF Commit, Observe
  <2>1. eval[r] \in Evaluations /\ chain \in Seq(Providers)  BY DEF TypeOK
  <2> QED  BY <2>1 DEF Commit, Observe, Evaluations
<1>4. ControlPart  BY <1>1, ReturnType DEF Commit
<1> QED  BY <1>1, <1>2, <1>3, <1>4 DEF StatePart

LEMMA BodyType ==
    ASSUME TypeOK, NEW t \in Tasks, NEW c \in Calls, Body(t, c)
    PROVE  StatePart /\ HistoryPart /\ ControlPart /\ lock' \in Tasks \cup {NoTask}
<1>1. CASE /\ ~Applicable(c, chain)
           /\ Return(t, c, "failed")
           /\ UNCHANGED <<chain, history, lock, changes, eval>>
  <2>1. chain' \in Seq(Providers)  BY <1>1 DEF TypeOK
  <2>2. ControlPart  BY <1>1, <2>1, ReturnType
  <2> QED  BY <1>1, <2>2 DEF TypeOK, StatePart, HistoryPart, history
<1>2. CASE /\ Applicable(c, chain)
           /\ Commit(t, c, Entered(c, chain))
           /\ UNCHANGED lock
  <2>1. PICK ch \in Seq(Providers) : ch = Entered(c, chain)
     BY <1>2, EnteredType DEF TypeOK
  <2>2. StatePart /\ HistoryPart /\ ControlPart  BY <1>2, <2>1, CommitType
  <2> QED  BY <1>2, <2>2 DEF TypeOK
<1>3. CASE /\ Applicable(c, chain)
           /\ chain' = Entered(c, chain)
           /\ Observe(FALSE, {})
           /\ lock' = t
           /\ pc' = [pc EXCEPT ![t] = "resolving"]
           /\ call' = [call EXCEPT ![t] =
                        IF c.op = "remove" THEN [c EXCEPT !.new = chain[c.at]] ELSE c]
           /\ running' = NoTask
           /\ UNCHANGED <<history, changes>>
  <2>1. chain' \in Seq(Providers)  BY <1>3, EnteredType DEF TypeOK
  <2>2. eval' \in [Requests -> Evaluations]  BY <1>3, ObserveType
  <2>3. c.op = "remove" => chain[c.at] \in Providers
     BY <1>3, ElementOfSeq, LenProperties DEF TypeOK, Applicable
  <2>4. call' \in [Tasks -> Calls]
     BY <1>3, <2>3 DEF TypeOK, Calls
  <2> QED  BY <1>3, <2>1, <2>2, <2>4 DEF TypeOK, StatePart, HistoryPart, ControlPart, history
<1> QED  BY <1>1, <1>2, <1>3 DEF Body

-----------------------------------------------------------------------------
(* Type correctness, action by action *)

LEMMA EnterType ==
    ASSUME TypeOK, NEW t \in Tasks, NEW c \in Calls, Enter(t, c)
    PROVE  TypeOK'
<1>1. CASE Body(t, c) /\ UNCHANGED queue
  <2>1. StatePart /\ HistoryPart /\ ControlPart /\ lock' \in Tasks \cup {NoTask}
     BY <1>1, BodyType
  <2> QED  BY <1>1, <2>1 DEF TypeOK, StatePart, HistoryPart, ControlPart
<1>2. CASE /\ queue' = Append(queue, t)
           /\ pc' = [pc EXCEPT ![t] = "queued"]
           /\ call' = [call EXCEPT ![t] = c]
           /\ running' = NoTask
           /\ UNCHANGED <<chain, history, lock, changes, eval>>
  <2>1. queue' \in Seq(Tasks)  BY <1>2, AppendProperties DEF TypeOK
  <2> QED  BY <1>2, <2>1 DEF TypeOK, history
<1> QED  BY <1>1, <1>2 DEF Enter

LEMMA TaskStepType ==
    ASSUME TypeOK, NEW t \in Tasks, TaskStep(t)
    PROVE  TypeOK'
<1>1. PICK c \in Calls : c = call[t]  BY DEF TypeOK
<1>2. CASE Wake(t)
  <2>1. StatePart /\ HistoryPart /\ ControlPart /\ lock' \in Tasks \cup {NoTask}
     BY <1>1, <1>2, BodyType DEF Wake
  <2>2. queue' \in Seq(Tasks)  BY <1>2, HeadTailProperties DEF Wake, TypeOK
  <2> QED  BY <2>1, <2>2 DEF TypeOK, StatePart, HistoryPart, ControlPart
<1>3. CASE Resolve(t)
  <2>1. PICK ch \in Seq(Providers) : ch = chain  BY DEF TypeOK
  <2>2. StatePart /\ HistoryPart /\ ControlPart
     BY <1>1, <1>3, <2>1, CommitType DEF Resolve
  <2> QED  BY <1>3, <2>2 DEF Resolve, Release, TypeOK, StatePart, HistoryPart, ControlPart
<1>4. CASE ResolveFails(t)
  <2>1. ControlPart  BY <1>1, <1>4, ReturnType DEF ResolveFails, TypeOK
  <2> QED  BY <1>4, <2>1 DEF ResolveFails, Release, TypeOK, ControlPart, history
<1> QED  BY <1>2, <1>3, <1>4 DEF TaskStep

LEMMA RollbackType ==
    ASSUME TypeOK, NEW t \in Tasks, NEW v \in DOMAIN versions, RollbackTo(t, v)
    PROVE  TypeOK'
<1>1. versions[v] \in Seq(Providers) /\ v \in 0 .. Len(versions) /\ v \in Nat
   BY ElementOfSeq, LenProperties DEF TypeOK
<1>2. PICK c \in Calls : c = Restoring(v)
   BY <1>1, EmptySeq DEF Restoring, NoCall, Calls, Ops
<1>3. HistoryPart
   BY <1>1 DEF RollbackTo, RollbackFails, HistoryPart, TypeOK
<1>4. CASE RollbackFails(v)
   BY <1>3, <1>4 DEF RollbackFails, HistoryPart, TypeOK, mutex
<1>5. CASE RestoreNow(v)
  <2>1. eval' \in [Requests -> Evaluations]  BY <1>5, ObserveType DEF RestoreNow
  <2> DEFINE Entries == [by : Proposals \cup {Direct}, after : Seq(Providers)]
  <2>2. PICK e \in Entries : e = [by |-> c.by, after |-> chain']
     BY <1>1, <1>5 DEF Calls, RestoreNow
  <2>3. Append(changes, e) \in Seq(Entries)  BY AppendProperties DEF TypeOK
  <2>4. changes' \in Seq(Entries)  BY <1>2, <1>5, <2>2, <2>3 DEF LogChange, RestoreNow
  <2> QED  BY <1>1, <1>3, <1>5, <2>1, <2>4 DEF HistoryPart, TypeOK, mutex, RestoreNow
<1>6. CASE RestoreLater(t, v)
  <2>1. queue' \in Seq(Tasks)  BY <1>6, AppendProperties DEF TypeOK, RestoreLater
  <2> QED  BY <1>2, <1>3, <1>6, <2>1 DEF HistoryPart, TypeOK, RestoreLater
<1> QED  BY <1>4, <1>5, <1>6 DEF RollbackTo

LEMMA EvaluationType ==
    ASSUME TypeOK, NEW r \in Requests, StartEvaluation(r) \/ EvaluationStep(r)
    PROVE  TypeOK'
<1>1. eval[r] \in Evaluations /\ chain \in Seq(Providers)  BY DEF TypeOK
<1>2. \A o \in Verdicts : Decided(o) \in Evaluations
   BY EmptySeq DEF Decided, NoEvaluation, Evaluations, Verdicts
<1>3. ASSUME NEW seen \in SUBSET Providers, TakeVerdict(r, seen)
      PROVE  eval' \in [Requests -> Evaluations] /\ running' \in {NoTask, r}
  <2>1. PICK v \in Verdicts \cup {"raise"} :
           LET stop == v = "deny" \/ (v = "raise" /\ FailClosed) IN
           /\ eval' = [eval EXCEPT ![r] =
                          IF stop THEN Decided("deny") ELSE Heard(r, v, seen)]
           /\ running' = IF stop THEN NoTask ELSE r
     BY <1>3 DEF TakeVerdict
  <2>2. PICK verdicts \in SUBSET Verdicts :
           verdicts = eval[r].verdicts \cup ({v} \ {"raise"})
     BY <1>1 DEF Evaluations
  <2>3. Heard(r, v, seen) \in Evaluations
    <3>1. PICK n \in Nat : n = eval[r].next + 1  BY <1>1 DEF Evaluations
    <3>2. PICK e \in Evaluations : e = [eval[r] EXCEPT !.seen = seen, !.next = n]
       BY <1>1 DEF Evaluations
    <3>3. [e EXCEPT !.phase = "consulting", !.verdicts = verdicts] \in Evaluations
       BY DEF Evaluations
    <3> QED  BY <2>2, <3>1, <3>2, <3>3 DEF Heard
  <2>4. Decided("deny") \in Evaluations  BY <1>2 DEF Verdicts
  <2> QED  BY <2>1, <2>3, <2>4 DEF TypeOK
<1>4. CASE StartEvaluation(r)
  <2>1. ToSet(chain) \in SUBSET Providers  BY <1>1, LenProperties DEF ToSet
  <2>2. eval' \in [Requests -> Evaluations]
     BY <1>1, <1>4, <2>1 DEF StartEvaluation, Evaluations, TypeOK
  <2> QED  BY <1>4, <2>2 DEF StartEvaluation, TypeOK, history, mutex
<1>5. CASE Consult(r)
  <2>1. PICK p \in Providers : p = ListOf(r)[eval[r].next]
     BY <1>1, <1>5, ElementOfSeq, LenProperties DEF Consult, ListOf, Evaluations
  <2>2. eval[r].seen \cup {p} \in SUBSET Providers  BY <1>1, <2>1 DEF Evaluations
  <2>3. eval' \in [Requests -> Evaluations] /\ running' \in {NoTask, r}
    <3>1. CASE p \in AsyncProviders
      <4> DEFINE asked == [eval[r] EXCEPT !.phase = "awaiting", !.seen = eval[r].seen \cup {p}]
      <4>1. asked \in Evaluations  BY <1>1, <2>2 DEF Evaluations
      <4>2. eval' = [eval EXCEPT ![r] = asked] /\ running' = NoTask
         BY <1>1, <1>5, <2>1, <3>1 DEF Consult, TypeOK, Evaluations
      <4> HIDE DEF asked
      <4> QED  BY <4>1, <4>2 DEF TypeOK
    <3>2. CASE p \notin AsyncProviders
       BY <1>3, <1>5, <2>1, <2>2, <3>2 DEF Consult
    <3> QED  BY <3>1, <3>2
  <2> QED  BY <1>5, <2>3 DEF Consult, TypeOK, history, mutex
<1>6. CASE Answer(r)
  <2>1. eval[r].seen \in SUBSET Providers  BY <1>1 DEF Evaluations
  <2>2. eval' \in [Requests -> Evaluations] /\ running' \in {NoTask, r}
     BY <1>3, <1>6, <2>1 DEF Answer
  <2> QED  BY <1>6, <2>2 DEF Answer, TypeOK, history, mutex
<1>7. CASE Decide(r)
  <2>1. Aggregate(eval[r].verdicts) \in Verdicts  BY DEF Aggregate, Verdicts
  <2>2. eval' \in [Requests -> Evaluations]
    <3>1. PICK seen, must \in SUBSET Providers :
             eval' = [eval EXCEPT ![r] = [Decided(Aggregate(eval[r].verdicts)) EXCEPT
                                             !.seen = seen, !.must = must]]
      <4>1. eval[r].seen \in SUBSET Providers /\ eval[r].must \in SUBSET Providers
         BY <1>1 DEF Evaluations
      <4> QED  BY <1>7, <4>1 DEF Decide
    <3>2. PICK e \in Evaluations : e = Decided(Aggregate(eval[r].verdicts))  BY <1>2, <2>1
    <3>3. [e EXCEPT !.seen = seen, !.must = must] \in Evaluations  BY DEF Evaluations
    <3> QED  BY <3>1, <3>2, <3>3 DEF TypeOK
  <2> QED  BY <1>7, <2>2 DEF Decide, TypeOK, history, mutex
<1> QED  BY <1>4, <1>5, <1>6, <1>7 DEF EvaluationStep

LEMMA RestartType ==
    ASSUME TypeOK, Restart
    PROVE  TypeOK'
<1>1. NoEvaluation \in Evaluations  BY EmptySeq DEF NoEvaluation, Evaluations, Verdicts
<1>2. HistoryPart /\ chain' \in Seq(Providers)
  <2>1. CASE disk.current # 0
    <3>1. disk.versions[disk.current] \in Seq(Providers)
       BY <2>1, ElementOfSeq DEF TypeOK
    <3> QED  BY <2>1, <3>1 DEF Restart, Attach, Loaded, TypeOK, HistoryPart
  <2>2. CASE disk.current = 0
    <3>1. <<InitialChain>> \in Seq(Seq(Providers)) /\ Len(<<InitialChain>>) = 1
       BY EngineSets
    <3>2. /\ chain' = InitialChain
          /\ versions' = <<InitialChain>>
          /\ current' = 1
          /\ \/ disk' = [versions |-> versions', current |-> current']
             \/ disk' = disk
       BY <2>2 DEF Restart, Attach
    <3>3. current' \in 0 .. Len(versions')  BY <3>1, <3>2
    <3>4. CASE disk' = [versions |-> versions', current |-> current']
       BY <3>1, <3>2, <3>3, <3>4, EngineSets DEF HistoryPart
    <3>5. CASE disk' = disk
       BY <3>1, <3>2, <3>3, <3>5, EngineSets DEF TypeOK, HistoryPart
    <3> QED  BY <3>2, <3>4, <3>5
  <2> QED  BY <2>1, <2>2
<1> QED  BY <1>1, <1>2, NoCallType, EmptySeq DEF Restart, TypeOK, HistoryPart

-----------------------------------------------------------------------------
(* Type correctness of the specification *)

(* The record a proposal is changed to is a proposal.                      *)
LEMMA OfferType ==
    ASSUME NEW ch \in Seq(Providers), NEW o \in Offers(ch),
           NEW origin \in Proposals \cup {Direct}
    PROVE  CallFor(o, origin) \in Calls
<1>1. DOMAIN ch \subseteq Nat  BY LenProperties
<1>2. /\ o.op \in {"add", "swap", "remove", "replace"}
      /\ o.at \in Nat
      /\ o.new \in Providers \cup {NoProvider}
      /\ o.op \in {"add", "swap"} => o.new \in Providers
      /\ o.chain \in Seq(Providers)
  <2>1. CASE o \in [op : {"add"}, at : {0}, new : Providers, chain : {<<>>}]
    <3>1. /\ o.op = "add" /\ o.at = 0 /\ o.new \in Providers
          /\ o.chain = <<>>
       BY <2>1
    <3> QED  BY <3>1, EmptySeq
  <2>2. CASE o \in [op : {"swap"}, at : DOMAIN ch, new : Providers, chain : {<<>>}]
     BY <1>1, <2>2, EmptySeq
  <2>3. CASE o \in [op : {"remove"}, at : DOMAIN ch, new : {NoProvider}, chain : {<<>>}]
     BY <1>1, <2>3, EmptySeq
  <2>4. CASE o \in [op : {"replace"}, at : {0}, new : {NoProvider}, chain : ReplacementChains]
     BY <2>4, EngineSets
  <2> QED  BY <2>1, <2>2, <2>3, <2>4 DEF Offers
<1> QED  BY <1>2 DEF CallFor, Calls, Ops

LEMMA ProposalStepType ==
    ASSUME GovTypeOK, NEW p \in Proposals,
           Propose(p) \/ Validate(p) \/ Approve(p) \/ Reject(p) \/ Withdraw(p)
    PROVE  GovTypeOK'
<1>1. prop[p] \in ProposalRecords /\ chain \in Seq(Providers) /\ current \in Nat
   BY LenProperties DEF GovTypeOK, TypeOK
<1>2. TypeOK'
   BY DEF GovTypeOK, Propose, Validate, Approve, Reject, Withdraw, TypeOK, engineVars,
          history, mutex
<1>3. ASSUME NEW status \in Statuses \cap Events, Mark(p, status)
      PROVE  prop' \in [Proposals -> ProposalRecords]
   BY <1>1, <1>3 DEF Mark, GovTypeOK, ProposalRecords
<1>4. CASE Propose(p)
  <2>1. PICK o \in Offers(chain) : prop' = [prop EXCEPT ![p] =
              [NoProposal EXCEPT !.status = "draft", !.want = CallFor(o, p),
                                 !.base = current, !.held = TRUE]]
     BY <1>4 DEF Propose
  <2>2. PICK c \in Calls : c = CallFor(o, p)  BY <1>1, OfferType
  <2>3. [NoProposal EXCEPT !.status = "draft", !.want = c, !.base = current, !.held = TRUE]
            \in ProposalRecords
     BY <1>1, EmptySeq DEF NoProposal, ProposalRecords, Statuses, Events
  <2>4. prop' \in [Proposals -> ProposalRecords]  BY <2>1, <2>2, <2>3 DEF GovTypeOK
  <2> QED  BY <1>2, <2>4 DEF GovTypeOK
<1>5. CASE Validate(p)
  <2>1. prop[p].want \in Calls /\ Applicable(prop[p].want, chain)
     BY <1>1, <1>5 DEF Validate, HasHypothetical, ProposalRecords
  <2>2. PICK c \in Calls : c = prop[p].want  BY <2>1
  <2>3. PICK ch \in Seq(Providers) : ch = Entered(c, chain)
     BY <1>1, <2>1, <2>2, EnteredType
  <2>4. Hypothetical(p) \in Seq(Providers)
     BY <2>2, <2>3, SettledType DEF Hypothetical, Changed
  <2> DEFINE valid == ~Contradictory(Hypothetical(p))
             s == IF valid THEN "validated" ELSE "validation_failed"
             tr == prop[p].trail \cup (IF valid THEN {"validated"} ELSE {})
  <2>5. prop' = [prop EXCEPT ![p].status = s, ![p].trail = tr,
                             ![p].reviewed = Hypothetical(p)]
     BY <1>5 DEF Validate
  <2>6. s \in Statuses /\ tr \in SUBSET Events
     BY <1>1 DEF Statuses, Events, ProposalRecords
  <2>7. prop' \in [Proposals -> ProposalRecords]
    <3> HIDE DEF s, tr
    <3> QED  BY <1>1, <2>4, <2>5, <2>6 DEF GovTypeOK, ProposalRecords
  <2> QED  BY <1>2, <2>7 DEF GovTypeOK
<1>6. CASE Approve(p)
   BY <1>2, <1>3, <1>6 DEF Approve, GovTypeOK, Statuses, Events
<1>7. CASE Reject(p)
   BY <1>2, <1>3, <1>7 DEF Reject, GovTypeOK, Statuses, Events
<1>8. CASE Withdraw(p)
   BY <1>2, <1>3, <1>8 DEF Withdraw, GovTypeOK, Statuses, Events
<1> QED  BY <1>4, <1>5, <1>6, <1>7, <1>8

(* A report and a mark leave a proposal a proposal.                        *)
LEMMA ReportedType ==
    ASSUME GovTypeOK, NEW p, Reported(p)
    PROVE  prop' \in [Proposals -> ProposalRecords]
<1>1. CASE p \in Proposals
  <2>1. prop[p] \in ProposalRecords  BY <1>1 DEF GovTypeOK
  <2> QED  BY <2>1 DEF Reported, GovTypeOK, ProposalRecords, Statuses, Events
<1>2. CASE p \notin Proposals  BY <1>2 DEF Reported, GovTypeOK
<1> QED  BY <1>1, <1>2

LEMMA MarkType ==
    ASSUME GovTypeOK, NEW p, NEW status \in Statuses \cap Events, Mark(p, status)
    PROVE  prop' \in [Proposals -> ProposalRecords]
<1>1. CASE p \in Proposals
  <2>1. prop[p] \in ProposalRecords  BY <1>1 DEF GovTypeOK
  <2> QED  BY <2>1 DEF Mark, GovTypeOK, ProposalRecords
<1>2. CASE p \notin Proposals  BY <1>2 DEF Mark, GovTypeOK
<1> QED  BY <1>1, <1>2

(* A simulation starts.                                                    *)
LEMMA SimulateType ==
    ASSUME GovTypeOK, NEW p \in Proposals, NEW t \in Tasks, Simulate(p, t)
    PROVE  GovTypeOK'
<1>1. CASE Reported(p) /\ UNCHANGED engineVars
   BY <1>1, ReportedType DEF GovTypeOK, TypeOK, engineVars, history, mutex
<1>2. CASE /\ pc' = [pc EXCEPT ![t] = "simulating"]
           /\ call' = [call EXCEPT ![t] = [NoCall EXCEPT !.op = "simulate", !.by = p]]
           /\ UNCHANGED <<chain, history, mutex, running, changes, eval, prop>>
  <2>1. [NoCall EXCEPT !.op = "simulate", !.by = p] \in Calls
     BY EmptySeq DEF NoCall, Calls, Ops
  <2> QED  BY <1>2, <2>1 DEF GovTypeOK, TypeOK, history, mutex
<1> QED  BY <1>1, <1>2 DEF Simulate

(* The steps of the coroutines on behalf of the governor.                  *)
LEMMA GovernorStepType ==
    ASSUME GovTypeOK, NEW t \in Tasks,
           Step(t) \/ \E p \in Proposals : Deploy(p, t)
    PROVE  GovTypeOK'
<1>1. CASE TaskStep(t) /\ UNCHANGED prop
   BY <1>1, TaskStepType DEF GovTypeOK
<1>2. CASE SimulationEnds(t)
  <2>1. prop' \in [Proposals -> ProposalRecords]
     BY <1>2, ReportedType DEF SimulationEnds
  <2> QED  BY <1>2, <2>1, NoCallType
           DEF SimulationEnds, GovTypeOK, TypeOK, history, mutex
<1>3. CASE DeployReturns(t)
  <2>1. ASSUME Succeeded(t)  PROVE prop' \in [Proposals -> ProposalRecords]
    <3>1. PICK s \in Statuses \cap Events : s = "deployed"  BY DEF Statuses, Events
    <3>2. PICK p \in Proposals \cup {Direct} : p = call[t].by
       BY DEF GovTypeOK, TypeOK, Calls
    <3>3. Mark(p, s)  BY <1>3, <2>1, <3>1, <3>2 DEF DeployReturns
    <3> QED  BY <3>3, MarkType
  <2>2. prop' \in [Proposals -> ProposalRecords]
     BY <1>3, <2>1 DEF DeployReturns, GovTypeOK
  <2> QED  BY <1>3, <2>2, NoCallType
           DEF DeployReturns, GovTypeOK, TypeOK, history, mutex
<1>4. ASSUME NEW p \in Proposals, Deploy(p, t)  PROVE GovTypeOK'
  <2>1. PICK c \in Calls : c = prop[p].want  BY DEF GovTypeOK, ProposalRecords
  <2> QED  BY <1>4, <2>1, EnterType DEF Deploy, GovTypeOK
<1> QED  BY <1>1, <1>2, <1>3, <1>4 DEF Step

(* A call to the engine that no proposal stands behind.                    *)
LEMMA DirectType ==
    ASSUME TypeOK, NEW t \in Tasks, DirectCall(t) \/ Rollback(t)
    PROVE  TypeOK'
<1>1. CASE DirectCall(t)
  <2>1. PICK o \in Offers(chain) : Enter(t, CallFor(o, Direct))
     BY <1>1 DEF DirectCall
  <2>2. PICK c \in Calls : c = CallFor(o, Direct)  BY OfferType DEF TypeOK
  <2> QED  BY <2>1, <2>2, EnterType
<1>2. CASE Rollback(t)  BY <1>2, RollbackType DEF Rollback
<1> QED  BY <1>1, <1>2

(* The engine starts in a state of its type.                               *)
LEMMA InitType == EngineInit => TypeOK
<1> SUFFICES ASSUME EngineInit PROVE TypeOK  OBVIOUS
<1>1. NoEvaluation \in Evaluations  BY EmptySeq DEF NoEvaluation, Evaluations, Verdicts
<1>2. <<InitialChain>> \in Seq(Seq(Providers)) /\ Len(<<InitialChain>>) = 1
   BY EngineSets
<1>3. <<>> \in Seq(Seq(Providers)) /\ Len(<<>>) = 0  BY EmptySeq
<1>4. /\ disk \in [versions : Seq(Seq(Providers)), current : Nat]
      /\ disk.current \in 0 .. Len(disk.versions)
  <2>1. CASE disk = [versions |-> <<InitialChain>>, current |-> 1]
    <3>1. PICK vs \in Seq(Seq(Providers)) : vs = <<InitialChain>> /\ Len(vs) = 1  BY <1>2
    <3>2. disk = [versions |-> vs, current |-> 1]  BY <2>1, <3>1
    <3> QED  BY <3>1, <3>2
  <2>2. CASE disk = [versions |-> <<>>, current |-> 0]
    <3>1. PICK vs \in Seq(Seq(Providers)) : vs = <<>> /\ Len(vs) = 0  BY <1>3
    <3>2. disk = [versions |-> vs, current |-> 0]  BY <2>2, <3>1
    <3> QED  BY <3>1, <3>2
  <2> QED  BY <2>1, <2>2 DEF EngineInit
<1>5. changes \in Seq([by : Proposals \cup {Direct}, after : Seq(Providers)])
   BY EmptySeq DEF EngineInit
<1> QED  BY <1>1, <1>2, <1>4, <1>5, NoCallType, EmptySeq, EngineSets DEF EngineInit, TypeOK

LEMMA EngineTypeStep ==
    ASSUME TypeOK, [EngineNext]_engineVars
    PROVE  TypeOK'
<1>1. CASE UNCHANGED engineVars  BY <1>1 DEF TypeOK, engineVars, history, mutex
<1>2. CASE EngineNext
  BY <1>2, DirectType, TaskStepType, EvaluationType, RestartType DEF EngineNext
<1> QED  BY <1>1, <1>2

(* TypeOK is an invariant of the engine, whoever calls it.                 *)
THEOREM EngineTypeCorrect == EngineSpec => []TypeOK
<1>1. TypeOK /\ [EngineNext]_engineVars => TypeOK'  BY EngineTypeStep
<1> QED  BY <1>1, InitType, PTL DEF EngineSpec

(* The governor and the engine it drives keep every variable in its type.  *)
LEMMA GovTypeStep ==
    ASSUME GovTypeOK, [Next]_govVars
    PROVE  GovTypeOK'
<1>1. CASE UNCHANGED govVars
   BY <1>1 DEF govVars, GovTypeOK, TypeOK, engineVars, history, mutex
<1>2. ASSUME NEW t \in Tasks, (DirectCall(t) \/ Rollback(t)) /\ UNCHANGED prop
      PROVE  GovTypeOK'
   BY <1>2, DirectType DEF GovTypeOK
<1>3. CASE RestartAll
  <2>1. prop' \in [Proposals -> ProposalRecords]
     BY <1>3 DEF RestartAll, GovTypeOK, ProposalRecords
  <2> QED  BY <1>3, <2>1, RestartType DEF RestartAll, GovTypeOK
<1> QED  BY <1>1, <1>2, <1>3, ProposalStepType, SimulateType, GovernorStepType DEF Next

THEOREM GovTypeCorrect == Spec => []GovTypeOK
<1>1. Init => GovTypeOK
  <2>1. NoProposal \in ProposalRecords
     BY NoCallType, EmptySeq DEF NoProposal, ProposalRecords, Statuses
  <2> QED  BY <2>1, InitType DEF Init, GovTypeOK
<1> QED  BY <1>1, GovTypeStep, PTL DEF Spec

-----------------------------------------------------------------------------
(* Only reviewed proposals reach the chain *)

(* What a proposal's status and report say of its trail.                   *)
TrailKept(p) ==
    /\ prop[p].status \in {"validated", "simulated", "approved"} =>
          "validated" \in prop[p].trail
    /\ prop[p].report => "simulated" \in prop[p].trail
    /\ prop[p].status = "approved" =>
          /\ "approved" \in prop[p].trail
          /\ RequireSimulation => "simulated" \in prop[p].trail
    /\ prop[p].status = "none" => ~Made(p)
    /\ prop[p].status # "none" => prop[p].want.by = p

(* A coroutine at work for a proposal works for one that was entitled to   *)
(* it; one that simulates it works for one that was validated.             *)
InCharge(t) ==
    /\ pc[t] \notin {"idle", "simulating"} /\ call[t].by # Direct =>
          prop[call[t].by].status # "none" /\ Entitled(call[t].by)
    /\ pc[t] = "simulating" =>
          /\ call[t].by \in Proposals
          /\ prop[call[t].by].status # "none"
          /\ "validated" \in prop[call[t].by].trail

ReviewInv ==
    /\ GovTypeOK
    /\ OnlyReviewed
    /\ \A p \in Proposals : TrailKept(p)
    /\ \A t \in Tasks : InCharge(t)

(* What the engine does for t is done, and logged, on behalf of who.      *)
Attributed(t, who) ==
    /\ changes' = changes \/ changes' = Append(changes, [by |-> who, after |-> chain'])
    /\ \A u \in Tasks \ {t} : pc'[u] = pc[u] /\ call'[u] = call[u]
    /\ \/ pc'[t] = "idle"
       \/ pc'[t] # "simulating" /\ call'[t].by = who

LEMMA ReturnAttributed ==
    ASSUME TypeOK, NEW t \in Tasks, NEW c \in Calls, NEW how \in {"done", "failed"},
           Return(t, c, how), LogChange(c) \/ UNCHANGED changes
    PROVE  Attributed(t, c.by)
  BY DEF Return, LogChange, Attributed, TypeOK

LEMMA BodyAttributed ==
    ASSUME TypeOK, NEW t \in Tasks, NEW c \in Calls, Body(t, c)
    PROVE  Attributed(t, c.by)
<1>1. CASE Return(t, c, "failed") /\ UNCHANGED changes
   BY <1>1, ReturnAttributed
<1>2. CASE Commit(t, c, Entered(c, chain))
   BY <1>2, ReturnAttributed DEF Commit
<1>3. CASE /\ pc' = [pc EXCEPT ![t] = "resolving"]
           /\ call' = [call EXCEPT ![t] =
                        IF c.op = "remove" THEN [c EXCEPT !.new = chain[c.at]] ELSE c]
           /\ UNCHANGED changes
  <2>1. call'[t].by = c.by  BY <1>3 DEF TypeOK, Calls
  <2> QED  BY <1>3, <2>1 DEF Attributed, TypeOK
<1> QED  BY <1>1, <1>2, <1>3 DEF Body

LEMMA EnterAttributed ==
    ASSUME TypeOK, NEW t \in Tasks, NEW c \in Calls, Enter(t, c)
    PROVE  Attributed(t, c.by)
  BY BodyAttributed DEF Enter, Attributed, TypeOK

LEMMA TaskStepAttributed ==
    ASSUME TypeOK, NEW t \in Tasks, TaskStep(t)
    PROVE  Attributed(t, call[t].by) /\ pc[t] \in {"queued", "resolving"}
<1>1. PICK c \in Calls : c = call[t]  BY DEF TypeOK
<1>2. CASE Wake(t)  BY <1>1, <1>2, BodyAttributed DEF Wake
<1>3. CASE Resolve(t)  BY <1>1, <1>3, ReturnAttributed DEF Resolve, Commit
<1>4. CASE ResolveFails(t)  BY <1>1, <1>4, ReturnAttributed DEF ResolveFails
<1> QED  BY <1>2, <1>3, <1>4 DEF TaskStep

LEMMA DirectAttributed ==
    ASSUME TypeOK, NEW t \in Tasks, DirectCall(t) \/ Rollback(t)
    PROVE  Attributed(t, Direct)
<1>1. CASE DirectCall(t)
  <2>1. PICK o \in Offers(chain) : Enter(t, CallFor(o, Direct))
     BY <1>1 DEF DirectCall
  <2>2. PICK c \in Calls : c = CallFor(o, Direct)  BY OfferType DEF TypeOK
  <2>3. c.by = Direct  BY <2>2 DEF CallFor
  <2> QED  BY <2>1, <2>2, <2>3, EnterAttributed
<1>2. CASE Rollback(t)
  <2>1. PICK v \in DOMAIN versions : RollbackTo(t, v)  BY <1>2 DEF Rollback
  <2>2. Restoring(v).by = Direct  BY DEF Restoring, NoCall
  <2>3. pc[t] = "idle"  BY <1>2 DEF Rollback, Free
  <2>4. CASE RollbackFails(v)  BY <2>3, <2>4 DEF RollbackFails, Attributed
  <2>5. CASE RestoreNow(v)
     BY <2>2, <2>3, <2>5 DEF RestoreNow, LogChange, Attributed
  <2>6. CASE RestoreLater(t, v)
     BY <2>2, <2>6 DEF RestoreLater, Attributed, TypeOK
  <2> QED  BY <2>1, <2>4, <2>5, <2>6 DEF RollbackTo
<1> QED  BY <1>1, <1>2

(* A step of the engine on behalf of somebody entitled to it.              *)
LEMMA AttributedStep ==
    ASSUME ReviewInv, GovTypeOK', NEW t \in Tasks, NEW who \in Proposals \cup {Direct},
           Attributed(t, who), UNCHANGED prop,
           who # Direct => prop[who].status # "none" /\ Entitled(who)
    PROVE  ReviewInv'
<1>1. \A p \in Proposals : Made(p)' => Made(p) \/ p = who
  <2> SUFFICES ASSUME NEW p \in Proposals, Made(p)', p # who PROVE Made(p)  OBVIOUS
  <2>1. PICK i \in DOMAIN changes' : changes'[i].by = p  BY DEF Made
  <2>2. CASE changes' = changes  BY <2>1, <2>2 DEF Made
  <2>3. CASE changes' = Append(changes, [by |-> who, after |-> chain'])
    <3> DEFINE Entries == [by : Proposals \cup {Direct}, after : Seq(Providers)]
    <3>1. chain' \in Seq(Providers) /\ changes \in Seq(Entries)
       BY DEF ReviewInv, GovTypeOK, TypeOK
    <3>2. PICK e \in Entries : e = [by |-> who, after |-> chain']  BY <3>1
    <3>3. changes' = Append(changes, e)  BY <2>3, <3>2
    <3>4. Len(changes) \in Nat /\ DOMAIN changes = 1 .. Len(changes)
       BY <3>1, LenProperties
    <3>5. changes' \in Seq(Entries) /\ Len(changes') = Len(changes) + 1
       BY <3>1, <3>3, AppendProperties
    <3>6. DOMAIN changes' = 1 .. (Len(changes) + 1)  BY <3>5, LenProperties
    <3>7. i \in 1 .. Len(changes) => changes'[i] = changes[i]
       BY <3>1, <3>3, AppendProperties
    <3>8. changes'[Len(changes) + 1] = e  BY <3>1, <3>3, AppendProperties
    <3>9. e.by = who  BY <3>2
    <3> QED  BY <2>1, <3>4, <3>6, <3>7, <3>8, <3>9 DEF Made
  <2> QED  BY <2>2, <2>3 DEF Attributed
<1>2. OnlyReviewed'
   BY <1>1, EngineSets DEF OnlyReviewed, ReviewInv, Entitled
<1>3. \A p \in Proposals : TrailKept(p)'
   BY <1>1, EngineSets DEF TrailKept, ReviewInv
<1>4. \A u \in Tasks : InCharge(u)'
  <2> SUFFICES ASSUME NEW u \in Tasks PROVE InCharge(u)'  OBVIOUS
  <2>1. CASE u = t  BY <2>1 DEF InCharge, Attributed, Entitled
  <2>2. CASE u # t  BY <2>2 DEF InCharge, Attributed, Entitled, ReviewInv
  <2> QED  BY <2>1, <2>2
<1> QED  BY <1>2, <1>3, <1>4 DEF ReviewInv

(* A step of a proposal's lifecycle, which leaves the engine's changes be. *)
Advances(p) ==
    /\ \A q \in Proposals \ {p} : prop'[q] = prop[q]
    /\ prop[p].status # "none" => prop[p].trail \subseteq prop'[p].trail
    /\ prop'[p].status # "none"
    /\ TrailKept(p)'

LEMMA ProposalAdvances ==
    ASSUME ReviewInv, GovTypeOK', NEW p \in Proposals, Advances(p), UNCHANGED changes,
           \A t \in Tasks : pc'[t] = "idle" \/ (pc'[t] = pc[t] /\ call'[t] = call[t])
    PROVE  ReviewInv'
<1>1. \A q \in Proposals : Made(q)' <=> Made(q)  BY DEF Made
<1>2. prop[p].status = "none" => ~Made(p)  BY DEF ReviewInv, TrailKept
<1>3. OnlyReviewed'
   BY <1>1, <1>2 DEF OnlyReviewed, ReviewInv, Entitled, Advances
<1>4. \A q \in Proposals : TrailKept(q)'
   BY <1>1 DEF TrailKept, ReviewInv, Advances
<1>5. \A t \in Tasks : InCharge(t)'
  <2> SUFFICES ASSUME NEW t \in Tasks, pc'[t] # "idle" PROVE InCharge(t)'
      BY DEF InCharge
  <2>1. pc'[t] = pc[t] /\ call'[t] = call[t] /\ InCharge(t)  BY DEF ReviewInv
  <2>2. call[t].by \in Proposals \cup {Direct}
     BY DEF ReviewInv, GovTypeOK, TypeOK, Calls
  <2>3. CASE call[t].by = p  BY <2>1, <2>3 DEF InCharge, Entitled, Advances
  <2>4. CASE call[t].by # p  BY <2>1, <2>2, <2>4 DEF InCharge, Entitled, Advances
  <2> QED  BY <2>3, <2>4
<1> QED  BY <1>3, <1>4, <1>5 DEF ReviewInv

LEMMA MarkAdvances ==
    ASSUME ReviewInv, NEW p \in Proposals, NEW status \in {"approved", "deployed", "rejected", "withdrawn"},
           prop[p].status # "none", Mark(p, status),
           status = "approved" =>
              /\ prop[p].status \in {"validated", "simulated"}
              /\ RequireSimulation => prop[p].report
    PROVE  Advances(p)
<1>1. prop[p] \in ProposalRecords /\ TrailKept(p)  BY DEF ReviewInv, GovTypeOK
<1>2. /\ prop'[p].status = status
      /\ prop'[p].trail = prop[p].trail \cup {status}
      /\ prop'[p].report = prop[p].report
      /\ prop'[p].want = prop[p].want
      /\ \A q \in Proposals \ {p} : prop'[q] = prop[q]
   BY <1>1 DEF Mark, ReviewInv, GovTypeOK, ProposalRecords
<1>3. TrailKept(p)'  BY <1>1, <1>2 DEF TrailKept
<1> QED  BY <1>2, <1>3 DEF Advances

LEMMA ReportAdvances ==
    ASSUME ReviewInv, NEW p \in Proposals, prop[p].status # "none",
           "validated" \in prop[p].trail, Reported(p)
    PROVE  Advances(p)
<1>1. prop[p] \in ProposalRecords /\ TrailKept(p)  BY DEF ReviewInv, GovTypeOK
<1>2. /\ prop'[p].status = "simulated"
      /\ prop'[p].trail = prop[p].trail \cup {"simulated"}
      /\ prop'[p].want = prop[p].want
      /\ \A q \in Proposals \ {p} : prop'[q] = prop[q]
   BY <1>1 DEF Reported, ReviewInv, GovTypeOK, ProposalRecords
<1>3. TrailKept(p)'  BY <1>1, <1>2 DEF TrailKept
<1> QED  BY <1>2, <1>3 DEF Advances

LEMMA ProposalStepReviewed ==
    ASSUME ReviewInv, GovTypeOK', NEW p \in Proposals,
           Propose(p) \/ Validate(p) \/ Approve(p) \/ Reject(p) \/ Withdraw(p)
    PROVE  ReviewInv'
<1>1. prop[p] \in ProposalRecords /\ TrailKept(p)  BY DEF ReviewInv, GovTypeOK
<1>2. UNCHANGED engineVars
   BY DEF Propose, Validate, Approve, Reject, Withdraw
<1>3. UNCHANGED changes /\ UNCHANGED pc /\ UNCHANGED call  BY <1>2 DEF engineVars
<1>4. CASE Propose(p)
  <2>1. PICK o : prop' = [prop EXCEPT ![p] =
              [NoProposal EXCEPT !.status = "draft", !.want = CallFor(o, p),
                                 !.base = current, !.held = TRUE]]
     BY <1>4 DEF Propose
  <2>2. /\ prop'[p].status = "draft" /\ ~prop'[p].report /\ prop'[p].want.by = p
        /\ \A q \in Proposals \ {p} : prop'[q] = prop[q]
     BY <2>1 DEF ReviewInv, GovTypeOK, NoProposal, CallFor
  <2>3. prop[p].status = "none"  BY <1>4 DEF Propose
  <2>4. Advances(p)  BY <2>2, <2>3 DEF Advances, TrailKept
  <2> QED  BY <1>3, <2>4, ProposalAdvances
<1>5. CASE Validate(p)
  <2> DEFINE valid == ~Contradictory(Hypothetical(p))
  <2>1. /\ prop'[p].status = IF valid THEN "validated" ELSE "validation_failed"
        /\ prop'[p].trail = prop[p].trail \cup (IF valid THEN {"validated"} ELSE {})
        /\ prop'[p].report = prop[p].report /\ prop'[p].want = prop[p].want
        /\ \A q \in Proposals \ {p} : prop'[q] = prop[q]
    <3> HIDE DEF valid
    <3> QED  BY <1>1, <1>5 DEF Validate, valid, ReviewInv, GovTypeOK, ProposalRecords
  <2>2. prop[p].status # "none"  BY <1>5 DEF Validate
  <2>3. TrailKept(p)'
    <3> HIDE DEF valid
    <3> QED  BY <1>1, <2>1, <2>2 DEF TrailKept
  <2>4. Advances(p)
    <3> HIDE DEF valid
    <3> QED  BY <2>1, <2>2, <2>3 DEF Advances
  <2> QED  BY <1>3, <2>4, ProposalAdvances
<1>6. CASE Approve(p)
  <2>1. Advances(p)  BY <1>6, MarkAdvances DEF Approve
  <2> QED  BY <1>3, <2>1, ProposalAdvances
<1>7. CASE Reject(p)
  <2>1. Advances(p)  BY <1>7, MarkAdvances DEF Reject
  <2> QED  BY <1>3, <2>1, ProposalAdvances
<1>8. CASE Withdraw(p)
  <2>1. Advances(p)  BY <1>8, MarkAdvances DEF Withdraw
  <2> QED  BY <1>3, <2>1, ProposalAdvances
<1> QED  BY <1>4, <1>5, <1>6, <1>7, <1>8

LEMMA SimulateReviewed ==
    ASSUME ReviewInv, GovTypeOK', NEW p \in Proposals, NEW t \in Tasks, Simulate(p, t)
    PROVE  ReviewInv'
<1>1. prop[p].status # "none" /\ "validated" \in prop[p].trail
   BY DEF Simulate, Simulatable, ReviewInv, TrailKept
<1>2. CASE Reported(p) /\ UNCHANGED engineVars
  <2>1. UNCHANGED changes /\ UNCHANGED pc /\ UNCHANGED call  BY <1>2 DEF engineVars
  <2>2. Advances(p)  BY <1>1, <1>2, ReportAdvances
  <2> QED  BY <2>1, <2>2, ProposalAdvances
<1>3. CASE /\ pc' = [pc EXCEPT ![t] = "simulating"]
           /\ call' = [call EXCEPT ![t] = [NoCall EXCEPT !.op = "simulate", !.by = p]]
           /\ UNCHANGED <<changes, prop>>
  <2>1. /\ pc'[t] = "simulating" /\ call'[t].by = p
        /\ \A u \in Tasks \ {t} : pc'[u] = pc[u] /\ call'[u] = call[u]
     BY <1>3 DEF ReviewInv, GovTypeOK, TypeOK, NoCall
  <2>2. \A u \in Tasks : InCharge(u)'
    <3> SUFFICES ASSUME NEW u \in Tasks PROVE InCharge(u)'  OBVIOUS
    <3>1. CASE u = t  BY <1>1, <1>3, <2>1, <3>1 DEF InCharge
    <3>2. CASE u # t  BY <1>3, <2>1, <3>2 DEF InCharge, Entitled, ReviewInv
    <3> QED  BY <3>1, <3>2
  <2>3. OnlyReviewed'  BY <1>3 DEF ReviewInv, OnlyReviewed, Made, Entitled
  <2>4. \A q \in Proposals : TrailKept(q)'  BY <1>3 DEF ReviewInv, TrailKept, Made
  <2> QED  BY <2>2, <2>3, <2>4 DEF ReviewInv
<1> QED  BY <1>2, <1>3 DEF Simulate

(* Deployment starts, and ends, for a proposal entitled to it.             *)
LEMMA GovernorStepReviewed ==
    ASSUME ReviewInv, GovTypeOK', NEW t \in Tasks,
           Step(t) \/ \E p \in Proposals : Deploy(p, t)
    PROVE  ReviewInv'
<1>1. InCharge(t) /\ TypeOK  BY DEF ReviewInv, GovTypeOK
<1>2. PICK who \in Proposals \cup {Direct} : who = call[t].by  BY <1>1 DEF TypeOK, Calls
<1>3. CASE TaskStep(t) /\ UNCHANGED prop
  <2>1. Attributed(t, who) /\ pc[t] \in {"queued", "resolving"}
     BY <1>1, <1>2, <1>3, TaskStepAttributed
  <2>2. who # Direct => prop[who].status # "none" /\ Entitled(who)
     BY <1>1, <1>2, <2>1 DEF InCharge
  <2> QED  BY <1>3, <2>1, <2>2, AttributedStep
<1>4. CASE SimulationEnds(t)
  <2>1. /\ who \in Proposals /\ prop[who].status # "none"
        /\ "validated" \in prop[who].trail /\ Reported(who)
     BY <1>1, <1>2, <1>4 DEF SimulationEnds, InCharge
  <2>2. Advances(who)  BY <2>1, ReportAdvances
  <2>3. UNCHANGED changes /\ \A u \in Tasks : pc'[u] = "idle"
                                    \/ (pc'[u] = pc[u] /\ call'[u] = call[u])
     BY <1>1, <1>4 DEF SimulationEnds, TypeOK
  <2> QED  BY <2>1, <2>2, <2>3, ProposalAdvances
<1>5. CASE DeployReturns(t)
  <2>1. /\ UNCHANGED changes
        /\ \A u \in Tasks : pc'[u] = "idle" \/ (pc'[u] = pc[u] /\ call'[u] = call[u])
     BY <1>1, <1>5 DEF DeployReturns, TypeOK
  <2>2. CASE Succeeded(t) /\ who # Direct
    <3>1. Mark(who, "deployed") /\ prop[who].status # "none" /\ who \in Proposals
       BY <1>1, <1>2, <1>5, <2>2 DEF DeployReturns, Succeeded, InCharge
    <3>2. Advances(who)  BY <3>1, MarkAdvances
    <3> QED  BY <2>1, <3>1, <3>2, ProposalAdvances
  <2>3. CASE UNCHANGED prop
    <3>1. \A u \in Tasks : InCharge(u)'
       BY <2>1, <2>3 DEF ReviewInv, InCharge, Entitled
    <3>2. OnlyReviewed'  BY <2>1, <2>3 DEF ReviewInv, OnlyReviewed, Made, Entitled
    <3>3. \A q \in Proposals : TrailKept(q)'  BY <2>1, <2>3 DEF ReviewInv, TrailKept, Made
    <3> QED  BY <3>1, <3>2, <3>3 DEF ReviewInv
  <2>4. Succeeded(t) /\ who = Direct => UNCHANGED prop
     BY <1>2, <1>5, EngineSets DEF DeployReturns, Mark, ReviewInv, GovTypeOK
  <2> QED  BY <1>5, <2>2, <2>3, <2>4 DEF DeployReturns
<1>6. ASSUME NEW p \in Proposals, Deploy(p, t)  PROVE ReviewInv'
  <2>1. prop[p] \in ProposalRecords /\ TrailKept(p)  BY DEF ReviewInv, GovTypeOK
  <2>2. PICK c \in Calls : c = prop[p].want  BY <2>1 DEF ProposalRecords
  <2>3. prop[p].status # "none" /\ Entitled(p)
     BY <1>6, <2>1 DEF Deploy, CanDeploy, Grants, TrailKept, Entitled
  <2>4. c.by = p  BY <2>1, <2>2, <2>3 DEF TrailKept
  <2>5. Attributed(t, p)  BY <1>1, <1>6, <2>2, <2>4, EnterAttributed DEF Deploy
  <2> QED  BY <1>6, <2>3, <2>5, AttributedStep DEF Deploy
<1> QED  BY <1>3, <1>4, <1>5, <1>6 DEF Step

LEMMA ReviewInitially == Init => ReviewInv
<1> SUFFICES ASSUME Init PROVE ReviewInv  OBVIOUS
<1>1. GovTypeOK
  <2>1. NoProposal \in ProposalRecords
     BY NoCallType, EmptySeq DEF NoProposal, ProposalRecords, Statuses
  <2> QED  BY <2>1, InitType DEF Init, GovTypeOK
<1>2. \A p \in Proposals : ~Made(p)  BY DEF Init, EngineInit, Made
<1>3. \A p \in Proposals : TrailKept(p)
   BY <1>2 DEF Init, TrailKept, NoProposal
<1>4. \A t \in Tasks : InCharge(t)  BY DEF Init, EngineInit, InCharge
<1> QED  BY <1>1, <1>2, <1>3, <1>4 DEF ReviewInv, OnlyReviewed

LEMMA ReviewStep ==
    ASSUME ReviewInv, [Next]_govVars
    PROVE  ReviewInv'
<1>1. GovTypeOK'  BY GovTypeStep DEF ReviewInv
<1>2. CASE UNCHANGED govVars
  <2>1. UNCHANGED changes /\ UNCHANGED pc /\ UNCHANGED call /\ UNCHANGED prop
     BY <1>2 DEF govVars, engineVars
  <2> QED  BY <1>1, <2>1
           DEF ReviewInv, OnlyReviewed, TrailKept, InCharge, Made, Entitled
<1>3. ASSUME NEW t \in Tasks, (DirectCall(t) \/ Rollback(t)) /\ UNCHANGED prop
      PROVE  ReviewInv'
  <2>1. Attributed(t, Direct)
     BY <1>3, DirectAttributed DEF ReviewInv, GovTypeOK
  <2>2. PICK who \in Proposals \cup {Direct} : who = Direct  OBVIOUS
  <2> QED  BY <1>1, <1>3, <2>1, <2>2, AttributedStep
<1>4. CASE RestartAll
  <2>1. /\ UNCHANGED changes
        /\ \A t \in Tasks : pc'[t] = "idle"
     BY <1>4 DEF RestartAll, Restart
  <2>2. \A p \in Proposals :
           /\ prop'[p].status = prop[p].status /\ prop'[p].trail = prop[p].trail
           /\ prop'[p].want = prop[p].want /\ prop'[p].report = FALSE
     BY <1>4 DEF RestartAll, ReviewInv, GovTypeOK, ProposalRecords
  <2>3. \A t \in Tasks : InCharge(t)'  BY <2>1 DEF InCharge
  <2>4. OnlyReviewed'
     BY <2>1, <2>2 DEF ReviewInv, OnlyReviewed, Made, Entitled
  <2>5. \A p \in Proposals : TrailKept(p)'
     BY <2>1, <2>2 DEF ReviewInv, TrailKept, Made
  <2> QED  BY <1>1, <2>3, <2>4, <2>5 DEF ReviewInv
<1> QED
   BY <1>1, <1>2, <1>3, <1>4, ProposalStepReviewed, SimulateReviewed,
      GovernorStepReviewed DEF Next

(* No change reaches the chain for a proposal that was not validated and   *)
(* approved, and simulated where that is required: PolicyGovernor's gate   *)
(* holds for any number of proposals, coroutines, rollbacks, restarts and  *)
(* lost saves, and for every setting of the governor's flags.              *)
THEOREM Reviewed == Spec => []OnlyReviewed
<1>1. ReviewInv /\ [Next]_govVars => ReviewInv'  BY ReviewStep
<1>2. ReviewInv => OnlyReviewed  BY DEF ReviewInv
<1> QED  BY <1>1, <1>2, ReviewInitially, PTL DEF Spec
=============================================================================
