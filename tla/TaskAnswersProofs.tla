-------------------------- MODULE TaskAnswersProofs --------------------------
(***************************************************************************)
(* Theorems about TaskLegs, for every value of its constants: the answers  *)
(* of a leg reach the next one, and an acknowledged one is not asked for   *)
(* again.                                                                  *)
(***************************************************************************)
EXTENDS TaskPointerProofs

-----------------------------------------------------------------------------
(* Parked legs                                                             *)

(* An update that goes on past its match answers requests of its leg.      *)
Hitting == {"answers", "rest", "enqueue"}
Hits(r) ==
    r.pc \in Hitting =>
        r.match # {} /\ r.match \subseteq r.keys /\ \A k \in r.match : k.leg = r.leg
HitsInv == \A c \in Updates : Hits(call[c])

(* What was shown belongs to a leg that is parked, and so do the legs      *)
(* before one that was enqueued.                                           *)
LegsParked ==
    /\ \A k \in shown : exec[k.leg] = "parked"
    /\ \A m, n \in Legs : m < n /\ exec[n] # "none" => exec[m] = "parked"

ParkedInv == {"torn", "early"} \cap slips # {} \/ LegsParked

(* A step is one call's, or none's.                                        *)
GetsOn(c) == Poll(c) \/ GetSteps(c)
UpdatesOn(c) ==
    \/ \E ks \in SUBSET shown : Send(c, ks)
    \/ Acquire(c) \/ UpdateSteps(c) \/ EnqueueFails(c) \/ Raises(c)
CancelsOn(c) == CallCancel(c) \/ Acquire(c) \/ CancelSteps(c) \/ Raises(c)

LEMMA OthersStay ==
    ASSUME TasksInv, [Next]_vars, NEW d \in Calls
    PROVE  \/ Same(d)
           \/ d \in Gets /\ GetsOn(d)
           \/ d \in Updates /\ UpdatesOn(d)
           \/ d \in Cancels /\ CancelsOn(d)
           \/ Dies(d)
<1>1. CASE call' = call  BY <1>1 DEF Same, Kept
<1>2. ASSUME NEW c \in Calls, c # d,
             (\E pc : Goto(c, pc)) \/ call' = [call EXCEPT ![c] = NoCall]
      PROVE  Same(d)
  BY <1>2, GotoIs, EndIs
<1>3. ASSUME NEW c \in Gets, c # d, GetsOn(c) PROVE Same(d)
  <2>1. c \in Calls  BY Kinds
  <2>2. Goto(c, "inputs") \/ call' = [call EXCEPT ![c] = NoCall] \/ Poll(c) \/ ReadKey(c)
        \/ ReadNumber(c) \/ Sync(c)
    BY <1>3 DEF GetsOn, GetSteps, Status, ReportInputs, Reply
  <2>3. CASE Poll(c)  BY <1>3, <2>1, <2>3, ArrivesIs DEF Poll
  <2> QED  BY <1>2, <1>3, <2>1, <2>2, <2>3, ReadKeyIs, ReadNumberIs, SyncIs
<1>4. ASSUME NEW c \in Updates, c # d, UpdatesOn(c) PROVE Same(d)
  <2>1. c \in Calls  BY Kinds
  <2>2. CASE \E ks \in SUBSET shown : Send(c, ks)
    BY <1>4, <2>1, <2>2, ArrivesIs DEF Send
  <2>3. CASE ReadNumber(c) \/ Acquire(c) \/ Match(c)
    BY <1>4, <2>1, <2>3, ReadNumberIs, AcquireIs, MatchIs
  <2>4. GiveUp(c) \/ Release(c) => call' = [call EXCEPT ![c] = NoCall]
    BY <1>4 DEF GiveUp, Release
  <2>5. Enqueue(c) \/ EnqueueFails(c) \/ Raises(c) \/ Recheck(c) \/ StoreAnswers(c)
        \/ CountRest(c) \/ PointKey(c) \/ PointNumber(c) \/ Clear(c) => \E pc : Goto(c, pc)
    BY Zenon DEF Enqueue, EnqueueFails, Raises, Recheck, StoreAnswers, CountRest, PointKey,
       PointNumber, Clear
  <2> QED  BY <1>2, <1>4, <2>1, <2>2, <2>3, <2>4, <2>5 DEF UpdatesOn, UpdateSteps
<1>5. ASSUME NEW c \in Cancels, c # d, CancelsOn(c) PROVE Same(d)
  <2>1. c \in Calls /\ c \notin Updates  BY Kinds
  <2>2. \/ \E pc : Goto(c, pc)
        \/ call' = [call EXCEPT ![c] = NoCall] \/ CallCancel(c) \/ ReadKey(c)
        \/ ReadNumber(c) \/ Acquire(c)
    BY <1>5, <2>1 DEF CancelsOn, CancelSteps, GiveUp, SyncCancel, CancelInputs, Mark, Clear,
       Stop, Release, Raises, Goto
  <2>3. CASE CallCancel(c)  BY <1>5, <2>1, <2>3, ArrivesIs DEF CallCancel
  <2> QED  BY <1>2, <1>5, <2>1, <2>2, <2>3, ReadKeyIs, ReadNumberIs, AcquireIs
<1>6. ASSUME NEW c \in Calls, c # d, Dies(c) PROVE Same(d)
  BY <1>6, DiesIs
<1>7. ASSUME NEW n \in Legs, Worker(n) \/ Redeliver(n) PROVE call' = call
  BY <1>7 DEF Worker, Start, Ask, DropAnswers, Finish, LegCancelled, Redeliver
<1>8. LockExpires \/ UNCHANGED vars => call' = call  BY DEF LockExpires, vars
<1>9. \/ \E n \in Legs : Worker(n) \/ Redeliver(n)
      \/ \E c \in Gets : GetsOn(c)
      \/ \E c \in Updates : UpdatesOn(c)
      \/ \E c \in Cancels : CancelsOn(c)
      \/ \E c \in Calls : Dies(c)
      \/ LockExpires \/ UNCHANGED vars
  BY DEF Next, GetsOn, UpdatesOn, CancelsOn
<1> QED  BY <1>1, <1>3, <1>4, <1>5, <1>6, <1>7, <1>8, <1>9

(* How a call of tasks/update may go on.                                   *)
LEMMA UpdateGoes ==
    ASSUME TasksInv, [Next]_vars, NEW d \in Updates
    PROVE  \/ Same(d)
           \/ /\ call'[d].pc \in Waiting
              /\ call[d].pc \in Tear => "torn" \in slips'
           \/ ReadNumber(d)
           \/ /\ call'[d].leg = call[d].leg /\ call'[d].keys = call[d].keys
              /\ \/ Acquire(d) \/ Recheck(d) \/ Match(d) \/ StoreAnswers(d) \/ CountRest(d)
                 \/ Enqueue(d) \/ PointKey(d) \/ PointNumber(d) \/ Clear(d)
                 \/ /\ call'[d].pc = "raise" /\ call[d].pc \notin Waiting
                    /\ call[d].pc \in Tear => "torn" \in slips'
<1>1. d \in Calls /\ d \notin Gets /\ d \notin Cancels  BY Kinds
<1>2. CASE Dies(d)
  <2>1. call'[d] = NoCall  BY <1>1, <1>2, DiesIs
  <2>2. Tearing(d) => "torn" \in slips'  BY <1>2 DEF Dies
  <2> QED  BY <2>1, <2>2, NoCallIs DEF Tearing, Tear, Waiting
<1>3. CASE \E ks \in SUBSET shown : Send(d, ks)
  <2>1. PICK ks \in SUBSET shown : Arrives(d, "number", ks)  BY <1>3 DEF Send
  <2> QED  BY <1>1, <2>1, ArrivesIs DEF Waiting, Tear
<1>4. CASE GiveUp(d) \/ Release(d)
  <2>1. call' = [call EXCEPT ![d] = NoCall] /\ call[d].pc \notin Tear
    BY <1>4 DEF GiveUp, Release, Tear
  <2> QED  BY <1>1, <2>1, EndIs, NoCallIs DEF Waiting
<1>5. CASE Acquire(d) \/ Match(d)
  BY <1>1, <1>5, AcquireIs, MatchIs
<1>6. CASE \/ Recheck(d) \/ StoreAnswers(d) \/ CountRest(d) \/ Enqueue(d) \/ PointKey(d)
           \/ PointNumber(d) \/ Clear(d)
  <2>1. \E pc : Goto(d, pc)
    BY <1>6, Zenon DEF Enqueue, Recheck, StoreAnswers, CountRest, PointKey, PointNumber, Clear
  <2>2. Kept(d)  BY <1>1, <2>1, GotoIs
  <2> QED  BY <1>6, <2>2 DEF Kept
<1>7. CASE EnqueueFails(d) \/ Raises(d)
  <2>1. Goto(d, "raise") /\ (call[d].pc \in Tear => "torn" \in slips')
    BY <1>7 DEF EnqueueFails, Raises, Tearing, Tear
  <2>2. call[d].pc \notin Waiting
    <3>1. call[d].held \/ call[d].pc = "enqueue"  BY <1>7 DEF EnqueueFails, Raises
    <3>2. UpdateFits(call[d])  BY <1>1 DEF TasksInv, Placed, Fits
    <3> QED  BY <3>1, <3>2 DEF UpdateFits, Waiting
  <2> QED  BY <1>1, <2>1, <2>2, GotoIs DEF Kept
<1> QED
  BY <1>1, <1>2, <1>3, <1>4, <1>5, <1>6, <1>7, OthersStay DEF UpdatesOn, UpdateSteps

LEMMA HitsStep == LegsInv /\ HitsInv /\ [Next]_vars => HitsInv'
<1> SUFFICES ASSUME LegsInv, HitsInv, [Next]_vars, NEW d \in Updates PROVE Hits(call[d])'
  BY DEF HitsInv
<1>1. TasksInv /\ KeysInv /\ d \in Calls /\ Hits(call[d])
  BY Kinds DEF LegsInv, HitsInv
<1>2. CASE Same(d)  BY <1>1, <1>2 DEF Same, Kept, Hits
<1>3. CASE call'[d].pc \notin Hitting  BY <1>3 DEF Hits
<1>4. CASE Match(d)
  <2> DEFINE ks == call[d].keys \cap outstanding[call[d].leg]
  <2>1. /\ call[d].pc = "match" /\ call'[d].match = ks
        /\ call'[d].pc = IF ks = {} THEN "release" ELSE "answers"
        /\ call'[d].leg = call[d].leg /\ call'[d].keys = call[d].keys
    BY <1>1, <1>4, MatchIs
  <2>2. call[d].leg \in Legs  BY <1>1, <2>1, Holds
  <2>3. \A k \in ks : k.leg = call[d].leg  BY <1>1, <2>2 DEF KeysInv
  <2>4. ks \subseteq call[d].keys  OBVIOUS
  <2> HIDE DEF ks
  <2> QED  BY <2>1, <2>3, <2>4 DEF Hits, Hitting
<1>5. CASE StoreAnswers(d) \/ CountRest(d)
  <2>1. call[d].pc \in Hitting /\ \E pc : Goto(d, pc)
    BY <1>5, Zenon DEF StoreAnswers, CountRest, Hitting
  <2>2. Kept(d)  BY <1>1, <2>1, GotoIs
  <2> QED  BY <1>1, <2>1, <2>2 DEF Hits, Kept
<1>6. CASE ReadNumber(d) \/ Acquire(d)
  BY <1>1, <1>3, <1>6, ReadNumberIs, AcquireIs DEF Hitting
<1>7. CASE Recheck(d) \/ Enqueue(d) \/ PointKey(d) \/ PointNumber(d) \/ Clear(d)
  <2>1. \E pc : Goto(d, pc) /\ pc \notin Hitting
    BY <1>7 DEF Recheck, Enqueue, PointKey, PointNumber, Clear, Hitting
  <2> QED  BY <1>1, <1>3, <2>1, GotoIs
<1> QED
  BY <1>1, <1>2, <1>3, <1>4, <1>5, <1>6, <1>7, UpdateGoes DEF Waiting, Hitting

(* How an execution may change.                                            *)
LEMMA ExecMoves ==
    ASSUME TasksInv, [Next]_vars, NEW n \in Legs
    PROVE  exec'[n] = exec[n] \/ exec[n] \in Live \/ exec'[n] = "queued"
<1>1. exec \in [Legs -> Executions]  BY DEF TasksInv, TasksTypeOK
<1>2. ASSUME NEW m \in Legs, Worker(m) \/ Redeliver(m)
      PROVE  exec'[n] = exec[n] \/ exec[n] \in Live
  BY <1>1, <1>2 DEF Worker, Start, Ask, DropAnswers, Finish, LegCancelled, Redeliver, Live,
     Active
<1>3. ASSUME NEW c \in Calls, Stop(c) PROVE exec'[n] = exec[n] \/ exec[n] \in Live
  BY <1>1, <1>3 DEF Stop, Live
<1>4. ASSUME NEW c \in Updates, Enqueue(c) \/ EnqueueFails(c)
      PROVE  exec'[n] = exec[n] \/ exec'[n] = "queued"
  BY <1>1, <1>4 DEF Enqueue, EnqueueFails, Enqueued
<1>5. ASSUME NEW c \in Gets, Poll(c) \/ GetSteps(c) PROVE exec' = exec
  BY <1>5 DEF Poll, GetSteps, Arrives, ReadKey, ReadNumber, Sync, Status, ReportInputs,
     Reply, docket
<1>6. ASSUME NEW c \in Updates,
             \/ \E ks \in SUBSET shown : Send(c, ks)
             \/ Acquire(c) \/ UpdateSteps(c) \/ Raises(c), ~Enqueue(c)
      PROVE  exec' = exec
  BY <1>6 DEF Send, Arrives, Acquire, UpdateSteps, Raises, ReadNumber, GiveUp, Recheck,
     Match, StoreAnswers, CountRest, PointKey, PointNumber, Clear, Release, docket
<1>7. ASSUME NEW c \in Cancels,
             CallCancel(c) \/ Acquire(c) \/ CancelSteps(c) \/ Raises(c), ~Stop(c)
      PROVE  exec' = exec
  BY <1>7 DEF CallCancel, Arrives, Acquire, CancelSteps, Raises, GiveUp, ReadKey, ReadNumber,
     SyncCancel, CancelInputs, Mark, Clear, Release, docket
<1>8. (\E c \in Calls : Dies(c)) \/ LockExpires \/ UNCHANGED vars => exec' = exec
  BY DEF Dies, LockExpires, vars, docket
<1> QED  BY <1>2, <1>3, <1>4, <1>5, <1>6, <1>7, <1>8, Kinds DEF Next

(* What is shown next is the requests of one leg, a parked one unless the  *)
(* code lets a poll be early.                                              *)
LEMMA ShownNext ==
    ASSUME TasksInv, KeysInv, [Next]_vars, NEW k \in shown' \ shown
    PROVE  /\ k \in Keys /\ k \in outstanding[k.leg]
           /\ exec[k.leg] = "parked" \/ "early" \in slips'
           /\ \E c \in Gets : call[c].pc = "inputs" /\ k.leg = call[c].leg
           /\ exec' = exec
<1>1. ASSUME ~\E c \in Gets : ReportInputs(c) PROVE shown' = shown
  <2>1. ASSUME NEW n \in Legs, Worker(n) \/ Redeliver(n) PROVE shown' = shown
    BY <2>1 DEF Worker, Start, Ask, DropAnswers, Finish, LegCancelled, Redeliver, client
  <2>2. ASSUME NEW c \in Gets, Poll(c) \/ GetSteps(c) PROVE shown' = shown
    BY <1>1, <2>2 DEF Poll, GetSteps, Arrives, ReadKey, ReadNumber, Sync, Status, Reply,
       client
  <2>3. ASSUME NEW c \in Updates,
               \/ \E ks \in SUBSET shown : Send(c, ks)
               \/ Acquire(c) \/ UpdateSteps(c) \/ EnqueueFails(c) \/ Raises(c)
        PROVE  shown' = shown
    BY <2>3 DEF Send, Arrives, Acquire, UpdateSteps, EnqueueFails, Raises, ReadNumber,
       GiveUp, Recheck, Match, StoreAnswers, CountRest, Enqueue, PointKey, PointNumber,
       Clear, Release, client
  <2>4. ASSUME NEW c \in Cancels,
               CallCancel(c) \/ Acquire(c) \/ CancelSteps(c) \/ Raises(c)
        PROVE  shown' = shown
    BY <2>4 DEF CallCancel, Arrives, Acquire, CancelSteps, Raises, GiveUp, ReadKey,
       ReadNumber, SyncCancel, CancelInputs, Mark, Clear, Stop, Release, client
  <2>5. (\E c \in Calls : Dies(c)) \/ LockExpires \/ UNCHANGED vars => shown' = shown
    BY DEF Dies, LockExpires, vars, client
  <2> QED  BY <2>1, <2>2, <2>3, <2>4, <2>5 DEF Next
<1>2. PICK c \in Gets : ReportInputs(c)  BY <1>1
<1>3. call[c].pc = "inputs" /\ call[c].leg \in Legs
  BY <1>2, Kinds DEF ReportInputs, TasksInv, Placed, Fits, GetFits
<1>4. /\ shown' = shown \cup outstanding[call[c].leg] /\ exec' = exec
      /\ outstanding[call[c].leg] # {} /\ exec[call[c].leg] # "parked" => "early" \in slips'
  BY <1>2 DEF ReportInputs, Reply, docket
<1>5. k \in outstanding[call[c].leg] /\ k.leg = call[c].leg /\ k \in Keys
  BY <1>3, <1>4 DEF KeysInv, TasksInv, TasksTypeOK
<1> QED  BY <1>3, <1>4, <1>5

(* The leg that an update with a match is on is parked, and the last one.  *)
LEMMA Quiescent ==
    ASSUME LegsInv, HitsInv, LegsParked, "torn" \notin slips,
           NEW c \in Updates, call[c].pc \in Hitting
    PROVE  /\ call[c].leg = number /\ number \in Legs /\ number + 1 \in Legs
           /\ exec[number] = "parked" /\ exec[number + 1] = "none"
           /\ \A n \in Legs : exec[n] \in {"parked", "none"}
           /\ \A d \in Updates \ {c} : call[d].pc \in {"idle", "number", "lock"}
           /\ lock = c
<1>1. TasksInv /\ KeysInv /\ PointedAt /\ c \in Calls
  BY Kinds DEF LegsInv, PointerInv, PointedAt
<1>2. /\ call[c].leg = number /\ number \in Legs /\ number + 1 \in Legs
      /\ exec[number + 1] = "none"
      /\ \A n \in Legs : n > number + 1 => exec[n] = "none"
      /\ \A d \in Updates \ {c} : call[d].pc \in {"idle", "number", "lock"}
      /\ lock = c
  BY <1>1, Resumes DEF Resuming, Hitting
<1>3. PICK k : k \in call[c].match /\ k \in call[c].keys /\ k.leg = number
  BY <1>2 DEF HitsInv, Hits
<1>4. k \in shown  BY <1>1, <1>3 DEF KeysInv, Asks
<1>5. exec[number] = "parked"  BY <1>3, <1>4 DEF LegsParked
<1>6. \A n \in Legs : n \in Nat  BY DEF Legs
<1>7. ASSUME NEW n \in Legs PROVE exec[n] \in {"parked", "none"}
  <2>1. n < number \/ n = number \/ n = number + 1 \/ n > number + 1  BY <1>2, <1>6
  <2> QED  BY <1>2, <1>5, <2>1 DEF LegsParked
<1> QED  BY <1>2, <1>5, <1>7

LEMMA ParkedStep == LegsInv /\ HitsInv /\ ParkedInv /\ [Next]_vars => ParkedInv'
<1> SUFFICES ASSUME LegsInv, HitsInv, LegsParked, [Next]_vars,
                    "torn" \notin slips', "early" \notin slips'
             PROVE  LegsParked'
  BY SlipsGrow DEF ParkedInv
<1>1. TasksInv /\ KeysInv /\ "torn" \notin slips  BY SlipsGrow DEF LegsInv
<1>2. ASSUME NEW n \in Legs, exec[n] = "parked" PROVE exec'[n] = "parked"
  <2>1. exec[n] \notin Live  BY <1>2 DEF Live, Active
  <2> QED  BY <1>1, <1>2, <2>1, ExecMoves, EnqueuesNew
<1>3. ASSUME NEW k \in shown' PROVE exec'[k.leg] = "parked"
  <2>1. CASE k \in shown
    <3>1. k.leg \in Legs /\ exec[k.leg] = "parked"
      BY <1>1, <2>1 DEF LegsParked, TasksInv, TasksTypeOK, Keys
    <3> QED  BY <1>2, <3>1
  <2>2. CASE k \notin shown
    <3>1. k \in Keys /\ exec[k.leg] = "parked"  BY <1>1, <2>2, ShownNext
    <3> QED  BY <1>2, <3>1 DEF Keys
  <2> QED  BY <2>1, <2>2
<1>4. ASSUME NEW m \in Legs, NEW n \in Legs, m < n, exec'[n] # "none"
      PROVE  exec'[m] = "parked"
  <2>1. CASE exec[n] # "none"  BY <1>2, <1>4, <2>1 DEF LegsParked
  <2>2. CASE exec[n] = "none"
    <3>1. exec[n] \notin Live  BY <2>2 DEF Live, Active
    <3>2. exec'[n] = "queued"  BY <1>1, <1>4, <2>2, <3>1, ExecMoves
    <3>3. PICK c \in Updates : call[c].pc = "enqueue" /\ n = number + 1
      BY <1>1, <3>1, <3>2, EnqueuesNew
    <3>4. number \in Legs /\ exec[number] = "parked"  BY <1>1, <3>3, Quiescent DEF Hitting
    <3>5. m = number \/ m < number  BY <1>4, <3>3, <3>4 DEF Legs
    <3>6. exec[m] = "parked"  BY <3>4, <3>5 DEF LegsParked
    <3> QED  BY <1>2, <3>6
  <2> QED  BY <2>1, <2>2
<1> QED  BY <1>3, <1>4 DEF LegsParked

-----------------------------------------------------------------------------
(* What a step makes of the requests and the pointer                       *)

(* Only a leg that asks gets more requests.                                *)
LEMMA RequestsMove ==
    ASSUME TasksInv, [Next]_vars, NEW n \in Legs
    PROVE  outstanding'[n] \subseteq outstanding[n] \/ Ask(n)
<1>1. outstanding \in [Legs -> SUBSET Keys]  BY DEF TasksInv, TasksTypeOK
<1>2. ASSUME NEW m \in Legs, Worker(m) \/ Redeliver(m), ~Ask(m)
      PROVE  outstanding' = outstanding
  BY <1>2 DEF Worker, Start, DropAnswers, Finish, LegCancelled, Redeliver, redis
<1>3. ASSUME NEW m \in Legs, m # n, Ask(m) PROVE outstanding'[n] = outstanding[n]
  <2>1. PICK ks : outstanding' = [outstanding EXCEPT ![m] = ks]  BY <1>3 DEF Ask
  <2> QED  BY <1>1, <1>3, <2>1
<1>4. ASSUME NEW c \in Calls, CountRest(c) \/ Clear(c)
      PROVE  outstanding'[n] \subseteq outstanding[n]
  BY <1>1, <1>4 DEF CountRest, Clear
<1>5. ASSUME NEW c \in Gets, Poll(c) \/ GetSteps(c) PROVE outstanding' = outstanding
  BY <1>5 DEF Poll, GetSteps, Arrives, ReadKey, ReadNumber, Sync, Status, ReportInputs,
     Reply, redis
<1>6. ASSUME NEW c \in Updates,
             \/ \E ks \in SUBSET shown : Send(c, ks)
             \/ Acquire(c) \/ UpdateSteps(c) \/ EnqueueFails(c) \/ Raises(c),
             ~CountRest(c), ~Clear(c)
      PROVE  outstanding' = outstanding
  BY <1>6 DEF Send, Arrives, Acquire, UpdateSteps, EnqueueFails, Raises, ReadNumber, GiveUp,
     Recheck, Match, StoreAnswers, Enqueue, PointKey, PointNumber, Release, redis
<1>7. ASSUME NEW c \in Cancels,
             CallCancel(c) \/ Acquire(c) \/ CancelSteps(c) \/ Raises(c), ~Clear(c)
      PROVE  outstanding' = outstanding
  BY <1>7 DEF CallCancel, Arrives, Acquire, CancelSteps, Raises, GiveUp, ReadKey, ReadNumber,
     SyncCancel, CancelInputs, Mark, Stop, Release, redis
<1>8. (\E c \in Calls : Dies(c)) \/ LockExpires \/ UNCHANGED vars
        => outstanding' = outstanding
  BY DEF Dies, LockExpires, vars, redis
<1> QED  BY <1>2, <1>3, <1>4, <1>5, <1>6, <1>7, <1>8, Kinds DEF Next

(* A request that was shown and is gone does not come back.                *)
LEMMA ShownOnce ==
    ASSUME TasksInv, KeysInv, [Next]_vars, NEW n \in Legs, NEW k \in shown,
           k \in outstanding'[n]
    PROVE  k \in outstanding[n]
<1>1. CASE Ask(n)
  <2>1. PICK tool \in Tools \ asked[n] :
           outstanding' = [outstanding EXCEPT ![n] =
              outstanding[n] \cup {[leg |-> n, tool |-> tool, run |-> run[n]]}]
    BY <1>1 DEF Ask
  <2>2. PICK new : new = [leg |-> n, tool |-> tool, run |-> run[n]]  OBVIOUS
  <2>3. ~Old(new)  BY <2>2 DEF Old
  <2>4. k # new  BY <2>3 DEF KeysInv
  <2>5. outstanding'[n] = outstanding[n] \cup {new}
    BY <2>1, <2>2 DEF TasksInv, TasksTypeOK
  <2> QED  BY <2>4, <2>5
<1> QED  BY <1>1, RequestsMove

(* Only an update moves the pointer, in two steps.                         *)
LEMMA PointerMoves ==
    ASSUME [Next]_vars
    PROVE  /\ number' = number \/ \E c \in Updates : PointNumber(c)
           /\ key' = key \/ \E c \in Updates : PointKey(c)
<1>1. ASSUME NEW m \in Legs, Worker(m) \/ Redeliver(m) PROVE UNCHANGED <<number, key>>
  BY <1>1 DEF Worker, Start, Ask, DropAnswers, Finish, LegCancelled, Redeliver, redis
<1>2. ASSUME NEW c \in Gets, Poll(c) \/ GetSteps(c) PROVE UNCHANGED <<number, key>>
  BY <1>2 DEF Poll, GetSteps, Arrives, ReadKey, ReadNumber, Sync, Status, ReportInputs,
     Reply, redis
<1>3. ASSUME NEW c \in Updates,
             \/ \E ks \in SUBSET shown : Send(c, ks)
             \/ Acquire(c) \/ UpdateSteps(c) \/ EnqueueFails(c) \/ Raises(c)
      PROVE  /\ number' = number \/ PointNumber(c)
             /\ key' = key \/ PointKey(c)
  BY <1>3 DEF Send, Arrives, Acquire, UpdateSteps, EnqueueFails, Raises, ReadNumber, GiveUp,
     Recheck, Match, StoreAnswers, CountRest, Enqueue, PointKey, PointNumber, Clear, Release,
     redis
<1>4. ASSUME NEW c \in Cancels,
             CallCancel(c) \/ Acquire(c) \/ CancelSteps(c) \/ Raises(c)
      PROVE  UNCHANGED <<number, key>>
  BY <1>4 DEF CallCancel, Arrives, Acquire, CancelSteps, Raises, GiveUp, ReadKey, ReadNumber,
     SyncCancel, CancelInputs, Mark, Clear, Stop, Release, redis
<1>5. (\E c \in Calls : Dies(c)) \/ LockExpires \/ UNCHANGED vars
        => UNCHANGED <<number, key>>
  BY DEF Dies, LockExpires, vars, redis
<1> QED  BY <1>1, <1>2, <1>3, <1>4, <1>5 DEF Next

(* A leg that runs is the last one, and all those before it are parked.    *)
LEMMA RunsAlone ==
    ASSUME LegsParked, NEW n \in Legs, exec[n] \notin {"none", "parked"}, NEW m \in Legs
    PROVE  /\ m < n => exec[m] = "parked"
           /\ m > n => exec[m] = "none"
  BY DEF LegsParked, Legs

-----------------------------------------------------------------------------
(* Answers                                                                 *)

(* Every request of a leg is outstanding or answered until the next leg is *)
(* enqueued; that one finds all the answers.                               *)
Covered(n) ==
    /\ exec[n] = "running" => asked[n] = {}
    /\ exec[n] \in {"asking", "parking"} =>
          asked[n] # {} /\ (marker \/ asked[n] \subseteq ToolsOf(outstanding[n]))
    /\ exec[n] = "parked" /\ ~marker /\ (n + 1 \in Legs => exec[n + 1] = "none") =>
          asked[n] \subseteq ToolsOf(outstanding[n]) \cup responses
Awaits(n) == exec[n] \in {"queued", "running"} /\ asked[n] = {}
Supplied(n) ==
    n + 1 \in Legs =>
        /\ Awaits(n + 1) => asked[n] \subseteq responses
        /\ ~Incomplete(n)
Backed(r) ==
    /\ r.pc = "rest" => ToolsOf(r.match) \subseteq responses
    /\ r.pc = "enqueue" => asked[r.leg] \subseteq responses

AnswersOK ==
    /\ \A n \in Legs : Covered(n) /\ Supplied(n)
    /\ \A c \in Updates : Backed(call[c])

(* A step of a leg finds no update that goes on past its match.            *)
LEMMA NoHits ==
    ASSUME LegsInv, HitsInv, LegsParked, "torn" \notin slips,
           NEW n \in Legs, exec[n] \in Live, NEW c \in Updates
    PROVE  call[c].pc \notin Hitting
  BY Quiescent DEF Live, Active

LEMMA AnswersOfWorkers ==
    ASSUME LegsInv, HitsInv, LegsParked, AnswersOK, slips' = {}, [Next]_vars,
           NEW n \in Legs, Worker(n) \/ Redeliver(n)
    PROVE  AnswersOK'
<1>1. /\ exec \in [Legs -> Executions] /\ asked \in [Legs -> SUBSET Tools]
      /\ got \in [Legs -> SUBSET Tools] /\ outstanding \in [Legs -> SUBSET Keys]
  BY DEF LegsInv, TasksInv, TasksTypeOK
<1>2. slips = {}  BY SlipsGrow
<1>3. exec[n] \in Live /\ UNCHANGED <<call, marker>>
  BY DEF Worker, Start, Ask, DropAnswers, Finish, LegCancelled, Redeliver, Live, Active,
     redis
<1>4. \A c \in Updates : call[c].pc \notin Hitting  BY <1>2, <1>3, NoHits
<1>5. \A c \in Updates : Backed(call[c])'  BY <1>3, <1>4 DEF Backed, Hitting
<1>6. exec[n] \notin {"none", "parked"} /\ exec'[n] # "none"
  BY <1>1, <1>3 DEF Live, Active, Worker, Start, Ask, DropAnswers, Finish, LegCancelled,
     Redeliver
<1>7. \A m \in Legs : m < n \/ m = n \/ m > n  BY DEF Legs
<1>8. \A m \in Legs : /\ m < n => exec[m] = "parked"
                      /\ m > n => exec[m] = "none"
  BY <1>6, RunsAlone
<1>9. ASSUME NEW m \in Legs, m # n
      PROVE  /\ exec'[m] = exec[m] /\ asked'[m] = asked[m] /\ got'[m] = got[m]
             /\ outstanding'[m] = outstanding[m]
  <2>1. CASE Ask(n)
    <3>1. PICK new, tool :
            /\ outstanding' = [outstanding EXCEPT ![n] = outstanding[n] \cup {new}]
            /\ asked' = [asked EXCEPT ![n] = asked[n] \cup {tool}]
      BY <2>1 DEF Ask
    <3>2. exec' = [exec EXCEPT ![n] = "asking"] /\ got' = got  BY <2>1 DEF Ask
    <3> QED  BY <1>1, <1>9, <3>1, <3>2
  <2>2. CASE Start(n)
    BY <1>1, <1>9, <2>2 DEF Start, redis
  <2>3. CASE DropAnswers(n) \/ Finish(n) \/ LegCancelled(n) \/ Redeliver(n)
    BY <1>1, <1>9, <2>3 DEF DropAnswers, Finish, LegCancelled, Redeliver, redis, history
  <2> QED  BY <2>1, <2>2, <2>3 DEF Worker
<1>10. ASSUME NEW m \in Legs PROVE Covered(m)'
  <2>1. CASE m > n
    <3>1. m # n  BY <2>1 DEF Legs
    <3>2. exec'[m] = "none"  BY <1>8, <1>9, <2>1, <3>1
    <3> QED  BY <3>2 DEF Covered
  <2>2. CASE m < n
    <3>1. exec'[m] = "parked"  BY <1>8, <1>9, <2>2 DEF Legs
    <3>2. m + 1 \in Legs /\ exec'[m + 1] # "none"
      <4>1. m + 1 \in Legs /\ (m + 1 = n \/ m + 1 < n)  BY <2>2, TaskSets DEF Legs
      <4>2. CASE m + 1 = n  BY <1>6, <4>1, <4>2
      <4>3. CASE m + 1 < n
        <5>1. m + 1 # n  BY <4>1, <4>3 DEF Legs
        <5>2. exec'[m + 1] = "parked"  BY <1>8, <1>9, <4>1, <4>3, <5>1 DEF Legs
        <5> QED  BY <4>1, <5>2
      <4> QED  BY <4>1, <4>2, <4>3
    <3> QED  BY <3>1, <3>2 DEF Covered
  <2>3. CASE m = n
    <3>0. Covered(n) /\ marker' = marker  BY <1>3 DEF AnswersOK
    <3>1. CASE Start(n)
      <4>1. exec'[n] = "running" /\ asked'[n] = {}  BY <1>1, <3>1 DEF Start
      <4> QED  BY <2>3, <4>1 DEF Covered
    <3>2. CASE Ask(n)
      <4>1. PICK tool \in Tools \ asked[n] :
              /\ outstanding' = [outstanding EXCEPT ![n] =
                    outstanding[n] \cup {[leg |-> n, tool |-> tool, run |-> run[n]]}]
              /\ asked' = [asked EXCEPT ![n] = asked[n] \cup {tool}]
        BY <3>2 DEF Ask
      <4>2. PICK new : new = [leg |-> n, tool |-> tool, run |-> run[n]]  OBVIOUS
      <4>3. new.tool = tool  BY <4>2
      <4>4. /\ outstanding'[n] = outstanding[n] \cup {new}
            /\ asked'[n] = asked[n] \cup {tool}
        BY <1>1, <4>1, <4>2
      <4>5. exec[n] \in {"running", "asking"} /\ exec'[n] = "asking"
        BY <1>1, <3>2 DEF Ask
      <4>6. marker \/ asked[n] \subseteq ToolsOf(outstanding[n])
        BY <3>0, <4>5 DEF Covered
      <4>7. marker \/ asked'[n] \subseteq ToolsOf(outstanding'[n])
        BY <4>3, <4>4, <4>6 DEF ToolsOf
      <4>8. ToolsOf(outstanding'[n]) = ToolsOf(outstanding[n])'  BY DEF ToolsOf
      <4> QED  BY <2>3, <3>0, <4>4, <4>5, <4>7, <4>8 DEF Covered
    <3>3. CASE DropAnswers(n)
      <4>1. exec[n] = "asking" /\ exec'[n] = "parking" /\ UNCHANGED <<asked, outstanding>>
        BY <1>1, <3>3 DEF DropAnswers, history
      <4> QED  BY <2>3, <3>0, <4>1 DEF Covered, ToolsOf
    <3>4. CASE Finish(n)
      <4>1. /\ UNCHANGED <<asked, outstanding>>
            /\ exec'[n] \in {"completed", "failed"} \/ (exec[n] = "parking" /\ exec'[n] = "parked")
        BY <1>1, <3>4 DEF Finish, redis, history
      <4> QED  BY <2>3, <3>0, <4>1 DEF Covered, ToolsOf
    <3>5. CASE LegCancelled(n) \/ Redeliver(n)
      <4>1. exec'[n] \in {"cancelled", "queued"}
        BY <1>1, <3>5 DEF LegCancelled, Redeliver
      <4> QED  BY <2>3, <4>1 DEF Covered
    <3> QED  BY <3>1, <3>2, <3>3, <3>4, <3>5 DEF Worker
  <2> QED  BY <1>7, <2>1, <2>2, <2>3
<1>11. ASSUME NEW m \in Legs PROVE Supplied(m)'
  <2> SUFFICES ASSUME m + 1 \in Legs
               PROVE  (Awaits(m + 1) => asked[m] \subseteq responses)' /\ ~Incomplete(m)'
    BY DEF Supplied
  <2>1. Supplied(m) /\ Covered(n)  BY DEF AnswersOK
  <2>2. CASE m = n
    <3>1. m + 1 > n /\ m + 1 # n  BY <2>2 DEF Legs
    <3>2. exec'[m + 1] = "none"  BY <1>8, <1>9, <3>1 DEF Legs
    <3> QED  BY <3>2 DEF Awaits, Incomplete
  <2>3. CASE m # n /\ m + 1 # n
    <3>1. exec[m + 1] \in {"none", "parked"}  BY <1>7, <1>8, <2>3 DEF Legs
    <3>2. ~Awaits(m + 1)'  BY <1>9, <2>3, <3>1 DEF Awaits
    <3>3. ~Incomplete(m)'  BY <1>9, <2>1, <2>3 DEF Supplied, Incomplete
    <3> QED  BY <3>2, <3>3
  <2>4. CASE m + 1 = n
    <3>1. m # n /\ asked'[m] = asked[m]  BY <1>9, <2>4 DEF Legs
    <3>2. /\ Awaits(n) => asked[m] \subseteq responses
          /\ exec[n] \notin {"none", "queued", "cancelled"} => asked[m] \subseteq got[n]
      BY <2>1, <2>4 DEF Supplied, Incomplete
    <3>3. CASE Start(n)
      <4>1. exec[n] = "queued" /\ responses' = responses  BY <3>3 DEF Start, redis
      <4>2. asked[n] = {} /\ got'[n] = responses  BY <1>1, <3>3 DEF Start
      <4> QED  BY <2>4, <3>1, <3>2, <4>1, <4>2 DEF Awaits, Incomplete
    <3>4. CASE ~Start(n)
      <4>1. got' = got
        BY <3>4 DEF Worker, Ask, DropAnswers, Finish, LegCancelled, Redeliver, history
      <4>2. exec'[n] \notin {"none", "queued", "cancelled"}
              => exec[n] \notin {"none", "queued", "cancelled"}
        BY <1>1, <3>4 DEF Worker, Ask, DropAnswers, Finish, LegCancelled, Redeliver, Active
      <4>3. Awaits(n)' => Awaits(n) /\ responses' = responses
        <5>1. CASE Redeliver(n)
          <6>1. exec[n] \in Active /\ UNCHANGED <<asked, responses>>
            BY <5>1 DEF Redeliver, redis, history
          <6> QED  BY <2>1, <6>1 DEF Awaits, Covered, Active
        <5>2. CASE ~Redeliver(n)
          <6>1. exec'[n] \notin {"queued", "running"}
            BY <1>1, <3>4, <5>2 DEF Worker, Ask, DropAnswers, Finish, LegCancelled
          <6> QED  BY <6>1 DEF Awaits
        <5> QED  BY <5>1, <5>2
      <4> QED  BY <2>4, <3>1, <3>2, <4>1, <4>2, <4>3 DEF Incomplete
    <3> QED  BY <3>3, <3>4
  <2> QED  BY <2>2, <2>3, <2>4
<1> QED  BY <1>5, <1>10, <1>11 DEF AnswersOK

(* What no call but these changes.                                         *)
LEMMA CallsLeave ==
    ASSUME [Next]_vars, ~\E n \in Legs : Worker(n) \/ Redeliver(n)
    PROVE  /\ UNCHANGED <<run, asked, got>> /\ (marker => marker')
           /\ responses' = responses \/ \E c \in Updates : StoreAnswers(c)
           /\ outstanding' = outstanding \/ \E c \in Calls : CountRest(c) \/ Clear(c)
           /\ \/ exec' = exec
              \/ \E c \in Updates : Enqueue(c) \/ EnqueueFails(c)
              \/ \E c \in Cancels : Stop(c)
<1>1. ASSUME NEW c \in Gets, Poll(c) \/ GetSteps(c)
      PROVE  UNCHANGED <<exec, run, asked, got, marker, responses, outstanding>>
  BY <1>1 DEF Poll, GetSteps, Arrives, ReadKey, ReadNumber, Sync, Status, ReportInputs,
     Reply, redis, docket, history
<1>2. ASSUME NEW c \in Updates,
             \/ \E ks \in SUBSET shown : Send(c, ks)
             \/ Acquire(c) \/ UpdateSteps(c) \/ EnqueueFails(c) \/ Raises(c)
      PROVE  /\ UNCHANGED <<run, asked, got, marker>>
             /\ responses' = responses \/ StoreAnswers(c)
             /\ outstanding' = outstanding \/ CountRest(c) \/ Clear(c)
             /\ exec' = exec \/ Enqueue(c) \/ EnqueueFails(c)
  BY <1>2 DEF Send, Arrives, Acquire, UpdateSteps, EnqueueFails, Raises, ReadNumber, GiveUp,
     Recheck, Match, StoreAnswers, CountRest, Enqueue, PointKey, PointNumber, Clear, Release,
     redis, docket, history
<1>3. ASSUME NEW c \in Cancels,
             CallCancel(c) \/ Acquire(c) \/ CancelSteps(c) \/ Raises(c)
      PROVE  /\ UNCHANGED <<run, asked, got, responses>> /\ (marker => marker')
             /\ outstanding' = outstanding \/ Clear(c)
             /\ exec' = exec \/ Stop(c)
  BY <1>3 DEF CallCancel, Arrives, Acquire, CancelSteps, Raises, GiveUp, ReadKey, ReadNumber,
     SyncCancel, CancelInputs, Mark, Clear, Stop, Release, redis, docket, history
<1>4. (\E c \in Calls : Dies(c)) \/ LockExpires \/ UNCHANGED vars
        => UNCHANGED <<exec, run, asked, got, marker, responses, outstanding>>
  BY DEF Dies, LockExpires, vars, redis, docket, history
<1> QED  BY <1>1, <1>2, <1>3, <1>4, Kinds DEF Next

(* An update that is neither storing nor counting keeps what it relies on. *)
LEMMA BackedStays ==
    ASSUME TasksInv, AnswersOK, [Next]_vars, UNCHANGED asked, responses \subseteq responses',
           NEW d \in Updates, ~StoreAnswers(d), ~CountRest(d)
    PROVE  Backed(call[d])'
<1>1. d \in Calls /\ Backed(call[d])  BY Kinds DEF AnswersOK
<1>2. CASE Same(d)  BY <1>1, <1>2 DEF Same, Kept, Backed
<1>3. CASE call'[d].pc \notin {"rest", "enqueue"}  BY <1>3 DEF Backed
<1>4. CASE Recheck(d) \/ Enqueue(d) \/ PointKey(d) \/ PointNumber(d) \/ Clear(d)
  <2>1. \E pc : Goto(d, pc) /\ pc \notin {"rest", "enqueue"}
    BY <1>4 DEF Recheck, Enqueue, PointKey, PointNumber, Clear
  <2> QED  BY <1>1, <1>3, <2>1, GotoIs
<1>5. CASE ReadNumber(d) \/ Acquire(d) \/ Match(d)
  BY <1>1, <1>3, <1>5, ReadNumberIs, AcquireIs, MatchIs
<1> QED  BY <1>2, <1>3, <1>4, <1>5, UpdateGoes DEF Waiting

LEMMA AnswersOfCountRest ==
    ASSUME LegsInv, HitsInv, LegsParked, AnswersOK, [Next]_vars, slips = {},
           NEW c \in Updates, CountRest(c)
    PROVE  AnswersOK'
<1>1. /\ TasksInv /\ c \in Calls /\ call[c].pc = "rest"
      /\ outstanding \in [Legs -> SUBSET Keys]
  BY Kinds DEF LegsInv, TasksInv, TasksTypeOK, CountRest
<1>2. /\ call[c].leg = number /\ number \in Legs /\ number + 1 \in Legs
      /\ exec[number + 1] = "none" /\ exec[number] = "parked"
      /\ \A n \in Legs : exec[n] \in {"parked", "none"}
      /\ \A d \in Updates \ {c} : call[d].pc \in {"idle", "number", "lock"}
  BY <1>1, Quiescent DEF Hitting
<1>3. /\ UNCHANGED <<exec, asked, got, responses, marker>>
      /\ outstanding' = [outstanding EXCEPT ![number] = outstanding[number] \ Retired(c)]
      /\ Goto(c, IF outstanding[number] \subseteq call[c].match THEN "enqueue" ELSE "release")
  BY <1>2 DEF CountRest, docket, history
<1>4. Covered(number) /\ Backed(call[c]) /\ Retired(c) \subseteq call[c].match
  BY <1>2 DEF AnswersOK, Retired
<1>5. ~marker
  <2>1. "forced" \notin slips  OBVIOUS
  <2> QED  BY <1>1, <2>1 DEF TasksInv, MarkerObeyed, Deciding
<1>6. asked[number] \subseteq ToolsOf(outstanding[number]) \cup responses
  BY <1>2, <1>4, <1>5 DEF Covered
<1>7. ToolsOf(call[c].match) \subseteq responses  BY <1>1, <1>4 DEF Backed
<1>8. ASSUME NEW n \in Legs PROVE Covered(n)'
  <2>1. CASE n = number
    <3>1. outstanding'[n] = outstanding[n] \ Retired(c)  BY <1>1, <1>3, <2>1
    <3>2. ToolsOf(outstanding[n]) \subseteq ToolsOf(outstanding[n])' \cup responses
      BY <1>4, <1>7, <3>1 DEF ToolsOf
    <3> QED  BY <1>2, <1>3, <1>6, <2>1, <3>2 DEF Covered
  <2>2. CASE n # number
    <3>1. outstanding'[n] = outstanding[n] /\ Covered(n)  BY <1>1, <1>3, <2>2 DEF AnswersOK
    <3>2. ToolsOf(outstanding[n])' = ToolsOf(outstanding[n])  BY <3>1 DEF ToolsOf
    <3> QED  BY <1>3, <3>1, <3>2 DEF Covered
  <2> QED  BY <2>1, <2>2
<1>9. ASSUME NEW n \in Legs PROVE Supplied(n)'
  BY <1>3 DEF AnswersOK, Supplied, Awaits, Incomplete
<1>10. ASSUME NEW d \in Updates PROVE Backed(call[d])'
  <2>1. CASE d = c
    <3>1. PICK pc : Goto(c, pc) /\ pc = IF outstanding[number] \subseteq call[c].match
                                         THEN "enqueue" ELSE "release"
      BY <1>3
    <3>2. call'[c].pc = pc /\ call'[c].leg = number  BY <1>1, <1>2, <3>1, GotoIs DEF Kept
    <3>3. pc = "enqueue" => ToolsOf(outstanding[number]) \subseteq responses
      BY <1>7, <3>1 DEF ToolsOf
    <3>4. pc = "enqueue" => asked[number] \subseteq responses  BY <1>6, <3>3
    <3> QED  BY <1>3, <2>1, <3>1, <3>2, <3>4 DEF Backed
  <2>2. CASE d # c
    <3>1. ~StoreAnswers(d) /\ ~CountRest(d)  BY <1>2, <2>2 DEF StoreAnswers, CountRest
    <3> QED  BY <1>1, <1>3, <3>1, BackedStays
  <2> QED  BY <2>1, <2>2
<1> QED  BY <1>8, <1>9, <1>10 DEF AnswersOK

LEMMA AnswersOfEnqueue ==
    ASSUME LegsInv, HitsInv, LegsParked, AnswersOK, [Next]_vars, slips = {},
           NEW c \in Updates, Enqueue(c)
    PROVE  AnswersOK'
<1>1. /\ TasksInv /\ c \in Calls /\ call[c].pc = "enqueue"
      /\ exec \in [Legs -> Executions]
  BY Kinds DEF LegsInv, TasksInv, TasksTypeOK, Enqueue
<1>2. /\ call[c].leg = number /\ number \in Legs /\ number + 1 \in Legs
      /\ exec[number + 1] = "none"
      /\ \A d \in Updates \ {c} : call[d].pc \in {"idle", "number", "lock"}
  BY <1>1, Quiescent DEF Hitting
<1>3. /\ UNCHANGED <<asked, got, responses, outstanding, marker>>
      /\ exec' = [exec EXCEPT ![number + 1] = "queued"]
  BY <1>2 DEF Enqueue, Enqueued, redis, history, Live, Active
<1>4. exec'[number + 1] = "queued" /\ \A n \in Legs : n # number + 1 => exec'[n] = exec[n]
  BY <1>1, <1>2, <1>3
<1>5. asked[number] \subseteq responses  BY <1>1, <1>2 DEF AnswersOK, Backed
<1>6. ASSUME NEW n \in Legs PROVE Covered(n)'
  <2>1. CASE n = number + 1  BY <1>4, <2>1 DEF Covered
  <2>2. CASE n # number + 1
    <3>1. exec'[n] = exec[n] /\ Covered(n)  BY <1>4, <2>2 DEF AnswersOK
    <3>2. n + 1 \in Legs /\ exec'[n + 1] = "none" => exec[n + 1] = "none"  BY <1>4
    <3>3. ToolsOf(outstanding[n])' = ToolsOf(outstanding[n])  BY <1>3 DEF ToolsOf
    <3> QED  BY <1>3, <3>1, <3>2, <3>3 DEF Covered
  <2> QED  BY <2>1, <2>2
<1>7. ASSUME NEW n \in Legs PROVE Supplied(n)'
  <2>1. CASE n = number
    <3>1. ~Incomplete(n)'  BY <1>4, <2>1 DEF Incomplete
    <3> QED  BY <1>3, <1>5, <2>1, <3>1 DEF Supplied
  <2>2. CASE n # number
    <3>1. n + 1 \in Legs => exec'[n + 1] = exec[n + 1]
      <4>1. n + 1 # number + 1  BY <1>2, <2>2 DEF Legs
      <4> QED  BY <1>4, <4>1
    <3> QED  BY <1>3, <3>1 DEF AnswersOK, Supplied, Awaits, Incomplete
  <2> QED  BY <2>1, <2>2
<1>8. ASSUME NEW d \in Updates PROVE Backed(call[d])'
  <2>1. ~StoreAnswers(d) /\ ~CountRest(d)
    BY <1>1, <1>2 DEF StoreAnswers, CountRest
  <2> QED  BY <1>1, <1>3, <2>1, BackedStays
<1> QED  BY <1>6, <1>7, <1>8 DEF AnswersOK

(* The leg that is cleared has been left behind, or the task is cancelled. *)
LEMMA AnswersOfClear ==
    ASSUME LegsInv, HitsInv, LegsParked, AnswersOK, [Next]_vars, slips = {},
           NEW c \in Calls, c \in Updates \/ c \in Cancels, Clear(c)
    PROVE  AnswersOK'
<1>1. /\ TasksInv /\ call[c].pc = "clear" /\ outstanding \in [Legs -> SUBSET Keys]
      /\ number \in Legs
  BY DEF LegsInv, TasksInv, TasksTypeOK, Clear
<1>2. /\ UNCHANGED <<exec, asked, got, responses, marker>>
      /\ outstanding' = [outstanding EXCEPT ![call[c].leg] = {}]
  BY DEF Clear, docket, history
<1>3. ASSUME NEW n \in Legs, n = call[c].leg, ~marker
      PROVE  exec[n] = "parked" /\ n + 1 \in Legs /\ exec[n + 1] # "none"
  <2>1. c \in Updates  BY <1>1, <1>3 DEF LegsInv, KeysInv, Asks
  <2>2. PointedAt  BY DEF LegsInv, PointerInv, PointedAt
  <2>3. n < number  BY <1>1, <1>3, <2>1, <2>2 DEF PointedAt, OnLeg
  <2>4. n + 1 \in Legs /\ n + 1 <= number  BY <1>1, <2>3, TaskSets DEF Legs
  <2>5. exec[n + 1] # "none" /\ exec[number] # "none"
    <3>1. number <= number  BY <1>1 DEF Legs
    <3> QED  BY <1>1, <2>2, <2>4, <3>1 DEF PointedAt, PointerOK
  <2> QED  BY <1>1, <2>3, <2>4, <2>5 DEF LegsParked
<1>4. ASSUME NEW n \in Legs PROVE Covered(n)'
  <2>1. Covered(n)  BY DEF AnswersOK
  <2>2. CASE n = call[c].leg  BY <1>2, <1>3, <2>1, <2>2 DEF Covered
  <2>3. CASE n # call[c].leg
    <3>1. outstanding'[n] = outstanding[n]  BY <1>1, <1>2, <2>3
    <3>2. ToolsOf(outstanding[n])' = ToolsOf(outstanding[n])  BY <3>1 DEF ToolsOf
    <3> QED  BY <1>2, <2>1, <3>2 DEF Covered
  <2> QED  BY <2>2, <2>3
<1>5. \A n \in Legs : Supplied(n)'  BY <1>2 DEF AnswersOK, Supplied, Awaits, Incomplete
<1>6. ASSUME NEW d \in Updates PROVE Backed(call[d])'
  <2>1. CASE StoreAnswers(d) \/ CountRest(d)
    <3>1. d # c  BY <1>1, <2>1 DEF StoreAnswers, CountRest
    <3>2. d \in Calls /\ \E pc : Goto(d, pc)
      BY <2>1, Kinds, Zenon DEF StoreAnswers, CountRest
    <3>3. call'[c].pc = call[c].pc  BY <1>1, <3>1, <3>2, GotoIs DEF Same
    <3>4. call'[c].pc \in {"release", "stop"}
      <4>1. \E pc \in {"release", "stop"} : Goto(c, pc)  BY DEF Clear
      <4> QED  BY <1>1, <4>1, GotoIs
    <3> QED  BY <1>1, <3>3, <3>4
  <2>2. CASE ~StoreAnswers(d) /\ ~CountRest(d)  BY <1>1, <1>2, <2>2, BackedStays
  <2> QED  BY <2>1, <2>2
<1> QED  BY <1>4, <1>5, <1>6 DEF AnswersOK

LEMMA AnswersOfStop ==
    ASSUME LegsInv, AnswersOK, [Next]_vars, NEW c \in Calls, c \in Cancels, Stop(c)
    PROVE  AnswersOK'
<1>1. /\ TasksInv /\ call[c].pc = "stop" /\ exec \in [Legs -> Executions]
  BY DEF LegsInv, TasksInv, TasksTypeOK, Stop
<1>2. /\ UNCHANGED <<asked, got, responses, outstanding, marker>>
      /\ \A n \in Legs : exec'[n] = exec[n] \/ (exec[n] = "queued" /\ exec'[n] = "cancelled")
  BY <1>1 DEF Stop, redis, history
<1>3. ASSUME NEW n \in Legs PROVE Covered(n)'
  <2>1. Covered(n) /\ ToolsOf(outstanding[n])' = ToolsOf(outstanding[n])
    BY <1>2 DEF AnswersOK, ToolsOf
  <2>2. n + 1 \in Legs => (exec'[n + 1] = "none" => exec[n + 1] = "none")  BY <1>2
  <2> QED  BY <1>2, <2>1, <2>2 DEF Covered
<1>4. ASSUME NEW n \in Legs PROVE Supplied(n)'
  <2>1. Supplied(n)  BY DEF AnswersOK
  <2> QED  BY <1>2, <2>1 DEF Supplied, Awaits, Incomplete
<1>5. ASSUME NEW d \in Updates PROVE Backed(call[d])'
  <2>1. d # c /\ d \in Calls /\ Backed(call[d])  BY Kinds DEF AnswersOK
  <2>2. Same(d)  BY <1>1, <2>1, GotoIs DEF Stop
  <2> QED  BY <1>2, <2>1, <2>2 DEF Same, Kept, Backed
<1> QED  BY <1>3, <1>4, <1>5 DEF AnswersOK

LEMMA AnswersStep ==
    LegsInv /\ HitsInv /\ LegsParked /\ AnswersOK /\ [Next]_vars /\ slips' = {} => AnswersOK'
<1> SUFFICES ASSUME LegsInv, HitsInv, LegsParked, AnswersOK, [Next]_vars, slips' = {}
             PROVE  AnswersOK'
  OBVIOUS
<1>1. slips = {} /\ TasksInv  BY SlipsGrow DEF LegsInv
<1>2. CASE \E n \in Legs : Worker(n) \/ Redeliver(n)  BY <1>2, AnswersOfWorkers
<1>3. CASE \E c \in Updates : CountRest(c) \/ Enqueue(c)
  BY <1>1, <1>3, AnswersOfCountRest, AnswersOfEnqueue
<1>4. CASE \E c \in Calls : (c \in Updates \/ c \in Cancels) /\ Clear(c)
  BY <1>1, <1>4, AnswersOfClear
<1>5. CASE \E c \in Cancels : Stop(c)  BY <1>5, AnswersOfStop, Kinds
<1>6. ASSUME ~\E n \in Legs : Worker(n) \/ Redeliver(n),
             ~\E c \in Updates : CountRest(c) \/ Enqueue(c),
             ~\E c \in Calls : (c \in Updates \/ c \in Cancels) /\ Clear(c),
             ~\E c \in Cancels : Stop(c)
      PROVE  AnswersOK'
  <2>1. ASSUME NEW c \in Calls, CountRest(c) \/ Clear(c) PROVE FALSE
    <3>1. c \in Gets \/ c \in Updates \/ c \in Cancels  BY DEF Calls
    <3>2. call[c].pc \in {"rest", "clear"}  BY <2>1 DEF CountRest, Clear
    <3>3. c \notin Gets  BY <1>1, <3>2 DEF TasksInv, Placed, Fits, GetFits
    <3>4. c \in Cancels => call[c].pc # "rest"  BY <1>1 DEF TasksInv, Placed, Fits, CancelFits
    <3> QED  BY <1>6, <2>1, <3>1, <3>3, <3>4 DEF CountRest
  <2>2. ASSUME NEW c \in Updates, EnqueueFails(c) PROVE exec' = exec
    BY <1>1, <2>2 DEF EnqueueFails
  <2>3. UNCHANGED <<asked, got, outstanding, exec>> /\ (marker => marker')
    BY <1>6, <2>1, <2>2, CallsLeave
  <2>4. /\ responses \subseteq responses'
        /\ \A d \in Updates : StoreAnswers(d) => responses' = Merged(d)
    BY <1>6, CallsLeave DEF StoreAnswers, Merged
  <2>5. ASSUME NEW n \in Legs PROVE Covered(n)' /\ Supplied(n)'
    <3>1. Covered(n) /\ Supplied(n) /\ ToolsOf(outstanding[n])' = ToolsOf(outstanding[n])
      BY <2>3 DEF AnswersOK, ToolsOf
    <3>2. marker \in BOOLEAN /\ marker' \in BOOLEAN
      <4>1. LegsInv'  BY LegsStep
      <4> QED  BY <4>1 DEF LegsInv, TasksInv, TasksTypeOK
    <3> QED  BY <2>3, <2>4, <3>1, <3>2 DEF Covered, Supplied, Awaits, Incomplete
  <2>6. ASSUME NEW d \in Updates PROVE Backed(call[d])'
    <3>1. CASE StoreAnswers(d)
      <4>1. d \in Calls /\ call[d].pc = "answers" /\ Goto(d, "rest")
        BY <3>1, Kinds DEF StoreAnswers
      <4>2. call'[d].pc = "rest" /\ call'[d].match = call[d].match
        BY <1>1, <4>1, GotoIs DEF Kept
      <4>3. ToolsOf(call[d].match) \subseteq responses'  BY <2>4, <3>1 DEF Merged
      <4>4. ToolsOf(call[d].match)' = ToolsOf(call[d].match)  BY <4>2 DEF ToolsOf
      <4> QED  BY <4>2, <4>3, <4>4 DEF Backed
    <3>2. CASE ~StoreAnswers(d)
      BY <1>1, <1>6, <2>3, <2>4, <3>2, BackedStays
    <3> QED  BY <3>1, <3>2
  <2> QED  BY <2>5, <2>6 DEF AnswersOK
<1> QED  BY <1>2, <1>3, <1>4, <1>5, <1>6

-----------------------------------------------------------------------------
(* Acknowledged answers                                                    *)

(* Legs left behind have no requests, but for the one being cleared.       *)
Clearing(n) == HeldUp({"clear"}) /\ call[lock].leg = n
Cleared(n) == n < number => outstanding[n] = {} \/ Clearing(n)

(* What an update answers is of its leg or one before; of its own leg it   *)
(* has matched all there is, and released none it has not retired.         *)
Accounts(r) ==
    /\ r.pc \notin Waiting => \A k \in r.keys : k.leg <= r.leg
    /\ r.pc \in {"answers", "rest"} => r.keys \cap outstanding[r.leg] \subseteq r.match
    /\ r.pc = "release" /\ ~marker => \A k \in r.keys : k \notin outstanding[k.leg]

AcksOK ==
    /\ \A n \in Legs : Cleared(n)
    /\ \A k \in shown : k.leg <= number
    /\ \A c \in Gets : call[c].pc \in {"sync", "marker", "inputs"} => call[c].leg <= number
    /\ \A c \in Updates : Accounts(call[c])
    /\ \A k \in acked : k \in shown /\ (k \notin outstanding[k.leg] \/ marker)

(* An update that clears goes on clearing the same leg until it is clear.  *)
LEMMA ClearingStays ==
    ASSUME LegsInv, [Next]_vars, "torn" \notin slips', NEW n \in Legs, Clearing(n)
    PROVE  Clearing(n)' \/ outstanding'[n] = {}
<1>1. PICK d \in Updates : TasksInv /\ d \in Calls /\ call[d].pc = "clear" /\ call[d].leg = n
  BY Kinds DEF LegsInv, Clearing, HeldUp
<1>2. TasksInv'  BY LegsStep DEF LegsInv
<1>3. CASE Same(d)
  <2>1. call'[d].pc = "clear" /\ call'[d].leg = n  BY <1>1, <1>3 DEF Same, Kept
  <2>2. UpdateFits(call[d])'  BY <1>1, <1>2 DEF TasksInv, Placed, Fits
  <2>3. lock' = d  BY <1>1, <1>2, <2>1, <2>2 DEF TasksInv, Exclusive, UpdateFits
  <2> QED  BY <1>1, <2>1, <2>3 DEF Clearing, HeldUp
<1>4. CASE Clear(d)
  <2>1. outstanding' = [outstanding EXCEPT ![n] = {}]  BY <1>1, <1>4 DEF Clear
  <2> QED  BY <1>1, <2>1 DEF TasksInv, TasksTypeOK
<1>5. \/ Same(d)
      \/ call[d].pc \in Tear => "torn" \in slips'
      \/ ReadNumber(d) \/ Acquire(d) \/ Recheck(d) \/ Match(d) \/ StoreAnswers(d)
      \/ CountRest(d) \/ Enqueue(d) \/ PointKey(d) \/ PointNumber(d) \/ Clear(d)
  BY <1>1, UpdateGoes
<1> QED
  BY <1>1, <1>3, <1>4, <1>5 DEF Tear, ReadNumber, Acquire, Recheck, Match, StoreAnswers,
     CountRest, Enqueue, PointKey, PointNumber

LEMMA ClearedStep ==
    ASSUME LegsInv, LegsParked, AcksOK, [Next]_vars, "torn" \notin slips', NEW n \in Legs
    PROVE  Cleared(n)'
<1>1. /\ TasksInv /\ PointedAt /\ number \in Legs /\ Cleared(n)
      /\ exec \in [Legs -> Executions]
  BY SlipsGrow DEF LegsInv, PointerInv, PointedAt, TasksInv, TasksTypeOK, AcksOK
<1>2. CASE number' = number
  <2> SUFFICES ASSUME n < number PROVE outstanding'[n] = {} \/ Clearing(n)'
    BY <1>2 DEF Cleared
  <2>1. CASE Clearing(n)  BY <2>1, ClearingStays
  <2>2. CASE outstanding[n] = {}
    <3>1. exec[number] # "none"
      <4>1. number <= number  BY <1>1 DEF Legs
      <4> QED  BY <1>1, <4>1 DEF PointedAt, PointerOK
    <3>2. exec[n] = "parked"  BY <1>1, <3>1 DEF LegsParked
    <3>3. ~Ask(n)  BY <3>2 DEF Ask
    <3> QED  BY <1>1, <2>2, <3>3, RequestsMove
  <2> QED  BY <1>1, <2>1, <2>2 DEF Cleared
<1>3. ASSUME NEW c \in Updates, PointNumber(c) PROVE Cleared(n)'
  <2>1. /\ c \in Calls /\ call[c].pc = "pointnumber" /\ number' = call[c].leg + 1
        /\ lock' = lock /\ outstanding' = outstanding /\ Goto(c, "clear")
    BY <1>3, Kinds DEF PointNumber
  <2>2. lock = c /\ call[c].leg = number /\ ~HeldUp({"clear"})
    BY <1>1, <2>1, Resumes DEF Resuming
  <2>3. call'[c].pc = "clear" /\ call'[c].leg = number
    BY <1>1, <2>1, <2>2, GotoIs DEF Kept
  <2>4. CASE n = number  BY <2>1, <2>2, <2>3, <2>4 DEF Cleared, Clearing, HeldUp
  <2>5. CASE n < number  BY <1>1, <2>1, <2>2, <2>5 DEF Cleared, Clearing
  <2>6. CASE n > number  BY <1>1, <2>1, <2>2, <2>6 DEF Cleared, Legs
  <2> QED  BY <1>1, <2>4, <2>5, <2>6 DEF Legs
<1> QED  BY <1>2, <1>3, PointerMoves

(* The pointer does not go back.                                           *)
LEMMA NumberGrows ==
    ASSUME LegsInv, [Next]_vars, "torn" \notin slips
    PROVE  /\ number \in Nat /\ number' \in Nat
           /\ number' = number \/ number' = number + 1
<1>1. TasksInv /\ PointedAt /\ number \in Legs /\ number \in Nat
  BY DEF LegsInv, PointerInv, PointedAt, TasksInv, TasksTypeOK, Legs
<1>2. ASSUME NEW c \in Updates, PointNumber(c) PROVE number' = number + 1
  <2>1. call[c].pc = "pointnumber" /\ number' = call[c].leg + 1
    BY <1>2 DEF PointNumber
  <2> QED  BY <1>1, <2>1, Resumes DEF Resuming
<1> QED  BY <1>1, <1>2, PointerMoves

(* A poll is on the leg it read the number of.                             *)
LEMMA GetGoes ==
    ASSUME TasksInv, [Next]_vars, NEW d \in Gets
    PROVE  \/ Same(d)
           \/ call'[d].pc \in {"idle", "key"}
           \/ ReadKey(d) \/ ReadNumber(d) \/ Sync(d)
           \/ /\ Goto(d, "inputs")
              /\ call[d].pc = "marker" /\ ~marker /\ call[d].seen = "completed"
<1>1. d \in Calls /\ d \notin Updates /\ d \notin Cancels  BY Kinds
<1>2. CASE Dies(d)  BY <1>1, <1>2, DiesIs, NoCallIs
<1>3. CASE Poll(d)  BY <1>1, <1>3, ArrivesIs DEF Poll
<1>4. CASE Status(d) \/ ReportInputs(d)
  <2>1. \/ call' = [call EXCEPT ![d] = NoCall]
        \/ /\ Goto(d, "inputs")
           /\ call[d].pc = "marker" /\ ~marker /\ call[d].seen = "completed"
    BY <1>4 DEF Status, ReportInputs, Reply
  <2> QED  BY <1>1, <2>1, EndIs, NoCallIs
<1> QED  BY <1>1, <1>2, <1>3, <1>4, OthersStay DEF GetsOn, GetSteps

(* What is known stays known, and only the end of a call acknowledges.     *)
LEMMA KnownStays ==
    ASSUME [Next]_vars
    PROVE  /\ shown \subseteq shown' /\ (marker => marker') /\ (told => told')
           /\ acked' = acked \/ \E c \in Calls : Release(c)
<1>1. ASSUME NEW m \in Legs, Worker(m) \/ Redeliver(m)
      PROVE  UNCHANGED <<shown, marker, told, acked>>
  BY <1>1 DEF Worker, Start, Ask, DropAnswers, Finish, LegCancelled, Redeliver, redis,
     client, history
<1>2. ASSUME NEW c \in Gets, GetsOn(c)
      PROVE  UNCHANGED <<marker, acked>> /\ shown \subseteq shown' /\ (told => told')
  <2>1. ASSUME NEW status, NEW ks, Reply(c, status, ks) PROVE told => told'
    BY <2>1, Zenon DEF Reply
  <2>2. told' = told \/ \E status, ks : Reply(c, status, ks)
    BY <1>2, Zenon DEF GetsOn, Poll, GetSteps, Arrives, ReadKey, ReadNumber, Sync, Status,
       ReportInputs, history
  <2>3. UNCHANGED <<marker, acked>> /\ shown \subseteq shown'
    BY <1>2 DEF GetsOn, Poll, GetSteps, Arrives, ReadKey, ReadNumber, Sync, Status,
       ReportInputs, Reply, redis, client
  <2> QED  BY <2>1, <2>2, <2>3
<1>3. ASSUME NEW c \in Updates, UpdatesOn(c)
      PROVE  UNCHANGED <<shown, marker, told>> /\ (acked' = acked \/ Release(c))
  BY <1>3 DEF UpdatesOn, Send, Arrives, Acquire, UpdateSteps, EnqueueFails, Raises, ReadNumber,
     GiveUp, Recheck, Match, StoreAnswers, CountRest, Enqueue, PointKey, PointNumber, Clear,
     Release, redis, client, history
<1>4. ASSUME NEW c \in Cancels, CancelsOn(c)
      PROVE  /\ UNCHANGED <<shown, told>> /\ (marker => marker')
             /\ acked' = acked \/ Release(c)
  BY <1>4 DEF CancelsOn, CallCancel, Arrives, Acquire, CancelSteps, Raises, GiveUp, ReadKey,
     ReadNumber, SyncCancel, CancelInputs, Mark, Clear, Stop, Release, redis, client, history
<1>5. (\E c \in Calls : Dies(c)) \/ LockExpires \/ UNCHANGED vars
        => UNCHANGED <<shown, marker, told, acked>>
  BY DEF Dies, LockExpires, vars, redis, client, history
<1> QED  BY <1>1, <1>2, <1>3, <1>4, <1>5, Kinds DEF Next, GetsOn, UpdatesOn, CancelsOn

(* An update with the lock finds the legs left behind without requests.    *)
LEMMA Behind ==
    ASSUME LegsInv, AcksOK, "torn" \notin slips,
           NEW c \in Updates, call[c].pc \notin {"idle", "number", "lock"},
           NEW n \in Legs, n < call[c].leg
    PROVE  outstanding[n] = {}
<1>1. TasksInv /\ PointedAt /\ number \in Legs
  BY DEF LegsInv, PointerInv, PointedAt, TasksInv, TasksTypeOK
<1>2. lock = c /\ call[c].leg \in Legs  BY <1>1, Holds
<1>3. call[c].leg <= number  BY <1>1 DEF PointedAt, OnLeg, Waiting
<1>4. n < number /\ n # call[c].leg  BY <1>1, <1>2, <1>3 DEF Legs
<1> QED  BY <1>2, <1>4 DEF AcksOK, Cleared, Clearing

LEMMA AccountsStep ==
    ASSUME LegsInv, HitsInv, LegsParked, AcksOK, [Next]_vars, "torn" \notin slips,
           NEW d \in Updates
    PROVE  Accounts(call[d])'
<1>1. /\ TasksInv /\ KeysInv /\ d \in Calls /\ Accounts(call[d])
      /\ call[d].keys \subseteq shown
      /\ outstanding \in [Legs -> SUBSET Keys] /\ \A k \in shown : k.leg \in Legs
  BY Kinds DEF LegsInv, KeysInv, Asks, AcksOK, TasksInv, TasksTypeOK, Keys
<1>2. ASSUME NEW k \in call[d].keys, NEW n \in Legs, k \in outstanding'[n]
      PROVE  k \in outstanding[n]
  BY <1>1, <1>2, ShownOnce
<1>3. marker => marker'  BY KnownStays
<1>4. CASE Same(d)
  <2>1. /\ call'[d].pc = call[d].pc /\ call'[d].leg = call[d].leg
        /\ call'[d].keys = call[d].keys /\ call'[d].match = call[d].match
    BY <1>4 DEF Same, Kept
  <2>2. call[d].pc \in {"answers", "rest"} => call[d].leg \in Legs  BY <1>1, Holds
  <2> QED  BY <1>1, <1>2, <1>3, <2>1, <2>2 DEF Accounts
<1>5. CASE call'[d].pc \in Waiting  BY <1>5 DEF Accounts, Waiting
<1>6. CASE ReadNumber(d)
  <2>1. call'[d].pc = "lock" /\ call'[d].leg = number /\ call'[d].keys = call[d].keys
    BY <1>1, <1>6, ReadNumberIs
  <2>2. \A k \in call[d].keys : k.leg <= number  BY <1>1 DEF AcksOK
  <2> QED  BY <2>1, <2>2 DEF Accounts
<1>7. ASSUME call'[d].leg = call[d].leg, call'[d].keys = call[d].keys, call[d].pc \notin Waiting
      PROVE  \A k \in call'[d].keys : k.leg <= call'[d].leg
  BY <1>1, <1>7 DEF Accounts
<1>8. ASSUME call'[d].leg = call[d].leg, call'[d].keys = call[d].keys, call[d].pc \notin Waiting,
             call'[d].pc \notin {"answers", "rest", "release"}
      PROVE  Accounts(call[d])'
  BY <1>7, <1>8 DEF Accounts
<1>9. CASE Acquire(d)
  <2>1. /\ call[d].pc = "lock" /\ call'[d].pc = "recheck"
        /\ call'[d].leg = call[d].leg /\ call'[d].keys = call[d].keys
    BY <1>1, <1>9, AcquireIs
  <2> QED  BY <1>8, <2>1 DEF Waiting
<1>10. CASE Recheck(d)
  <2>1. PICK pc \in {"release", "match"} :
           Goto(d, pc) /\ call[d].pc = "recheck" /\ (pc = "release" => marker)
    BY <1>10 DEF Recheck
  <2>2. /\ call'[d].pc = pc /\ call'[d].leg = call[d].leg /\ call'[d].keys = call[d].keys
    BY <1>1, <2>1, GotoIs DEF Kept
  <2> QED  BY <1>3, <1>7, <2>1, <2>2 DEF Accounts, Waiting
<1>11. CASE Match(d)
  <2> DEFINE ks == call[d].keys \cap outstanding[call[d].leg]
  <2>1. /\ call[d].pc = "match" /\ call'[d].match = ks
        /\ call'[d].pc = IF ks = {} THEN "release" ELSE "answers"
        /\ call'[d].leg = call[d].leg /\ call'[d].keys = call[d].keys
        /\ outstanding' = outstanding
    BY <1>1, <1>11, MatchIs DEF Match, redis
  <2>2. \A k \in call[d].keys : k.leg <= call[d].leg  BY <1>7, <2>1 DEF Waiting
  <2>3. call[d].leg \in Legs  BY <1>1, <2>1, Holds
  <2>4. ASSUME ks = {}, NEW k \in call[d].keys PROVE k \notin outstanding[k.leg]
    <3>1. k.leg \in Legs /\ (k.leg = call[d].leg \/ k.leg < call[d].leg)
      BY <1>1, <2>2, <2>3 DEF Legs
    <3>2. CASE k.leg = call[d].leg  BY <2>4, <3>2
    <3>3. CASE k.leg < call[d].leg  BY <2>1, <3>1, <3>3, Behind
    <3> QED  BY <3>1, <3>2, <3>3
  <2>5. ks \subseteq ks /\ ks = call'[d].keys \cap outstanding'[call'[d].leg]  BY <2>1
  <2> HIDE DEF ks
  <2> QED  BY <2>1, <2>2, <2>4, <2>5 DEF Accounts, Waiting
<1>12. CASE StoreAnswers(d)
  <2>1. Goto(d, "rest") /\ call[d].pc = "answers" /\ outstanding' = outstanding
    BY <1>12 DEF StoreAnswers
  <2>2. /\ call'[d].pc = "rest" /\ call'[d].leg = call[d].leg
        /\ call'[d].keys = call[d].keys /\ call'[d].match = call[d].match
    BY <1>1, <2>1, GotoIs DEF Kept
  <2> QED  BY <1>1, <2>1, <2>2 DEF Accounts, Waiting
<1>13. CASE CountRest(d) \/ Clear(d)
  <2>1. /\ call[d].pc \in {"rest", "clear"} /\ call[d].leg \in Legs
        /\ \E pc : Goto(d, pc)
    BY <1>1, <1>13, Holds, Zenon DEF CountRest, Clear
  <2>2. /\ call'[d].leg = call[d].leg /\ call'[d].keys = call[d].keys
        /\ call'[d].pc \in {"enqueue", "release", "stop"}
    <3>1. \E pc \in {"enqueue", "release", "stop"} : Goto(d, pc)
      BY <1>13 DEF CountRest, Clear
    <3> QED  BY <1>1, <3>1, GotoIs DEF Kept
  <2>3. \A k \in call[d].keys : k.leg <= call[d].leg  BY <1>7, <2>1, <2>2 DEF Waiting
  <2>4. ASSUME NEW k \in call[d].keys, call'[d].pc = "release"
        PROVE  k \notin outstanding'[k.leg]
    <3>1. k.leg \in Legs /\ (k.leg = call[d].leg \/ k.leg < call[d].leg)
      BY <1>1, <2>1, <2>3 DEF Legs
    <3>2. CASE k.leg < call[d].leg
      <4>1. outstanding[k.leg] = {}  BY <2>1, <3>1, <3>2, Behind
      <4> QED  BY <1>2, <3>1, <4>1
    <3>3. CASE k.leg = call[d].leg /\ Clear(d)
      <4>1. outstanding'[k.leg] = {}  BY <1>1, <2>1, <3>3 DEF Clear
      <4> QED  BY <4>1
    <3>4. CASE k.leg = call[d].leg /\ CountRest(d)
      <4>1. ~(outstanding[call[d].leg] \subseteq call[d].match)
        <5>1. CASE outstanding[call[d].leg] \subseteq call[d].match
          <6>1. Goto(d, "enqueue")  BY <3>4, <5>1 DEF CountRest
          <6> QED  BY <1>1, <2>4, <6>1, GotoIs
        <5> QED  BY <5>1
      <4>2. outstanding'[k.leg] = outstanding[k.leg] \ call[d].match
        BY <1>1, <2>1, <3>4, <4>1 DEF CountRest, Retired
      <4>3. call[d].pc = "rest"  BY <3>4 DEF CountRest
      <4>4. k \in outstanding[k.leg] => k \in call[d].match
        BY <1>1, <3>4, <4>3 DEF Accounts
      <4> QED  BY <4>2, <4>4
    <3> QED  BY <1>13, <3>1, <3>2, <3>3, <3>4
  <2> QED  BY <2>2, <2>3, <2>4 DEF Accounts
<1>14. CASE Enqueue(d) \/ PointKey(d) \/ PointNumber(d)
  <2>1. /\ call[d].pc \notin Waiting
        /\ \E pc \in {"pointkey", "pointnumber", "clear"} : Goto(d, pc)
    BY <1>14 DEF Enqueue, PointKey, PointNumber, Waiting
  <2>2. /\ call'[d].pc \in {"pointkey", "pointnumber", "clear"}
        /\ call'[d].leg = call[d].leg /\ call'[d].keys = call[d].keys
    BY <1>1, <2>1, GotoIs DEF Kept
  <2> QED  BY <1>8, <2>1, <2>2
<1> QED
  BY <1>1, <1>4, <1>5, <1>6, <1>8, <1>9, <1>10, <1>11, <1>12, <1>13, <1>14, UpdateGoes

LEMMA AckedStep ==
    ASSUME LegsInv, AcksOK, [Next]_vars, NEW k \in acked'
    PROVE  k \in shown' /\ (k \notin outstanding'[k.leg] \/ marker')
<1>1. /\ TasksInv /\ KeysInv /\ shown \subseteq shown' /\ (marker => marker')
      /\ \A j \in shown : j.leg \in Legs
  BY KnownStays DEF LegsInv, TasksInv, TasksTypeOK, Keys
<1>2. CASE k \in acked
  <2>1. k \in shown /\ (k \notin outstanding[k.leg] \/ marker)  BY <1>2 DEF AcksOK
  <2> QED  BY <1>1, <2>1, ShownOnce
<1>3. CASE k \notin acked
  <2>1. PICK c \in Calls : Release(c)  BY <1>3, KnownStays
  <2>2. call[c].pc = "release" /\ k \in call[c].keys  BY <1>3, <2>1 DEF Release
  <2>3. c \in Updates /\ k \in shown  BY <1>1, <2>2 DEF KeysInv, Asks
  <2>4. k \notin outstanding[k.leg] \/ marker
    BY <2>2, <2>3 DEF AcksOK, Accounts
  <2>5. UNCHANGED <<outstanding, marker, shown>>  BY <2>1 DEF Release, redis
  <2> QED  BY <2>3, <2>4, <2>5
<1> QED  BY <1>2, <1>3

LEMMA AcksStep ==
    LegsInv /\ HitsInv /\ LegsParked /\ AcksOK /\ [Next]_vars /\ slips' = {} => AcksOK'
<1> SUFFICES ASSUME LegsInv, HitsInv, LegsParked, AcksOK, [Next]_vars, slips' = {}
             PROVE  AcksOK'
  OBVIOUS
<1>1. slips = {} /\ TasksInv /\ KeysInv  BY SlipsGrow DEF LegsInv
<1>2. number \in Nat /\ (number' = number \/ number' = number + 1)
  BY <1>1, NumberGrows
<1>3. \A n \in Legs : Cleared(n)'  BY ClearedStep
<1>4. ASSUME NEW k \in shown' PROVE k.leg <= number'
  <2>1. CASE k \in shown
    <3>1. k.leg <= number /\ k.leg \in Legs
      BY <1>1, <2>1 DEF AcksOK, TasksInv, TasksTypeOK, Keys
    <3> QED  BY <1>2, <3>1 DEF Legs
  <2>2. CASE k \notin shown
    <3>1. PICK c \in Gets : call[c].pc = "inputs" /\ k.leg = call[c].leg
      BY <1>1, <2>2, ShownNext
    <3>2. call[c].leg <= number /\ k \in Keys
      BY <1>1, <2>2, <3>1, ShownNext DEF AcksOK
    <3> QED  BY <1>2, <3>1, <3>2 DEF Keys, Legs
  <2> QED  BY <2>1, <2>2
<1>5. ASSUME NEW d \in Gets, call'[d].pc \in {"sync", "marker", "inputs"}
      PROVE  call'[d].leg <= number'
  <2>1. d \in Calls /\ d \notin Updates  BY Kinds
  <2>2. CASE ReadNumber(d)
    <3>1. call'[d].leg = number  BY <1>1, <2>1, <2>2, ReadNumberIs
    <3> QED  BY <1>2, <3>1
  <2>3. CASE /\ call'[d].leg = call[d].leg
             /\ call[d].pc \in {"sync", "marker", "inputs"}
    <3>1. call[d].leg <= number /\ call[d].leg \in Legs
      BY <1>1, <2>1, <2>3 DEF AcksOK, TasksInv, Placed, Fits, GetFits
    <3> QED  BY <1>2, <2>3, <3>1 DEF Legs
  <2>4. CASE Same(d)  BY <1>5, <2>3, <2>4 DEF Same, Kept
  <2>5. CASE Sync(d)  BY <1>1, <2>1, <2>3, <2>5, SyncIs
  <2>6. CASE Goto(d, "inputs") /\ call[d].pc = "marker"
    BY <1>1, <2>1, <2>3, <2>6, GotoIs DEF Kept
  <2>7. CASE ReadKey(d)  BY <1>1, <1>5, <2>1, <2>7, ReadKeyIs
  <2> QED  BY <1>1, <1>5, <2>2, <2>4, <2>5, <2>6, <2>7, GetGoes
<1>6. \A d \in Updates : Accounts(call[d])'  BY <1>1, AccountsStep
<1>7. \A k \in acked' : k \in shown' /\ (k \notin outstanding'[k.leg] \/ marker')
  BY AckedStep
<1> QED  BY <1>3, <1>4, <1>5, <1>6, <1>7 DEF AcksOK

-----------------------------------------------------------------------------
(* The theorems about answers                                              *)

AnswersInv == slips = {} => AnswersOK /\ AcksOK
AllAnswers == LegsInv /\ HitsInv /\ ParkedInv /\ AnswersInv

LEMMA AnswersInit == Init => AllAnswers
<1> SUFFICES ASSUME Init PROVE AllAnswers  OBVIOUS
<1>1. LegsInv  BY LegsInit
<1>2. /\ \A c \in Calls : call[c] = NoCall
      /\ \A n \in Legs : /\ asked[n] = {} /\ outstanding[n] = {} /\ got[n] = {}
                         /\ n # 1 => exec[n] = "none"
                         /\ n = 1 => exec[n] = "queued"
      /\ shown = {} /\ acked = {} /\ number = 1 /\ ~marker
  BY DEF Init
<1>3. HitsInv  BY <1>2, NoCallIs, Kinds DEF HitsInv, Hits, Hitting
<1>4. ParkedInv  BY <1>2 DEF ParkedInv, LegsParked, Legs
<1>5. AnswersOK
  <2>1. ASSUME NEW n \in Legs PROVE Covered(n) /\ Supplied(n)
    BY <1>2 DEF Covered, Supplied, Incomplete
  <2> QED  BY <1>2, <2>1, NoCallIs, Kinds DEF AnswersOK, Backed
<1>6. AcksOK
  <2>1. \A n \in Legs : Cleared(n)  BY <1>2 DEF Cleared
  <2> QED  BY <1>2, <2>1, NoCallIs, Kinds DEF AcksOK, Accounts, Waiting
<1> QED  BY <1>1, <1>3, <1>4, <1>5, <1>6 DEF AllAnswers, AnswersInv

LEMMA AnswersNext == AllAnswers /\ [Next]_vars => AllAnswers'
<1> SUFFICES ASSUME AllAnswers, [Next]_vars PROVE AllAnswers'  OBVIOUS
<1>1. LegsInv' /\ HitsInv' /\ ParkedInv'
  BY LegsStep, HitsStep, ParkedStep DEF AllAnswers
<1>2. ASSUME slips' = {} PROVE AnswersOK' /\ AcksOK'
  <2>1. slips = {}  BY <1>2, SlipsGrow
  <2>2. LegsInv /\ HitsInv /\ LegsParked /\ AnswersOK /\ AcksOK
    BY <2>1 DEF AllAnswers, ParkedInv, AnswersInv
  <2> QED  BY <1>2, <2>2, AnswersStep, AcksStep
<1> QED  BY <1>1, <1>2 DEF AllAnswers, AnswersInv

(* However many payloads brought the answers, however they raced: a leg    *)
(* has one to every request of the leg before it.                          *)
THEOREM LegsAnsweredInFull == Spec => []AnsweredInFull
<1>1. AllAnswers => AnsweredInFull
  <2> SUFFICES ASSUME AllAnswers, NEW n \in Legs, Incomplete(n), slips = {} PROVE FALSE
    BY DEF AnsweredInFull
  <2>1. Supplied(n)  BY DEF AllAnswers, AnswersInv, AnswersOK
  <2> QED  BY <2>1 DEF Supplied, Incomplete
<1> QED  BY <1>1, AnswersInit, AnswersNext, PTL DEF Spec

(* An answer that tasks/update acknowledged is not asked for again.        *)
THEOREM AcknowledgedOnce == Spec => []AckedAnswersKept
<1>1. AllAnswers => AckedAnswersKept  BY DEF AllAnswers, AnswersInv, AcksOK, AckedAnswersKept
<1> QED  BY <1>1, AnswersInit, AnswersNext, PTL DEF Spec

=============================================================================
