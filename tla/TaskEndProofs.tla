---------------------------- MODULE TaskEndProofs ----------------------------
(***************************************************************************)
(* Theorems about TaskLegs, for every value of its constants: the end of a *)
(* task that the client was told of is final, and a cancel leaves it.      *)
(***************************************************************************)
EXTENDS TaskAnswersProofs

-----------------------------------------------------------------------------
(* The inductive invariant *)

(* Only a leg that asked has requests.                                     *)
Unasked(n) ==
    /\ asked[n] = {} => outstanding[n] = {}
    /\ exec[n] \in {"none", "running", "completed"} => asked[n] = {}

(* The two halves of the pointer differ between their two writes only.     *)
Halfway == HeldUp({"pointnumber"})
KeyOK == key = IF Halfway THEN number + 1 ELSE number

(* What a poll read of the task is so still, or was before a next leg.     *)
Looked(r) ==
    /\ r.pc \in {"number", "sync", "marker", "inputs"} => r.key <= key
    /\ r.pc \in {"sync", "marker", "inputs"} => r.leg <= number /\ r.key <= r.leg + 1
    /\ r.pc \in {"marker", "inputs"} /\ r.seen = "failed" => exec[r.key] = "failed"
    /\ r.pc \in {"marker", "inputs"} /\ r.seen = "completed" =>
          exec[r.key] \in {"completed", "parked"}
    /\ r.pc = "inputs" => r.seen = "completed"

(* The end the client was told of is that of the last leg.                 *)
Over ==
    \/ exec[key] = "failed"
    \/ exec[key] = "completed" /\ key = number

(* A cancel that came after it finds it.                                   *)
Finds(r) ==
    r.late =>
        /\ told /\ r.pc # "mark"
        /\ r.pc \in {"number", "sync"} => exec[r.key] \in {"completed", "failed"}
        /\ r.pc = "sync" /\ exec[r.key] = "completed" => r.leg = r.key
        /\ r.pc = "inputs" => exec[r.key] = "completed" /\ r.leg = r.key

EndOK ==
    /\ \A n \in Legs : Unasked(n)
    /\ KeyOK
    /\ \A c \in Gets : Looked(call[c])
    /\ told => Over
    /\ \A c \in Cancels : Finds(call[c])

Reopened == {"torn", "early", "rerun"}
EndInv == marker \/ Reopened \cap slips # {} \/ EndOK

-----------------------------------------------------------------------------
(* Legs that ended                                                         *)

LEMMA EndedStays ==
    ASSUME LegsInv, [Next]_vars, "torn" \notin slips,
           NEW n \in Legs, exec[n] \in {"completed", "failed", "parked"}
    PROVE  exec'[n] = exec[n]
<1>1. exec[n] \notin Live /\ exec[n] # "none"  BY DEF Live, Active
<1> QED  BY <1>1, ExecMoves, EnqueuesNew DEF LegsInv

LEMMA UnaskedStep ==
    ASSUME LegsInv, [Next]_vars, "rerun" \notin slips', NEW n \in Legs, Unasked(n)
    PROVE  Unasked(n)'
<1>1. /\ TasksInv /\ exec \in [Legs -> Executions] /\ asked \in [Legs -> SUBSET Tools]
      /\ outstanding \in [Legs -> SUBSET Keys]
  BY DEF LegsInv, TasksInv, TasksTypeOK
<1>2. CASE Start(n)
  <2>1. asked[n] = {} /\ asked'[n] = {} /\ outstanding' = outstanding
    BY <1>1, <1>2 DEF Start, redis
  <2> QED  BY <2>1 DEF Unasked
<1>3. CASE Ask(n)
  <2>1. PICK tool : asked' = [asked EXCEPT ![n] = asked[n] \cup {tool}]  BY <1>3 DEF Ask
  <2>2. asked'[n] # {} /\ exec'[n] = "asking"  BY <1>1, <1>3, <2>1 DEF Ask
  <2> QED  BY <2>2 DEF Unasked
<1>4. CASE DropAnswers(n) \/ Finish(n) \/ LegCancelled(n) \/ Redeliver(n)
  <2>1. /\ UNCHANGED <<asked, outstanding>>
        /\ exec'[n] \in {"none", "running", "completed"} => exec[n] = "running"
    BY <1>1, <1>4 DEF DropAnswers, Finish, LegCancelled, Redeliver, redis, history
  <2> QED  BY <2>1 DEF Unasked
<1>5. ASSUME NEW m \in Legs, m # n, Worker(m) \/ Redeliver(m) PROVE Unasked(n)'
  <2>1. ASSUME Ask(m)
        PROVE  exec'[n] = exec[n] /\ asked'[n] = asked[n] /\ outstanding'[n] = outstanding[n]
    <3>1. PICK new, tool :
            /\ outstanding' = [outstanding EXCEPT ![m] = outstanding[m] \cup {new}]
            /\ asked' = [asked EXCEPT ![m] = asked[m] \cup {tool}]
      BY <2>1 DEF Ask
    <3>2. exec' = [exec EXCEPT ![m] = "asking"]  BY <2>1 DEF Ask
    <3> QED  BY <1>1, <1>5, <3>1, <3>2
  <2>2. ASSUME ~Ask(m)
        PROVE  exec'[n] = exec[n] /\ asked'[n] = asked[n] /\ outstanding'[n] = outstanding[n]
    BY <1>1, <1>5, <2>2 DEF Worker, Start, DropAnswers, Finish, LegCancelled, Redeliver, redis,
       history
  <2> QED  BY <2>1, <2>2 DEF Unasked
<1>6. CASE ~\E m \in Legs : Worker(m) \/ Redeliver(m)
  <2>1. asked' = asked /\ outstanding'[n] \subseteq outstanding[n]
    <3>1. ~Ask(n)  BY <1>6 DEF Worker
    <3> QED  BY <1>1, <1>6, <3>1, CallsLeave, RequestsMove
  <2>2. exec'[n] \in {"none", "running", "completed"} => exec[n] = exec'[n]
    <3>1. ASSUME NEW c \in Updates, Enqueue(c) \/ EnqueueFails(c)
          PROVE  exec'[n] = exec[n] \/ exec'[n] = "queued"
      BY <1>1, <3>1 DEF Enqueue, EnqueueFails, Enqueued
    <3>2. ASSUME NEW c \in Cancels, Stop(c)
          PROVE  exec'[n] = exec[n] \/ exec'[n] = "cancelled"
      BY <1>1, <3>2 DEF Stop
    <3> QED  BY <1>6, <3>1, <3>2, CallsLeave
  <2> QED  BY <2>1, <2>2 DEF Unasked
<1> QED  BY <1>2, <1>3, <1>4, <1>5, <1>6 DEF Worker

(* The leg the key names was enqueued; one that ended before is before it. *)
LEMMA KeyLeg ==
    ASSUME LegsInv, "torn" \notin slips, KeyOK
    PROVE  /\ key \in Legs /\ exec[key] # "none"
           /\ number \in Legs /\ number <= key /\ key <= number + 1
           /\ key # number => exec[number + 1] # "none"
<1>1. TasksInv /\ PointedAt /\ key \in Legs /\ number \in Legs /\ number \in Nat
  BY DEF LegsInv, PointerInv, PointedAt, TasksInv, TasksTypeOK, Legs
<1>2. CASE Halfway
  <2>1. PICK c \in Updates : call[c].pc = "pointnumber"  BY <1>2 DEF Halfway, HeldUp
  <2>2. exec[number + 1] # "none"  BY <1>1, <2>1, Resumes DEF Resuming
  <2>3. key = number + 1  BY <1>2 DEF KeyOK
  <2> QED  BY <1>1, <2>2, <2>3
<1>3. CASE ~Halfway
  <2>1. key = number  BY <1>3 DEF KeyOK
  <2> QED  BY <1>1, <2>1 DEF PointedAt, PointerOK
<1> QED  BY <1>2, <1>3

LEMMA KeyIsLast ==
    ASSUME LegsInv, LegsParked, "torn" \notin slips, KeyOK,
           NEW n \in Legs, exec[n] \notin {"none", "parked"},
           n <= key \/ exec[key] # "parked"
    PROVE  n = key
<1>1. key \in Legs /\ exec[key] # "none"  BY KeyLeg
<1>2. n < key \/ n = key \/ n > key  BY <1>1 DEF Legs
<1>3. n < key => exec[key] = "none"
  <2>1. n < key => key > n  BY <1>1 DEF Legs
  <2> QED  BY <1>1, <2>1, RunsAlone
<1>4. n > key => exec[key] = "parked"
  <2>1. n > key => key < n  BY <1>1 DEF Legs
  <2> QED  BY <1>1, <2>1, RunsAlone
<1>5. n > key => ~(n <= key)  BY <1>1 DEF Legs
<1> QED  BY <1>1, <1>2, <1>3, <1>4, <1>5

-----------------------------------------------------------------------------
(* The pointer                                                             *)

LEMMA KeyStep ==
    ASSUME LegsInv, KeyOK, [Next]_vars, "torn" \notin slips'
    PROVE  KeyOK'
<1>1. TasksInv /\ TasksInv' /\ PointedAt
  BY SlipsGrow, LegsStep DEF LegsInv, PointerInv, PointedAt
<1>2. ASSUME NEW c \in Updates, PointKey(c) PROVE KeyOK'
  <2>1. /\ c \in Calls /\ call[c].pc = "pointkey" /\ Goto(c, "pointnumber")
        /\ key' = call[c].leg + 1 /\ UNCHANGED <<number, lock>>
    BY <1>2, Kinds DEF PointKey
  <2>2. lock = c /\ call[c].leg = number  BY <1>1, <2>1, Resumes DEF Resuming
  <2>3. call'[c].pc = "pointnumber"  BY <1>1, <2>1, GotoIs
  <2> QED  BY <2>1, <2>2, <2>3 DEF KeyOK, Halfway, HeldUp
<1>3. ASSUME NEW c \in Updates, PointNumber(c) PROVE KeyOK'
  <2>1. /\ c \in Calls /\ call[c].pc = "pointnumber" /\ Goto(c, "clear")
        /\ number' = call[c].leg + 1 /\ UNCHANGED <<key, lock>>
    BY <1>3, Kinds DEF PointNumber
  <2>2. lock = c /\ call[c].leg = number  BY <1>1, <2>1, Resumes DEF Resuming
  <2>3. call'[c].pc = "clear"  BY <1>1, <2>1, GotoIs
  <2>4. Halfway /\ ~Halfway'  BY <2>1, <2>2, <2>3 DEF Halfway, HeldUp
  <2> QED  BY <2>1, <2>2, <2>4 DEF KeyOK
<1>4. ASSUME ~\E c \in Updates : PointKey(c) \/ PointNumber(c) PROVE KeyOK'
  <2>1. UNCHANGED <<key, number>>  BY <1>4, PointerMoves
  <2>2. ASSUME Halfway' PROVE Halfway
    <3>1. PICK d \in Updates : call'[d].pc = "pointnumber"  BY <2>2 DEF Halfway, HeldUp
    <3>2. d \in Calls  BY Kinds
    <3>3. call[d].pc = "pointnumber"
      <4>1. CASE Same(d)  BY <3>1, <4>1 DEF Same
      <4>2. CASE \/ Recheck(d) \/ StoreAnswers(d) \/ CountRest(d) \/ Enqueue(d) \/ Clear(d)
        <5>1. \E pc : Goto(d, pc) /\ pc # "pointnumber"
          BY <4>2 DEF Recheck, StoreAnswers, CountRest, Enqueue, Clear
        <5> QED  BY <1>1, <3>1, <3>2, <5>1, GotoIs
      <4>3. CASE ReadNumber(d) \/ Acquire(d) \/ Match(d)
        BY <1>1, <3>1, <3>2, <4>3, ReadNumberIs, AcquireIs, MatchIs
      <4> QED  BY <1>1, <1>4, <3>1, <4>1, <4>2, <4>3, UpdateGoes DEF Waiting
    <3>4. lock = d  BY <1>1, <3>3, Holds
    <3> QED  BY <3>3, <3>4 DEF Halfway, HeldUp
  <2>3. ASSUME Halfway PROVE Halfway'
    <3>1. PICK d \in Updates : d \in Calls /\ call[d].pc = "pointnumber"
      BY <2>3, Kinds DEF Halfway, HeldUp
    <3>2. Same(d)
      BY <1>1, <1>4, <3>1, UpdateGoes DEF Tear, ReadNumber, Acquire, Recheck, Match,
         StoreAnswers, CountRest, Enqueue, PointKey, Clear
    <3>3. call'[d].pc = "pointnumber"  BY <3>1, <3>2 DEF Same
    <3>4. UpdateFits(call[d])'  BY <1>1, <3>1 DEF TasksInv, Placed, Fits
    <3>5. lock' = d  BY <1>1, <3>1, <3>3, <3>4 DEF TasksInv, Exclusive, UpdateFits
    <3> QED  BY <3>3, <3>5 DEF Halfway, HeldUp
  <2> QED  BY <2>1, <2>2, <2>3 DEF KeyOK
<1> QED  BY <1>2, <1>3, <1>4

LEMMA KeyGrows ==
    ASSUME LegsInv, KeyOK, [Next]_vars, "torn" \notin slips
    PROVE  key \in Nat /\ key' \in Nat /\ key <= key'
<1>1. TasksInv /\ PointedAt /\ key \in Nat /\ number \in Nat
  BY DEF LegsInv, PointerInv, PointedAt, TasksInv, TasksTypeOK, Legs
<1>2. ASSUME NEW c \in Updates, PointKey(c) PROVE key' = number + 1
  <2>1. call[c].pc = "pointkey" /\ key' = call[c].leg + 1  BY <1>2 DEF PointKey
  <2> QED  BY <1>1, <2>1, Resumes DEF Resuming
<1>3. key <= number + 1  BY KeyLeg
<1> QED  BY <1>1, <1>2, <1>3, PointerMoves

-----------------------------------------------------------------------------
(* Polls                                                                   *)

LEMMA LookedStep ==
    ASSUME LegsInv, EndOK, [Next]_vars, "torn" \notin slips, NEW d \in Gets
    PROVE  Looked(call[d])'
<1>1. TasksInv /\ d \in Calls /\ d \notin Updates /\ GetFits(call[d]) /\ KeyOK
      /\ Looked(call[d])
  BY Kinds DEF LegsInv, TasksInv, Placed, Fits, EndOK
<1>2. key \in Nat /\ key' \in Nat /\ key <= key'  BY <1>1, KeyGrows
<1>3. number \in Nat /\ number' \in Nat /\ number <= number'  BY NumberGrows
<1>4. \A n \in Legs : n \in Nat
  BY DEF Legs
<1>5. CASE /\ call'[d].key = call[d].key /\ call'[d].leg = call[d].leg
           /\ call'[d].seen = call[d].seen
           /\ \/ call'[d].pc = call[d].pc
              \/ /\ call[d].pc = "marker" /\ call'[d].pc = "inputs"
                 /\ call[d].seen = "completed"
  <2>1. call[d].pc \in {"number", "sync", "marker", "inputs"} =>
           call[d].key \in Legs /\ call[d].key <= key'
    BY <1>1, <1>2, <1>4 DEF GetFits, Looked
  <2>2. call[d].pc \in {"sync", "marker", "inputs"} =>
           call[d].leg <= number' /\ call[d].key <= call[d].leg + 1
    BY <1>1, <1>3, <1>4 DEF GetFits, Looked
  <2>3. call[d].pc \in {"marker", "inputs"} /\ call[d].seen = "failed" =>
           exec'[call[d].key] = "failed"
    BY <1>1, <2>1, EndedStays DEF Looked
  <2>4. call[d].pc \in {"marker", "inputs"} /\ call[d].seen = "completed" =>
           exec'[call[d].key] \in {"completed", "parked"}
    BY <1>1, <2>1, EndedStays DEF Looked
  <2> QED  BY <1>1, <1>5, <2>1, <2>2, <2>3, <2>4 DEF Looked
<1>6. CASE Same(d)  BY <1>5, <1>6 DEF Same, Kept
<1>7. CASE call'[d].pc \in {"idle", "key"}  BY <1>7 DEF Looked
<1>8. CASE ReadKey(d)
  <2>1. call'[d].pc = "number" /\ call'[d].key = key  BY <1>1, <1>8, ReadKeyIs
  <2> QED  BY <1>2, <2>1 DEF Looked
<1>9. CASE ReadNumber(d)
  <2>1. /\ call[d].pc = "number" /\ call'[d].pc = "sync"
        /\ call'[d].key = call[d].key /\ call'[d].leg = number
    BY <1>1, <1>9, ReadNumberIs
  <2>2. call[d].key \in Nat /\ call[d].key <= key
    BY <1>1, <1>4, <2>1 DEF GetFits, Looked
  <2>3. key <= number + 1  BY <1>1, KeyLeg
  <2>4. call[d].key <= key' /\ call[d].key <= number + 1  BY <1>2, <1>3, <2>2, <2>3
  <2> QED  BY <1>3, <2>1, <2>4 DEF Looked
<1>10. CASE Sync(d)
  <2>1. /\ call[d].pc = "sync" /\ call'[d].pc = "marker"
        /\ call'[d].seen = State(call[d].key)
        /\ call'[d].key = call[d].key /\ call'[d].leg = call[d].leg
    BY <1>1, <1>10, SyncIs
  <2>2. /\ call[d].key \in Nat /\ call[d].leg \in Nat
        /\ call[d].key <= key /\ call[d].leg <= number /\ call[d].key <= call[d].leg + 1
    BY <1>1, <1>4, <2>1 DEF GetFits, Looked
  <2>3. call[d].key <= key' /\ call[d].leg <= number'  BY <1>2, <1>3, <2>2
  <2>4. exec' = exec  BY <1>10 DEF Sync, docket
  <2> QED  BY <2>1, <2>2, <2>3, <2>4 DEF Looked, State
<1>11. CASE Goto(d, "inputs") /\ call[d].pc = "marker" /\ call[d].seen = "completed"
  BY <1>1, <1>5, <1>11, GotoIs DEF Kept
<1> QED
  BY <1>1, <1>6, <1>7, <1>8, <1>9, <1>10, <1>11, GetGoes

-----------------------------------------------------------------------------
(* The end the client is told of                                           *)

Tells(c) ==
    /\ exec[call[c].key] # "parked"
    /\ UNCHANGED <<exec, key, number>>
    /\ \/ call[c].pc = "marker" /\ call[c].seen = "failed"
       \/ call[c].pc = "inputs" /\ outstanding[call[c].leg] = {}

LEMMA ToldBy ==
    ASSUME TasksInv, [Next]_vars, ~told, told'
    PROVE  \E c \in Gets : Tells(c)
<1>1. ASSUME NEW c \in Gets, NEW status, NEW ks, Reply(c, status, ks)
      PROVE  /\ status \in {"completed", "failed"} /\ exec[call[c].key] # "parked"
             /\ UNCHANGED <<exec, key, number>>
  <2>1. told' = (told \/ (status \in {"completed", "failed"} /\ exec[call[c].key] # "parked"))
    BY <1>1, Zenon DEF Reply
  <2>2. UNCHANGED <<exec, key, number>>  BY <1>1 DEF Reply, docket, redis
  <2> QED  BY <2>1, <2>2, Zenon
<1>2. ASSUME NEW c \in Gets, Status(c) PROVE Tells(c)
  <2>1. Reply(c, "cancelled", {})
        \/ (call[c].seen # "completed" /\ Reply(c, call[c].seen, {})) \/ told' = told
    BY <1>2, Zenon DEF Status
  <2>2. call[c].pc = "marker"  BY <1>2 DEF Status
  <2>3. call[c].seen = "failed" /\ exec[call[c].key] # "parked"
        /\ UNCHANGED <<exec, key, number>>
    <3>1. ~Reply(c, "cancelled", {})  BY <1>1
    <3>2. told' # told  OBVIOUS
    <3>3. call[c].seen # "completed" /\ Reply(c, call[c].seen, {})  BY <2>1, <3>1, <3>2, Zenon
    <3> QED  BY <1>1, <3>3
  <2> QED  BY <2>2, <2>3 DEF Tells
<1>3. ASSUME NEW c \in Gets, ReportInputs(c) PROVE Tells(c)
  <2> DEFINE waiting == outstanding[call[c].leg]
             status == IF waiting # {} THEN "input_required" ELSE "completed"
  <2>1. call[c].pc = "inputs" /\ Reply(c, status, waiting)
    BY <1>3, Zenon DEF ReportInputs
  <2>2. status \in {"completed", "failed"} /\ exec[call[c].key] # "parked"
        /\ UNCHANGED <<exec, key, number>>
    BY <1>1, <2>1
  <2>3. waiting = {}  BY <2>2
  <2> QED  BY <2>1, <2>2, <2>3 DEF Tells
<1>4. ASSUME told' = told PROVE FALSE  BY <1>4, Zenon
<1>5. ASSUME NEW c \in Gets, GetsOn(c), ~Status(c), ~ReportInputs(c) PROVE told' = told
  BY <1>5 DEF GetsOn, GetSteps, Poll, Arrives, ReadKey, ReadNumber, Sync, history
<1>6. ASSUME NEW m \in Legs, Worker(m) \/ Redeliver(m) PROVE told' = told
  BY <1>6 DEF Worker, Start, Ask, DropAnswers, Finish, LegCancelled, Redeliver, history
<1>7. ASSUME NEW c \in Updates, UpdatesOn(c) PROVE told' = told
  BY <1>7 DEF UpdatesOn, Send, Arrives, Acquire, UpdateSteps, EnqueueFails, Raises, ReadNumber,
     GiveUp, Recheck, Match, StoreAnswers, CountRest, Enqueue, PointKey, PointNumber, Clear,
     Release, history
<1>8. ASSUME NEW c \in Cancels, CancelsOn(c) PROVE told' = told
  BY <1>8 DEF CancelsOn, CallCancel, Arrives, Acquire, CancelSteps, Raises, GiveUp, ReadKey,
     ReadNumber, SyncCancel, CancelInputs, Mark, Clear, Stop, Release, history
<1>9. (\E c \in Calls : Dies(c)) \/ LockExpires \/ UNCHANGED vars => told' = told
  BY DEF Dies, LockExpires, vars, history
<1> QED
  BY <1>2, <1>3, <1>4, <1>5, <1>6, <1>7, <1>8, <1>9 DEF Next, GetsOn, UpdatesOn, CancelsOn

(* The last leg has ended, and no other follows.                           *)
LEMMA OverStays ==
    ASSUME LegsInv, LegsParked, EndOK, [Next]_vars, "torn" \notin slips, told
    PROVE  Over'
<1>1. TasksInv /\ PointedAt /\ KeyOK /\ Over
  BY DEF LegsInv, PointerInv, PointedAt, EndOK
<1>2. /\ key \in Legs /\ number \in Legs
      /\ key # number => exec[number + 1] # "none"
  BY <1>1, KeyLeg
<1>3. exec'[key] = exec[key]  BY <1>1, <1>2, EndedStays DEF Over
<1>4. ASSUME NEW c \in Updates, PointKey(c) PROVE FALSE
  <2>1. call[c].pc = "pointkey"  BY <1>4 DEF PointKey
  <2>2. /\ lock = c /\ number + 1 \in Legs /\ exec[number + 1] # "none"
    BY <1>1, <2>1, Resumes DEF Resuming
  <2>3. ~Halfway  BY <2>1, <2>2 DEF Halfway, HeldUp
  <2>4. key = number /\ number < number + 1  BY <1>1, <1>2, <2>3 DEF KeyOK, Legs
  <2>5. exec[key] = "parked"  BY <1>2, <2>2, <2>4 DEF LegsParked
  <2> QED  BY <1>1, <2>5 DEF Over
<1>5. key' = key  BY <1>4, PointerMoves
<1>6. ASSUME NEW c \in Updates, PointNumber(c) PROVE exec[key] = "failed"
  <2>1. call[c].pc = "pointnumber"  BY <1>6 DEF PointNumber
  <2>2. lock = c  BY <1>1, <2>1, Resumes DEF Resuming
  <2>3. key = number + 1  BY <1>1, <2>1, <2>2 DEF Halfway, HeldUp, KeyOK
  <2>4. key # number  BY <1>2, <2>3 DEF Legs
  <2> QED  BY <1>1, <2>4 DEF Over
<1> QED  BY <1>1, <1>3, <1>5, <1>6, PointerMoves DEF Over

LEMMA OverStep ==
    ASSUME LegsInv, LegsParked, EndOK, [Next]_vars, "torn" \notin slips, ~marker, told'
    PROVE  Over'
<1>1. CASE told  BY <1>1, OverStays
<1>2. CASE ~told
  <2>1. TasksInv /\ PointedAt /\ KeyOK /\ EndOK
    BY DEF LegsInv, PointerInv, PointedAt, EndOK
  <2>2. PICK c \in Gets : Tells(c)  BY <1>2, <2>1, ToldBy
  <2>3. /\ c \in Calls /\ GetFits(call[c]) /\ Looked(call[c])
    BY <2>1, Kinds DEF TasksInv, Placed, Fits, EndOK
  <2>4. call[c].key \in Legs /\ call[c].key <= key
    BY <2>2, <2>3 DEF GetFits, Looked, Tells
  <2>5. CASE call[c].pc = "marker" /\ call[c].seen = "failed"
    <3>1. exec[call[c].key] = "failed"  BY <2>3, <2>5 DEF Looked
    <3>2. call[c].key = key  BY <2>1, <2>4, <3>1, KeyIsLast
    <3> QED  BY <2>2, <3>1, <3>2 DEF Over, Tells
  <2>6. CASE call[c].pc = "inputs" /\ outstanding[call[c].leg] = {}
    <3>1. exec[call[c].key] = "completed"  BY <2>2, <2>3, <2>6 DEF Looked, Tells
    <3>2. call[c].key = key  BY <2>1, <2>4, <3>1, KeyIsLast
    <3>3. /\ call[c].leg \in Legs /\ call[c].leg <= number /\ key <= call[c].leg + 1
      BY <2>3, <2>6, <3>2 DEF GetFits, Looked
    <3>4. /\ key \in Legs /\ number \in Legs /\ number <= key /\ key <= number + 1
          /\ key # number => exec[number + 1] # "none"
      BY <2>1, KeyLeg
    <3>5. key = number
      <4> SUFFICES ASSUME key # number PROVE FALSE  OBVIOUS
      <4>1. key = number + 1 /\ call[c].leg = number /\ number < key  BY <3>3, <3>4 DEF Legs
      <4>2. exec[number] = "parked"  BY <3>4, <4>1 DEF LegsParked
      <4>3. number >= number  BY <3>4 DEF Legs
      <4>4. outstanding[number] # {}  BY <2>1, <3>4, <4>2, <4>3 DEF PointedAt, PointerOK, Asked
      <4> QED  BY <2>6, <4>1, <4>4
    <3> QED  BY <2>2, <3>1, <3>2, <3>5 DEF Over, Tells
  <2> QED  BY <2>2, <2>5, <2>6 DEF Tells
<1> QED  BY <1>1, <1>2

-----------------------------------------------------------------------------
(* Cancels                                                                 *)

(* How a call of tasks/cancel may go on.                                   *)
LEMMA CancelGoes ==
    ASSUME TasksInv, [Next]_vars, NEW d \in Cancels
    PROVE  \/ Same(d)
           \/ call'[d] = NoCall
           \/ CallCancel(d) \/ Acquire(d) \/ ReadKey(d) \/ ReadNumber(d)
           \/ SyncCancel(d) \/ CancelInputs(d)
           \/ Kept(d) /\ call'[d].pc \in {"key", "clear", "stop", "release", "raise"}
<1>1. d \in Calls /\ d \notin Updates /\ d \notin Gets  BY Kinds
<1>2. CASE Dies(d)  BY <1>1, <1>2, DiesIs
<1>3. CASE Release(d)
  <2>1. call' = [call EXCEPT ![d] = NoCall]  BY <1>3 DEF Release
  <2> QED  BY <1>1, <2>1, EndIs
<1>4. CASE GiveUp(d) \/ Mark(d) \/ Clear(d) \/ Stop(d) \/ Raises(d)
  <2>1. \E pc \in {"key", "clear", "stop", "release", "raise"} : Goto(d, pc)
    BY <1>1, <1>4 DEF GiveUp, Mark, Clear, Stop, Raises
  <2> QED  BY <1>1, <2>1, GotoIs
<1> QED  BY <1>1, <1>2, <1>3, <1>4, OthersStay DEF CancelsOn, CancelSteps

LEMMA FindsStep ==
    ASSUME LegsInv, LegsParked, EndOK, [Next]_vars, "torn" \notin slips, NEW d \in Cancels
    PROVE  Finds(call[d])'
<1>1. /\ TasksInv /\ d \in Calls /\ d \notin Updates /\ CancelFits(call[d]) /\ KeyOK
      /\ Finds(call[d]) /\ (told => told') /\ (told => Over)
  BY KnownStays, Kinds DEF LegsInv, TasksInv, Placed, Fits, EndOK
<1>2. CASE Same(d)
  <2>1. /\ call'[d].pc = call[d].pc /\ call'[d].key = call[d].key
        /\ call'[d].leg = call[d].leg /\ call'[d].late = call[d].late
    BY <1>2 DEF Same, Kept
  <2>2. ASSUME call[d].late, call[d].pc \in {"number", "sync", "inputs"}
        PROVE  exec'[call[d].key] = exec[call[d].key]
    BY <1>1, <2>2, EndedStays DEF Finds, CancelFits
  <2> QED  BY <1>1, <2>1, <2>2 DEF Finds
<1>3. CASE call'[d] = NoCall  BY <1>3, NoCallIs DEF Finds
<1>4. CASE CallCancel(d)
  <2>1. call'[d].pc = "lock" /\ (call'[d].late => told)
    BY <1>1, <1>4, ArrivesIs DEF CallCancel
  <2> QED  BY <1>1, <2>1 DEF Finds
<1>5. CASE Acquire(d)
  <2>1. call'[d].pc = "key" /\ call'[d].late = call[d].late  BY <1>1, <1>5, AcquireIs
  <2> QED  BY <1>1, <2>1 DEF Finds
<1>6. CASE ReadKey(d)
  <2>1. call'[d].pc = "number" /\ call'[d].late = call[d].late /\ call'[d].key = key
    BY <1>1, <1>6, ReadKeyIs
  <2>2. exec' = exec  BY <1>6 DEF ReadKey, docket
  <2> QED  BY <1>1, <2>1, <2>2 DEF Finds, Over
<1>7. CASE ReadNumber(d)
  <2>1. /\ call[d].pc = "number" /\ call'[d].pc = "sync" /\ call'[d].late = call[d].late
        /\ call'[d].key = call[d].key /\ call'[d].leg = number
    BY <1>1, <1>7, ReadNumberIs
  <2>2. exec' = exec  BY <1>7 DEF ReadNumber, docket
  <2>3. ASSUME call[d].late, exec[call[d].key] = "completed" PROVE call[d].key = number
    <3>1. Over /\ call[d].key \in Legs  BY <1>1, <2>1, <2>3 DEF Finds, CancelFits
    <3>2. exec[key] # "parked"  BY <3>1 DEF Over
    <3>3. call[d].key = key  BY <1>1, <2>3, <3>1, <3>2, KeyIsLast
    <3> QED  BY <2>3, <3>1, <3>3 DEF Over
  <2> QED  BY <1>1, <2>1, <2>2, <2>3 DEF Finds
<1>8. CASE SyncCancel(d)
  <2> DEFINE state == State(call[d].key)
  <2>1. PICK pc :
          /\ call[d].pc = "sync" /\ Goto(d, pc)
          /\ state \in {"failed", "cancelled"} => pc = "release"
          /\ state = "completed" => pc = "inputs"
    BY <1>8 DEF SyncCancel, Goto
  <2>2. call'[d].pc = pc /\ Kept(d) /\ exec' = exec
    BY <1>1, <1>8, <2>1, GotoIs DEF SyncCancel, docket
  <2>3. CASE call[d].late
    <3>1. \/ exec[call[d].key] = "failed" /\ pc = "release"
          \/ exec[call[d].key] = "completed" /\ pc = "inputs" /\ call[d].leg = call[d].key
      BY <1>1, <2>1, <2>3 DEF Finds, State
    <3> QED  BY <1>1, <2>2, <2>3, <3>1 DEF Finds, Kept
  <2>4. CASE ~call[d].late  BY <2>2, <2>4 DEF Finds, Kept
  <2> QED  BY <2>3, <2>4
<1>9. CASE CancelInputs(d)
  <2>1. PICK pc :
          /\ call[d].pc = "inputs" /\ Goto(d, pc)
          /\ outstanding[call[d].leg] = {} => pc = "release"
    BY <1>9 DEF CancelInputs
  <2>2. call'[d].pc = pc /\ Kept(d)  BY <1>1, <2>1, GotoIs
  <2>3. CASE call[d].late
    <3>1. call[d].leg \in Legs /\ exec[call[d].leg] = "completed"
      BY <1>1, <2>1, <2>3 DEF Finds, CancelFits
    <3>2. pc = "release"  BY <2>1, <3>1 DEF EndOK, Unasked
    <3> QED  BY <1>1, <2>2, <2>3, <3>2 DEF Finds, Kept
  <2>4. CASE ~call[d].late  BY <2>2, <2>4 DEF Finds, Kept
  <2> QED  BY <2>3, <2>4
<1>10. CASE Kept(d) /\ call'[d].pc \in {"key", "clear", "stop", "release", "raise"}
  BY <1>1, <1>10 DEF Finds, Kept
<1> QED
  BY <1>2, <1>3, <1>4, <1>5, <1>6, <1>7, <1>8, <1>9, <1>10, <1>1, CancelGoes

-----------------------------------------------------------------------------
(* The theorem                                                             *)

AllEnds == LegsInv /\ HitsInv /\ ParkedInv /\ EndInv

LEMMA EndInit == Init => AllEnds
<1> SUFFICES ASSUME Init PROVE AllEnds  OBVIOUS
<1>1. LegsInv /\ HitsInv /\ ParkedInv  BY AnswersInit DEF AllAnswers
<1>2. /\ \A c \in Calls : call[c] = NoCall
      /\ \A n \in Legs : asked[n] = {} /\ outstanding[n] = {}
      /\ lock = Nobody /\ key = 1 /\ number = 1 /\ ~told
  BY DEF Init
<1>3. ~Halfway  BY <1>2, Kinds DEF Halfway, HeldUp
<1>4. EndOK
  BY <1>2, <1>3, NoCallIs, Kinds DEF EndOK, Unasked, KeyOK, Looked, Finds
<1> QED  BY <1>1, <1>4 DEF AllEnds, EndInv

LEMMA EndStep ==
    LegsInv /\ HitsInv /\ LegsParked /\ EndOK /\ [Next]_vars /\ ~marker'
       /\ Reopened \cap slips' = {} => EndOK'
<1> SUFFICES ASSUME LegsInv, HitsInv, LegsParked, EndOK, [Next]_vars, ~marker',
                    Reopened \cap slips' = {}
             PROVE  EndOK'
  OBVIOUS
<1>1. /\ "torn" \notin slips' /\ "rerun" \notin slips' /\ "torn" \notin slips
  BY SlipsGrow DEF Reopened
<1>2. ~marker  BY KnownStays
<1>3. \A n \in Legs : Unasked(n)'  BY <1>1, UnaskedStep DEF EndOK
<1>4. KeyOK'  BY <1>1, KeyStep DEF EndOK
<1>5. \A c \in Gets : Looked(call[c])'  BY <1>1, LookedStep
<1>6. told' => Over'  BY <1>1, <1>2, OverStep
<1>7. \A c \in Cancels : Finds(call[c])'  BY <1>1, FindsStep
<1> QED  BY <1>3, <1>4, <1>5, <1>6, <1>7 DEF EndOK

LEMMA EndNext == AllEnds /\ [Next]_vars => AllEnds'
<1> SUFFICES ASSUME AllEnds, [Next]_vars PROVE AllEnds'  OBVIOUS
<1>1. LegsInv' /\ HitsInv' /\ ParkedInv'
  BY LegsStep, HitsStep, ParkedStep DEF AllEnds
<1>2. ASSUME ~marker', Reopened \cap slips' = {} PROVE EndOK'
  <2>1. ~marker /\ Reopened \cap slips = {}  BY <1>2, KnownStays, SlipsGrow
  <2>2. LegsInv /\ HitsInv /\ LegsParked /\ EndOK
    BY <2>1 DEF AllEnds, ParkedInv, EndInv, Reopened
  <2> QED  BY <1>2, <2>2, EndStep
<1> QED  BY <1>1, <1>2 DEF AllEnds, EndInv

(* Only a cancel marks the task, in the step before it clears.             *)
LEMMA MarkedBy ==
    ASSUME [Next]_vars, ~marker, marker'
    PROVE  \E c \in Cancels : call[c].pc = "mark"
<1>1. ASSUME marker' = marker PROVE FALSE  BY <1>1, Zenon
<1>2. ASSUME NEW c \in Cancels, CancelsOn(c), ~Mark(c) PROVE marker' = marker
  BY <1>2 DEF CancelsOn, CallCancel, Arrives, Acquire, CancelSteps, Raises, GiveUp, ReadKey,
     ReadNumber, SyncCancel, CancelInputs, Clear, Stop, Release, redis
<1>3. ASSUME NEW c \in Updates, UpdatesOn(c) PROVE marker' = marker
  BY <1>3 DEF UpdatesOn, Send, Arrives, Acquire, UpdateSteps, EnqueueFails, Raises, ReadNumber,
     GiveUp, Recheck, Match, StoreAnswers, CountRest, Enqueue, PointKey, PointNumber, Clear,
     Release, redis
<1>4. ASSUME NEW c \in Gets, GetsOn(c) PROVE marker' = marker
  BY <1>4 DEF GetsOn, Poll, GetSteps, Arrives, ReadKey, ReadNumber, Sync, Status, ReportInputs,
     Reply, redis
<1>5. ASSUME NEW m \in Legs, Worker(m) \/ Redeliver(m) PROVE marker' = marker
  BY <1>5 DEF Worker, Start, Ask, DropAnswers, Finish, LegCancelled, Redeliver, redis
<1>6. (\E c \in Calls : Dies(c)) \/ LockExpires \/ UNCHANGED vars => marker' = marker
  BY DEF Dies, LockExpires, vars, redis
<1>7. \A c : Mark(c) => call[c].pc = "mark"  BY DEF Mark
<1> QED
  BY <1>1, <1>2, <1>3, <1>4, <1>5, <1>6, <1>7 DEF Next, GetsOn, UpdatesOn, CancelsOn

(* A cancel that is made after the client was told that the task had ended *)
(* does not mark it cancelled.                                             *)
THEOREM FinishedNotCancelled == Spec => CancelLeavesFinished
<1> DEFINE Step == ~marker /\ marker' =>
              \/ \E c \in Cancels : call[c].pc = "mark" /\ ~call[c].late
              \/ {"torn", "rerun", "early"} \cap slips # {}
<1>1. AllEnds /\ [Next]_vars => Step
  <2> SUFFICES ASSUME AllEnds, [Next]_vars, ~marker, marker',
                      {"torn", "rerun", "early"} \cap slips = {}
               PROVE  \E c \in Cancels : call[c].pc = "mark" /\ ~call[c].late
    OBVIOUS
  <2>1. EndOK  BY DEF AllEnds, EndInv, Reopened
  <2>2. PICK c \in Cancels : call[c].pc = "mark"  BY MarkedBy
  <2>3. ~call[c].late  BY <2>1, <2>2 DEF EndOK, Finds
  <2> QED  BY <2>2, <2>3
<1>2. AllEnds /\ [Next]_vars => [Step]_vars  BY <1>1
<1> QED  BY <1>2, EndInit, EndNext, PTL DEF Spec, CancelLeavesFinished

=============================================================================
