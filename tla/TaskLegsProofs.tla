--------------------------- MODULE TaskLegsProofs ---------------------------
(***************************************************************************)
(* Theorems about TaskLegs, for every value of its constants.              *)
(***************************************************************************)
EXTENDS TaskLegs, TLAPS

-----------------------------------------------------------------------------
(* The inductive invariant *)

(* Where a call of each kind can be, and what it has read by then.         *)
GetFits(r) ==
    /\ r.pc \in {"idle", "key", "number", "sync", "marker", "inputs"}
    /\ ~r.held
    /\ r.pc \in {"number", "sync", "marker", "inputs"} => r.key \in Legs
    /\ r.pc \in {"sync", "marker", "inputs"} => r.leg \in Legs

Deciding == {"match", "answers", "rest", "enqueue"}

UpdateFits(r) ==
    /\ r.pc \in {"idle", "number", "lock", "recheck", "pointkey", "pointnumber",
                 "clear", "release", "raise"} \cup Deciding
    /\ r.held <=> r.pc \notin {"idle", "number", "lock"}
    /\ r.pc \notin {"idle", "number"} => r.leg \in Legs
    /\ r.pc \in {"answers", "rest", "enqueue", "pointkey", "pointnumber"}
          => r.leg + 1 \in Legs

CancelFits(r) ==
    /\ r.pc \in {"idle", "lock", "key", "number", "sync", "inputs", "mark",
                 "clear", "stop", "release", "raise"}
    /\ r.held => r.pc \notin {"idle", "lock"}
    /\ r.pc \in {"number", "sync", "inputs", "mark", "clear", "stop"} => r.key \in Legs
    /\ r.pc \in {"sync", "inputs", "mark", "clear", "stop"} => r.leg \in Legs

Fits(c, r) ==
    /\ c \in Gets => GetFits(r)
    /\ c \in Updates => UpdateFits(r)
    /\ c \in Cancels => CancelFits(r)

Placed == outstanding[MaxLegs] = {} /\ \A c \in Calls : Fits(c, call[c])

(* A call that thinks it holds the lock does.                              *)
Exclusive == \A c \in Calls : call[c].held => lock = c

(* Unless a cancel was forced, cancels act under the lock, and no update   *)
(* is past its check of the marker once that is set.                       *)
MarkerObeyed ==
    \/ "forced" \in slips
    \/ /\ \A c \in Cancels : call[c].pc \notin {"idle", "lock"} => call[c].held
       /\ marker => \A c \in Updates : call[c].pc \notin Deciding

TasksInv == TasksTypeOK /\ Placed /\ Exclusive /\ MarkerObeyed

(* The parts of it about calls, and about everything else.                 *)
CallsOK ==
    /\ call \in [Calls -> CallRecords]
    /\ \A c \in Calls : Fits(c, call[c])
    /\ Exclusive /\ MarkerObeyed

DataOK ==
    /\ exec \in [Legs -> Executions] /\ run \in [Legs -> Nat]
    /\ cancelling \subseteq Legs
    /\ outstanding \in [Legs -> SUBSET Keys] /\ outstanding[MaxLegs] = {}
    /\ responses \subseteq Tools
    /\ key \in Legs /\ number \in Legs /\ marker \in BOOLEAN
    /\ lock \in Calls \cup {Nobody, Ghost}
    /\ shown \subseteq Keys /\ acked \subseteq Keys
    /\ asked \in [Legs -> SUBSET Tools] /\ got \in [Legs -> SUBSET Tools]
    /\ told \in BOOLEAN /\ faults \in Nat
    /\ slips \subseteq Slips

LEMMA Parts == TasksInv <=> CallsOK /\ DataOK
  BY DEF TasksInv, TasksTypeOK, Placed, CallsOK, DataOK

LEMMA PartsNext == TasksInv' <=> CallsOK' /\ DataOK'
  BY DEF TasksInv, TasksTypeOK, Placed, CallsOK, DataOK

-----------------------------------------------------------------------------
(* Steps of one call *)

LEMMA NoCallFits ==
    /\ NoCall \in CallRecords
    /\ \A c \in Calls : Fits(c, NoCall)
  BY TaskSets DEF NoCall, CallRecords, Places, Executions, Live, Active, Fits, GetFits,
                 UpdateFits, CancelFits, Deciding, Legs

(* A record that differs in where the call is.                             *)
LEMMA GotoRecord ==
    ASSUME CallsOK, NEW c \in Calls, NEW pc \in Places, Goto(c, pc)
    PROVE  \E r \in CallRecords :
              /\ call' = [call EXCEPT ![c] = r]
              /\ r.pc = pc /\ r.key = call[c].key /\ r.leg = call[c].leg
              /\ r.held = call[c].held
<1> DEFINE r == [call[c] EXCEPT !.pc = pc]
<1>1. call[c] \in CallRecords  BY DEF CallsOK
<1>2. r \in CallRecords  BY <1>1 DEF CallRecords
<1>3. call' = [call EXCEPT ![c] = r]  BY DEF Goto
<1>4. r.pc = pc /\ r.key = call[c].key /\ r.leg = call[c].leg /\ r.held = call[c].held
   BY <1>1 DEF CallRecords
<1> QED  BY <1>2, <1>3, <1>4

(* What a step of one call must respect when it leaves lock and marker.    *)
LEMMA Moves ==
    ASSUME CallsOK, NEW c \in Calls, NEW r \in CallRecords,
           call' = [call EXCEPT ![c] = r], Fits(c, r),
           lock' = lock, marker' = marker, slips \subseteq slips',
           r.held => call[c].held,
           c \in Updates /\ r.pc \in Deciding => call[c].pc \in Deciding \/ ~marker,
           c \in Cancels /\ r.pc \notin {"idle", "lock"}
              => call[c].pc \notin {"idle", "lock"} /\ (call[c].held => r.held)
    PROVE  CallsOK'
<1>1. /\ call' \in [Calls -> CallRecords]
      /\ call'[c] = r
      /\ \A d \in Calls \ {c} : call'[d] = call[d]
   BY DEF CallsOK
<1>2. \A d \in Calls : Fits(d, call'[d])  BY <1>1 DEF CallsOK
<1>3. Exclusive'  BY <1>1 DEF CallsOK, Exclusive
<1>4. MarkerObeyed'  BY <1>1 DEF CallsOK, MarkerObeyed, Calls
<1>5. (\A d \in Calls : Fits(d, call[d]))'  BY <1>2 DEF Fits, GetFits, UpdateFits, CancelFits
<1> QED  BY <1>1, <1>3, <1>4, <1>5 DEF CallsOK

(* A step that only moves a call on leaves the data as it is.              *)
LEMMA DataKept ==
    ASSUME DataOK, UNCHANGED <<docket, redis, lock, client, history>>
    PROVE  DataOK'
  BY DEF DataOK, docket, redis, client, history

-----------------------------------------------------------------------------
(* The client's calls and tasks_get *)

LEMMA ArrivesKeeps ==
    ASSUME CallsOK, DataOK, NEW c \in Calls, NEW pc \in Places, NEW ks \in SUBSET Keys,
           Arrives(c, pc, ks),
           \/ c \in Gets /\ pc = "key"
           \/ c \in Updates /\ pc = "number"
           \/ c \in Cancels /\ pc = "lock"
    PROVE  CallsOK' /\ DataOK'
<1>1. PICK late \in BOOLEAN : late = (told /\ c \in Cancels)  BY Zenon DEF DataOK
<1>2. PICK r \in CallRecords : /\ call' = [call EXCEPT ![c] = r]
                               /\ r.pc = pc /\ r.held = FALSE
  <2> DEFINE r == [NoCall EXCEPT !.pc = pc, !.keys = ks, !.late = late]
  <2>1. NoCall \in CallRecords /\ NoCall.held = FALSE  BY NoCallFits DEF NoCall
  <2>2. r \in CallRecords /\ r.pc = pc /\ r.held = FALSE  BY <2>1 DEF CallRecords
  <2>3. call' = [call EXCEPT ![c] = r]  BY <1>1 DEF Arrives
  <2> QED  BY <2>2, <2>3
<1>3. Fits(c, r)
   BY <1>2, TaskSets DEF Fits, GetFits, UpdateFits, CancelFits, Deciding, Calls
<1>4. r.pc \notin Deciding /\ (c \in Cancels => r.pc = "lock")
   BY <1>2, TaskSets DEF Deciding
<1>5. lock' = lock /\ marker' = marker /\ slips' = slips
   BY DEF Arrives, redis, history
<1>6. CallsOK'  BY <1>2, <1>3, <1>4, <1>5, Moves
<1> QED  BY <1>6, DataKept DEF Arrives

(* Legs are in the range the records allow.                                *)
LEMMA LegsInRange == Legs \subseteq 0 .. MaxLegs
  BY TaskSets DEF Legs

LEMMA ReadKeyKeeps ==
    ASSUME CallsOK, DataOK, NEW c \in Gets \cup Cancels, ReadKey(c)
    PROVE  CallsOK' /\ DataOK'
<1>1. /\ c \in Calls /\ call[c] \in CallRecords /\ Fits(c, call[c])
      /\ key \in Legs /\ key \in 0 .. MaxLegs
   BY LegsInRange DEF CallsOK, DataOK, Calls
<1>2. PICK r \in CallRecords : /\ call' = [call EXCEPT ![c] = r]
                               /\ r.pc = "number" /\ r.key = key /\ r.held = call[c].held
  <2> DEFINE r == [call[c] EXCEPT !.key = key, !.pc = "number"]
  <2>1. /\ r \in CallRecords
        /\ r.pc = "number" /\ r.key = key /\ r.held = call[c].held
     BY <1>1 DEF CallRecords, Places
  <2>2. call' = [call EXCEPT ![c] = r]  BY DEF ReadKey
  <2> QED  BY <2>1, <2>2
<1>3. Fits(c, r)
   BY <1>1, <1>2, TaskSets DEF ReadKey, Fits, GetFits, UpdateFits, CancelFits
<1>4. c \notin Updates /\ call[c].pc = "key"  BY TaskSets DEF ReadKey
<1>5. lock' = lock /\ marker' = marker /\ slips' = slips
   BY DEF ReadKey, redis, history
<1>6. CallsOK'  BY <1>1, <1>2, <1>3, <1>4, <1>5, Moves
<1> QED  BY <1>6, DataKept DEF ReadKey

LEMMA ReadNumberKeeps ==
    ASSUME CallsOK, DataOK, NEW c \in Calls, ReadNumber(c)
    PROVE  CallsOK' /\ DataOK'
<1>1. /\ call[c] \in CallRecords /\ Fits(c, call[c])
      /\ number \in Legs /\ number \in 0 .. MaxLegs
   BY LegsInRange DEF CallsOK, DataOK
<1>2. PICK pc \in {"lock", "sync"} : pc = IF c \in Updates THEN "lock" ELSE "sync"
   OBVIOUS
<1>3. PICK r \in CallRecords :
         /\ call' = [call EXCEPT ![c] = r]
         /\ r.pc = pc /\ r.leg = number /\ r.key = call[c].key /\ r.held = call[c].held
  <2> DEFINE r == [call[c] EXCEPT !.leg = number, !.pc = pc]
  <2>1. /\ r \in CallRecords
        /\ r.pc = pc /\ r.leg = number /\ r.key = call[c].key /\ r.held = call[c].held
     BY <1>1 DEF CallRecords, Places
  <2>2. call' = [call EXCEPT ![c] = r]  BY <1>2 DEF ReadNumber
  <2> QED  BY <2>1, <2>2
<1>4. Fits(c, r)
   BY <1>1, <1>2, <1>3, TaskSets
   DEF ReadNumber, Fits, GetFits, UpdateFits, CancelFits, Deciding
<1>5. call[c].pc = "number" /\ r.pc \notin Deciding
   BY <1>2, <1>3 DEF ReadNumber, Deciding
<1>6. lock' = lock /\ marker' = marker /\ slips' = slips
   BY DEF ReadNumber, redis, history
<1>7. CallsOK'  BY <1>1, <1>3, <1>4, <1>5, <1>6, Moves
<1> QED  BY <1>7, DataKept DEF ReadNumber

LEMMA SyncKeeps ==
    ASSUME CallsOK, DataOK, NEW c \in Gets, Sync(c)
    PROVE  CallsOK' /\ DataOK'
<1> DEFINE r == [call[c] EXCEPT !.seen = State(call[c].key), !.pc = "marker"]
<1>1. c \in Calls /\ call[c] \in CallRecords /\ Fits(c, call[c])  BY DEF CallsOK, Calls
<1>2. State(call[c].key) \in Executions
   BY <1>1 DEF Sync, Fits, GetFits, DataOK, State, Executions, Live, Active
<1>3. /\ r \in CallRecords
      /\ r.pc = "marker" /\ r.leg = call[c].leg /\ r.key = call[c].key
      /\ r.held = call[c].held
   BY <1>1, <1>2 DEF CallRecords, Places
<1>4. Fits(c, r)  BY <1>1, <1>3, TaskSets DEF Sync, Fits, GetFits
<1>5. call' = [call EXCEPT ![c] = r]  BY DEF Sync
<1>6. CallsOK'
   BY <1>1, <1>3, <1>4, <1>5, TaskSets, Moves DEF Sync, redis, history
<1> QED  BY <1>6, DataKept DEF Sync

LEMMA ReplyKeeps ==
    ASSUME CallsOK, DataOK, NEW c \in Gets, NEW status, NEW ks \in SUBSET Keys,
           Reply(c, status, ks), slips \subseteq slips', slips' \subseteq Slips
    PROVE  CallsOK' /\ DataOK'
<1>1. c \in Calls  BY DEF Calls
<1>2. NoCall.pc = "idle" /\ NoCall.held = FALSE  BY DEF NoCall
<1>3. CallsOK'
   BY <1>1, <1>2, NoCallFits, Moves DEF Reply, redis, Deciding
<1>4. told' \in BOOLEAN  BY DEF Reply
<1>5. DataOK'  BY <1>4 DEF Reply, DataOK, docket, redis
<1> QED  BY <1>3, <1>5

(* A step that only sends a call to another place.                         *)
LEMMA GotoKeeps ==
    ASSUME CallsOK, NEW c \in Calls, NEW pc \in Places, Goto(c, pc),
           lock' = lock, marker' = marker, slips' = slips,
           c \in Gets => pc \in {"inputs"} /\ call[c].pc = "marker",
           c \in Updates =>
              /\ call[c].held
              /\ pc \in {"match", "answers", "rest", "enqueue", "pointkey",
                         "pointnumber", "clear", "release", "raise"}
              /\ pc \in {"answers", "rest", "enqueue", "pointkey", "pointnumber"}
                    => call[c].leg + 1 \in Legs
              /\ pc \in Deciding => call[c].pc \in Deciding \/ ~marker,
           c \in Cancels =>
              /\ call[c].pc \notin {"idle", "lock"}
              /\ pc \in {"inputs", "mark", "clear", "stop", "release", "raise"}
              /\ pc \in {"inputs", "mark", "clear", "stop"}
                    => call[c].pc \in {"sync", "inputs", "mark", "clear", "stop"}
    PROVE  CallsOK'
<1>1. PICK r \in CallRecords :
         /\ call' = [call EXCEPT ![c] = r]
         /\ r.pc = pc /\ r.key = call[c].key /\ r.leg = call[c].leg
         /\ r.held = call[c].held
   BY GotoRecord
<1>2. Fits(c, call[c])  BY DEF CallsOK
<1>3. c \in Gets => GetFits(r)
   BY <1>1, <1>2 DEF Fits, GetFits
<1>4. c \in Updates => UpdateFits(r)
   BY <1>1, <1>2 DEF Fits, UpdateFits, Deciding
<1>5. c \in Cancels => CancelFits(r)
   BY <1>1, <1>2 DEF Fits, CancelFits
<1> QED  BY <1>1, <1>3, <1>4, <1>5, Moves DEF Fits

LEMMA StatusKeeps ==
    ASSUME CallsOK, DataOK, NEW c \in Gets, Status(c)
    PROVE  CallsOK' /\ DataOK'
<1>1. c \in Calls /\ c \notin Updates /\ c \notin Cancels  BY TaskSets DEF Calls
<1>2. CASE /\ Goto(c, "inputs")
           /\ UNCHANGED <<docket, redis, lock, client, asked, got, told, faults>>
  <2>1. UNCHANGED history  BY <1>2 DEF Status, history
  <2>2. CallsOK'
     BY <1>1, <1>2, <2>1, GotoKeeps DEF Status, Places, redis, history
  <2> QED  BY <1>2, <2>1, <2>2, DataKept
<1>3. ASSUME NEW status, Reply(c, status, {}) PROVE CallsOK' /\ DataOK'
  <2>1. slips' = slips /\ slips \subseteq Slips  BY DEF Status, DataOK
  <2> QED  BY <1>3, <2>1, ReplyKeeps
<1> QED  BY <1>2, <1>3 DEF Status

LEMMA ReportInputsKeeps ==
    ASSUME CallsOK, DataOK, NEW c \in Gets, ReportInputs(c)
    PROVE  CallsOK' /\ DataOK'
<1>1. c \in Calls /\ Fits(c, call[c])  BY DEF Calls, CallsOK
<1>2. call[c].leg \in Legs  BY <1>1 DEF Fits, GetFits, ReportInputs
<1>3. outstanding[call[c].leg] \in SUBSET Keys  BY <1>2 DEF DataOK
<1>4. slips \subseteq slips' /\ slips' \subseteq Slips
   BY DEF ReportInputs, DataOK, Slips
<1> QED  BY <1>3, <1>4, ReplyKeeps DEF ReportInputs

-----------------------------------------------------------------------------
(* The update lock *)

LEMMA AcquireKeeps ==
    ASSUME CallsOK, DataOK, NEW c \in Updates \cup Cancels, Acquire(c)
    PROVE  CallsOK' /\ DataOK'
<1>1. c \in Calls /\ c \notin Gets /\ call[c] \in CallRecords /\ Fits(c, call[c])
   BY TaskSets DEF CallsOK, Calls
<1>2. PICK pc \in {"recheck", "key"} : pc = IF c \in Updates THEN "recheck" ELSE "key"
   OBVIOUS
<1>3. PICK r \in CallRecords :
         /\ call' = [call EXCEPT ![c] = r]
         /\ r.pc = pc /\ r.leg = call[c].leg /\ r.key = call[c].key /\ r.held = TRUE
  <2> DEFINE r == [call[c] EXCEPT !.held = TRUE, !.pc = pc]
  <2>1. /\ r \in CallRecords
        /\ r.pc = pc /\ r.leg = call[c].leg /\ r.key = call[c].key /\ r.held = TRUE
     BY <1>1 DEF CallRecords, Places
  <2>2. call' = [call EXCEPT ![c] = r]  BY <1>2 DEF Acquire
  <2> QED  BY <2>1, <2>2
<1>4. Fits(c, r)
   BY <1>1, <1>2, <1>3, TaskSets DEF Acquire, Fits, UpdateFits, CancelFits, Deciding
<1>5. /\ call' \in [Calls -> CallRecords]
      /\ call'[c] = r
      /\ \A d \in Calls \ {c} : call'[d] = call[d]
   BY <1>1, <1>3 DEF CallsOK
<1>6. \A d \in Calls : ~call[d].held
   BY TaskSets DEF Acquire, CallsOK, Exclusive
<1>7. Exclusive'  BY <1>5, <1>6 DEF Exclusive, Acquire
<1>8. MarkerObeyed'
   BY <1>2, <1>3, <1>5, TaskSets
   DEF MarkerObeyed, Acquire, CallsOK, redis, history, Calls, Deciding
<1>9. (\A d \in Calls : Fits(d, call[d]))'
   BY <1>4, <1>5 DEF CallsOK, Fits, GetFits, UpdateFits, CancelFits
<1>10. DataOK'
   BY <1>1 DEF Acquire, DataOK, docket, redis, client, history
<1> QED  BY <1>5, <1>7, <1>8, <1>9, <1>10 DEF CallsOK

LEMMA GiveUpKeeps ==
    ASSUME CallsOK, DataOK, NEW c \in Updates \cup Cancels, GiveUp(c)
    PROVE  CallsOK' /\ DataOK'
<1>1. c \in Calls  BY DEF Calls
<1>2. CASE c \in Updates
  <2>1. NoCall.pc = "idle" /\ NoCall.held = FALSE  BY DEF NoCall
  <2>2. c \notin Cancels /\ call' = [call EXCEPT ![c] = NoCall] /\ slips' = slips
     BY <1>2, TaskSets DEF GiveUp
  <2>3. lock' = lock /\ marker' = marker  BY DEF GiveUp, redis
  <2>4. CallsOK'  BY <1>1, <2>1, <2>2, <2>3, NoCallFits, Moves DEF Deciding
  <2>5. DataOK'  BY <2>2 DEF GiveUp, DataOK, docket, redis, client
  <2> QED  BY <2>4, <2>5
<1>3. CASE c \in Cancels
  <2>1. /\ c \notin Updates /\ c \notin Gets
        /\ Goto(c, "key") /\ slips' = slips \cup {"forced"}
     BY <1>3, TaskSets DEF GiveUp
  <2>2. PICK r \in CallRecords :
           /\ call' = [call EXCEPT ![c] = r]
           /\ r.pc = "key" /\ r.key = call[c].key /\ r.leg = call[c].leg
           /\ r.held = call[c].held
     BY <1>1, <2>1, GotoRecord DEF Places
  <2>3. Fits(c, r)  BY <2>1, <2>2 DEF Fits, CancelFits
  <2>4. /\ call' \in [Calls -> CallRecords]
        /\ call'[c] = r
        /\ \A d \in Calls \ {c} : call'[d] = call[d]
     BY <1>1, <2>2 DEF CallsOK
  <2>5. (\A d \in Calls : Fits(d, call[d]))'
     BY <2>3, <2>4 DEF CallsOK, Fits, GetFits, UpdateFits, CancelFits
  <2>6. Exclusive'  BY <2>2, <2>4 DEF Exclusive, CallsOK, GiveUp
  <2>7. MarkerObeyed'  BY <2>1 DEF MarkerObeyed
  <2>8. slips' \subseteq Slips  BY <2>1 DEF DataOK, Slips
  <2>9. DataOK'  BY <2>1, <2>8 DEF GiveUp, DataOK, docket, redis, client
  <2> QED  BY <2>4, <2>5, <2>6, <2>7, <2>9 DEF CallsOK
<1> QED  BY <1>2, <1>3

LEMMA ReleaseKeeps ==
    ASSUME CallsOK, DataOK, NEW c \in Updates \cup Cancels, Release(c)
    PROVE  CallsOK' /\ DataOK'
<1>1. c \in Calls /\ call[c] \in CallRecords  BY DEF Calls, CallsOK
<1>2. NoCall.pc = "idle" /\ NoCall.held = FALSE  BY DEF NoCall
<1>3. /\ call' \in [Calls -> CallRecords]
      /\ call'[c] = NoCall
      /\ \A d \in Calls \ {c} : call'[d] = call[d]
   BY <1>1, NoCallFits DEF CallsOK, Release
<1>4. (\A d \in Calls : Fits(d, call[d]))'
   BY <1>3, NoCallFits DEF CallsOK, Fits, GetFits, UpdateFits, CancelFits
<1>5. Exclusive'  BY <1>1, <1>2, <1>3 DEF Exclusive, CallsOK, Release
<1>6. MarkerObeyed'
   BY <1>2, <1>3 DEF MarkerObeyed, CallsOK, Release, redis, history, Calls, Deciding
<1>7. DataOK'
  <2>1. call[c].keys \subseteq Keys  BY <1>1 DEF CallRecords
  <2> QED  BY <2>1 DEF DataOK, Release, docket, redis, history
<1> QED  BY <1>3, <1>4, <1>5, <1>6, <1>7 DEF CallsOK

LEMMA LockExpiresKeeps ==
    ASSUME CallsOK, DataOK, LockExpires
    PROVE  CallsOK' /\ DataOK'
<1>1. \A c \in Calls : ~call[c].held
   BY TaskSets DEF LockExpires, CallsOK, Exclusive
<1>2. Exclusive'  BY <1>1 DEF LockExpires, Exclusive
<1>3. MarkerObeyed'  BY DEF LockExpires, MarkerObeyed, CallsOK, redis, history
<1>4. DataOK'  BY DEF LockExpires, DataOK, docket, redis, client, history
<1>5. (\A d \in Calls : Fits(d, call[d]))'
   BY DEF LockExpires, CallsOK, Fits, GetFits, UpdateFits, CancelFits
<1> QED  BY <1>2, <1>3, <1>4, <1>5 DEF CallsOK, LockExpires

-----------------------------------------------------------------------------
(* tasks_update *)

(* What an update has when it is past the lock.                            *)
LEMMA UpdateFacts ==
    ASSUME CallsOK, NEW c \in Updates, call[c].pc \notin {"idle", "number", "lock"}
    PROVE  /\ c \in Calls /\ c \notin Gets /\ c \notin Cancels
           /\ call[c] \in CallRecords /\ UpdateFits(call[c])
           /\ call[c].held /\ call[c].leg \in Legs
<1>1. c \in Calls /\ c \notin Gets /\ c \notin Cancels  BY TaskSets DEF Calls
<1>2. call[c] \in CallRecords /\ UpdateFits(call[c])  BY <1>1 DEF CallsOK, Fits
<1> QED  BY <1>1, <1>2 DEF UpdateFits

LEMMA RecheckKeeps ==
    ASSUME CallsOK, DataOK, NEW c \in Updates, Recheck(c)
    PROVE  CallsOK' /\ DataOK'
<1>1. PICK pc \in {"release", "match"} :
         /\ pc = IF marker THEN "release" ELSE "match"
         /\ Goto(c, pc)
   BY DEF Recheck
<1>2. pc = "match" => ~marker  BY <1>1
<1>3. lock' = lock /\ marker' = marker /\ slips' = slips
   BY DEF Recheck, redis, history
<1>4. call[c].pc = "recheck" /\ pc \in Places /\ Goto(c, pc)
   BY <1>1 DEF Recheck, Places
<1>5. CallsOK'
   BY <1>2, <1>3, <1>4, UpdateFacts, GotoKeeps DEF Deciding
<1> QED  BY <1>5, DataKept DEF Recheck

LEMMA MatchKeeps ==
    ASSUME CallsOK, DataOK, NEW c \in Updates, Match(c)
    PROVE  CallsOK' /\ DataOK'
<1>1. PICK ks \in SUBSET Keys : ks = call[c].keys \cap outstanding[call[c].leg]
   BY UpdateFacts DEF Match, DataOK
<1>2. PICK pc \in {"release", "answers"} : pc = IF ks = {} THEN "release" ELSE "answers"
   OBVIOUS
<1>3. PICK r \in CallRecords :
         /\ call' = [call EXCEPT ![c] = r]
         /\ r.pc = pc /\ r.leg = call[c].leg /\ r.held = call[c].held
  <2> DEFINE r == [call[c] EXCEPT !.match = ks, !.pc = pc]
  <2>1. /\ r \in CallRecords
        /\ r.pc = pc /\ r.leg = call[c].leg /\ r.held = call[c].held
    <3>1. call[c] \in CallRecords /\ pc \in Places  BY UpdateFacts DEF Match, Places
    <3> QED  BY <3>1 DEF CallRecords
  <2>2. call' = [call EXCEPT ![c] = r]  BY <1>1, <1>2 DEF Match
  <2> QED  BY <2>1, <2>2
<1>4. pc = "answers" => call[c].leg + 1 \in Legs
  <2>1. pc = "answers" => call[c].leg # MaxLegs  BY <1>1, <1>2 DEF DataOK
  <2>2. call[c].leg \in Legs  BY UpdateFacts DEF Match
  <2> QED  BY <2>1, <2>2, TaskSets DEF Legs
<1>5. Fits(c, r)
   BY <1>2, <1>3, <1>4, UpdateFacts DEF Match, Fits, UpdateFits, Deciding
<1>6. call[c].pc \in Deciding  BY DEF Match, Deciding
<1>7. lock' = lock /\ marker' = marker /\ slips' = slips
   BY DEF Match, redis, history
<1>8. c \in Calls /\ c \notin Cancels  BY TaskSets DEF Calls
<1>9. CallsOK'  BY <1>3, <1>5, <1>6, <1>7, <1>8, Moves
<1> QED  BY <1>9, DataKept DEF Match

LEMMA StoreAnswersKeeps ==
    ASSUME CallsOK, DataOK, NEW c \in Updates, StoreAnswers(c)
    PROVE  CallsOK' /\ DataOK'
<1>1. call[c].leg + 1 \in Legs /\ call[c].pc \in Deciding
   BY UpdateFacts DEF StoreAnswers, UpdateFits, Deciding
<1>2. CallsOK'
   BY <1>1, UpdateFacts, GotoKeeps DEF StoreAnswers, Places, history
<1>3. Merged(c) \subseteq Tools
  <2>1. call[c].match \subseteq Keys
     BY UpdateFacts DEF StoreAnswers, CallRecords
  <2>2. ToolsOf(call[c].match) \subseteq Tools  BY <2>1 DEF ToolsOf, Keys
  <2> QED  BY <2>2 DEF Merged, DataOK
<1>4. DataOK'  BY <1>3 DEF StoreAnswers, DataOK, docket, client, history
<1> QED  BY <1>2, <1>4

LEMMA CountRestKeeps ==
    ASSUME CallsOK, DataOK, NEW c \in Updates, CountRest(c)
    PROVE  CallsOK' /\ DataOK'
<1>1. call[c].leg + 1 \in Legs /\ call[c].leg \in Legs /\ call[c].pc \in Deciding
   BY UpdateFacts DEF CountRest, UpdateFits, Deciding
<1>2. PICK pc \in {"enqueue", "release"} : Goto(c, pc)  BY DEF CountRest
<1>3. CallsOK'
   BY <1>1, <1>2, UpdateFacts, GotoKeeps DEF CountRest, Places, history
<1>4. outstanding' \in [Legs -> SUBSET Keys] /\ outstanding'[MaxLegs] = {}
   BY <1>1, TaskSets DEF CountRest, DataOK, Legs
<1>5. DataOK'  BY <1>4 DEF CountRest, DataOK, docket, client, history
<1> QED  BY <1>3, <1>5

LEMMA EnqueueKeeps ==
    ASSUME CallsOK, DataOK, NEW c \in Updates, Enqueue(c) \/ EnqueueFails(c)
    PROVE  CallsOK' /\ DataOK'
<1>1. call[c].leg + 1 \in Legs /\ call[c].pc = "enqueue"
   BY UpdateFacts DEF Enqueue, EnqueueFails, UpdateFits
<1>2. Enqueued(call[c].leg + 1) \in [Legs -> Executions]
   BY <1>1 DEF Enqueued, DataOK, Executions, Live, Active
<1>3. CASE Enqueue(c)
  <2>1. CallsOK'
     BY <1>1, <1>3, UpdateFacts, GotoKeeps DEF Enqueue, Places, redis, history, Deciding
  <2>2. DataOK'
     BY <1>2, <1>3 DEF Enqueue, DataOK, redis, client, history
  <2> QED  BY <2>1, <2>2
<1>4. CASE EnqueueFails(c)
  <2>1. PICK r \in CallRecords :
           /\ call' = [call EXCEPT ![c] = r]
           /\ r.pc = "raise" /\ r.key = call[c].key /\ r.leg = call[c].leg
           /\ r.held = call[c].held
     BY <1>1, <1>4, UpdateFacts, GotoRecord DEF EnqueueFails, Places
  <2>2. Fits(c, r)
     BY <1>1, <2>1, UpdateFacts DEF Fits, UpdateFits, Deciding
  <2>3. lock' = lock /\ marker' = marker /\ slips \subseteq slips'
     BY <1>4 DEF EnqueueFails, redis
  <2>4. r.pc \notin Deciding  BY <2>1 DEF Deciding
  <2>5. c \in Calls /\ c \notin Cancels  BY TaskSets DEF Calls
  <2>6. CallsOK'  BY <2>1, <2>2, <2>3, <2>4, <2>5, Moves
  <2>7. exec' \in [Legs -> Executions] /\ slips' \subseteq Slips
     BY <1>2, <1>4 DEF EnqueueFails, DataOK, Slips
  <2>8. DataOK'  BY <1>4, <2>7 DEF EnqueueFails, DataOK, redis, client
  <2> QED  BY <2>6, <2>8
<1> QED  BY <1>3, <1>4

LEMMA PointKeeps ==
    ASSUME CallsOK, DataOK, NEW c \in Updates, PointKey(c) \/ PointNumber(c)
    PROVE  CallsOK' /\ DataOK'
<1>1. call[c].leg + 1 \in Legs /\ call[c].pc \in {"pointkey", "pointnumber"}
   BY UpdateFacts DEF PointKey, PointNumber, UpdateFits
<1>2. PICK pc \in {"pointnumber", "clear"} : Goto(c, pc)
   BY DEF PointKey, PointNumber
<1>3. lock' = lock /\ marker' = marker /\ slips' = slips
   BY DEF PointKey, PointNumber, history
<1>4. CallsOK'
   BY <1>1, <1>2, <1>3, UpdateFacts, GotoKeeps DEF Places, Deciding
<1>5. DataOK'
   BY <1>1 DEF PointKey, PointNumber, DataOK, docket, client, history
<1> QED  BY <1>4, <1>5

-----------------------------------------------------------------------------
(* tasks_cancel, and the clearing it shares with tasks_update *)

LEMMA CancelFacts ==
    ASSUME CallsOK, NEW c \in Cancels
    PROVE  /\ c \in Calls /\ c \notin Gets /\ c \notin Updates
           /\ call[c] \in CallRecords /\ CancelFits(call[c])
<1>1. c \in Calls /\ c \notin Gets /\ c \notin Updates  BY TaskSets DEF Calls
<1> QED  BY <1>1 DEF CallsOK, Fits

LEMMA ClearKeeps ==
    ASSUME CallsOK, DataOK, NEW c \in Updates \cup Cancels, Clear(c)
    PROVE  CallsOK' /\ DataOK'
<1>1. /\ outstanding' \in [Legs -> SUBSET Keys]
      /\ outstanding'[MaxLegs] = {}
  <2>1. MaxLegs \in Legs  BY TaskSets DEF Legs
  <2>2. /\ outstanding \in [Legs -> SUBSET Keys] /\ outstanding[MaxLegs] = {}
        /\ outstanding' = [outstanding EXCEPT ![call[c].leg] = {}]
     BY DEF DataOK, Clear
  <2> QED  BY <2>1, <2>2
<1>2. DataOK'  BY <1>1 DEF Clear, DataOK, docket, client, history
<1>3. lock' = lock /\ marker' = marker /\ slips' = slips  BY DEF Clear, history
<1>4. CASE c \in Updates
  <2>1. Goto(c, "release") /\ call[c].pc = "clear"  BY <1>4 DEF Clear
  <2>2. CallsOK'  BY <1>3, <1>4, <2>1, UpdateFacts, GotoKeeps DEF Places, Deciding
  <2> QED  BY <1>2, <2>2
<1>5. CASE c \in Cancels
  <2>1. Goto(c, "stop") /\ call[c].pc = "clear"  BY <1>5, CancelFacts DEF Clear
  <2>2. CallsOK'  BY <1>3, <1>5, <2>1, CancelFacts, GotoKeeps DEF Places
  <2> QED  BY <1>2, <2>2
<1> QED  BY <1>4, <1>5

LEMMA SyncCancelKeeps ==
    ASSUME CallsOK, DataOK, NEW c \in Cancels, SyncCancel(c)
    PROVE  CallsOK' /\ DataOK'
<1>1. PICK pc \in {"release", "inputs", "mark"} : Goto(c, pc)
  <2> DEFINE state == State(call[c].key)
  <2>1. CASE state \in {"failed", "cancelled"}  BY <2>1 DEF SyncCancel, Goto
  <2>2. CASE state = "completed"  BY <2>2 DEF SyncCancel, Goto
  <2>3. CASE state \notin {"failed", "cancelled", "completed"}
     BY <2>3 DEF SyncCancel, Goto
  <2> QED  BY <2>1, <2>2, <2>3
<1>2. CallsOK'
   BY <1>1, CancelFacts, GotoKeeps DEF SyncCancel, Places, redis, history
<1> QED  BY <1>2, DataKept DEF SyncCancel

LEMMA CancelInputsKeeps ==
    ASSUME CallsOK, DataOK, NEW c \in Cancels, CancelInputs(c)
    PROVE  CallsOK' /\ DataOK'
<1>1. PICK pc \in {"release", "mark"} : Goto(c, pc)  BY DEF CancelInputs
<1>2. CallsOK'
   BY <1>1, CancelFacts, GotoKeeps DEF CancelInputs, Places, redis, history
<1> QED  BY <1>2, DataKept DEF CancelInputs
LEMMA MarkKeeps ==
    ASSUME CallsOK, DataOK, NEW c \in Cancels, Mark(c)
    PROVE  CallsOK' /\ DataOK'
<1>1. /\ c \in Calls /\ c \notin Gets /\ c \notin Updates
      /\ call[c] \in CallRecords /\ CancelFits(call[c])
   BY CancelFacts
<1>2. PICK r \in CallRecords :
         /\ call' = [call EXCEPT ![c] = r]
         /\ r.pc = "clear" /\ r.key = call[c].key /\ r.leg = call[c].leg
         /\ r.held = call[c].held
   BY <1>1, GotoRecord DEF Mark, Places
<1>3. Fits(c, r)  BY <1>1, <1>2 DEF Mark, Fits, CancelFits
<1>4. /\ call' \in [Calls -> CallRecords]
      /\ call'[c] = r
      /\ \A d \in Calls \ {c} : call'[d] = call[d]
   BY <1>1, <1>2 DEF CallsOK
<1>5. (\A d \in Calls : Fits(d, call[d]))'
   BY <1>3, <1>4 DEF CallsOK, Fits, GetFits, UpdateFits, CancelFits
<1>6. lock' = lock /\ slips' = slips /\ call[c].pc = "mark"  BY DEF Mark, history
<1>7. Exclusive'  BY <1>2, <1>4, <1>6 DEF Exclusive, CallsOK
(* Marking under the lock: no update holds it, so none is deciding.        *)
<1>8. ASSUME "forced" \notin slips
      PROVE  /\ \A d \in Cancels : call'[d].pc \notin {"idle", "lock"} => call'[d].held
             /\ \A d \in Updates : call'[d].pc \notin Deciding
  <2>1. call[c].held  BY <1>6, <1>8 DEF CallsOK, MarkerObeyed
  <2>2. lock = c  BY <1>1, <2>1 DEF CallsOK, Exclusive
  <2>3. ASSUME NEW d \in Updates PROVE call'[d].pc \notin Deciding
    <3>1. d \in Calls \ {c}  BY <1>1 DEF Calls
    <3>2. ~call[d].held  BY <2>2, <3>1 DEF CallsOK, Exclusive
    <3>3. UpdateFits(call[d])  BY <3>1 DEF CallsOK, Fits
    <3>4. call[d].pc \in {"idle", "number", "lock"}  BY <3>2, <3>3 DEF UpdateFits
    <3> QED  BY <1>4, <3>1, <3>4 DEF Deciding
  <2>4. ASSUME NEW d \in Cancels, call'[d].pc \notin {"idle", "lock"} PROVE call'[d].held
    <3>1. d \in Calls  BY DEF Calls
    <3> QED  BY <1>2, <1>4, <1>8, <2>1, <2>4, <3>1 DEF CallsOK, MarkerObeyed
  <2> QED  BY <2>3, <2>4
<1>9. MarkerObeyed'  BY <1>6, <1>8 DEF MarkerObeyed
<1>10. DataOK'  BY DEF Mark, DataOK, docket, client, history
<1> QED  BY <1>4, <1>5, <1>7, <1>9, <1>10 DEF CallsOK

LEMMA StopKeeps ==
    ASSUME CallsOK, DataOK, NEW c \in Cancels, Stop(c)
    PROVE  CallsOK' /\ DataOK'
<1>1. call[c].pc = "stop" /\ call[c].key \in Legs
   BY CancelFacts DEF Stop, CancelFits
<1>2. lock' = lock /\ marker' = marker /\ slips' = slips /\ Goto(c, "release")
   BY DEF Stop, redis, history
<1>3. CallsOK'  BY <1>1, <1>2, CancelFacts, GotoKeeps DEF Places
<1>4. exec' \in [Legs -> Executions] /\ cancelling' \subseteq Legs
   BY <1>1 DEF Stop, DataOK, Executions, Live, Active
<1>5. DataOK'  BY <1>4 DEF Stop, DataOK, redis, client, history
<1> QED  BY <1>3, <1>5

-----------------------------------------------------------------------------
(* Faults *)

LEMMA RaisesKeeps ==
    ASSUME CallsOK, DataOK, NEW c \in Updates \cup Cancels, Raises(c)
    PROVE  CallsOK' /\ DataOK'
<1>1. /\ c \in Calls /\ c \notin Gets /\ call[c].held
      /\ call[c] \in CallRecords /\ Fits(c, call[c])
   BY TaskSets DEF Calls, CallsOK, Raises
<1>2. PICK r \in CallRecords :
         /\ call' = [call EXCEPT ![c] = r]
         /\ r.pc = "raise" /\ r.key = call[c].key /\ r.leg = call[c].leg
         /\ r.held = call[c].held
   BY <1>1, GotoRecord DEF Raises, Places
<1>3. Fits(c, r)
   BY <1>1, <1>2, TaskSets DEF Fits, UpdateFits, CancelFits, Deciding
<1>4. r.pc \notin Deciding  BY <1>2 DEF Deciding
<1>5. c \in Cancels => call[c].pc \notin {"idle", "lock"}
   BY <1>1 DEF Fits, CancelFits
<1>6. lock' = lock /\ marker' = marker /\ slips \subseteq slips'
   BY DEF Raises, redis
<1>7. CallsOK'  BY <1>1, <1>2, <1>3, <1>4, <1>5, <1>6, Moves
<1>8. slips' \subseteq Slips  BY DEF Raises, DataOK, Slips
<1>9. DataOK'  BY <1>8 DEF Raises, DataOK, docket, redis, client
<1> QED  BY <1>7, <1>9

LEMMA DiesKeeps ==
    ASSUME CallsOK, DataOK, NEW c \in Calls, Dies(c)
    PROVE  CallsOK' /\ DataOK'
<1>1. \A d \in Calls : call[d] \in CallRecords  BY DEF CallsOK
<1>2. call' \in [Calls -> CallRecords] /\ call'[c] = NoCall
  <2>1. \A d \in Calls : [call[d] EXCEPT !.early = TRUE] \in CallRecords
     BY <1>1 DEF CallRecords
  <2> QED  BY <1>1, <2>1, NoCallFits DEF Dies
<1>3. \A d \in Calls \ {c} :
         /\ call'[d].pc = call[d].pc /\ call'[d].key = call[d].key
         /\ call'[d].leg = call[d].leg /\ call'[d].held = call[d].held
   BY <1>1 DEF Dies, CallRecords
<1>4. NoCall.pc = "idle" /\ NoCall.held = FALSE  BY DEF NoCall
<1>5. \A d \in Calls : Fits(d, call'[d])
  <2>1. ASSUME NEW d \in Calls \ {c} PROVE Fits(d, call'[d])
    <3>1. Fits(d, call[d])  BY DEF CallsOK
    <3> QED  BY <1>3, <3>1 DEF Fits, GetFits, UpdateFits, CancelFits
  <2> QED  BY <1>2, <2>1, NoCallFits
<1>6. (\A d \in Calls : Fits(d, call[d]))'
   BY <1>5 DEF Fits, GetFits, UpdateFits, CancelFits
<1>7. Exclusive'
  <2>1. ASSUME NEW d \in Calls, call'[d].held PROVE lock' = d
    <3>1. d \in Calls \ {c} /\ call[d].held  BY <1>2, <1>3, <1>4, <2>1
    <3>2. lock = d  BY <3>1 DEF CallsOK, Exclusive
    <3>3. ~call[c].held  BY <3>1, <3>2 DEF CallsOK, Exclusive
    <3> QED  BY <3>2, <3>3 DEF Dies
  <2> QED  BY <2>1 DEF Exclusive
<1>8. MarkerObeyed'
  <2>1. marker' = marker /\ slips \subseteq slips'  BY DEF Dies, redis
  <2>2. Updates \subseteq Calls /\ Cancels \subseteq Calls  BY DEF Calls
  <2> QED  BY <1>2, <1>3, <1>4, <2>1, <2>2 DEF MarkerObeyed, CallsOK, Deciding
<1>9. lock' \in Calls \cup {Nobody, Ghost} /\ slips' \subseteq Slips
   BY DEF Dies, DataOK, Slips
<1>10. DataOK'  BY <1>9 DEF Dies, DataOK, docket, redis, client
<1> QED  BY <1>2, <1>6, <1>7, <1>8, <1>10 DEF CallsOK

-----------------------------------------------------------------------------
(* The worker *)

LEMMA CallsStay ==
    ASSUME CallsOK, call' = call, lock' = lock, marker' = marker, slips \subseteq slips'
    PROVE  CallsOK'
  BY DEF CallsOK, Exclusive, MarkerObeyed, Fits, GetFits, UpdateFits, CancelFits

LEMMA WorkerKeeps ==
    ASSUME CallsOK, DataOK, NEW n \in Legs, Worker(n) \/ Redeliver(n)
    PROVE  CallsOK' /\ DataOK'
<1>1. CASE Start(n)
  <2>1. /\ exec' \in [Legs -> Executions] /\ run' \in [Legs -> Nat]
        /\ got' \in [Legs -> SUBSET Tools] /\ asked' \in [Legs -> SUBSET Tools]
        /\ slips \subseteq slips' /\ slips' \subseteq Slips
    <3>1. exec' \in [Legs -> Executions]  BY <1>1 DEF Start, DataOK, Executions, Live, Active
    <3>2. run' \in [Legs -> Nat]
      <4>1. run \in [Legs -> Nat] /\ run' = [run EXCEPT ![n] = run[n] + 1]
         BY <1>1 DEF Start, DataOK
      <4> QED  BY <4>1
    <3>3. got' \in [Legs -> SUBSET Tools]  BY <1>1 DEF Start, DataOK
    <3>4. slips \subseteq slips' /\ slips' \subseteq Slips
       BY <1>1 DEF Start, DataOK, Slips
    <3>5. asked' \in [Legs -> SUBSET Tools]  BY <1>1 DEF Start, DataOK
    <3> QED  BY <3>1, <3>2, <3>3, <3>4, <3>5
  <2>2. CallsOK'  BY <1>1, <2>1, CallsStay DEF Start, redis
  <2> QED  BY <1>1, <2>1, <2>2 DEF Start, DataOK, redis, client
<1>2. CASE Ask(n)
  <2>1. PICK tool \in Tools \ asked[n] :
          /\ outstanding' = [outstanding EXCEPT ![n] =
                outstanding[n] \cup {[leg |-> n, tool |-> tool, run |-> run[n]]}]
          /\ asked' = [asked EXCEPT ![n] = asked[n] \cup {tool}]
     BY <1>2 DEF Ask
  <2>2. [leg |-> n, tool |-> tool, run |-> run[n]] \in Keys
     BY DEF Keys, DataOK
  <2>3. n # MaxLegs /\ MaxLegs \in Legs
     BY <1>2, TaskSets DEF Ask, Legs
  <2>4. /\ outstanding' \in [Legs -> SUBSET Keys] /\ outstanding'[MaxLegs] = {}
        /\ asked' \in [Legs -> SUBSET Tools] /\ exec' \in [Legs -> Executions]
     BY <1>2, <2>1, <2>2, <2>3 DEF Ask, DataOK, Executions, Live, Active
  <2>5. CallsOK'  BY <1>2, CallsStay DEF Ask
  <2> QED  BY <1>2, <2>4, <2>5 DEF Ask, DataOK, client
<1>4. CASE DropAnswers(n)
  <2>1. exec' \in [Legs -> Executions] /\ responses' \subseteq Tools
     BY <1>4 DEF DropAnswers, DataOK, Executions, Live, Active
  <2>2. CallsOK'  BY <1>4, CallsStay DEF DropAnswers, history
  <2> QED  BY <1>4, <2>1, <2>2 DEF DropAnswers, DataOK, client, history
<1>3. CASE Finish(n) \/ LegCancelled(n) \/ Redeliver(n)
  <2>1. exec' \in [Legs -> Executions] /\ cancelling' \subseteq Legs
     BY <1>3 DEF Finish, LegCancelled, Redeliver, DataOK, Executions, Live, Active
  <2>2. run' = run /\ UNCHANGED <<redis, lock, call, client, history>>
     BY <1>3 DEF Finish, LegCancelled, Redeliver
  <2>3. CallsOK'  BY <2>2, CallsStay DEF redis, history
  <2> QED  BY <2>1, <2>2, <2>3 DEF DataOK, redis, client, history
<1> QED  BY <1>1, <1>2, <1>3, <1>4 DEF Worker

-----------------------------------------------------------------------------
(* The theorems *)

LEMMA InitOK == Init => TasksInv
<1> SUFFICES ASSUME Init PROVE TasksInv  OBVIOUS
<1>1. 1 \in Legs /\ MaxLegs \in Legs  BY TaskSets DEF Legs
<1>2. DataOK  BY <1>1, TaskSets DEF Init, DataOK, Executions, Live, Active
<1>3. \A c \in Calls : call[c] = NoCall  BY DEF Init
<1>4. NoCall.pc = "idle" /\ NoCall.held = FALSE  BY DEF NoCall
<1>5. call \in [Calls -> CallRecords]  BY NoCallFits DEF Init
<1>6. \A c \in Calls : Fits(c, call[c])  BY <1>3, NoCallFits
<1>7. Exclusive /\ MarkerObeyed
   BY <1>3, <1>4 DEF Exclusive, MarkerObeyed, Calls, Deciding
<1> QED  BY <1>2, <1>5, <1>6, <1>7, Parts DEF CallsOK

LEMMA UpdateStepsKeep ==
    ASSUME CallsOK, DataOK, NEW c \in Updates,
           Acquire(c) \/ UpdateSteps(c) \/ EnqueueFails(c) \/ Raises(c)
    PROVE  CallsOK' /\ DataOK'
  BY AcquireKeeps, ReadNumberKeeps, GiveUpKeeps, RecheckKeeps, MatchKeeps,
     StoreAnswersKeeps, CountRestKeeps, EnqueueKeeps, PointKeeps, ClearKeeps,
     ReleaseKeeps, RaisesKeeps DEF UpdateSteps, Calls

LEMMA CancelStepsKeep ==
    ASSUME CallsOK, DataOK, NEW c \in Cancels,
           Acquire(c) \/ CancelSteps(c) \/ Raises(c)
    PROVE  CallsOK' /\ DataOK'
  BY AcquireKeeps, GiveUpKeeps, ReadKeyKeeps, ReadNumberKeeps, SyncCancelKeeps,
     CancelInputsKeeps, MarkKeeps, ClearKeeps, StopKeeps, ReleaseKeeps, RaisesKeeps
     DEF CancelSteps, Calls

LEMMA GetStepsKeep ==
    ASSUME CallsOK, DataOK, NEW c \in Gets, GetSteps(c)
    PROVE  CallsOK' /\ DataOK'
  BY ReadKeyKeeps, ReadNumberKeeps, SyncKeeps, StatusKeeps, ReportInputsKeeps
     DEF GetSteps, Calls

LEMMA StepOK == TasksInv /\ [Next]_vars => TasksInv'
<1> SUFFICES ASSUME CallsOK, DataOK, [Next]_vars PROVE CallsOK' /\ DataOK'
   BY Parts, PartsNext
<1>1. ASSUME NEW n \in Legs, Worker(n) \/ Redeliver(n) PROVE CallsOK' /\ DataOK'
   BY <1>1, WorkerKeeps
<1>2. ASSUME NEW c \in Gets, Poll(c) PROVE CallsOK' /\ DataOK'
   BY <1>2, ArrivesKeeps DEF Poll, Calls, Places
<1>3. ASSUME NEW c \in Gets, GetSteps(c) PROVE CallsOK' /\ DataOK'
   BY <1>3, GetStepsKeep
<1>4. ASSUME NEW c \in Updates, NEW ks \in SUBSET shown, Send(c, ks)
      PROVE  CallsOK' /\ DataOK'
  <2>1. ks \in SUBSET Keys  BY DEF DataOK
  <2> QED  BY <1>4, <2>1, ArrivesKeeps DEF Send, Calls, Places
<1>5. ASSUME NEW c \in Updates,
             Acquire(c) \/ UpdateSteps(c) \/ EnqueueFails(c) \/ Raises(c)
      PROVE  CallsOK' /\ DataOK'
   BY <1>5, UpdateStepsKeep
<1>6. ASSUME NEW c \in Cancels, CallCancel(c) PROVE CallsOK' /\ DataOK'
   BY <1>6, ArrivesKeeps DEF CallCancel, Calls, Places
<1>7. ASSUME NEW c \in Cancels, Acquire(c) \/ CancelSteps(c) \/ Raises(c)
      PROVE  CallsOK' /\ DataOK'
   BY <1>7, CancelStepsKeep
<1>8. ASSUME NEW c \in Calls, Dies(c) PROVE CallsOK' /\ DataOK'
   BY <1>8, DiesKeeps
<1>9. CASE LockExpires  BY <1>9, LockExpiresKeeps
<1>10. CASE UNCHANGED vars
  <2>1. call' = call /\ UNCHANGED <<docket, redis, lock, client, history>>
     BY <1>10 DEF vars
  <2>2. CallsOK'  BY <2>1, CallsStay DEF redis, history
  <2> QED  BY <2>1, <2>2, DataKept
<1> QED  BY <1>1, <1>2, <1>3, <1>4, <1>5, <1>6, <1>7, <1>8, <1>9, <1>10 DEF Next

(* Whatever the calls do and wherever they break off, the pointer, the     *)
(* lock and the calls' registers stay in range: no update starts a leg     *)
(* past the last, and nobody works on a leg it has not read.               *)
THEOREM TasksTypeCorrect == Spec => []TasksTypeOK
<1>1. TasksInv => TasksTypeOK  BY DEF TasksInv
<1> QED  BY <1>1, InitOK, StepOK, PTL DEF Spec

(* Only an update past its recheck of the marker enqueues a leg that is    *)
(* not live, and there is none once the marker is set under the lock.      *)
LEMMA EnqueuesNothing ==
    ASSUME TasksInv, [Next]_vars, marker, "forced" \notin slips,
           NEW n \in Legs, exec[n] \notin Live
    PROVE  exec'[n] # "queued"
<1>1. ASSUME NEW c \in Updates PROVE call[c].pc # "enqueue"
   BY DEF TasksInv, MarkerObeyed, Deciding
<1>2. exec \in [Legs -> Executions] /\ exec[n] # "queued"
   BY DEF TasksInv, TasksTypeOK, Executions, Live, Active
<1>3. ASSUME NEW m \in Legs, Worker(m) \/ Redeliver(m) PROVE exec'[n] # "queued"
   BY <1>2, <1>3 DEF Worker, Start, Ask, DropAnswers, Finish, LegCancelled,
               Redeliver, Live, Active
<1>4. ASSUME NEW c \in Calls, Stop(c) PROVE exec'[n] # "queued"
   BY <1>2, <1>4 DEF Stop
<1>5. CASE UNCHANGED docket  BY <1>2, <1>5 DEF docket
<1>6. ASSUME NEW c \in Gets, Poll(c) \/ GetSteps(c) PROVE UNCHANGED docket
   BY <1>6 DEF Poll, GetSteps, Arrives, ReadKey, ReadNumber, Sync, Status, ReportInputs,
               Reply
<1>7. ASSUME NEW c \in Updates,
             \/ \E ks \in SUBSET shown : Send(c, ks)
             \/ Acquire(c) \/ UpdateSteps(c) \/ EnqueueFails(c) \/ Raises(c)
      PROVE  UNCHANGED docket
   BY <1>1, <1>7 DEF Send, Arrives, Acquire, UpdateSteps, EnqueueFails, Raises,
      ReadNumber, GiveUp, Recheck, Match, StoreAnswers, CountRest, Enqueue,
      PointKey, PointNumber, Clear, Release
<1>8. ASSUME NEW c \in Cancels,
             CallCancel(c) \/ Acquire(c) \/ CancelSteps(c) \/ Raises(c), ~Stop(c)
      PROVE  UNCHANGED docket
   BY <1>8 DEF CallCancel, Arrives, Acquire, CancelSteps, Raises, GiveUp, ReadKey,
      ReadNumber, SyncCancel, CancelInputs, Mark, Clear, Release
<1>9. ASSUME NEW c \in Calls, Dies(c) PROVE UNCHANGED docket
   BY <1>9 DEF Dies
<1>10. CASE LockExpires  BY <1>5, <1>10 DEF LockExpires
<1>11. CASE UNCHANGED vars  BY <1>5, <1>11 DEF vars
<1> QED
   BY <1>3, <1>4, <1>5, <1>6, <1>7, <1>8, <1>9, <1>10, <1>11 DEF Next, Calls

(* A cancelled task is not resumed, whatever calls and workers race and    *)
(* whichever of them die, unless a cancel went on without the lock.        *)
THEOREM NotResumed == Spec => NoResumeAfterCancel
<1> DEFINE Step == marker => \A n \in Legs :
                      exec[n] \notin Live /\ exec'[n] = "queued" => "forced" \in slips
<1>1. TasksInv /\ [Next]_vars => Step  BY EnqueuesNothing
<1>2. TasksInv /\ [Next]_vars => [Step]_vars  BY <1>1
<1> QED  BY <1>2, InitOK, StepOK, PTL DEF Spec, NoResumeAfterCancel

=============================================================================
