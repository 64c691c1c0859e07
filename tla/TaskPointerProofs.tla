-------------------------- MODULE TaskPointerProofs --------------------------
(***************************************************************************)
(* Theorems about TaskLegs, for every value of its constants: where the    *)
(* task points to, which legs were enqueued and which have requests.       *)
(***************************************************************************)
EXTENDS TaskLegsProofs

-----------------------------------------------------------------------------
(* The inductive invariant *)

(* A key that was minted before: a request stored from now on has another. *)
Old(k) ==
    /\ k.run <= run[k.leg]
    /\ k.run = run[k.leg] => k.tool \in asked[k.leg]

(* An update answers what was shown when it was sent, other calls answer   *)
(* nothing; a cancel clears after it marked.                               *)
Asks(c) ==
    /\ call[c].keys \subseteq (IF c \in Updates THEN shown ELSE {})
    /\ c \in Cancels /\ call[c].pc = "clear" => marker

KeysInv ==
    /\ \A n \in Legs : \A k \in outstanding[n] : k.leg = n /\ Old(k)
    /\ \A k \in shown : Old(k)
    /\ \A c \in Calls : Asks(c)

HeldUp(pcs) == lock \in Updates /\ call[lock].pc \in pcs

Asked == {"asking", "parking", "parked"}

(* The legs up to the one pointed to were enqueued and no other, but for   *)
(* one on its way to be pointed to.  Those from it on, if they ended with  *)
(* requests, have some until the task is cancelled.                        *)
PointerOK ==
    /\ \A n \in Legs : n <= number => exec[n] # "none"
    /\ \A n \in Legs : n > number /\ exec[n] # "none" =>
          n = number + 1 /\ HeldUp({"pointkey", "pointnumber"})
    /\ marker \/ \A n \in Legs : n >= number /\ exec[n] \in Asked => outstanding[n] # {}

(* An update that matched something is on the leg pointed to.  One that    *)
(* read the pointer before it moved will match nothing.                    *)
Waiting == {"idle", "number"}
Resuming == {"answers", "rest", "enqueue", "pointkey", "pointnumber"}
Missed(r) ==
    \/ r.keys \cap outstanding[r.leg] = {}
    \/ HeldUp({"clear"}) /\ call[lock].leg = r.leg
OnLeg(r) ==
    /\ r.pc \notin Waiting => r.leg <= number
    /\ r.pc \in Resuming => r.leg = number
    /\ r.pc = "clear" => r.leg < number
    /\ r.pc \in {"pointkey", "pointnumber"} => exec[r.leg + 1] # "none"
    /\ r.pc \notin Waiting /\ r.leg < number => Missed(r)

PointerInv == "torn" \in slips \/ (PointerOK /\ \A c \in Updates : OnLeg(call[c]))

-----------------------------------------------------------------------------
(* What a step makes of the calls *)

Kept(d) ==
    /\ call'[d].key = call[d].key /\ call'[d].leg = call[d].leg
    /\ call'[d].seen = call[d].seen /\ call'[d].keys = call[d].keys
    /\ call'[d].match = call[d].match /\ call'[d].held = call[d].held
    /\ call'[d].late = call[d].late
Same(d) == call'[d].pc = call[d].pc /\ Kept(d)

LEMMA GotoIs ==
    ASSUME TasksInv, NEW c \in Calls, NEW pc, Goto(c, pc)
    PROVE  call'[c].pc = pc /\ Kept(c) /\ \A d \in Calls \ {c} : Same(d)
<1>1. call \in [Calls -> CallRecords] /\ call[c] \in CallRecords
  BY DEF TasksInv, TasksTypeOK
<1>2. call' = [call EXCEPT ![c] = [call[c] EXCEPT !.pc = pc]]  BY DEF Goto
<1>3. call'[c] = [call[c] EXCEPT !.pc = pc] /\ \A d \in Calls \ {c} : call'[d] = call[d]
  BY <1>1, <1>2
<1> QED  BY <1>1, <1>3 DEF Kept, Same, CallRecords

LEMMA EndIs ==
    ASSUME TasksInv, NEW c \in Calls, call' = [call EXCEPT ![c] = NoCall]
    PROVE  call'[c] = NoCall /\ \A d \in Calls \ {c} : Same(d)
  BY DEF TasksInv, TasksTypeOK, Kept, Same

LEMMA DiesIs ==
    ASSUME TasksInv, NEW c \in Calls, Dies(c)
    PROVE  call'[c] = NoCall /\ \A d \in Calls \ {c} : Same(d)
<1>1. call'[c] = NoCall  BY DEF Dies
<1>2. ASSUME NEW d \in Calls \ {c} PROVE Same(d)
  <2>1. call[d] \in CallRecords  BY DEF TasksInv, TasksTypeOK
  <2>2. call'[d] \in {[call[d] EXCEPT !.early = TRUE], call[d]}  BY DEF Dies
  <2> QED  BY <2>1, <2>2 DEF Same, Kept, CallRecords
<1> QED  BY <1>1, <1>2

LEMMA ArrivesIs ==
    ASSUME TasksInv, NEW c \in Calls, NEW pc, NEW ks, Arrives(c, pc, ks)
    PROVE  /\ call[c].pc = "idle" /\ call'[c].pc = pc /\ call'[c].keys = ks
           /\ call'[c].late => told /\ c \in Cancels
           /\ ~call'[c].held
           /\ \A d \in Calls \ {c} : Same(d)
<1>1. call \in [Calls -> CallRecords]  BY DEF TasksInv, TasksTypeOK
<1> DEFINE r == [NoCall EXCEPT !.pc = pc, !.keys = ks, !.late = told /\ c \in Cancels]
<1>2. call' = [call EXCEPT ![c] = r] /\ call[c].pc = "idle"  BY DEF Arrives
<1>3. r.pc = pc /\ r.keys = ks /\ (r.late => told /\ c \in Cancels) /\ ~r.held
  BY DEF NoCall
<1> HIDE DEF r
<1> QED  BY <1>1, <1>2, <1>3 DEF Kept, Same

LEMMA ReadKeyIs ==
    ASSUME TasksInv, NEW c \in Calls, ReadKey(c)
    PROVE  /\ call[c].pc = "key" /\ call'[c].pc = "number" /\ call'[c].key = key
           /\ call'[c].keys = call[c].keys /\ call'[c].late = call[c].late
           /\ \A d \in Calls \ {c} : Same(d)
<1>1. call \in [Calls -> CallRecords] /\ call[c] \in CallRecords
  BY DEF TasksInv, TasksTypeOK
<1> DEFINE r == [call[c] EXCEPT !.key = key, !.pc = "number"]
<1>2. call' = [call EXCEPT ![c] = r] /\ call[c].pc = "key"  BY <1>1 DEF ReadKey
<1>3. /\ r.pc = "number" /\ r.key = key
      /\ r.keys = call[c].keys /\ r.late = call[c].late
  BY <1>1 DEF CallRecords
<1> HIDE DEF r
<1> QED  BY <1>1, <1>2, <1>3 DEF Kept, Same

LEMMA ReadNumberIs ==
    ASSUME TasksInv, NEW c \in Calls, ReadNumber(c)
    PROVE  /\ call[c].pc = "number" /\ call'[c].leg = number
           /\ call'[c].pc = IF c \in Updates THEN "lock" ELSE "sync"
           /\ call'[c].key = call[c].key
           /\ call'[c].keys = call[c].keys /\ call'[c].late = call[c].late
           /\ \A d \in Calls \ {c} : Same(d)
<1>1. call \in [Calls -> CallRecords] /\ call[c] \in CallRecords
  BY DEF TasksInv, TasksTypeOK
<1> DEFINE to == IF c \in Updates THEN "lock" ELSE "sync"
           r  == [call[c] EXCEPT !.leg = number, !.pc = to]
<1> HIDE DEF to
<1>2. call' = [call EXCEPT ![c] = r] /\ call[c].pc = "number"
  BY <1>1 DEF ReadNumber, to
<1>3. /\ r.pc = to /\ r.leg = number /\ r.key = call[c].key
      /\ r.keys = call[c].keys /\ r.late = call[c].late
  BY <1>1 DEF CallRecords
<1> HIDE DEF r
<1>4. call'[c] = r /\ \A d \in Calls \ {c} : Same(d)  BY <1>1, <1>2 DEF Kept, Same
<1> QED  BY <1>2, <1>3, <1>4 DEF to

LEMMA SyncIs ==
    ASSUME TasksInv, NEW c \in Calls, Sync(c)
    PROVE  /\ call[c].pc = "sync" /\ call'[c].pc = "marker"
           /\ call'[c].seen = State(call[c].key)
           /\ call'[c].key = call[c].key /\ call'[c].leg = call[c].leg
           /\ call'[c].keys = call[c].keys
           /\ \A d \in Calls \ {c} : Same(d)
<1>1. call \in [Calls -> CallRecords] /\ call[c] \in CallRecords
  BY DEF TasksInv, TasksTypeOK
<1> DEFINE state == State(call[c].key)
           r == [call[c] EXCEPT !.seen = state, !.pc = "marker"]
<1> HIDE DEF state
<1>2. call' = [call EXCEPT ![c] = r] /\ call[c].pc = "sync"  BY <1>1 DEF Sync, state
<1>3. /\ r.pc = "marker" /\ r.seen = state /\ r.key = call[c].key
      /\ r.leg = call[c].leg /\ r.keys = call[c].keys
  BY <1>1 DEF CallRecords
<1> HIDE DEF r
<1>4. call'[c] = r /\ \A d \in Calls \ {c} : Same(d)  BY <1>1, <1>2 DEF Kept, Same
<1> QED  BY <1>2, <1>3, <1>4 DEF state

LEMMA AcquireIs ==
    ASSUME TasksInv, NEW c \in Calls, Acquire(c)
    PROVE  /\ call[c].pc = "lock"
           /\ call'[c].pc = IF c \in Updates THEN "recheck" ELSE "key"
           /\ call'[c].leg = call[c].leg
           /\ call'[c].keys = call[c].keys /\ call'[c].late = call[c].late
           /\ \A d \in Calls \ {c} : Same(d)
<1>1. call \in [Calls -> CallRecords] /\ call[c] \in CallRecords
  BY DEF TasksInv, TasksTypeOK
<1> DEFINE to == IF c \in Updates THEN "recheck" ELSE "key"
           r  == [call[c] EXCEPT !.held = TRUE, !.pc = to]
<1> HIDE DEF to
<1>2. call' = [call EXCEPT ![c] = r] /\ call[c].pc = "lock"
  BY <1>1 DEF Acquire, to
<1>3. /\ r.pc = to /\ r.leg = call[c].leg
      /\ r.keys = call[c].keys /\ r.late = call[c].late
  BY <1>1 DEF CallRecords
<1> HIDE DEF r
<1>4. call'[c] = r /\ \A d \in Calls \ {c} : Same(d)  BY <1>1, <1>2 DEF Kept, Same
<1> QED  BY <1>2, <1>3, <1>4 DEF to

LEMMA MatchIs ==
    ASSUME TasksInv, NEW c \in Calls, Match(c)
    PROVE  LET ks == call[c].keys \cap outstanding[call[c].leg] IN
           /\ call[c].pc = "match" /\ call'[c].match = ks
           /\ call'[c].pc = IF ks = {} THEN "release" ELSE "answers"
           /\ call'[c].leg = call[c].leg /\ call'[c].keys = call[c].keys
           /\ \A d \in Calls \ {c} : Same(d)
<1>1. call \in [Calls -> CallRecords] /\ call[c] \in CallRecords
  BY DEF TasksInv, TasksTypeOK
<1> DEFINE ks == call[c].keys \cap outstanding[call[c].leg]
           to == IF ks = {} THEN "release" ELSE "answers"
           r  == [call[c] EXCEPT !.match = ks, !.pc = to]
<1> HIDE DEF to, ks
<1>2. call' = [call EXCEPT ![c] = r] /\ call[c].pc = "match"
  BY <1>1 DEF Match, to, ks
<1>3. /\ r.pc = to /\ r.leg = call[c].leg /\ r.match = ks /\ r.keys = call[c].keys
  BY <1>1 DEF CallRecords
<1> HIDE DEF r
<1>4. call'[c] = r /\ \A d \in Calls \ {c} : Same(d)  BY <1>1, <1>2 DEF Kept, Same
<1> QED  BY <1>2, <1>3, <1>4 DEF to, ks

-----------------------------------------------------------------------------
(* Keys                                                                    *)

LEMMA Kinds ==
    /\ Gets \subseteq Calls /\ Updates \subseteq Calls /\ Cancels \subseteq Calls
    /\ Gets \cap Updates = {} /\ Gets \cap Cancels = {} /\ Updates \cap Cancels = {}
    /\ Nobody \notin Calls /\ Ghost \notin Calls
  BY TaskSets DEF Calls

LEMMA NoCallIs ==
    /\ NoCall.pc = "idle" /\ NoCall.keys = {} /\ NoCall.match = {}
    /\ ~NoCall.held /\ ~NoCall.late
  BY DEF NoCall

(* A step of the calls alone shows no key that was not minted before.      *)
LEMMA KeysHold ==
    ASSUME TasksInv, KeysInv, NEW c \in Calls,
           UNCHANGED <<run, asked>>,
           \A n \in Legs : outstanding'[n] \subseteq outstanding[n],
           shown \subseteq shown', marker => marker',
           \A k \in shown' \ shown : \E n \in Legs : k \in outstanding[n],
           \A d \in Calls \ {c} : Same(d),
           call'[c].keys \subseteq (IF c \in Updates THEN shown' ELSE {}),
           c \in Cancels /\ call'[c].pc = "clear" => marker'
    PROVE  KeysInv'
<1>1. \A k : Old(k)' <=> Old(k)  BY DEF Old
<1>2. \A n \in Legs : \A k \in outstanding'[n] : k.leg = n /\ Old(k)'
  BY <1>1 DEF KeysInv
<1>3. \A k \in shown' : Old(k)'  BY <1>1 DEF KeysInv
<1>4. ASSUME NEW d \in Calls PROVE Asks(d)'
  <2>1. CASE d = c  BY <2>1 DEF Asks
  <2>2. CASE d # c
    <3>1. Same(d) /\ Asks(d)  BY <2>2 DEF KeysInv
    <3> QED  BY <3>1 DEF Same, Kept, Asks
  <2> QED  BY <2>1, <2>2
<1> QED  BY <1>2, <1>3, <1>4 DEF KeysInv

(* A call that goes on keeps its keys.                                     *)
LEMMA KeysGoto ==
    ASSUME TasksInv, KeysInv, NEW c \in Calls, NEW pc, Goto(c, pc),
           UNCHANGED <<run, asked, shown>>,
           \A n \in Legs : outstanding'[n] \subseteq outstanding[n],
           marker => marker', c \in Cancels /\ pc = "clear" => marker'
    PROVE  KeysInv'
<1>1. call'[c].pc = pc /\ Kept(c) /\ \A d \in Calls \ {c} : Same(d)  BY GotoIs
<1>2. call'[c].keys \subseteq (IF c \in Updates THEN shown' ELSE {})
  BY <1>1 DEF Kept, KeysInv, Asks
<1> QED  BY <1>1, <1>2, KeysHold

(* So does one that moves otherwise, and one that ends has none.           *)
LEMMA KeysMove ==
    ASSUME TasksInv, KeysInv, NEW c \in Calls,
           UNCHANGED <<run, asked, outstanding, marker>>, shown \subseteq shown',
           \A k \in shown' \ shown : \E n \in Legs : k \in outstanding[n],
           \A d \in Calls \ {c} : Same(d),
           \/ call'[c] = NoCall
           \/ call'[c].keys = call[c].keys /\ call'[c].pc # "clear"
    PROVE  KeysInv'
<1>1. call'[c].keys \subseteq (IF c \in Updates THEN shown' ELSE {})
  BY NoCallIs DEF KeysInv, Asks
<1>2. call'[c].pc # "clear"  BY NoCallIs
<1> QED  BY <1>1, <1>2, KeysHold

LEMMA KeysOfRequests ==
    ASSUME TasksInv, NEW c \in Gets, Poll(c) \/ GetSteps(c), KeysInv
    PROVE  KeysInv'
<1>1. c \in Calls /\ c \notin Updates /\ c \notin Cancels  BY Kinds
<1>2. CASE Poll(c)
  <2>1. /\ call'[c].keys = {} /\ call'[c].pc = "key"
        /\ \A d \in Calls \ {c} : Same(d)
    BY <1>1, <1>2, ArrivesIs DEF Poll
  <2>2. UNCHANGED <<run, asked, outstanding, marker, shown>>
    BY <1>2 DEF Poll, Arrives, docket, redis, client, history
  <2> QED  BY <1>1, <2>1, <2>2, KeysHold
<1>3. CASE ReadKey(c)
  BY <1>1, <1>3, ReadKeyIs, KeysMove DEF ReadKey, docket, redis, client, history
<1>4. CASE ReadNumber(c)
  <2>1. /\ call'[c].keys = call[c].keys /\ call'[c].pc # "clear"
        /\ \A d \in Calls \ {c} : Same(d)
    BY <1>1, <1>4, ReadNumberIs
  <2> QED  BY <1>1, <1>4, <2>1, KeysMove DEF ReadNumber, docket, redis, client, history
<1>5. CASE Sync(c)
  BY <1>1, <1>5, SyncIs, KeysMove DEF Sync, docket, redis, client, history
<1>6. CASE Status(c)
  <2>1. UNCHANGED <<run, asked, outstanding, marker, shown>>
    BY <1>6 DEF Status, Reply, docket, redis, client
  <2>2. CASE Goto(c, "inputs")  BY <1>1, <2>1, <2>2, KeysGoto
  <2>3. CASE call' = [call EXCEPT ![c] = NoCall]
    BY <1>1, <2>1, <2>3, EndIs, KeysMove
  <2> QED  BY <1>6, <2>2, <2>3 DEF Status, Reply
<1>7. CASE ReportInputs(c)
  <2>1. call[c].leg \in Legs
    BY <1>1, <1>7 DEF ReportInputs, TasksInv, Placed, Fits, GetFits
  <2>2. /\ UNCHANGED <<run, asked, outstanding, marker>>
        /\ shown' = shown \cup outstanding[call[c].leg]
        /\ call' = [call EXCEPT ![c] = NoCall]
    BY <1>7 DEF ReportInputs, Reply, docket, redis
  <2> QED  BY <1>1, <2>1, <2>2, EndIs, KeysMove
<1> QED  BY <1>2, <1>3, <1>4, <1>5, <1>6, <1>7 DEF GetSteps

LEMMA KeysOfUpdates ==
    ASSUME TasksInv, NEW c \in Updates, KeysInv,
           \/ \E ks \in SUBSET shown : Send(c, ks)
           \/ Acquire(c) \/ UpdateSteps(c) \/ EnqueueFails(c) \/ Raises(c)
    PROVE  KeysInv'
<1>1. c \in Calls /\ c \notin Gets /\ c \notin Cancels  BY Kinds
<1>2. CASE \E ks \in SUBSET shown : Send(c, ks)
  <2>1. PICK ks \in SUBSET shown : Arrives(c, "number", ks)  BY <1>2 DEF Send
  <2>2. /\ call'[c].keys = ks /\ call'[c].pc = "number"
        /\ \A d \in Calls \ {c} : Same(d)
    BY <1>1, <2>1, ArrivesIs
  <2>3. UNCHANGED <<run, asked, outstanding, marker, shown>>
    BY <2>1 DEF Arrives, docket, redis, client, history
  <2> QED  BY <1>1, <2>2, <2>3, KeysHold
<1>3. CASE Acquire(c)
  <2>1. /\ call'[c].keys = call[c].keys /\ call'[c].pc # "clear"
        /\ \A d \in Calls \ {c} : Same(d)
    BY <1>1, <1>3, AcquireIs
  <2> QED  BY <1>1, <1>3, <2>1, KeysMove DEF Acquire, docket, redis, client, history
<1>4. CASE ReadNumber(c)
  <2>1. /\ call'[c].keys = call[c].keys /\ call'[c].pc # "clear"
        /\ \A d \in Calls \ {c} : Same(d)
    BY <1>1, <1>4, ReadNumberIs
  <2> QED  BY <1>1, <1>4, <2>1, KeysMove DEF ReadNumber, docket, redis, client, history
<1>5. CASE GiveUp(c)
  BY <1>1, <1>5, EndIs, KeysMove DEF GiveUp, docket, redis, client
<1>6. CASE Match(c)
  <2>1. /\ call'[c].keys = call[c].keys /\ call'[c].pc # "clear"
        /\ \A d \in Calls \ {c} : Same(d)
    BY <1>1, <1>6, MatchIs
  <2> QED  BY <1>1, <1>6, <2>1, KeysMove DEF Match, docket, redis, client, history
<1>7. CASE Release(c)
  BY <1>1, <1>7, EndIs, KeysMove DEF Release, docket, redis, history
<1>8. CASE CountRest(c)
  <2>1. outstanding \in [Legs -> SUBSET Keys]  BY DEF TasksInv, TasksTypeOK
  <2>2. \A n \in Legs : outstanding'[n] \subseteq outstanding[n]
    BY <1>8, <2>1 DEF CountRest
  <2>3. UNCHANGED <<run, asked, shown, marker>> /\ \E pc : Goto(c, pc)
    BY <1>8, Zenon DEF CountRest, docket, client, history
  <2> QED  BY <1>1, <2>2, <2>3, KeysGoto
<1>9. CASE Clear(c)
  <2>1. outstanding \in [Legs -> SUBSET Keys]  BY DEF TasksInv, TasksTypeOK
  <2>2. \A n \in Legs : outstanding'[n] \subseteq outstanding[n]
    BY <1>9, <2>1 DEF Clear
  <2>3. UNCHANGED <<run, asked, shown, marker>> /\ \E pc : Goto(c, pc)
    BY <1>9, Zenon DEF Clear, docket, client, history
  <2> QED  BY <1>1, <2>2, <2>3, KeysGoto
<1>10. CASE Recheck(c) \/ StoreAnswers(c) \/ Enqueue(c) \/ EnqueueFails(c)
            \/ PointKey(c) \/ PointNumber(c) \/ Raises(c)
  <2>1. UNCHANGED <<run, asked, outstanding, marker, shown>>
    BY <1>10 DEF Recheck, StoreAnswers, Enqueue, EnqueueFails, PointKey, PointNumber,
       Raises, docket, redis, client, history
  <2>2. \E pc : Goto(c, pc)
    BY <1>10, Zenon DEF Recheck, StoreAnswers, Enqueue, EnqueueFails, PointKey, PointNumber,
       Raises
  <2> QED  BY <1>1, <2>1, <2>2, KeysGoto
<1> QED
  BY <1>2, <1>3, <1>4, <1>5, <1>6, <1>7, <1>8, <1>9, <1>10 DEF UpdateSteps

LEMMA KeysOfCancels ==
    ASSUME TasksInv, NEW c \in Cancels, KeysInv,
           CallCancel(c) \/ Acquire(c) \/ CancelSteps(c) \/ Raises(c)
    PROVE  KeysInv'
<1>1. c \in Calls /\ c \notin Updates /\ c \notin Gets  BY Kinds
<1>2. CASE CallCancel(c)
  <2>1. /\ call'[c].keys = {} /\ call'[c].pc = "lock"
        /\ \A d \in Calls \ {c} : Same(d)
    BY <1>1, <1>2, ArrivesIs DEF CallCancel
  <2>2. UNCHANGED <<run, asked, outstanding, marker, shown>>
    BY <1>2 DEF CallCancel, Arrives, docket, redis, client, history
  <2> QED  BY <1>1, <2>1, <2>2, KeysHold
<1>3. CASE Acquire(c)
  <2>1. /\ call'[c].keys = call[c].keys /\ call'[c].pc # "clear"
        /\ \A d \in Calls \ {c} : Same(d)
    BY <1>1, <1>3, AcquireIs
  <2> QED  BY <1>1, <1>3, <2>1, KeysMove DEF Acquire, docket, redis, client, history
<1>4. CASE ReadNumber(c)
  <2>1. /\ call'[c].keys = call[c].keys /\ call'[c].pc # "clear"
        /\ \A d \in Calls \ {c} : Same(d)
    BY <1>1, <1>4, ReadNumberIs
  <2> QED  BY <1>1, <1>4, <2>1, KeysMove DEF ReadNumber, docket, redis, client, history
<1>5. CASE ReadKey(c)
  BY <1>1, <1>5, ReadKeyIs, KeysMove DEF ReadKey, docket, redis, client, history
<1>6. CASE Release(c)
  BY <1>1, <1>6, EndIs, KeysMove DEF Release, docket, redis, history
<1>7. CASE Clear(c)
  <2>1. outstanding \in [Legs -> SUBSET Keys]  BY DEF TasksInv, TasksTypeOK
  <2>2. \A n \in Legs : outstanding'[n] \subseteq outstanding[n]
    BY <1>7, <2>1 DEF Clear
  <2>3. UNCHANGED <<run, asked, shown, marker>> /\ Goto(c, "stop")
    BY <1>1, <1>7 DEF Clear, docket, client, history
  <2> QED  BY <1>1, <2>2, <2>3, KeysGoto
<1>8. CASE Mark(c)
  <2>1. UNCHANGED <<run, asked, outstanding, shown>> /\ Goto(c, "clear") /\ marker'
    BY <1>8 DEF Mark, docket, client, history
  <2> QED  BY <1>1, <2>1, KeysGoto
<1>9. CASE GiveUp(c) \/ SyncCancel(c) \/ CancelInputs(c) \/ Stop(c) \/ Raises(c)
  <2>1. UNCHANGED <<run, asked, outstanding, marker, shown>>
    BY <1>9 DEF GiveUp, SyncCancel, CancelInputs, Stop, Raises, docket, redis, client, history
  <2>2. \E pc : Goto(c, pc) /\ pc # "clear"
    BY <1>1, <1>9 DEF GiveUp, SyncCancel, CancelInputs, Stop, Raises, Goto
  <2> QED  BY <1>1, <2>1, <2>2, KeysGoto
<1> QED
  BY <1>2, <1>3, <1>4, <1>5, <1>6, <1>7, <1>8, <1>9 DEF CancelSteps

(* A worker mints keys: a run of a leg never the same one twice.           *)
LEMMA KeysOfWorkers ==
    ASSUME TasksInv, NEW n \in Legs, KeysInv, Worker(n) \/ Redeliver(n)
    PROVE  KeysInv'
<1>1. /\ run \in [Legs -> Nat] /\ asked \in [Legs -> SUBSET Tools]
      /\ outstanding \in [Legs -> SUBSET Keys] /\ shown \subseteq Keys
  BY DEF TasksInv, TasksTypeOK
<1>2. \A k \in Keys : k.leg \in Legs /\ k.run \in Nat  BY DEF Keys
<1>3. UNCHANGED <<call, shown, marker>>
  BY DEF Worker, Start, Ask, DropAnswers, Finish, LegCancelled, Redeliver, redis, client
<1>4. \A c \in Calls : Asks(c)'  BY <1>3 DEF KeysInv, Asks
<1>5. CASE Start(n)
  <2>1. outstanding' = outstanding  BY <1>5 DEF Start, redis
  <2>2. ASSUME NEW k \in Keys, Old(k) PROVE Old(k)'
    <3>1. /\ run' = [run EXCEPT ![n] = run[n] + 1]
          /\ asked' = [asked EXCEPT ![n] = {}]
      BY <1>5 DEF Start
    <3> QED  BY <1>1, <1>2, <2>2, <3>1 DEF Old
  <2> QED  BY <1>1, <1>3, <1>4, <2>1, <2>2 DEF KeysInv
<1>6. CASE Ask(n)
  <2>1. PICK tool \in Tools \ asked[n] :
          /\ outstanding' = [outstanding EXCEPT ![n] =
                outstanding[n] \cup {[leg |-> n, tool |-> tool, run |-> run[n]]}]
          /\ asked' = [asked EXCEPT ![n] = asked[n] \cup {tool}]
    BY <1>6 DEF Ask
  <2>2. run' = run  BY <1>6 DEF Ask
  <2>3. ASSUME NEW k \in Keys, Old(k) PROVE Old(k)'
    BY <1>1, <1>2, <2>1, <2>2, <2>3 DEF Old
  <2>4. PICK new \in Keys : new = [leg |-> n, tool |-> tool, run |-> run[n]]
    BY <1>1 DEF Keys
  <2>5. new.leg = n /\ Old(new)'  BY <1>1, <2>1, <2>2, <2>4 DEF Old
  <2>6. ASSUME NEW m \in Legs, NEW k \in outstanding'[m] PROVE k.leg = m /\ Old(k)'
    <3>1. k \in outstanding[m] \/ (m = n /\ k = new)  BY <1>1, <2>1, <2>4, <2>6
    <3>2. CASE k \in outstanding[m]
      <4>1. k \in Keys /\ k.leg = m /\ Old(k)  BY <1>1, <3>2 DEF KeysInv
      <4> QED  BY <2>3, <4>1
    <3>3. CASE m = n /\ k = new  BY <2>5, <3>3
    <3> QED  BY <3>1, <3>2, <3>3
  <2> QED  BY <1>1, <1>3, <1>4, <2>3, <2>6 DEF KeysInv
<1>7. CASE DropAnswers(n) \/ Finish(n) \/ LegCancelled(n) \/ Redeliver(n)
  <2>1. UNCHANGED <<run, asked, outstanding>>
    BY <1>7 DEF DropAnswers, Finish, LegCancelled, Redeliver, redis, history
  <2> QED  BY <1>3, <1>4, <2>1 DEF KeysInv, Old
<1> QED  BY <1>5, <1>6, <1>7 DEF Worker

LEMMA KeysStep == TasksInv /\ KeysInv /\ [Next]_vars => KeysInv'
<1> SUFFICES ASSUME TasksInv, KeysInv, [Next]_vars PROVE KeysInv'  OBVIOUS
<1>1. ASSUME NEW n \in Legs, Worker(n) \/ Redeliver(n) PROVE KeysInv'
  BY <1>1, KeysOfWorkers
<1>2. ASSUME NEW c \in Gets, Poll(c) \/ GetSteps(c) PROVE KeysInv'
  BY <1>2, KeysOfRequests
<1>3. ASSUME NEW c \in Updates,
             \/ \E ks \in SUBSET shown : Send(c, ks)
             \/ Acquire(c) \/ UpdateSteps(c) \/ EnqueueFails(c) \/ Raises(c)
      PROVE  KeysInv'
  BY <1>3, KeysOfUpdates
<1>4. ASSUME NEW c \in Cancels,
             CallCancel(c) \/ Acquire(c) \/ CancelSteps(c) \/ Raises(c)
      PROVE  KeysInv'
  BY <1>4, KeysOfCancels
<1>5. ASSUME NEW c \in Calls, Dies(c) PROVE KeysInv'
  BY <1>5, DiesIs, KeysMove DEF Dies, docket, redis, client
<1>6. CASE LockExpires \/ UNCHANGED vars
  BY <1>6 DEF LockExpires, vars, KeysInv, Old, Asks, docket, redis, client, history
<1> QED  BY <1>1, <1>2, <1>3, <1>4, <1>5, <1>6 DEF Next

LEMMA KeysInit == Init => KeysInv
  BY TaskSets, NoCallIs DEF Init, KeysInv, Asks, Legs

-----------------------------------------------------------------------------
(* Who holds the lock                                                      *)

LEMMA Holds ==
    ASSUME TasksInv, NEW c \in Updates, call[c].pc \notin {"idle", "number", "lock"}
    PROVE  /\ lock = c /\ c \in Calls /\ call[c].leg \in Legs
           /\ call[c].pc \in Resuming => call[c].leg + 1 \in Legs
<1>1. c \in Calls /\ UpdateFits(call[c])  BY Kinds DEF TasksInv, Placed, Fits
<1> QED  BY <1>1 DEF TasksInv, Exclusive, UpdateFits, Resuming

LEMMA OneHolds ==
    ASSUME TasksInv, NEW c \in Updates, call[c].pc \notin {"idle", "number", "lock"},
           NEW d \in Updates, d # c
    PROVE  call[d].pc \in {"idle", "number", "lock"}
  BY Holds

Tear == {"pointkey", "pointnumber", "clear"}

(* A step that leaves the lock to whoever has it, or takes it or gives it  *)
(* up, does not change who is between an enqueue and the end of its call.  *)
Calm(c) ==
    /\ \A d \in Calls \ {c} : Same(d)
    /\ lock' = lock \/ {lock, lock'} \subseteq {c, Nobody, Ghost}
    /\ c \in Updates => call[c].pc \notin Tear /\ call'[c].pc \notin Tear

LEMMA CalmHolds ==
    ASSUME TasksInv, NEW c \in Calls, Calm(c), NEW pcs \in SUBSET Tear
    PROVE  /\ HeldUp(pcs)' <=> HeldUp(pcs)
           /\ HeldUp(pcs) => lock' = lock /\ call'[lock].leg = call[lock].leg
<1>1. CASE lock' = lock
  <2>1. ASSUME lock \in Updates, lock # c
        PROVE  call'[lock].pc = call[lock].pc /\ call'[lock].leg = call[lock].leg
    BY <2>1, Kinds DEF Calm, Same, Kept
  <2>2. ASSUME lock \in Updates, lock = c
        PROVE  ~HeldUp(pcs) /\ ~HeldUp(pcs)'
    BY <1>1, <2>2 DEF Calm, HeldUp
  <2> QED  BY <1>1, <2>1, <2>2 DEF HeldUp
<1>2. CASE {lock, lock'} \subseteq {c, Nobody, Ghost}
  <2>1. ~HeldUp(pcs)  BY <1>2, Kinds DEF Calm, HeldUp
  <2>2. ~HeldUp(pcs)'  BY <1>2, Kinds DEF Calm, HeldUp
  <2> QED  BY <2>1, <2>2
<1> QED  BY <1>1, <1>2 DEF Calm

-----------------------------------------------------------------------------
(* The pointer                                                             *)

PointedAt == PointerOK /\ \A c \in Updates : OnLeg(call[c])

(* A calm step of a call that leaves the legs alone.                       *)
LEMMA PointerCalm ==
    ASSUME TasksInv, PointedAt, NEW c \in Calls, Calm(c),
           UNCHANGED <<exec, number, outstanding>>, marker => marker',
           c \in Updates =>
              \/ call'[c].pc \in Waiting
              \/ call'[c].pc = "lock" /\ call'[c].leg = number
              \/ /\ call[c].pc \notin Waiting
                 /\ call'[c].leg = call[c].leg /\ call'[c].keys = call[c].keys
                 /\ call'[c].pc \in Resuming => call[c].leg = number
    PROVE  PointedAt'
<1>1. /\ HeldUp({"clear"})' <=> HeldUp({"clear"})
      /\ HeldUp({"clear"}) => lock' = lock /\ call'[lock].leg = call[lock].leg
  BY CalmHolds DEF Tear
<1>2. HeldUp({"pointkey", "pointnumber"})' <=> HeldUp({"pointkey", "pointnumber"})
  BY CalmHolds DEF Tear
<1>3. PointerOK'  BY <1>2 DEF PointedAt, PointerOK
<1>4. number \in Legs /\ number \in Nat  BY DEF TasksInv, TasksTypeOK, Legs
<1>5. ASSUME NEW d \in Updates PROVE OnLeg(call[d])'
  <2>1. OnLeg(call[d]) /\ d \in Calls  BY Kinds DEF PointedAt
  <2>2. CASE d = c
    <3>1. CASE call'[c].pc \in Waiting
      BY <2>2, <3>1 DEF OnLeg, Waiting, Resuming
    <3>2. CASE call'[c].pc = "lock" /\ call'[c].leg = number
      BY <1>4, <2>2, <3>2 DEF OnLeg, Waiting, Resuming
    <3>3. CASE /\ call[c].pc \notin Waiting
               /\ call'[c].leg = call[c].leg /\ call'[c].keys = call[c].keys
               /\ call'[c].pc \in Resuming => call[c].leg = number
      <4>1. call'[c].pc \notin Tear  BY <2>2 DEF Calm
      <4>2. Missed(call[c]) => Missed(call[c])'  BY <1>1, <3>3 DEF Missed
      <4> QED  BY <2>1, <2>2, <3>3, <4>1, <4>2 DEF OnLeg, Tear
    <3> QED  BY <2>2, <3>1, <3>2, <3>3
  <2>3. CASE d # c
    <3>1. Same(d)  BY <2>1, <2>3 DEF Calm
    <3>2. Missed(call[d]) => Missed(call[d])'  BY <1>1, <3>1 DEF Missed, Same, Kept
    <3> QED  BY <2>1, <3>1, <3>2 DEF OnLeg, Same, Kept
  <2> QED  BY <2>2, <2>3
<1> QED  BY <1>3, <1>5 DEF PointedAt

LEMMA PointerOfRequests ==
    ASSUME TasksInv, NEW c \in Gets, Poll(c) \/ GetSteps(c), PointedAt
    PROVE  PointedAt'
<1>1. c \in Calls /\ c \notin Updates /\ c \notin Cancels  BY Kinds
<1>2. UNCHANGED <<exec, number, outstanding, marker, lock>>
  BY DEF Poll, GetSteps, Arrives, ReadKey, ReadNumber, Sync, Status, ReportInputs, Reply,
     docket, redis
<1>3. \A d \in Calls \ {c} : Same(d)
  <2>1. CASE Poll(c)  BY <1>1, <2>1, ArrivesIs DEF Poll
  <2>2. CASE ReadKey(c)  BY <1>1, <2>2, ReadKeyIs
  <2>3. CASE ReadNumber(c)  BY <1>1, <2>3, ReadNumberIs
  <2>4. CASE Sync(c)  BY <1>1, <2>4, SyncIs
  <2>5. CASE Status(c) \/ ReportInputs(c)
    <3>1. Goto(c, "inputs") \/ call' = [call EXCEPT ![c] = NoCall]
      BY <2>5 DEF Status, ReportInputs, Reply
    <3> QED  BY <1>1, <3>1, GotoIs, EndIs
  <2> QED  BY <2>1, <2>2, <2>3, <2>4, <2>5 DEF GetSteps
<1> QED  BY <1>1, <1>2, <1>3, PointerCalm DEF Calm

(* Steps of an update before its enqueue, and those that end it.           *)
LEMMA PointerOfUpdates ==
    ASSUME TasksInv, NEW c \in Updates, PointedAt,
           \/ \E ks \in SUBSET shown : Send(c, ks)
           \/ ReadNumber(c) \/ Acquire(c) \/ GiveUp(c) \/ Recheck(c) \/ Match(c)
           \/ StoreAnswers(c) \/ Release(c)
    PROVE  PointedAt'
<1>1. c \in Calls /\ c \notin Gets /\ c \notin Cancels  BY Kinds
<1>2. UNCHANGED <<exec, number, outstanding, marker>>
  BY DEF Send, Arrives, ReadNumber, Acquire, GiveUp, Recheck, Match, StoreAnswers, Release,
     docket, redis
<1>3. OnLeg(call[c])  BY DEF PointedAt
<1>4. CASE \E ks \in SUBSET shown : Send(c, ks)
  <2>1. PICK ks \in SUBSET shown : Arrives(c, "number", ks)  BY <1>4 DEF Send
  <2>2. call[c].pc = "idle" /\ call'[c].pc = "number" /\ \A d \in Calls \ {c} : Same(d)
    BY <1>1, <2>1, ArrivesIs
  <2>3. Calm(c)  BY <2>1, <2>2 DEF Calm, Tear, Arrives
  <2> QED  BY <1>1, <1>2, <2>2, <2>3, PointerCalm DEF Waiting
<1>5. CASE ReadNumber(c)
  <2>1. /\ call[c].pc = "number" /\ call'[c].pc = "lock" /\ call'[c].leg = number
        /\ \A d \in Calls \ {c} : Same(d)
    BY <1>1, <1>5, ReadNumberIs
  <2>2. Calm(c)  BY <1>5, <2>1 DEF Calm, Tear, ReadNumber
  <2> QED  BY <1>1, <1>2, <2>1, <2>2, PointerCalm
<1>6. CASE Acquire(c)
  <2>1. /\ call[c].pc = "lock" /\ call'[c].pc = "recheck"
        /\ call'[c].leg = call[c].leg /\ call'[c].keys = call[c].keys
        /\ \A d \in Calls \ {c} : Same(d)
    BY <1>1, <1>6, AcquireIs
  <2>2. Calm(c)  BY <1>6, <2>1 DEF Calm, Tear, Acquire
  <2> QED  BY <1>1, <1>2, <2>1, <2>2, PointerCalm DEF Waiting, Resuming
<1>7. CASE GiveUp(c)
  <2>1. call[c].pc = "lock" /\ lock' = lock /\ call' = [call EXCEPT ![c] = NoCall]
    BY <1>7 DEF GiveUp
  <2>2. call'[c] = NoCall /\ \A d \in Calls \ {c} : Same(d)  BY <1>1, <2>1, EndIs
  <2>3. Calm(c)  BY <2>1, <2>2, NoCallIs DEF Calm, Tear
  <2> QED  BY <1>1, <1>2, <2>2, <2>3, NoCallIs, PointerCalm DEF Waiting
<1>8. CASE Recheck(c)
  <2>1. PICK pc \in {"release", "match"} : Goto(c, pc)  BY <1>8 DEF Recheck
  <2>2. call'[c].pc = pc /\ Kept(c) /\ \A d \in Calls \ {c} : Same(d)
    BY <1>1, <2>1, GotoIs
  <2>3. call[c].pc = "recheck" /\ lock' = lock  BY <1>8 DEF Recheck
  <2>4. Calm(c)  BY <2>2, <2>3 DEF Calm, Tear
  <2> QED  BY <1>1, <1>2, <2>2, <2>3, <2>4, PointerCalm DEF Kept, Waiting, Resuming
<1>9. CASE Match(c)
  <2> DEFINE ks == call[c].keys \cap outstanding[call[c].leg]
  <2>1. /\ call[c].pc = "match"
        /\ call'[c].pc = IF ks = {} THEN "release" ELSE "answers"
        /\ call'[c].leg = call[c].leg /\ call'[c].keys = call[c].keys
        /\ \A d \in Calls \ {c} : Same(d)
    BY <1>1, <1>9, MatchIs
  <2>2. Calm(c)  BY <1>9, <2>1 DEF Calm, Tear, Match
  <2>3. lock = c /\ call[c].leg \in Legs  BY <2>1, Holds
  <2>4. ~HeldUp({"clear"})  BY <2>1, <2>3 DEF HeldUp
  <2>5. ks # {} => call[c].leg = number
    <3>1. call[c].leg \in Nat /\ number \in Nat
      BY <2>3 DEF TasksInv, TasksTypeOK, Legs
    <3> QED  BY <1>3, <2>1, <2>4, <3>1 DEF OnLeg, Missed, Waiting
  <2> HIDE DEF ks
  <2> QED  BY <1>1, <1>2, <2>1, <2>2, <2>5, PointerCalm DEF Waiting, Resuming
<1>10. CASE StoreAnswers(c)
  <2>1. call[c].pc = "answers" /\ lock' = lock /\ Goto(c, "rest")
    BY <1>10 DEF StoreAnswers
  <2>2. call'[c].pc = "rest" /\ Kept(c) /\ \A d \in Calls \ {c} : Same(d)
    BY <1>1, <2>1, GotoIs
  <2>3. Calm(c)  BY <2>1, <2>2 DEF Calm, Tear
  <2>4. call[c].leg = number  BY <1>3, <2>1 DEF OnLeg, Resuming
  <2> QED  BY <1>1, <1>2, <2>1, <2>2, <2>3, <2>4, PointerCalm DEF Kept, Waiting
<1>11. CASE Release(c)
  <2>1. /\ call[c].pc \in {"release", "raise"} /\ call' = [call EXCEPT ![c] = NoCall]
        /\ lock' \in {lock, Nobody}
    BY <1>11 DEF Release
  <2>2. lock = c  BY <2>1, Holds
  <2>3. call'[c] = NoCall /\ \A d \in Calls \ {c} : Same(d)  BY <1>1, <2>1, EndIs
  <2>4. Calm(c)  BY <2>1, <2>2, <2>3, NoCallIs DEF Calm, Tear
  <2> QED  BY <1>1, <1>2, <2>3, <2>4, NoCallIs, PointerCalm DEF Waiting
<1> QED  BY <1>4, <1>5, <1>6, <1>7, <1>8, <1>9, <1>10, <1>11

(* What an update that resumes the task has: the lock, the leg pointed to, *)
(* and no leg after that one but its own.                                  *)
LEMMA Resumes ==
    ASSUME TasksInv, PointedAt, NEW c \in Updates, call[c].pc \in Resuming
    PROVE  /\ lock = c /\ c \in Calls
           /\ call[c].leg = number /\ number \in Legs /\ number + 1 \in Legs
           /\ call[c].pc \in {"answers", "rest", "enqueue"} => exec[number + 1] = "none"
           /\ call[c].pc \in {"pointkey", "pointnumber"} => exec[number + 1] # "none"
           /\ \A n \in Legs : n > number + 1 => exec[n] = "none"
           /\ \A d \in Updates \ {c} : call[d].pc \in {"idle", "number", "lock"}
           /\ ~HeldUp({"clear"})
<1>1. /\ lock = c /\ c \in Calls /\ call[c].leg \in Legs /\ call[c].leg + 1 \in Legs
      /\ call[c].leg = number
  BY Holds DEF PointedAt, OnLeg, Resuming
<1>2. \A d \in Updates \ {c} : call[d].pc \in {"idle", "number", "lock"}
  BY OneHolds DEF Resuming
<1>3. number \in Nat /\ \A n \in Legs : n \in Nat  BY <1>1 DEF Legs
<1>4. call[c].pc \in {"answers", "rest", "enqueue"} => exec[number + 1] = "none"
  BY <1>1, <1>3 DEF PointedAt, PointerOK, HeldUp
<1>5. \A n \in Legs : n > number + 1 => exec[n] = "none"
  BY <1>1, <1>3 DEF PointedAt, PointerOK
<1>6. call[c].pc \in {"pointkey", "pointnumber"} => exec[number + 1] # "none"
  BY <1>1 DEF PointedAt, OnLeg
<1>7. ~HeldUp({"clear"})  BY <1>1 DEF HeldUp, Resuming
<1> QED  BY <1>1, <1>2, <1>4, <1>5, <1>6, <1>7

(* Requests are only taken away, by an update or after the marker.         *)
LEMMA PointerOfCountRest ==
    ASSUME TasksInv, PointedAt, NEW c \in Updates, CountRest(c)
    PROVE  PointedAt'
<1>1. /\ lock = c /\ c \in Calls /\ call[c].leg = number /\ number \in Legs
      /\ \A d \in Updates \ {c} : call[d].pc \in {"idle", "number", "lock"}
      /\ ~HeldUp({"clear"}) /\ ~HeldUp({"pointkey", "pointnumber"})
      /\ call[c].pc = "rest"
  BY Resumes DEF CountRest, Resuming, HeldUp
<1>2. /\ outstanding' = [outstanding EXCEPT ![number] = outstanding[number] \ Retired(c)]
      /\ UNCHANGED <<exec, number, marker, lock>>
      /\ outstanding \in [Legs -> SUBSET Keys]
  BY <1>1 DEF CountRest, docket, TasksInv, TasksTypeOK
<1>3. PICK pc \in {"enqueue", "release"} : Goto(c, pc)  BY DEF CountRest
<1>4. call'[c].pc = pc /\ Kept(c) /\ \A d \in Calls \ {c} : Same(d)
  BY <1>1, <1>3, GotoIs
<1>5. \A n \in Legs : /\ outstanding'[n] \subseteq outstanding[n]
                      /\ outstanding[n] # {} => outstanding'[n] # {}
  BY <1>1, <1>2 DEF Retired
<1>6. PointerOK'
  <2>1. ~HeldUp({"pointkey", "pointnumber"})'  BY <1>1, <1>2, <1>4 DEF HeldUp
  <2> QED  BY <1>1, <1>2, <1>5 DEF PointedAt, PointerOK
<1>7. ASSUME NEW d \in Updates PROVE OnLeg(call[d])'
  <2>1. OnLeg(call[d]) /\ d \in Calls  BY Kinds DEF PointedAt
  <2>2. Kept(d) /\ call'[d].pc = (IF d = c THEN pc ELSE call[d].pc)
    BY <1>4, <2>1 DEF Same
  <2>3. call[d].pc \notin Waiting => call[d].leg \in Legs
    BY <2>1 DEF TasksInv, Placed, Fits, UpdateFits, Waiting
  <2>4. call[d].pc \notin Waiting /\ call[d].leg < number => Missed(call[d])'
    BY <1>1, <1>5, <2>1, <2>2, <2>3 DEF OnLeg, Missed, Kept
  <2>5. CASE d = c
    BY <1>1, <1>2, <2>1, <2>2, <2>4, <2>5 DEF OnLeg, Kept, Waiting, Resuming
  <2>6. CASE d # c
    BY <1>1, <1>2, <2>1, <2>2, <2>4, <2>6 DEF OnLeg, Kept, Waiting, Resuming
  <2> QED  BY <2>5, <2>6
<1> QED  BY <1>6, <1>7 DEF PointedAt

LEMMA PointerOfEnqueue ==
    ASSUME TasksInv, PointedAt, NEW c \in Updates, Enqueue(c)
    PROVE  PointedAt'
<1>1. /\ lock = c /\ c \in Calls /\ call[c].leg = number
      /\ number \in Legs /\ number + 1 \in Legs /\ exec[number + 1] = "none"
      /\ \A n \in Legs : n > number + 1 => exec[n] = "none"
      /\ \A d \in Updates \ {c} : call[d].pc \in {"idle", "number", "lock"}
      /\ ~HeldUp({"clear"})
      /\ call[c].pc = "enqueue"
  BY Resumes DEF Enqueue, Resuming
<1>2. /\ exec' = [exec EXCEPT ![number + 1] = "queued"]
      /\ UNCHANGED <<number, marker, lock, outstanding>> /\ Goto(c, "pointkey")
      /\ exec \in [Legs -> Executions]
  BY <1>1 DEF Enqueue, Enqueued, Live, Active, redis, TasksInv, TasksTypeOK
<1>3. call'[c].pc = "pointkey" /\ Kept(c) /\ \A d \in Calls \ {c} : Same(d)
  BY <1>1, <1>2, GotoIs
<1>4. number \in Nat /\ \A n \in Legs : n \in Nat  BY <1>1 DEF Legs
<1>5. HeldUp({"pointkey", "pointnumber"})' /\ ~HeldUp({"clear"})'
  BY <1>1, <1>2, <1>3 DEF HeldUp
<1>6. \A n \in Legs : exec'[n] = IF n = number + 1 THEN "queued" ELSE exec[n]
  BY <1>1, <1>2
<1>7. PointerOK'
  <2>1. \A n \in Legs : n <= number' => exec'[n] # "none"
    BY <1>2, <1>4, <1>6 DEF PointedAt, PointerOK
  <2>2. \A n \in Legs : n > number' /\ exec'[n] # "none" => n = number' + 1
    BY <1>1, <1>2, <1>4, <1>6
  <2>3. marker' \/ \A n \in Legs : n >= number' /\ exec'[n] \in Asked => outstanding'[n] # {}
    BY <1>1, <1>2, <1>4, <1>6 DEF PointedAt, PointerOK, Asked
  <2> QED  BY <1>5, <2>1, <2>2, <2>3 DEF PointerOK
<1>8. ASSUME NEW d \in Updates PROVE OnLeg(call[d])'
  <2>1. OnLeg(call[d]) /\ d \in Calls  BY Kinds DEF PointedAt
  <2>2. CASE d = c
    <3>1. call'[d].leg = number' /\ call'[d].pc = "pointkey" /\ exec'[number' + 1] # "none"
      BY <1>1, <1>2, <1>3, <1>6, <2>2 DEF Kept
    <3> QED  BY <1>2, <1>4, <3>1 DEF OnLeg, Waiting, Resuming
  <2>3. CASE d # c
    <3>1. Same(d) /\ call[d].pc \in {"idle", "number", "lock"}  BY <1>1, <1>3, <2>1, <2>3
    <3> QED  BY <1>1, <1>2, <2>1, <3>1 DEF OnLeg, Missed, Same, Kept, Waiting, Resuming
  <2> QED  BY <2>2, <2>3
<1> QED  BY <1>7, <1>8 DEF PointedAt

LEMMA PointerOfPointKey ==
    ASSUME TasksInv, PointedAt, NEW c \in Updates, PointKey(c)
    PROVE  PointedAt'
<1>1. /\ lock = c /\ c \in Calls /\ call[c].leg = number
      /\ exec[number + 1] # "none"
      /\ \A d \in Updates \ {c} : call[d].pc \in {"idle", "number", "lock"}
      /\ ~HeldUp({"clear"})
      /\ call[c].pc = "pointkey" /\ number \in Nat
  BY Resumes DEF PointKey, Resuming, Legs
<1>2. UNCHANGED <<exec, number, marker, lock, outstanding>> /\ Goto(c, "pointnumber")
  BY DEF PointKey, docket
<1>3. call'[c].pc = "pointnumber" /\ Kept(c) /\ \A d \in Calls \ {c} : Same(d)
  BY <1>1, <1>2, GotoIs
<1>4. HeldUp({"pointkey", "pointnumber"})' /\ ~HeldUp({"clear"})'
  BY <1>1, <1>2, <1>3 DEF HeldUp
<1>5. PointerOK'  BY <1>2, <1>4 DEF PointedAt, PointerOK
<1>6. ASSUME NEW d \in Updates PROVE OnLeg(call[d])'
  <2>1. OnLeg(call[d]) /\ d \in Calls  BY Kinds DEF PointedAt
  <2>2. CASE d = c
    BY <1>1, <1>2, <1>3, <2>2 DEF OnLeg, Kept, Waiting, Resuming
  <2>3. CASE d # c
    <3>1. Same(d) /\ call[d].pc \in {"idle", "number", "lock"}  BY <1>1, <1>3, <2>1, <2>3
    <3> QED  BY <1>1, <1>2, <2>1, <3>1 DEF OnLeg, Missed, Same, Kept, Waiting, Resuming
  <2> QED  BY <2>2, <2>3
<1> QED  BY <1>5, <1>6 DEF PointedAt

(* The leg that was pointed to has requests until the next command.        *)
LEMMA PointerOfPointNumber ==
    ASSUME TasksInv, PointedAt, NEW c \in Updates, PointNumber(c)
    PROVE  PointedAt'
<1>1. /\ lock = c /\ c \in Calls /\ call[c].leg = number
      /\ number \in Legs /\ number + 1 \in Legs /\ exec[number + 1] # "none"
      /\ \A n \in Legs : n > number + 1 => exec[n] = "none"
      /\ \A d \in Updates \ {c} : call[d].pc \in {"idle", "number", "lock"}
      /\ ~HeldUp({"clear"})
      /\ call[c].pc = "pointnumber"
  BY Resumes DEF PointNumber, Resuming
<1>2. /\ number' = number + 1
      /\ UNCHANGED <<exec, marker, lock, outstanding>> /\ Goto(c, "clear")
  BY <1>1 DEF PointNumber, docket
<1>3. call'[c].pc = "clear" /\ Kept(c) /\ \A d \in Calls \ {c} : Same(d)
  BY <1>1, <1>2, GotoIs
<1>4. number \in Nat /\ \A n \in Legs : n \in Nat  BY <1>1 DEF Legs
<1>5. HeldUp({"clear"})' /\ call'[lock'].leg = number
  BY <1>1, <1>2, <1>3 DEF HeldUp, Kept
<1>6. PointerOK'
  <2>1. \A n \in Legs : n <= number' => exec'[n] # "none"
    <3>1. \A n \in Legs : n <= number + 1 => n <= number \/ n = number + 1  BY <1>4
    <3> QED  BY <1>1, <1>2, <3>1 DEF PointedAt, PointerOK
  <2>2. \A n \in Legs : n > number' => exec'[n] = "none"  BY <1>1, <1>2
  <2>3. marker' \/ \A n \in Legs : n >= number' /\ exec'[n] \in Asked => outstanding'[n] # {}
    BY <1>2, <1>4 DEF PointedAt, PointerOK
  <2> QED  BY <2>1, <2>2, <2>3 DEF PointerOK
<1>7. ASSUME NEW d \in Updates PROVE OnLeg(call[d])'
  <2>1. OnLeg(call[d]) /\ d \in Calls  BY Kinds DEF PointedAt
  <2>2. CASE d = c
    <3>1. call'[d].leg = number /\ call'[d].pc = "clear"  BY <1>1, <1>3, <2>2 DEF Kept
    <3> QED  BY <1>2, <1>4, <1>5, <3>1 DEF OnLeg, Missed, Waiting, Resuming
  <2>3. CASE d # c
    <3>1. Same(d) /\ call[d].pc \in {"idle", "number", "lock"}  BY <1>1, <1>3, <2>1, <2>3
    <3>2. call[d].pc = "lock" => call[d].leg \in Nat
      BY <2>1 DEF TasksInv, Placed, Fits, UpdateFits, Legs
    <3>3. call[d].pc = "lock" => call[d].leg = number \/ call[d].leg < number
      BY <1>4, <2>1, <3>2 DEF OnLeg, Waiting
    <3>4. call[d].pc = "lock" => Missed(call[d])'
      BY <1>1, <1>2, <1>5, <2>1, <3>1, <3>3 DEF OnLeg, Missed, Same, Kept, Waiting
    <3> QED  BY <1>2, <1>4, <3>1, <3>2, <3>3, <3>4 DEF OnLeg, Same, Kept, Waiting, Resuming
  <2> QED  BY <2>2, <2>3
<1> QED  BY <1>6, <1>7 DEF PointedAt

(* The last command of an update: the leg left has no requests any more.   *)
LEMMA PointerOfUpdateClear ==
    ASSUME TasksInv, PointedAt, NEW c \in Updates, Clear(c)
    PROVE  PointedAt'
<1>1. /\ lock = c /\ c \in Calls /\ call[c].leg \in Legs /\ call[c].pc = "clear"
      /\ \A d \in Updates \ {c} : call[d].pc \in {"idle", "number", "lock"}
  BY Holds, OneHolds DEF Clear
<1>2. OnLeg(call[c]) /\ call[c].leg < number  BY <1>1 DEF PointedAt, OnLeg
<1>3. /\ outstanding' = [outstanding EXCEPT ![call[c].leg] = {}]
      /\ UNCHANGED <<exec, number, marker, lock>> /\ Goto(c, "release")
      /\ outstanding \in [Legs -> SUBSET Keys]
  BY DEF Clear, docket, TasksInv, TasksTypeOK
<1>4. call'[c].pc = "release" /\ Kept(c) /\ \A d \in Calls \ {c} : Same(d)
  BY <1>1, <1>3, GotoIs
<1>5. /\ ~HeldUp({"pointkey", "pointnumber"})
      /\ HeldUp({"clear"}) => call[lock].leg = call[c].leg
  BY <1>1 DEF HeldUp
<1>6. /\ \A n \in Legs : outstanding'[n] \subseteq outstanding[n]
      /\ outstanding'[call[c].leg] = {}
      /\ \A n \in Legs : n # call[c].leg => outstanding'[n] = outstanding[n]
  BY <1>1, <1>3
<1>7. number \in Nat /\ \A n \in Legs : n \in Nat  BY DEF TasksInv, TasksTypeOK, Legs
<1>8. PointerOK'
  BY <1>2, <1>3, <1>5, <1>6, <1>7 DEF PointedAt, PointerOK
<1>9. ASSUME NEW d \in Updates PROVE OnLeg(call[d])'
  <2>1. OnLeg(call[d]) /\ d \in Calls  BY Kinds DEF PointedAt
  <2>2. Kept(d) /\ call'[d].pc = (IF d = c THEN "release" ELSE call[d].pc)
    BY <1>4, <2>1 DEF Same
  <2>3. call[d].pc \notin Waiting => call[d].leg \in Legs
    BY <2>1 DEF TasksInv, Placed, Fits, UpdateFits, Waiting
  <2>4. call[d].pc \notin Waiting /\ call[d].leg < number => Missed(call[d])'
    BY <1>5, <1>6, <2>1, <2>2, <2>3 DEF OnLeg, Missed, Kept
  <2>5. CASE d = c
    BY <1>1, <1>2, <1>3, <2>1, <2>2, <2>4, <2>5 DEF OnLeg, Kept, Waiting, Resuming
  <2>6. CASE d # c
    BY <1>1, <1>3, <2>1, <2>2, <2>4, <2>6 DEF OnLeg, Kept, Waiting, Resuming
  <2> QED  BY <2>5, <2>6
<1> QED  BY <1>8, <1>9 DEF PointedAt

(* A failing command leaves the leg pointed to as it was, unless it came   *)
(* after the enqueue.                                                      *)
LEMMA PointerOfFaults ==
    ASSUME TasksInv, PointedAt, NEW c \in Calls,
           (c \in Updates /\ EnqueueFails(c)) \/ Raises(c) \/ Dies(c),
           "torn" \notin slips'
    PROVE  PointedAt'
<1>1. UNCHANGED <<exec, number, outstanding, marker>>
  BY DEF EnqueueFails, Raises, Dies, docket, redis
<1>2. c \in Updates => call[c].pc \notin Tear
  BY DEF EnqueueFails, Raises, Dies, Tearing, Tear
<1>3. CASE Goto(c, "raise") /\ lock' = lock /\ (c \in Updates => call[c].pc \notin Waiting)
  <2>1. call'[c].pc = "raise" /\ Kept(c) /\ \A d \in Calls \ {c} : Same(d)
    BY <1>3, GotoIs
  <2>2. Calm(c)  BY <1>2, <1>3, <2>1 DEF Calm, Tear
  <2> QED  BY <1>1, <1>3, <2>1, <2>2, PointerCalm DEF Kept, Resuming
<1>4. CASE Dies(c)
  <2>1. call'[c] = NoCall /\ \A d \in Calls \ {c} : Same(d)  BY <1>4, DiesIs
  <2>2. lock' = lock \/ {lock, lock'} \subseteq {c, Nobody, Ghost}
    BY <1>4 DEF Dies, TasksInv, Exclusive
  <2>3. Calm(c)  BY <1>2, <2>1, <2>2, NoCallIs DEF Calm, Tear
  <2> QED  BY <1>1, <2>1, <2>3, NoCallIs, PointerCalm DEF Waiting
<1>5. ASSUME c \in Updates, EnqueueFails(c) \/ Raises(c)
      PROVE  Goto(c, "raise") /\ lock' = lock /\ call[c].pc \notin Waiting
  <2>1. CASE EnqueueFails(c)  BY <2>1 DEF EnqueueFails, Waiting
  <2>2. CASE Raises(c)
    <3>1. call[c].held /\ UpdateFits(call[c])
      BY <1>5, <2>2 DEF Raises, TasksInv, Placed, Fits
    <3> QED  BY <2>2, <3>1 DEF Raises, UpdateFits, Waiting
  <2> QED  BY <1>5, <2>1, <2>2
<1>6. ASSUME c \notin Updates, Raises(c)
      PROVE  Goto(c, "raise") /\ lock' = lock
  BY <1>6 DEF Raises
<1> QED  BY <1>3, <1>4, <1>5, <1>6

LEMMA PointerOfCancels ==
    ASSUME TasksInv, KeysInv, PointedAt, NEW c \in Cancels,
           CallCancel(c) \/ Acquire(c) \/ CancelSteps(c)
    PROVE  PointedAt'
<1>1. c \in Calls /\ c \notin Updates /\ c \notin Gets  BY Kinds
<1>2. /\ \A d \in Calls \ {c} : Same(d)
      /\ lock' = lock \/ {lock, lock'} \subseteq {c, Nobody, Ghost}
  <2>1. CASE CallCancel(c)
    BY <1>1, <2>1, ArrivesIs DEF CallCancel, Arrives
  <2>2. CASE Acquire(c)  BY <1>1, <2>2, AcquireIs DEF Acquire
  <2>3. CASE ReadKey(c)  BY <1>1, <2>3, ReadKeyIs DEF ReadKey
  <2>4. CASE ReadNumber(c)  BY <1>1, <2>4, ReadNumberIs DEF ReadNumber
  <2>5. CASE Release(c)
    <3>1. lock' = lock \/ {lock, lock'} \subseteq {c, Nobody, Ghost}
      BY <1>1, <2>5 DEF Release, TasksInv, Exclusive
    <3>2. call' = [call EXCEPT ![c] = NoCall]  BY <2>5 DEF Release
    <3> QED  BY <1>1, <3>1, <3>2, EndIs
  <2>6. CASE GiveUp(c) \/ SyncCancel(c) \/ CancelInputs(c) \/ Mark(c) \/ Clear(c) \/ Stop(c)
    <3>1. \E pc : Goto(c, pc)
      BY <1>1, <2>6 DEF GiveUp, SyncCancel, CancelInputs, Mark, Clear, Stop, Goto
    <3>2. lock' = lock
      BY <2>6 DEF GiveUp, SyncCancel, CancelInputs, Mark, Clear, Stop
    <3> QED  BY <1>1, <3>1, <3>2, GotoIs
  <2> QED  BY <2>1, <2>2, <2>3, <2>4, <2>5, <2>6 DEF CancelSteps
<1>3. Calm(c)  BY <1>1, <1>2 DEF Calm
<1>4. CASE Clear(c)
  <2>1. marker /\ marker'  BY <1>1, <1>4 DEF KeysInv, Asks, Clear
  <2>2. /\ \A n \in Legs : outstanding'[n] \subseteq outstanding[n]
        /\ UNCHANGED <<exec, number>>
    BY <1>4 DEF Clear, docket, TasksInv, TasksTypeOK
  <2>3. /\ HeldUp({"clear"})' <=> HeldUp({"clear"})
        /\ HeldUp({"clear"}) => lock' = lock /\ call'[lock].leg = call[lock].leg
        /\ HeldUp({"pointkey", "pointnumber"})' <=> HeldUp({"pointkey", "pointnumber"})
    BY <1>1, <1>3, CalmHolds DEF Tear
  <2>4. PointerOK'  BY <2>1, <2>2, <2>3 DEF PointedAt, PointerOK
  <2>5. ASSUME NEW d \in Updates PROVE OnLeg(call[d])'
    <3>1. OnLeg(call[d]) /\ d \in Calls /\ Same(d)  BY <1>1, <1>2, Kinds DEF PointedAt
    <3>2. call[d].pc \notin Waiting => call[d].leg \in Legs
      BY <3>1 DEF TasksInv, Placed, Fits, UpdateFits, Waiting
    <3>3. call[d].pc \notin Waiting /\ Missed(call[d]) => Missed(call[d])'
      BY <2>2, <2>3, <3>1, <3>2 DEF Missed, Same, Kept
    <3> QED  BY <2>2, <3>1, <3>3 DEF OnLeg, Same, Kept
  <2> QED  BY <2>4, <2>5 DEF PointedAt
<1>5. CASE Stop(c)
  <2>1. /\ UNCHANGED <<number, outstanding, marker>> /\ exec \in [Legs -> Executions]
        /\ \A n \in Legs : /\ exec'[n] = "none" <=> exec[n] = "none"
                           /\ exec'[n] \in Asked => exec[n] \in Asked
    BY <1>5 DEF Stop, Asked, redis, TasksInv, TasksTypeOK
  <2>2. /\ HeldUp({"clear"})' <=> HeldUp({"clear"})
        /\ HeldUp({"clear"}) => lock' = lock /\ call'[lock].leg = call[lock].leg
        /\ HeldUp({"pointkey", "pointnumber"})' <=> HeldUp({"pointkey", "pointnumber"})
    BY <1>1, <1>3, CalmHolds DEF Tear
  <2>3. PointerOK'  BY <2>1, <2>2 DEF PointedAt, PointerOK
  <2>4. ASSUME NEW d \in Updates PROVE OnLeg(call[d])'
    <3>1. OnLeg(call[d]) /\ d \in Calls /\ Same(d)  BY <1>1, <1>2, Kinds DEF PointedAt
    <3>2. call[d].pc \in {"pointkey", "pointnumber"} => exec'[call[d].leg + 1] # "none"
      <4>1. call[d].pc \in {"pointkey", "pointnumber"} => call[d].leg + 1 \in Legs
        BY Holds DEF Resuming
      <4> QED  BY <2>1, <3>1, <4>1 DEF OnLeg
    <3>3. Missed(call[d]) => Missed(call[d])'
      BY <2>1, <2>2, <3>1 DEF Missed, Same, Kept
    <3> QED  BY <2>1, <3>1, <3>2, <3>3 DEF OnLeg, Same, Kept
  <2> QED  BY <2>3, <2>4 DEF PointedAt
<1>6. ASSUME ~Clear(c), ~Stop(c)
      PROVE  UNCHANGED <<exec, number, outstanding>> /\ (marker => marker')
  BY <1>6 DEF CallCancel, Arrives, Acquire, CancelSteps, GiveUp, ReadKey, ReadNumber,
     SyncCancel, CancelInputs, Mark, Release, docket, redis
<1> QED  BY <1>1, <1>3, <1>4, <1>5, <1>6, PointerCalm

(* A leg that stores a request again mints a key no update has.            *)
LEMMA PointerOfWorkers ==
    ASSUME TasksInv, KeysInv, PointedAt, NEW n \in Legs, Worker(n) \/ Redeliver(n)
    PROVE  PointedAt'
<1>1. UNCHANGED <<call, lock, number, marker, shown>>
  BY DEF Worker, Start, Ask, DropAnswers, Finish, LegCancelled, Redeliver, redis, client
<1>2. exec \in [Legs -> Executions] /\ outstanding \in [Legs -> SUBSET Keys]
  BY DEF TasksInv, TasksTypeOK
<1>3. \A m \in Legs : exec'[m] = "none" <=> exec[m] = "none"
  BY <1>2 DEF Worker, Start, Ask, DropAnswers, Finish, LegCancelled, Redeliver, Active
<1>4. \A m \in Legs : /\ outstanding[m] \subseteq outstanding'[m]
                      /\ exec'[m] \in Asked => exec[m] \in Asked \/ outstanding'[m] # {}
  <2>1. CASE Ask(n)
    <3>1. PICK new :
            /\ outstanding' = [outstanding EXCEPT ![n] = outstanding[n] \cup {new}]
            /\ exec' = [exec EXCEPT ![n] = "asking"]
      BY <2>1 DEF Ask
    <3> QED  BY <1>2, <3>1
  <2>2. CASE ~Ask(n)
    <3>1. outstanding' = outstanding
      BY <2>2 DEF Worker, Start, DropAnswers, Finish, LegCancelled, Redeliver, redis
    <3>2. \A m \in Legs : exec'[m] \in Asked => exec[m] \in Asked
      BY <1>2, <2>2 DEF Worker, Start, DropAnswers, Finish, LegCancelled, Redeliver, Asked
    <3> QED  BY <3>1, <3>2
  <2> QED  BY <2>1, <2>2
<1>5. \A pcs : HeldUp(pcs)' <=> HeldUp(pcs)  BY <1>1 DEF HeldUp
<1>6. PointerOK'
  <2>1. \A m \in Legs : m <= number => exec'[m] # "none"
    BY <1>3 DEF PointedAt, PointerOK
  <2>2. \A m \in Legs : m > number /\ exec'[m] # "none" =>
           m = number + 1 /\ HeldUp({"pointkey", "pointnumber"})
    BY <1>3 DEF PointedAt, PointerOK
  <2>3. marker \/ \A m \in Legs : m >= number /\ exec'[m] \in Asked => outstanding'[m] # {}
    BY <1>4 DEF PointedAt, PointerOK
  <2> QED  BY <1>1, <1>5, <2>1, <2>2, <2>3 DEF PointerOK
<1>7. ASSUME NEW d \in Updates PROVE OnLeg(call[d])'
  <2>1. OnLeg(call[d]) /\ d \in Calls /\ call[d].keys \subseteq shown
    BY Kinds DEF PointedAt, KeysInv, Asks
  <2>2. call[d].pc \in {"pointkey", "pointnumber"} => exec'[call[d].leg + 1] # "none"
    <3>1. call[d].pc \in {"pointkey", "pointnumber"} => call[d].leg + 1 \in Legs
      BY Holds DEF Resuming
    <3> QED  BY <1>3, <2>1, <3>1 DEF OnLeg
  <2>3. call[d].keys \cap outstanding'[call[d].leg] = call[d].keys \cap outstanding[call[d].leg]
    <3>1. CASE Ask(n)
      <4>1. PICK tool \in Tools \ asked[n] :
               outstanding' = [outstanding EXCEPT ![n] =
                  outstanding[n] \cup {[leg |-> n, tool |-> tool, run |-> run[n]]}]
        BY <3>1 DEF Ask
      <4>2. PICK new : new = [leg |-> n, tool |-> tool, run |-> run[n]]  OBVIOUS
      <4>3. ~Old(new)  BY <4>2 DEF Old
      <4>4. new \notin call[d].keys  BY <2>1, <4>3 DEF KeysInv
      <4>5. outstanding' = [outstanding EXCEPT ![n] = outstanding[n] \cup {new}]
        BY <4>1, <4>2
      <4> QED  BY <1>2, <4>4, <4>5
    <3>2. CASE ~Ask(n)
      BY <3>2 DEF Worker, Start, DropAnswers, Finish, LegCancelled, Redeliver, redis
    <3> QED  BY <3>1, <3>2
  <2>4. Missed(call[d]) => Missed(call[d])'  BY <1>1, <1>5, <2>3 DEF Missed
  <2> QED  BY <1>1, <2>1, <2>2, <2>4 DEF OnLeg
<1> QED  BY <1>6, <1>7 DEF PointedAt

LEMMA SlipsGrow == [Next]_vars => slips \subseteq slips'
<1> SUFFICES ASSUME [Next]_vars PROVE slips \subseteq slips'  OBVIOUS
<1>1. ASSUME NEW n \in Legs, Worker(n) \/ Redeliver(n) PROVE slips \subseteq slips'
  BY <1>1 DEF Worker, Start, Ask, DropAnswers, Finish, LegCancelled, Redeliver, history
<1>2. ASSUME NEW c \in Gets, Poll(c) \/ GetSteps(c) PROVE slips \subseteq slips'
  BY <1>2 DEF Poll, GetSteps, Arrives, ReadKey, ReadNumber, Sync, Status, ReportInputs, history
<1>3. ASSUME NEW c \in Updates,
             \/ \E ks \in SUBSET shown : Send(c, ks)
             \/ Acquire(c) \/ UpdateSteps(c) \/ EnqueueFails(c) \/ Raises(c)
      PROVE  slips \subseteq slips'
  BY <1>3 DEF Send, Arrives, Acquire, UpdateSteps, EnqueueFails, Raises, ReadNumber, GiveUp,
     Recheck, Match, StoreAnswers, CountRest, Enqueue, PointKey, PointNumber, Clear, Release,
     history
<1>4. ASSUME NEW c \in Cancels,
             CallCancel(c) \/ Acquire(c) \/ CancelSteps(c) \/ Raises(c)
      PROVE  slips \subseteq slips'
  BY <1>4 DEF CallCancel, Arrives, Acquire, CancelSteps, Raises, GiveUp, ReadKey, ReadNumber,
     SyncCancel, CancelInputs, Mark, Clear, Stop, Release, history
<1>5. CASE (\E c \in Calls : Dies(c)) \/ LockExpires \/ UNCHANGED vars
  BY <1>5 DEF Dies, LockExpires, vars, history
<1> QED  BY <1>1, <1>2, <1>3, <1>4, <1>5 DEF Next

LEMMA PointerStep == TasksInv /\ KeysInv /\ PointerInv /\ [Next]_vars => PointerInv'
<1> SUFFICES ASSUME TasksInv, KeysInv, PointedAt, [Next]_vars, "torn" \notin slips'
             PROVE  PointedAt'
  <2>1. [Next]_vars => slips \subseteq slips'  BY SlipsGrow
  <2> QED  BY <2>1 DEF PointerInv, PointedAt
<1>1. ASSUME NEW n \in Legs, Worker(n) \/ Redeliver(n) PROVE PointedAt'
  BY <1>1, PointerOfWorkers
<1>2. ASSUME NEW c \in Gets, Poll(c) \/ GetSteps(c) PROVE PointedAt'
  BY <1>2, PointerOfRequests
<1>3. ASSUME NEW c \in Updates,
             \/ \E ks \in SUBSET shown : Send(c, ks)
             \/ Acquire(c) \/ UpdateSteps(c)
      PROVE  PointedAt'
  BY <1>3, PointerOfUpdates, PointerOfCountRest, PointerOfEnqueue, PointerOfPointKey,
     PointerOfPointNumber, PointerOfUpdateClear DEF UpdateSteps
<1>4. ASSUME NEW c \in Cancels, CallCancel(c) \/ Acquire(c) \/ CancelSteps(c)
      PROVE  PointedAt'
  BY <1>4, PointerOfCancels
<1>5. ASSUME NEW c \in Calls, (c \in Updates /\ EnqueueFails(c)) \/ Raises(c) \/ Dies(c)
      PROVE  PointedAt'
  BY <1>5, PointerOfFaults
<1>6. CASE LockExpires
  <2>1. UNCHANGED <<exec, number, outstanding, marker, call>> /\ lock = Ghost /\ lock' = Nobody
    BY <1>6 DEF LockExpires, docket, redis
  <2>2. \A pcs : ~HeldUp(pcs) /\ ~HeldUp(pcs)'  BY <2>1, Kinds DEF HeldUp
  <2> QED  BY <2>1, <2>2 DEF PointedAt, PointerOK, OnLeg, Missed
<1>7. CASE UNCHANGED vars
  BY <1>7 DEF vars, docket, redis, PointedAt, PointerOK, OnLeg, Missed, HeldUp
<1> QED  BY <1>1, <1>2, <1>3, <1>4, <1>5, <1>6, <1>7, Kinds DEF Next

LEMMA PointerInit == Init => PointerInv
<1> SUFFICES ASSUME Init PROVE PointedAt  BY DEF PointerInv, PointedAt
<1>1. \A c \in Updates : call[c] = NoCall  BY Kinds DEF Init
<1>2. PointerOK
  <2>1. \A n \in Legs : n \in Nat /\ n >= 1 /\ exec[n] = IF n = 1 THEN "queued" ELSE "none"
    BY DEF Init, Legs
  <2> QED  BY <2>1 DEF Init, PointerOK, Asked
<1> QED  BY <1>1, <1>2, NoCallIs DEF PointedAt, OnLeg, Waiting, Resuming

-----------------------------------------------------------------------------
(* The theorems                                                            *)

LegsInv == TasksInv /\ KeysInv /\ PointerInv

LEMMA LegsInit == Init => LegsInv
  BY InitOK, KeysInit, PointerInit DEF LegsInv

LEMMA LegsStep == LegsInv /\ [Next]_vars => LegsInv'
  BY StepOK, KeysStep, PointerStep DEF LegsInv

(* Only the update that holds the lock enqueues what is not waiting or     *)
(* running, and that leg was never enqueued.                               *)
LEMMA EnqueuesNew ==
    ASSUME LegsInv, [Next]_vars, "torn" \notin slips,
           NEW n \in Legs, exec[n] \notin Live, exec'[n] = "queued"
    PROVE  exec[n] = "none" /\ \E c \in Updates : call[c].pc = "enqueue" /\ n = number + 1
<1>1. TasksInv /\ PointedAt /\ exec \in [Legs -> Executions]
  BY DEF LegsInv, PointerInv, PointedAt, TasksInv, TasksTypeOK
<1>2. exec[n] # "queued"  BY DEF Live
<1>3. ASSUME NEW c \in Updates, Enqueue(c) \/ EnqueueFails(c)
      PROVE  exec[n] = "none" /\ call[c].pc = "enqueue" /\ n = number + 1
  <2>1. call[c].pc = "enqueue" /\ (exec' = exec \/ exec' = Enqueued(call[c].leg + 1))
    BY <1>3 DEF Enqueue, EnqueueFails
  <2>2. call[c].leg = number /\ number + 1 \in Legs /\ exec[number + 1] = "none"
    BY <1>1, <2>1, Resumes DEF Resuming
  <2> QED  BY <1>1, <1>2, <2>1, <2>2 DEF Enqueued, Live
<1>4. ASSUME NEW m \in Legs, Worker(m) \/ Redeliver(m) PROVE exec'[n] # "queued"
  BY <1>1, <1>2, <1>4 DEF Worker, Start, Ask, DropAnswers, Finish, LegCancelled,
     Redeliver, Live
<1>5. ASSUME NEW c \in Cancels, CallCancel(c) \/ Acquire(c) \/ CancelSteps(c) \/ Raises(c)
      PROVE  exec'[n] # "queued"
  <2>1. CASE Stop(c)  BY <1>1, <1>2, <2>1 DEF Stop
  <2>2. CASE ~Stop(c)
    BY <1>2, <1>5, <2>2 DEF CallCancel, Arrives, Acquire, CancelSteps, Raises, GiveUp,
       ReadKey, ReadNumber, SyncCancel, CancelInputs, Mark, Clear, Release, docket
  <2> QED  BY <2>1, <2>2
<1>6. ASSUME NEW c \in Updates,
             \/ \E ks \in SUBSET shown : Send(c, ks)
             \/ Acquire(c) \/ UpdateSteps(c) \/ Raises(c), ~Enqueue(c)
      PROVE  exec'[n] # "queued"
  BY <1>2, <1>6 DEF Send, Arrives, Acquire, UpdateSteps, Raises, ReadNumber, GiveUp, Recheck,
     Match, StoreAnswers, CountRest, PointKey, PointNumber, Clear, Release, docket
<1>7. ASSUME NEW c \in Gets, Poll(c) \/ GetSteps(c) PROVE exec'[n] # "queued"
  BY <1>2, <1>7 DEF Poll, GetSteps, Arrives, ReadKey, ReadNumber, Sync, Status,
     ReportInputs, Reply, docket
<1>8. ASSUME \/ \E c \in Calls : Dies(c)
             \/ LockExpires \/ UNCHANGED vars
      PROVE  exec'[n] # "queued"
  BY <1>2, <1>8 DEF Dies, LockExpires, vars, docket
<1> QED  BY <1>3, <1>4, <1>5, <1>6, <1>7, <1>8 DEF Next

(* However many answers race, each leg is enqueued once, unless an update  *)
(* broke off between its enqueue and its end.                              *)
THEOREM LegsEnqueuedOnce == Spec => EachLegOnce
<1> DEFINE Step == \A n \in Legs : exec[n] \notin Live \cup {"none"} /\ exec'[n] = "queued"
                                      => "torn" \in slips
<1>1. LegsInv /\ [Next]_vars => Step  BY EnqueuesNew
<1>2. LegsInv /\ [Next]_vars => [Step]_vars  BY <1>1
<1> QED  BY <1>2, LegsInit, LegsStep, PTL DEF Spec, EachLegOnce

(* A parked task can be answered, wherever the calls before it stopped.    *)
THEOREM ParkedIsAnswerable == Spec => []ParkedStaysParked
<1>1. LegsInv => ParkedStaysParked
  <2> SUFFICES ASSUME LegsInv, exec[number] = "parked", ~marker, "torn" \notin slips
               PROVE  outstanding[number] # {}
    BY DEF ParkedStaysParked
  <2>1. number \in Legs /\ number >= number  BY DEF LegsInv, TasksInv, TasksTypeOK, Legs
  <2> QED  BY <2>1 DEF LegsInv, PointerInv, PointerOK, Asked
<1> QED  BY <1>1, LegsInit, LegsStep, PTL DEF Spec

=============================================================================
