------------------------------ MODULE TaskLegs ------------------------------
(***************************************************************************)
(* One background task (fastmcp_tasks).  A tool that needs input ends its  *)
(* leg, a Docket execution, leaving requests in Redis; the task is parked  *)
(* until tasks/update has an answer to each, and enqueues the next leg.    *)
(* Calls of tasks/get, tasks/update and tasks/cancel interleave with the   *)
(* worker at every Redis command whose order matters.                      *)
(***************************************************************************)
EXTENDS Naturals, FiniteSets

CONSTANTS
    Tools,          \* the keys a tool gives its own requests
    Gets,           \* concurrent calls of tasks_get
    Updates,        \* ... of tasks_update
    Cancels,        \* ... of tasks_cancel
    Nobody,         \* the update lock is free
    Ghost,          \* the update lock outlives the call that took it
    CallsMayBreak,  \* a call can stop between two commands
    MaxLegs,        \* bound: legs of the task
    MaxRuns,        \* bound: deliveries of a leg to a worker
    MaxFaults       \* bound: calls broken off and enqueues timing out

Calls == Gets \cup Updates \cup Cancels

ASSUME TaskSets ==
    /\ Nobody \notin Calls /\ Ghost \notin Calls /\ Nobody # Ghost
    /\ Gets \cap Updates = {} /\ Gets \cap Cancels = {} /\ Updates \cap Cancels = {}
    /\ CallsMayBreak \in BOOLEAN
    /\ MaxLegs \in Nat \ {0} /\ MaxRuns \in Nat \ {0} /\ MaxFaults \in Nat

VARIABLES
    exec,           \* the legs' Docket executions
    run,            \* how often each leg was delivered to a worker
    cancelling,     \* running legs whose worker was told to stop
    outstanding,    \* input:<leg>:requests and :map, by leg
    responses,      \* input_responses: the tool keys answered
    key,            \* current_leg: which leg's execution the task is on
    number,         \* leg: its number, written separately
    marker,         \* cancelled
    lock,           \* update_lock
    call            \* the calls in progress

VARIABLES           \* the client's knowledge
    shown,          \* the request keys tasks_get reported
    acked           \* the request keys tasks_update acknowledged

VARIABLES           \* history, for the properties only
    asked,          \* the tool keys each leg asked for, in its last run
    got,            \* the answers each leg was first started with
    told,           \* tasks_get reported a result or an error
    faults,         \* calls broken off and enqueues timing out so far
    slips           \* what the code does not repair

redis == <<outstanding, responses, key, number, marker>>
docket == <<exec, run, cancelling>>
client == <<shown, acked>>
history == <<asked, got, told, faults, slips>>
vars == <<docket, redis, lock, call, client, history>>

-----------------------------------------------------------------------------
Legs == 1 .. MaxLegs

(* A surfaced key is minted for one request of one run of one leg.         *)
Keys == [leg : Legs, tool : Tools, run : Nat]

(* "asking": the leg has stored its requests; "parking": and dropped the   *)
(* answers it used; "parked": the execution has ended too, and Docket      *)
(* calls it completed like any other.                                      *)
Active == {"running", "asking", "parking"}
Live == Active \cup {"queued"}
Executions == Live \cup {"none", "parked", "completed", "failed", "cancelled"}

(* execution.state as tasks_get and tasks_cancel see it *)
State(n) == IF exec[n] = "parked" THEN "completed" ELSE exec[n]

Places == {"idle", "key", "number", "sync", "marker", "inputs", "lock",
           "recheck", "match", "answers", "rest", "enqueue", "pointkey",
           "pointnumber", "mark", "clear", "stop", "release", "raise"}

(* "early": waiting for the lock since before its holder died.  "late", a  *)
(* history field: made after tasks_get reported a result or an error.      *)
CallRecords ==
    [pc : Places, key : 0 .. MaxLegs, leg : 0 .. MaxLegs, seen : Executions,
     keys : SUBSET Keys, match : SUBSET Keys, held : BOOLEAN, early : BOOLEAN, late : BOOLEAN]
NoCall ==
    [pc |-> "idle", key |-> 0, leg |-> 0, seen |-> "none", keys |-> {},
     match |-> {}, held |-> FALSE, early |-> FALSE, late |-> FALSE]

(* What the code does not repair: an update broken off after its enqueue, a *)
(* cancel without the lock, a leg run again after it stored requests, the  *)
(* requests of a running leg reported as those of the one before.          *)
Slips == {"torn", "forced", "rerun", "early"}

TasksTypeOK ==
    /\ exec \in [Legs -> Executions] /\ run \in [Legs -> Nat]
    /\ cancelling \subseteq Legs
    /\ outstanding \in [Legs -> SUBSET Keys] /\ responses \subseteq Tools
    /\ key \in Legs /\ number \in Legs /\ marker \in BOOLEAN
    /\ lock \in Calls \cup {Nobody, Ghost}
    /\ call \in [Calls -> CallRecords]
    /\ shown \subseteq Keys /\ acked \subseteq Keys
    /\ asked \in [Legs -> SUBSET Tools] /\ got \in [Legs -> SUBSET Tools]
    /\ told \in BOOLEAN /\ faults \in Nat
    /\ slips \subseteq Slips

ToolsOf(ks) == {k.tool : k \in ks}

Goto(c, pc) == call' = [call EXCEPT ![c].pc = pc]

-----------------------------------------------------------------------------
(* The worker *)

(* load_pending_input, then the body: what it was answered so far. *)
Start(n) ==
    /\ exec[n] = "queued"
    /\ exec' = [exec EXCEPT ![n] = "running"]
    /\ run' = [run EXCEPT ![n] = run[n] + 1]
    /\ IF asked[n] = {}
         THEN got' = [got EXCEPT ![n] = responses] /\ UNCHANGED slips
         ELSE slips' = slips \cup {"rerun"} /\ UNCHANGED got
    /\ asked' = [asked EXCEPT ![n] = {}]
    /\ UNCHANGED <<cancelling, redis, lock, call, client, told, faults>>

(* store_outstanding: the body returned an InputRequiredResult.  Each of   *)
(* its requests is stored by a command of its own, and the answers the     *)
(* body used are dropped after them.                                       *)
Ask(n) ==
    /\ exec[n] \in {"running", "asking"} /\ n < MaxLegs
    /\ \E tool \in Tools \ asked[n] :
        /\ outstanding' = [outstanding EXCEPT ![n] =
              outstanding[n] \cup {[leg |-> n, tool |-> tool, run |-> run[n]]}]
        /\ asked' = [asked EXCEPT ![n] = asked[n] \cup {tool}]
    /\ exec' = [exec EXCEPT ![n] = "asking"]
    /\ UNCHANGED <<run, cancelling, responses, key, number, marker, lock, call,
                   client, got, told, faults, slips>>

DropAnswers(n) ==
    /\ exec[n] = "asking"
    /\ responses' = {}
    /\ exec' = [exec EXCEPT ![n] = "parking"]
    /\ UNCHANGED <<run, cancelling, outstanding, key, number, marker, lock, call,
                   client, history>>

(* The body returned a value, it or the storing of its requests raised, or *)
(* the parked leg's run ended.                                             *)
Finish(n) ==
    /\ \/ exec[n] = "running" /\ exec' = [exec EXCEPT ![n] = "completed"]
       \/ exec[n] \in {"running", "asking"} /\ exec' = [exec EXCEPT ![n] = "failed"]
       \/ exec[n] = "parking" /\ exec' = [exec EXCEPT ![n] = "parked"]
    /\ cancelling' = cancelling \ {n}
    /\ UNCHANGED <<run, redis, lock, call, client, history>>

(* The worker obeys docket.cancel; it may also finish first. *)
LegCancelled(n) ==
    /\ n \in cancelling /\ exec[n] \in Active
    /\ exec' = [exec EXCEPT ![n] = "cancelled"]
    /\ cancelling' = cancelling \ {n}
    /\ UNCHANGED <<run, redis, lock, call, client, history>>

(* The worker died: Docket gives the leg to another one. *)
Redeliver(n) ==
    /\ exec[n] \in Active /\ run[n] < MaxRuns
    /\ exec' = [exec EXCEPT ![n] = "queued"]
    /\ UNCHANGED <<run, cancelling, redis, lock, call, client, history>>

-----------------------------------------------------------------------------
(* The client's calls *)

Arrives(c, pc, ks) ==
    /\ call[c].pc = "idle"
    /\ call' = [call EXCEPT ![c] = [NoCall EXCEPT !.pc = pc, !.keys = ks,
                                       !.late = told /\ c \in Cancels]]
    /\ UNCHANGED <<docket, redis, lock, client, history>>

Poll(c) == Arrives(c, "key", {})
CallCancel(c) == Arrives(c, "lock", {})

(* A payload answers requests the client was shown, current or not. *)
Send(c, ks) == ks # {} /\ ks \subseteq shown /\ Arrives(c, "number", ks)

(* _lookup_task: the two halves of the leg pointer are two GETs. *)
ReadKey(c) ==
    /\ call[c].pc = "key"
    /\ call' = [call EXCEPT ![c].key = key, ![c].pc = "number"]
    /\ UNCHANGED <<docket, redis, lock, client, history>>

ReadNumber(c) ==
    /\ call[c].pc = "number"
    /\ call' = [call EXCEPT ![c].leg = number,
                            ![c].pc = IF c \in Updates THEN "lock" ELSE "sync"]
    /\ UNCHANGED <<docket, redis, lock, client, history>>

-----------------------------------------------------------------------------
(* tasks_get *)

Sync(c) ==
    /\ c \in Gets /\ call[c].pc = "sync"
    /\ call' = [call EXCEPT ![c].seen = State(call[c].key), ![c].pc = "marker"]
    /\ UNCHANGED <<docket, redis, lock, client, history>>

Reply(c, status, ks) ==
    /\ call' = [call EXCEPT ![c] = NoCall]
    /\ told' = (told \/ (status \in {"completed", "failed"}
                           /\ exec[call[c].key] # "parked"))
    /\ shown' = shown \cup ks
    /\ UNCHANGED <<docket, redis, lock, acked, asked, got, faults>>

(* is_cancelled outranks the execution; then what the execution says. *)
Status(c) ==
    /\ call[c].pc = "marker"
    /\ IF marker THEN Reply(c, "cancelled", {})
       ELSE IF call[c].seen = "completed"
              THEN /\ Goto(c, "inputs")
                   /\ UNCHANGED <<docket, redis, lock, client, asked, got, told, faults>>
              ELSE Reply(c, call[c].seen, {})
    /\ UNCHANGED slips

(* A completed execution without requests is reported with its result.     *)
(* The requests are of the leg its number names, which need not be the one *)
(* whose execution was looked at.                                          *)
ReportInputs(c) ==
    /\ c \in Gets /\ call[c].pc = "inputs"
    /\ LET leg == call[c].leg
           waiting == outstanding[leg] IN
       /\ Reply(c, IF waiting # {} THEN "input_required" ELSE "completed", waiting)
       /\ slips' = IF waiting # {} /\ exec[leg] # "parked"
                   THEN slips \cup {"early"} ELSE slips

-----------------------------------------------------------------------------
(* The update lock *)

(* mutant: a cancel does not wait for an update in progress *)
AcquireCancelPasses(c) ==
    /\ call[c].pc = "lock" /\ ~call[c].early
    /\ lock = Nobody \/ c \in Cancels
    /\ lock' = c
    /\ call' = [call EXCEPT ![c].held = TRUE,
                            ![c].pc = IF c \in Updates THEN "recheck" ELSE "key"]
    /\ UNCHANGED <<docket, redis, client, history>>

Acquire(c) ==
    /\ call[c].pc = "lock" /\ ~call[c].early
    /\ lock = Nobody
    /\ lock' = c
    /\ call' = [call EXCEPT ![c].held = TRUE,
                            ![c].pc = IF c \in Updates THEN "recheck" ELSE "key"]
    /\ UNCHANGED <<docket, redis, client, history>>

(* Five seconds passed: only a dead holder, or one that waits for its      *)
(* enqueue, takes as long.  An update is an error, a cancel goes on.       *)
Wedged == lock = Ghost \/ (lock \in Calls /\ call[lock].pc = "enqueue")

(* mutant: the loser is acknowledged *)
GiveUpAcknowledged(c) ==
    /\ call[c].pc = "lock" /\ Wedged
    /\ IF c \in Updates
         THEN /\ call' = [call EXCEPT ![c] = NoCall]
              /\ acked' = acked \cup call[c].keys /\ UNCHANGED slips
         ELSE Goto(c, "key") /\ slips' = slips \cup {"forced"} /\ UNCHANGED acked
    /\ UNCHANGED <<docket, redis, lock, shown, asked, got, told, faults>>

GiveUp(c) ==
    /\ call[c].pc = "lock" /\ Wedged
    /\ IF c \in Updates
         THEN call' = [call EXCEPT ![c] = NoCall] /\ UNCHANGED slips
         ELSE Goto(c, "key") /\ slips' = slips \cup {"forced"}
    /\ UNCHANGED <<docket, redis, lock, client, asked, got, told, faults>>

(* mutant: an update that matched nothing returns with the lock *)
ReleaseForgotten(c) ==
    /\ call[c].pc \in {"release", "raise"}
    /\ lock' = IF call[c].held /\ call[c].match # {} THEN Nobody ELSE lock
    /\ acked' = IF call[c].pc = "release" THEN acked \cup call[c].keys ELSE acked
    /\ call' = [call EXCEPT ![c] = NoCall]
    /\ UNCHANGED <<docket, redis, shown, history>>

(* finally: release_update_lock, and the answer to the client. *)
Release(c) ==
    /\ call[c].pc \in {"release", "raise"}
    /\ lock' = IF call[c].held THEN Nobody ELSE lock
    /\ acked' = IF call[c].pc = "release" THEN acked \cup call[c].keys ELSE acked
    /\ call' = [call EXCEPT ![c] = NoCall]
    /\ UNCHANGED <<docket, redis, shown, history>>

(* The lock's TTL ends.  It is longer than anyone waits: those who were    *)
(* waiting when the holder died have given up by then.                     *)
LockExpires ==
    /\ lock = Ghost
    /\ \A c \in Calls : call[c].pc = "lock" => ~call[c].early
    /\ lock' = Nobody
    /\ UNCHANGED <<docket, redis, call, client, history>>

-----------------------------------------------------------------------------
(* tasks_update, under the lock *)

Recheck(c) ==
    /\ call[c].pc = "recheck"
    /\ Goto(c, IF marker THEN "release" ELSE "match")
    /\ UNCHANGED <<docket, redis, lock, client, history>>

(* translate_responses: the leg is the one read before the lock. *)
Match(c) ==
    /\ call[c].pc = "match"
    /\ LET ks == call[c].keys \cap outstanding[call[c].leg] IN
       call' = [call EXCEPT ![c].match = ks,
                            ![c].pc = IF ks = {} THEN "release" ELSE "answers"]
    /\ UNCHANGED <<docket, redis, lock, client, history>>

(* mutants: the answers of this payload replace the earlier ones; they are *)
(* stored under the surfaced keys.                                         *)
MergedOverwrites(c) == ToolsOf(call[c].match)
MergedUntranslated(c) == responses \cup call[c].match

(* store_input_responses *)
Merged(c) == responses \cup ToolsOf(call[c].match)

StoreAnswers(c) ==
    /\ call[c].pc = "answers"
    /\ responses' = Merged(c)
    /\ Goto(c, "rest")
    /\ UNCHANGED <<docket, outstanding, key, number, marker, lock, client, history>>

(* mutant: the answered requests are retired before the next leg is durable *)
RetiredAtOnce(c) == call[c].match

(* A partial answer retires its requests; the last one leaves them.        *)
Retired(c) ==
    IF outstanding[call[c].leg] \subseteq call[c].match THEN {} ELSE call[c].match

CountRest(c) ==
    /\ call[c].pc = "rest"
    /\ outstanding' = [outstanding EXCEPT ![call[c].leg] =
                          outstanding[call[c].leg] \ Retired(c)]
    /\ Goto(c, IF outstanding[call[c].leg] \subseteq call[c].match
               THEN "enqueue" ELSE "release")
    /\ UNCHANGED <<docket, responses, key, number, marker, lock, client, history>>

(* docket.add: a key that is already waiting or running is left alone. *)
Enqueued(n) == [exec EXCEPT ![n] = IF exec[n] \in Live THEN exec[n] ELSE "queued"]

(* enqueue_task_leg with its durable wait *)
Enqueue(c) ==
    /\ call[c].pc = "enqueue"
    /\ exec' = Enqueued(call[c].leg + 1)
    /\ Goto(c, "pointkey")
    /\ UNCHANGED <<run, cancelling, redis, lock, client, history>>

(* The wait times out or the backend fails, before or after the fact. *)
EnqueueFails(c) ==
    /\ call[c].pc = "enqueue" /\ faults < MaxFaults
    /\ \/ exec' = Enqueued(call[c].leg + 1) /\ slips' = slips \cup {"torn"}
       \/ UNCHANGED <<exec, slips>>
    /\ faults' = faults + 1
    /\ Goto(c, "raise")
    /\ UNCHANGED <<run, cancelling, redis, lock, client, asked, got, told>>

(* save_current_leg: two SETs. *)
PointKey(c) ==
    /\ call[c].pc = "pointkey"
    /\ key' = call[c].leg + 1
    /\ Goto(c, "pointnumber")
    /\ UNCHANGED <<docket, outstanding, responses, number, marker, lock, client, history>>

PointNumber(c) ==
    /\ call[c].pc = "pointnumber"
    /\ number' = call[c].leg + 1
    /\ Goto(c, "clear")
    /\ UNCHANGED <<docket, outstanding, responses, key, marker, lock, client, history>>

(* mutant: the requests of the new leg are dropped *)
ClearOfNext(c) ==
    /\ call[c].pc = "clear"
    /\ outstanding' = [n \in Legs |-> IF n = call[c].leg + 1 THEN {} ELSE outstanding[n]]
    /\ Goto(c, IF c \in Updates THEN "release" ELSE "stop")
    /\ UNCHANGED <<docket, responses, key, number, marker, lock, client, history>>

(* clear_outstanding, by an update and by a cancel *)
Clear(c) ==
    /\ call[c].pc = "clear"
    /\ outstanding' = [outstanding EXCEPT ![call[c].leg] = {}]
    /\ Goto(c, IF c \in Updates THEN "release" ELSE "stop")
    /\ UNCHANGED <<docket, responses, key, number, marker, lock, client, history>>

-----------------------------------------------------------------------------
(* tasks_cancel; without the lock when it was not to be had *)

(* mutant: the task is marked whatever its state *)
SyncCancelBlindly(c) ==
    /\ c \in Cancels /\ call[c].pc = "sync"
    /\ Goto(c, "mark")
    /\ UNCHANGED <<docket, redis, lock, client, history>>

SyncCancel(c) ==
    /\ c \in Cancels /\ call[c].pc = "sync"
    /\ LET state == State(call[c].key) IN
       call' = [call EXCEPT ![c].pc =
                              CASE state \in {"failed", "cancelled"} -> "release"
                              [] state = "completed" -> "inputs"
                              [] OTHER -> "mark"]
    /\ UNCHANGED <<docket, redis, lock, client, history>>

(* A completed leg without requests is a finished task. *)
CancelInputs(c) ==
    /\ c \in Cancels /\ call[c].pc = "inputs"
    /\ Goto(c, IF outstanding[call[c].leg] = {} THEN "release" ELSE "mark")
    /\ UNCHANGED <<docket, redis, lock, client, history>>

Mark(c) ==
    /\ call[c].pc = "mark"
    /\ marker' = TRUE
    /\ Goto(c, "clear")
    /\ UNCHANGED <<docket, outstanding, responses, key, number, lock, client, history>>

(* docket.cancel: a waiting leg never runs, a running one is told. *)
Stop(c) ==
    /\ call[c].pc = "stop"
    /\ LET n == call[c].key IN
       /\ exec' = IF exec[n] = "queued" THEN [exec EXCEPT ![n] = "cancelled"] ELSE exec
       /\ cancelling' = IF exec[n] \in Active
                        THEN cancelling \cup {n} ELSE cancelling
    /\ Goto(c, "release")
    /\ UNCHANGED <<run, redis, lock, client, history>>

-----------------------------------------------------------------------------
(* Faults *)

(* Between the enqueue and the last command an update leaves a leg that    *)
(* runs, or has run, and that the task does not point to.                  *)
Tearing(c) == c \in Updates /\ call[c].pc \in {"pointkey", "pointnumber", "clear"}

(* The server dies in a call: nothing releases its lock.  A call that does *)
(* not hold it has changed nothing, or is a cancel that was forced.        *)
Dies(c) ==
    /\ CallsMayBreak /\ faults < MaxFaults
    /\ call[c].held \/ call[c].pc \in {"clear", "stop"}
    /\ faults' = faults + 1
    /\ slips' = IF Tearing(c) THEN slips \cup {"torn"} ELSE slips
    /\ lock' = IF call[c].held THEN Ghost ELSE lock
    /\ call' = [d \in Calls |->
                  IF d = c THEN NoCall
                  ELSE IF call[c].held /\ call[d].pc = "lock"
                         THEN [call[d] EXCEPT !.early = TRUE] ELSE call[d]]
    /\ UNCHANGED <<docket, redis, client, asked, got, told>>

(* A command fails: the exception passes through the finally. *)
Raises(c) ==
    /\ CallsMayBreak /\ faults < MaxFaults
    /\ call[c].held /\ call[c].pc \notin {"release", "raise"}
    /\ faults' = faults + 1
    /\ slips' = IF Tearing(c) THEN slips \cup {"torn"} ELSE slips
    /\ Goto(c, "raise")
    /\ UNCHANGED <<docket, redis, lock, client, asked, got, told>>

-----------------------------------------------------------------------------
(* create_task: the first leg is enqueued and pointed to. *)
Init ==
    /\ exec = [n \in Legs |-> IF n = 1 THEN "queued" ELSE "none"]
    /\ run = [n \in Legs |-> 0]
    /\ cancelling = {}
    /\ outstanding = [n \in Legs |-> {}]
    /\ responses = {}
    /\ key = 1 /\ number = 1
    /\ marker = FALSE
    /\ lock = Nobody
    /\ call = [c \in Calls |-> NoCall]
    /\ shown = {} /\ acked = {}
    /\ asked = [n \in Legs |-> {}] /\ got = [n \in Legs |-> {}]
    /\ told = FALSE /\ faults = 0 /\ slips = {}

Worker(n) == Start(n) \/ Ask(n) \/ DropAnswers(n) \/ Finish(n) \/ LegCancelled(n)

GetSteps(c) == ReadKey(c) \/ ReadNumber(c) \/ Sync(c) \/ Status(c) \/ ReportInputs(c)

UpdateSteps(c) ==
    \/ ReadNumber(c) \/ GiveUp(c) \/ Recheck(c) \/ Match(c)
    \/ StoreAnswers(c) \/ CountRest(c) \/ Enqueue(c)
    \/ PointKey(c) \/ PointNumber(c) \/ Clear(c) \/ Release(c)

CancelSteps(c) ==
    \/ GiveUp(c) \/ ReadKey(c) \/ ReadNumber(c) \/ SyncCancel(c)
    \/ CancelInputs(c) \/ Mark(c) \/ Clear(c) \/ Stop(c) \/ Release(c)

Next ==
    \/ \E n \in Legs : Worker(n) \/ Redeliver(n)
    \/ \E c \in Gets : Poll(c) \/ GetSteps(c)
    \/ \E c \in Updates :
        \/ \E ks \in SUBSET shown : Send(c, ks)
        \/ Acquire(c) \/ UpdateSteps(c) \/ EnqueueFails(c) \/ Raises(c)
    \/ \E c \in Cancels : CallCancel(c) \/ Acquire(c) \/ CancelSteps(c) \/ Raises(c)
    \/ \E c \in Calls : Dies(c)
    \/ LockExpires

(* Workers run what is queued, a call that was made goes on, the lock's    *)
(* TTL ends; the client polls, and sends what it has not been acknowledged *)
(* for; a waiter that finds the lock free again and again obtains it.      *)
Fairness ==
    /\ \A n \in Legs : WF_vars(Worker(n))
    /\ \A c \in Gets : WF_vars(Poll(c)) /\ WF_vars(GetSteps(c))
    /\ \A c \in Updates :
        /\ SF_vars(Send(c, shown \ acked))
        /\ WF_vars(UpdateSteps(c)) /\ SF_vars(Acquire(c))
    /\ \A c \in Cancels : WF_vars(CancelSteps(c)) /\ SF_vars(Acquire(c))
    /\ WF_vars(LockExpires)

Spec == Init /\ [][Next]_vars /\ Fairness

-----------------------------------------------------------------------------
(* Properties *)

(* A leg that ran is not enqueued again ("two racing answers cannot each   *)
(* enqueue a next leg"), unless an update broke off after its enqueue.     *)
EachLegOnce ==
    [][\A n \in Legs : exec[n] \notin Live \cup {"none"} /\ exec'[n] = "queued"
                          => "torn" \in slips]_vars

(* A leg is started with an answer to every request of the one before it,  *)
(* however many payloads brought them, and however they raced, as long as  *)
(* no slip has happened: any of them is excepted.                          *)
Incomplete(n) ==
    /\ n + 1 \in Legs /\ exec[n + 1] \notin {"none", "queued", "cancelled"}
    /\ ~(asked[n] \subseteq got[n + 1])
AnsweredInFull == \A n \in Legs : Incomplete(n) => slips # {}

(* An acknowledged answer is never asked for again: its request is retired *)
(* and the client has nothing to send twice, as long as the task was not   *)
(* cancelled and no slip has happened: any of them is excepted.            *)
AckedAnswersKept ==
    \A k \in acked : k \notin outstanding[k.leg] \/ marker \/ slips # {}

(* A cancelled task is not resumed: no leg is enqueued once the marker is  *)
(* set, whichever call was under way, unless cancel had to go on without   *)
(* the lock.                                                               *)
NoResumeAfterCancel ==
    [][marker => \A n \in Legs : exec[n] \notin Live /\ exec'[n] = "queued"
                                    => "forced" \in slips]_vars

(* A cancel made after the client was told the task had ended does not     *)
(* mark it cancelled, through retries and races.  (Requests that a leg     *)
(* stored before it completed or failed keep it open: it is reported as    *)
(* waiting again, or resumed by the answers to them.  So does an update    *)
(* that broke off after its enqueue: repeated, it runs a failed leg again.) *)
CancelLeavesFinished ==
    [][~marker /\ marker' =>
          \/ \E c \in Cancels : call[c].pc = "mark" /\ ~call[c].late
          \/ {"torn", "rerun", "early"} \cap slips # {}]_vars

(* The leg a task is parked on keeps its requests until the next one is    *)
(* durable and pointed to: it can be answered although a call broke off or *)
(* timed out, unless it was an update that broke off after its enqueue     *)
(* ("torn").                                                               *)
ParkedStaysParked ==
    exec[number] = "parked" => outstanding[number] # {} \/ marker \/ "torn" \in slips

(* The task comes to an end, if the client answers what it is asked.       *)
Ended ==
    \/ marker \/ exec[number] \in {"failed", "cancelled"}
    \/ exec[number] = "completed" /\ outstanding[number] = {}
TaskEnds == <>Ended

(* What tasks_update's comment rules out: a leg that parked reported as a  *)
(* finished task, with no result.                                          *)
CompletedHasResult ==
    \A c \in Gets : call[c].pc = "inputs" /\ exec[call[c].key] = "parked"
                      => outstanding[call[c].leg] # {}
=============================================================================
