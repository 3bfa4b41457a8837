---------------------------- MODULE TaskDispatcher ----------------------------
(***************************************************************************)
(* The task dispatcher: internal/task/dispatcher.go over the task_job table *)
(* (contract_store.go), with the clients that enqueue and cancel jobs       *)
(* (modules/task/service/models/job.ts).                                    *)
(*                                                                          *)
(* Several dispatcher processes share one task_job table.  Each runs its    *)
(* pollers (the ticker loop and the one poll made at startup) and one       *)
(* goroutine per token of its semaphore.  Every SQL statement, every RPC    *)
(* and every critical section is one step.  What a worker answers is chosen *)
(* here; TaskWorker models how a worker computes it.                        *)
(*                                                                          *)
(* run_after is kept as the time left until it: a countdown that Tick       *)
(* lowers, so the state space stays finite without a bound on the clock.    *)
(***************************************************************************)
EXTENDS DispatchSelection

CONSTANTS
    Jobs,           \* job ids
    NoJob,          \* no job
    Apps,           \* target applications
    AppOf,          \* job -> its TargetApp
    MaxAttempts,    \* job -> its MaxAttempts (0: unlimited)
    Dispatchers,    \* dispatcher processes
    PollerKinds,    \* subset of {"loop", "startup"}
    Tokens,         \* the semaphore's tokens: dispatchMaxConcurrency many
    PerAppCap,      \* dispatchMaxConcurrencyPerApp (0: no cap)
    FetchLimit,     \* the LIMIT of ListReady
    ReadyQueueMax,  \* dispatchReadyQueueMax (0: unbounded)
    MaxDelay,       \* longest run_after delay, in ticks
    Answers,        \* what ExecuteJob may answer
    Cancellable,    \* bound: the jobs that clients cancel
    MaxFaults,      \* bound: failing store and token calls
    MaxCrashes      \* bound: process crashes

AllAnswers == {"SUCCEEDED", "FAILED_NON_RETRYABLE", "FAILED_RETRYABLE",
               "ALREADY_RUNNING", "RESOURCE_BUSY", "CANCELLED", "UNSPECIFIED",
               "UNAUTH_RESPONSE", "UNAUTH_RPC", "RPC_ERROR"}

ASSUME JobsAssumption    == NoJob \notin Jobs /\ AppOf \in [Jobs -> Apps]
ASSUME FiniteAssumption  == IsFiniteSet(Jobs) /\ IsFiniteSet(Tokens)
ASSUME BudgetAssumption  == MaxAttempts \in [Jobs -> Nat]
ASSUME DelayAssumption   == MaxDelay \in Nat \ {0}
ASSUME CapAssumption     == PerAppCap \in Nat /\ FetchLimit \in Nat \ {0}
                            /\ ReadyQueueMax \in Nat
ASSUME AnswersAssumption == Answers \subseteq AllAnswers
ASSUME PollersAssumption == PollerKinds \subseteq {"loop", "startup"}
ASSUME BoundsAssumption  == MaxFaults \in Nat /\ MaxCrashes \in Nat

VARIABLES
    job,        \* the task_job table
    cancelling, \* per job, the status a CancelJob call in progress has read
    readyQ,     \* per dispatcher, the ready queue
    readySet,   \* per dispatcher, the ids indexed as queued
    appInFly,   \* per dispatcher and application, slots taken
    poller,     \* per dispatcher, its polling goroutines
    worker,     \* per dispatcher, its handleJob goroutines, one per token
    stopped,    \* per dispatcher, stopCh is closed
    calls,      \* history: ExecuteJob calls made for a job
    stranded,   \* history: jobs whose owner vanished or failed to write
    faults, crashes

table   == <<job, cancelling>>
queues  == <<readyQ, readySet>>
history == <<calls, stranded>>
bounds  == <<faults, crashes>>
vars    == <<table, queues, appInFly, poller, worker, stopped, history, bounds>>
------------------------------------------------------------------------------
(* States and records *)

Statuses == {"absent", "queued", "dispatching", "succeeded", "failed", "cancelled"}
Terminal == {"succeeded", "failed", "cancelled"}

NoRow    == [status |-> "absent", wait |-> 0, attempt |-> 0, cancel |-> FALSE]
Resting  == [pc |-> "idle", batch |-> 0, found |-> << >>, todo |-> << >>, cur |-> NoJob]
Idle     == [pc |-> "idle", job |-> NoJob, attempt |-> 0, stage |-> "first", mark |-> "none"]

\* The stages of handleJob during which the goroutine answers for its job's row.
Working  == {"get", "token", "attempt", "call", "wait", "mark"}

Free(d)     == {t \in Tokens : worker[d][t].pc = "idle"}
OpenApps(d) == {a \in Apps : PerAppCap = 0 \/ appInFly[d][a] < PerAppCap}
\* Mutant: one attempt too many.
AtMaxLate(j, n) == MaxAttempts[j] > 0 /\ n > MaxAttempts[j]
AtMax(j, n) == MaxAttempts[j] > 0 /\ n >= MaxAttempts[j]

\* The rows ListReady may return: at most FetchLimit due queued jobs.
Due == {j \in Jobs : job[j].status = "queued" /\ job[j].wait = 0}
Listings == {l \in SetToAllKPermutations(Due) :
                Len(l) = IF Cardinality(Due) < FetchLimit
                         THEN Cardinality(Due) ELSE FetchLimit}

\* releaseAppSlot: the counter never goes below zero.
Released(d, j) ==
    IF PerAppCap = 0 THEN appInFly
    ELSE [appInFly EXCEPT ![d][AppOf[j]] = IF @ > 1 THEN @ - 1 ELSE 0]

SetPoller(d, k, p) == poller' = [poller EXCEPT ![d][k] = p]
SetWorker(d, t, w) == worker' = [worker EXCEPT ![d][t] = w]

\* A poll that returns: the loop waits for its next tick, the startup poll ends.
Return(d, k) ==
    SetPoller(d, k, [Resting EXCEPT !.pc = IF k = "startup" THEN "done" ELSE "idle"])

Fail == faults < MaxFaults /\ faults' = faults + 1 /\ UNCHANGED crashes
------------------------------------------------------------------------------
(* Clients and time *)

Init ==
    /\ job        = [j \in Jobs |-> NoRow]
    /\ cancelling = [j \in Jobs |-> "none"]
    /\ readyQ     = [d \in Dispatchers |-> << >>]
    /\ readySet   = [d \in Dispatchers |-> {}]
    /\ appInFly   = [d \in Dispatchers |-> [a \in Apps |-> 0]]
    /\ poller     = [d \in Dispatchers |-> [k \in PollerKinds |-> Resting]]
    /\ worker     = [d \in Dispatchers |-> [t \in Tokens |-> Idle]]
    /\ stopped    = [d \in Dispatchers |-> FALSE]
    /\ calls      = [j \in Jobs |-> 0]
    /\ stranded   = {}
    /\ faults = 0 /\ crashes = 0

EnqueueJob(j) ==
    /\ job[j].status = "absent"
    /\ \E w \in 0..MaxDelay :
          job' = [job EXCEPT ![j] = [NoRow EXCEPT !.status = "queued", !.wait = w]]
    /\ UNCHANGED <<cancelling, queues, appInFly, poller, worker, stopped, history, bounds>>

\* Mutant: CancelJob takes a job being dispatched for one still queued.
CancelReadUnfinished(j) ==
    /\ j \in Cancellable
    /\ job[j].status # "absent" /\ cancelling[j] = "none"
    /\ cancelling' = [cancelling EXCEPT
          ![j] = IF job[j].status \in Terminal THEN "other" ELSE "queued"]
    /\ UNCHANGED <<job, queues, appInFly, poller, worker, stopped, history, bounds>>

\* CancelJob first browses the row ...
CancelRead(j) ==
    /\ j \in Cancellable
    /\ job[j].status # "absent" /\ cancelling[j] = "none"
    /\ cancelling' = [cancelling EXCEPT
          ![j] = IF job[j].status = "queued" THEN "queued" ELSE "other"]
    /\ UNCHANGED <<job, queues, appInFly, poller, worker, stopped, history, bounds>>

\* ... and then updates it by id, whatever its status is by now.
CancelWrite(j) ==
    /\ cancelling[j] # "none"
    /\ cancelling' = [cancelling EXCEPT ![j] = "none"]
    /\ job' = IF cancelling[j] = "queued"
              THEN [job EXCEPT ![j].status = "cancelled"]
              ELSE [job EXCEPT ![j].cancel = TRUE]
    /\ UNCHANGED <<queues, appInFly, poller, worker, stopped, history, bounds>>

Tick ==
    /\ \E j \in Jobs : job[j].wait > 0
    /\ job' = [j \in Jobs |->
                  [job[j] EXCEPT !.wait = IF @ > 0 THEN @ - 1 ELSE 0]]
    /\ UNCHANGED <<cancelling, queues, appInFly, poller, worker, stopped, history, bounds>>
------------------------------------------------------------------------------
(* pollOnce *)

\* The ticker fires or a wakeup arrives; pollOnce counts the free tokens.
PollBegin(d, k) ==
    /\ poller[d][k].pc = "idle" /\ ~stopped[d]
    /\ SetPoller(d, k, [poller[d][k] EXCEPT !.pc = "list", !.batch = Cardinality(Free(d))])
    /\ UNCHANGED <<table, queues, appInFly, worker, stopped, history, bounds>>

\* ListReady, under the poll context that Stop cancels.
PollList(d, k) ==
    /\ poller[d][k].pc = "list" /\ ~stopped[d]
    /\ \E l \in Listings :
          SetPoller(d, k, [poller[d][k] EXCEPT !.pc = "enqueue", !.found = l])
    /\ UNCHANGED <<table, queues, appInFly, worker, stopped, history, bounds>>

PollListFails(d, k) ==
    /\ poller[d][k].pc = "list"
    /\ \/ stopped[d] /\ UNCHANGED bounds
       \/ ~stopped[d] /\ Fail
    /\ Return(d, k)
    /\ UNCHANGED <<table, queues, appInFly, worker, stopped, history>>

\* isStopped, then enqueueReady under readyMu.
PollEnqueue(d, k) ==
    LET p   == poller[d][k]
        new == Admitted(readyQ[d], readySet[d], p.found, ReadyQueueMax)
    IN  /\ p.pc = "enqueue"
        /\ IF stopped[d] THEN UNCHANGED queues
           ELSE /\ readyQ'   = [readyQ EXCEPT ![d] = @ \o new]
                /\ readySet' = [readySet EXCEPT ![d] = @ \cup ToSet(new)]
        /\ IF stopped[d] \/ p.batch = 0 THEN Return(d, k)
           ELSE SetPoller(d, k, [p EXCEPT !.pc = "pop", !.found = << >>])
        /\ UNCHANGED <<table, appInFly, worker, stopped, history, bounds>>

\* Mutant: the popped ids stay in the index.
PollPopKeepsIndex(d, k) ==
    LET p        == poller[d][k]
        selected == RoundRobin(readyQ[d], AppOf, OpenApps(d), p.batch)
    IN  /\ p.pc = "pop"
        /\ readyQ' = [readyQ EXCEPT ![d] = Without(@, selected)]
        /\ IF selected = << >> THEN Return(d, k)
           ELSE SetPoller(d, k, [p EXCEPT !.pc = "reserve", !.todo = selected])
        /\ UNCHANGED <<table, readySet, appInFly, worker, stopped, history, bounds>>

\* popReadyForDispatch under readyMu.
PollPop(d, k) ==
    LET p        == poller[d][k]
        selected == RoundRobin(readyQ[d], AppOf, OpenApps(d), p.batch)
    IN  /\ p.pc = "pop"
        /\ readyQ'   = [readyQ EXCEPT ![d] = Without(@, selected)]
        /\ readySet' = [readySet EXCEPT ![d] = @ \ ToSet(selected)]
        /\ IF selected = << >> THEN Return(d, k)
           ELSE SetPoller(d, k, [p EXCEPT !.pc = "reserve", !.todo = selected])
        /\ UNCHANGED <<table, appInFly, worker, stopped, history, bounds>>

\* claimAndRunReady: the head of each round takes the next selected job and its
\* application slot.  A job whose application is full is dropped; it is still
\* queued in the table, so a later poll lists it again.
PollReserve(d, k) ==
    LET p == poller[d][k]
        j == Head(p.todo)
    IN  /\ p.pc = "reserve" /\ ~stopped[d] /\ p.todo # << >>
        /\ IF AppOf[j] \in OpenApps(d)
           THEN /\ appInFly' = IF PerAppCap = 0 THEN appInFly
                               ELSE [appInFly EXCEPT ![d][AppOf[j]] = @ + 1]
                /\ SetPoller(d, k, [p EXCEPT !.pc = "claim", !.todo = Tail(@), !.cur = j])
           ELSE /\ SetPoller(d, k, [p EXCEPT !.todo = Tail(@)])
                /\ UNCHANGED appInFly
        /\ UNCHANGED <<table, queues, worker, stopped, history, bounds>>

PollReturn(d, k) ==
    /\ poller[d][k].pc = "reserve"
    /\ stopped[d] \/ poller[d][k].todo = << >>
    /\ Return(d, k)
    /\ UNCHANGED <<table, queues, appInFly, worker, stopped, history, bounds>>

\* Mutant: the claim does not look at the status.
ClaimableAnyStatus(j) == job[j].status # "absent"

\* TryClaim: UPDATE ... WHERE id = ? AND status = 'queued'.  run_after is not
\* tested again.
Claimable(j) == job[j].status = "queued"

PollClaim(d, k) ==
    LET j == poller[d][k].cur
    IN  /\ poller[d][k].pc = "claim"
        /\ j \in Jobs /\ Claimable(j)
        /\ job'    = [job EXCEPT ![j].status = "dispatching"]
        /\ SetPoller(d, k, [poller[d][k] EXCEPT !.pc = "spawn"])
        /\ UNCHANGED <<cancelling, queues, appInFly, worker, stopped, history, bounds>>

\* Mutant: a failed claim keeps its slot.
DropClaimKeepsSlot(d, k) ==
    /\ poller[d][k].pc = "claim"
    /\ SetPoller(d, k, [poller[d][k] EXCEPT !.pc = "reserve", !.cur = NoJob])
    /\ UNCHANGED <<cancelling, queues, appInFly, worker, stopped, calls>>

\* No row matched, or the statement failed (Stop cancels its context): the slot
\* goes back and the round moves on.
DropClaim(d, k) ==
    /\ poller[d][k].pc = "claim"
    /\ appInFly' = Released(d, poller[d][k].cur)
    /\ SetPoller(d, k, [poller[d][k] EXCEPT !.pc = "reserve", !.cur = NoJob])
    /\ UNCHANGED <<cancelling, queues, worker, stopped, calls>>

PollClaimFails(d, k) ==
    LET j == poller[d][k].cur
    IN  /\ DropClaim(d, k)
        /\ \/ ~Claimable(j) /\ UNCHANGED <<job, stranded, bounds>>
           \/ Claimable(j) /\ stopped[d] /\ UNCHANGED <<job, stranded, bounds>>
           \/ Claimable(j) /\ Fail /\ UNCHANGED <<job, stranded>>
           \* the row was updated but the answer was lost
           \/ /\ Claimable(j) /\ Fail
              /\ job' = [job EXCEPT ![j].status = "dispatching"]
              /\ stranded' = stranded \cup {j}

\* d.sema <- struct{}{} and the goroutine start.
PollSpawn(d, k) ==
    /\ poller[d][k].pc = "spawn"
    /\ \E t \in Free(d) :
          SetWorker(d, t, [Idle EXCEPT !.pc = "get", !.job = poller[d][k].cur])
    /\ SetPoller(d, k, [poller[d][k] EXCEPT !.pc = "reserve", !.cur = NoJob])
    /\ UNCHANGED <<table, queues, appInFly, stopped, history, bounds>>
------------------------------------------------------------------------------
(* handleJob *)

Goto(d, t, pc) == SetWorker(d, t, [worker[d][t] EXCEPT !.pc = pc])
\* Mutant: a cancelled job's handler returns without updating the row.
FinishLosesCancel(d, t, mark) ==
    SetWorker(d, t, [worker[d][t] EXCEPT
        !.pc = IF mark = "cancelled" THEN "release" ELSE "mark", !.mark = mark])
Finish(d, t, mark) == SetWorker(d, t, [worker[d][t] EXCEPT !.pc = "mark", !.mark = mark])

\* Get, and the checks on the row it returns: a requested cancellation, the
\* attempts used.  The status is not looked at.
HandleGet(d, t) ==
    LET j == worker[d][t].job
    IN  /\ worker[d][t].pc = "get"
        /\ \/ job[j].cancel /\ Finish(d, t, "cancelled")
           \/ ~job[j].cancel /\ AtMax(j, job[j].attempt) /\ Finish(d, t, "failed")
           \/ /\ ~job[j].cancel /\ ~AtMax(j, job[j].attempt)
              /\ SetWorker(d, t, [worker[d][t] EXCEPT !.pc = "token",
                                                      !.attempt = job[j].attempt + 1])
        /\ UNCHANGED <<table, queues, appInFly, poller, stopped, history, bounds>>

\* Get fails: handleJob just returns.
HandleGetFails(d, t) ==
    /\ worker[d][t].pc = "get" /\ Fail
    /\ Goto(d, t, "release")
    /\ stranded' = stranded \cup {worker[d][t].job}
    /\ UNCHANGED <<table, queues, appInFly, poller, stopped, calls>>

HandleToken(d, t) ==
    /\ worker[d][t].pc = "token"
    /\ \/ Goto(d, t, "attempt") /\ UNCHANGED bounds
       \/ Fail /\ Finish(d, t, "retry")
    /\ UNCHANGED <<table, queues, appInFly, poller, stopped, history>>

\* UpdateAttempt; when it fails the row may or may not have been written.
HandleAttempt(d, t) ==
    LET w == worker[d][t]
        written == [job EXCEPT ![w.job].attempt = w.attempt]
    IN  /\ w.pc = "attempt"
        /\ \/ Goto(d, t, "call") /\ job' = written /\ UNCHANGED bounds
           \/ Fail /\ Finish(d, t, "retry") /\ job' \in {job, written}
        /\ UNCHANGED <<cancelling, queues, appInFly, poller, stopped, history>>

HandleCall(d, t) ==
    /\ worker[d][t].pc = "call"
    /\ Goto(d, t, "wait")
    /\ calls' = [calls EXCEPT ![worker[d][t].job] = @ + 1]
    /\ UNCHANGED <<table, queues, appInFly, poller, stopped, stranded, bounds>>

\* The next stage after an Unauthenticated answer: an RPC error is refreshed
\* once, and a response once more after that.
RefreshStage(stage, r) ==
    CASE r = "UNAUTH_RPC" /\ stage = "first" -> "rpcRefresh"
      [] r = "UNAUTH_RESPONSE" /\ stage \in {"first", "rpcRefresh"} -> "respRefresh"
      [] OTHER -> "none"

\* The row update that answer r leads to.
Verdict(j, n, r) ==
    CASE r = "SUCCEEDED" -> "succeeded"
      [] r = "CANCELLED" -> "cancelled"
      [] r \in {"FAILED_NON_RETRYABLE", "UNAUTH_RESPONSE", "UNAUTH_RPC"} -> "failed"
      [] r \in {"FAILED_RETRYABLE", "RPC_ERROR"} -> IF AtMax(j, n) THEN "failed" ELSE "retry"
      [] OTHER -> "retry"

HandleAnswer(d, t, r) ==
    LET w == worker[d][t]
        s == RefreshStage(w.stage, r)
    IN  /\ w.pc = "wait"
        /\ \/ s = "none" /\ Finish(d, t, Verdict(w.job, w.attempt, r))
           \/ s # "none" /\ AtMax(w.job, w.attempt) /\ Finish(d, t, "failed")
           \/ /\ s # "none" /\ ~AtMax(w.job, w.attempt)
              /\ SetWorker(d, t, [w EXCEPT !.pc = "token", !.stage = s,
                                           !.attempt = w.attempt + 1])
        /\ UNCHANGED <<table, queues, appInFly, poller, stopped, history, bounds>>

\* Mutant: the retry delay is not capped.
MarkedUncapped(j, mark) ==
    IF mark = "retry"
    THEN {[job EXCEPT ![j].status = "queued", ![j].wait = w] : w \in 1..(MaxDelay + 1)}
    ELSE {[job EXCEPT ![j].status = mark]}

\* MarkSucceeded, MarkFailed, MarkCancelled and Retry: UPDATE ... WHERE id = ?,
\* whatever the status is.
Marked(j, mark) ==
    IF mark = "retry"
    THEN {[job EXCEPT ![j].status = "queued", ![j].wait = w] : w \in 1..MaxDelay}
    ELSE {[job EXCEPT ![j].status = mark]}

HandleMark(d, t) ==
    LET w == worker[d][t]
    IN  /\ w.pc = "mark"
        /\ job' \in Marked(w.job, w.mark)
        /\ Goto(d, t, "release")
        /\ UNCHANGED <<cancelling, queues, appInFly, poller, stopped, history, bounds>>

\* The update fails and its error is dropped.
HandleMarkFails(d, t) ==
    /\ worker[d][t].pc = "mark" /\ Fail
    /\ Goto(d, t, "release")
    /\ stranded' = stranded \cup {worker[d][t].job}
    /\ UNCHANGED <<table, queues, appInFly, poller, stopped, calls>>

\* The deferred release of the token and the application slot.
HandleRelease(d, t) ==
    /\ worker[d][t].pc = "release"
    /\ SetWorker(d, t, Idle)
    /\ appInFly' = Released(d, worker[d][t].job)
    /\ UNCHANGED <<table, queues, poller, stopped, history, bounds>>
------------------------------------------------------------------------------
(* Stop and crash *)

Holds(d, j) == \/ \E k \in PollerKinds : poller[d][k].pc = "spawn" /\ poller[d][k].cur = j
               \/ \E t \in Tokens : worker[d][t].pc \in Working /\ worker[d][t].job = j

\* Stop: stopCh is closed and the poll context cancelled; goroutines in flight
\* go on.
Stop(d) ==
    /\ ~stopped[d] /\ MaxCrashes > crashes
    /\ stopped' = [stopped EXCEPT ![d] = TRUE]
    /\ UNCHANGED <<table, queues, appInFly, poller, worker, history, bounds>>

\* The process dies, or exits after stopWaitTimeout, and a new one starts.
Crash(d) ==
    /\ crashes < MaxCrashes /\ crashes' = crashes + 1 /\ UNCHANGED faults
    /\ readyQ'   = [readyQ EXCEPT ![d] = << >>]
    /\ readySet' = [readySet EXCEPT ![d] = {}]
    /\ appInFly' = [appInFly EXCEPT ![d] = [a \in Apps |-> 0]]
    /\ poller'   = [poller EXCEPT ![d] = [k \in PollerKinds |-> Resting]]
    /\ worker'   = [worker EXCEPT ![d] = [t \in Tokens |-> Idle]]
    /\ stopped'  = [stopped EXCEPT ![d] = FALSE]
    /\ stranded' = stranded \cup {j \in Jobs : Holds(d, j)}
    /\ UNCHANGED <<table, calls>>
------------------------------------------------------------------------------
Poll(d, k) ==
    \/ PollBegin(d, k) \/ PollList(d, k) \/ PollListFails(d, k)
    \/ PollEnqueue(d, k) \/ PollPop(d, k) \/ PollReserve(d, k) \/ PollReturn(d, k)
    \/ PollClaim(d, k) \/ PollClaimFails(d, k) \/ PollSpawn(d, k)

Handle(d, t) ==
    \/ HandleGet(d, t) \/ HandleGetFails(d, t) \/ HandleToken(d, t)
    \/ HandleAttempt(d, t) \/ HandleCall(d, t)
    \/ \E r \in Answers : HandleAnswer(d, t, r)
    \/ HandleMark(d, t) \/ HandleMarkFails(d, t) \/ HandleRelease(d, t)

Client(j) == EnqueueJob(j) \/ CancelRead(j) \/ CancelWrite(j)

Next ==
    \/ \E j \in Jobs : Client(j)
    \/ Tick
    \/ \E d \in Dispatchers :
          \/ \E k \in PollerKinds : Poll(d, k)
          \/ \E t \in Tokens : Handle(d, t)
          \/ Stop(d) \/ Crash(d)

Spec == Init /\ [][Next]_vars

\* Goroutines are scheduled, the ticker keeps firing, time passes and an RPC is
\* answered: callExecuteJob puts a deadline on it when the job or the
\* configuration gives one, otherwise the worker has to answer.  Nothing is
\* assumed of the clients except that a CancelJob call ends.
Fairness ==
    /\ WF_vars(Tick)
    /\ \A j \in Jobs : WF_vars(CancelWrite(j))
    /\ \A d \in Dispatchers :
          /\ \A k \in PollerKinds : WF_vars(Poll(d, k))
          /\ \A t \in Tokens : WF_vars(Handle(d, t))

FairSpec == Spec /\ Fairness
------------------------------------------------------------------------------
(* Properties *)

TypeOK ==
    /\ job \in [Jobs -> [status : Statuses, wait : 0..MaxDelay, attempt : Nat,
                         cancel : BOOLEAN]]
    /\ cancelling \in [Jobs -> {"none", "queued", "other"}]
    /\ worker \in [Dispatchers -> [Tokens ->
          [pc : Working \cup {"idle", "release"}, job : Jobs \cup {NoJob}, attempt : Nat,
           stage : {"first", "rpcRefresh", "respRefresh"},
           mark : Terminal \cup {"none", "retry"}]]]
    /\ calls \in [Jobs -> Nat]
    /\ stranded \subseteq Jobs
    /\ stopped \in [Dispatchers -> BOOLEAN]
    /\ faults \in 0..MaxFaults /\ crashes \in 0..MaxCrashes

\* The goroutines that answer for job j's row: a poller between its claim and
\* the goroutine start, a handler until its final update.
Owners(j) ==
    {o \in Dispatchers \X PollerKinds :
        poller[o[1]][o[2]].pc = "spawn" /\ poller[o[1]][o[2]].cur = j}
    \cup
    {o \in Dispatchers \X Tokens :
        worker[o[1]][o[2]].pc \in Working /\ worker[o[1]][o[2]].job = j}

\* However many dispatchers poll one table with stale ready queues, at most one
\* goroutine of all of them is ever dispatching a given job, and none is while
\* the row is queued and so open to be claimed (TryClaim's conditional update).
ClaimExclusive ==
    \A j \in Jobs :
        /\ \A o, p \in Owners(j) : o = p
        /\ job[j].status = "queued" => Owners(j) = {}

\* A row left 'dispatching' has a goroutine working on it, unless a crash, a
\* lost claim answer, a failed Get or a failed final update stranded the job:
\* nothing in the dispatcher picks such a row up again.
DispatchingIsOwned ==
    \A j \in Jobs : job[j].status = "dispatching" => Owners(j) # {} \/ j \in stranded

\* The ready queue and its index name the same jobs, no job twice, and the
\* configured maximum is respected, with two pollers of one dispatcher racing
\* through enqueueReady and popReadyForDispatch.
ReadyQueueConsistent ==
    \A d \in Dispatchers :
        /\ ToSet(readyQ[d]) = readySet[d] /\ Len(readyQ[d]) = Cardinality(readySet[d])
        /\ ReadyQueueMax > 0 => Len(readyQ[d]) <= ReadyQueueMax

\* reserveAppSlot and releaseAppSlot count exactly the goroutines that hold a
\* slot of an application, so the per-application cap is never exceeded and no
\* slot leaks on a failed claim.
AppSlotsExact ==
    PerAppCap > 0 =>
    \A d \in Dispatchers, a \in Apps :
        /\ appInFly[d][a] =
              Cardinality({k \in PollerKinds : poller[d][k].pc \in {"claim", "spawn"}
                                               /\ AppOf[poller[d][k].cur] = a})
              + Cardinality({t \in Tokens : worker[d][t].pc # "idle"
                                            /\ AppOf[worker[d][t].job] = a})
        /\ appInFly[d][a] <= PerAppCap

\* Every ExecuteJob call was paid for by an attempt recorded in the row before
\* it, across retries, token refreshes, failed updates and crashes: a job is
\* never sent to its worker more than MaxAttempts times.
AttemptsBoundCalls ==
    \A j \in Jobs : /\ calls[j] <= job[j].attempt
                    /\ MaxAttempts[j] > 0 => job[j].attempt <= MaxAttempts[j]

\* A job the dispatcher finished as succeeded or failed keeps that status: no
\* other handler, retry or poll changes it.  (A CancelJob call that read the row
\* while it was still queued can: see TerminalIsFinal.)
OutcomeIsFinal ==
    [][\A j \in Jobs :
          job[j].status \in {"succeeded", "failed"} /\ cancelling[j] # "queued"
          => job'[j].status = job[j].status]_vars

\* pkg/task/queue.go calls success, failure and cancellation terminal updates:
\* a job in one of those states would never change again.
TerminalIsFinal ==
    [][\A j \in Jobs : job[j].status \in Terminal => job'[j].status = job[j].status]_vars

\* job.ts says of RunAfter that the job will not run before this time: a job is
\* claimed only once its run_after has passed.
RunAfterRespected ==
    [][\A j \in Jobs : job[j].status = "queued" /\ job'[j].status = "dispatching"
                       => job[j].wait = 0]_vars

\* Without crashes and failing calls every queued job with a bounded number of
\* attempts is finished in the end: none is forgotten in a ready queue, dropped
\* for good at a full application or retried for ever, and one whose cancellation
\* was requested while it ran ends too.
EveryJobFinishes ==
    \A j \in Jobs : job[j].status = "queued" ~> job[j].status \in Terminal

\* The dispatchers together keep the lifecycle of JobLifecycle for every job,
\* through stale ready queues, retries, token refreshes, failed statements and
\* crashes: what polls, queues, slots and tokens do shows in no other way.
Lifecycle == INSTANCE JobLifecycle WITH
    Budget   <- MaxAttempts,
    status   <- [j \in Jobs |-> job[j].status],
    attempts <- [j \in Jobs |-> job[j].attempt],
    held     <- {j \in Jobs : \E d \in Dispatchers : Holds(d, j)},
    leaving  <- {j \in Jobs : cancelling[j] = "queued"}

ImplementsLifecycle == Lifecycle!Spec
==============================================================================
