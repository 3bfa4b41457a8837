------------------------------ MODULE TaskWorker ------------------------------
(***************************************************************************)
(* The task worker: ExecuteJob (internal/service/taskworker_adapter.go) and *)
(* the leased execution row it keeps per job (taskExecutionStore,           *)
(* internal/service/taskworker.go).                                         *)
(*                                                                          *)
(* Each ExecuteJob request is an invocation with a fresh lease owner, so    *)
(* the owner stored in a row is the invocation itself.  An invocation runs  *)
(* beside its two goroutines, the heartbeat and the cancel watch.  Every    *)
(* SQL statement is one step.  A lease is kept as the time left until       *)
(* lease_until; 0 is expired.                                               *)
(***************************************************************************)
EXTENDS Integers, FiniteSets

CONSTANTS
    Jobs,
    Invocations,        \* ExecuteJob requests (bound: how many there are)
    NoOwner,            \* an empty lease_owner
    LeaseTicks,         \* the lease duration
    DuplicateDetected,  \* errorsIsDuplicate recognises the driver's key conflict
    TargetErrors,       \* what mapExecutionError makes of a target's errors
    MaxFaults,          \* bound: failing statements
    MaxCrashes,         \* bound: invocations lost with their process
    MaxPurges           \* bound: rows removed by the garbage collector

ASSUME OwnerAssumption  == NoOwner \notin Invocations
ASSUME FiniteAssumption == IsFiniteSet(Invocations)
ASSUME LeaseAssumption  == LeaseTicks \in Nat \ {0}
ASSUME DialectAssumption == DuplicateDetected \in BOOLEAN
ASSUME BoundsAssumption == MaxFaults \in Nat /\ MaxCrashes \in Nat /\ MaxPurges \in Nat

VARIABLES
    exec,       \* the task_job_execution table
    call,       \* the invocations
    cancelReq,  \* per job, what isCancelRequestedViaTask reads in the task_job row:
                \* a cancel_requested_at or the status 'cancelled'
    overruns,   \* history: per job, running rows taken over after lease expiry
    completed,  \* history: jobs whose target method returned a result
    faults, crashes, purges

bounds == <<faults, crashes, purges>>
vars   == <<exec, call, cancelReq, overruns, completed, bounds>>
------------------------------------------------------------------------------
NullLease == -1
NoRow == [status |-> "absent", owner |-> NoOwner, lease |-> NullLease]

\* pc       where unaryHandler is
\* outcome  what the target method (or the select after it) led to
\* answer   the ExecuteJob status returned
\* beating, watching   the two goroutines are alive
\* asking   the heartbeat has renewed the lease and asks about cancellation
\* lost, signal        the leaseLost and cancelled channels hold a token
\* ctxDone  ctxExec is cancelled
Unused(j) == [pc |-> "unused", job |-> j, outcome |-> "none", answer |-> "none",
              beating |-> FALSE, asking |-> FALSE, watching |-> FALSE, lost |-> FALSE,
              signal |-> FALSE, ctxDone |-> FALSE]

Errors   == {"FAILED_RETRYABLE", "FAILED_NON_RETRYABLE", "RESOURCE_BUSY"}
ASSUME ErrorsAssumption == TargetErrors \subseteq Errors
Answers  == Errors \cup {"SUCCEEDED", "CANCELLED", "ALREADY_RUNNING"}
Outcomes == Errors \cup {"ok", "lost", "cancelled"}

\* The stages in which an invocation has entered the row and not left it.
Entered == {"check", "run", "select", "finalize"}

AnswerOf(outcome) == CASE outcome = "ok" -> "SUCCEEDED"
                       [] outcome = "cancelled" -> "CANCELLED"
                       [] outcome = "lost" -> "FAILED_RETRYABLE"
                       [] OTHER -> outcome
\* Mutant: the answer's name is written as the row's status.
StatusOfAnswer(outcome) == CASE outcome = "ok" -> "succeeded"
                             [] outcome = "cancelled" -> "cancelled"
                             [] OTHER -> AnswerOf(outcome)
StatusOf(outcome) == CASE outcome = "ok" -> "succeeded"
                       [] outcome = "cancelled" -> "cancelled"
                       [] OTHER -> "failed"

ExecutionRecord ==
    [status : {"absent", "running", "succeeded", "failed", "cancelled"},
     owner : Invocations \cup {NoOwner}, lease : NullLease..LeaseTicks]
InvocationRecord ==
    [pc : {"unused", "start", "existing", "takeover", "done"} \cup Entered, job : Jobs,
     outcome : Outcomes \cup {"none"}, answer : Answers \cup {"none"},
     beating : BOOLEAN, asking : BOOLEAN, watching : BOOLEAN, lost : BOOLEAN,
     signal : BOOLEAN, ctxDone : BOOLEAN]

Row(i)  == exec[call[i].job]
Live(r) == r.lease > 0
Fail    == faults < MaxFaults /\ faults' = faults + 1 /\ UNCHANGED <<crashes, purges>>

Becomes(i, c) == call' = [call EXCEPT ![i] = c]

\* Mutant: a handler that returns leaves its goroutines running.
ReplyLeavesGoroutines(i, answer) ==
    Becomes(i, [call[i] EXCEPT !.pc = "done", !.answer = answer,
                               !.lost = FALSE, !.signal = FALSE])

\* The handler returns: the deferred calls cancel ctxExec and close headbeatStop,
\* and nobody reads the two channels any more.
Reply(i, answer) ==
    Becomes(i, [call[i] EXCEPT !.pc = "done", !.answer = answer, !.lost = FALSE,
                               !.signal = FALSE, !.ctxDone = TRUE])

\* The insert and the conditional update make the row the invocation's own.
TakeRow(i) ==
    exec' = [exec EXCEPT ![call[i].job] =
                [status |-> "running", owner |-> i, lease |-> LeaseTicks]]

\* The row is ours: start the heartbeat and the cancel watch.
Enter(i) ==
    Becomes(i, [call[i] EXCEPT !.pc = "check", !.beating = TRUE, !.watching = TRUE])

\* A goroutine's token in a channel has no effect once the handler has returned.
Pending(i) == call[i].pc # "done"

Init ==
    /\ exec      = [j \in Jobs |-> NoRow]
    /\ \E f \in [Invocations -> Jobs] : call = [i \in Invocations |-> Unused(f[i])]
    /\ cancelReq = [j \in Jobs |-> FALSE]
    /\ overruns  = [j \in Jobs |-> 0]
    /\ completed = {}
    /\ faults = 0 /\ crashes = 0 /\ purges = 0
------------------------------------------------------------------------------
(* The handler *)

\* A request arrives and is authorised, or refused for good.
Receive(i) ==
    /\ call[i].pc = "unused"
    /\ \/ call' = [call EXCEPT ![i].pc = "start"]
       \/ Reply(i, "FAILED_NON_RETRYABLE")
    /\ UNCHANGED <<exec, cancelReq, overruns, completed, bounds>>

\* tryStart inserts the row.
TryStart(i) ==
    /\ call[i].pc = "start" /\ Row(i).status = "absent"
    /\ TakeRow(i)
    /\ Enter(i)
    /\ UNCHANGED <<cancelReq, overruns, completed, bounds>>

\* The insert fails: on a key conflict that is recognised the existing row is
\* looked at, any other error is answered, also when the row was written.
TryStartFails(i) ==
    /\ call[i].pc = "start"
    /\ \/ /\ Row(i).status # "absent" /\ DuplicateDetected
          /\ call' = [call EXCEPT ![i].pc = "existing"]
          /\ UNCHANGED <<exec, bounds>>
       \/ /\ Row(i).status # "absent" /\ ~DuplicateDetected
          /\ Reply(i, "FAILED_RETRYABLE") /\ UNCHANGED <<exec, bounds>>
       \/ /\ Fail /\ Reply(i, "FAILED_RETRYABLE")
          /\ UNCHANGED exec \/ (Row(i).status = "absent" /\ TakeRow(i))
    /\ UNCHANGED <<cancelReq, overruns, completed>>

\* handleExisting reads the row and branches on its status.
HandleExisting(i) ==
    LET r == Row(i)
    IN  /\ call[i].pc = "existing"
        /\ \/ r.status = "succeeded" /\ Reply(i, "SUCCEEDED")
           \/ r.status = "cancelled" /\ Reply(i, "CANCELLED")
           \/ r.status = "running" /\ Live(r) /\ Reply(i, "ALREADY_RUNNING")
           \/ r.status = "absent" /\ Reply(i, "FAILED_RETRYABLE")
           \/ /\ r.status = "failed" \/ (r.status = "running" /\ ~Live(r))
              /\ call' = [call EXCEPT ![i].pc = "takeover"]
        /\ UNCHANGED <<exec, cancelReq, overruns, completed, bounds>>

\* Mutant: a running row is taken over whatever its lease is.
TakeableAlive(r) == r.status \in {"failed", "running"}

\* The conditional update's WHERE clause; NULL <= now is not true in SQL.
Takeable(r) == r.status = "failed" \/ (r.status = "running" /\ r.lease = 0)

\* A takeover after expiry may leave the previous owner still at work.
CountOverrun(i) ==
    overruns' = IF Row(i).status = "running" /\ Row(i).lease = 0
                THEN [overruns EXCEPT ![call[i].job] = @ + 1] ELSE overruns

Takeover(i) ==
    /\ call[i].pc = "takeover" /\ Takeable(Row(i))
    /\ TakeRow(i)
    /\ CountOverrun(i)
    /\ Enter(i)
    /\ UNCHANGED <<cancelReq, completed, bounds>>

\* The read or the conditional update fails; the latter may have written the row.
HandleExistingFails(i) ==
    /\ call[i].pc \in {"existing", "takeover"} /\ Fail
    /\ Reply(i, "FAILED_RETRYABLE")
    /\ \/ UNCHANGED <<exec, overruns>>
       \/ /\ call[i].pc = "takeover" /\ Takeable(Row(i))
          /\ TakeRow(i) /\ CountOverrun(i)
    /\ UNCHANGED <<cancelReq, completed>>

\* No row matched: handleExisting again.
TakeoverMisses(i) ==
    /\ call[i].pc = "takeover" /\ ~Takeable(Row(i))
    /\ call' = [call EXCEPT ![i].pc = "existing"]
    /\ UNCHANGED <<exec, cancelReq, overruns, completed, bounds>>

\* The cancellation check before the target runs; the job may be unreadable.
CheckCancel(i) ==
    /\ call[i].pc = "check"
    /\ \/ /\ cancelReq[call[i].job]
          /\ Becomes(i, [call[i] EXCEPT !.pc = "finalize", !.outcome = "cancelled",
                                        !.ctxDone = TRUE])
       \/ call' = [call EXCEPT ![i].pc = "run"]
    /\ UNCHANGED <<exec, cancelReq, overruns, completed, bounds>>

\* invokeTargetMethod returns a result or an error that mapExecutionError maps.
TargetReturns(i) ==
    /\ call[i].pc = "run"
    /\ \E o \in TargetErrors \cup {"ok"} :
          /\ Becomes(i, [call[i] EXCEPT !.pc = "select", !.outcome = o])
          /\ completed' = IF o = "ok" THEN completed \cup {call[i].job} ELSE completed
    /\ UNCHANGED <<exec, cancelReq, overruns, bounds>>

\* The select after it: a lost lease or a cancellation overrides the result; Go
\* picks either when both channels are ready.
Select(i) ==
    LET c == call[i]
    IN  /\ c.pc = "select"
        /\ \E o \in Outcomes :
              /\ \/ o = "lost" /\ c.lost
                 \/ o = "cancelled" /\ c.signal
                 \/ o = c.outcome /\ ~c.lost /\ ~c.signal
              /\ Becomes(i, [c EXCEPT !.pc = "finalize", !.outcome = o])
        /\ UNCHANGED <<exec, cancelReq, overruns, completed, bounds>>

\* Mutant: the final update does not compare the lease owner.
OwnedByAnyone(i) == Row(i).status # "absent"

\* finalizeSuccess, finalizeFailure, finalizeCancelled: UPDATE ... WHERE
\* job_id = ? AND lease_owner = ?.
Owned(i) == Row(i).owner = i

\* The update's error is dropped; the answer is the same whether or not a row
\* matched.
Finalize(i) ==
    LET o == call[i].outcome
    IN  /\ call[i].pc = "finalize"
        /\ Reply(i, AnswerOf(o))
        /\ \/ /\ Owned(i)
              /\ exec' = [exec EXCEPT ![call[i].job] =
                             [@ EXCEPT !.status = StatusOf(o), !.lease = NullLease]]
              /\ UNCHANGED bounds
           \/ ~Owned(i) /\ UNCHANGED <<exec, bounds>>
           \/ Fail /\ UNCHANGED exec
        /\ UNCHANGED <<cancelReq, overruns, completed>>
------------------------------------------------------------------------------
(* The goroutines *)

\* heartbeat renews the lease WHERE owner and status = 'running' ...
Renewable(i) == Row(i).owner = i /\ Row(i).status = "running"
Renew(i)     == exec' = [exec EXCEPT ![call[i].job].lease = LeaseTicks]

Heartbeat(i) ==
    /\ call[i].beating /\ ~call[i].asking /\ Renewable(i)
    /\ Renew(i)
    /\ call' = [call EXCEPT ![i].asking = TRUE]
    /\ UNCHANGED <<cancelReq, overruns, completed, bounds>>

\* ... and then asks whether the job is to be cancelled; it may be unreadable.
HeartbeatAsks(i) ==
    /\ call[i].asking
    /\ \/ call' = [call EXCEPT ![i].asking = FALSE]
       \/ /\ cancelReq[call[i].job]
          /\ Becomes(i, [call[i] EXCEPT !.signal = Pending(i), !.beating = FALSE,
                                        !.asking = FALSE, !.ctxDone = TRUE])
    /\ UNCHANGED <<exec, cancelReq, overruns, completed, bounds>>

\* No row matched, or the statement failed, also when it renewed the lease: the
\* lease counts as lost.
HeartbeatLoses(i) ==
    /\ call[i].beating /\ ~call[i].asking
    /\ \/ ~Renewable(i) /\ UNCHANGED <<exec, bounds>>
       \/ Fail /\ (UNCHANGED exec \/ (Renewable(i) /\ Renew(i)))
    /\ Becomes(i, [call[i] EXCEPT !.lost = Pending(i), !.beating = FALSE,
                                  !.ctxDone = TRUE])
    /\ UNCHANGED <<cancelReq, overruns, completed>>

\* The handler returned or ctxExec is done.  A tick that is ready at the same
\* moment may still be taken first.
HeartbeatStops(i) ==
    /\ call[i].beating /\ ~call[i].asking /\ call[i].ctxDone
    /\ call' = [call EXCEPT ![i].beating = FALSE]
    /\ UNCHANGED <<exec, cancelReq, overruns, completed, bounds>>

\* Mutant: a job that cannot be read counts as cancelled.
WatchCancelUnread(i) ==
    /\ call[i].watching
    /\ Becomes(i, [call[i] EXCEPT !.signal = Pending(i), !.watching = FALSE,
                                  !.ctxDone = TRUE])
    /\ UNCHANGED <<exec, cancelReq, overruns, completed, bounds>>

WatchCancel(i) ==
    /\ call[i].watching /\ cancelReq[call[i].job]
    /\ Becomes(i, [call[i] EXCEPT !.signal = Pending(i), !.watching = FALSE,
                                  !.ctxDone = TRUE])
    /\ UNCHANGED <<exec, cancelReq, overruns, completed, bounds>>

WatchStops(i) ==
    /\ call[i].watching /\ call[i].ctxDone
    /\ call' = [call EXCEPT ![i].watching = FALSE]
    /\ UNCHANGED <<exec, cancelReq, overruns, completed, bounds>>
------------------------------------------------------------------------------
(* The surroundings *)

\* The caller's deadline passes or it goes away: the request context is done.
CallerGone(i) ==
    /\ call[i].pc \in Entered /\ ~call[i].ctxDone
    /\ call' = [call EXCEPT ![i].ctxDone = TRUE]
    /\ UNCHANGED <<exec, cancelReq, overruns, completed, bounds>>

\* CancelJob stamps cancel_requested_at or ends a queued job as 'cancelled'; neither
\* is ever taken back.
RequestCancel(j) ==
    /\ ~cancelReq[j] /\ cancelReq' = [cancelReq EXCEPT ![j] = TRUE]
    /\ UNCHANGED <<exec, call, overruns, completed, bounds>>

Tick ==
    /\ \E j \in Jobs : Live(exec[j])
    /\ exec' = [j \in Jobs |-> IF Live(exec[j])
                               THEN [exec[j] EXCEPT !.lease = @ - 1] ELSE exec[j]]
    /\ UNCHANGED <<call, cancelReq, overruns, completed, bounds>>

\* The worker process dies with the invocation and its goroutines.
Crash(i) ==
    /\ call[i].pc \notin {"unused", "done"} \/ call[i].beating
    /\ crashes < MaxCrashes /\ crashes' = crashes + 1 /\ UNCHANGED <<faults, purges>>
    /\ Becomes(i, [Unused(call[i].job) EXCEPT !.pc = "done"])
    /\ UNCHANGED <<exec, cancelReq, overruns, completed>>

\* purgeTaskExecution removes finished rows past their retention.
Purge(j) ==
    /\ exec[j].status \in {"succeeded", "failed", "cancelled"}
    /\ purges < MaxPurges /\ purges' = purges + 1 /\ UNCHANGED <<faults, crashes>>
    /\ exec' = [exec EXCEPT ![j] = NoRow]
    /\ UNCHANGED <<call, cancelReq, overruns, completed>>
------------------------------------------------------------------------------
Handler(i) ==
    \/ TryStart(i) \/ TryStartFails(i) \/ HandleExisting(i) \/ HandleExistingFails(i)
    \/ Takeover(i) \/ TakeoverMisses(i) \/ CheckCancel(i) \/ TargetReturns(i)
    \/ Select(i) \/ Finalize(i)

Next ==
    \/ \E i \in Invocations :
          \/ Receive(i) \/ Handler(i)
          \/ Heartbeat(i) \/ HeartbeatAsks(i) \/ HeartbeatLoses(i)
          \/ HeartbeatStops(i)
          \/ WatchCancel(i) \/ WatchStops(i)
          \/ CallerGone(i) \/ Crash(i)
    \/ \E j \in Jobs : RequestCancel(j) \/ Purge(j)
    \/ Tick

Spec == Init /\ [][Next]_vars

\* Handlers are scheduled, target methods and the cancel RPC return, the goroutines
\* notice that they should stop, and time passes.  Go's select picks at random among
\* the cases that are ready, so that a heartbeat whose context is done each time it
\* looks does not take the tick for ever: strong fairness.
Fairness ==
    /\ WF_vars(Tick)
    /\ \A i \in Invocations :
          /\ WF_vars(Handler(i)) /\ WF_vars(HeartbeatAsks(i))
          /\ SF_vars(HeartbeatStops(i)) /\ WF_vars(WatchStops(i))

FairSpec == Spec /\ Fairness
------------------------------------------------------------------------------
(* Properties *)

TypeOK ==
    /\ exec \in [Jobs -> ExecutionRecord]
    /\ call \in [Invocations -> InvocationRecord]
    /\ cancelReq \in [Jobs -> BOOLEAN]
    /\ overruns \in [Jobs -> Nat]
    /\ completed \subseteq Jobs
    /\ faults \in 0..MaxFaults /\ crashes \in 0..MaxCrashes /\ purges \in 0..MaxPurges

\* A row has a lease exactly while it is running.  With a NULL lease_until on a
\* running row handleExisting would neither answer nor take the row over: it would
\* call itself for ever and the job could never be executed again.
LeaseWhileRunning ==
    \A j \in Jobs : exec[j].status = "running" <=> exec[j].lease # NullLease

\* While an invocation between tryStart and its final update still owns the row,
\* the row is running: neither another request, a purge nor a heartbeat that
\* fires late finishes it underneath its owner.
OwnerSeesRunning ==
    \A i \in Invocations : call[i].pc \in Entered /\ Owned(i) => Row(i).status = "running"

\* A success, once recorded, is never overwritten (only purged): not by a worker
\* whose lease had expired and whose target returns late, not by a heartbeat
\* that outlives its handler, not by a retry.
SuccessIsFinal ==
    [][\A j \in Jobs : exec[j].status = "succeeded"
                       => exec'[j] \in {exec[j], NoRow}]_vars

\* The invocations still inside job j although its row belongs to another one.
Displaced(j) == {i \in Invocations : /\ call[i].job = j /\ call[i].pc \in Entered
                                     /\ ~Owned(i)}

\* Executions of a job overlap only because a running row was taken over after its
\* lease expired: displaced invocations never outnumber those takeovers, so that
\* without an expired lease a job's target runs in its row's owner alone.
OverlapNeedsExpiry == \A j \in Jobs : Cardinality(Displaced(j)) <= overruns[j]

\* A SUCCEEDED answer, fresh or from the row, means that the target method did
\* return a result; a CANCELLED answer that a cancellation was asked for.
AnswersAreTrue ==
    \A i \in Invocations :
        /\ call[i].answer = "SUCCEEDED" => call[i].job \in completed
        /\ call[i].answer = "CANCELLED" => cancelReq[call[i].job]

\* A duplicate create falls back to the existing execution: as long as no
\* statement fails and no row is purged, a request that did not execute the
\* target is not answered FAILED_RETRYABLE.
DuplicateFallsBack ==
    faults = 0 /\ purges = 0 =>
    \A i \in Invocations :
        call[i].answer = "FAILED_RETRYABLE" => call[i].outcome # "none"

\* A running row is finished or its lease runs out, also when its worker died or
\* its final update failed: the next request can then take it over.
RunningEnds ==
    \A j \in Jobs : exec[j].status = "running"
                    ~> (exec[j].status # "running" \/ exec[j].lease = 0)
==============================================================================
