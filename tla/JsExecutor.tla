------------------------------ MODULE JsExecutor ------------------------------
(* The control plane of the default JavaScript executor                      *)
(* (internal/defaultjsexecutor/executor.go): Start, Stop and Reload called by *)
(* any number of goroutines.  Each call holds controlMu while it looks at and *)
(* changes the executor's state, releases it around the slow operation on the *)
(* thread pool, and takes it again to record the result; a Stop that finds a  *)
(* Start or a Reload under way leaves a request and waits on stopDone.        *)
(*                                                                           *)
(* The pool is modelled at the grain these calls see: its state, its mutex    *)
(* and its stopOnce.  JsPool models what happens inside it and what becomes   *)
(* of its threads.                                                            *)
EXTENDS Naturals, FiniteSets

CONSTANTS
  Callers,        \* goroutines that call Start, Stop and Reload
  Nobody,         \* the holder of a free mutex
  MaxCalls,       \* bound: the calls made altogether
  StartMayFail    \* whether warming up the minimum threads can fail

ASSUME NobodyAssumption == Nobody \notin Callers
ASSUME CallsAssumption == MaxCalls \in Nat
ASSUME FailAssumption  == StartMayFail \in BOOLEAN

VARIABLES
  state,          \* e.state
  stopRequested,  \* e.stopRequested
  stopDone,       \* e.stopDone: 0 is nil, n the n-th channel made
  channels,       \* how many stopDone channels were made
  closed,         \* those of them that are closed
  poolState,      \* p.state
  poolMu,         \* the caller that holds p.controlMu, or Nobody
  once,           \* p.stopOnce: the caller that runs or ran it, or Nobody
  caller,         \* the call each goroutine is in
  calls,          \* calls made so far
  abandoned       \* history: channels that were open when a Start failed

vars == <<state, stopRequested, stopDone, channels, closed, poolState, poolMu, once,
          caller, calls, abandoned>>
control == <<state, stopRequested, stopDone, channels, closed>>
pool == <<poolState, poolMu, once>>

States == {"new", "starting", "running", "reloading", "stopping", "stopped"}
PoolStates == {"cold", "running", "stopping", "stopped"}
Answers == {"none", "ok", "notStarted", "reloading", "stopping", "stopped", "failed"}

\* Where a call can be.  The pcs in PoolPcs are inside an operation of the pool.
PoolPcs == {"warmup", "reloadPool", "reloadThreads", "stopPool", "stopThreads"}
Pcs == {"idle", "startEnd", "reloadEnd", "stopEnd", "await"} \cup PoolPcs

\* op is the method called, err whether its pool operation failed, wait the
\* stopDone channel a Stop waits on, answer what the last call returned.
CallRecord == [op : {"none", "Start", "Stop", "Reload"}, pc : Pcs, err : BOOLEAN,
               wait : Nat, answer : Answers]

Idle(op, answer) == [op |-> op, pc |-> "idle", err |-> FALSE, wait |-> 0, answer |-> answer]
At(c, op, pc)    == caller' = [caller EXCEPT ![c] = [Idle(op, "none") EXCEPT !.pc = pc]]
Goto(c, pc)      == caller' = [caller EXCEPT ![c].pc = pc]
GotoWith(c, pc, failed) == caller' = [caller EXCEPT ![c].pc = pc, ![c].err = failed]
WaitOn(c, channel) ==
  caller' = [caller EXCEPT ![c] = [Idle("Stop", "none") EXCEPT !.pc = "await", !.wait = channel]]
Return(c, op, answer) == caller' = [caller EXCEPT ![c] = Idle(op, answer)]

Init ==
  /\ state = "new" /\ stopRequested = FALSE
  /\ stopDone = 0 /\ channels = 0 /\ closed = {}
  /\ poolState = "cold" /\ poolMu = Nobody /\ once = Nobody
  /\ caller = [c \in Callers |-> Idle("none", "none")]
  /\ calls = 0 /\ abandoned = {}

-----------------------------------------------------------------------------
(* The stop request and its channel.                                          *)

\* stopDone after ensureStopDoneLocked: the open channel, or a new one.
EnsureStopDone ==
  IF stopDone # 0
  THEN UNCHANGED <<stopDone, channels>>
  ELSE stopDone' = channels + 1 /\ channels' = channels + 1

\* Mutant: the channel is closed but kept, and would be closed again.
CompleteStopKeeps ==
  /\ state' = "stopped"
  /\ stopRequested' = FALSE
  /\ closed' = closed \cup ({stopDone} \ {0})
  /\ UNCHANGED <<stopDone, channels>>

\* Mutant: nobody is woken.
CompleteStopQuietly ==
  /\ state' = "stopped"
  /\ stopRequested' = FALSE
  /\ stopDone' = 0
  /\ UNCHANGED <<channels, closed>>

\* completeStopLocked: the executor is stopped and whoever waits is woken.
CompleteStop ==
  /\ state' = "stopped"
  /\ stopRequested' = FALSE
  /\ closed' = IF stopDone # 0 THEN closed \cup {stopDone} ELSE closed
  /\ stopDone' = 0
  /\ UNCHANGED channels

\* A goroutine makes a call: the bound of the model.
Enter(c) ==
  /\ caller[c].pc = "idle"
  /\ calls < MaxCalls
  /\ calls' = calls + 1
  /\ UNCHANGED abandoned

\* What Start and Reload do when their pool operation returns and somebody asked
\* to stop meanwhile: they stop the pool themselves.
StopInstead(c) ==
  /\ EnsureStopDone
  /\ state' = "stopping"
  /\ Goto(c, "stopPool")
  /\ UNCHANGED <<stopRequested, closed>>

-----------------------------------------------------------------------------
(* Start.                                                                     *)

\* The locked section Start begins with.
Start(c) ==
  /\ Enter(c)
  /\ UNCHANGED pool
  /\ \/ /\ state = "new"
        /\ state' = "starting" /\ stopRequested' = FALSE
        /\ At(c, "Start", "warmup")
        /\ UNCHANGED <<stopDone, channels, closed>>
     \/ /\ state \in {"starting", "running", "reloading"}
        /\ Return(c, "Start", "ok") /\ UNCHANGED control
     \/ /\ state \in {"stopping", "stopped"}
        /\ Return(c, "Start", state) /\ UNCHANGED control

\* What pool.start can answer: an error when the pool stops or has stopped, or, as
\* long as it is cold, when a thread fails to initialise.
StartErrors ==
  CASE poolState \in {"stopping", "stopped"} -> {TRUE}
    [] poolState = "running"                 -> {FALSE}
    [] poolState = "cold"                    -> IF StartMayFail THEN BOOLEAN ELSE {FALSE}

\* pool.start: warm up the minimum threads; the pool runs when all are there, and
\* keeps its state if one fails.
Warmup(c) ==
  /\ caller[c].pc = "warmup"
  /\ \E failed \in StartErrors :
       /\ GotoWith(c, "startEnd", failed)
       /\ poolState' = IF failed THEN poolState ELSE "running"
  /\ UNCHANGED <<control, poolMu, once, calls, abandoned>>

\* The locked section after pool.start.  A failed start goes back to "new"
\* whatever was requested meanwhile.
StartEnd(c) ==
  /\ caller[c].pc = "startEnd"
  /\ abandoned' = IF caller[c].err THEN abandoned \cup ({stopDone} \ {0}) ELSE abandoned
  /\ UNCHANGED <<pool, calls>>
  /\ \/ /\ caller[c].err
        /\ state' = "new"
        /\ Return(c, "Start", "failed")
        /\ UNCHANGED <<stopRequested, stopDone, channels, closed>>
     \/ /\ ~caller[c].err /\ stopRequested
        /\ StopInstead(c)
     \/ /\ ~caller[c].err /\ ~stopRequested
        /\ state' = "running"
        /\ Return(c, "Start", "ok")
        /\ UNCHANGED <<stopRequested, stopDone, channels, closed>>

-----------------------------------------------------------------------------
(* Stop.                                                                      *)

\* Mutant: Stop does not wait for a reload under way.
StopAnytime(c) ==
  /\ Enter(c)
  /\ UNCHANGED <<pool, closed>>
  /\ state \in {"running", "reloading"}
  /\ EnsureStopDone
  /\ stopRequested' = TRUE /\ state' = "stopping"
  /\ At(c, "Stop", "stopPool")

\* The locked section Stop begins with.  While a reload runs it also moves a
\* running pool to "stopping", which ends the reload at the next thread.
Stop(c) ==
  /\ Enter(c)
  /\ UNCHANGED <<poolMu, once>>
  /\ \/ /\ state = "new"
        /\ state' = "stopped" /\ stopRequested' = FALSE
        /\ Return(c, "Stop", "ok")
        /\ UNCHANGED <<stopDone, channels, closed, poolState>>
     \/ /\ state \in {"starting", "reloading", "stopping"}
        /\ EnsureStopDone
        /\ stopRequested' = (stopRequested \/ state # "stopping")
        /\ poolState' = IF state = "reloading" /\ poolState = "running"
                        THEN "stopping" ELSE poolState
        /\ WaitOn(c, stopDone')
        /\ UNCHANGED <<state, closed>>
     \/ /\ state = "running"
        /\ EnsureStopDone
        /\ stopRequested' = TRUE /\ state' = "stopping"
        /\ At(c, "Stop", "stopPool")
        /\ UNCHANGED <<closed, poolState>>
     \/ /\ state = "stopped"
        /\ Return(c, "Stop", "ok")
        /\ UNCHANGED <<control, poolState>>

\* A Stop that left a request, or found one, returns when stopDone is closed.
Await(c) ==
  /\ caller[c].pc = "await" /\ caller[c].wait \in closed
  /\ Return(c, "Stop", "ok")
  /\ UNCHANGED <<control, pool, calls, abandoned>>

\* pool.stop: the pool admits nothing from here on.  Only the first call of it
\* does the work (stopOnce).
StopPool(c) ==
  /\ caller[c].pc = "stopPool"
  /\ once' = IF once = Nobody THEN c ELSE once
  /\ poolState' = IF once = Nobody THEN "stopping" ELSE poolState
  /\ Goto(c, "stopThreads")
  /\ UNCHANGED <<control, poolMu, calls, abandoned>>

\* The first call takes the pool's mutex for a moment, to list the threads, stops
\* those and leaves the pool stopped; another call waits until it has.
StopThreads(c) ==
  /\ caller[c].pc = "stopThreads"
  /\ IF once = c THEN poolMu = Nobody ELSE poolState = "stopped"
  /\ poolState' = "stopped"
  /\ Goto(c, "stopEnd")
  /\ UNCHANGED <<control, poolMu, once, calls, abandoned>>

\* The locked section after pool.stop, in Stop, Start or Reload.
StopEnd(c) ==
  /\ caller[c].pc = "stopEnd"
  /\ CompleteStop
  /\ Return(c, caller[c].op, IF caller[c].op = "Stop" THEN "ok" ELSE "stopping")
  /\ UNCHANGED <<pool, calls, abandoned>>

-----------------------------------------------------------------------------
(* Reload.                                                                    *)

\* The locked section Reload begins with.
Reload(c) ==
  /\ Enter(c)
  /\ UNCHANGED <<pool, stopRequested, stopDone, channels, closed>>
  /\ \/ /\ state \in {"new", "starting"}
        /\ Return(c, "Reload", "notStarted") /\ UNCHANGED state
     \/ /\ state = "running" /\ stopRequested
        /\ Return(c, "Reload", "stopping") /\ UNCHANGED state
     \/ /\ state = "running" /\ ~stopRequested
        /\ state' = "reloading"
        /\ At(c, "Reload", "reloadPool")
     \/ /\ state \in {"reloading", "stopping", "stopped"}
        /\ Return(c, "Reload", state) /\ UNCHANGED state

\* pool.reload takes the pool's mutex and gives up if the pool is stopping.
ReloadPool(c) ==
  /\ caller[c].pc = "reloadPool" /\ poolMu = Nobody
  /\ UNCHANGED <<control, poolState, once, calls, abandoned>>
  /\ \/ /\ poolState \in {"stopping", "stopped"}
        /\ GotoWith(c, "reloadEnd", TRUE)
        /\ UNCHANGED poolMu
     \/ /\ poolState \notin {"stopping", "stopped"}
        /\ poolMu' = c
        /\ Goto(c, "reloadThreads")

\* The loop over the threads ends: all are reloaded, one failed, or the pool was
\* seen stopping.
ReloadThreads(c) ==
  /\ caller[c].pc = "reloadThreads"
  /\ poolMu' = Nobody
  /\ \E failed \in BOOLEAN : GotoWith(c, "reloadEnd", failed)
  /\ UNCHANGED <<control, poolState, once, calls, abandoned>>

\* The locked section after pool.reload.
ReloadEnd(c) ==
  /\ caller[c].pc = "reloadEnd"
  /\ UNCHANGED <<pool, calls, abandoned>>
  /\ \/ stopRequested /\ StopInstead(c)
     \/ /\ ~stopRequested
        /\ state' = "running"
        /\ Return(c, "Reload", IF caller[c].err THEN "failed" ELSE "ok")
        /\ UNCHANGED <<stopRequested, stopDone, channels, closed>>

-----------------------------------------------------------------------------
Progress(c) ==
  \/ Warmup(c) \/ StartEnd(c)
  \/ Await(c) \/ StopPool(c) \/ StopThreads(c) \/ StopEnd(c)
  \/ ReloadPool(c) \/ ReloadThreads(c) \/ ReloadEnd(c)

Next == \E c \in Callers : Start(c) \/ Stop(c) \/ Reload(c) \/ Progress(c)

Spec == Init /\ [][Next]_vars

\* A goroutine inside a call is scheduled until the call returns; whether another
\* call is ever made is the callers' business.
Fairness == \A c \in Callers : WF_vars(Progress(c))

FairSpec == Spec /\ Fairness

-----------------------------------------------------------------------------
(* Properties.                                                                *)

TypeOK ==
  /\ state \in States /\ stopRequested \in BOOLEAN
  /\ channels \in Nat /\ stopDone \in 0..channels /\ closed \subseteq 1..channels
  /\ stopDone \notin closed
  /\ poolState \in PoolStates /\ poolMu \in Callers \cup {Nobody}
  /\ once \in Callers \cup {Nobody}
  /\ caller \in [Callers -> CallRecord]
  /\ calls \in 0..MaxCalls /\ abandoned \subseteq 1..channels

\* The pool is never started, reloaded or stopped by two calls at once: the
\* executor's state machine keeps its slow operations apart although controlMu
\* is not held during any of them.
PoolOpsExclusive ==
  \A c, d \in Callers : caller[c].pc \in PoolPcs /\ caller[d].pc \in PoolPcs => c = d

\* An executor that admits requests has a pool that does, and that can still be
\* stopped: a Stop that caught a Reload has already put the pool in "stopping", so
\* no Reload may put the executor back to "running" after it, and no stop of the
\* pool may have used up its stopOnce.
RunningHasPool == state = "running" => poolState = "running" /\ once = Nobody

\* When a Stop has answered, the executor is stopped, its pool is too or never
\* ran, and no Start or Reload that was under way is still inside the pool.
StopMeansStopped ==
  \A c \in Callers :
    caller[c].op = "Stop" /\ caller[c].answer = "ok" =>
      /\ state = "stopped" /\ poolState \in {"cold", "stopped"}
      /\ \A d \in Callers : caller[d].pc \notin PoolPcs

\* A stopped executor and its pool never change their states again.
StoppedIsFinal == [][state = "stopped" => UNCHANGED <<state, poolState>>]_vars

\* Whoever waits for a stop has somebody to wake it: the wait is on the channel
\* that the call now inside the pool will close.  Only a Start that fails leaves
\* waiters behind.
WaitersAreHeard ==
  \A c \in Callers :
    caller[c].pc = "await" /\ caller[c].wait \notin closed \cup abandoned =>
      /\ caller[c].wait = stopDone
      /\ stopRequested
      /\ \E d \in Callers : caller[d].pc \notin {"idle", "await"}

\* A Start that fails leaves the pool as it found it, neither running nor
\* stopping: it can be started again, and stopped after that.
FailedStartIsCold == state = "new" => poolState = "cold" /\ once = Nobody

Stopping(c) == caller[c].op = "Stop" /\ caller[c].pc # "idle"
Stopped(c)  == caller[c].pc = "idle" /\ state = "stopped"

\* Stop stops the executor: a call of Stop comes back, with the executor stopped.
StopReturns == \A c \in Callers : Stopping(c) ~> Stopped(c)

\* It does, however starts, reloads and other stops are under way, unless a Start
\* it waited for failed.
StopHeard == \A c \in Callers : Stopping(c) ~> (Stopped(c) \/ caller[c].wait \in abandoned)

=============================================================================
