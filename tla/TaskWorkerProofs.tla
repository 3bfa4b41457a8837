---------------------------- MODULE TaskWorkerProofs ----------------------------
(***************************************************************************)
(* Theorems about TaskWorker, for every set of jobs and invocations, every  *)
(* lease duration and every bound.                                          *)
(***************************************************************************)
EXTENDS TaskWorker, FiniteSetTheorems, TLAPS

(* Types *)

LEMMA InitTypeOK == Init => TypeOK
BY OwnerAssumption, LeaseAssumption, BoundsAssumption
   DEF Init, TypeOK, ExecutionRecord, InvocationRecord, NoRow, Unused, NullLease

\* What each kind of step makes of an invocation is an invocation again.
LEMMA CallUpdates ==
    ASSUME TypeOK, NEW i \in Invocations
    PROVE  /\ \A c \in InvocationRecord :
                 Becomes(i, c) => call' \in [Invocations -> InvocationRecord]
           /\ \A a \in Answers \cup {"none"} :
                 Reply(i, a) => call' \in [Invocations -> InvocationRecord]
           /\ Enter(i) => call' \in [Invocations -> InvocationRecord]
<1>1. call[i] \in InvocationRecord
    BY DEF TypeOK
<1>2. \A c \in InvocationRecord :
         Becomes(i, c) => call' \in [Invocations -> InvocationRecord]
    BY DEF TypeOK, Becomes
<1>3. \A a \in Answers \cup {"none"} :
         [call[i] EXCEPT !.pc = "done", !.answer = a, !.lost = FALSE,
                         !.signal = FALSE, !.ctxDone = TRUE] \in InvocationRecord
    BY <1>1 DEF InvocationRecord
<1>4. [call[i] EXCEPT !.pc = "check", !.beating = TRUE, !.watching = TRUE]
         \in InvocationRecord
    BY <1>1 DEF InvocationRecord, Entered
<1> QED
    BY <1>2, <1>3, <1>4 DEF Reply, Enter

LEMMA RowUpdate ==
    ASSUME NEW r \in ExecutionRecord, NEW l \in NullLease..LeaseTicks,
           NEW s \in {"absent", "running", "succeeded", "failed", "cancelled"}
    PROVE  [r EXCEPT !.status = s, !.lease = l] \in ExecutionRecord
BY DEF ExecutionRecord

LEMMA NextTypeOK == TypeOK /\ [Next]_vars => TypeOK'
<1> SUFFICES ASSUME TypeOK, [Next]_vars PROVE TypeOK'
    OBVIOUS
<1> USE BoundsAssumption
<1> DEFINE CallOK == call \in [Invocations -> InvocationRecord]
           ExecOK == exec \in [Jobs -> ExecutionRecord]
           RestOK == /\ cancelReq \in [Jobs -> BOOLEAN]
                     /\ overruns \in [Jobs -> Nat]
                     /\ completed \subseteq Jobs
                     /\ faults \in 0..MaxFaults /\ crashes \in 0..MaxCrashes
                     /\ purges \in 0..MaxPurges
<1>0. CallOK' /\ ExecOK' /\ RestOK' => TypeOK'
    BY DEF TypeOK
<1>a. RestOK /\ ExecOK /\ CallOK
    BY DEF TypeOK
<1>b. \A i \in Invocations : call[i] \in InvocationRecord /\ call[i].job \in Jobs
    BY DEF TypeOK, InvocationRecord
<1>c. ASSUME NEW i \in Invocations, TakeRow(i) PROVE ExecOK'
  <2>1. [status |-> "running", owner |-> i, lease |-> LeaseTicks] \in ExecutionRecord
    BY LeaseAssumption DEF ExecutionRecord, NullLease
  <2> QED
    BY <1>a, <1>c, <2>1 DEF TakeRow
<1>d. ASSUME NEW i \in Invocations, Renew(i) PROVE ExecOK'
  <2>1. [exec[call[i].job] EXCEPT !.lease = LeaseTicks] \in ExecutionRecord
    BY <1>a, <1>b, LeaseAssumption DEF ExecutionRecord, NullLease
  <2> QED
    BY <1>a, <1>d, <2>1 DEF Renew
<1>e. ASSUME NEW i \in Invocations, CountOverrun(i) PROVE overruns' \in [Jobs -> Nat]
  <2>1. [overruns EXCEPT ![call[i].job] = @ + 1] \in [Jobs -> Nat]
    BY <1>a, <1>b
  <2> QED
    BY <1>a, <1>e, <2>1 DEF CountOverrun
<1>1. ASSUME NEW i \in Invocations, Receive(i) PROVE TypeOK'
  <2>1. [call[i] EXCEPT !.pc = "start"] \in InvocationRecord
    BY <1>b DEF InvocationRecord
  <2>2. CallOK'
    BY <1>1, <2>1, CallUpdates DEF Receive, Becomes, Answers, Errors
  <2> QED
    BY <1>0, <1>a, <1>1, <2>2 DEF Receive, bounds
<1>2. ASSUME NEW i \in Invocations, TryStart(i) PROVE TypeOK'
  <2>1. CallOK' /\ ExecOK'
    BY <1>2, <1>c, CallUpdates DEF TryStart
  <2> QED
    BY <1>0, <1>a, <1>2, <2>1 DEF TryStart, bounds
<1>3. ASSUME NEW i \in Invocations, TryStartFails(i) PROVE TypeOK'
  <2>1. [call[i] EXCEPT !.pc = "existing"] \in InvocationRecord
    BY <1>b DEF InvocationRecord
  <2>2. CallOK'
    BY <1>3, <2>1, CallUpdates DEF TryStartFails, Becomes, Answers, Errors
  <2>3. ExecOK'
    BY <1>3, <1>a, <1>c DEF TryStartFails
  <2> QED
    BY <1>0, <1>a, <1>3, <2>2, <2>3 DEF TryStartFails, Fail, bounds
<1>4. ASSUME NEW i \in Invocations, HandleExisting(i) PROVE TypeOK'
  <2>1. [call[i] EXCEPT !.pc = "takeover"] \in InvocationRecord
    BY <1>b DEF InvocationRecord
  <2>2. CallOK'
    BY <1>4, <2>1, CallUpdates DEF HandleExisting, Becomes, Answers, Errors
  <2> QED
    BY <1>0, <1>a, <1>4, <2>2 DEF HandleExisting, bounds
<1>5. ASSUME NEW i \in Invocations, HandleExistingFails(i) PROVE TypeOK'
  <2>1. CallOK'
    BY <1>5, CallUpdates DEF HandleExistingFails, Answers, Errors
  <2>2. ExecOK' /\ overruns' \in [Jobs -> Nat]
    BY <1>5, <1>a, <1>c, <1>e DEF HandleExistingFails
  <2> QED
    BY <1>0, <1>a, <1>5, <2>1, <2>2 DEF HandleExistingFails, Fail, bounds
<1>6. ASSUME NEW i \in Invocations, Takeover(i) PROVE TypeOK'
  <2>1. CallOK' /\ ExecOK'
    BY <1>6, <1>c, CallUpdates DEF Takeover
  <2>2. overruns' \in [Jobs -> Nat]
    BY <1>6, <1>e DEF Takeover
  <2> QED
    BY <1>0, <1>a, <1>6, <2>1, <2>2 DEF Takeover, bounds
<1>7. ASSUME NEW i \in Invocations, TakeoverMisses(i) PROVE TypeOK'
  <2>1. [call[i] EXCEPT !.pc = "existing"] \in InvocationRecord
    BY <1>b DEF InvocationRecord
  <2>2. CallOK'
    BY <1>7, <2>1, CallUpdates DEF TakeoverMisses, Becomes
  <2> QED
    BY <1>0, <1>a, <1>7, <2>2 DEF TakeoverMisses, bounds
<1>8. ASSUME NEW i \in Invocations, CheckCancel(i) PROVE TypeOK'
  <2>1. [call[i] EXCEPT !.pc = "run"] \in InvocationRecord
    BY <1>b DEF InvocationRecord, Entered
  <2>2. [call[i] EXCEPT !.pc = "finalize", !.outcome = "cancelled", !.ctxDone = TRUE]
           \in InvocationRecord
    BY <1>b DEF InvocationRecord, Entered, Outcomes
  <2>3. CallOK'
    BY <1>8, <2>1, <2>2, CallUpdates DEF CheckCancel, Becomes
  <2> QED
    BY <1>0, <1>a, <1>8, <2>3 DEF CheckCancel, bounds
<1>9. ASSUME NEW i \in Invocations, TargetReturns(i) PROVE TypeOK'
  <2>1. \A o \in TargetErrors \cup {"ok"} :
           [call[i] EXCEPT !.pc = "select", !.outcome = o] \in InvocationRecord
    BY <1>b, ErrorsAssumption DEF InvocationRecord, Entered, Outcomes
  <2>2. CallOK'
    BY <1>9, <2>1, CallUpdates DEF TargetReturns
  <2>3. completed' \subseteq Jobs
    BY <1>9, <1>a, <1>b DEF TargetReturns
  <2> QED
    BY <1>0, <1>a, <1>9, <2>2, <2>3 DEF TargetReturns, bounds
<1>10. ASSUME NEW i \in Invocations, Select(i) PROVE TypeOK'
  <2>1. \A o \in Outcomes :
           [call[i] EXCEPT !.pc = "finalize", !.outcome = o] \in InvocationRecord
    BY <1>b DEF InvocationRecord, Entered
  <2>2. CallOK'
    BY <1>10, <2>1, CallUpdates DEF Select
  <2> QED
    BY <1>0, <1>a, <1>10, <2>2 DEF Select, bounds
<1>11. ASSUME NEW i \in Invocations, Finalize(i) PROVE TypeOK'
  <2>1. AnswerOf(call[i].outcome) \in Answers \cup {"none"}
    <3>1. call[i].outcome \in Outcomes \cup {"none"}
      BY <1>b DEF InvocationRecord
    <3> QED
      BY <3>1 DEF AnswerOf, Outcomes, Answers, Errors
  <2>2. CallOK'
    BY <1>11, <2>1, CallUpdates DEF Finalize
  <2>3. exec[call[i].job] \in ExecutionRecord
    BY <1>a, <1>b
  <2>4. [exec[call[i].job] EXCEPT !.status = StatusOf(call[i].outcome), !.lease = NullLease]
           \in ExecutionRecord
    <3>1. StatusOf(call[i].outcome) \in {"succeeded", "cancelled", "failed"}
      BY DEF StatusOf
    <3>2. NullLease \in NullLease..LeaseTicks
      BY LeaseAssumption DEF NullLease
    <3> QED
      BY <2>3, <3>1, <3>2, RowUpdate
  <2>5. ExecOK'
    BY <1>11, <1>a, <2>4 DEF Finalize
  <2> QED
    BY <1>0, <1>a, <1>11, <2>2, <2>5 DEF Finalize, Fail, bounds
<1>12. ASSUME NEW i \in Invocations, Heartbeat(i) PROVE TypeOK'
  <2>1. [call[i] EXCEPT !.asking = TRUE] \in InvocationRecord
    BY <1>b DEF InvocationRecord
  <2>2. CallOK'
    BY <1>12, <2>1, CallUpdates DEF Heartbeat, Becomes
  <2>3. ExecOK'
    BY <1>12, <1>d DEF Heartbeat
  <2> QED
    BY <1>0, <1>a, <1>12, <2>2, <2>3 DEF Heartbeat, bounds
<1>13. ASSUME NEW i \in Invocations, HeartbeatAsks(i) PROVE TypeOK'
  <2>1. [call[i] EXCEPT !.asking = FALSE] \in InvocationRecord
    BY <1>b DEF InvocationRecord
  <2>2. [call[i] EXCEPT !.signal = Pending(i), !.beating = FALSE, !.asking = FALSE,
                        !.ctxDone = TRUE] \in InvocationRecord
    BY <1>b DEF InvocationRecord, Pending
  <2>3. CallOK'
    BY <1>13, <2>1, <2>2, CallUpdates DEF HeartbeatAsks, Becomes
  <2> QED
    BY <1>0, <1>a, <1>13, <2>3 DEF HeartbeatAsks, bounds
<1>14. ASSUME NEW i \in Invocations, HeartbeatLoses(i) PROVE TypeOK'
  <2>1. [call[i] EXCEPT !.lost = Pending(i), !.beating = FALSE, !.ctxDone = TRUE]
           \in InvocationRecord
    BY <1>b DEF InvocationRecord, Pending
  <2>2. CallOK'
    BY <1>14, <2>1, CallUpdates DEF HeartbeatLoses
  <2>3. ExecOK'
    BY <1>14, <1>a, <1>d DEF HeartbeatLoses
  <2> QED
    BY <1>0, <1>a, <1>14, <2>2, <2>3 DEF HeartbeatLoses, Fail, bounds
<1>15. ASSUME NEW i \in Invocations, HeartbeatStops(i) PROVE TypeOK'
  <2>1. [call[i] EXCEPT !.beating = FALSE] \in InvocationRecord
    BY <1>b DEF InvocationRecord
  <2>2. CallOK'
    BY <1>15, <2>1, CallUpdates DEF HeartbeatStops, Becomes
  <2> QED
    BY <1>0, <1>a, <1>15, <2>2 DEF HeartbeatStops, bounds
<1>16. ASSUME NEW i \in Invocations, WatchCancel(i) PROVE TypeOK'
  <2>1. [call[i] EXCEPT !.signal = Pending(i), !.watching = FALSE, !.ctxDone = TRUE]
           \in InvocationRecord
    BY <1>b DEF InvocationRecord, Pending
  <2>2. CallOK'
    BY <1>16, <2>1, CallUpdates DEF WatchCancel
  <2> QED
    BY <1>0, <1>a, <1>16, <2>2 DEF WatchCancel, bounds
<1>17. ASSUME NEW i \in Invocations, WatchStops(i) PROVE TypeOK'
  <2>1. [call[i] EXCEPT !.watching = FALSE] \in InvocationRecord
    BY <1>b DEF InvocationRecord
  <2>2. CallOK'
    BY <1>17, <2>1, CallUpdates DEF WatchStops, Becomes
  <2> QED
    BY <1>0, <1>a, <1>17, <2>2 DEF WatchStops, bounds
<1>18. ASSUME NEW i \in Invocations, CallerGone(i) PROVE TypeOK'
  <2>1. [call[i] EXCEPT !.ctxDone = TRUE] \in InvocationRecord
    BY <1>b DEF InvocationRecord
  <2>2. CallOK'
    BY <1>18, <2>1, CallUpdates DEF CallerGone, Becomes
  <2> QED
    BY <1>0, <1>a, <1>18, <2>2 DEF CallerGone, bounds
<1>19. ASSUME NEW i \in Invocations, Crash(i) PROVE TypeOK'
  <2>1. [Unused(call[i].job) EXCEPT !.pc = "done"] \in InvocationRecord
    BY <1>b DEF InvocationRecord, Unused
  <2>2. CallOK'
    BY <1>19, <2>1, CallUpdates DEF Crash
  <2> QED
    BY <1>0, <1>a, <1>19, <2>2 DEF Crash
<1>20. ASSUME NEW j \in Jobs, RequestCancel(j) PROVE TypeOK'
    BY <1>0, <1>a, <1>20 DEF RequestCancel, bounds
<1>21. ASSUME NEW j \in Jobs, Purge(j) PROVE TypeOK'
  <2>1. NoRow \in ExecutionRecord
    BY LeaseAssumption DEF NoRow, ExecutionRecord, NullLease
  <2> QED
    BY <1>0, <1>a, <1>21, <2>1 DEF Purge
<1>22. CASE Tick
  <2>1. \A j \in Jobs : exec[j] \in ExecutionRecord
    BY <1>a
  <2>2. \A j \in Jobs : Live(exec[j]) => [exec[j] EXCEPT !.lease = @ - 1] \in ExecutionRecord
    BY <2>1, LeaseAssumption DEF Live, ExecutionRecord, NullLease
  <2>3. ExecOK'
    BY <1>22, <2>1, <2>2 DEF Tick
  <2> QED
    BY <1>0, <1>a, <1>22, <2>3 DEF Tick, bounds
<1>23. CASE UNCHANGED vars
    BY <1>0, <1>a, <1>23 DEF vars, bounds
<1> QED
    BY <1>1, <1>2, <1>3, <1>4, <1>5, <1>6, <1>7, <1>8, <1>9, <1>10, <1>11, <1>12, <1>13,
       <1>14, <1>15, <1>16, <1>17, <1>18, <1>19, <1>20, <1>21, <1>22, <1>23
    DEF Next, Handler

\* The execution table, the invocations and the counters keep their types.
THEOREM TypeCorrect == Spec => []TypeOK
BY InitTypeOK, NextTypeOK, PTL DEF Spec
-----------------------------------------------------------------------------
(* Leases and owners *)

\* How a step changes an invocation, field by field.
LEMMA CallFields ==
    ASSUME TypeOK, NEW i \in Invocations
    PROVE  /\ \A c : Becomes(i, c) => \A k \in Invocations :
                    call'[k] = IF k = i THEN c ELSE call[k]
           /\ \A a : Reply(i, a) => /\ \A k \in Invocations \ {i} : call'[k] = call[k]
                                    /\ call'[i].pc = "done" /\ call'[i].answer = a
                                    /\ call'[i].job = call[i].job
                                    /\ call'[i].outcome = call[i].outcome
                                    /\ call'[i].signal = FALSE
           /\ Enter(i) => /\ \A k \in Invocations \ {i} : call'[k] = call[k]
                          /\ call'[i].pc = "check" /\ call'[i].answer = call[i].answer
                          /\ call'[i].job = call[i].job
                          /\ call'[i].outcome = call[i].outcome
                          /\ call'[i].signal = call[i].signal
<1>1. call[i] \in InvocationRecord
    BY DEF TypeOK
<1>2. \A c : Becomes(i, c) => \A k \in Invocations :
                  call'[k] = IF k = i THEN c ELSE call[k]
    BY DEF TypeOK, Becomes
<1> DEFINE Replied(a) == [call[i] EXCEPT !.pc = "done", !.answer = a, !.lost = FALSE,
                                         !.signal = FALSE, !.ctxDone = TRUE]
<1>3. ASSUME NEW a
      PROVE  /\ Replied(a).pc = "done" /\ Replied(a).answer = a
             /\ Replied(a).job = call[i].job /\ Replied(a).outcome = call[i].outcome
             /\ Replied(a).signal = FALSE
    BY <1>1 DEF InvocationRecord
<1>4. LET c == [call[i] EXCEPT !.pc = "check", !.beating = TRUE, !.watching = TRUE]
      IN  /\ c.pc = "check" /\ c.answer = call[i].answer /\ c.job = call[i].job
          /\ c.outcome = call[i].outcome /\ c.signal = call[i].signal
    BY <1>1 DEF InvocationRecord
<1>5. ASSUME NEW a, Reply(i, a)
      PROVE  /\ \A k \in Invocations \ {i} : call'[k] = call[k]
             /\ call'[i].pc = "done" /\ call'[i].answer = a /\ call'[i].job = call[i].job
             /\ call'[i].outcome = call[i].outcome /\ call'[i].signal = FALSE
  <2>1. Becomes(i, Replied(a))
    BY <1>5 DEF Reply
  <2>2. \A k \in Invocations : call'[k] = IF k = i THEN Replied(a) ELSE call[k]
    BY <2>1 DEF TypeOK, Becomes
  <2> HIDE DEF Replied
  <2>3. \A k \in Invocations \ {i} : call'[k] = call[k]
    BY <2>2
  <2>4. call'[i] = Replied(a)
    BY <2>2
  <2>5. Replied(a).signal = FALSE /\ Replied(a).pc = "done" /\ Replied(a).answer = a
    BY <1>3
  <2>6. Replied(a).job = call[i].job /\ Replied(a).outcome = call[i].outcome
    BY <1>3
  <2> QED
    BY <2>3, <2>4, <2>5, <2>6, Zenon
<1>6. ASSUME Enter(i)
      PROVE  /\ \A k \in Invocations \ {i} : call'[k] = call[k]
             /\ call'[i].pc = "check" /\ call'[i].answer = call[i].answer
             /\ call'[i].job = call[i].job
             /\ call'[i].outcome = call[i].outcome /\ call'[i].signal = call[i].signal
    BY <1>2, <1>4, <1>6 DEF Enter
<1> QED
    BY <1>2, <1>5, <1>6

\* An invocation keeps its job, and is inside the row only after inserting it or
\* taking it over.
LEMMA EntersByTaking ==
    ASSUME TypeOK, [Next]_vars, NEW k \in Invocations
    PROVE  /\ call'[k].job = call[k].job
           /\ call'[k].pc \in Entered =>
                 call[k].pc \in Entered \/ TryStart(k) \/ Takeover(k)
<1> DEFINE Q == /\ call'[k].job = call[k].job
                /\ call'[k].pc \in Entered =>
                      call[k].pc \in Entered \/ TryStart(k) \/ Takeover(k)
<1>a. \A i \in Invocations : call[i] \in InvocationRecord
    BY DEF TypeOK
<1>b. ASSUME NEW i \in Invocations, \E a : Reply(i, a) PROVE Q
    BY <1>b, CallFields DEF Entered
<1>c. ASSUME NEW i \in Invocations, NEW c, Becomes(i, c), c.job = call[i].job,
             c.pc \in Entered => call[i].pc \in Entered
      PROVE  Q
    BY <1>c DEF TypeOK, Becomes
<1>1. ASSUME NEW i \in Invocations, Receive(i) PROVE Q
  <2>1. CASE call' = [call EXCEPT ![i].pc = "start"]
    BY <2>1, <1>a, <1>1 DEF TypeOK, InvocationRecord, Entered
  <2> QED
    BY <1>1, <1>b, <2>1 DEF Receive
<1>2. ASSUME NEW i \in Invocations, TryStart(i) PROVE Q
    BY <1>2, CallFields DEF TryStart
<1>3. ASSUME NEW i \in Invocations, TryStartFails(i) PROVE Q
  <2>1. CASE call' = [call EXCEPT ![i].pc = "existing"]
    BY <2>1, <1>a DEF TypeOK, InvocationRecord, Entered
  <2> QED
    BY <1>3, <1>b, <2>1 DEF TryStartFails
<1>4. ASSUME NEW i \in Invocations, HandleExisting(i) PROVE Q
  <2>1. CASE call' = [call EXCEPT ![i].pc = "takeover"]
    BY <2>1, <1>a DEF TypeOK, InvocationRecord, Entered
  <2> QED
    BY <1>4, <1>b, <2>1 DEF HandleExisting
<1>5. ASSUME NEW i \in Invocations, HandleExistingFails(i) PROVE Q
    BY <1>5, <1>b DEF HandleExistingFails
<1>6. ASSUME NEW i \in Invocations, Takeover(i) PROVE Q
    BY <1>6, CallFields DEF Takeover
<1>7. ASSUME NEW i \in Invocations, TakeoverMisses(i) PROVE Q
    BY <1>7, <1>a DEF TakeoverMisses, TypeOK, InvocationRecord, Entered
<1>8. ASSUME NEW i \in Invocations, CheckCancel(i) PROVE Q
  <2>1. CASE call' = [call EXCEPT ![i].pc = "run"]
    BY <2>1, <1>8, <1>a DEF CheckCancel, TypeOK, InvocationRecord, Entered
  <2> DEFINE c == [call[i] EXCEPT !.pc = "finalize", !.outcome = "cancelled", !.ctxDone = TRUE]
  <2>2. c.job = call[i].job /\ call[i].pc \in Entered
    BY <1>8, <1>a DEF CheckCancel, InvocationRecord, Entered
  <2>3. CASE Becomes(i, c)
    BY <2>2, <2>3, <1>c
  <2> QED
    BY <1>8, <2>1, <2>3 DEF CheckCancel
<1>9. ASSUME NEW i \in Invocations, TargetReturns(i) PROVE Q
    BY <1>9, <1>a DEF TargetReturns, Becomes, TypeOK, InvocationRecord, Entered
<1>10. ASSUME NEW i \in Invocations, Select(i) PROVE Q
    BY <1>10, <1>a DEF Select, Becomes, TypeOK, InvocationRecord, Entered
<1>11. ASSUME NEW i \in Invocations, Finalize(i) PROVE Q
    BY <1>11, <1>b DEF Finalize
<1>12. ASSUME NEW i \in Invocations, Heartbeat(i) PROVE Q
    BY <1>12, <1>a DEF Heartbeat, TypeOK, InvocationRecord
<1>13. ASSUME NEW i \in Invocations, HeartbeatAsks(i) PROVE Q
  <2> DEFINE c == [call[i] EXCEPT !.signal = Pending(i), !.beating = FALSE,
                                  !.asking = FALSE, !.ctxDone = TRUE]
  <2>1. c.job = call[i].job /\ c.pc = call[i].pc
    BY <1>a DEF InvocationRecord
  <2>2. CASE Becomes(i, c)
    BY <2>1, <2>2, <1>c
  <2>3. CASE call' = [call EXCEPT ![i].asking = FALSE]
    BY <2>3, <1>a DEF TypeOK, InvocationRecord
  <2> QED
    BY <1>13, <2>2, <2>3 DEF HeartbeatAsks
<1>14. ASSUME NEW i \in Invocations, HeartbeatLoses(i) PROVE Q
    BY <1>14, <1>a DEF HeartbeatLoses, Becomes, TypeOK, InvocationRecord
<1>15. ASSUME NEW i \in Invocations, HeartbeatStops(i) PROVE Q
    BY <1>15, <1>a DEF HeartbeatStops, TypeOK, InvocationRecord
<1>16. ASSUME NEW i \in Invocations, WatchCancel(i) PROVE Q
    BY <1>16, <1>a DEF WatchCancel, Becomes, TypeOK, InvocationRecord
<1>17. ASSUME NEW i \in Invocations, WatchStops(i) PROVE Q
    BY <1>17, <1>a DEF WatchStops, TypeOK, InvocationRecord
<1>18. ASSUME NEW i \in Invocations, CallerGone(i) PROVE Q
    BY <1>18, <1>a DEF CallerGone, TypeOK, InvocationRecord
<1>19. ASSUME NEW i \in Invocations, Crash(i) PROVE Q
    BY <1>19, <1>a DEF Crash, Becomes, Unused, TypeOK, InvocationRecord, Entered
<1>20. CASE \E j \in Jobs : RequestCancel(j) \/ Purge(j)
    BY <1>20 DEF RequestCancel, Purge
<1>21. CASE Tick \/ UNCHANGED vars
    BY <1>21 DEF Tick, vars
<1> QED
    BY <1>1, <1>2, <1>3, <1>4, <1>5, <1>6, <1>7, <1>8, <1>9, <1>10, <1>11, <1>12, <1>13,
       <1>14, <1>15, <1>16, <1>17, <1>18, <1>19, <1>20, <1>21
    DEF Next, Handler

\* Invocation i makes the row its own, with an insert or with a takeover, in a
\* statement that succeeds or that took effect although it errored.
Takes(i) == /\ Row(i).status = "absent" \/ Takeable(Row(i))
            /\ TakeRow(i) /\ CountOverrun(i)

\* What a step does to the rows.
LEMMA RowSteps ==
    ASSUME [Next]_vars
    PROVE  \/ UNCHANGED <<exec, overruns>>
           \/ \E i \in Invocations : \/ Takes(i) \/ Finalize(i)
                                     \/ Renewable(i) /\ Renew(i) /\ UNCHANGED overruns
           \/ \E j \in Jobs : Purge(j)
           \/ Tick
<1>1. ASSUME NEW i \in Invocations, TryStart(i) PROVE Takes(i)
    BY <1>1 DEF TryStart, Takes, CountOverrun
<1>2. ASSUME NEW i \in Invocations, TryStartFails(i)
      PROVE  Takes(i) \/ UNCHANGED <<exec, overruns>>
    BY <1>2 DEF TryStartFails, Takes, CountOverrun
<1>3. ASSUME NEW i \in Invocations, Takeover(i) PROVE Takes(i)
    BY <1>3 DEF Takeover, Takes
<1>4. ASSUME NEW i \in Invocations, HandleExistingFails(i)
      PROVE  Takes(i) \/ UNCHANGED <<exec, overruns>>
    BY <1>4 DEF HandleExistingFails, Takes
<1>5. ASSUME NEW i \in Invocations, Heartbeat(i) \/ HeartbeatLoses(i)
      PROVE  \/ Renewable(i) /\ Renew(i) /\ UNCHANGED overruns
             \/ UNCHANGED <<exec, overruns>>
    BY <1>5 DEF Heartbeat, HeartbeatLoses
<1> QED
    BY <1>1, <1>2, <1>3, <1>4, <1>5
    DEF Next, Handler, vars, Receive, HandleExisting, TakeoverMisses, CheckCancel,
        TargetReturns, Select, HeartbeatAsks, HeartbeatStops, WatchCancel, WatchStops,
        CallerGone, Crash, RequestCancel

\* Only a row that is running has a lease, and an invocation that is inside a row
\* it owns finds it running.
OwnershipInv == TypeOK /\ LeaseWhileRunning /\ OwnerSeesRunning

LEMMA InitOwnership == Init => OwnershipInv
<1> SUFFICES ASSUME Init PROVE OwnershipInv
    OBVIOUS
<1>1. TypeOK
    BY InitTypeOK
<1>2. LeaseWhileRunning
    BY DEF Init, LeaseWhileRunning, NoRow
<1>3. OwnerSeesRunning
    BY DEF Init, OwnerSeesRunning, Unused, Entered
<1> QED
    BY <1>1, <1>2, <1>3 DEF OwnershipInv

\* What each kind of step makes of a row.
LEMMA RowFields ==
    ASSUME TypeOK, NEW j \in Jobs
    PROVE  /\ \A r : exec' = [exec EXCEPT ![j] = r] =>
                 exec'[j] = r /\ \A m \in Jobs \ {j} : exec'[m] = exec[m]
           /\ Tick => /\ exec'[j].status = exec[j].status
                      /\ exec'[j].owner = exec[j].owner
                      /\ exec'[j].lease # NullLease <=> exec[j].lease # NullLease
<1>1. exec[j] \in ExecutionRecord
    BY DEF TypeOK
<1>2. \A r : exec' = [exec EXCEPT ![j] = r] =>
           exec'[j] = r /\ \A m \in Jobs \ {j} : exec'[m] = exec[m]
    BY DEF TypeOK
<1>3. ASSUME Tick
      PROVE  /\ exec'[j].status = exec[j].status /\ exec'[j].owner = exec[j].owner
             /\ exec'[j].lease # NullLease <=> exec[j].lease # NullLease
  <2>1. exec'[j] = IF Live(exec[j]) THEN [exec[j] EXCEPT !.lease = @ - 1] ELSE exec[j]
    BY <1>3 DEF Tick
  <2>2. CASE Live(exec[j])
    <3>1. /\ exec'[j].status = exec[j].status /\ exec'[j].owner = exec[j].owner
          /\ exec'[j].lease = exec[j].lease - 1
      BY <1>1, <2>1, <2>2 DEF ExecutionRecord
    <3>2. exec[j].lease \in Int /\ exec[j].lease > 0
      BY <1>1, <2>2, LeaseAssumption DEF ExecutionRecord, Live, NullLease
    <3> QED
      BY <3>1, <3>2 DEF NullLease
  <2>3. CASE ~Live(exec[j])
    BY <2>1, <2>3
  <2> QED
    BY <2>2, <2>3
<1> QED
    BY <1>2, <1>3

LEMMA NextLease == OwnershipInv /\ [Next]_vars => LeaseWhileRunning'
<1> SUFFICES ASSUME OwnershipInv, [Next]_vars, NEW m \in Jobs
             PROVE  exec'[m].status = "running" <=> exec'[m].lease # NullLease
    BY DEF LeaseWhileRunning
<1> DEFINE Q == exec'[m].status = "running" <=> exec'[m].lease # NullLease
<1>a. TypeOK /\ (exec[m].status = "running" <=> exec[m].lease # NullLease)
    BY DEF OwnershipInv, LeaseWhileRunning
<1>b. \A i \in Invocations : call[i].job \in Jobs /\ exec[call[i].job] \in ExecutionRecord
    BY <1>a DEF TypeOK, InvocationRecord
<1>c. CASE UNCHANGED exec
    BY <1>a, <1>c
<1>d. ASSUME NEW j \in Jobs, NEW r, exec' = [exec EXCEPT ![j] = r],
             r.status = "running" <=> r.lease # NullLease
      PROVE  Q
    BY <1>a, <1>d, RowFields
<1>e. LeaseTicks # NullLease
    BY LeaseAssumption DEF NullLease
<1>1. ASSUME NEW i \in Invocations, Takes(i) PROVE Q
    BY <1>1, <1>b, <1>d, <1>e DEF Takes, TakeRow
<1>2. ASSUME NEW i \in Invocations, Finalize(i) PROVE Q
  <2> DEFINE r == [exec[call[i].job] EXCEPT !.status = StatusOf(call[i].outcome),
                                            !.lease = NullLease]
  <2>1. r.status = StatusOf(call[i].outcome) /\ r.lease = NullLease
    BY <1>b DEF ExecutionRecord
  <2>2. StatusOf(call[i].outcome) # "running"
    BY DEF StatusOf
  <2>3. CASE exec' = [exec EXCEPT ![call[i].job] = r]
    BY <2>1, <2>2, <2>3, <1>b, <1>d
  <2> QED
    BY <1>2, <1>c, <2>3 DEF Finalize
<1>3. ASSUME NEW i \in Invocations, Renewable(i), Renew(i) PROVE Q
  <2> DEFINE r == [exec[call[i].job] EXCEPT !.lease = LeaseTicks]
  <2>1. r.status = "running" /\ r.lease = LeaseTicks
    BY <1>b, <1>3 DEF ExecutionRecord, Renewable, Row
  <2>2. exec' = [exec EXCEPT ![call[i].job] = r]
    BY <1>3 DEF Renew
  <2> QED
    BY <2>1, <2>2, <1>b, <1>d, <1>e
<1>4. ASSUME NEW j \in Jobs, Purge(j) PROVE Q
    BY <1>4, <1>d DEF Purge, NoRow
<1>5. CASE Tick
    BY <1>5, <1>a, RowFields
<1> QED
    BY <1>1, <1>2, <1>3, <1>4, <1>5, <1>c, RowSteps

LEMMA NextOwner == OwnershipInv /\ [Next]_vars => OwnerSeesRunning'
<1> SUFFICES ASSUME OwnershipInv, [Next]_vars, NEW k \in Invocations,
                    call'[k].pc \in Entered, exec'[call'[k].job].owner = k
             PROVE  exec'[call'[k].job].status = "running"
    BY DEF OwnerSeesRunning, Owned, Row
<1> DEFINE Q == exec'[call[k].job].status = "running"
<1>a. /\ TypeOK /\ call[k].job \in Jobs
      /\ call'[k].job = call[k].job /\ exec'[call[k].job].owner = k
      /\ call[k].pc \in Entered \/ TryStart(k) \/ Takeover(k)
    BY EntersByTaking DEF OwnershipInv, TypeOK, InvocationRecord
<1>b. call[k].pc \in Entered /\ exec[call[k].job].owner = k
         => exec[call[k].job].status = "running"
    BY DEF OwnershipInv, OwnerSeesRunning, Owned, Row
<1>c. \A i \in Invocations : call[i].job \in Jobs /\ exec[call[i].job] \in ExecutionRecord
    BY <1>a DEF TypeOK, InvocationRecord
<1>1. ASSUME TryStart(k) \/ Takeover(k) PROVE Q
  <2>1. exec'[call[k].job] = [status |-> "running", owner |-> k, lease |-> LeaseTicks]
    BY <1>1, <1>a, RowFields DEF TryStart, Takeover, TakeRow
  <2> QED
    BY <2>1
<1>d. ASSUME call[k].pc \in Entered PROVE Q
  <2>1. ASSUME NEW i \in Invocations, Takes(i) PROVE Q
    <3>1. CASE call[k].job = call[i].job
      <4>1. exec'[call[i].job] = [status |-> "running", owner |-> i, lease |-> LeaseTicks]
        BY <2>1, <1>a, <1>c, RowFields DEF Takes, TakeRow
      <4> QED
        BY <3>1, <4>1
    <3>2. CASE call[k].job # call[i].job
      <4>1. exec'[call[k].job] = exec[call[k].job]
        BY <2>1, <3>2, <1>a, <1>c, RowFields DEF Takes, TakeRow
      <4> QED
        BY <4>1, <1>d, <1>a, <1>b
    <3> QED
      BY <3>1, <3>2
  <2>2. CASE UNCHANGED exec
    BY <1>d, <2>2, <1>a, <1>b
  <2>3. ASSUME NEW i \in Invocations, Finalize(i) PROVE Q
    <3>1. CASE UNCHANGED exec
      BY <3>1, <2>2
    <3> DEFINE r == [exec[call[i].job] EXCEPT !.status = StatusOf(call[i].outcome),
                                              !.lease = NullLease]
    <3>2. CASE Owned(i) /\ exec' = [exec EXCEPT ![call[i].job] = r]
      <4>1. r.owner = i
        BY <3>2, <1>c DEF ExecutionRecord, Owned, Row
      <4>2. call'[i].pc = "done"
        BY <2>3, <1>a, CallFields DEF Finalize
      <4>3. k # i
        BY <4>2 DEF Entered
      <4>4. call[k].job # call[i].job
        BY <3>2, <4>1, <4>3, <1>a, <1>c, RowFields
      <4>5. exec'[call[k].job] = exec[call[k].job]
        BY <3>2, <4>4, <1>a, <1>c, RowFields
      <4> QED
        BY <4>5, <1>d, <1>a, <1>b
    <3> QED
      BY <2>3, <3>1, <3>2 DEF Finalize
  <2>4. ASSUME NEW i \in Invocations, Renewable(i), Renew(i) PROVE Q
    <3> DEFINE r == [exec[call[i].job] EXCEPT !.lease = LeaseTicks]
    <3>1. r.status = exec[call[i].job].status /\ r.owner = exec[call[i].job].owner
      BY <1>c DEF ExecutionRecord
    <3>2. exec' = [exec EXCEPT ![call[i].job] = r]
      BY <2>4 DEF Renew
    <3>3. /\ exec'[call[k].job].status = exec[call[k].job].status
          /\ exec'[call[k].job].owner = exec[call[k].job].owner
      BY <3>1, <3>2, <1>a, <1>c, RowFields
    <3> QED
      BY <3>3, <1>d, <1>a, <1>b
  <2>5. ASSUME NEW j \in Jobs, Purge(j) PROVE Q
    <3>1. CASE call[k].job = j
      <4>1. exec'[j] = NoRow
        BY <2>5, <1>a, RowFields DEF Purge
      <4> QED
        BY <3>1, <4>1, <1>a, OwnerAssumption DEF NoRow
    <3>2. CASE call[k].job # j
      BY <3>2, <2>5, <1>d, <1>a, <1>b, RowFields DEF Purge
    <3> QED
      BY <3>1, <3>2
  <2>6. CASE Tick
    BY <2>6, <1>d, <1>a, <1>b, RowFields
  <2> QED
    BY <2>1, <2>2, <2>3, <2>4, <2>5, <2>6, RowSteps
<1> QED
    BY <1>1, <1>d, <1>a

LEMMA OwnershipCorrect == Spec => []OwnershipInv
<1>1. OwnershipInv /\ [Next]_vars => OwnershipInv'
    BY NextTypeOK, NextLease, NextOwner DEF OwnershipInv
<1> QED
    BY InitOwnership, <1>1, PTL DEF Spec

\* However requests, heartbeats and purges interleave, a row has a lease exactly
\* while it is running: handleExisting never meets a running row that it can
\* neither report nor take over.
THEOREM LeaseTheorem == Spec => []LeaseWhileRunning
BY OwnershipCorrect, PTL DEF OwnershipInv

\* An invocation that is inside a row it owns finds it running.
THEOREM OwnerTheorem == Spec => []OwnerSeesRunning
BY OwnershipCorrect, PTL DEF OwnershipInv

\* A recorded success is never overwritten, by a late worker or by a retry.
THEOREM SuccessTheorem == Spec => SuccessIsFinal
<1>1. ASSUME OwnershipInv, [Next]_vars, NEW m \in Jobs, exec[m].status = "succeeded"
      PROVE  exec'[m] \in {exec[m], NoRow}
  <2>a. TypeOK /\ exec[m].lease = NullLease
    BY <1>1 DEF OwnershipInv, LeaseWhileRunning
  <2>b. \A i \in Invocations : call[i].job \in Jobs
    BY <2>a DEF TypeOK, InvocationRecord
  <2>c. ASSUME NEW j \in Jobs, NEW r, exec' = [exec EXCEPT ![j] = r], j # m
        PROVE  exec'[m] = exec[m]
    BY <2>a, <2>c, RowFields
  <2>1. CASE UNCHANGED exec
    BY <2>1
  <2>2. ASSUME NEW i \in Invocations, Takes(i) PROVE exec'[m] = exec[m]
    <3>1. call[i].job # m
      BY <2>2, <1>1 DEF Takes, Takeable, Row
    <3> QED
      BY <3>1, <2>2, <2>b, <2>c DEF Takes, TakeRow
  <2>3. ASSUME NEW i \in Invocations, Finalize(i) PROVE exec'[m] = exec[m]
    <3>1. CASE UNCHANGED exec
      BY <3>1
    <3>2. CASE Owned(i)
      <4>1. call[i].job # m
        BY <2>3, <3>2, <1>1 DEF Finalize, OwnershipInv, OwnerSeesRunning, Row, Entered
      <4> QED
        BY <2>3, <4>1, <3>1, <2>b, <2>c DEF Finalize
    <3> QED
      BY <2>3, <3>1, <3>2 DEF Finalize
  <2>4. ASSUME NEW i \in Invocations, Renewable(i), Renew(i) PROVE exec'[m] = exec[m]
    <3>1. call[i].job # m
      BY <2>4, <1>1 DEF Renewable, Row
    <3> QED
      BY <3>1, <2>4, <2>b, <2>c DEF Renew
  <2>5. ASSUME NEW j \in Jobs, Purge(j) PROVE exec'[m] \in {exec[m], NoRow}
    BY <2>5, <2>a, RowFields DEF Purge
  <2>6. CASE Tick
    BY <2>6, <2>a DEF Tick, Live, NullLease
  <2> QED
    BY <1>1, <2>1, <2>2, <2>3, <2>4, <2>5, <2>6, RowSteps
<1>2. OwnershipInv /\ [Next]_vars =>
         [\A j \in Jobs : exec[j].status = "succeeded"
                          => exec'[j] \in {exec[j], NoRow}]_vars
    BY <1>1
<1> QED
    BY OwnershipCorrect, <1>2, PTL DEF Spec, SuccessIsFinal
-----------------------------------------------------------------------------
(* Overlapping executions *)

\* The takeover of job m's row after its lease expired, the one step that counts.
Overrun(m) == \E i \in Invocations : /\ Takes(i) /\ call[i].job = m
                                     /\ exec[m].status = "running" /\ exec[m].lease = 0

\* A running row changes hands in no other way.
LEMMA OwnerChanges ==
    ASSUME OwnershipInv, [Next]_vars, NEW m \in Jobs, exec[m].status = "running",
           ~Overrun(m)
    PROVE  exec'[m].owner = exec[m].owner
<1>a. TypeOK /\ \A i \in Invocations :
                   call[i].job \in Jobs /\ exec[call[i].job] \in ExecutionRecord
    BY DEF OwnershipInv, TypeOK, InvocationRecord
<1>b. ASSUME NEW j \in Jobs, NEW r, exec' = [exec EXCEPT ![j] = r],
             j # m \/ r.owner = exec[m].owner
      PROVE  exec'[m].owner = exec[m].owner
    BY <1>a, <1>b, RowFields
<1>1. CASE UNCHANGED exec
    BY <1>1
<1>2. ASSUME NEW i \in Invocations, Takes(i) PROVE exec'[m].owner = exec[m].owner
  <2>1. call[i].job # m
    BY <1>2 DEF Takes, Takeable, Row, Overrun
  <2> QED
    BY <2>1, <1>2, <1>a, <1>b DEF Takes, TakeRow
<1>3. ASSUME NEW i \in Invocations, Finalize(i) PROVE exec'[m].owner = exec[m].owner
  <2> DEFINE r == [exec[call[i].job] EXCEPT !.status = StatusOf(call[i].outcome),
                                            !.lease = NullLease]
  <2>1. r.owner = exec[call[i].job].owner
    BY <1>a DEF ExecutionRecord
  <2>2. CASE exec' = [exec EXCEPT ![call[i].job] = r]
    BY <2>1, <2>2, <1>a, <1>b
  <2>3. CASE UNCHANGED exec
    BY <2>3
  <2> QED
    BY <1>3, <2>2, <2>3 DEF Finalize
<1>4. ASSUME NEW i \in Invocations, Renew(i) PROVE exec'[m].owner = exec[m].owner
  <2> DEFINE r == [exec[call[i].job] EXCEPT !.lease = LeaseTicks]
  <2>1. r.owner = exec[call[i].job].owner
    BY <1>a DEF ExecutionRecord
  <2>2. exec' = [exec EXCEPT ![call[i].job] = r]
    BY <1>4 DEF Renew
  <2> QED
    BY <2>1, <2>2, <1>a, <1>b
<1>5. ASSUME NEW j \in Jobs, Purge(j) PROVE exec'[m].owner = exec[m].owner
    BY <1>5, <1>b DEF Purge
<1>6. CASE Tick
    BY <1>6, <1>a, RowFields
<1> QED
    BY <1>1, <1>2, <1>3, <1>4, <1>5, <1>6, RowSteps

\* overruns counts exactly these takeovers.
LEMMA OverrunsCount ==
    ASSUME TypeOK, [Next]_vars, NEW m \in Jobs
    PROVE  overruns'[m] = IF Overrun(m) THEN overruns[m] + 1 ELSE overruns[m]
<1>a. overruns \in [Jobs -> Nat] /\ \A i \in Invocations : call[i].job \in Jobs
    BY DEF TypeOK, InvocationRecord
<1>1. ASSUME NEW i \in Invocations, Takes(i)
      PROVE  overruns'[m] = IF Overrun(m) THEN overruns[m] + 1 ELSE overruns[m]
  <2>1. CASE call[i].job = m /\ exec[m].status = "running" /\ exec[m].lease = 0
    <3>1. Overrun(m)
      BY <1>1, <2>1 DEF Overrun
    <3>2. overruns' = [overruns EXCEPT ![m] = @ + 1]
      BY <1>1, <2>1 DEF Takes, CountOverrun, Row
    <3> QED
      BY <1>a, <3>1, <3>2
  <2>2. CASE ~(call[i].job = m /\ exec[m].status = "running" /\ exec[m].lease = 0)
    <3>1. overruns'[m] = overruns[m]
      BY <1>1, <1>a, <2>2 DEF Takes, CountOverrun, Row
    <3>2. ~Overrun(m)
      <4>1. SUFFICES ASSUME NEW n \in Invocations, Takes(n), call[n].job = m,
                            exec[m].status = "running", exec[m].lease = 0
                     PROVE  FALSE
        BY DEF Overrun
      <4>2. n # i /\ call[i].job # m
        BY <2>2, <4>1
      <4>3. exec'[m] = [status |-> "running", owner |-> n, lease |-> LeaseTicks]
        BY <4>1, RowFields DEF Takes, TakeRow
      <4>4. exec'[m] = exec[m]
        BY <1>1, <1>a, <4>2, RowFields DEF Takes, TakeRow
      <4>5. LeaseTicks = 0
        BY <4>1, <4>3, <4>4
      <4> QED
        BY <4>5, LeaseAssumption
    <3> QED
      BY <3>1, <3>2
  <2> QED
    BY <2>1, <2>2
<1>2. ASSUME \A i \in Invocations : ~Takes(i)
      PROVE  overruns'[m] = IF Overrun(m) THEN overruns[m] + 1 ELSE overruns[m]
  <2>1. UNCHANGED overruns
    BY <1>2, RowSteps DEF Finalize, Purge, Tick
  <2> QED
    BY <1>2, <2>1 DEF Overrun
<1> QED
    BY <1>1, <1>2

LEMMA DisplacedFinite == \A j \in Jobs : IsFiniteSet(Displaced(j))
<1> TAKE j \in Jobs
<1>1. Displaced(j) \subseteq Invocations
    BY DEF Displaced
<1> QED
    BY <1>1, FiniteAssumption, FS_Subset

\* Only an overrun can displace an invocation, and it displaces one.
LEMMA NextDisplaced ==
    ASSUME OwnershipInv, [Next]_vars, NEW m \in Jobs
    PROVE  IF Overrun(m) THEN Displaced(m)' \subseteq Displaced(m) \cup {exec[m].owner}
                         ELSE Displaced(m)' \subseteq Displaced(m)
<1>1. ASSUME NEW k \in Displaced(m)'
      PROVE  /\ k \in Displaced(m) \/ k = exec[m].owner
             /\ ~Overrun(m) => k \in Displaced(m)
  <2>1. /\ k \in Invocations /\ call'[k].job = m /\ call'[k].pc \in Entered
        /\ exec'[m].owner # k
    BY <1>1 DEF Displaced, Owned, Row
  <2>2. /\ TypeOK /\ call[k].job = m
        /\ call[k].pc \in Entered \/ TryStart(k) \/ Takeover(k)
    BY <2>1, EntersByTaking DEF OwnershipInv
  <2>3. ~TryStart(k) /\ ~Takeover(k)
    <3>1. ASSUME TryStart(k) \/ Takeover(k) PROVE FALSE
      <4>1. exec'[m] = [status |-> "running", owner |-> k, lease |-> LeaseTicks]
        BY <2>2, <3>1, RowFields DEF TryStart, Takeover, TakeRow
      <4> QED
        BY <2>1, <4>1
    <3> QED
      BY <3>1
  <2>4. k \in Displaced(m) \/ k = exec[m].owner
    BY <2>1, <2>2, <2>3 DEF Displaced, Owned, Row
  <2>5. ASSUME ~Overrun(m), k = exec[m].owner PROVE FALSE
    <3>1. exec[m].status = "running"
      BY <2>1, <2>2, <2>3, <2>5 DEF OwnershipInv, OwnerSeesRunning, Owned, Row
    <3> QED
      BY <2>1, <2>5, <3>1, OwnerChanges
  <2> QED
    BY <2>4, <2>5
<1> QED
    BY <1>1

OverlapInv == OwnershipInv /\ OverlapNeedsExpiry

LEMMA NextOverlap == OverlapInv /\ [Next]_vars => OverlapNeedsExpiry'
<1> SUFFICES ASSUME OverlapInv, [Next]_vars, NEW m \in Jobs
             PROVE  Cardinality(Displaced(m)') <= overruns'[m]
    BY DEF OverlapNeedsExpiry
<1>1. /\ OwnershipInv /\ TypeOK /\ IsFiniteSet(Displaced(m))
      /\ overruns[m] \in Nat /\ Cardinality(Displaced(m)) \in Nat
      /\ Cardinality(Displaced(m)) <= overruns[m]
    BY DisplacedFinite, FS_CardinalityType
    DEF OverlapInv, OwnershipInv, OverlapNeedsExpiry, TypeOK
<1>2. CASE Overrun(m)
  <2> DEFINE S == Displaced(m) \cup {exec[m].owner}
  <2>1. IsFiniteSet(S) /\ Cardinality(S) <= Cardinality(Displaced(m)) + 1
                      /\ Cardinality(S) \in Nat
    <3>1. IsFiniteSet(S) /\ Cardinality(S) = IF exec[m].owner \in Displaced(m)
                                             THEN Cardinality(Displaced(m))
                                             ELSE Cardinality(Displaced(m)) + 1
      BY <1>1, FS_AddElement
    <3> QED
      BY <1>1, <3>1
  <2>2. Displaced(m)' \subseteq S
    BY <1>1, <1>2, NextDisplaced
  <2>3. IsFiniteSet(Displaced(m)') /\ Cardinality(Displaced(m)') <= Cardinality(S)
    BY <2>1, <2>2, FS_Subset
  <2>4. Cardinality(Displaced(m)') \in Nat
    BY <2>3, FS_CardinalityType
  <2> QED
    BY <1>1, <1>2, <2>1, <2>3, <2>4, OverrunsCount
<1>3. CASE ~Overrun(m)
  <2>1. Displaced(m)' \subseteq Displaced(m)
    BY <1>1, <1>3, NextDisplaced
  <2>2. IsFiniteSet(Displaced(m)') /\ Cardinality(Displaced(m)') <= Cardinality(Displaced(m))
    BY <1>1, <2>1, FS_Subset
  <2>3. Cardinality(Displaced(m)') \in Nat
    BY <2>2, FS_CardinalityType
  <2> QED
    BY <1>1, <1>3, <2>2, <2>3, OverrunsCount
<1> QED
    BY <1>2, <1>3

\* Executions of one job overlap only because a running row was taken over after
\* its lease expired: displaced invocations never outnumber such takeovers.
THEOREM OverlapTheorem == Spec => []OverlapNeedsExpiry
<1>1. Init => OverlapInv
  <2> SUFFICES ASSUME Init PROVE OverlapNeedsExpiry
    BY InitOwnership DEF OverlapInv
  <2>1. \A j \in Jobs : Displaced(j) = {}
    BY DEF Init, Displaced, Unused, Entered
  <2>2. \A j \in Jobs : overruns[j] = 0
    BY DEF Init
  <2> QED
    BY <2>1, <2>2, FS_EmptySet DEF OverlapNeedsExpiry
<1>2. OverlapInv /\ [Next]_vars => OverlapInv'
    BY NextTypeOK, NextLease, NextOwner, NextOverlap DEF OverlapInv, OwnershipInv
<1> QED
    BY <1>1, <1>2, PTL DEF Spec, OverlapInv
-----------------------------------------------------------------------------
(* Answers *)

\* What invocation record c says happened did happen, when the completed targets
\* are `done` and the requested cancellations `asked`.
Truthful(c, done, asked) ==
    /\ c.signal => asked[c.job]
    /\ c.outcome = "ok" => c.job \in done
    /\ c.outcome = "cancelled" => asked[c.job]
    /\ c.answer = "SUCCEEDED" => c.job \in done
    /\ c.answer = "CANCELLED" => asked[c.job]

TruthInv ==
    /\ TypeOK
    /\ \A j \in Jobs : /\ exec[j].status = "succeeded" => j \in completed
                       /\ exec[j].status = "cancelled" => cancelReq[j]
    /\ \A i \in Invocations : Truthful(call[i], completed, cancelReq)

\* What happened stays so.
LEMMA HistoryGrows ==
    ASSUME TypeOK, [Next]_vars
    PROVE  completed \subseteq completed' /\ \A j \in Jobs : cancelReq[j] => cancelReq'[j]
BY DEF TypeOK, Next, Handler, vars, Receive, TryStart, TryStartFails, HandleExisting,
       HandleExistingFails, Takeover, TakeoverMisses, CheckCancel, TargetReturns, Select,
       Finalize, Heartbeat, HeartbeatAsks, HeartbeatLoses, HeartbeatStops, WatchCancel,
       WatchStops, CallerGone, Crash, RequestCancel, Purge, Tick

LEMMA NextRowsTrue ==
    ASSUME TruthInv, [Next]_vars, NEW m \in Jobs
    PROVE  /\ exec'[m].status = "succeeded" => m \in completed'
           /\ exec'[m].status = "cancelled" => cancelReq'[m]
<1> DEFINE Q == /\ exec'[m].status = "succeeded" => m \in completed'
                /\ exec'[m].status = "cancelled" => cancelReq'[m]
<1>a. /\ TypeOK /\ \A i \in Invocations :
                       call[i].job \in Jobs /\ exec[call[i].job] \in ExecutionRecord
      /\ exec[m].status = "succeeded" => m \in completed
      /\ exec[m].status = "cancelled" => cancelReq[m]
    BY DEF TruthInv, TypeOK, InvocationRecord
<1>b. CASE exec'[m].status = exec[m].status
    BY <1>a, <1>b, HistoryGrows
<1>c. ASSUME NEW j \in Jobs, NEW r, exec' = [exec EXCEPT ![j] = r],
             r.status \notin {"succeeded", "cancelled"} \/ r.status = exec[j].status
      PROVE  Q
  <2>1. CASE j # m
    BY <1>a, <1>b, <1>c, <2>1, RowFields
  <2>2. CASE j = m
    BY <1>a, <1>b, <1>c, <2>2, RowFields
  <2> QED
    BY <2>1, <2>2
<1>1. ASSUME NEW i \in Invocations, Takes(i) PROVE Q
    BY <1>1, <1>a, <1>c DEF Takes, TakeRow
<1>2. ASSUME NEW i \in Invocations, Finalize(i) PROVE Q
  <2> DEFINE r == [exec[call[i].job] EXCEPT !.status = StatusOf(call[i].outcome),
                                            !.lease = NullLease]
  <2>1. r.status = StatusOf(call[i].outcome)
    BY <1>a DEF ExecutionRecord
  <2>2. /\ r.status = "succeeded" => call[i].outcome = "ok"
        /\ r.status = "cancelled" => call[i].outcome = "cancelled"
    BY <2>1 DEF StatusOf
  <2>3. /\ r.status = "succeeded" => call[i].job \in completed
        /\ r.status = "cancelled" => cancelReq[call[i].job]
    BY <2>2 DEF TruthInv, Truthful
  <2>4. CASE exec' = [exec EXCEPT ![call[i].job] = r]
    <3>1. CASE call[i].job # m
      BY <1>a, <1>b, <2>4, <3>1, RowFields
    <3>2. CASE call[i].job = m
      BY <1>a, <2>3, <2>4, <3>2, RowFields, HistoryGrows
    <3> QED
      BY <3>1, <3>2
  <2>5. CASE UNCHANGED exec
    BY <2>5, <1>b
  <2> QED
    BY <1>2, <2>4, <2>5 DEF Finalize
<1>3. ASSUME NEW i \in Invocations, Renew(i) PROVE Q
  <2> DEFINE r == [exec[call[i].job] EXCEPT !.lease = LeaseTicks]
  <2>1. r.status = exec[call[i].job].status
    BY <1>a DEF ExecutionRecord
  <2>2. exec' = [exec EXCEPT ![call[i].job] = r]
    BY <1>3 DEF Renew
  <2> QED
    BY <2>1, <2>2, <1>a, <1>c
<1>4. ASSUME NEW j \in Jobs, Purge(j) PROVE Q
    BY <1>4, <1>c DEF Purge, NoRow
<1>5. CASE Tick
    BY <1>5, <1>a, <1>b, RowFields
<1>6. CASE UNCHANGED exec
    BY <1>6, <1>b
<1> QED
    BY <1>1, <1>2, <1>3, <1>4, <1>5, <1>6, RowSteps

LEMMA NextCallsTrue ==
    ASSUME TruthInv, [Next]_vars, NEW k \in Invocations
    PROVE  Truthful(call'[k], completed', cancelReq')
<1> DEFINE Q == Truthful(call'[k], completed', cancelReq')
<1>a. /\ TypeOK /\ call[k].job \in Jobs
      /\ \A i \in Invocations : /\ call[i] \in InvocationRecord /\ call[i].job \in Jobs
                                /\ Truthful(call[i], completed, cancelReq)
    BY DEF TruthInv, TypeOK, InvocationRecord
<1>b. \A i \in Invocations : Truthful(call[i], completed', cancelReq')
    BY <1>a, HistoryGrows DEF Truthful
<1>c. CASE call'[k] = call[k]
    BY <1>b, <1>c
<1>d. ASSUME NEW i \in Invocations, NEW c, Becomes(i, c),
             c.job = call[i].job, c.answer = call[i].answer,
             c.signal => call[i].signal \/ cancelReq[call[i].job],
             c.outcome = call[i].outcome \/ c.outcome \notin {"ok", "cancelled"}
                \/ (c.outcome = "ok" /\ call[i].job \in completed')
                \/ (c.outcome = "cancelled" /\ cancelReq[call[i].job])
      PROVE  Q
  <2>1. Truthful(c, completed', cancelReq')
    BY <1>a, <1>b, <1>d, HistoryGrows DEF Truthful
  <2>2. call'[k] = c \/ call'[k] = call[k]
    <3>1. call' = [call EXCEPT ![i] = c] /\ DOMAIN call = Invocations
      BY <1>a, <1>d DEF Becomes, TypeOK
    <3> QED
      BY <3>1
  <2> QED
    BY <1>c, <2>1, <2>2
<1>e. ASSUME NEW i \in Invocations, NEW a, Reply(i, a),
             a = "SUCCEEDED" => call[i].job \in completed,
             a = "CANCELLED" => cancelReq[call[i].job]
      PROVE  Q
  <2>1. CASE k # i
    BY <1>c, <1>e, <1>a, <2>1, CallFields
  <2>2. CASE k = i
    BY <1>e, <1>a, <2>2, CallFields, HistoryGrows DEF Truthful
  <2> QED
    BY <2>1, <2>2
<1>f. ASSUME NEW i \in Invocations, NEW pc, call' = [call EXCEPT ![i].pc = pc] PROVE Q
  <2> DEFINE c == [call[i] EXCEPT !.pc = pc]
  <2>1. /\ c.job = call[i].job /\ c.answer = call[i].answer /\ c.signal = call[i].signal
        /\ c.outcome = call[i].outcome
    BY <1>a DEF InvocationRecord
  <2>2. Becomes(i, c)
    BY <1>f DEF Becomes
  <2> QED
    BY <2>1, <2>2, <1>d
<1>1. ASSUME NEW i \in Invocations, Receive(i) PROVE Q
    BY <1>1, <1>e, <1>f DEF Receive
<1>2. ASSUME NEW i \in Invocations, TryStart(i) \/ Takeover(i) PROVE Q
  <2> DEFINE c == [call[i] EXCEPT !.pc = "check", !.beating = TRUE, !.watching = TRUE]
  <2>1. /\ c.job = call[i].job /\ c.answer = call[i].answer /\ c.signal = call[i].signal
        /\ c.outcome = call[i].outcome
    BY <1>a DEF InvocationRecord
  <2>2. Becomes(i, c)
    BY <1>2 DEF TryStart, Takeover, Enter
  <2> QED
    BY <2>1, <2>2, <1>d
<1>3. ASSUME NEW i \in Invocations, TryStartFails(i) \/ TakeoverMisses(i) PROVE Q
    BY <1>3, <1>e, <1>f DEF TryStartFails, TakeoverMisses
<1>4. ASSUME NEW i \in Invocations, HandleExisting(i) PROVE Q
  <2>1. /\ exec[call[i].job].status = "succeeded" => call[i].job \in completed
        /\ exec[call[i].job].status = "cancelled" => cancelReq[call[i].job]
    BY <1>a DEF TruthInv
  <2> QED
    BY <1>4, <2>1, <1>e, <1>f DEF HandleExisting, Row
<1>5. ASSUME NEW i \in Invocations, HandleExistingFails(i) PROVE Q
    BY <1>5, <1>e DEF HandleExistingFails
<1>6. ASSUME NEW i \in Invocations, CheckCancel(i) PROVE Q
  <2> DEFINE c == [call[i] EXCEPT !.pc = "finalize", !.outcome = "cancelled", !.ctxDone = TRUE]
  <2>1. /\ c.job = call[i].job /\ c.answer = call[i].answer /\ c.signal = call[i].signal
        /\ c.outcome = "cancelled"
    BY <1>a DEF InvocationRecord
  <2>2. CASE Becomes(i, c) /\ cancelReq[call[i].job]
    BY <2>1, <2>2, <1>d
  <2> QED
    BY <1>6, <2>2, <1>f DEF CheckCancel
<1>7. ASSUME NEW i \in Invocations, TargetReturns(i) PROVE Q
  <2>1. PICK o \in TargetErrors \cup {"ok"} :
           /\ Becomes(i, [call[i] EXCEPT !.pc = "select", !.outcome = o])
           /\ completed' = IF o = "ok" THEN completed \cup {call[i].job} ELSE completed
    BY <1>7 DEF TargetReturns
  <2> DEFINE c == [call[i] EXCEPT !.pc = "select", !.outcome = o]
  <2>2. /\ c.job = call[i].job /\ c.answer = call[i].answer /\ c.signal = call[i].signal
        /\ c.outcome = o
    BY <1>a DEF InvocationRecord
  <2>3. o \notin {"ok", "cancelled"} \/ (o = "ok" /\ call[i].job \in completed')
    BY <2>1, ErrorsAssumption DEF Errors
  <2> QED
    BY <2>1, <2>2, <2>3, <1>d
<1>8. ASSUME NEW i \in Invocations, Select(i) PROVE Q
  <2>1. PICK o \in Outcomes :
           /\ \/ o = "lost" /\ call[i].lost
              \/ o = "cancelled" /\ call[i].signal
              \/ o = call[i].outcome /\ ~call[i].lost /\ ~call[i].signal
           /\ Becomes(i, [call[i] EXCEPT !.pc = "finalize", !.outcome = o])
    BY <1>8 DEF Select
  <2> DEFINE c == [call[i] EXCEPT !.pc = "finalize", !.outcome = o]
  <2>2. /\ c.job = call[i].job /\ c.answer = call[i].answer /\ c.signal = call[i].signal
        /\ c.outcome = o
    BY <1>a DEF InvocationRecord
  <2>3. o = call[i].outcome \/ o = "lost" \/ (o = "cancelled" /\ cancelReq[call[i].job])
    BY <2>1, <1>a DEF Truthful
  <2> QED
    BY <2>1, <2>2, <2>3, <1>d
<1>9. ASSUME NEW i \in Invocations, Finalize(i) PROVE Q
  <2>1. call[i].outcome \in Outcomes \cup {"none"}
    BY <1>a DEF InvocationRecord
  <2>2. /\ AnswerOf(call[i].outcome) = "SUCCEEDED" => call[i].outcome = "ok"
        /\ AnswerOf(call[i].outcome) = "CANCELLED" => call[i].outcome = "cancelled"
    BY <2>1 DEF AnswerOf, Outcomes, Errors
  <2>3. Truthful(call[i], completed, cancelReq)
    BY <1>a
  <2> QED
    BY <1>9, <2>2, <2>3, <1>e DEF Finalize, Truthful
<1>10. ASSUME NEW i \in Invocations, NEW b, call' = [call EXCEPT ![i].asking = b] PROVE Q
  <2> DEFINE c == [call[i] EXCEPT !.asking = b]
  <2>1. /\ c.job = call[i].job /\ c.answer = call[i].answer /\ c.signal = call[i].signal
        /\ c.outcome = call[i].outcome
    BY <1>a DEF InvocationRecord
  <2>2. Becomes(i, c)
    BY <1>10 DEF Becomes
  <2> QED
    BY <2>1, <2>2, <1>d
<1>11. ASSUME NEW i \in Invocations, HeartbeatAsks(i) PROVE Q
  <2> DEFINE c == [call[i] EXCEPT !.signal = Pending(i), !.beating = FALSE,
                                  !.asking = FALSE, !.ctxDone = TRUE]
  <2>1. c.job = call[i].job /\ c.answer = call[i].answer /\ c.outcome = call[i].outcome
    BY <1>a DEF InvocationRecord
  <2>2. CASE Becomes(i, c) /\ cancelReq[call[i].job]
    BY <2>1, <2>2, <1>d
  <2> QED
    BY <1>10, <1>11, <2>2 DEF HeartbeatAsks
<1>12. ASSUME NEW i \in Invocations, HeartbeatLoses(i) PROVE Q
  <2> DEFINE c == [call[i] EXCEPT !.lost = Pending(i), !.beating = FALSE, !.ctxDone = TRUE]
  <2>1. /\ c.job = call[i].job /\ c.answer = call[i].answer /\ c.signal = call[i].signal
        /\ c.outcome = call[i].outcome
    BY <1>a DEF InvocationRecord
  <2> QED
    BY <1>12, <2>1, <1>d DEF HeartbeatLoses
<1>13. ASSUME NEW i \in Invocations, WatchCancel(i) PROVE Q
  <2> DEFINE c == [call[i] EXCEPT !.signal = Pending(i), !.watching = FALSE, !.ctxDone = TRUE]
  <2>1. c.job = call[i].job /\ c.answer = call[i].answer /\ c.outcome = call[i].outcome
    BY <1>a DEF InvocationRecord
  <2> QED
    BY <1>13, <2>1, <1>d DEF WatchCancel
<1>14. ASSUME NEW i \in Invocations, HeartbeatStops(i) \/ WatchStops(i) \/ CallerGone(i)
       PROVE  Q
  <2>1. /\ call'[k].job = call[k].job /\ call'[k].answer = call[k].answer
        /\ call'[k].outcome = call[k].outcome
    BY <1>14, <1>a DEF HeartbeatStops, WatchStops, CallerGone, InvocationRecord, TypeOK
  <2>2. call'[k].signal = call[k].signal
    BY <1>14, <1>a DEF HeartbeatStops, WatchStops, CallerGone, InvocationRecord, TypeOK
  <2> QED
    BY <2>1, <2>2, <1>b DEF Truthful
<1>15. ASSUME NEW i \in Invocations, Crash(i) PROVE Q
  <2> DEFINE c == [Unused(call[i].job) EXCEPT !.pc = "done"]
  <2>1. c.job = call[i].job /\ c.answer = "none" /\ c.signal = FALSE /\ c.outcome = "none"
    BY DEF Unused
  <2>2. Truthful(c, completed', cancelReq')
    BY <2>1 DEF Truthful
  <2>3. call'[k] = c \/ call'[k] = call[k]
    <3>1. call' = [call EXCEPT ![i] = c] /\ DOMAIN call = Invocations
      BY <1>a, <1>15 DEF Becomes, TypeOK, Crash
    <3> QED
      BY <3>1
  <2> QED
    BY <2>2, <2>3, <1>c
<1>16. CASE UNCHANGED call
    BY <1>16, <1>c
<1> QED
    BY <1>1, <1>2, <1>3, <1>4, <1>5, <1>6, <1>7, <1>8, <1>9, <1>10, <1>12, <1>13, <1>14,
       <1>15, <1>16, <1>11
    DEF Next, Handler, vars, Heartbeat, RequestCancel, Purge, Tick

\* An answer SUCCEEDED means that the target method returned a result, an answer
\* CANCELLED that a cancellation was asked for.
THEOREM AnswersTheorem == Spec => []AnswersAreTrue
<1>1. Init => TruthInv
  <2> SUFFICES ASSUME Init PROVE TruthInv
    OBVIOUS
  <2>1. TypeOK
    BY InitTypeOK
  <2>2. \A j \in Jobs : exec[j].status = "absent"
    BY DEF Init, NoRow
  <2>3. \A i \in Invocations : Truthful(call[i], completed, cancelReq)
    BY DEF Init, Unused, Truthful
  <2> QED
    BY <2>1, <2>2, <2>3 DEF TruthInv
<1>2. TruthInv /\ [Next]_vars => TruthInv'
    BY NextTypeOK, NextRowsTrue, NextCallsTrue DEF TruthInv
<1>3. TruthInv => AnswersAreTrue
    BY DEF TruthInv, Truthful, AnswersAreTrue
<1> QED
    BY <1>1, <1>2, <1>3, PTL DEF Spec
=============================================================================
