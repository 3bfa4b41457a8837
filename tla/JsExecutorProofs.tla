---------------------------- MODULE JsExecutorProofs ----------------------------
(***************************************************************************)
(* Theorems about JsExecutor, for any set of goroutines and any number of   *)
(* calls, whether or not a start may fail.                                  *)
(***************************************************************************)
EXTENDS JsExecutor, TLAPS

StartPcs  == {"warmup", "startEnd"}
ReloadPcs == {"reloadPool", "reloadThreads", "reloadEnd"}
StopPcs   == {"stopPool", "stopThreads", "stopEnd"}
WorkPcs   == StartPcs \cup ReloadPcs \cup StopPcs

\* The executor's state names what the one working goroutine is doing.
OwnerInv ==
  /\ \A c, d \in Callers : caller[c].pc \in WorkPcs /\ caller[d].pc \in WorkPcs => c = d
  /\ \A c \in Callers :
       /\ caller[c].pc \in StartPcs => state = "starting"
       /\ caller[c].pc \in ReloadPcs => state = "reloading"
       /\ caller[c].pc \in StopPcs => state = "stopping" /\ stopRequested

Cold    == poolState = "cold" /\ once = Nobody
Warm    == poolState = "running" /\ once = Nobody
Closing == poolState = "stopping" /\ once = Nobody /\ stopRequested
Gone    == poolState \in {"cold", "stopped"}

\* What the pool is in each state of the executor.
PoolInv ==
  /\ state = "new" => Cold
  /\ state = "running" => Warm
  /\ state = "stopped" => Gone
  /\ \A c \in Callers :
       /\ caller[c].pc = "warmup" => Cold
       /\ caller[c].pc = "startEnd" => IF caller[c].err THEN Cold ELSE Warm
       /\ caller[c].pc \in ReloadPcs => Warm \/ Closing
       /\ caller[c].pc = "stopPool" => once = Nobody
       /\ caller[c].pc = "stopThreads" => once = c
       /\ caller[c].pc = "stopEnd" => poolState = "stopped"

\* A stop that was answered, or whose channel is closed, has taken place.
StopInv ==
  /\ closed # {} => state = "stopped"
  /\ \A c \in Callers :
       caller[c].op = "Stop" /\ caller[c].answer = "ok" => state = "stopped"

\* While a stop is waited for somebody works, and will find the request.
WaitInv ==
  \A c \in Callers :
    caller[c].pc = "await" =>
      /\ caller[c].wait # 0
      /\ caller[c].wait \notin closed \cup abandoned =>
           /\ caller[c].wait = stopDone
           /\ stopRequested
           /\ state \in {"starting", "reloading", "stopping"}

\* In these states somebody works.
WorkInv ==
  state \in {"starting", "reloading", "stopping"} => \E c \in Callers : caller[c].pc \in WorkPcs

IInv == TypeOK /\ OwnerInv /\ PoolInv /\ StopInv /\ WorkInv /\ WaitInv

-----------------------------------------------------------------------------
(* Types.                                                                     *)

\* The initial state is typed.
LEMMA InitTypeOK == Init => TypeOK
<1>1. Idle("none", "none") \in CallRecord
  BY DEF Idle, CallRecord, Pcs, Answers
<1>2. Init => caller \in [Callers -> CallRecord]
  BY <1>1 DEF Init
<1>3. Init => /\ state \in States /\ stopRequested \in BOOLEAN
              /\ poolState \in PoolStates
  BY DEF Init, States, PoolStates
<1>4. Init => /\ channels \in Nat /\ stopDone \in 0..channels /\ closed \subseteq 1..channels
              /\ stopDone \notin closed /\ abandoned \subseteq 1..channels
              /\ calls \in 0..MaxCalls
  BY CallsAssumption DEF Init
<1> QED
  BY <1>2, <1>3, <1>4 DEF Init, TypeOK

\* The records a step may give to a goroutine.
LEMMA CallRecords ==
  /\ \A op \in {"Start", "Stop", "Reload"}, a \in Answers : Idle(op, a) \in CallRecord
  /\ \A op \in {"Start", "Stop", "Reload"}, pc \in Pcs :
       [Idle(op, "none") EXCEPT !.pc = pc] \in CallRecord
  /\ \A w \in Nat : [Idle("Stop", "none") EXCEPT !.pc = "await", !.wait = w] \in CallRecord
  /\ \A r \in CallRecord, pc \in Pcs, err \in BOOLEAN :
       /\ [r EXCEPT !.pc = pc] \in CallRecord
       /\ [r EXCEPT !.pc = pc, !.err = err] \in CallRecord
<1>1. \A op \in {"Start", "Stop", "Reload"}, a \in Answers : Idle(op, a) \in CallRecord
  BY DEF CallRecord, Idle, Pcs
<1>2. \A r \in CallRecord, pc \in Pcs, err \in BOOLEAN :
        /\ [r EXCEPT !.pc = pc] \in CallRecord
        /\ [r EXCEPT !.pc = pc, !.err = err] \in CallRecord
  BY DEF CallRecord
<1>3. \A r \in CallRecord, pc \in Pcs, w \in Nat :
        [r EXCEPT !.pc = pc, !.wait = w] \in CallRecord
  BY DEF CallRecord
<1> QED
  BY <1>1, <1>2, <1>3 DEF Pcs, Answers

\* The executor's own fields, apart from the goroutines'.
ControlOK ==
  /\ state \in States /\ stopRequested \in BOOLEAN
  /\ channels \in Nat /\ stopDone \in 0..channels /\ closed \subseteq 1..channels
  /\ stopDone \notin closed
  /\ poolState \in PoolStates /\ poolMu \in Callers \cup {Nobody}
  /\ once \in Callers \cup {Nobody}
  /\ calls \in 0..MaxCalls /\ abandoned \subseteq 1..channels

\* A step leaves every goroutine in a call or idle.
LEMMA NextCallerOK ==
  ASSUME TypeOK, [Next]_vars PROVE caller' \in [Callers -> CallRecord]
<1> DEFINE CallerOK == caller \in [Callers -> CallRecord]
<1>0. CallerOK /\ ControlOK /\ (\A c \in Callers : caller[c] \in CallRecord)
  BY DEF TypeOK, ControlOK
<1>a. \A c \in Callers, r \in CallRecord : caller' = [caller EXCEPT ![c] = r] => CallerOK'
  BY <1>0
<1>b. \A c \in Callers, pc \in Pcs : caller' = [caller EXCEPT ![c].pc = pc] => CallerOK'
  <2> SUFFICES ASSUME NEW c \in Callers, NEW pc \in Pcs, caller' = [caller EXCEPT ![c].pc = pc]
               PROVE  CallerOK'
    OBVIOUS
  <2>1. caller' = [caller EXCEPT ![c] = [caller[c] EXCEPT !.pc = pc]]
    OBVIOUS
  <2> QED
    BY <2>1, <1>0, <1>a, CallRecords
<1>c. \A c \in Callers, pc \in Pcs, err \in BOOLEAN :
        caller' = [caller EXCEPT ![c].pc = pc, ![c].err = err] => CallerOK'
  <2> SUFFICES ASSUME NEW c \in Callers, NEW pc \in Pcs, NEW err \in BOOLEAN,
                      caller' = [caller EXCEPT ![c].pc = pc, ![c].err = err]
               PROVE  CallerOK'
    OBVIOUS
  <2>1. caller' = [caller EXCEPT ![c] = [caller[c] EXCEPT !.pc = pc, !.err = err]]
    BY <1>0
  <2> QED
    BY <2>1, <1>0, <1>a, CallRecords
<1>1. ASSUME NEW c \in Callers, Start(c) PROVE CallerOK'
  <2>1. state \in {"stopping", "stopped"} => state \in Answers
    BY DEF Answers
  <2> QED
    BY <1>1, <1>a, <2>1, CallRecords DEF Start, At, Return, Pcs, PoolPcs, Answers
<1>2. ASSUME NEW c \in Callers, Stop(c) PROVE CallerOK'
  <2>1. stopDone' \in Nat
    BY <1>2, <1>0 DEF Stop, EnsureStopDone, ControlOK, control
  <2> QED
    BY <1>2, <1>a, <2>1, CallRecords DEF Stop, At, WaitOn, Return, Pcs, PoolPcs, Answers
<1>3. ASSUME NEW c \in Callers, Reload(c) PROVE CallerOK'
  <2>1. state \in {"reloading", "stopping", "stopped"} => state \in Answers
    BY DEF Answers
  <2> QED
    BY <1>3, <1>a, <2>1, CallRecords DEF Reload, At, Return, Pcs, PoolPcs, Answers
<1>4. ASSUME NEW c \in Callers, Progress(c) PROVE CallerOK'
  <2> USE DEF Pcs, PoolPcs
  <2>1. ASSUME Warmup(c) PROVE CallerOK'
    <3>1. StartErrors \subseteq BOOLEAN
      BY FailAssumption, <1>0 DEF StartErrors, ControlOK, PoolStates
    <3> QED
      BY <2>1, <3>1, <1>c DEF Warmup, GotoWith
  <2>2. ASSUME StartEnd(c) PROVE CallerOK'
    BY <2>2, <1>a, <1>b, CallRecords DEF StartEnd, StopInstead, Goto, Return, Answers
  <2>3. ASSUME Await(c) PROVE CallerOK'
    BY <2>3, <1>a, CallRecords DEF Await, Return, Answers
  <2>4. ASSUME StopPool(c) \/ StopThreads(c) PROVE CallerOK'
    BY <2>4, <1>b DEF StopPool, StopThreads, Goto
  <2>5. ASSUME StopEnd(c) PROVE CallerOK'
    <3>1. \A op \in {"none", "Start", "Stop", "Reload"}, a \in Answers : Idle(op, a) \in CallRecord
      BY DEF Idle, CallRecord
    <3>2. caller[c].op \in {"none", "Start", "Stop", "Reload"}
      BY <1>0 DEF CallRecord
    <3> QED
      BY <2>5, <3>1, <3>2, <1>a DEF StopEnd, Return, Answers
  <2>6. ASSUME ReloadPool(c) \/ ReloadThreads(c) PROVE CallerOK'
    BY <2>6, <1>b, <1>c DEF ReloadPool, ReloadThreads, Goto, GotoWith
  <2>7. ASSUME ReloadEnd(c) PROVE CallerOK'
    BY <2>7, <1>a, <1>b, CallRecords DEF ReloadEnd, StopInstead, Goto, Return, Answers
  <2> QED
    BY <1>4, <2>1, <2>2, <2>3, <2>4, <2>5, <2>6, <2>7 DEF Progress
<1>5. CASE UNCHANGED vars
  BY <1>5, <1>0 DEF vars
<1> QED
  BY <1>1, <1>2, <1>3, <1>4, <1>5 DEF Next

\* A step keeps the types of the executor's own fields.
LEMMA NextControlOK == TypeOK /\ [Next]_vars => ControlOK'
<1> SUFFICES ASSUME TypeOK, [Next]_vars PROVE ControlOK'
  OBVIOUS
<1> DEFINE FlagsOK    == stopRequested \in BOOLEAN
           NamesOK    == /\ state \in States /\ poolState \in PoolStates
                         /\ poolMu \in Callers \cup {Nobody} /\ once \in Callers \cup {Nobody}
           ChannelsOK == /\ channels \in Nat /\ stopDone \in 0..channels
                         /\ closed \subseteq 1..channels /\ stopDone \notin closed
                         /\ abandoned \subseteq 1..channels
           CallsOK    == calls \in 0..MaxCalls
           Parts      == FlagsOK /\ NamesOK /\ ChannelsOK /\ CallsOK
<1>0. Parts
  BY DEF TypeOK
<1>f. FlagsOK'
  BY <1>0, ZenonT(60)
     DEF Next, Progress, Start, Stop, Reload, Warmup, StartEnd, Await, StopPool, StopThreads,
         StopEnd, ReloadPool, ReloadThreads, ReloadEnd, StopInstead, CompleteStop, control, pool,
         vars
<1> DEFINE RestOK == NamesOK /\ ChannelsOK /\ CallsOK
<1> USE CallsAssumption DEF States, PoolStates
<1>1. ASSUME NEW c \in Callers, Start(c) PROVE RestOK'
  <2>1. NamesOK'
    BY <1>0, <1>1 DEF Start, pool, control
  <2>2. ChannelsOK'
    BY <1>0, <1>1 DEF Start, Enter, control
  <2>3. CallsOK'
    BY <1>0, <1>1 DEF Start, Enter
  <2> QED
    BY <2>1, <2>2, <2>3
<1>2. ASSUME NEW c \in Callers, Stop(c) PROVE RestOK'
  <2>1. NamesOK'
    BY <1>0, <1>2 DEF Stop, control
  <2>2. ChannelsOK'
    <3>1. abandoned' = abandoned /\ closed' = closed
      BY <1>2 DEF Stop, Enter, control
    <3>2. (UNCHANGED <<stopDone, channels>>) \/ EnsureStopDone
      BY <1>2 DEF Stop, control
    <3> QED
      BY <1>0, <3>1, <3>2 DEF EnsureStopDone
  <2>3. CallsOK'
    BY <1>0, <1>2 DEF Stop, Enter
  <2> QED
    BY <2>1, <2>2, <2>3
<1>3. ASSUME NEW c \in Callers, Reload(c) PROVE RestOK'
  BY <1>0, <1>3 DEF Reload, Enter, pool
<1>4. ASSUME NEW c \in Callers, Progress(c) PROVE RestOK'
  <2>1. ASSUME Warmup(c) PROVE RestOK'
    BY <1>0, <2>1 DEF Warmup, control
  <2>2. ASSUME StartEnd(c) PROVE RestOK'
    <3>1. NamesOK'
      BY <1>0, <2>2 DEF StartEnd, StopInstead, pool
    <3>2. ChannelsOK'
      <4>1. abandoned' \subseteq abandoned \cup ({stopDone} \ {0}) /\ closed' = closed
        BY <2>2 DEF StartEnd, StopInstead
      <4>2. UNCHANGED <<stopDone, channels>> \/ EnsureStopDone
        BY <2>2 DEF StartEnd, StopInstead
      <4> QED
        BY <1>0, <4>1, <4>2 DEF EnsureStopDone
    <3>3. CallsOK'
      BY <1>0, <2>2 DEF StartEnd
    <3> QED
      BY <3>1, <3>2, <3>3
  <2>3. ASSUME Await(c) PROVE RestOK'
    BY <1>0, <2>3 DEF Await, pool, control
  <2>4. ASSUME StopPool(c) \/ StopThreads(c) PROVE RestOK'
    BY <1>0, <2>4 DEF StopPool, StopThreads, control
  <2>5. ASSUME StopEnd(c) PROVE RestOK'
    BY <1>0, <2>5 DEF StopEnd, CompleteStop, pool
  <2>6. ASSUME ReloadPool(c) \/ ReloadThreads(c) PROVE RestOK'
    BY <1>0, <2>6 DEF ReloadPool, ReloadThreads, control
  <2>7. ASSUME ReloadEnd(c) PROVE RestOK'
    <3>1. NamesOK'
      BY <1>0, <2>7 DEF ReloadEnd, StopInstead, pool
    <3>2. ChannelsOK'
      BY <1>0, <2>7 DEF ReloadEnd, StopInstead, EnsureStopDone
    <3>3. CallsOK'
      BY <1>0, <2>7 DEF ReloadEnd
    <3> QED
      BY <3>1, <3>2, <3>3
  <2> QED
    BY <1>4, <2>1, <2>2, <2>3, <2>4, <2>5, <2>6, <2>7 DEF Progress
<1>5. ASSUME UNCHANGED vars PROVE RestOK'
  BY <1>0, <1>5 DEF vars
<1>r. RestOK'
  BY <1>1, <1>2, <1>3, <1>4, <1>5 DEF Next
<1> QED
  BY <1>f, <1>r DEF ControlOK

\* Together: types are inductive.
LEMMA NextTypeOK == TypeOK /\ [Next]_vars => TypeOK'
BY NextCallerOK, NextControlOK DEF TypeOK, ControlOK

\* The executor, its pool and the calls keep their types; in particular stopDone
\* never is a channel that was closed, so none is closed twice.
THEOREM TypeCorrect == Spec => []TypeOK
BY InitTypeOK, NextTypeOK, PTL DEF Spec

-----------------------------------------------------------------------------
(* Who works.                                                                 *)

\* The inductive invariant holds at first.
LEMMA InitIInv == Init => IInv
<1> SUFFICES ASSUME Init PROVE IInv
  OBVIOUS
<1>1. TypeOK
  BY InitTypeOK
<1>2. \A c \in Callers : caller[c] = Idle("none", "none")
  BY DEF Init
<1>3. OwnerInv /\ PoolInv /\ WorkInv /\ WaitInv
  BY <1>2 DEF Init, Idle, OwnerInv, PoolInv, WorkInv, WaitInv, WorkPcs, StartPcs, ReloadPcs,
              StopPcs, Cold
<1>4. StopInv
  BY <1>2 DEF Init, Idle, StopInv
<1> QED
  BY <1>1, <1>3, <1>4 DEF IInv

\* What the operators that move a goroutine do, field by field.
LEMMA Moves ==
  ASSUME TypeOK, NEW c \in Callers
  PROVE  /\ \A r : caller' = [caller EXCEPT ![c] = r] =>
               caller'[c] = r /\ \A d \in Callers \ {c} : caller'[d] = caller[d]
         /\ \A pc : Goto(c, pc) =>
               /\ caller'[c].pc = pc /\ caller'[c].op = caller[c].op
               /\ caller'[c].answer = caller[c].answer /\ caller'[c].err = caller[c].err
               /\ \A d \in Callers \ {c} : caller'[d] = caller[d]
         /\ \A pc, failed : GotoWith(c, pc, failed) =>
               /\ caller'[c].pc = pc /\ caller'[c].op = caller[c].op
               /\ caller'[c].answer = caller[c].answer /\ caller'[c].err = failed
               /\ \A d \in Callers \ {c} : caller'[d] = caller[d]
         /\ \A op, pc : At(c, op, pc) =>
               /\ caller'[c].pc = pc /\ caller'[c].op = op /\ caller'[c].answer = "none"
               /\ \A d \in Callers \ {c} : caller'[d] = caller[d]
         /\ \A op, a : Return(c, op, a) =>
               /\ caller'[c].pc = "idle" /\ caller'[c].op = op /\ caller'[c].answer = a
               /\ \A d \in Callers \ {c} : caller'[d] = caller[d]
         /\ \A w : WaitOn(c, w) =>
               /\ caller'[c].pc = "await" /\ caller'[c].answer = "none" /\ caller'[c].wait = w
               /\ \A d \in Callers \ {c} : caller'[d] = caller[d]
<1>0. caller \in [Callers -> CallRecord] /\ caller[c] \in CallRecord
  BY DEF TypeOK
<1>1. \A r : caller' = [caller EXCEPT ![c] = r] =>
        caller'[c] = r /\ \A d \in Callers \ {c} : caller'[d] = caller[d]
  BY <1>0
<1>2. \A pc : Goto(c, pc) =>
        /\ caller'[c].pc = pc /\ caller'[c].op = caller[c].op
        /\ caller'[c].answer = caller[c].answer /\ caller'[c].err = caller[c].err
        /\ \A d \in Callers \ {c} : caller'[d] = caller[d]
  BY <1>0 DEF Goto, CallRecord
<1>3. \A pc, failed : GotoWith(c, pc, failed) =>
        /\ caller'[c].pc = pc /\ caller'[c].op = caller[c].op
        /\ caller'[c].answer = caller[c].answer /\ caller'[c].err = failed
        /\ \A d \in Callers \ {c} : caller'[d] = caller[d]
  BY <1>0 DEF GotoWith, CallRecord
<1>4. \A op, pc : At(c, op, pc) =>
        /\ caller'[c].pc = pc /\ caller'[c].op = op /\ caller'[c].answer = "none"
        /\ \A d \in Callers \ {c} : caller'[d] = caller[d]
  BY <1>0, <1>1 DEF At, Idle
<1>5. \A op, a : Return(c, op, a) =>
        /\ caller'[c].pc = "idle" /\ caller'[c].op = op /\ caller'[c].answer = a
        /\ \A d \in Callers \ {c} : caller'[d] = caller[d]
  BY <1>0, <1>1 DEF Return, Idle
<1>6. \A w : WaitOn(c, w) =>
        /\ caller'[c].pc = "await" /\ caller'[c].answer = "none" /\ caller'[c].wait = w
        /\ \A d \in Callers \ {c} : caller'[d] = caller[d]
  BY <1>0, <1>1 DEF WaitOn, Idle
<1> QED
  BY <1>1, <1>2, <1>3, <1>4, <1>5, <1>6

\* The same of ReloadPool, whichever way it goes.
LEMMA ReloadPoolMoves ==
  ASSUME TypeOK, NEW c \in Callers, ReloadPool(c)
  PROVE  /\ caller'[c].pc \in {"reloadEnd", "reloadThreads"}
         /\ caller'[c].op = caller[c].op /\ caller'[c].answer = caller[c].answer
         /\ \A d \in Callers \ {c} : caller'[d] = caller[d]
BY Moves, Zenon DEF ReloadPool

\* A call starts to work only where the state says that nobody does.
LEMMA NextOwner == IInv /\ [Next]_vars => OwnerInv'
<1> SUFFICES ASSUME IInv, [Next]_vars PROVE OwnerInv'
  OBVIOUS
<1> USE DEF OwnerInv, WorkPcs, StartPcs, ReloadPcs, StopPcs
<1>0. OwnerInv /\ TypeOK
  BY DEF IInv
<1>1. ASSUME NEW c \in Callers, Start(c) PROVE OwnerInv'
  BY <1>0, <1>1, Moves DEF Start, Enter, control
<1>2. ASSUME NEW c \in Callers, Stop(c) PROVE OwnerInv'
  <2>1. CASE state = "running"
    BY <1>0, <1>2, <2>1, Moves DEF Stop, Enter
  <2>2. CASE state # "running"
    <3>1. /\ caller'[c].pc \in {"idle", "await"}
          /\ \A d \in Callers \ {c} : caller'[d] = caller[d]
      BY <1>0, <1>2, <2>2, Moves DEF Stop
    <3>2. state \in {"starting", "reloading", "stopping"} => state' = state
      BY <1>2 DEF Stop, control
    <3>3. state = "stopping" /\ stopRequested => stopRequested'
      BY <1>2, Zenon DEF Stop
    <3> QED
      BY <1>0, <3>1, <3>2, <3>3
  <2> QED
    BY <2>1, <2>2
<1>3. ASSUME NEW c \in Callers, Reload(c) PROVE OwnerInv'
  BY <1>0, <1>3, Moves DEF Reload, Enter
<1>4. ASSUME NEW c \in Callers, Progress(c) PROVE OwnerInv'
  <2>1. CASE Warmup(c)
    BY <1>0, <2>1, Moves DEF Warmup, control
  <2>2. CASE StartEnd(c)
    BY <1>0, <2>2, Moves DEF StartEnd, StopInstead
  <2>3. CASE Await(c)
    BY <1>0, <2>3, Moves DEF Await, control
  <2>4. CASE StopPool(c) \/ StopThreads(c)
    BY <1>0, <2>4, Moves DEF StopPool, StopThreads, control
  <2>5. CASE StopEnd(c)
    BY <1>0, <2>5, Moves DEF StopEnd, CompleteStop
  <2>6. CASE ReloadPool(c)
    <3>1. /\ caller'[c].pc \in {"reloadEnd", "reloadThreads"}
          /\ \A d \in Callers \ {c} : caller'[d] = caller[d]
      BY <1>0, <2>6, ReloadPoolMoves
    <3> QED
      BY <1>0, <2>6, <3>1 DEF ReloadPool, control
  <2>8. CASE ReloadThreads(c)
    BY <1>0, <2>8, Moves DEF ReloadThreads, control
  <2>7. CASE ReloadEnd(c)
    BY <1>0, <2>7, Moves DEF ReloadEnd, StopInstead
  <2> QED
    BY <1>4, <2>1, <2>2, <2>3, <2>4, <2>5, <2>6, <2>7, <2>8 DEF Progress
<1>5. CASE UNCHANGED vars
  BY <1>0, <1>5 DEF vars
<1> QED
  BY <1>1, <1>2, <1>3, <1>4, <1>5 DEF Next

-----------------------------------------------------------------------------
(* The pool.                                                                  *)

\* The working goroutine alone changes the pool, but for a Stop during a reload.
LEMMA NextPool == IInv /\ [Next]_vars => PoolInv'
<1> SUFFICES ASSUME IInv, [Next]_vars PROVE PoolInv'
  OBVIOUS
<1> USE DEF PoolInv, Cold, Warm, Closing, Gone, ReloadPcs
<1>0. OwnerInv /\ PoolInv /\ TypeOK
  BY DEF IInv
<1>o. \A c \in Callers :
        /\ caller[c].pc \in {"warmup", "startEnd"} => state = "starting"
        /\ caller[c].pc \in ReloadPcs => state = "reloading"
        /\ caller[c].pc \in {"stopPool", "stopThreads", "stopEnd"} =>
             state = "stopping" /\ stopRequested
  BY <1>0 DEF OwnerInv, StartPcs, StopPcs
<1>x. ASSUME NEW c \in Callers, caller[c].pc \in WorkPcs
      PROVE  \A d \in Callers \ {c} : caller[d].pc \notin WorkPcs
  BY <1>0, <1>x DEF OwnerInv
<1>1. ASSUME NEW c \in Callers, Start(c) PROVE PoolInv'
  BY <1>0, <1>o, <1>1, Moves DEF Start, Enter, pool, control
<1>2. ASSUME NEW c \in Callers, Stop(c) PROVE PoolInv'
  <2>1. /\ once' = once
        /\ \A d \in Callers \ {c} : caller'[d] = caller[d]
    BY <1>0, <1>2, Moves DEF Stop
  <2>2. CASE state = "reloading"
    <3>1. poolState' \in {poolState, "stopping"} /\ (poolState # "running" => poolState' = poolState)
      BY <1>2, <2>2 DEF Stop
    <3>2. stopRequested' /\ state' = "reloading" /\ caller'[c].pc = "await"
      BY <1>0, <1>2, <2>2, Moves DEF Stop
    <3> QED
      BY <1>0, <1>o, <2>1, <2>2, <3>1, <3>2
  <2>3. CASE state = "running"
    BY <1>0, <1>o, <1>2, <2>1, <2>3, Moves DEF Stop
  <2>4. CASE state \in {"new", "stopped"}
    BY <1>0, <1>o, <1>2, <2>1, <2>4, Moves DEF Stop, control
  <2>5. CASE state \in {"starting", "stopping"}
    <3>1. poolState' = poolState /\ state' = state
      BY <1>2, <2>5 DEF Stop
    <3>2. caller'[c].pc = "await"
      BY <1>0, <1>2, <2>5, Moves DEF Stop
    <3> QED
      BY <1>0, <1>o, <2>1, <2>5, <3>1, <3>2
  <2> QED
    BY <1>2, <2>2, <2>3, <2>4, <2>5 DEF Stop
<1>3. ASSUME NEW c \in Callers, Reload(c) PROVE PoolInv'
  BY <1>0, <1>o, <1>3, Moves DEF Reload, Enter, pool
<1>4. ASSUME NEW c \in Callers, Progress(c) PROVE PoolInv'
  <2> USE DEF WorkPcs, StartPcs, StopPcs
  <2>1. CASE Warmup(c)
    <3>1. PICK failed \in StartErrors :
            /\ GotoWith(c, "startEnd", failed)
            /\ poolState' = IF failed THEN poolState ELSE "running"
      BY <2>1 DEF Warmup
    <3>2. /\ caller'[c].pc = "startEnd" /\ caller'[c].err = failed
          /\ \A d \in Callers \ {c} : caller'[d] = caller[d]
      BY <1>0, <3>1, Moves
    <3>3. state' = "starting" /\ once' = Nobody /\ poolState = "cold"
      BY <1>0, <1>o, <2>1 DEF Warmup, control
    <3>4. IF caller'[c].err THEN Cold' ELSE Warm'
      BY <3>1, <3>2, <3>3, Zenon
    <3> QED
      BY <1>o, <1>x, <2>1, <3>2, <3>3, <3>4 DEF Warmup, control
  <2>2. CASE StartEnd(c)
    BY <1>0, <1>o, <1>x, <2>2, Moves DEF StartEnd, StopInstead, pool
  <2>3. CASE Await(c)
    BY <1>0, <1>o, <2>3, Moves DEF Await, pool, control
  <2>4. CASE StopPool(c)
    BY <1>0, <1>o, <1>x, <2>4, Moves DEF StopPool, control
  <2>5. CASE StopThreads(c)
    BY <1>0, <1>o, <1>x, <2>5, Moves DEF StopThreads, control
  <2>6. CASE StopEnd(c)
    BY <1>0, <1>o, <1>x, <2>6, Moves DEF StopEnd, CompleteStop, pool
  <2>7. CASE ReloadPool(c)
    BY <1>0, <1>o, <1>x, <2>7, ReloadPoolMoves DEF ReloadPool, control
  <2>8. CASE ReloadThreads(c)
    BY <1>0, <1>o, <1>x, <2>8, Moves DEF ReloadThreads, control
  <2>9. CASE ReloadEnd(c)
    BY <1>0, <1>o, <1>x, <2>9, Moves DEF ReloadEnd, StopInstead, pool
  <2> QED
    BY <1>4, <2>1, <2>2, <2>3, <2>4, <2>5, <2>6, <2>7, <2>8, <2>9 DEF Progress
<1>5. CASE UNCHANGED vars
  BY <1>0, <1>5 DEF vars
<1> QED
  BY <1>1, <1>2, <1>3, <1>4, <1>5 DEF Next

\* Only the end of a stop closes a channel, and nothing leaves "stopped".
LEMMA NextStop == IInv /\ [Next]_vars => StopInv'
<1> SUFFICES ASSUME IInv, [Next]_vars PROVE StopInv'
  OBVIOUS
<1> USE DEF StopInv
<1>0. OwnerInv /\ StopInv /\ TypeOK
  BY DEF IInv
<1>o. \A c \in Callers :
        /\ caller[c].pc \in StartPcs => state = "starting"
        /\ caller[c].pc \in ReloadPcs => state = "reloading"
        /\ caller[c].pc \in StopPcs => state = "stopping"
  BY <1>0 DEF OwnerInv
<1>1. ASSUME NEW c \in Callers, Start(c) PROVE StopInv'
  BY <1>0, <1>1, Moves DEF Start, Enter, pool, control
<1>2. ASSUME NEW c \in Callers, Stop(c) PROVE StopInv'
  BY <1>0, <1>2, Moves DEF Stop, Enter, control
<1>3. ASSUME NEW c \in Callers, Reload(c) PROVE StopInv'
  BY <1>0, <1>3, Moves DEF Reload, Enter, pool
<1>4. ASSUME NEW c \in Callers, Progress(c) PROVE StopInv'
  <2> USE DEF StartPcs, ReloadPcs, StopPcs
  <2>1. CASE Warmup(c)
    BY <1>0, <2>1, Moves DEF Warmup, control
  <2>2. CASE StartEnd(c)
    BY <1>0, <1>o, <2>2, Moves DEF StartEnd, StopInstead, pool
  <2>3. CASE Await(c)
    BY <1>0, <2>3, Moves DEF Await, pool, control
  <2>4. CASE StopPool(c) \/ StopThreads(c)
    BY <1>0, <2>4, Moves DEF StopPool, StopThreads, control
  <2>5. CASE StopEnd(c)
    BY <1>0, <2>5, Moves DEF StopEnd, CompleteStop, pool
  <2>6. CASE ReloadPool(c)
    BY <1>0, <2>6, ReloadPoolMoves DEF ReloadPool, control
  <2>7. CASE ReloadThreads(c)
    BY <1>0, <2>7, Moves DEF ReloadThreads, control
  <2>8. CASE ReloadEnd(c)
    BY <1>0, <1>o, <2>8, Moves DEF ReloadEnd, StopInstead, pool
  <2> QED
    BY <1>4, <2>1, <2>2, <2>3, <2>4, <2>5, <2>6, <2>7, <2>8 DEF Progress
<1>5. CASE UNCHANGED vars
  BY <1>0, <1>5 DEF vars
<1> QED
  BY <1>1, <1>2, <1>3, <1>4, <1>5 DEF Next

-----------------------------------------------------------------------------
(* The waiters.                                                               *)

\* A busy state has its worker.
LEMMA NextWork == IInv /\ [Next]_vars => WorkInv'
<1> SUFFICES ASSUME IInv, [Next]_vars PROVE WorkInv'
  OBVIOUS
<1> USE DEF WorkInv, WorkPcs, StartPcs, ReloadPcs, StopPcs
<1>0. OwnerInv /\ WorkInv /\ TypeOK
  BY DEF IInv
<1>w. \A c \in Callers :
        caller'[c].pc \in WorkPcs => WorkInv'
  OBVIOUS
<1>1. ASSUME NEW c \in Callers, Start(c) PROVE WorkInv'
  BY <1>0, <1>1, Moves DEF Start, Enter, control
<1>2. ASSUME NEW c \in Callers, Stop(c) PROVE WorkInv'
  BY <1>0, <1>2, Moves DEF Stop, Enter, control
<1>3. ASSUME NEW c \in Callers, Reload(c) PROVE WorkInv'
  BY <1>0, <1>3, Moves DEF Reload, Enter
<1>4. ASSUME NEW c \in Callers, Progress(c) PROVE WorkInv'
  <2>1. CASE Warmup(c)
    BY <1>w, <1>0, <2>1, Moves DEF Warmup
  <2>2. CASE StartEnd(c)
    BY <1>0, <2>2, Moves DEF StartEnd, StopInstead
  <2>3. CASE Await(c)
    BY <1>0, <2>3, Moves DEF Await, control
  <2>4. CASE StopPool(c) \/ StopThreads(c)
    BY <1>w, <1>0, <2>4, Moves DEF StopPool, StopThreads
  <2>5. CASE StopEnd(c)
    BY <2>5 DEF StopEnd, CompleteStop
  <2>6. CASE ReloadPool(c)
    BY <1>w, <1>0, <2>6, ReloadPoolMoves
  <2>7. CASE ReloadThreads(c)
    BY <1>w, <1>0, <2>7, Moves DEF ReloadThreads
  <2>8. CASE ReloadEnd(c)
    BY <1>0, <2>8, Moves DEF ReloadEnd, StopInstead
  <2> QED
    BY <1>4, <2>1, <2>2, <2>3, <2>4, <2>5, <2>6, <2>7, <2>8 DEF Progress
<1>5. CASE UNCHANGED vars
  BY <1>0, <1>5 DEF vars
<1> QED
  BY <1>1, <1>2, <1>3, <1>4, <1>5 DEF Next

\* A step keeps WaitInv when it wakes or abandons nobody and makes nobody wait.
LEMMA WaitKept ==
  ASSUME IInv, NEW c \in Callers, caller'[c].pc # "await",
         \A d \in Callers \ {c} : caller'[d] = caller[d],
         closed \subseteq closed', abandoned \subseteq abandoned',
         \A d \in Callers \ {c} :
           caller[d].pc = "await" /\ caller[d].wait \notin closed' \cup abandoned' =>
             /\ stopDone # 0 => stopDone' = stopDone
             /\ stopRequested => stopRequested'
             /\ state' \in {"starting", "reloading", "stopping"}
  PROVE  WaitInv'
BY DEF IInv, WaitInv

\* Waiters keep their channel, their request and a worker.
LEMMA NextWait == IInv /\ [Next]_vars => WaitInv'
<1> SUFFICES ASSUME IInv, [Next]_vars PROVE WaitInv'
  OBVIOUS
<1>0. OwnerInv /\ WorkInv /\ WaitInv /\ TypeOK
  BY DEF IInv
<1>o. \A c \in Callers :
        /\ caller[c].pc \in {"warmup", "startEnd"} => state = "starting"
        /\ caller[c].pc \in {"reloadPool", "reloadThreads", "reloadEnd"} => state = "reloading"
        /\ caller[c].pc \in {"stopPool", "stopThreads", "stopEnd"} =>
             state = "stopping" /\ stopRequested
  BY <1>0 DEF OwnerInv, StartPcs, ReloadPcs, StopPcs
<1>1. ASSUME NEW c \in Callers, Start(c) PROVE WaitInv'
  BY <1>0, <1>1, Moves, WaitKept DEF Start, Enter, control, WaitInv
<1>2. ASSUME NEW c \in Callers, Stop(c) PROVE WaitInv'
  <2>0. \A d \in Callers \ {c} : caller'[d] = caller[d]
    BY <1>0, <1>2, Moves DEF Stop
  <2>1. CASE state \in {"new", "running", "stopped"}
    BY <1>0, <1>2, <2>0, <2>1, Moves, WaitKept DEF Stop, Enter, control, WaitInv
  <2>2. CASE state \in {"starting", "reloading", "stopping"}
    <3>1. /\ caller'[c].pc = "await" /\ caller'[c].wait = stopDone'
          /\ EnsureStopDone /\ state' = state /\ closed' = closed /\ abandoned' = abandoned
      BY <1>0, <1>2, <2>2, Moves DEF Stop, Enter
    <3>2. stopRequested'
      <4>1. state = "stopping" => stopRequested
        BY <1>0 DEF OwnerInv, WorkInv, WorkPcs, StartPcs, ReloadPcs, StopPcs
      <4> QED
        BY <1>2, <2>2, <4>1, Zenon DEF Stop
    <3>3. stopDone' # 0 /\ (stopDone # 0 => stopDone' = stopDone)
      BY <1>0, <3>1 DEF EnsureStopDone, TypeOK
    <3> QED
      BY <1>0, <2>0, <2>2, <3>1, <3>2, <3>3 DEF WaitInv
  <2> QED
    BY <1>2, <2>1, <2>2 DEF Stop
<1>3. ASSUME NEW c \in Callers, Reload(c) PROVE WaitInv'
  BY <1>0, <1>3, Moves, WaitKept DEF Reload, Enter, WaitInv
<1>4. ASSUME NEW c \in Callers, Progress(c) PROVE WaitInv'
  <2>1. CASE Warmup(c)
    BY <1>0, <1>o, <2>1, Moves, WaitKept DEF Warmup, control
  <2>2. CASE StartEnd(c)
    BY <1>0, <1>o, <2>2, Moves, WaitKept DEF StartEnd, StopInstead, EnsureStopDone, WaitInv
  <2>3. CASE Await(c)
    BY <1>0, <2>3, Moves, WaitKept DEF Await, control, WaitInv
  <2>4. CASE StopPool(c) \/ StopThreads(c)
    BY <1>0, <1>o, <2>4, Moves, WaitKept DEF StopPool, StopThreads, control
  <2>5. CASE StopEnd(c)
    BY <1>0, <2>5, Moves, WaitKept DEF StopEnd, CompleteStop, WaitInv
  <2>6. CASE ReloadPool(c)
    <3>1. caller'[c].pc # "await" /\ \A d \in Callers \ {c} : caller'[d] = caller[d]
      BY <1>0, <2>6, ReloadPoolMoves
    <3> QED
      BY <1>0, <1>o, <2>6, <3>1, WaitKept DEF ReloadPool, control
  <2>7. CASE ReloadThreads(c)
    BY <1>0, <1>o, <2>7, Moves, WaitKept DEF ReloadThreads, control
  <2>8. CASE ReloadEnd(c)
    BY <1>0, <1>o, <2>8, Moves, WaitKept DEF ReloadEnd, StopInstead, EnsureStopDone, WaitInv
  <2> QED
    BY <1>4, <2>1, <2>2, <2>3, <2>4, <2>5, <2>6, <2>7, <2>8 DEF Progress
<1>5. CASE UNCHANGED vars
  BY <1>0, <1>5 DEF vars, WaitInv
<1> QED
  BY <1>1, <1>2, <1>3, <1>4, <1>5 DEF Next

-----------------------------------------------------------------------------
(* The theorems.                                                              *)

\* The inductive invariant.
LEMMA Invariance == Spec => []IInv
<1>1. IInv /\ [Next]_vars => IInv'
  BY NextTypeOK, NextOwner, NextPool, NextStop, NextWork, NextWait DEF IInv
<1> QED
  BY <1>1, InitIInv, PTL DEF Spec

\* No two goroutines are ever inside an operation of the pool, although none of
\* these operations is made under controlMu.
THEOREM ExclusionTheorem == Spec => []PoolOpsExclusive
<1>1. IInv => PoolOpsExclusive
  BY DEF IInv, OwnerInv, PoolOpsExclusive, PoolPcs, WorkPcs, StartPcs, ReloadPcs, StopPcs
<1> QED
  BY <1>1, Invariance, PTL

\* An executor that admits requests has a pool that runs and was never stopped.
THEOREM RunningTheorem == Spec => []RunningHasPool
<1>1. IInv => RunningHasPool
  BY DEF IInv, PoolInv, Warm, RunningHasPool
<1> QED
  BY <1>1, Invariance, PTL

\* A Start that failed left the pool cold and its stopOnce unused.
THEOREM ColdTheorem == Spec => []FailedStartIsCold
<1>1. IInv => FailedStartIsCold
  BY DEF IInv, PoolInv, Cold, FailedStartIsCold
<1> QED
  BY <1>1, Invariance, PTL

\* When a Stop has answered, the executor is stopped, its pool is too or never
\* ran, and nobody is inside an operation of the pool.
THEOREM StopTheorem == Spec => []StopMeansStopped
<1>1. ASSUME IInv PROVE StopMeansStopped
  <2> SUFFICES ASSUME NEW c \in Callers, caller[c].op = "Stop", caller[c].answer = "ok"
               PROVE  /\ state = "stopped" /\ poolState \in {"cold", "stopped"}
                      /\ \A d \in Callers : caller[d].pc \notin PoolPcs
    BY DEF StopMeansStopped
  <2>1. state = "stopped" /\ poolState \in {"cold", "stopped"}
    BY <1>1 DEF IInv, StopInv, PoolInv, Gone
  <2>2. \A d \in Callers : caller[d].pc \notin WorkPcs
    BY <1>1, <2>1 DEF IInv, OwnerInv, WorkPcs
  <2> QED
    BY <2>1, <2>2 DEF WorkPcs, StartPcs, ReloadPcs, StopPcs, PoolPcs
<1> QED
  BY <1>1, Invariance, PTL

\* A stopped executor and its pool never change their states again.
THEOREM FinalTheorem == Spec => StoppedIsFinal
<1>1. IInv /\ [Next]_vars => [state = "stopped" => UNCHANGED <<state, poolState>>]_vars
  <2> SUFFICES ASSUME IInv, [Next]_vars, state = "stopped" PROVE UNCHANGED <<state, poolState>>
    OBVIOUS
  <2>1. \A c \in Callers : caller[c].pc \notin WorkPcs
    BY DEF IInv, OwnerInv, WorkPcs
  <2>2. ASSUME NEW c \in Callers, Start(c) \/ Stop(c) \/ Reload(c)
        PROVE  UNCHANGED <<state, poolState>>
    BY <2>2 DEF Start, Stop, Reload, control, pool
  <2>3. ASSUME NEW c \in Callers, Progress(c) PROVE UNCHANGED <<state, poolState>>
    BY <2>1, <2>3
       DEF Progress, Warmup, StartEnd, Await, StopPool, StopThreads, StopEnd, ReloadPool,
           ReloadThreads, ReloadEnd, control, pool, WorkPcs, StartPcs, ReloadPcs, StopPcs
  <2> QED
    BY <2>2, <2>3 DEF Next, vars
<1> QED
  BY <1>1, Invariance, PTL DEF Spec, StoppedIsFinal

\* A Stop that waits, on a channel that no failed Start abandoned, waits on the
\* current channel while another goroutine works on the pool and finds its request.
THEOREM WaitersTheorem == Spec => []WaitersAreHeard
<1>1. IInv => WaitersAreHeard
  BY DEF IInv, WaitInv, WorkInv, WorkPcs, StartPcs, ReloadPcs, StopPcs, WaitersAreHeard
<1> QED
  BY <1>1, Invariance, PTL
=============================================================================
