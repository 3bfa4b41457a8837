----------------------------- MODULE JsPoolProofs -----------------------------
(* For any number of requests, threads and reloads, whatever the sizes of the  *)
(* pool: the safety properties that the runs of JsPool check.                  *)
EXTENDS JsPool, FiniteSetTheorems, TLAPS

----------------------------------------------------------------------------
(* Types *)

\* A caller that is to use a thread holds one, a busy thread has its task, threads
\* are made in the order of their ids, and a reload that asks or waits has turned
\* to a thread.
Holding ==
    /\ \A c \in Callers :
          at[c] \in {"enqueue", "send", "wait", "init", "list"} => held[c] \in Threads
    /\ \A t \in Threads : thread[t].pc = "busy" <=> thread[t].now # NoTask
    /\ \A t \in Threads : t > made => thread[t].pc = "unborn"
    /\ reloader.pc \in {"ask", "reply"} => reloader.at \in Threads

Types == TypeOK /\ Holding

ReloaderRecord == [pc : {"idle", "list", "next", "ask", "reply", "end"},
                   all : SUBSET Threads, todo : SUBSET Threads, at : Threads \cup {0},
                   ok : BOOLEAN]
StopperRecord == [pc : {"idle", "requested", "begin", "list", "detach", "leave", "join", "done"},
                  todo : SUBSET Threads, at : Threads \cup {0}]

LEMMA Constants ==
    /\ MinPool \in Nat \ {0} /\ MaxPool \in Nat \ {0} /\ QueueSize \in Nat \ {0}
    /\ CountWidth \in Nat \ {0} /\ MaxThreads \in Nat \ {0}
    /\ MinPool <= MaxPool /\ MinPool <= MaxThreads /\ MaxPool < CountWidth
    /\ SelectAt \in Nat /\ CreateAt \in Nat /\ MaxExecutions \in Nat /\ MaxReloads \in Nat
  BY SizesAssumption

LEMMA ThreadsFinite == \A S \in SUBSET Threads : IsFiniteSet(S) /\ Cardinality(S) \in Nat
<1>1. IsFiniteSet(Threads)
  BY Constants, FS_Interval DEF Threads
<1> QED
  BY <1>1, FS_Subset, FS_CardinalityType

\* The counter stays a uint32.
LEMMA MinusType ==
    ASSUME NEW n \in Nat, count \in 0..(CountWidth - 1)
    PROVE  Minus(n) \in 0..(CountWidth - 1)
  BY Constants DEF Minus

LEMMA InitTypes == Init => Types
<1> SUFFICES ASSUME Init PROVE Types
  OBVIOUS
<1>1. << >> \in Seq(Tasks)
  OBVIOUS
<1>2. Unborn \in ThreadRecord /\ [Unborn EXCEPT !.pc = "ready", !.engine = 1] \in ThreadRecord
  BY <1>1 DEF Unborn, ThreadRecord
<1>3. thread \in [Threads -> ThreadRecord]
  BY <1>2 DEF Init
<1>4. task \in [Tasks -> TaskRecord] /\ at \in [Callers -> Pcs] /\ held \in [Callers -> Threads \cup {0}]
  BY DEF Init, TaskRecord, Pcs
<1>5. 1..MinPool \subseteq Threads /\ MinPool \in 0..(CountWidth - 1) /\ MinPool \in Threads
  BY Constants DEF Threads
<1>6. TypeOK
  <2>1. scripts \in 1..(MaxReloads + 1)
    BY Constants DEF Init
  <2>2. reloader \in ReloaderRecord /\ stopper \in StopperRecord
    BY DEF Init, ReloaderRecord, StopperRecord
  <2>3. /\ executor = "running" /\ poolState = "running" /\ signal \in BOOLEAN
        /\ doomed \subseteq Threads /\ cleanup \subseteq Threads /\ retiring \subseteq Threads
        /\ unmapped \subseteq Threads /\ unlisted \subseteq Threads
    BY DEF Init
  <2>4. /\ stored \subseteq Threads /\ listed \subseteq Threads
        /\ count \in 0..(CountWidth - 1) /\ made \in Threads
    BY <1>5 DEF Init
  <2> QED
    BY <1>3, <1>4, <2>1, <2>2, <2>3, <2>4 DEF TypeOK, ReloaderRecord, StopperRecord
<1>7. Holding
  BY Constants DEF Init, Holding, Unborn, Callers, Threads
<1> QED
  BY <1>6, <1>7 DEF Types

\* The steps of a request that touch no thread.
LEMMA RequestTypes ==
    ASSUME Types, NEW k \in Tasks,
           Execute(k) \/ Select(k) \/ SelectAgain(k) \/ Enqueue(k) \/ Receive(k)
    PROVE  Types'
<1> USE DEF Types
<1>1. k \in Callers
  BY DEF Callers
<1>2. UNCHANGED <<executor, poolState, tables, made, signal, scripts, thread, doomed, cleanup,
                  retiring, reloader, stopper>>
  BY DEF Execute, Select, SelectAgain, Enqueue, Receive
<1>3. \A t \in Candidates(k) : t \in Threads \cup {0}
  BY DEF Candidates, TypeOK
<1>4. task' \in [Tasks -> TaskRecord]
  BY DEF TypeOK, TaskRecord, Execute, Select, SelectAgain, Enqueue, Receive, Answer
<1>5. at' \in [Callers -> Pcs]
  BY <1>1 DEF TypeOK, Pcs, Execute, Select, SelectAgain, Enqueue, Receive, Answer, Hold, Go
<1>6. held' \in [Callers -> Threads \cup {0}]
  BY <1>1, <1>3 DEF TypeOK, Execute, Select, SelectAgain, Enqueue, Receive, Hold
<1>7. TypeOK'
  BY <1>2, <1>4, <1>5, <1>6 DEF TypeOK, tables, leaving
<1>8. \A c \in Callers :
         at'[c] \in {"enqueue", "send", "wait", "init", "list"} => held'[c] \in Threads
  BY <1>1, <1>3 DEF TypeOK, Holding, Execute, Select, SelectAgain, Enqueue, Receive, Answer, Hold, Go
<1> QED
  BY <1>2, <1>7, <1>8 DEF Holding

\* What a step may do to one thread.
LEMMA ThreadIs ==
    ASSUME Types, NEW t \in Threads
    PROVE  /\ thread[t] \in ThreadRecord
           /\ thread[t].pc \in {"unborn", "init", "ready", "busy", "check", "detach", "retire", "dead"}
           /\ thread[t].queue \in Seq(Tasks) /\ thread[t].engine \in Nat /\ thread[t].execs \in Nat
           /\ thread[t].now \in Tasks \cup {NoTask}
           /\ thread[t].now \in Tasks <=> thread[t].pc = "busy"
  BY TasksAssumption DEF Types, TypeOK, Holding, ThreadRecord

\* The thread t becomes r.
SetThread(t, r) == thread' = [thread EXCEPT ![t] = r]

LEMMA SetThreadIs ==
    ASSUME Types, NEW t \in Threads, NEW r \in ThreadRecord, SetThread(t, r),
           r.pc = "busy" <=> r.now # NoTask
    PROVE  /\ thread' \in [Threads -> ThreadRecord]
           /\ \A u \in Threads : thread'[u] = IF u = t THEN r ELSE thread[u]
           /\ (thread[t].pc = "unborn" => r.pc = "unborn") =>
                 \A u \in Threads : thread[u].pc = "unborn" => thread'[u].pc = "unborn"
           /\ \A u \in Threads : thread'[u].pc = "busy" <=> thread'[u].now # NoTask
<1>1. thread \in [Threads -> ThreadRecord]
  BY DEF Types, TypeOK
<1>2. thread' \in [Threads -> ThreadRecord]
      /\ \A u \in Threads : thread'[u] = IF u = t THEN r ELSE thread[u]
  BY <1>1 DEF SetThread
<1> QED
  BY <1>2 DEF Types, Holding

\* The steps of a thread, each as the record it leaves.
Taken(t) == [thread[t] EXCEPT !.pc = "busy", !.now = Head(thread[t].queue),
                              !.queue = Tail(thread[t].queue)]
Finished(t) == [thread[t] EXCEPT !.execs = thread[t].execs + 1, !.now = NoTask,
                  !.pc = IF MaxExecutions > 0 /\ thread[t].execs + 1 >= MaxExecutions
                         THEN "check" ELSE "ready"]
Sent(t, k) == [thread[t] EXCEPT !.queue = Append(thread[t].queue, k)]
Started(t) == [thread[t] EXCEPT !.pc = "ready", !.engine = scripts]
Moved(t, pc) == [thread[t] EXCEPT !.pc = pc]
Told(t, action) == [thread[t] EXCEPT !.inbox = action]
Asked(t) == [thread[t] EXCEPT !.inbox = "reload", !.reply = "none"]
Renewed(t) == [thread[t] EXCEPT !.inbox = "none", !.reply = "ok", !.engine = scripts]
Unchanging(t) == [thread[t] EXCEPT !.inbox = "none", !.reply = "failed"]

LEMMA ThreadSteps ==
    ASSUME Types, NEW t \in Threads
    PROVE  /\ ThreadTake(t) => SetThread(t, Taken(t))
           /\ ThreadFinish(t) => SetThread(t, Finished(t))
           /\ ThreadInit(t) => SetThread(t, Started(t)) \/ SetThread(t, Moved(t, "dead"))
           /\ ThreadCheck(t) => SetThread(t, Moved(t, "detach")) \/ SetThread(t, Moved(t, "ready"))
           /\ ThreadAsk(t) => SetThread(t, Moved(t, "retire"))
           /\ ThreadStop(t) => SetThread(t, Moved(t, "dead"))
           /\ ThreadReload(t) => SetThread(t, Renewed(t)) \/ SetThread(t, Unchanging(t))
           /\ SendStop(t) => SetThread(t, Told(t, "stop")) \/ UNCHANGED thread
<1>1. thread \in [Threads -> ThreadRecord] /\ thread[t] \in ThreadRecord
  BY DEF Types, TypeOK
<1>2. ThreadTake(t) => SetThread(t, Taken(t))
  BY <1>1 DEF ThreadTake, SetThread, Taken, ThreadRecord
<1>3. ThreadFinish(t) => SetThread(t, Finished(t))
  BY <1>1 DEF ThreadFinish, SetThread, Finished, ThreadRecord
<1>4. ThreadInit(t) => SetThread(t, Started(t)) \/ SetThread(t, Moved(t, "dead"))
  BY <1>1 DEF ThreadInit, SetThread, Started, Moved, ThreadRecord
<1>5. ThreadCheck(t) => SetThread(t, Moved(t, "detach")) \/ SetThread(t, Moved(t, "ready"))
  BY <1>1 DEF ThreadCheck, SetThread, Moved, ThreadRecord
<1>9. ThreadAsk(t) => SetThread(t, Moved(t, "retire"))
  BY <1>1 DEF ThreadAsk, SetThread, Moved, ThreadRecord
<1>6. ThreadStop(t) => SetThread(t, Moved(t, "dead"))
  BY <1>1 DEF ThreadStop, SetThread, Moved, ThreadRecord
<1>7. ThreadReload(t) => SetThread(t, Renewed(t)) \/ SetThread(t, Unchanging(t))
  BY <1>1 DEF ThreadReload, SetThread, Renewed, Unchanging, ThreadRecord
<1>8. SendStop(t) => SetThread(t, Told(t, "stop")) \/ UNCHANGED thread
  BY <1>1 DEF SendStop, SetThread, Told, ThreadRecord
<1> QED
  BY <1>2, <1>3, <1>4, <1>5, <1>6, <1>7, <1>8, <1>9

LEMMA CallerThreadSteps ==
    ASSUME Types, NEW c \in Callers
    PROVE  /\ c \in Tasks /\ Send(c) => \/ UNCHANGED thread
                                        \/ held[c] \in Threads /\ SetThread(held[c], Sent(held[c], c))
           /\ CreateCount(c) => \/ UNCHANGED thread
                                \/ made + 1 \in Threads /\ made' = made + 1
                                   /\ SetThread(made + 1, Moved(made + 1, "init"))
<1>1. thread \in [Threads -> ThreadRecord] /\ \A t \in Threads : thread[t] \in ThreadRecord
  BY DEF Types, TypeOK
<1>2. ASSUME c \in Tasks, Send(c)
      PROVE  \/ UNCHANGED thread
             \/ held[c] \in Threads /\ SetThread(held[c], Sent(held[c], c))
  <2>1. held[c] \in Threads
    BY <1>2 DEF Send, Types, Holding
  <2> QED
    BY <1>1, <1>2, <2>1 DEF Send, SetThread, Sent, ThreadRecord
<1>3. ASSUME CreateCount(c)
      PROVE  \/ UNCHANGED thread
             \/ made + 1 \in Threads /\ made' = made + 1
                /\ SetThread(made + 1, Moved(made + 1, "init"))
  <2>1. CASE made < MaxThreads /\ made' = made + 1
             /\ thread' = [thread EXCEPT ![made + 1].pc = "init"]
    <3>1. made + 1 \in Threads
      BY <2>1, Constants DEF Types, TypeOK, Threads
    <3> QED
      BY <1>1, <2>1, <3>1 DEF SetThread, Moved, ThreadRecord
  <2> QED
    BY <1>3, <2>1 DEF CreateCount
<1> QED
  BY <1>2, <1>3

LEMMA RunTypes ==
    ASSUME Types, NEW t \in Threads, Run(t) \/ SendStop(t)
    PROVE  Types'
<1>t. /\ thread[t] \in ThreadRecord
      /\ thread[t].pc \in {"unborn", "init", "ready", "busy", "check", "detach", "retire", "dead"}
      /\ thread[t].queue \in Seq(Tasks) /\ thread[t].engine \in Nat /\ thread[t].execs \in Nat
      /\ thread[t].now \in Tasks \cup {NoTask}
      /\ thread[t].now \in Tasks <=> thread[t].pc = "busy"
  BY ThreadIs
<1>i. thread[t].now = NoTask <=> thread[t].pc # "busy"
  BY <1>t, TasksAssumption
\* What changes besides the thread.
<1>1. /\ UNCHANGED <<executor, poolState, made, scripts, at, held, cleanup, retiring, reloader,
                     stopper>>
      /\ task' \in [Tasks -> TaskRecord] /\ doomed' \subseteq Threads /\ signal' \in BOOLEAN
      /\ stored' \subseteq Threads /\ listed' \subseteq Threads
      /\ unmapped' \subseteq Threads /\ unlisted' \subseteq Threads
      /\ count' \in 0..(CountWidth - 1)
  <2> USE DEF calls, tables, leaving
  <2>1. CASE ThreadCheck(t)
    BY <2>1 DEF ThreadCheck, Unmap, Types, TypeOK
  <2>4. CASE ThreadAsk(t)
    BY <2>4 DEF ThreadAsk, Types, TypeOK
  <2>2. CASE ThreadFinish(t)
    <3>1. thread[t].now \in Tasks /\ task \in [Tasks -> TaskRecord]
      BY <1>t, <2>2 DEF ThreadFinish, Types, TypeOK
    <3>2. task' \in [Tasks -> TaskRecord]
      BY <2>2, <3>1 DEF ThreadFinish, TaskRecord
    <3> QED
      BY <2>2, <3>2 DEF ThreadFinish, Types, TypeOK
  <2>3. CASE ~ThreadCheck(t) /\ ~ThreadAsk(t) /\ ~ThreadFinish(t)
    BY <2>3 DEF Run, ThreadInit, ThreadTake, ThreadStop, ThreadReload, SendStop, Types, TypeOK
  <2> QED
    BY <2>1, <2>2, <2>3, <2>4
<1>2. \/ UNCHANGED thread
      \/ \E r \in ThreadRecord : /\ SetThread(t, r)
                                 /\ r.pc = "busy" <=> r.now # NoTask
                                 /\ thread[t].pc = "unborn" => r.pc = "unborn"
  <2>1. CASE ThreadTake(t)
    <3>1. Head(thread[t].queue) \in Tasks /\ Tail(thread[t].queue) \in Seq(Tasks)
      BY <1>t, <2>1 DEF ThreadTake
    <3>2. Taken(t) \in ThreadRecord /\ Taken(t).pc = "busy" /\ Taken(t).now # NoTask
      BY <1>t, <3>1, TasksAssumption DEF Taken, ThreadRecord
    <3> QED
      BY <2>1, <3>2, ThreadSteps DEF ThreadTake
  <2>2. CASE ThreadFinish(t)
    <3>1. Finished(t) \in ThreadRecord /\ Finished(t).pc # "busy" /\ Finished(t).now = NoTask
      <4> DEFINE pc == IF MaxExecutions > 0 /\ thread[t].execs + 1 >= MaxExecutions
                       THEN "check" ELSE "ready"
      <4>1. pc \in {"check", "ready"} /\ thread[t].execs + 1 \in Nat
        BY <1>t
      <4> HIDE DEF pc
      <4>2. Finished(t) = [thread[t] EXCEPT !.execs = thread[t].execs + 1, !.now = NoTask,
                                            !.pc = pc]
        BY DEF Finished, pc
      <4> QED
        BY <1>t, <4>1, <4>2 DEF ThreadRecord
    <3> QED
      BY <2>2, <3>1, ThreadSteps DEF ThreadFinish
  <2>3. ASSUME NEW pc \in {"dead", "detach", "retire", "ready"}, thread[t].pc \notin {"busy", "unborn"}
        PROVE  /\ Moved(t, pc) \in ThreadRecord /\ Moved(t, pc).pc # "busy"
               /\ Moved(t, pc).now = NoTask
    BY <1>t, <1>i, <2>3 DEF Moved, ThreadRecord
  <2>4. CASE ThreadInit(t)
    <3>1. thread[t].pc \notin {"busy", "unborn"} /\ scripts \in Nat
      BY <2>4, Constants DEF ThreadInit, Types, TypeOK
    <3>2. Started(t) \in ThreadRecord /\ Started(t).pc # "busy" /\ Started(t).now = NoTask
      BY <1>t, <1>i, <3>1 DEF Started, ThreadRecord
    <3> QED
      BY <2>3, <2>4, <3>1, <3>2, ThreadSteps
  <2>5. CASE ThreadCheck(t)
    <3>1. thread[t].pc \notin {"busy", "unborn"}
      BY <2>5 DEF ThreadCheck
    <3> QED
      BY <2>3, <2>5, <3>1, ThreadSteps
  <2>9. CASE ThreadAsk(t)
    <3>1. thread[t].pc \notin {"busy", "unborn"}
      BY <2>9 DEF ThreadAsk
    <3> QED
      BY <2>3, <2>9, <3>1, ThreadSteps
  <2>6. CASE ThreadStop(t)
    <3>1. thread[t].pc \notin {"busy", "unborn"}
      BY <2>6 DEF ThreadStop
    <3> QED
      BY <2>3, <2>6, <3>1, ThreadSteps
  <2>7. CASE ThreadReload(t)
    <3>1. thread[t].pc = "ready" /\ scripts \in Nat
      BY <2>7, Constants DEF ThreadReload, Types, TypeOK
    <3>2. /\ Renewed(t) \in ThreadRecord /\ Renewed(t).pc # "busy" /\ Renewed(t).now = NoTask
          /\ Unchanging(t) \in ThreadRecord /\ Unchanging(t).pc # "busy"
          /\ Unchanging(t).now = NoTask
      BY <1>t, <1>i, <3>1 DEF Renewed, Unchanging, ThreadRecord
    <3> QED
      BY <2>7, <3>1, <3>2, ThreadSteps
  <2>8. CASE SendStop(t)
    <3>1. Told(t, "stop") \in ThreadRecord /\ Told(t, "stop").pc = thread[t].pc
          /\ Told(t, "stop").now = thread[t].now
      BY <1>t DEF Told, ThreadRecord
    <3> QED
      BY <1>i, <2>8, <3>1, ThreadSteps
  <2> QED
    BY <2>1, <2>2, <2>4, <2>5, <2>6, <2>7, <2>8, <2>9 DEF Run
<1>3. /\ thread' \in [Threads -> ThreadRecord]
      /\ \A u \in Threads : thread'[u].pc = "busy" <=> thread'[u].now # NoTask
      /\ \A u \in Threads : thread[u].pc = "unborn" => thread'[u].pc = "unborn"
  BY <1>2, SetThreadIs DEF Types, TypeOK, Holding
<1>4. TypeOK'
  BY <1>1, <1>3 DEF Types, TypeOK
<1> QED
  BY <1>1, <1>3, <1>4 DEF Types, Holding

\* The later steps of detachThread.
LEMMA DetachTypes ==
    ASSUME Types, NEW t \in Threads, Detach(t)
    PROVE  Types'
<1>1. Minus(1) \in 0..(CountWidth - 1)
  BY MinusType DEF Types, TypeOK
<1> QED
  BY <1>1 DEF Detach, Unlist, Uncount, calls, Types, TypeOK, Holding

LEMMA SendTypes ==
    ASSUME Types, NEW k \in Tasks, Send(k)
    PROVE  Types'
<1>1. k \in Callers
  BY DEF Callers
<1>2. /\ UNCHANGED <<executor, poolState, tables, made, signal, scripts, held, doomed, cleanup,
                     retiring, reloader, stopper>>
      /\ at' \in [Callers -> Pcs] /\ task' \in [Tasks -> TaskRecord]
      /\ \A c \in Callers : at'[c] \in {"enqueue", "send", "wait", "init", "list"} =>
                              at[c] \in {"enqueue", "send", "wait", "init", "list"}
  <2>1. at \in [Callers -> Pcs] /\ task \in [Tasks -> TaskRecord] /\ at[k] = "send"
    BY DEF Send, Types, TypeOK
  <2>2. at' = [at EXCEPT ![k] = "wait"] \/ at' = [at EXCEPT ![k] = "done"]
    BY DEF Send, Go, Answer
  <2>3. task' = task \/ task' = [task EXCEPT ![k].answer = "refused"]
    BY DEF Send, Answer
  <2>4. at' \in [Callers -> Pcs]
    BY <1>1, <2>1, <2>2 DEF Pcs
  <2>5. task' \in [Tasks -> TaskRecord]
    BY <2>1, <2>3 DEF TaskRecord
  <2>6. \A c \in Callers : at'[c] \in {"enqueue", "send", "wait", "init", "list"} =>
                            at[c] \in {"enqueue", "send", "wait", "init", "list"}
    BY <1>1, <2>1, <2>2
  <2> QED
    BY <2>4, <2>5, <2>6 DEF Send
<1>3. \/ UNCHANGED thread
      \/ held[k] \in Threads /\ SetThread(held[k], Sent(held[k], k))
  BY <1>1, CallerThreadSteps
<1>4. /\ thread' \in [Threads -> ThreadRecord]
      /\ \A u \in Threads : thread'[u].pc = "busy" <=> thread'[u].now # NoTask
      /\ \A u \in Threads : thread[u].pc = "unborn" => thread'[u].pc = "unborn"
  <2>1. CASE UNCHANGED thread
    BY <2>1 DEF Types, TypeOK, Holding
  <2>2. CASE held[k] \in Threads /\ SetThread(held[k], Sent(held[k], k))
    <3>1. thread[held[k]] \in ThreadRecord /\ thread[held[k]].queue \in Seq(Tasks)
          /\ (thread[held[k]].pc = "busy" <=> thread[held[k]].now # NoTask)
      BY <2>2, ThreadIs DEF Types, Holding
    <3>2. Append(thread[held[k]].queue, k) \in Seq(Tasks)
      BY <3>1
    <3>3. Sent(held[k], k) \in ThreadRecord /\ Sent(held[k], k).pc = thread[held[k]].pc
          /\ Sent(held[k], k).now = thread[held[k]].now
      BY <3>1, <3>2 DEF Sent, ThreadRecord
    <3> QED
      BY <2>2, <3>1, <3>3, SetThreadIs
  <2> QED
    BY <1>3, <2>1, <2>2
<1>5. TypeOK'
  BY <1>2, <1>4 DEF Types, TypeOK, tables, leaving
<1> QED
  BY <1>2, <1>4, <1>5 DEF Types, Holding

LEMMA CreateTypes ==
    ASSUME Types, NEW c \in Callers, Create(c)
    PROVE  Types'
<1> USE DEF leaving
<1>b. /\ at \in [Callers -> Pcs] /\ held \in [Callers -> Threads \cup {0}]
      /\ count \in 0..(CountWidth - 1)
  BY DEF Types, TypeOK
<1>1. CASE CreateCount(c)
  <2>1. /\ UNCHANGED <<executor, poolState, stored, leaving, listed, signal, scripts, task, doomed,
                       cleanup, retiring, reloader, stopper>>
        /\ count' \in 0..(CountWidth - 1)
    BY <1>1, <1>b, Constants DEF CreateCount
  <2>2. CASE /\ at' = [at EXCEPT ![c] = "uncount"] \/ at' = [at EXCEPT ![c] = NotCreated(c)]
             /\ UNCHANGED <<made, held, thread>>
    <3>1. at' \in [Callers -> Pcs]
      BY <1>b, <2>2 DEF Pcs, NotCreated
    <3>2. \A b \in Callers : at'[b] \in {"enqueue", "send", "wait", "init", "list"}
                               => held'[b] \in Threads
      BY <1>b, <2>2 DEF Types, Holding, NotCreated
    <3> QED
      BY <2>1, <2>2, <3>1, <3>2 DEF Types, TypeOK, Holding
  <2>3. CASE /\ at' = [at EXCEPT ![c] = "init"] /\ held' = [held EXCEPT ![c] = made + 1]
             /\ made' = made + 1 /\ thread' = [thread EXCEPT ![made + 1].pc = "init"]
             /\ made < MaxThreads
    <3>1. made + 1 \in Threads /\ made \in Nat
      BY <2>3, Constants DEF Types, TypeOK, Threads
    <3>2. /\ made' \in Threads /\ at' \in [Callers -> Pcs] /\ held' \in [Callers -> Threads \cup {0}]
          /\ \A b \in Callers : at'[b] \in {"enqueue", "send", "wait", "init", "list"}
                                  => held'[b] \in Threads
      BY <1>b, <2>3, <3>1 DEF Pcs, Types, Holding
    <3>3. thread[made + 1] \in ThreadRecord /\ thread[made + 1].pc = "unborn"
          /\ thread[made + 1].now = NoTask
      BY <3>1, ThreadIs DEF Types, Holding
    <3>4. /\ Moved(made + 1, "init") \in ThreadRecord
          /\ Moved(made + 1, "init").pc = "init" /\ Moved(made + 1, "init").now = NoTask
      BY <3>3 DEF Moved, ThreadRecord
    <3>5. SetThread(made + 1, Moved(made + 1, "init"))
      BY <2>3, <3>3 DEF SetThread, Moved, ThreadRecord, Types, TypeOK
    <3>6. /\ thread' \in [Threads -> ThreadRecord]
          /\ \A u \in Threads : thread'[u] = IF u = made + 1 THEN Moved(made + 1, "init") ELSE thread[u]
          /\ \A u \in Threads : thread'[u].pc = "busy" <=> thread'[u].now # NoTask
      BY <3>1, <3>4, <3>5, SetThreadIs
    <3>7. \A u \in Threads : u > made' => thread'[u].pc = "unborn"
      BY <2>3, <3>1, <3>6 DEF Types, Holding, Threads
    <3> QED
      BY <2>1, <3>2, <3>6, <3>7 DEF Types, TypeOK, Holding
  <2> QED
    BY <1>1, <2>2, <2>3 DEF CreateCount, Go, Hold
<1>2. CASE CreateFails(c)
  <2>1. /\ at' = [at EXCEPT ![c] = NotCreated(c)] /\ NotCreated(c) \in {"failed", "again"}
        /\ UNCHANGED <<executor, poolState, stored, leaving, listed, made, signal, scripts, thread,
                       task, held, doomed, cleanup, retiring, reloader, stopper>>
    BY <1>2 DEF CreateFails, Go, NotCreated
  <2>2. at' \in [Callers -> Pcs] /\ count' \in 0..(CountWidth - 1)
    BY <1>2, <1>b, <2>1, MinusType DEF CreateFails, Pcs
  <2>3. \A b \in Callers : at'[b] \in {"enqueue", "send", "wait", "init", "list"}
                             => held'[b] \in Threads
    BY <1>b, <2>1 DEF Types, Holding
  <2> QED
    BY <2>1, <2>2, <2>3 DEF Types, TypeOK, Holding
<1>3. CASE CreateStore(c)
  <2>1. /\ at' = [at EXCEPT ![c] = "list"] /\ at[c] = "init" /\ held[c] \in Threads
        /\ stored' = stored \cup {held[c]}
        /\ UNCHANGED <<executor, poolState, leaving, listed, count, made, signal, scripts, thread,
                       task, held, doomed, cleanup, retiring, reloader, stopper>>
    BY <1>3 DEF CreateStore, Go, Types, Holding
  <2>2. at' \in [Callers -> Pcs] /\ stored' \subseteq Threads
    BY <1>b, <2>1 DEF Pcs, Types, TypeOK
  <2>3. \A b \in Callers : at'[b] \in {"enqueue", "send", "wait", "init", "list"}
                             => held'[b] \in Threads
    BY <1>b, <2>1 DEF Types, Holding
  <2> QED
    BY <2>1, <2>2, <2>3 DEF Types, TypeOK, Holding
<1>4. CASE CreateList(c)
  <2>1. /\ at' = [at EXCEPT ![c] = Created(c)] /\ Created(c) \in {"replenish", "enqueue"}
        /\ at[c] = "list" /\ held[c] \in Threads
        /\ listed' = listed \cup {held[c]}
        /\ UNCHANGED <<executor, poolState, stored, leaving, count, made, signal, scripts, thread,
                       task, held, doomed, cleanup, retiring, reloader, stopper>>
    BY <1>4 DEF CreateList, Go, Created, Types, Holding
  <2>2. at' \in [Callers -> Pcs] /\ listed' \subseteq Threads
    BY <1>b, <2>1 DEF Pcs, Types, TypeOK
  <2>3. \A b \in Callers : at'[b] \in {"enqueue", "send", "wait", "init", "list"}
                             => held'[b] \in Threads
    BY <1>b, <2>1 DEF Types, Holding
  <2> QED
    BY <2>1, <2>2, <2>3 DEF Types, TypeOK, Holding
<1> QED
  BY <1>1, <1>2, <1>3, <1>4 DEF Create

LEMMA CleanTypes ==
    ASSUME Types, Watch \/ CleanupDetach \/ CleanupEnd \/ Replenish
    PROVE  Types'
<1>b. /\ at \in [Callers -> Pcs] /\ Cleaner \in Callers
      /\ at[Cleaner] \notin {"enqueue", "send", "wait", "init", "list"}
      /\ stored \subseteq Threads /\ listed \subseteq Threads
  BY DEF Types, TypeOK, Callers, Watch, CleanupDetach, CleanupEnd, Replenish
<1>1. \/ UNCHANGED at
      \/ \E pc \in {"replenish", "done", "cleanup", "watch", "count"} :
            at' = [at EXCEPT ![Cleaner] = pc]
  BY DEF Watch, CleanupDetach, CleanupEnd, Replenish, Go, calls
<1>2. at' \in [Callers -> Pcs]
      /\ \A c \in Callers : at'[c] \in {"enqueue", "send", "wait", "init", "list"} => held[c] \in Threads
  BY <1>b, <1>1 DEF Pcs, Types, Holding
<1>3. /\ UNCHANGED <<executor, poolState, made, scripts, thread, task, held, reloader, stopper>>
      /\ signal' \in BOOLEAN /\ doomed' \subseteq Threads /\ cleanup' \subseteq Threads
      /\ retiring' \subseteq Threads
      /\ stored' \subseteq Threads /\ listed' \subseteq Threads
      /\ unmapped' \subseteq Threads /\ unlisted' \subseteq Threads
      /\ count' \in 0..(CountWidth - 1)
  <2>1. CASE Watch \/ CleanupEnd \/ Replenish
    BY <1>b, <2>1 DEF Watch, CleanupEnd, Replenish, tables, leaving, Types, TypeOK
  <2>2. CASE CleanupDetach
    BY <1>b, <2>2 DEF CleanupDetach, Unmap, calls, tables, leaving, Types, TypeOK
  <2> QED
    BY <2>1, <2>2
<1> QED
  BY <1>2, <1>3 DEF Types, TypeOK, Holding

LEMMA ReloadTypes ==
    ASSUME Types, Reload \/ Reloading
    PROVE  Types'
<1>b. /\ reloader \in ReloaderRecord /\ stopper \in StopperRecord /\ stored \subseteq Threads
      /\ scripts \in 1..(MaxReloads + 1)
      /\ executor \in {"running", "reloading", "stopping", "stopped"}
  BY DEF Types, TypeOK, ReloaderRecord, StopperRecord
<1>e. ASSUME NEW ok \in BOOLEAN, Reloaded(ok)
      PROVE  reloader' \in ReloaderRecord /\ reloader'.pc = "end"
  BY <1>b, <1>e DEF Reloaded, ReloaderRecord
<1>1. /\ UNCHANGED <<poolState, tables, made, signal, calls, doomed, cleanup, retiring>>
      /\ executor' \in {"running", "reloading", "stopping", "stopped"}
      /\ scripts' \in 1..(MaxReloads + 1)
      /\ stopper' \in StopperRecord
  <2>1. CASE Reload
    <3>1. scripts + 1 \in 1..(MaxReloads + 1)
      BY <1>b, <2>1, Constants DEF Reload
    <3> QED
      BY <1>b, <2>1, <3>1 DEF Reload
  <2>2. CASE ReloadList \/ ReloadNext \/ ReloadAsk \/ ReloadReply
    BY <1>b, <2>2 DEF ReloadList, ReloadNext, ReloadAsk, ReloadReply
  <2>3. CASE ReloadEnd
    BY <1>b, <2>3 DEF ReloadEnd, StopperRecord
  <2> QED
    BY <2>1, <2>2, <2>3 DEF Reloading
<1>2. reloader' \in ReloaderRecord /\ (reloader'.pc \in {"ask", "reply"} => reloader'.at \in Threads)
  <2>1. CASE Reload \/ ReloadList \/ ReloadReply \/ ReloadEnd
    BY <1>b, <1>e, <2>1 DEF Reload, ReloadList, ReloadReply, ReloadEnd, ReloaderRecord
  <2>2. CASE ReloadNext
    <3>1. CASE \E ok \in BOOLEAN : Reloaded(ok)
      BY <1>e, <3>1
    <3>2. CASE \E t \in reloader.todo :
                 reloader' = [reloader EXCEPT !.pc = "ask", !.at = t, !.todo = @ \ {t}]
      <4> PICK t \in reloader.todo :
            reloader' = [reloader EXCEPT !.pc = "ask", !.at = t, !.todo = @ \ {t}]
        BY <3>2
      <4>1. t \in Threads /\ reloader.todo \ {t} \subseteq Threads
        BY <1>b DEF ReloaderRecord
      <4> QED
        BY <1>b, <4>1 DEF ReloaderRecord
    <3> QED
      BY <2>2, <3>1, <3>2 DEF ReloadNext
  <2>3. CASE ReloadAsk
    <3>1. reloader.at \in Threads
      BY <2>3 DEF ReloadAsk, Types, Holding
    <3> QED
      BY <1>b, <1>e, <2>3, <3>1 DEF ReloadAsk, ReloaderRecord
  <2> QED
    BY <2>1, <2>2, <2>3 DEF Reloading
<1>3. /\ thread' \in [Threads -> ThreadRecord]
      /\ \A u \in Threads : thread'[u].pc = "busy" <=> thread'[u].now # NoTask
      /\ \A u \in Threads : thread[u].pc = "unborn" => thread'[u].pc = "unborn"
  <2>1. CASE UNCHANGED thread
    BY <2>1 DEF Types, TypeOK, Holding
  <2>2. CASE reloader.pc = "ask" /\ SetThread(reloader.at, Asked(reloader.at))
    <3>1. PICK t \in Threads : t = reloader.at
      BY <2>2 DEF Types, Holding
    <3>2. thread[t] \in ThreadRecord
      BY ThreadIs
    <3>3. /\ Asked(t) \in ThreadRecord /\ Asked(t).pc = thread[t].pc
          /\ Asked(t).now = thread[t].now
      BY <3>2 DEF Asked, ThreadRecord
    <3> QED
      BY <2>2, <3>1, <3>3, SetThreadIs DEF Types, Holding
  <2>3. UNCHANGED thread \/ (reloader.pc = "ask" /\ SetThread(reloader.at, Asked(reloader.at)))
    <3>1. CASE ReloadAsk
      <4>1. PICK t \in Threads : t = reloader.at
        BY <3>1 DEF ReloadAsk, Types, Holding
      <4>2. thread \in [Threads -> ThreadRecord] /\ thread[t] \in ThreadRecord
        BY DEF Types, TypeOK
      <4>3. UNCHANGED thread
            \/ thread' = [thread EXCEPT ![t].inbox = "reload", ![t].reply = "none"]
        BY <3>1, <4>1 DEF ReloadAsk
      <4> QED
        BY <3>1, <4>1, <4>2, <4>3 DEF ReloadAsk, SetThread, Asked, ThreadRecord
    <3>2. CASE ~ReloadAsk
      BY <3>2 DEF Reload, Reloading, ReloadList, ReloadNext, ReloadReply, ReloadEnd
    <3> QED
      BY <3>1, <3>2
  <2> QED
    BY <2>1, <2>2, <2>3
<1> QED
  BY <1>1, <1>2, <1>3 DEF Types, TypeOK, Holding, ReloaderRecord, StopperRecord, tables, leaving, calls

LEMMA StopTypes ==
    ASSUME Types, Stop \/ Stopping
    PROVE  Types'
<1>b. stopper \in StopperRecord /\ stored \subseteq Threads /\ listed \subseteq Threads
  BY DEF Types, TypeOK, StopperRecord
<1>1. stopper' \in StopperRecord
  <2>1. CASE StopDetach
    <3>1. PICK t \in stopper.todo :
             \/ stopper' = [stopper EXCEPT !.pc = "leave", !.at = t]
             \/ stopper' = [stopper EXCEPT !.pc = "detach", !.at = t]
      BY <2>1 DEF StopDetach
    <3>2. t \in Threads
      BY <1>b DEF StopperRecord
    <3> QED
      BY <1>b, <3>1, <3>2 DEF StopperRecord
  <2>2. CASE ~StopDetach
    BY <1>b, <2>2 DEF Stop, Stopping, StopBegin, StopList, StopThreads, StopJoin, StopperRecord
  <2> QED
    BY <2>1, <2>2
<1>2. /\ UNCHANGED <<made, signal, scripts, thread, calls, cleanup, retiring, reloader>>
      /\ executor' \in {"running", "reloading", "stopping", "stopped"}
      /\ poolState' \in {"running", "stopping", "stopped"}
      /\ stored' \subseteq Threads /\ listed' \subseteq Threads /\ doomed' \subseteq Threads
      /\ unmapped' \subseteq Threads /\ unlisted' \subseteq Threads
      /\ count' \in 0..(CountWidth - 1)
  <2> USE DEF tables, leaving
  <2>1. CASE Stop \/ StopBegin \/ StopList \/ StopJoin
    BY <1>b, <2>1, Constants DEF Stop, StopBegin, StopList, StopJoin, Types, TypeOK
  <2>2. CASE StopThreads
    BY <1>b, <2>2 DEF StopThreads, StopperRecord, Types, TypeOK
  <2>3. CASE StopDetach
    BY <1>b, <2>3 DEF StopDetach, Unmap, StopperRecord, Types, TypeOK
  <2> QED
    BY <2>1, <2>2, <2>3 DEF Stopping
<1> QED
  BY <1>1, <1>2 DEF Types, TypeOK, Holding, StopperRecord, calls

LEMMA NextTypes ==
    ASSUME Types, [Next]_vars
    PROVE  Types'
<1>1. CASE UNCHANGED vars
  BY <1>1 DEF vars, tables, leaving, calls, Types, TypeOK, Holding
<1>2. Tasks \subseteq Callers /\ Cleaner \in Callers
  BY DEF Callers
<1> QED
  BY <1>1, <1>2, RequestTypes, SendTypes, CreateTypes, RunTypes, DetachTypes, CleanTypes, ReloadTypes,
     StopTypes DEF Next, Call, Clean

\* The pool's tables, threads and requests hold only values of their types, and
\* the thread counter stays a uint32 (internal/defaultjsexecutor/pool.go).
THEOREM TypeCorrect == Spec => []TypeOK
<1>1. Types => TypeOK
  BY DEF Types
<1>2. Spec => []Types
  BY InitTypes, NextTypes, PTL DEF Spec
<1> QED
  BY <1>1, <1>2, PTL

----------------------------------------------------------------------------
(* A request is run at most once *)

\* Request k was sent to thread t and has not run.
Pending(k, t) ==
    /\ k \in Tasks /\ at[k] \in {"wait", "done"} /\ held[k] = t
    /\ task[k].runs = 0 /\ ~task[k].result /\ task[k].answer \in {"none", "timeout"}

\* What a thread has to do: it holds each request once, queued or running.
WorkOK(t) ==
    LET q == thread[t].queue
    IN  /\ \A i \in DOMAIN q : Pending(q[i], t) /\ q[i] # thread[t].now
        /\ \A i, j \in DOMAIN q : q[i] = q[j] => i = j
        /\ thread[t].now # NoTask => Pending(thread[t].now, t)

\* What a request has been told.
AnswerOK(k) ==
    /\ task[k].runs <= 1 /\ (task[k].result <=> task[k].runs = 1)
    /\ at[k] \notin {"wait", "done"} => task[k].runs = 0 /\ task[k].answer = "none"
    /\ task[k].answer = "result" => task[k].runs = 1
    /\ task[k].answer \in {"refused", "noThread"} => task[k].runs = 0

RunInv == /\ \A t \in Threads : WorkOK(t)
          /\ \A k \in Tasks : AnswerOK(k)

\* Steps that give no thread a request and take none from it.
SameWork(t) == thread'[t].queue = thread[t].queue /\ thread'[t].now = thread[t].now
Moves(k) ==
    /\ task'[k].runs = task[k].runs /\ task'[k].result = task[k].result
    /\ \/ at'[k] = at[k] /\ held'[k] = held[k] /\ task'[k].answer = task[k].answer
       \/ /\ at[k] \notin {"wait", "done"} /\ at'[k] \notin {"wait", "done"}
          /\ task'[k].answer = task[k].answer
       \/ /\ at[k] \notin {"wait", "done"} /\ at'[k] = "done"
          /\ task'[k].answer \in {"refused", "noThread"}
       \/ /\ at[k] = "wait" /\ at'[k] = "done" /\ held'[k] = held[k]
          /\ \/ task'[k].answer = "result" /\ task[k].result
             \/ task'[k].answer = "timeout"

LEMMA SameWorkKeeps ==
    ASSUME Types, RunInv, \A t \in Threads : SameWork(t), \A k \in Tasks : Moves(k)
    PROVE  RunInv'
<1>1. ASSUME NEW k \in Tasks, NEW t \in Threads, Pending(k, t)
      PROVE  Pending(k, t)'
  BY <1>1 DEF Pending, Moves
<1>2. ASSUME NEW t \in Threads
      PROVE  WorkOK(t)'
  <2>1. WorkOK(t) /\ SameWork(t)
    BY DEF RunInv
  <2>2. thread[t].queue \in Seq(Tasks)
    BY ThreadIs
  <2>3. PICK q, n : q = thread[t].queue /\ n = thread[t].now
    OBVIOUS
  <2>4. thread'[t].queue = q /\ thread'[t].now = n
    BY <2>1, <2>3 DEF SameWork
  <2>5. \A i \in DOMAIN q : Pending(q[i], t)' /\ q[i] # n
    BY <1>1, <2>1, <2>2, <2>3 DEF WorkOK, Pending
  <2>6. n # NoTask => Pending(n, t)'
    BY <1>1, <2>1, <2>3 DEF WorkOK, Pending
  <2> QED
    BY <2>1, <2>3, <2>4, <2>5, <2>6 DEF WorkOK
<1>3. ASSUME NEW k \in Tasks
      PROVE  AnswerOK(k)'
  BY DEF RunInv, AnswerOK, Moves
<1> QED
  BY <1>2, <1>3 DEF RunInv

LEMMA InitRun == Init => RunInv
<1> SUFFICES ASSUME Init PROVE RunInv
  OBVIOUS
<1>1. ASSUME NEW t \in Threads
      PROVE  thread[t].queue = << >> /\ thread[t].now = NoTask
  BY DEF Init, Unborn
<1>2. DOMAIN << >> = {}
  OBVIOUS
<1>3. \A t \in Threads : WorkOK(t)
  BY <1>1, <1>2 DEF WorkOK
<1>4. \A k \in Tasks : AnswerOK(k)
  BY DEF Init, AnswerOK, Callers
<1> QED
  BY <1>3, <1>4 DEF RunInv

LEMMA RequestRun ==
    ASSUME Types, RunInv, NEW k \in Tasks,
           Execute(k) \/ Select(k) \/ SelectAgain(k) \/ Enqueue(k) \/ Receive(k)
    PROVE  RunInv'
<1>b. /\ k \in Callers /\ at \in [Callers -> Pcs] /\ held \in [Callers -> Threads \cup {0}]
      /\ task \in [Tasks -> TaskRecord]
  BY DEF Types, TypeOK, Callers
<1>1. \A t \in Threads : SameWork(t)
  BY DEF SameWork, Execute, Select, SelectAgain, Enqueue, Receive
<1>2. Moves(k)
  <2>1. CASE Execute(k)
    BY <1>b, <2>1 DEF Moves, Execute, Answer, Go, TaskRecord
  <2>2. CASE Select(k)
    BY <1>b, <2>2 DEF Moves, Select, Hold, Answer, Go, TaskRecord
  <2>3. CASE SelectAgain(k)
    BY <1>b, <2>3 DEF Moves, SelectAgain, Hold, Answer, Go, TaskRecord
  <2>4. CASE Enqueue(k)
    BY <1>b, <2>4 DEF Moves, Enqueue, Answer, Go, TaskRecord
  <2>5. CASE Receive(k)
    BY <1>b, <2>5 DEF Moves, Receive, Answer, Go, TaskRecord
  <2> QED
    BY <2>1, <2>2, <2>3, <2>4, <2>5
<1>3. ASSUME NEW i \in Tasks, i # k
      PROVE  at'[i] = at[i] /\ held'[i] = held[i] /\ task'[i] = task[i]
  <2>1. i \in Callers
    BY DEF Callers
  <2> QED
    BY <1>b, <1>3, <2>1 DEF Execute, Select, SelectAgain, Enqueue, Receive, Hold, Answer, Go
<1>4. \A i \in Tasks : Moves(i)
  BY <1>2, <1>3 DEF Moves
<1> QED
  BY <1>1, <1>4, SameWorkKeeps

LEMMA SendRun ==
    ASSUME Types, RunInv, NEW k \in Tasks, Send(k)
    PROVE  RunInv'
<1>b. /\ k \in Callers /\ at \in [Callers -> Pcs] /\ held \in [Callers -> Threads \cup {0}]
      /\ task \in [Tasks -> TaskRecord] /\ at[k] = "send" /\ \A i \in Tasks : i \in Callers
  BY DEF Types, TypeOK, Callers, Send
<1>1. CASE Answer(k, "refused") /\ UNCHANGED <<thread, held>>
  <2>1. \A t \in Threads : SameWork(t)
    BY <1>1 DEF SameWork
  <2>2. \A i \in Tasks : Moves(i)
    BY <1>b, <1>1 DEF Moves, Answer, Go, TaskRecord
  <2> QED
    BY <2>1, <2>2, SameWorkKeeps
<1>2. CASE /\ thread' = [thread EXCEPT ![held[k]].queue = Append(@, k)]
           /\ Go(k, "wait") /\ UNCHANGED <<task, held>>
  <2>1. PICK h \in Threads : h = held[k]
    BY <1>b DEF Types, Holding
  <2>2. /\ thread \in [Threads -> ThreadRecord] /\ thread[h] \in ThreadRecord
        /\ thread[h].queue \in Seq(Tasks)
    BY ThreadIs DEF Types, TypeOK
  <2>3. /\ thread'[h].queue = Append(thread[h].queue, k) /\ thread'[h].now = thread[h].now
        /\ \A t \in Threads : t # h => thread'[t] = thread[t]
    BY <1>2, <2>1, <2>2 DEF ThreadRecord
  <2>4. task[k].runs = 0 /\ ~task[k].result /\ task[k].answer = "none"
    BY <1>b DEF RunInv, AnswerOK
  <2>5. at'[k] = "wait" /\ \A i \in Tasks : i # k => at'[i] = at[i]
    BY <1>b, <1>2 DEF Go
  <2>6. \A i, t : Pending(i, t) => Pending(i, t)' /\ i # k
    BY <1>b, <1>2, <2>5 DEF Pending
  <2>7. Pending(k, h)'
    BY <1>2, <2>1, <2>4, <2>5 DEF Pending
  <2>8. WorkOK(h)'
    <3>1. PICK q, n : q = thread[h].queue /\ n = thread[h].now
      OBVIOUS
    <3>2. /\ \A i \in DOMAIN q : Pending(q[i], h) /\ q[i] # n
          /\ \A i, j \in DOMAIN q : q[i] = q[j] => i = j
          /\ n # NoTask => Pending(n, h)
      BY <3>1 DEF RunInv, WorkOK
    <3>3. /\ q \in Seq(Tasks) /\ Append(q, k) \in Seq(Tasks)
          /\ DOMAIN q = 1..Len(q) /\ DOMAIN Append(q, k) = 1..(Len(q) + 1)
          /\ \A i \in 1..Len(q) : Append(q, k)[i] = q[i]
          /\ Append(q, k)[Len(q) + 1] = k /\ Len(q) \in Nat
      BY <2>2, <3>1
    <3>4. n # k
      BY <2>6, <3>2, TasksAssumption
    <3>5. \A i \in 1..(Len(q) + 1) :
             IF i = Len(q) + 1 THEN Append(q, k)[i] = k
             ELSE i \in DOMAIN q /\ Append(q, k)[i] = q[i] /\ q[i] # k
      BY <2>6, <3>2, <3>3
    <3>6. /\ \A i \in DOMAIN Append(q, k) : Pending(Append(q, k)[i], h)' /\ Append(q, k)[i] # n
          /\ \A i, j \in DOMAIN Append(q, k) : Append(q, k)[i] = Append(q, k)[j] => i = j
      BY <2>6, <2>7, <3>2, <3>3, <3>4, <3>5
    <3>7. n # NoTask => Pending(n, h)'
      BY <2>6, <3>2
    <3>8. thread'[h].queue = Append(q, k) /\ thread'[h].now = n
      BY <2>3, <3>1
    <3> QED
      BY <3>6, <3>7, <3>8 DEF WorkOK
  <2>9. ASSUME NEW t \in Threads, t # h
        PROVE  WorkOK(t)'
    BY <2>3, <2>6, <2>9 DEF RunInv, WorkOK
  <2>10. \A i \in Tasks : AnswerOK(i)'
    BY <1>2, <2>5 DEF RunInv, AnswerOK
  <2> QED
    BY <2>8, <2>9, <2>10 DEF RunInv
<1> QED
  BY <1>1, <1>2 DEF Send

LEMMA TakeRun ==
    ASSUME Types, RunInv, NEW t \in Threads, ThreadTake(t)
    PROVE  RunInv'
<1>1. PICK q : q = thread[t].queue /\ q \in Seq(Tasks) /\ q # << >>
  BY ThreadIs DEF ThreadTake
<1>2. /\ thread'[t].queue = Tail(q) /\ thread'[t].now = Head(q)
      /\ \A u \in Threads : u # t => thread'[u] = thread[u]
  <2>1. thread \in [Threads -> ThreadRecord] /\ thread[t] \in ThreadRecord
    BY DEF Types, TypeOK
  <2> QED
    BY <1>1, <2>1 DEF ThreadTake, ThreadRecord
<1>3. UNCHANGED calls
  BY DEF ThreadTake
<1>4. \A i, u : Pending(i, u) => Pending(i, u)'
  BY <1>3 DEF Pending, calls
<1>5. /\ \A i \in DOMAIN q : Pending(q[i], t)
      /\ \A i, j \in DOMAIN q : q[i] = q[j] => i = j
  BY <1>1 DEF RunInv, WorkOK
<1>6. /\ Head(q) = q[1] /\ DOMAIN q = 1..Len(q) /\ Len(q) \in Nat \ {0}
      /\ DOMAIN Tail(q) = 1..(Len(q) - 1)
      /\ \A i \in 1..(Len(q) - 1) : Tail(q)[i] = q[i + 1]
  BY <1>1
<1>7. \A i \in DOMAIN Tail(q) : i + 1 \in DOMAIN q /\ Tail(q)[i] = q[i + 1] /\ i + 1 # 1 /\ i \in Nat
  BY <1>6
<1>8. 1 \in DOMAIN q /\ Pending(Head(q), t)'
  BY <1>4, <1>5, <1>6
<1>9. \A i \in DOMAIN Tail(q) : Pending(Tail(q)[i], t)' /\ Tail(q)[i] # Head(q)
  BY <1>4, <1>5, <1>6, <1>7, <1>8
<1>10. \A i, j \in DOMAIN Tail(q) : Tail(q)[i] = Tail(q)[j] => i = j
  BY <1>5, <1>7
<1>11. WorkOK(t)'
  BY <1>2, <1>8, <1>9, <1>10 DEF WorkOK
<1>12. ASSUME NEW u \in Threads, u # t
       PROVE  WorkOK(u)'
  BY <1>2, <1>4, <1>12 DEF RunInv, WorkOK
<1>13. \A k \in Tasks : AnswerOK(k)'
  BY <1>3 DEF RunInv, AnswerOK, calls
<1> QED
  BY <1>11, <1>12, <1>13 DEF RunInv

\* The thread that runs a request holds it nowhere else, and no other thread holds it.
LEMMA FinishRun ==
    ASSUME Types, RunInv, NEW t \in Threads, ThreadFinish(t)
    PROVE  RunInv'
<1>1. PICK k \in Tasks : k = thread[t].now
  BY ThreadIs DEF ThreadFinish
<1>2. /\ thread'[t].queue = thread[t].queue /\ thread'[t].now = NoTask
      /\ \A u \in Threads : u # t => thread'[u] = thread[u]
  <2>1. thread \in [Threads -> ThreadRecord] /\ thread[t] \in ThreadRecord
    BY DEF Types, TypeOK
  <2> QED
    BY <2>1 DEF ThreadFinish, ThreadRecord
<1>3. UNCHANGED <<at, held>>
  BY DEF ThreadFinish
<1>4. /\ task'[k].result = TRUE /\ task'[k].runs = task[k].runs + 1
      /\ task'[k].answer = task[k].answer
      /\ \A i \in Tasks : i # k => task'[i] = task[i]
  <2>1. task \in [Tasks -> TaskRecord]
    BY DEF Types, TypeOK
  <2> QED
    BY <1>1, <2>1 DEF ThreadFinish, TaskRecord
<1>5. Pending(k, t)
  <2>1. k # NoTask
    BY TasksAssumption
  <2> QED
    BY <1>1, <2>1 DEF RunInv, WorkOK
<1>6. \A i, u : i # k /\ Pending(i, u) => Pending(i, u)'
  BY <1>3, <1>4 DEF Pending
<1>7. \A u : Pending(k, u) => u = t
  BY <1>5 DEF Pending
<1>8. WorkOK(t)'
  <2>1. PICK q : q = thread[t].queue
    OBVIOUS
  <2>2. /\ \A i \in DOMAIN q : Pending(q[i], t) /\ q[i] # k
        /\ \A i, j \in DOMAIN q : q[i] = q[j] => i = j
    BY <1>1, <2>1 DEF RunInv, WorkOK
  <2>3. \A i \in DOMAIN q : Pending(q[i], t)' /\ q[i] # NoTask
    BY <1>6, <2>2, TasksAssumption DEF Pending
  <2> QED
    BY <1>2, <2>1, <2>2, <2>3 DEF WorkOK
<1>9. ASSUME NEW u \in Threads, u # t
      PROVE  WorkOK(u)'
  <2>1. PICK q, n : q = thread[u].queue /\ n = thread[u].now
    OBVIOUS
  <2>2. /\ \A i \in DOMAIN q : Pending(q[i], u) /\ q[i] # n
        /\ \A i, j \in DOMAIN q : q[i] = q[j] => i = j
        /\ n # NoTask => Pending(n, u)
    BY <2>1 DEF RunInv, WorkOK
  <2>3. (\A i \in DOMAIN q : Pending(q[i], u)') /\ (n # NoTask => Pending(n, u)')
    BY <1>6, <1>7, <1>9, <2>2
  <2> QED
    BY <1>2, <1>9, <2>1, <2>2, <2>3 DEF WorkOK
<1>10. ASSUME NEW i \in Tasks
       PROVE  AnswerOK(i)'
  <2>1. CASE i = k
    <3>1. task[k].runs = 0 /\ at[k] \in {"wait", "done"} /\ task[k].answer \in {"none", "timeout"}
      BY <1>5 DEF Pending
    <3> QED
      BY <1>3, <1>4, <2>1, <3>1 DEF AnswerOK
  <2>2. CASE i # k
    BY <1>3, <1>4, <2>2 DEF RunInv, AnswerOK
  <2> QED
    BY <2>1, <2>2
<1> QED
  BY <1>8, <1>9, <1>10 DEF RunInv

\* A step that changes one thread and leaves it its work.
LEMMA SameWorkOf ==
    ASSUME Types, NEW t \in Threads, NEW r, SetThread(t, r),
           r.queue = thread[t].queue, r.now = thread[t].now
    PROVE  \A u \in Threads : SameWork(u)
<1>1. thread \in [Threads -> ThreadRecord]
  BY DEF Types, TypeOK
<1> QED
  BY <1>1 DEF SetThread, SameWork

\* The other steps of the threads.
LEMMA ThreadRun ==
    ASSUME Types, RunInv, NEW t \in Threads,
           \/ ThreadInit(t) \/ ThreadCheck(t) \/ ThreadAsk(t) \/ ThreadStop(t)
           \/ ThreadReload(t) \/ SendStop(t)
    PROVE  RunInv'
<1>t. thread[t] \in ThreadRecord
  BY ThreadIs
<1>1. \A u \in Threads : SameWork(u)
  <2>1. CASE UNCHANGED thread
    BY <2>1 DEF SameWork
  <2>2. \A pc : Moved(t, pc).queue = thread[t].queue /\ Moved(t, pc).now = thread[t].now
    BY <1>t DEF Moved, ThreadRecord
  <2>3. Started(t).queue = thread[t].queue /\ Started(t).now = thread[t].now
    BY <1>t DEF Started, ThreadRecord
  <2>4. Renewed(t).queue = thread[t].queue /\ Renewed(t).now = thread[t].now
    BY <1>t DEF Renewed, ThreadRecord
  <2>5. Unchanging(t).queue = thread[t].queue /\ Unchanging(t).now = thread[t].now
    BY <1>t DEF Unchanging, ThreadRecord
  <2>6. Told(t, "stop").queue = thread[t].queue /\ Told(t, "stop").now = thread[t].now
    BY <1>t DEF Told, ThreadRecord
  <2>7. \/ UNCHANGED thread
        \/ \E pc : SetThread(t, Moved(t, pc))
        \/ SetThread(t, Started(t)) \/ SetThread(t, Renewed(t)) \/ SetThread(t, Unchanging(t))
        \/ SetThread(t, Told(t, "stop"))
    BY ThreadSteps
  <2> QED
    BY <2>1, <2>2, <2>3, <2>4, <2>5, <2>6, <2>7, SameWorkOf
<1>2. UNCHANGED calls
  BY DEF ThreadInit, ThreadCheck, ThreadAsk, ThreadStop, ThreadReload, SendStop
<1>3. \A k \in Tasks : Moves(k)
  BY <1>2 DEF Moves, calls
<1> QED
  BY <1>1, <1>3, SameWorkKeeps

LEMMA CreateRun ==
    ASSUME Types, RunInv, NEW c \in Callers, Create(c)
    PROVE  RunInv'
<1>b. at \in [Callers -> Pcs] /\ held \in [Callers -> Threads \cup {0}] /\ UNCHANGED task
  BY DEF Types, TypeOK, Create, CreateCount, CreateFails, CreateStore, CreateList
<1>1. \A t \in Threads : SameWork(t)
  <2>1. CASE UNCHANGED thread
    BY <2>1 DEF SameWork
  <2>2. ASSUME made + 1 \in Threads, SetThread(made + 1, Moved(made + 1, "init"))
        PROVE  \A t \in Threads : SameWork(t)
    <3>1. thread[made + 1] \in ThreadRecord
      BY <2>2, ThreadIs
    <3>2. /\ Moved(made + 1, "init").queue = thread[made + 1].queue
          /\ Moved(made + 1, "init").now = thread[made + 1].now
      BY <3>1 DEF Moved, ThreadRecord
    <3> QED
      BY <2>2, <3>2, SameWorkOf
  <2>3. \/ UNCHANGED thread
        \/ made + 1 \in Threads /\ SetThread(made + 1, Moved(made + 1, "init"))
    BY CallerThreadSteps DEF Create, CreateFails, CreateStore, CreateList
  <2> QED
    BY <2>1, <2>2, <2>3
<1>2. ASSUME NEW k \in Tasks
      PROVE  Moves(k)
  <2>0. k \in Callers /\ k # Cleaner
    BY TasksAssumption DEF Callers
  <2>1. CASE k = c
    <3>1. at[k] \notin {"wait", "done"}
      BY <2>1 DEF Create, CreateCount, CreateFails, CreateStore, CreateList
    <3>2. at'[k] \notin {"wait", "done"}
      BY <1>b, <2>0, <2>1
         DEF Create, CreateCount, CreateFails, CreateStore, CreateList, Hold, Go, Created, NotCreated
    <3> QED
      BY <1>b, <3>1, <3>2 DEF Moves
  <2>2. CASE k # c
    <3>1. at'[k] = at[k] /\ held'[k] = held[k]
      BY <1>b, <2>0, <2>2 DEF Create, CreateCount, CreateFails, CreateStore, CreateList, Hold, Go
    <3> QED
      BY <1>b, <3>1 DEF Moves
  <2> QED
    BY <2>1, <2>2
<1> QED
  BY <1>1, <1>2, SameWorkKeeps

\* The cleanup goroutine, a reload, a stop and a detachment touch no request.
LEMMA OthersRun ==
    ASSUME Types, RunInv,
           \/ Watch \/ CleanupDetach \/ CleanupEnd \/ Replenish
           \/ Reload \/ Reloading \/ Stop \/ Stopping
           \/ \E t \in Threads : Detach(t)
    PROVE  RunInv'
<1>1. \A t \in Threads : SameWork(t)
  <2>1. CASE UNCHANGED thread
    BY <2>1 DEF SameWork
  <2>2. CASE ReloadAsk
    <3>1. PICK t \in Threads : t = reloader.at
      BY <2>2 DEF ReloadAsk, Types, Holding
    <3>2. thread \in [Threads -> ThreadRecord] /\ thread[t] \in ThreadRecord
      BY DEF Types, TypeOK
    <3>3. UNCHANGED thread \/ SetThread(t, Asked(t))
      BY <2>2, <3>1, <3>2 DEF ReloadAsk, SetThread, Asked, ThreadRecord
    <3>4. Asked(t).queue = thread[t].queue /\ Asked(t).now = thread[t].now
      BY <3>2 DEF Asked, ThreadRecord
    <3> QED
      BY <2>1, <3>3, <3>4, SameWorkOf
  <2>3. ReloadAsk \/ UNCHANGED thread
    BY DEF Watch, CleanupDetach, CleanupEnd, Replenish, Reload, Reloading, ReloadList, ReloadNext,
           ReloadReply, ReloadEnd, Stop, Stopping, StopBegin, StopList, StopDetach, StopThreads,
           StopJoin, Detach, Unlist, Uncount
  <2> QED
    BY <2>1, <2>2, <2>3
<1>2. UNCHANGED <<task, held>> /\ \A k \in Tasks : at'[k] = at[k]
  <2>1. CASE Watch \/ CleanupDetach \/ CleanupEnd \/ Replenish
    <3>1. at \in [Callers -> Pcs] /\ \A k \in Tasks : k \in Callers /\ k # Cleaner
      BY TasksAssumption DEF Types, TypeOK, Callers
    <3> QED
      BY <2>1, <3>1 DEF Watch, CleanupDetach, CleanupEnd, Replenish, Go, calls
  <2>2. CASE Reload \/ Reloading \/ Stop \/ Stopping \/ \E t \in Threads : Detach(t)
    BY <2>2 DEF Reload, Reloading, ReloadList, ReloadNext, ReloadAsk, ReloadReply, ReloadEnd,
                Stop, Stopping, StopBegin, StopList, StopDetach, StopThreads, StopJoin,
                Detach, Unlist, Uncount, calls
  <2> QED
    BY <2>1, <2>2
<1>3. \A k \in Tasks : Moves(k)
  BY <1>2 DEF Moves
<1> QED
  BY <1>1, <1>3, SameWorkKeeps

LEMMA NextRun ==
    ASSUME Types, RunInv, [Next]_vars
    PROVE  RunInv'
<1>1. CASE UNCHANGED vars
  <2>1. (\A t \in Threads : SameWork(t)) /\ (\A k \in Tasks : Moves(k))
    BY <1>1 DEF vars, calls, SameWork, Moves
  <2> QED
    BY <2>1, SameWorkKeeps
<1>2. Tasks \subseteq Callers /\ Cleaner \in Callers
  BY DEF Callers
<1> QED
  BY <1>1, <1>2, RequestRun, SendRun, TakeRun, FinishRun, ThreadRun, CreateRun, OthersRun
     DEF Next, Call, Run, Clean

\* A request is run at most once, one that got a result was run, and one that was
\* refused was not: a thread holds a request once, queued or running, and no two
\* threads hold the same one (internal/defaultjsexecutor/pool.go, enqueueTask and
\* thread.go, executeTask).
THEOREM RunsOnce == Spec => []RunOnce
<1>1. Types /\ RunInv => RunOnce
  BY DEF RunInv, AnswerOK, RunOnce
<1>2. Spec => [](Types /\ RunInv)
  BY InitTypes, NextTypes, InitRun, NextRun, PTL DEF Spec
<1> QED
  BY <1>1, <1>2, PTL

----------------------------------------------------------------------------
(* The pool stays within its maximum *)

Uncounting == {c \in Callers : at[c] = "uncount"}

\* The threads the counter stands for: those of the map and those that are leaving.
Pool == stored \cup Leaving

\* The counter stands for every thread of the pool, every thread on its way there and
\* every reservation that will be given back, and the reservations that hold are
\* never more than the maximum.
Counted ==
    /\ count = Cardinality(Pool) + Cardinality(Creating) + Cardinality(Uncounting)
    /\ Cardinality(Pool) + Cardinality(Creating) <= MaxPool

\* The threads on their way to the map are new ones and different from each other.
Placed ==
    /\ IsFiniteSet(Creating) /\ IsFiniteSet(Uncounting)
    /\ \A c, d \in Creating : held[c] = held[d] => c = d
    /\ \A c \in Creating : held[c] \notin Pool /\ held[c] <= made
    /\ \A t \in Pool : t <= made

\* A thread is in the map or at one of the steps of its detachment.
Apart == stored \cap Leaving = {} /\ unmapped \cap unlisted = {}

CountInv ==
    /\ poolState # "stopped" => Counted
    /\ Placed /\ Apart
    /\ poolState = "stopped" => stopper.pc = "done"

\* What the width of the counter asks for: the callers that have raised it above the
\* maximum and not lowered it yet do not make it wrap.
FewAtOnce == Cardinality(Uncounting) + MaxPool + 1 < CountWidth

LEMMA InitCount == Init => CountInv
<1> SUFFICES ASSUME Init PROVE CountInv
  OBVIOUS
<1>1. Creating = {} /\ Uncounting = {} /\ Pool = 1..MinPool /\ Apart
  BY DEF Init, Creating, Uncounting, Pool, Leaving, Apart
<1>2. IsFiniteSet({}) /\ Cardinality({}) = 0
  BY FS_EmptySet
<1>3. Cardinality(1..MinPool) = MinPool
  BY Constants, FS_Interval
<1>4. Counted
  BY <1>1, <1>2, <1>3, Constants DEF Init, Counted
<1>5. Placed
  BY <1>1, <1>2, Constants DEF Init, Placed
<1> QED
  BY <1>1, <1>4, <1>5 DEF Init, CountInv

LEMMA Sizes ==
    ASSUME Types, Placed
    PROVE  /\ IsFiniteSet(Pool) /\ IsFiniteSet(Creating) /\ IsFiniteSet(Uncounting)
           /\ Cardinality(Pool) \in Nat /\ Cardinality(Creating) \in Nat
           /\ Cardinality(Uncounting) \in Nat
<1>1. Pool \in SUBSET Threads
  BY DEF Types, TypeOK, Pool, Leaving
<1>2. IsFiniteSet(Pool) /\ Cardinality(Pool) \in Nat
  BY <1>1, ThreadsFinite
<1> QED
  BY <1>2, FS_CardinalityType DEF Placed

\* A counter that is large enough is lowered by what is asked.
LEMMA MinusIs ==
    ASSUME NEW n \in Nat, count \in 0..(CountWidth - 1), n <= count
    PROVE  Minus(n) = count - n
<1>1. PICK d \in 0..(CountWidth - 1) : d = count - n
  BY Constants
<1>2. (d + CountWidth) % CountWidth = d
  BY Constants
<1>3. count + CountWidth - n = d + CountWidth
  BY <1>1, Constants
<1> QED
  BY <1>1, <1>2, <1>3 DEF Minus

\* Caller c is creating a thread after the step as it was before it.
SamePlace(c) ==
    /\ at'[c] = "init" <=> at[c] = "init"
    /\ at'[c] = "uncount" <=> at[c] = "uncount"
    /\ at[c] = "init" => held'[c] = held[c]

LEMMA SamePlaces ==
    ASSUME \A c \in Callers : SamePlace(c)
    PROVE  /\ Creating' = Creating /\ Uncounting' = Uncounting
           /\ \A c \in Creating : held'[c] = held[c]
<1>1. \A c : (c \in Creating' <=> c \in Creating) /\ (c \in Uncounting' <=> c \in Uncounting)
  BY DEF Creating, Uncounting, SamePlace
<1>2. \A c \in Creating : held'[c] = held[c]
  BY DEF Creating, SamePlace
<1> QED
  BY <1>1, <1>2

\* A step that changes neither the threads of the pool nor who is creating one.
LEMMA SameCount ==
    ASSUME CountInv, Pool' = Pool, Apart', UNCHANGED <<count, made>>,
           \A c \in Callers : SamePlace(c),
           poolState' = "stopped" <=> poolState = "stopped",
           poolState = "stopped" => stopper'.pc = stopper.pc
    PROVE  CountInv'
<1>1. Creating' = Creating /\ Uncounting' = Uncounting
  BY SamePlaces
<1>2. \A c \in Creating : held'[c] = held[c]
  BY SamePlaces
<1>3. Placed'
  BY <1>1, <1>2 DEF CountInv, Placed
<1>4. Counted => Counted'
  BY <1>1 DEF Counted
<1> QED
  BY <1>3, <1>4 DEF CountInv

\* Steps of the tables that leave the threads of the pool what they are.
LEMMA SamePool ==
    ASSUME CountInv,
           \/ UNCHANGED <<stored, leaving>>
           \/ \E t \in stored : Unmap(t)
           \/ \E t \in Threads : Unlist(t)
    PROVE  Pool' = Pool /\ Apart'
<1>a. Apart
  BY DEF CountInv
<1>1. CASE UNCHANGED <<stored, leaving>>
  BY <1>a, <1>1 DEF leaving, Pool, Leaving, Apart
<1>2. ASSUME NEW t \in stored, Unmap(t)
      PROVE  Pool' = Pool /\ Apart'
  BY <1>a, <1>2 DEF Unmap, Pool, Leaving, Apart
<1>3. ASSUME NEW t \in Threads, Unlist(t)
      PROVE  Pool' = Pool /\ Apart'
  BY <1>a, <1>3 DEF Unlist, Pool, Leaving, Apart
<1> QED
  BY <1>1, <1>2, <1>3

\* A caller that goes from one place to another, neither of them a creation.
LEMMA CallerCount ==
    ASSUME Types, CountInv, NEW b \in Callers,
           \A c \in Callers : c # b => at'[c] = at[c] /\ held'[c] = held[c],
           at[b] \notin {"init", "uncount"}, at'[b] \notin {"init", "uncount"},
           UNCHANGED <<stored, leaving, count, made, poolState, stopper>>
    PROVE  CountInv'
<1>1. \A c \in Callers : SamePlace(c)
  BY DEF SamePlace
<1> QED
  BY <1>1, SamePool, SameCount

LEMMA RequestCount ==
    ASSUME Types, CountInv, NEW k \in Tasks,
           Execute(k) \/ Select(k) \/ SelectAgain(k) \/ Enqueue(k) \/ Send(k) \/ Receive(k)
    PROVE  CountInv'
<1>b. k \in Callers /\ at \in [Callers -> Pcs] /\ held \in [Callers -> Threads \cup {0}]
  BY DEF Types, TypeOK, Callers
<1>1. UNCHANGED <<stored, leaving, count, made, poolState, stopper>>
  BY DEF Execute, Select, SelectAgain, Enqueue, Send, Receive, tables, leaving
<1>2. at[k] \notin {"init", "uncount"}
  BY DEF Execute, Select, SelectAgain, Enqueue, Send, Receive
<1>3. at'[k] \notin {"init", "uncount"}
  BY <1>b DEF Execute, Select, SelectAgain, Enqueue, Send, Receive, Answer, Hold, Go
<1>4. \A c \in Callers : c # k => at'[c] = at[c] /\ held'[c] = held[c]
  BY <1>b DEF Execute, Select, SelectAgain, Enqueue, Send, Receive, Answer, Hold, Go
<1> QED
  BY <1>b, <1>1, <1>2, <1>3, <1>4, CallerCount

\* detachThread lowers the counter by the thread it took out of the map.
LEMMA DetachCount ==
    ASSUME Types, CountInv, NEW t \in Threads, Detach(t)
    PROVE  CountInv'
<1>1. UNCHANGED <<made, poolState, stopper, at, held>>
  BY DEF Detach, Unlist, Uncount, calls
<1>2. \A c \in Callers : SamePlace(c)
  BY <1>1 DEF SamePlace
<1>3. CASE Unlist(t)
  <2>1. count' = count
    BY <1>3 DEF Unlist
  <2> QED
    BY <1>1, <1>2, <1>3, <2>1, SamePool, SameCount
<1>4. CASE Uncount(t)
  <2>1. Creating' = Creating /\ Uncounting' = Uncounting
    BY <1>2, SamePlaces
  <2>2. /\ t \in Pool /\ Pool' = Pool \ {t} /\ Apart' /\ count' = Minus(1)
    BY <1>4 DEF Uncount, Pool, Leaving, Apart, CountInv
  <2>3. Placed'
    BY <1>1, <2>1, <2>2 DEF CountInv, Placed
  <2>4. ASSUME Counted
        PROVE  Counted'
    <3>1. /\ IsFiniteSet(Pool) /\ Cardinality(Pool) \in Nat
          /\ Cardinality(Creating) \in Nat /\ Cardinality(Uncounting) \in Nat
      BY Sizes DEF CountInv
    <3>2. /\ Cardinality(Pool \ {t}) = Cardinality(Pool) - 1
          /\ Cardinality(Pool \ {t}) \in Nat
      BY <2>2, <3>1, FS_RemoveElement, FS_CardinalityType
    <3>3. count \in 0..(CountWidth - 1) /\ 1 <= count
      BY <2>4, <3>1, <3>2 DEF Counted, Types, TypeOK
    <3>4. count' = count - 1
      BY <2>2, <3>3, MinusIs
    <3> QED
      BY <2>1, <2>2, <2>4, <3>1, <3>2, <3>4, Constants DEF Counted
  <2> QED
    BY <1>1, <2>2, <2>3, <2>4 DEF CountInv
<1> QED
  BY <1>3, <1>4 DEF Detach

LEMMA ThreadCount ==
    ASSUME Types, CountInv, NEW t \in Threads, Run(t) \/ SendStop(t)
    PROVE  CountInv'
<1>1. UNCHANGED <<made, poolState, stopper, at, held, count>>
  BY DEF Run, ThreadInit, ThreadTake, ThreadFinish, ThreadCheck, ThreadAsk, ThreadStop, ThreadReload,
         SendStop, Unmap, calls, tables
<1>2. \A c \in Callers : SamePlace(c)
  BY <1>1 DEF SamePlace
<1>3. (\E u \in stored : Unmap(u)) \/ UNCHANGED <<stored, leaving>>
  BY DEF Run, ThreadInit, ThreadTake, ThreadFinish, ThreadCheck, ThreadAsk, ThreadStop, ThreadReload,
         SendStop, tables
<1> QED
  BY <1>1, <1>2, <1>3, SamePool, SameCount

LEMMA CleanCount ==
    ASSUME Types, CountInv, Watch \/ CleanupDetach \/ CleanupEnd \/ Replenish
    PROVE  CountInv'
<1>b. Cleaner \in Callers /\ at \in [Callers -> Pcs]
  BY DEF Types, TypeOK, Callers
<1>1. /\ at[Cleaner] \notin {"init", "uncount"} /\ at'[Cleaner] \notin {"init", "uncount"}
      /\ \A c \in Callers : c # Cleaner => at'[c] = at[c] /\ held'[c] = held[c]
      /\ UNCHANGED <<made, poolState, stopper, count>>
  BY <1>b DEF Watch, CleanupDetach, CleanupEnd, Replenish, Go, Unmap, calls, tables
<1>2. \A c \in Callers : SamePlace(c)
  BY <1>1 DEF SamePlace
<1>3. (\E u \in stored : Unmap(u)) \/ UNCHANGED <<stored, leaving>>
  BY DEF Watch, CleanupDetach, CleanupEnd, Replenish, tables
<1> QED
  BY <1>1, <1>2, <1>3, SamePool, SameCount

LEMMA ReloadStopCount ==
    ASSUME Types, CountInv, Reload \/ Reloading \/ Stop \/ Stopping
    PROVE  CountInv'
<1>1. UNCHANGED <<made, at, held>>
  BY DEF Reload, Reloading, ReloadList, ReloadNext, ReloadAsk, ReloadReply, ReloadEnd,
         Stop, Stopping, StopBegin, StopList, StopDetach, StopThreads, StopJoin, calls
<1>2. \A c \in Callers : SamePlace(c)
  BY <1>1 DEF SamePlace
<1>3. CASE Reload \/ Reloading \/ Stop \/ StopBegin \/ StopList \/ StopDetach \/ StopThreads
  <2>1. count' = count
    BY <1>3 DEF Reload, Reloading, ReloadList, ReloadNext, ReloadAsk, ReloadReply, ReloadEnd,
                Stop, StopBegin, StopList, StopDetach, StopThreads, Unmap, tables
  <2>2. (\E u \in stored : Unmap(u)) \/ UNCHANGED <<stored, leaving>>
    BY <1>3 DEF Reload, Reloading, ReloadList, ReloadNext, ReloadAsk, ReloadReply, ReloadEnd,
                Stop, StopBegin, StopList, StopDetach, StopThreads, tables
  <2>3. /\ poolState' = "stopped" <=> poolState = "stopped"
        /\ poolState = "stopped" => stopper'.pc = stopper.pc
    BY <1>3 DEF Reload, Reloading, ReloadList, ReloadNext, ReloadAsk, ReloadReply, ReloadEnd,
                Stop, StopBegin, StopList, StopDetach, StopThreads, CountInv, Types, TypeOK
  <2> QED
    BY <1>1, <1>2, <2>1, <2>2, <2>3, SamePool, SameCount
<1>4. CASE StopJoin
  <2>1. Creating' = Creating /\ Uncounting' = Uncounting
        /\ UNCHANGED <<made, held>> /\ poolState' = "stopped" /\ stopper'.pc = "done"
    BY <1>1, <1>4 DEF StopJoin, Creating, Uncounting, Types, TypeOK
  <2>2. Pool' \subseteq Pool /\ Apart'
    BY <1>4 DEF StopJoin, leaving, Pool, Leaving, Apart, CountInv
  <2> QED
    BY <2>1, <2>2 DEF CountInv, Placed
<1> QED
  BY <1>3, <1>4 DEF Stopping

\* The reservation: the counter is raised first and is then no less than what is in
\* the pool or on its way, whatever the other callers have reserved meanwhile.
LEMMA CreateCountCount ==
    ASSUME Types, CountInv, FewAtOnce, NEW c \in Callers, CreateCount(c)
    PROVE  CountInv'
<1>b. at \in [Callers -> Pcs] /\ held \in [Callers -> Threads \cup {0}] /\ at[c] = "count"
  BY DEF Types, TypeOK, CreateCount
<1>n. c \notin Creating /\ c \notin Uncounting
  BY <1>b DEF Creating, Uncounting
<1>s. /\ IsFiniteSet(Creating) /\ IsFiniteSet(Uncounting)
      /\ Cardinality(Pool) \in Nat /\ Cardinality(Creating) \in Nat
      /\ Cardinality(Uncounting) \in Nat
  BY Sizes DEF CountInv
<1>p. Pool' = Pool /\ Apart' /\ UNCHANGED <<poolState, stopper>>
  <2>1. UNCHANGED <<stored, leaving, poolState, stopper>>
    BY DEF CreateCount
  <2> QED
    BY <2>1, SamePool
<1>0. CASE at' = [at EXCEPT ![c] = NotCreated(c)] /\ UNCHANGED <<count, made, thread, held>>
  <2>1. at'[c] \notin {"init", "uncount"} /\ \A d \in Callers : d # c => at'[d] = at[d]
    BY <1>b, <1>0 DEF NotCreated
  <2>2. UNCHANGED <<stored, leaving>>
    BY DEF CreateCount
  <2> QED
    BY <1>b, <1>p, <1>0, <2>1, <2>2, CallerCount
<1>1. Counted /\ count' = (count + 1) % CountWidth => count' = count + 1
  BY <1>s, Constants DEF Counted, FewAtOnce
<1>2. CASE /\ at' = [at EXCEPT ![c] = "uncount"] /\ UNCHANGED <<made, held>>
           /\ count' = (count + 1) % CountWidth
  <2>1. Creating' = Creating /\ Uncounting' = Uncounting \cup {c}
    BY <1>b, <1>2 DEF Creating, Uncounting
  <2>2. /\ IsFiniteSet(Uncounting \cup {c})
        /\ Cardinality(Uncounting \cup {c}) = Cardinality(Uncounting) + 1
    BY <1>n, <1>s, FS_AddElement
  <2>3. Counted => Counted'
    BY <1>p, <1>1, <1>2, <1>s, <2>1, <2>2 DEF Counted
  <2>4. Placed'
    BY <1>p, <1>2, <2>1, <2>2 DEF CountInv, Placed
  <2> QED
    BY <1>p, <2>3, <2>4 DEF CountInv
<1>3. CASE /\ at' = [at EXCEPT ![c] = "init"] /\ held' = [held EXCEPT ![c] = made + 1]
           /\ made' = made + 1 /\ count' <= MaxPool /\ count' = (count + 1) % CountWidth
  <2>1. Creating' = Creating \cup {c} /\ Uncounting' = Uncounting
    BY <1>b, <1>3 DEF Creating, Uncounting
  <2>2. /\ IsFiniteSet(Creating \cup {c})
        /\ Cardinality(Creating \cup {c}) = Cardinality(Creating) + 1
    BY <1>n, <1>s, FS_AddElement
  <2>3. Counted => Counted'
    BY <1>p, <1>1, <1>3, <1>s, <2>1, <2>2, Constants DEF Counted
  <2>4. held'[c] = made + 1 /\ \A d \in Creating : held'[d] = held[d]
    BY <1>b, <1>n, <1>3 DEF Creating
  <2>5. made \in Nat /\ Pool \subseteq Nat /\ \A d \in Creating : held[d] \in Nat
    BY <1>b DEF Types, TypeOK, Creating, Threads, Pool, Leaving
  <2>6. Placed'
    BY <1>p, <1>3, <2>1, <2>2, <2>4, <2>5 DEF CountInv, Placed
  <2> QED
    BY <1>p, <2>3, <2>6 DEF CountInv
<1>4. count' \in Nat /\ (count' > MaxPool \/ count' <= MaxPool)
  BY Constants DEF CreateCount, Types, TypeOK
<1> QED
  BY <1>0, <1>2, <1>3, <1>4 DEF CreateCount, Hold, Go

\* The reservation is given back, or its thread enters the map.
LEMMA CreateRestCount ==
    ASSUME Types, CountInv, NEW c \in Callers,
           CreateFails(c) \/ CreateStore(c) \/ CreateList(c)
    PROVE  CountInv'
<1>b. /\ at \in [Callers -> Pcs] /\ held \in [Callers -> Threads \cup {0}]
      /\ UNCHANGED <<made, held, poolState, stopper, leaving>>
  BY DEF Types, TypeOK, CreateFails, CreateStore, CreateList
<1>s. /\ IsFiniteSet(Creating) /\ IsFiniteSet(Uncounting) /\ IsFiniteSet(Pool)
      /\ Cardinality(Pool) \in Nat /\ Cardinality(Creating) \in Nat
      /\ Cardinality(Uncounting) \in Nat
  BY Sizes DEF CountInv
<1>1. CASE CreateFails(c)
  <2>1. /\ at' = [at EXCEPT ![c] = NotCreated(c)] /\ NotCreated(c) \notin {"init", "uncount"}
        /\ count' = Minus(1) /\ UNCHANGED <<stored, leaving>>
    BY <1>1 DEF CreateFails, Go, NotCreated
  <2>5. Pool' = Pool /\ Apart'
    BY <2>1, SamePool
  <2>2. Counted /\ count >= 1 => count' = count - 1
    <3>1. count \in 0..(CountWidth - 1)
      BY DEF Types, TypeOK
    <3> QED
      BY <2>1, <3>1, MinusIs
  <2>3. CASE at[c] = "uncount"
    <3>1. c \in Uncounting /\ Creating' = Creating /\ Uncounting' = Uncounting \ {c}
      BY <1>b, <2>1, <2>3 DEF Creating, Uncounting
    <3>2. /\ IsFiniteSet(Uncounting \ {c})
          /\ Cardinality(Uncounting \ {c}) = Cardinality(Uncounting) - 1
          /\ Cardinality(Uncounting \ {c}) \in Nat
      BY <1>s, <3>1, FS_RemoveElement, FS_CardinalityType
    <3>3. Counted => Counted'
      BY <1>s, <2>1, <2>2, <2>5, <3>1, <3>2 DEF Counted
    <3>4. Placed'
      BY <1>b, <2>5, <3>1, <3>2 DEF CountInv, Placed
    <3> QED
      BY <1>b, <2>5, <3>3, <3>4 DEF CountInv
  <2>4. CASE at[c] = "init"
    <3>1. c \in Creating /\ Creating' = Creating \ {c} /\ Uncounting' = Uncounting
      BY <1>b, <2>1, <2>4 DEF Creating, Uncounting
    <3>2. /\ IsFiniteSet(Creating \ {c})
          /\ Cardinality(Creating \ {c}) = Cardinality(Creating) - 1
          /\ Cardinality(Creating \ {c}) \in Nat
      BY <1>s, <3>1, FS_RemoveElement, FS_CardinalityType
    <3>3. Counted => Counted'
      BY <1>s, <2>1, <2>2, <2>5, <3>1, <3>2, Constants DEF Counted
    <3>4. Placed'
      BY <1>b, <2>5, <3>1, <3>2 DEF CountInv, Placed
    <3> QED
      BY <1>b, <2>5, <3>3, <3>4 DEF CountInv
  <2> QED
    BY <1>1, <2>3, <2>4 DEF CreateFails
<1>2. CASE CreateStore(c)
  <2>1. /\ at[c] = "init" /\ at' = [at EXCEPT ![c] = "list"]
        /\ stored' = stored \cup {held[c]} /\ count' = count
    BY <1>2 DEF CreateStore, Go
  <2>2. c \in Creating /\ Creating' = Creating \ {c} /\ Uncounting' = Uncounting
    BY <1>b, <2>1 DEF Creating, Uncounting
  <2>3. /\ IsFiniteSet(Creating \ {c})
        /\ Cardinality(Creating \ {c}) = Cardinality(Creating) - 1
    BY <1>s, <2>2, FS_RemoveElement
  <2>4. held[c] \notin Pool /\ held[c] <= made
    BY <2>2 DEF CountInv, Placed
  <2>8. Pool' = Pool \cup {held[c]} /\ Apart'
    BY <1>b, <2>1, <2>4 DEF leaving, Pool, Leaving, Apart, CountInv
  <2>5. Cardinality(Pool \cup {held[c]}) = Cardinality(Pool) + 1
    BY <1>s, <2>4, FS_AddElement
  <2>6. Counted => Counted'
    BY <1>s, <2>1, <2>2, <2>3, <2>5, <2>8, Constants DEF Counted
  <2>7. Placed'
    BY <1>b, <2>2, <2>3, <2>4, <2>8 DEF CountInv, Placed
  <2> QED
    BY <1>b, <2>6, <2>7, <2>8 DEF CountInv
<1>3. CASE CreateList(c)
  <2>1. /\ at[c] = "list" /\ at' = [at EXCEPT ![c] = Created(c)]
        /\ Created(c) \notin {"init", "uncount"} /\ UNCHANGED <<stored, leaving, count>>
    BY <1>3 DEF CreateList, Go, Created
  <2> QED
    BY <1>b, <2>1, CallerCount
<1> QED
  BY <1>1, <1>2, <1>3

LEMMA NextCount ==
    ASSUME Types, CountInv, FewAtOnce, [Next]_vars
    PROVE  CountInv'
<1>1. CASE UNCHANGED vars
  <2>1. UNCHANGED <<stored, leaving>>
    BY <1>1 DEF vars, tables
  <2>2. Pool' = Pool /\ Apart'
    BY <2>1, SamePool
  <2> QED
    BY <1>1, <2>2, SameCount DEF vars, tables, calls, SamePlace
<1>2. Tasks \subseteq Callers /\ Cleaner \in Callers
  BY DEF Callers
<1>3. ASSUME NEW c \in Callers, Create(c)
      PROVE  CountInv'
  BY <1>3, CreateCountCount, CreateRestCount DEF Create
<1> QED
  BY <1>1, <1>2, <1>3, RequestCount, ThreadCount, DetachCount, CleanCount, ReloadStopCount
     DEF Next, Call, Clean

LEMMA CountBounds == Types /\ CountInv => PoolBounded
<1> SUFFICES ASSUME Types, CountInv, Admits PROVE PoolBounded
  BY DEF PoolBounded
<1>1. Counted
  BY DEF CountInv, Admits
<1>2. /\ IsFiniteSet(Pool) /\ Cardinality(Pool) \in Nat /\ Cardinality(Creating) \in Nat
      /\ Cardinality(Uncounting) \in Nat
  BY Sizes DEF CountInv
<1>3. stored \in SUBSET Pool
  BY DEF Pool
<1>4. Cardinality(stored) <= Cardinality(Pool) /\ Cardinality(stored) \in Nat
  BY <1>2, <1>3, FS_Subset, FS_CardinalityType
<1> QED
  BY <1>1, <1>2, <1>4, Constants DEF Counted, PoolBounded

\* However many requests create threads at once, the pool is never larger than its
\* maximum and the counter never misses a thread: as long as fewer than 2^32 of them
\* are at once between raising the counter and lowering it again
\* (internal/defaultjsexecutor/pool.go, createThread and detachThread).
THEOREM PoolStaysBounded == Spec /\ []FewAtOnce => []PoolBounded
<1>1. Spec => []Types
  BY InitTypes, NextTypes, PTL DEF Spec
<1>2. CountInv /\ Types /\ FewAtOnce /\ [Next]_vars => CountInv'
  BY NextCount
<1>3. []Types /\ []FewAtOnce /\ Spec => []CountInv
  BY InitCount, <1>2, PTL DEF Spec
<1>4. Types /\ CountInv => PoolBounded
  BY CountBounds
<1> QED
  BY <1>1, <1>3, <1>4, PTL

\* With fewer than 2^32 - maxPoolSize calls of Execute altogether, that is always so.
THEOREM FewCallersBounded ==
    ASSUME IsFiniteSet(Tasks), Cardinality(Tasks) + MaxPool + 2 < CountWidth
    PROVE  Spec => []PoolBounded
<1>1. IsFiniteSet(Callers) /\ Cardinality(Callers) = Cardinality(Tasks) + 1
      /\ Cardinality(Tasks) \in Nat
  BY FS_AddElement, FS_CardinalityType, TasksAssumption DEF Callers
<1>2. Uncounting \in SUBSET Callers
  BY DEF Uncounting
<1>3. Cardinality(Uncounting) <= Cardinality(Callers) /\ Cardinality(Uncounting) \in Nat
  BY <1>1, <1>2, FS_Subset, FS_CardinalityType
<1>4. FewAtOnce
  BY <1>1, <1>3, Constants DEF FewAtOnce
<1>5. []FewAtOnce
  BY <1>4, PTL
<1> QED
  BY <1>5, PoolStaysBounded, PTL

----------------------------------------------------------------------------
(* A reload reaches the threads it listed *)

\* Thread t, if it still runs, runs the scripts last published.
Current(t) == Alive(t) => thread[t].engine = scripts

\* The executor is reloading as long as its reload runs, and a stop waits for it.
Phases ==
    /\ executor = "reloading" <=> reloader.pc # "idle"
    /\ stopper.pc \in {"begin", "list", "detach", "leave", "join"} => executor = "stopping"
    /\ stopper.pc = "requested" => executor = "reloading"

\* What a reload has done so far: all it listed, less what it still has to do and
\* the thread it is asking, is current, and that thread is once it has answered.
Covered ==
    /\ reloader.pc \notin {"ask", "reply"} => reloader.at = 0
    /\ reloader.pc \in {"next", "ask", "reply"} =>
          \A t \in reloader.all : t \notin reloader.todo /\ t # reloader.at => Current(t)
    /\ reloader.pc = "reply" /\ thread[reloader.at].reply = "ok" => Current(reloader.at)
    /\ (executor = "running" \/ reloader.pc = "end") /\ reloader.ok =>
          \A t \in reloader.all : Current(t)

ReloadInv == Phases /\ Covered

\* A step after which thread t has the published scripts, or is what it was.
StaysCurrent(t) ==
    \/ thread'[t].engine = scripts
    \/ /\ thread'[t].engine = thread[t].engine
       /\ Alive(t)' => Alive(t)
       /\ thread'[t].reply = "ok" => thread[t].reply = "ok"

LEMMA StaysCovered ==
    ASSUME Types, ReloadInv, UNCHANGED <<executor, reloader, stopper, scripts>>,
           \A t \in Threads : StaysCurrent(t)
    PROVE  ReloadInv'
<1>1. \A t \in Threads : Current(t) => Current(t)'
  BY DEF Current, StaysCurrent
<1>2. reloader.all \subseteq Threads /\ (reloader.pc = "reply" => reloader.at \in Threads)
  BY DEF Types, TypeOK, Holding
<1>3. \A t \in Threads : (thread[t].reply = "ok" => Current(t)) => (thread'[t].reply = "ok" => Current(t)')
  BY DEF Current, StaysCurrent
<1>4. reloader.pc = "reply" /\ thread'[reloader.at].reply = "ok" => Current(reloader.at)'
  <2> SUFFICES ASSUME reloader.pc = "reply", thread'[reloader.at].reply = "ok"
               PROVE  Current(reloader.at)'
    OBVIOUS
  <2>1. PICK t \in Threads : t = reloader.at
    BY <1>2
  <2>2. (thread[t].reply = "ok" => Current(t)) /\ thread'[t].reply = "ok"
    BY <2>1 DEF ReloadInv, Covered
  <2>3. Current(t)'
    BY <1>3, <2>2
  <2> QED
    BY <2>1, <2>3
<1>5. Covered'
  BY <1>1, <1>2, <1>4 DEF ReloadInv, Covered
<1> QED
  BY <1>5 DEF ReloadInv, Phases

LEMMA InitReload == Init => ReloadInv
  BY DEF Init, ReloadInv, Phases, Covered

LEMMA ThreadCovers ==
    ASSUME Types, ReloadInv, NEW t \in Threads, Run(t) \/ SendStop(t)
    PROVE  ReloadInv'
<1>t. /\ thread \in [Threads -> ThreadRecord] /\ thread[t] \in ThreadRecord
      /\ \A u \in Threads : \A r : SetThread(t, r) => thread'[u] = IF u = t THEN r ELSE thread[u]
  BY DEF Types, TypeOK, SetThread
<1>1. StaysCurrent(t)
  <2>1. CASE UNCHANGED thread
    BY <2>1 DEF StaysCurrent, Alive
  <2>2. CASE ThreadTake(t)
    <3>1. Taken(t).engine = thread[t].engine /\ Taken(t).reply = thread[t].reply
      BY <1>t DEF Taken, ThreadRecord
    <3>2. thread'[t] = Taken(t) /\ Alive(t)
      BY <1>t, <2>2, ThreadSteps DEF ThreadTake, Alive
    <3> QED
      BY <3>1, <3>2 DEF StaysCurrent
  <2>3. CASE ThreadFinish(t)
    <3>1. Finished(t).engine = thread[t].engine /\ Finished(t).reply = thread[t].reply
      BY <1>t DEF Finished, ThreadRecord
    <3>2. thread'[t] = Finished(t) /\ Alive(t)
      BY <1>t, <2>3, ThreadSteps DEF ThreadFinish, Alive
    <3> QED
      BY <3>1, <3>2 DEF StaysCurrent
  <2>4. ASSUME NEW pc, SetThread(t, Moved(t, pc)), Alive(t) \/ pc = "dead"
        PROVE  StaysCurrent(t)
    <3>1. /\ Moved(t, pc).engine = thread[t].engine /\ Moved(t, pc).reply = thread[t].reply
          /\ Moved(t, pc).pc = pc
      BY <1>t DEF Moved, ThreadRecord
    <3>2. thread'[t] = Moved(t, pc)
      BY <1>t, <2>4
    <3> QED
      BY <2>4, <3>1, <3>2 DEF StaysCurrent, Alive
  <2>5. CASE ThreadInit(t)
    <3>1. Started(t).engine = scripts
      BY <1>t DEF Started, ThreadRecord
    <3>2. SetThread(t, Started(t)) => StaysCurrent(t)
      BY <1>t, <3>1 DEF StaysCurrent
    <3> QED
      BY <2>4, <2>5, <3>2, ThreadSteps
  <2>6. CASE ThreadCheck(t) \/ ThreadAsk(t)
    BY <2>4, <2>6, ThreadSteps DEF ThreadCheck, ThreadAsk, Alive
  <2>7. CASE ThreadStop(t)
    BY <2>4, <2>7, ThreadSteps
  <2>8. CASE ThreadReload(t)
    <3>1. /\ Renewed(t).engine = scripts /\ Unchanging(t).engine = thread[t].engine
          /\ Unchanging(t).pc = thread[t].pc /\ Unchanging(t).reply = "failed"
      BY <1>t DEF Renewed, Unchanging, ThreadRecord
    <3>2. SetThread(t, Renewed(t)) => StaysCurrent(t)
      BY <1>t, <3>1 DEF StaysCurrent
    <3>3. SetThread(t, Unchanging(t)) => StaysCurrent(t)
      BY <1>t, <3>1 DEF StaysCurrent, Alive
    <3> QED
      BY <2>8, <3>2, <3>3, ThreadSteps
  <2>9. CASE SendStop(t)
    <3>1. /\ Told(t, "stop").engine = thread[t].engine /\ Told(t, "stop").pc = thread[t].pc
          /\ Told(t, "stop").reply = thread[t].reply
      BY <1>t DEF Told, ThreadRecord
    <3>2. SetThread(t, Told(t, "stop")) => StaysCurrent(t)
      BY <1>t, <3>1 DEF StaysCurrent, Alive
    <3> QED
      BY <2>1, <2>9, <3>2, ThreadSteps
  <2> QED
    BY <2>2, <2>3, <2>5, <2>6, <2>7, <2>8, <2>9 DEF Run
<1>2. ASSUME NEW u \in Threads, u # t
      PROVE  StaysCurrent(u)
  <2>1. thread'[u] = thread[u]
    BY <1>t, <1>2, ThreadSteps DEF Run
  <2> QED
    BY <2>1 DEF StaysCurrent, Alive
<1>3. UNCHANGED <<executor, reloader, stopper, scripts>>
  BY DEF Run, ThreadInit, ThreadTake, ThreadFinish, ThreadCheck, ThreadAsk, ThreadStop, ThreadReload, SendStop
<1> QED
  BY <1>1, <1>2, <1>3, StaysCovered

\* Requests, creations, detachments and the cleanup goroutine.
LEMMA CallerCovers ==
    ASSUME Types, ReloadInv,
           \/ \E k \in Tasks : \/ Execute(k) \/ Select(k) \/ SelectAgain(k) \/ Enqueue(k)
                               \/ Send(k) \/ Receive(k)
           \/ \E c \in Callers : Create(c)
           \/ \E t \in Threads : Detach(t)
           \/ Watch \/ CleanupDetach \/ CleanupEnd \/ Replenish
    PROVE  ReloadInv'
<1>1. UNCHANGED <<executor, reloader, stopper, scripts>>
  BY DEF Execute, Select, SelectAgain, Enqueue, Send, Receive, Create, CreateCount, CreateFails,
         CreateStore, CreateList, Watch, CleanupDetach, CleanupEnd, Replenish, Detach, Unlist, Uncount
<1>2. CASE UNCHANGED thread
  BY <1>1, <1>2, StaysCovered DEF StaysCurrent, Alive
<1>3. CASE \E k \in Tasks : Send(k)
  <2>1. PICK k \in Tasks : Send(k)
    BY <1>3
  <2>2. k \in Callers
    BY DEF Callers
  <2>3. CASE held[k] \in Threads /\ SetThread(held[k], Sent(held[k], k))
    <3>1. PICK h \in Threads : h = held[k]
      BY <2>3
    <3>2. thread \in [Threads -> ThreadRecord] /\ thread[h] \in ThreadRecord
      BY DEF Types, TypeOK
    <3>3. /\ Sent(h, k).pc = thread[h].pc /\ Sent(h, k).engine = thread[h].engine
          /\ Sent(h, k).reply = thread[h].reply
      BY <3>2 DEF Sent, ThreadRecord
    <3>4. \A u \in Threads : thread'[u] = IF u = h THEN Sent(h, k) ELSE thread[u]
      BY <2>3, <3>1, <3>2 DEF SetThread
    <3>5. \A u \in Threads : StaysCurrent(u)
      BY <3>3, <3>4 DEF StaysCurrent, Alive
    <3> QED
      BY <1>1, <3>5, StaysCovered
  <2> QED
    BY <1>2, <2>1, <2>2, <2>3, CallerThreadSteps
<1>4. CASE \E c \in Callers : CreateCount(c)
  <2>1. CASE made + 1 \in Threads /\ SetThread(made + 1, Moved(made + 1, "init"))
    <3>1. PICK m \in Threads : m = made + 1
      BY <2>1
    <3>2. thread \in [Threads -> ThreadRecord] /\ thread[m] \in ThreadRecord
      BY DEF Types, TypeOK
    <3>3. /\ Moved(m, "init").pc = "init" /\ Moved(m, "init").engine = thread[m].engine
          /\ Moved(m, "init").reply = thread[m].reply
      BY <3>2 DEF Moved, ThreadRecord
    <3>4. \A u \in Threads : thread'[u] = IF u = m THEN Moved(m, "init") ELSE thread[u]
      BY <2>1, <3>1, <3>2 DEF SetThread
    <3>5. \A u \in Threads : StaysCurrent(u)
      BY <3>3, <3>4 DEF StaysCurrent, Alive
    <3> QED
      BY <1>1, <3>5, StaysCovered
  <2> QED
    BY <1>2, <1>4, <2>1, CallerThreadSteps
<1>5. UNCHANGED thread \/ (\E k \in Tasks : Send(k)) \/ (\E c \in Callers : CreateCount(c))
  BY DEF Execute, Select, SelectAgain, Enqueue, Receive, Create, CreateFails, CreateStore,
         CreateList, Watch, CleanupDetach, CleanupEnd, Replenish, Detach, Unlist, Uncount
<1> QED
  BY <1>2, <1>3, <1>4, <1>5

\* The reload itself: what it has reached stays reached, and it counts a thread as
\* reached when that thread has answered.
LEMMA ReloadCovers ==
    ASSUME Types, ReloadInv, Reload \/ Reloading
    PROVE  ReloadInv'
<1>b. reloader \in ReloaderRecord /\ reloader.all \subseteq Threads
  BY DEF Types, TypeOK, ReloaderRecord
<1>p. Phases /\ Covered
  BY DEF ReloadInv
<1>e. ASSUME NEW ok \in BOOLEAN, Reloaded(ok)
      PROVE  /\ reloader'.pc = "end" /\ reloader'.at = 0 /\ reloader'.ok = ok
             /\ reloader'.all = reloader.all
  BY <1>b, <1>e DEF Reloaded, ReloaderRecord
\* A step of the pool's part of it that leaves the threads' engines alone.
<1>s. ASSUME UNCHANGED <<executor, scripts, stopper>>,
             reloader.pc \in {"list", "next", "ask", "reply"}, reloader'.pc # "idle"
      PROVE  Phases'
  BY <1>p, <1>s DEF Phases
<1>f. ASSUME UNCHANGED <<executor, scripts, stopper>>, Reloaded(FALSE),
             reloader.pc \in {"list", "next", "ask", "reply"}
      PROVE  ReloadInv'
  <2>1. reloader'.pc = "end" /\ reloader'.at = 0 /\ reloader'.ok = FALSE
    BY <1>e, <1>f
  <2> QED
    BY <1>f, <1>s, <2>1 DEF ReloadInv, Covered
<1>1. CASE Reload
  <2>1. reloader'.pc = "list" /\ reloader'.at = reloader.at
    BY <1>b, <1>1 DEF Reload, ReloaderRecord
  <2>2. reloader.pc = "idle" /\ reloader.at = 0
    BY <1>p, <1>1 DEF Reload, Phases, Covered
  <2>3. stopper.pc \notin {"begin", "list", "detach", "leave", "join", "requested"}
    BY <1>p, <1>1 DEF Reload, Phases
  <2> QED
    BY <1>1, <2>1, <2>2, <2>3 DEF Reload, ReloadInv, Phases, Covered
<1>2. CASE ReloadList
  <2>0. UNCHANGED <<executor, scripts, stopper>> /\ reloader.pc = "list" /\ executor = "reloading"
    BY <1>p, <1>2 DEF ReloadList, Phases
  <2>1. CASE reloader' = [reloader EXCEPT !.pc = "next", !.all = stored, !.todo = stored]
    <3>1. /\ reloader'.pc = "next" /\ reloader'.at = reloader.at
          /\ reloader'.all = stored /\ reloader'.todo = stored
      BY <1>b, <2>1 DEF ReloaderRecord
    <3>2. reloader.at = 0
      BY <1>p, <2>0 DEF Covered
    <3>3. Covered'
      BY <2>0, <3>1, <3>2 DEF Covered
    <3> QED
      BY <1>s, <2>0, <3>1, <3>3 DEF ReloadInv
  <2> QED
    BY <1>f, <1>2, <2>0, <2>1 DEF ReloadList
<1>3. CASE ReloadNext
  <2>0. /\ UNCHANGED <<executor, scripts, stopper, thread>> /\ reloader.pc = "next"
        /\ executor = "reloading" /\ reloader.at = 0
    BY <1>p, <1>3 DEF ReloadNext, Phases, Covered
  <2>a. \A t \in reloader.all : t \notin reloader.todo => Current(t)
    <3>1. \A t \in reloader.all : t # 0
      BY <1>b DEF Threads
    <3> QED
      BY <1>p, <2>0, <3>1 DEF Covered
  <2>c. \A t : Current(t)' <=> Current(t)
    BY <2>0 DEF Current, Alive
  <2>1. CASE reloader.todo = {} /\ Reloaded(TRUE)
    <3>1. reloader'.pc = "end" /\ reloader'.at = 0 /\ reloader'.all = reloader.all
      BY <1>e, <2>1
    <3>2. \A t \in reloader'.all : Current(t)'
      BY <2>1, <2>a, <2>c, <3>1
    <3>3. Covered'
      BY <3>1, <3>2 DEF Covered
    <3> QED
      BY <1>s, <2>0, <3>1, <3>3 DEF ReloadInv
  <2>2. CASE \E t \in reloader.todo :
               reloader' = [reloader EXCEPT !.pc = "ask", !.at = t, !.todo = @ \ {t}]
    <3>1. PICK t \in reloader.todo :
             reloader' = [reloader EXCEPT !.pc = "ask", !.at = t, !.todo = @ \ {t}]
      BY <2>2
    <3>2. /\ reloader'.pc = "ask" /\ reloader'.at = t /\ reloader'.todo = reloader.todo \ {t}
          /\ reloader'.all = reloader.all
      BY <1>b, <3>1 DEF ReloaderRecord
    <3>3. Covered'
      BY <2>0, <2>a, <2>c, <3>2 DEF Covered
    <3> QED
      BY <1>s, <2>0, <3>2, <3>3 DEF ReloadInv
  <2> QED
    BY <1>f, <1>3, <2>0, <2>1, <2>2 DEF ReloadNext
<1>4. CASE ReloadAsk
  <2>0. /\ UNCHANGED <<executor, scripts, stopper>> /\ reloader.pc = "ask"
        /\ executor = "reloading"
    BY <1>p, <1>4 DEF ReloadAsk, Phases
  <2>1. CASE reloader' = [reloader EXCEPT !.pc = "reply"] /\ ~Reloaded(FALSE)
    <3>1. /\ reloader'.pc = "reply" /\ reloader'.at = reloader.at
          /\ reloader'.todo = reloader.todo /\ reloader'.all = reloader.all
      BY <1>b, <2>1 DEF ReloaderRecord
    <3>2. PICK a \in Threads : a = reloader.at
      BY <2>0 DEF Types, Holding
    <3>3. thread \in [Threads -> ThreadRecord] /\ thread[a] \in ThreadRecord
      BY DEF Types, TypeOK
    <3>4. SetThread(a, Asked(a))
      BY <1>4, <2>1, <3>2, <3>3 DEF ReloadAsk, SetThread, Asked, ThreadRecord
    <3>5. Asked(a).pc = thread[a].pc /\ Asked(a).engine = thread[a].engine /\ Asked(a).reply = "none"
      BY <3>3 DEF Asked, ThreadRecord
    <3>6. \A u \in Threads : thread'[u] = IF u = a THEN Asked(a) ELSE thread[u]
      BY <3>3, <3>4 DEF SetThread
    <3>7. \A u \in Threads : Current(u)' <=> Current(u)
      BY <2>0, <3>5, <3>6 DEF Current, Alive
    <3>8. thread'[reloader'.at].reply = "none"
      BY <3>1, <3>2, <3>5, <3>6
    <3>9. \A t \in reloader.all : t \notin reloader.todo /\ t # reloader.at => Current(t)'
      BY <1>b, <1>p, <2>0, <3>7 DEF Covered
    <3>10. Covered'
      BY <2>0, <3>1, <3>8, <3>9 DEF Covered
    <3> QED
      BY <1>s, <2>0, <3>1, <3>10 DEF ReloadInv
  <2> QED
    BY <1>f, <1>4, <2>0, <2>1 DEF ReloadAsk
<1>5. CASE ReloadReply
  <2>0. /\ UNCHANGED <<executor, scripts, stopper, thread>> /\ reloader.pc = "reply"
        /\ executor = "reloading"
    BY <1>p, <1>5 DEF ReloadReply, Phases
  <2>1. CASE /\ thread[reloader.at].reply = "ok"
             /\ reloader' = [reloader EXCEPT !.pc = "next", !.at = 0]
    <3>1. /\ reloader'.pc = "next" /\ reloader'.at = 0
          /\ reloader'.todo = reloader.todo /\ reloader'.all = reloader.all
      BY <1>b, <2>1 DEF ReloaderRecord
    <3>2. Current(reloader.at)
      BY <1>p, <2>0, <2>1 DEF Covered
    <3>3. \A t \in reloader.all : t \notin reloader.todo => Current(t)
      BY <1>p, <2>0, <3>2 DEF Covered
    <3>4. \A t : Current(t)' <=> Current(t)
      BY <2>0 DEF Current, Alive
    <3>5. Covered'
      BY <2>0, <3>1, <3>3, <3>4 DEF Covered
    <3> QED
      BY <1>s, <2>0, <3>1, <3>5 DEF ReloadInv
  <2> QED
    BY <1>f, <1>5, <2>0, <2>1 DEF ReloadReply
<1>6. CASE ReloadEnd
  <2>0. UNCHANGED <<scripts, thread>> /\ reloader.pc = "end" /\ executor = "reloading"
    BY <1>p, <1>6 DEF ReloadEnd, Phases
  <2>1. /\ reloader'.pc = "idle" /\ reloader'.at = reloader.at /\ reloader'.ok = reloader.ok
        /\ reloader'.all = reloader.all
    BY <1>b, <1>6 DEF ReloadEnd, ReloaderRecord
  <2>2. \A t : Current(t)' <=> Current(t)
    BY <2>0 DEF Current, Alive
  <2>3. reloader.ok => \A t \in reloader.all : Current(t)
    BY <1>p, <2>0 DEF Covered
  <2>4. reloader.at = 0
    BY <1>p, <2>0 DEF Covered
  <2>5. Covered'
    BY <2>1, <2>2, <2>3, <2>4 DEF Covered
  <2>6. Phases'
    <3>1. CASE stopper.pc = "requested"
      <4>1. executor' = "stopping" /\ stopper'.pc = "begin"
        BY <1>6, <3>1 DEF ReloadEnd, Types, TypeOK
      <4> QED
        BY <2>1, <4>1 DEF Phases
    <3>2. CASE stopper.pc # "requested"
      BY <1>6, <1>p, <2>0, <2>1, <3>2 DEF ReloadEnd, Phases
    <3> QED
      BY <3>1, <3>2
  <2> QED
    BY <2>5, <2>6 DEF ReloadInv
<1> QED
  BY <1>1, <1>2, <1>3, <1>4, <1>5, <1>6 DEF Reloading

LEMMA StopCovers ==
    ASSUME Types, ReloadInv, Stop \/ Stopping
    PROVE  ReloadInv'
<1>b. stopper \in StopperRecord
  BY DEF Types, TypeOK, StopperRecord
<1>p. Phases /\ Covered
  BY DEF ReloadInv
<1>1. UNCHANGED <<scripts, thread, reloader>>
  BY DEF Stop, Stopping, StopBegin, StopList, StopDetach, StopThreads, StopJoin
<1>2. Phases' /\ (executor' = "running" => executor = "running")
  <2>1. CASE Stop
    BY <1>b, <1>p, <2>1 DEF Stop, Phases, StopperRecord
  <2>2. CASE Stopping
    BY <1>b, <1>p, <2>2 DEF Stopping, StopBegin, StopList, StopDetach, StopThreads, StopJoin, Phases,
                            StopperRecord
  <2> QED
    BY <2>1, <2>2
<1>3. \A t : Current(t)' <=> Current(t)
  BY <1>1 DEF Current, Alive
<1>4. Covered'
  BY <1>p, <1>1, <1>2, <1>3 DEF Covered
<1> QED
  BY <1>2, <1>4 DEF ReloadInv

LEMMA NextReload ==
    ASSUME Types, ReloadInv, [Next]_vars
    PROVE  ReloadInv'
<1>1. CASE UNCHANGED vars
  BY <1>1, StaysCovered DEF vars, StaysCurrent, Alive
<1>2. Tasks \subseteq Callers /\ Cleaner \in Callers
  BY DEF Callers
<1>3. CASE \E c \in Callers : Create(c)
  BY <1>3, CallerCovers
<1>4. CASE \E k \in Tasks : \/ Execute(k) \/ Select(k) \/ SelectAgain(k) \/ Enqueue(k)
                            \/ Send(k) \/ Receive(k)
  BY <1>4, CallerCovers
<1>5. CASE Watch \/ CleanupDetach \/ CleanupEnd \/ Replenish \/ \E t \in Threads : Detach(t)
  BY <1>5, CallerCovers
<1> QED
  BY <1>1, <1>2, <1>3, <1>4, <1>5, ThreadCovers, ReloadCovers, StopCovers DEF Next, Call, Clean

\* A reload that answers without an error has reached every thread it listed that
\* still runs, whatever tasks, retirements and creations go on meanwhile
\* (internal/defaultjsexecutor/pool.go, reload and thread.go, the reload action).
THEOREM ReloadReaches == Spec => []ReloadReachesListed
<1>1. Types /\ ReloadInv => ReloadReachesListed
  BY DEF ReloadInv, Covered, Current, ReloadReachesListed
<1>2. Spec => [](Types /\ ReloadInv)
  BY InitTypes, NextTypes, InitReload, NextReload, PTL DEF Spec
<1> QED
  BY <1>1, <1>2, PTL

=============================================================================
