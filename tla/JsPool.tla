-------------------------------- MODULE JsPool --------------------------------
(* The thread pool of the default JavaScript executor                         *)
(* (internal/defaultjsexecutor/pool.go and thread.go) once it is started:      *)
(* requests that pick or create a thread and queue a task on it, the threads'  *)
(* own loops, retirement and replenishment, reload and stop.  JsExecutor shows *)
(* that the executor calls its pool from one goroutine at a time, which is how *)
(* reload and stop are called here.                                            *)
(*                                                                            *)
(* A thread is in the pool's map, its round-robin list and its counter, three  *)
(* lock-free structures changed one after the other: createThread and           *)
(* detachThread take a step for each of them.                                  *)
EXTENDS Naturals, FiniteSets, Sequences

CONSTANTS
  Tasks,          \* calls of Execute
  Bounded,        \* those of them whose context has a deadline
  Routed,         \* those of them that may name a thread to run on
  NoTask,         \* what a thread runs between tasks
  Cleaner,        \* the cleanup goroutine
  MaxThreads,     \* bound: threads made altogether
  MinPool, MaxPool, QueueSize,
  SelectAt,       \* a thread with this many queued tasks is busy
  CreateAt,       \* with this many queued tasks a new thread is made
  MaxExecutions,  \* tasks after which a thread retires, 0 for never
  IdleExpires,    \* whether idle threads are retired
  MaxReloads,     \* bound: reloads
  StopMayCome,    \* whether Stop is ever called
  EngineMayFail,  \* whether an engine can fail to load its scripts
  CountWidth      \* 2^32: the thread counter is a uint32

ASSUME TasksAssumption ==
  Bounded \subseteq Tasks /\ Routed \subseteq Tasks /\ Cleaner \notin Tasks /\ NoTask \notin Tasks
ASSUME SizesAssumption ==
  /\ {MinPool, MaxPool, QueueSize, CountWidth, MaxThreads} \subseteq Nat \ {0}
  /\ MinPool <= MaxPool /\ MinPool <= MaxThreads /\ MaxPool < CountWidth
  /\ {SelectAt, CreateAt, MaxExecutions, MaxReloads} \subseteq Nat
ASSUME ChoicesAssumption == {IdleExpires, StopMayCome, EngineMayFail} \subseteq BOOLEAN

VARIABLES
  executor,   \* the executor's state, which Execute looks at first
  poolState,  \* p.state
  stored,     \* p.threads
  unmapped,   \* threads detachThread has taken out of the map
  unlisted,   \* those it has also taken off the list, the counter being left
  listed,     \* p.threadIds
  count,      \* p.threadCount
  made,       \* p.threadIdCounter
  signal,     \* whether replenishChan holds a signal
  scripts,    \* the version of the executor's scripts
  thread,     \* the threads
  task,       \* the tasks
  at,         \* where each call of Execute and the cleanup goroutine is
  held,       \* the thread it has picked or is creating, 0 for none
  doomed,     \* threads a goroutine is about to send a stop or retire action
  cleanup,    \* threads performCleanup is about to detach
  retiring,   \* threads it has detached and will retire
  reloader,   \* pool.reload
  stopper     \* pool.stop

leaving == <<unmapped, unlisted>>
tables == <<stored, leaving, listed, count>>
calls  == <<task, at, held>>
vars == <<executor, poolState, tables, made, signal, scripts, thread, calls, doomed, cleanup,
          retiring, reloader, stopper>>

Threads == 1..MaxThreads
Callers == Tasks \cup {Cleaner}
Cleans  == MaxExecutions > 0 \/ IdleExpires

\* A thread's goroutine is in its select ("ready"), in a task, looking at
\* MaxExecutions ("check"), detaching itself, about to run its own retire action, or
\* gone.  inbox is the actionQueue, of capacity one, and reply what a reload action
\* answered.
ThreadRecord ==
  [pc : {"unborn", "init", "ready", "busy", "check", "detach", "retire", "dead"},
   engine : Nat, queue : Seq(Tasks), now : Tasks \cup {NoTask}, execs : Nat,
   inbox : {"none", "reload", "stop"}, reply : {"none", "ok", "failed"}]
Unborn == [pc |-> "unborn", engine |-> 0, queue |-> << >>, now |-> NoTask, execs |-> 0,
           inbox |-> "none", reply |-> "none"]

\* "count", "uncount", "init" and "list" are inside createThread.
Pcs == {"new", "select", "again", "enqueue", "send", "wait", "done",
        "watch", "replenish", "failed", "cleanup", "count", "uncount", "init", "list"}
TaskRecord == [result : BOOLEAN, runs : Nat,
               answer : {"none", "result", "refused", "noThread", "timeout"}]

Init ==
  /\ executor = "running" /\ poolState = "running"
  /\ stored = 1..MinPool /\ listed = 1..MinPool /\ count = MinPool /\ made = MinPool
  /\ unmapped = {} /\ unlisted = {}
  /\ signal = FALSE /\ scripts = 1
  /\ thread = [t \in Threads |->
                 IF t <= MinPool THEN [Unborn EXCEPT !.pc = "ready", !.engine = 1] ELSE Unborn]
  /\ task = [k \in Tasks |-> [result |-> FALSE, runs |-> 0, answer |-> "none"]]
  /\ at = [c \in Callers |->
             IF c \in Tasks THEN "new" ELSE IF Cleans THEN "watch" ELSE "done"]
  /\ held = [c \in Callers |-> 0]
  /\ doomed = {} /\ cleanup = {} /\ retiring = {}
  /\ reloader = [pc |-> "idle", all |-> {}, todo |-> {}, at |-> 0, ok |-> FALSE]
  /\ stopper = [pc |-> "idle", todo |-> {}, at |-> 0]

-----------------------------------------------------------------------------
Admits   == poolState \notin {"stopping", "stopped"}
Alive(t) == thread[t].pc \in {"ready", "busy", "check", "detach", "retire"}
Dead(t)  == thread[t].pc = "dead"
Length(t) == Len(thread[t].queue)

Go(c, pc)         == at' = [at EXCEPT ![c] = pc]
Hold(c, t, pc)    == Go(c, pc) /\ held' = [held EXCEPT ![c] = t]
Answer(k, answer) == Go(k, "done") /\ task' = [task EXCEPT ![k].answer = answer]

\* Mutant: the counter is not a uint32.
MinusPlain(k) == count - k

\* The counter after k atomic decrements.
Minus(k) == (count + CountWidth - k) % CountWidth

-----------------------------------------------------------------------------
(* detachThread, called by a thread that retires itself, by the cleanup        *)
(* goroutine and by Stop.  Its three steps are atomic one by one.              *)

Leaving == unmapped \cup unlisted

\* LoadAndDelete: of several that would detach a thread, one does.
Unmap(t) ==
  /\ stored' = stored \ {t}
  /\ unmapped' = unmapped \cup {t}
  /\ UNCHANGED <<unlisted, listed, count>>

\* removeThreadFromList.
Unlist(t) ==
  /\ t \in unmapped
  /\ unmapped' = unmapped \ {t}
  /\ unlisted' = unlisted \cup {t}
  /\ listed' = listed \ {t}
  /\ UNCHANGED <<executor, poolState, stored, count, made, signal, scripts, thread, calls, doomed,
                 cleanup, retiring, reloader, stopper>>

\* The counter is lowered last.
Uncount(t) ==
  /\ t \in unlisted
  /\ unlisted' = unlisted \ {t}
  /\ count' = Minus(1)
  /\ UNCHANGED <<executor, poolState, stored, unmapped, listed, made, signal, scripts, thread,
                 calls, doomed, cleanup, retiring, reloader, stopper>>

-----------------------------------------------------------------------------
(* Execute.                                                                   *)

\* What selectThread may return: the thread the request names, else one that is
\* not busy, else the next of the list, if it still is in the map, else none.
Candidates(k) ==
  LET free == {t \in listed \cap stored : Length(t) < SelectAt}
      next == {IF t \in stored THEN t ELSE 0 : t \in listed}
  IN  (IF k \in Routed THEN stored ELSE {})
      \cup (IF free # {} THEN free ELSE IF next # {} THEN next ELSE {0})

\* JsExecutor.Execute refuses unless the executor is running.
Execute(k) ==
  /\ at[k] = "new"
  /\ UNCHANGED <<executor, poolState, tables, made, signal, scripts, thread, held, doomed, cleanup,
                 retiring, reloader, stopper>>
  /\ \/ executor = "running" /\ Go(k, "select") /\ UNCHANGED task
     \/ executor # "running" /\ Answer(k, "refused")

\* pool.execute and getOrCreateThread up to the decision to create a thread, with
\* the admission checks they make on the way.
Select(k) ==
  /\ at[k] = "select"
  /\ UNCHANGED <<executor, poolState, tables, made, signal, scripts, thread, doomed, cleanup,
                 retiring, reloader, stopper>>
  /\ \/ ~Admits /\ Answer(k, "refused") /\ UNCHANGED held
     \/ /\ Admits
        /\ \E t \in Candidates(k) :
             Hold(k, t, IF t # 0 /\ Length(t) < CreateAt THEN "enqueue"
                        ELSE IF count < MaxPool THEN "count" ELSE "again")
        /\ UNCHANGED task

\* No thread was created: getOrCreateThread takes what is there.
SelectAgain(k) ==
  /\ at[k] = "again"
  /\ \E t \in IF Admits THEN Candidates(k) ELSE {0} :
       IF t # 0 THEN Hold(k, t, "enqueue") /\ UNCHANGED task
                ELSE Answer(k, "noThread") /\ UNCHANGED held
  /\ UNCHANGED <<executor, poolState, tables, made, signal, scripts, thread, doomed, cleanup,
                 retiring, reloader, stopper>>

\* enqueueTask before it sends.
Enqueue(k) ==
  /\ at[k] = "enqueue"
  /\ UNCHANGED <<executor, poolState, tables, made, signal, scripts, thread, held, doomed, cleanup,
                 retiring, reloader, stopper>>
  /\ IF Admits /\ ~Dead(held[k]) THEN Go(k, "send") /\ UNCHANGED task
                                  ELSE Answer(k, "refused")

\* Mutant: the admission is looked at again after the send.
SendThenCheck(k) ==
  /\ at[k] = "send"
  /\ ~Dead(held[k]) /\ Length(held[k]) < QueueSize
  /\ thread' = [thread EXCEPT ![held[k]].queue = Append(@, k)]
  /\ IF Admits THEN Go(k, "wait") /\ UNCHANGED task ELSE Answer(k, "refused")
  /\ UNCHANGED <<executor, poolState, tables, made, signal, scripts, held, doomed, cleanup,
                 retiring, reloader, stopper>>

\* The send: it blocks while the queue is full, and panics, which is turned into
\* a refusal, when the thread is gone and has closed its queue.
Send(k) ==
  /\ at[k] = "send"
  /\ UNCHANGED <<executor, poolState, tables, made, signal, scripts, held, doomed, cleanup,
                 retiring, reloader, stopper>>
  /\ \/ Dead(held[k]) /\ Answer(k, "refused") /\ UNCHANGED thread
     \/ /\ ~Dead(held[k]) /\ Length(held[k]) < QueueSize
        /\ thread' = [thread EXCEPT ![held[k]].queue = Append(@, k)]
        /\ Go(k, "wait") /\ UNCHANGED task

\* Mutant: the wait does not watch the context.
ReceiveOnly(k) ==
  /\ at[k] = "wait"
  /\ task[k].result /\ Answer(k, "result")
  /\ UNCHANGED <<executor, poolState, tables, made, signal, scripts, thread, held, doomed, cleanup,
                 retiring, reloader, stopper>>

\* The wait for the result, given up when the context ends first.
Receive(k) ==
  /\ at[k] = "wait"
  /\ \/ task[k].result /\ Answer(k, "result")
     \/ ~task[k].result /\ k \in Bounded /\ Answer(k, "timeout")
  /\ UNCHANGED <<executor, poolState, tables, made, signal, scripts, thread, held, doomed, cleanup,
                 retiring, reloader, stopper>>

-----------------------------------------------------------------------------
(* createThread, called by Execute and by the cleanup goroutine.              *)

\* Where a caller goes on when it has its thread, and when it has none.
Created(c)    == IF c = Cleaner THEN "replenish" ELSE "enqueue"
NotCreated(c) == IF c = Cleaner THEN "failed" ELSE "again"

\* Mutant: the maximum is not looked at again.
CreateCountTrusting(c) ==
  /\ at[c] = "count" /\ made < MaxThreads
  /\ count' = (count + 1) % CountWidth
  /\ made' = made + 1
  /\ thread' = [thread EXCEPT ![made'].pc = "init"]
  /\ Hold(c, made', "init")
  /\ UNCHANGED <<executor, poolState, stored, leaving, listed, signal, scripts, task, doomed,
                 cleanup, retiring, reloader, stopper>>

\* A pool that stops admits no creation; it may begin to stop just after it was
\* asked.  The counter is the reservation: it is raised first, and a caller that
\* finds it above the maximum lowers it again.
CreateCount(c) ==
  /\ at[c] = "count"
  /\ UNCHANGED <<executor, poolState, stored, leaving, listed, signal, scripts, task, doomed,
                 cleanup, retiring, reloader, stopper>>
  /\ \/ ~Admits /\ Go(c, NotCreated(c)) /\ UNCHANGED <<count, made, thread, held>>
     \/ /\ made < MaxThreads
        /\ count' = (count + 1) % CountWidth
        /\ IF count' > MaxPool
           THEN Go(c, "uncount") /\ UNCHANGED <<made, thread, held>>
           ELSE /\ made' = made + 1
                /\ thread' = [thread EXCEPT ![made'].pc = "init"]
                /\ Hold(c, made', "init")

\* The thread did not initialise, or there was no room for it.
CreateFails(c) ==
  /\ at[c] = "uncount" \/ (at[c] = "init" /\ Dead(held[c]))
  /\ count' = Minus(1)
  /\ Go(c, NotCreated(c))
  /\ UNCHANGED <<executor, poolState, stored, leaving, listed, made, signal, scripts, thread, task,
                 held, doomed, cleanup, retiring, reloader, stopper>>

\* The new thread enters the map, whatever the pool has become.
CreateStore(c) ==
  /\ at[c] = "init" /\ Alive(held[c])
  /\ stored' = stored \cup {held[c]}
  /\ Go(c, "list")
  /\ UNCHANGED <<executor, poolState, leaving, listed, count, made, signal, scripts, thread, task,
                 held, doomed, cleanup, retiring, reloader, stopper>>

\* Then it enters the list.
CreateList(c) ==
  /\ at[c] = "list"
  /\ listed' = listed \cup {held[c]}
  /\ Go(c, Created(c))
  /\ UNCHANGED <<executor, poolState, stored, leaving, count, made, signal, scripts, thread, task,
                 held, doomed, cleanup, retiring, reloader, stopper>>

-----------------------------------------------------------------------------
(* The threads.                                                               *)

\* run: the engine is made and loads the scripts published at this moment.
ThreadInit(t) ==
  /\ thread[t].pc = "init"
  /\ \/ thread' = [thread EXCEPT ![t].pc = "ready", ![t].engine = scripts]
     \/ EngineMayFail /\ thread' = [thread EXCEPT ![t].pc = "dead"]
  /\ UNCHANGED <<executor, poolState, tables, made, signal, scripts, calls, doomed, cleanup,
                 retiring, reloader, stopper>>

\* The loop takes a task.  An action that has just arrived does not prevent it.
ThreadTake(t) ==
  /\ thread[t].pc = "ready" /\ thread[t].queue # << >>
  /\ thread' = [thread EXCEPT ![t].pc = "busy", ![t].now = Head(thread[t].queue),
                           ![t].queue = Tail(@)]
  /\ UNCHANGED <<executor, poolState, tables, made, signal, scripts, calls, doomed, cleanup,
                 retiring, reloader, stopper>>

\* executeTask ends: the result is delivered and the task counted.
ThreadFinish(t) ==
  /\ thread[t].pc = "busy"
  /\ task' = [task EXCEPT ![thread[t].now].result = TRUE, ![thread[t].now].runs = @ + 1]
  /\ thread' = [thread EXCEPT
       ![t].execs = @ + 1,
       ![t].now = NoTask,
       ![t].pc = IF MaxExecutions > 0 /\ thread[t].execs + 1 >= MaxExecutions
                 THEN "check" ELSE "ready"]
  /\ UNCHANGED <<executor, poolState, tables, made, signal, scripts, at, held, doomed, cleanup,
                 retiring, reloader, stopper>>

\* checkAndRetireIfNeeded, beginThreadRetire: the thread takes itself out of the
\* pool, unless the pool stops or another has detached it already.
ThreadCheck(t) ==
  /\ thread[t].pc = "check"
  /\ IF Admits /\ t \in stored
     THEN Unmap(t) /\ thread' = [thread EXCEPT ![t].pc = "detach"]
     ELSE thread' = [thread EXCEPT ![t].pc = "ready"] /\ UNCHANGED tables
  /\ UNCHANGED <<executor, poolState, made, signal, scripts, calls, doomed, cleanup, retiring,
                 reloader, stopper>>

\* Mutant: no replacement is asked for.
ThreadAskQuietly(t) ==
  /\ thread[t].pc = "detach" /\ t \notin Leaving
  /\ thread' = [thread EXCEPT ![t].pc = "retire"]
  /\ UNCHANGED <<executor, poolState, tables, made, signal, scripts, calls, doomed, cleanup,
                 retiring, reloader, stopper>>

\* requestReplenish: detached, it asks for a replacement and will retire.
ThreadAsk(t) ==
  /\ thread[t].pc = "detach" /\ t \notin Leaving
  /\ signal' = (signal \/ poolState = "running")
  /\ thread' = [thread EXCEPT ![t].pc = "retire"]
  /\ UNCHANGED <<executor, poolState, tables, made, scripts, calls, doomed, cleanup, retiring,
                 reloader, stopper>>

\* A stop or retire action, the thread's own or one sent to it: the goroutine
\* returns and closes its queues with whatever is in them.
ThreadStop(t) ==
  /\ thread[t].pc = "retire" \/ (thread[t].pc = "ready" /\ thread[t].inbox = "stop")
  /\ thread' = [thread EXCEPT ![t].pc = "dead"]
  /\ UNCHANGED <<executor, poolState, tables, made, signal, scripts, calls, doomed, cleanup,
                 retiring, reloader, stopper>>

\* A reload action: a new engine with the scripts published at this moment, or
\* the old one if that fails.
ThreadReload(t) ==
  /\ thread[t].pc = "ready" /\ thread[t].inbox = "reload"
  /\ \/ thread' = [thread EXCEPT ![t].inbox = "none", ![t].reply = "ok", ![t].engine = scripts]
     \/ EngineMayFail /\ thread' = [thread EXCEPT ![t].inbox = "none", ![t].reply = "failed"]
  /\ UNCHANGED <<executor, poolState, tables, made, signal, scripts, calls, doomed, cleanup,
                 retiring, reloader, stopper>>

\* The goroutine that stops or retires a thread gets its action into the
\* thread's inbox, or finds the thread gone.
SendStop(t) ==
  /\ t \in doomed /\ (Dead(t) \/ thread[t].inbox = "none")
  /\ thread' = IF Dead(t) THEN thread ELSE [thread EXCEPT ![t].inbox = "stop"]
  /\ doomed' = doomed \ {t}
  /\ UNCHANGED <<executor, poolState, tables, made, signal, scripts, calls, cleanup, retiring,
                 reloader, stopper>>

-----------------------------------------------------------------------------
(* The cleanup goroutine, retireThreads.                                      *)

\* Mutant: the goroutine does not listen to stopCleanup.
WatchDeaf ==
  /\ at[Cleaner] = "watch"
  /\ signal /\ signal' = FALSE /\ Go(Cleaner, "replenish")
  /\ UNCHANGED <<executor, poolState, tables, made, scripts, thread, task, held, doomed, cleanup,
                 retiring, reloader, stopper>>

\* The select of the goroutine: a signal, the stop of the pool, or a tick.
Watch ==
  /\ at[Cleaner] = "watch"
  /\ UNCHANGED <<executor, poolState, tables, made, scripts, thread, task, held, doomed, retiring,
                 reloader, stopper>>
  /\ \/ signal /\ signal' = FALSE /\ Go(Cleaner, "replenish") /\ UNCHANGED cleanup
     \/ ~Admits /\ Go(Cleaner, "done") /\ UNCHANGED <<signal, cleanup>>
     \/ \* performCleanup picks threads while the count it read stays above the minimum
        /\ poolState = "running" /\ count > MinPool
        /\ cleanup' \in SUBSET {t \in stored :
             IdleExpires \/ (MaxExecutions > 0 /\ thread[t].execs >= MaxExecutions)}
        /\ cleanup' # {} /\ Cardinality(cleanup') <= count - MinPool
        /\ Go(Cleaner, "cleanup") /\ UNCHANGED signal

\* It detaches those of them that are still there, one after the other.
CleanupDetach ==
  /\ at[Cleaner] = "cleanup" /\ retiring \cap Leaving = {}
  /\ \E t \in cleanup :
       /\ cleanup' = cleanup \ {t}
       /\ \/ t \in stored /\ Unmap(t) /\ retiring' = retiring \cup {t}
          \/ t \notin stored /\ UNCHANGED <<tables, retiring>>
  /\ UNCHANGED <<executor, poolState, made, signal, scripts, thread, calls, doomed, reloader,
                 stopper>>

\* It leaves the retirement of those it detached to goroutines of their own.
CleanupEnd ==
  /\ at[Cleaner] = "cleanup" /\ cleanup = {} /\ retiring \cap Leaving = {}
  /\ doomed' = doomed \cup retiring
  /\ retiring' = {}
  /\ Go(Cleaner, "watch")
  /\ UNCHANGED <<executor, poolState, tables, made, signal, scripts, thread, task, held, cleanup,
                 reloader, stopper>>

\* One turn of replenish.  A creation that fails is logged and ends it.
Replenish ==
  /\ \/ /\ at[Cleaner] = "replenish"
        /\ Go(Cleaner, IF poolState = "running" /\ count < MinPool THEN "count" ELSE "watch")
     \/ at[Cleaner] = "failed" /\ Go(Cleaner, "watch")
  /\ UNCHANGED <<executor, poolState, tables, made, signal, scripts, thread, task, held, doomed,
                 cleanup, retiring, reloader, stopper>>

-----------------------------------------------------------------------------
(* Reload and Stop, as JsExecutor lets them through.                          *)

Reloaded(ok) ==
  reloader' = [reloader EXCEPT !.pc = "end", !.todo = {}, !.at = 0, !.ok = ok]

\* JsExecutor.Reload publishes the new scripts.
Reload ==
  /\ executor = "running" /\ scripts <= MaxReloads
  /\ executor' = "reloading"
  /\ scripts' = scripts + 1
  /\ reloader' = [reloader EXCEPT !.pc = "list"]
  /\ UNCHANGED <<poolState, tables, made, signal, thread, calls, doomed, cleanup, retiring,
                 stopper>>

\* pool.reload lists the threads it will reload.
ReloadList ==
  /\ reloader.pc = "list"
  /\ IF Admits THEN reloader' = [reloader EXCEPT !.pc = "next", !.all = stored, !.todo = stored]
               ELSE Reloaded(FALSE)
  /\ UNCHANGED <<executor, poolState, tables, made, signal, scripts, thread, calls, doomed,
                 cleanup, retiring, stopper>>

\* It turns to the thread with the smallest id, unless the pool stops.
ReloadNext ==
  /\ reloader.pc = "next"
  /\ IF reloader.todo = {} THEN Reloaded(TRUE)
     ELSE IF ~Admits THEN Reloaded(FALSE)
     ELSE \E t \in reloader.todo :
            /\ \A u \in reloader.todo : t <= u
            /\ reloader' = [reloader EXCEPT !.pc = "ask", !.at = t, !.todo = @ \ {t}]
  /\ UNCHANGED <<executor, poolState, tables, made, signal, scripts, thread, calls, doomed,
                 cleanup, retiring, stopper>>

\* It sends its action and waits for the answer; a thread that is gone is an
\* error, and the first error ends the reload.
ReloadAsk ==
  /\ reloader.pc = "ask"
  /\ \/ Dead(reloader.at) /\ Reloaded(FALSE) /\ UNCHANGED thread
     \/ /\ ~Dead(reloader.at) /\ thread[reloader.at].inbox = "none"
        /\ thread' = [thread EXCEPT ![reloader.at].inbox = "reload", ![reloader.at].reply = "none"]
        /\ reloader' = [reloader EXCEPT !.pc = "reply"]
  /\ UNCHANGED <<executor, poolState, tables, made, signal, scripts, calls, doomed, cleanup,
                 retiring, stopper>>

\* Mutant: the reload goes on after a thread that failed.
ReloadReplyGoesOn ==
  /\ reloader.pc = "reply"
  /\ thread[reloader.at].reply # "none" \/ Dead(reloader.at)
  /\ reloader' = [reloader EXCEPT !.pc = "next", !.at = 0]
  /\ UNCHANGED <<executor, poolState, tables, made, signal, scripts, thread, calls, doomed,
                 cleanup, retiring, stopper>>

\* The answer, or the end of the thread, whichever it sees.
ReloadReply ==
  /\ reloader.pc = "reply"
  /\ \/ thread[reloader.at].reply = "ok" /\ reloader' = [reloader EXCEPT !.pc = "next", !.at = 0]
     \/ thread[reloader.at].reply = "failed" /\ Reloaded(FALSE)
     \/ Dead(reloader.at) /\ Reloaded(FALSE)
  /\ UNCHANGED <<executor, poolState, tables, made, signal, scripts, thread, calls, doomed,
                 cleanup, retiring, stopper>>

\* JsExecutor.Reload goes on: back to running, or to the stop asked for meanwhile.
ReloadEnd ==
  /\ reloader.pc = "end"
  /\ reloader' = [reloader EXCEPT !.pc = "idle"]
  /\ IF stopper.pc = "requested"
     THEN executor' = "stopping" /\ stopper' = [stopper EXCEPT !.pc = "begin"]
     ELSE executor' = "running" /\ UNCHANGED stopper
  /\ UNCHANGED <<poolState, tables, made, signal, scripts, thread, calls, doomed, cleanup,
                 retiring>>

\* JsExecutor.Stop, on a running or a reloading executor.
Stop ==
  /\ StopMayCome /\ stopper.pc = "idle"
  /\ IF executor = "reloading"
     THEN /\ poolState' = "stopping" /\ stopper' = [stopper EXCEPT !.pc = "requested"]
          /\ UNCHANGED executor
     ELSE /\ executor' = "stopping" /\ stopper' = [stopper EXCEPT !.pc = "begin"]
          /\ UNCHANGED poolState
  /\ UNCHANGED <<tables, made, signal, scripts, thread, calls, doomed, cleanup, retiring,
                 reloader>>

\* pool.stop closes the admission.
StopBegin ==
  /\ stopper.pc = "begin"
  /\ poolState' = "stopping"
  /\ stopper' = [stopper EXCEPT !.pc = "list"]
  /\ UNCHANGED <<executor, tables, made, signal, scripts, thread, calls, doomed, cleanup, retiring,
                 reloader>>

\* It lists the threads of the map.
StopList ==
  /\ stopper.pc = "list"
  /\ stopper' = [stopper EXCEPT !.pc = "detach", !.todo = stored]
  /\ UNCHANGED <<executor, poolState, tables, made, signal, scripts, thread, calls, doomed,
                 cleanup, retiring, reloader>>

\* It detaches them, in the order of their ids; one that has left is passed over.
StopDetach ==
  /\ stopper.pc = "detach" \/ (stopper.pc = "leave" /\ stopper.at \notin Leaving)
  /\ \E t \in stopper.todo :
       /\ t > stopper.at /\ \A u \in stopper.todo : u <= stopper.at \/ t <= u
       /\ \/ t \in stored /\ Unmap(t) /\ stopper' = [stopper EXCEPT !.pc = "leave", !.at = t]
          \/ /\ t \notin stored /\ UNCHANGED tables
             /\ stopper' = [stopper EXCEPT !.pc = "detach", !.at = t]
  /\ UNCHANGED <<executor, poolState, made, signal, scripts, thread, calls, doomed, cleanup,
                 retiring, reloader>>

\* stopThreadsParallel: it has all of them stopped.
StopThreads ==
  /\ stopper.pc = "detach" \/ (stopper.pc = "leave" /\ stopper.at \notin Leaving)
  /\ \A t \in stopper.todo : t <= stopper.at
  /\ stopper' = [stopper EXCEPT !.pc = "join", !.at = 0]
  /\ doomed' = doomed \cup stopper.todo
  /\ UNCHANGED <<executor, poolState, tables, made, signal, scripts, thread, calls, cleanup,
                 retiring, reloader>>

\* When those are gone, and the cleanup goroutine is, it clears the tables.
StopJoin ==
  /\ stopper.pc = "join"
  /\ \A t \in stopper.todo : Dead(t)
  /\ at[Cleaner] = "done"
  /\ stored' = {} /\ listed' = {} /\ count' = 0
  /\ poolState' = "stopped" /\ executor' = "stopped"
  /\ stopper' = [stopper EXCEPT !.pc = "done", !.todo = {}]
  /\ UNCHANGED <<leaving, made, signal, scripts, thread, calls, doomed, cleanup, retiring,
                 reloader>>

-----------------------------------------------------------------------------
Create(c) == CreateCount(c) \/ CreateFails(c) \/ CreateStore(c) \/ CreateList(c)

Call(k) == Select(k) \/ SelectAgain(k) \/ Enqueue(k) \/ Send(k) \/ Receive(k) \/ Create(k)

Detach(t) == Unlist(t) \/ Uncount(t)

Run(t) == ThreadInit(t) \/ ThreadTake(t) \/ ThreadFinish(t) \/ ThreadCheck(t) \/ ThreadAsk(t)
          \/ ThreadStop(t) \/ ThreadReload(t)

Clean == Watch \/ CleanupDetach \/ CleanupEnd \/ Replenish \/ Create(Cleaner)

Reloading == ReloadList \/ ReloadNext \/ ReloadAsk \/ ReloadReply \/ ReloadEnd

Stopping == StopBegin \/ StopList \/ StopDetach \/ StopThreads \/ StopJoin

Next ==
  \/ \E k \in Tasks : Execute(k) \/ Call(k)
  \/ \E t \in Threads : Run(t) \/ Detach(t) \/ SendStop(t)
  \/ Clean \/ Reload \/ Reloading \/ Stop \/ Stopping

Spec == Init /\ [][Next]_vars

\* Every goroutine that can go on does: a script comes to an end, an engine loads
\* or fails, a deadline passes.  New requests, reloads and stops need not come.
Fairness ==
  /\ \A k \in Tasks : WF_vars(Call(k))
  /\ \A t \in Threads : WF_vars(Run(t)) /\ WF_vars(Detach(t)) /\ WF_vars(SendStop(t))
  /\ WF_vars(Clean) /\ WF_vars(Reloading) /\ WF_vars(Stopping)

FairSpec == Spec /\ Fairness

-----------------------------------------------------------------------------
(* Properties.                                                                *)

TypeOK ==
  /\ executor \in {"running", "reloading", "stopping", "stopped"}
  /\ poolState \in {"running", "stopping", "stopped"}
  /\ stored \subseteq Threads /\ listed \subseteq Threads
  /\ unmapped \subseteq Threads /\ unlisted \subseteq Threads
  /\ count \in 0..(CountWidth - 1) /\ made \in Threads
  /\ signal \in BOOLEAN /\ scripts \in 1..(MaxReloads + 1)
  /\ thread \in [Threads -> ThreadRecord]
  /\ task \in [Tasks -> TaskRecord]
  /\ at \in [Callers -> Pcs] /\ held \in [Callers -> Threads \cup {0}]
  /\ doomed \subseteq Threads /\ cleanup \subseteq Threads /\ retiring \subseteq Threads
  /\ reloader \in [pc : {"idle", "list", "next", "ask", "reply", "end"},
                   all : SUBSET Threads, todo : SUBSET Threads, at : Threads \cup {0},
                   ok : BOOLEAN]
  /\ stopper \in [pc : {"idle", "requested", "begin", "list", "detach", "leave", "join", "done"},
                  todo : SUBSET Threads, at : Threads \cup {0}]

Creating == {c \in Callers : at[c] = "init"}

\* Requests and the cleanup goroutine that create threads at once never make the
\* pool larger than maxPoolSize: the counter is raised before the thread is made
\* and never misses one that is in the pool or on its way into it.
PoolBounded ==
  Admits => /\ Cardinality(stored) + Cardinality(Creating) <= MaxPool
            /\ Cardinality(stored) + Cardinality(Creating) <= count

\* A request is run at most once; one that got a result was run, and one told that
\* the pool stops or has no thread was not, so its caller may safely ask again.
RunOnce ==
  \A k \in Tasks :
    /\ task[k].runs <= 1
    /\ task[k].answer = "result" => task[k].runs = 1
    /\ task[k].answer \in {"refused", "noThread"} => task[k].runs = 0

\* Reload reloads all threads: after one that succeeded, every thread of the pool
\* runs the scripts it published.
ReloadReachesAll ==
  executor = "running" /\ reloader.ok => \A t \in stored : thread[t].engine = scripts

\* The threads it listed do: a reload that answers without an error has reached
\* each of them that still runs.
ReloadReachesListed ==
  executor = "running" /\ reloader.ok =>
    \A t \in reloader.all : Alive(t) => thread[t].engine = scripts

\* A call of Execute whose context has a deadline comes back, whatever becomes of the
\* thread that has its task and of the calls that have no deadline.
ExecuteReturns == \A k \in Bounded : at[k] \notin {"new", "done"} ~> at[k] = "done"

\* A stop ends, whatever the reload, the cleanup goroutine and the threads are
\* doing when it comes.
StopEnds == stopper.pc \in {"requested", "begin"} ~> poolState = "stopped"

Asking(t) == thread[t].pc = "detach" /\ t \notin Leaving

\* A replacement that is asked for is not forgotten: when a thread has retired and
\* left the pool below its minimum, the pool gets back to it, whatever the cleanup
\* goroutine is doing when it is asked, unless the pool stops or the creation fails,
\* which ends the replenishment and is logged.
PoolRefilled ==
  count < MinPool /\ (signal \/ \E t \in Threads : Asking(t))
    ~> (count >= MinPool \/ ~Admits \/ at[Cleaner] = "failed")

=============================================================================
