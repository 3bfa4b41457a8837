----------------------------- MODULE JobLifecycle -----------------------------
(* What all dispatchers of a job table together promise of a job: it is held by *)
(* one of them at a time, called only then and only for a recorded attempt,     *)
(* and its row changes in no other way than these.                              *)
EXTENDS Naturals

CONSTANTS
    Jobs,
    Budget      \* job -> the attempts it may have (0: any number)

VARIABLES
    status,     \* per job, absent, queued, dispatching or how it ended
    attempts,   \* per job, the attempts recorded
    calls,      \* per job, the times its worker was called
    held,       \* the jobs that a dispatcher answers for
    leaving     \* the jobs that a client saw queued and is about to cancel

Init == /\ status   = [j \in Jobs |-> "absent"]
        /\ attempts = [j \in Jobs |-> 0]
        /\ calls    = [j \in Jobs |-> 0]
        /\ held = {} /\ leaving = {}

Become(j, s) == status' = [status EXCEPT ![j] = s]

Submit(j) == /\ status[j] = "absent" /\ Become(j, "queued")
             /\ UNCHANGED <<attempts, calls, held, leaving>>

\* A claim, and one whose answer is lost: nobody holds that job again.
Take(j) == /\ status[j] = "queued" /\ j \notin held /\ Become(j, "dispatching")
           /\ held' \in {held, held \cup {j}}
           /\ UNCHANGED <<attempts, calls, leaving>>

Attempt(j) == /\ j \in held
              /\ Budget[j] > 0 => attempts[j] < Budget[j]
              /\ attempts' = [attempts EXCEPT ![j] = @ + 1]
              /\ UNCHANGED <<status, calls, held, leaving>>

Call(j) == /\ j \in held /\ calls[j] < attempts[j]
           /\ calls' = [calls EXCEPT ![j] = @ + 1]
           /\ UNCHANGED <<status, attempts, held, leaving>>

\* The dispatcher that holds the job ends it or puts it back.  It need not have
\* heard that the job was withdrawn.
Settle(j) == /\ j \in held /\ status[j] \in {"dispatching", "cancelled"}
             /\ \E s \in {"queued", "succeeded", "failed", "cancelled"} : Become(j, s)
             /\ held' = held \ {j}
             /\ UNCHANGED <<attempts, calls, leaving>>

\* A failed statement loses one job, a crash all that the process holds.
Drop == /\ held' \in SUBSET held
        /\ UNCHANGED <<status, attempts, calls, leaving>>

Notice(j) == /\ status[j] = "queued" /\ leaving' = leaving \cup {j}
             /\ UNCHANGED <<status, attempts, calls, held>>

Withdraw(j) == /\ j \in leaving /\ leaving' = leaving \ {j}
               /\ Become(j, "cancelled")
               /\ UNCHANGED <<attempts, calls, held>>

Next == \/ Drop
        \/ \E j \in Jobs : \/ Submit(j) \/ Take(j) \/ Attempt(j) \/ Call(j) \/ Settle(j)
                           \/ Notice(j) \/ Withdraw(j)

Spec == Init /\ [][Next]_<<status, attempts, calls, held, leaving>>

===============================================================================
