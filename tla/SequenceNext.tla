---------------------------- MODULE SequenceNext ----------------------------
(* Sequence.Next and CleanupIdempotency of the base module, for one active   *)
(* sequence: concurrent calls take ranges of numbers and keep, under an      *)
(* idempotency key, the range a repeated call is answered with.              *)
(*                                                                           *)
(* Each call is one READ COMMITTED transaction.  A call that has updated     *)
(* NextNumber holds the row lock until it commits; the calls behind it wait. *)
(* What it writes shows at its commit, which is therefore one action with    *)
(* its last statement, and every other end is a rollback.                    *)
EXTENDS Integers, FiniteSets

CONSTANTS
    Requests,      \* calls of Sequence.Next
    Keys,          \* idempotency keys
    Counts,        \* how many numbers a call may ask for
    First,         \* NextNumber of the new sequence
    MaxTries,      \* attempts of allocateRangeAtomic (20)
    RaiseLimit,    \* how far NextNumber is raised by hand
    ExpiredRaces,  \* two calls in flight may have found one expired record
    None

ASSUME SequenceAssumption ==
    /\ Counts \subseteq Nat \ {0}
    /\ {First, RaiseLimit} \subseteq Nat
    /\ MaxTries \in Nat \ {0}
    /\ ExpiredRaces \in BOOLEAN
    /\ None \notin Requests \cup Keys

VARIABLES
    next,    \* NextNumber as committed
    lock,    \* the call that has updated NextNumber and not committed, or None
    record,  \* [Keys -> row of base_sequence_idempotency]
    call,    \* [Requests -> the call: what it asks for and where it is]
    issued,  \* the calls answered with a range of their own
    given    \* [Keys -> ranges answered since the key's record last expired]

vars == <<next, lock, record, call, issued, given>>

----------------------------------------------------------------------------
Steps == {"new", "find", "allocate", "commit", "replace", "create", "conflict",
          "replace_again", "done"}

Call == [step : Steps, key : Keys \cup {None}, count : Nat, seen : Nat, tries : Nat,
         start : Nat, old : Requests \cup {None}]

\* A row is named after the call that created it.
Row == [id : Requests \cup {None}, start : Nat, count : Nat, expired : BOOLEAN]

NoCall == [step |-> "new", key |-> None, count |-> 0, seen |-> 0, tries |-> 0,
           start |-> 0, old |-> None]
NoRow == [id |-> None, start |-> 0, count |-> 0, expired |-> FALSE]

Init ==
    /\ next = First
    /\ lock = None
    /\ record = [k \in Keys |-> NoRow]
    /\ call = [r \in Requests |-> NoCall]
    /\ issued = {}
    /\ given = [k \in Keys |-> {}]

Numbers(r) == call[r].start .. (call[r].start + call[r].count - 1)

At(r, step) == call[r].step = step

\* Call r becomes c; nothing else of the database changes.
Goes(r, c) ==
    /\ call' = [call EXCEPT ![r] = c]
    /\ UNCHANGED <<next, lock, record, issued, given>>

\* No other call in flight holds on to the expired record of r's key.
AloneWithExpired(r) ==
    ExpiredRaces \/ \A o \in Requests \ {r} :
                        call[o].key = call[r].key => call[o].old = None \/ At(o, "done")

----------------------------------------------------------------------------
(* Before the allocation *)

\* resolveSequence reads the row, NextNumber included.
Resolve(r) ==
    /\ At(r, "new")
    /\ \E k \in Keys \cup {None}, n \in Counts :
         Goes(r, [NoCall EXCEPT !.step = "find", !.key = k, !.count = n, !.seen = next])

Recorded(k) == k \in Keys /\ record[k].id # None
Replayable(k) == Recorded(k) /\ ~record[k].expired
RangeOf(k) == [start |-> record[k].start, count |-> record[k].count]

\* assertIdempotencyRequestMatch: another request under the key fails.
Matches(r) == record[call[r].key].count = call[r].count

\* An unexpired record answers the call.
Replay(r) ==
    LET k == call[r].key IN
    /\ At(r, "find")
    /\ Replayable(k)
    /\ Matches(r)
    /\ call' = [call EXCEPT ![r] = [@ EXCEPT !.step = "done"]]
    /\ given' = [given EXCEPT ![k] = @ \cup {RangeOf(k)}]
    /\ UNCHANGED <<next, lock, record, issued>>

\* No key or no record, or an expired record, whose id the call keeps.
Miss(r) ==
    LET k == call[r].key IN
    /\ At(r, "find")
    /\ \/ /\ ~Recorded(k)
          /\ Goes(r, [call[r] EXCEPT !.step = "allocate"])
       \/ /\ Recorded(k) /\ record[k].expired
          /\ AloneWithExpired(r)
          /\ Goes(r, [call[r] EXCEPT !.step = "allocate", !.old = record[k].id])

\* A dry run that is not refused by a record previews the number it read and
\* ends.
Preview(r) ==
    /\ At(r, "find")
    /\ ~Replayable(call[r].key)
    /\ Goes(r, [call[r] EXCEPT !.step = "done"])

----------------------------------------------------------------------------
(* allocateRangeAtomic *)

\* What is to be done once the range is taken.
AfterRange(c) ==
    IF c.key = None THEN "commit" ELSE IF c.old = None THEN "create" ELSE "replace"

\* Mutant: the update does not test NextNumber.
AllocateUntested(r) ==
    /\ At(r, "allocate")
    /\ lock = None
    /\ lock' = r
    /\ call' = [call EXCEPT ![r] = [@ EXCEPT !.start = call[r].seen, !.step = AfterRange(call[r])]]
    /\ UNCHANGED <<next, record, issued, given>>

\* The conditional update finds NextNumber as it was read; it waits for the
\* row lock.
Allocate(r) ==
    /\ At(r, "allocate")
    /\ lock = None
    /\ next = call[r].seen
    /\ lock' = r
    /\ call' = [call EXCEPT ![r] = [@ EXCEPT !.start = next, !.step = AfterRange(call[r])]]
    /\ UNCHANGED <<next, record, issued, given>>

\* Mutant: the attempts are not counted.
RereadForever(r) ==
    /\ At(r, "allocate")
    /\ next # call[r].seen
    /\ Goes(r, [call[r] EXCEPT !.seen = next, !.tries = @ + 1])

\* The update finds another number: the row is read again.
Reread(r) ==
    /\ At(r, "allocate")
    /\ next # call[r].seen
    /\ call[r].tries + 1 < MaxTries
    /\ Goes(r, [call[r] EXCEPT !.seen = next, !.tries = @ + 1])

----------------------------------------------------------------------------
(* After the allocation: the record of the key, and the commit *)

\* Mutant: NextNumber is set to the last number of the range.
IssueToLast(r) ==
    /\ next' = call[r].start + call[r].count - 1
    /\ lock' = None
    /\ issued' = issued \cup {r}
    /\ call' = [call EXCEPT ![r] = [@ EXCEPT !.step = "done"]]

\* The commit of a call that is answered with the range it took.
Issue(r) ==
    /\ next' = call[r].start + call[r].count
    /\ lock' = None
    /\ issued' = issued \cup {r}
    /\ call' = [call EXCEPT ![r] = [@ EXCEPT !.step = "done"]]

OwnRange(r) == [start |-> call[r].start, count |-> call[r].count]

IssueUnder(r, id) ==
    LET k == call[r].key IN
    /\ Issue(r)
    /\ record' = [record EXCEPT ![k] = [id |-> id, start |-> call[r].start,
                                        count |-> call[r].count, expired |-> FALSE]]
    /\ given' = [given EXCEPT ![k] = @ \cup {OwnRange(r)}]

Commit(r) ==
    /\ At(r, "commit")
    /\ Issue(r)
    /\ UNCHANGED <<record, given>>

\* UpdateById of the expired record the call found.
Replace(r) ==
    /\ At(r, "replace") \/ At(r, "replace_again")
    /\ record[call[r].key].id = call[r].old
    /\ IssueUnder(r, call[r].old)

\* The expired record is gone: UpdateById throws, a record is created.
ReplaceMisses(r) ==
    /\ At(r, "replace")
    /\ record[call[r].key].id # call[r].old
    /\ Goes(r, [call[r] EXCEPT !.step = "create", !.old = None])

\* Mutant: a conflict with an existing record is not noticed.
CreateAnyway(r) ==
    /\ At(r, "create")
    /\ IssueUnder(r, r)

Create(r) ==
    /\ At(r, "create")
    /\ ~Recorded(call[r].key)
    /\ IssueUnder(r, r)

\* The unique index refuses a second record of the key.  Where a failed
\* statement ends the transaction (PostgreSQL), the call fails instead.
CreateConflicts(r) ==
    /\ At(r, "create")
    /\ Recorded(call[r].key)
    /\ Goes(r, [call[r] EXCEPT !.step = "conflict"])

\* The record of the call that was faster answers; the range taken is skipped.
ReplayWinner(r) ==
    LET k == call[r].key IN
    /\ At(r, "conflict")
    /\ Replayable(k)
    /\ Matches(r)
    /\ next' = call[r].start + call[r].count
    /\ lock' = None
    /\ call' = [call EXCEPT ![r] = [@ EXCEPT !.step = "done"]]
    /\ given' = [given EXCEPT ![k] = @ \cup {RangeOf(k)}]
    /\ UNCHANGED <<record, issued>>

FindExpired(r) ==
    LET k == call[r].key IN
    /\ At(r, "conflict")
    /\ Recorded(k) /\ record[k].expired
    /\ AloneWithExpired(r)
    /\ Goes(r, [call[r] EXCEPT !.step = "replace_again", !.old = record[k].id])

\* An error, a conflict, a timeout or the loss of the server: the transaction
\* is rolled back.
Fail(r) ==
    /\ ~At(r, "new") /\ ~At(r, "done")
    /\ lock' = IF lock = r THEN None ELSE lock
    /\ call' = [call EXCEPT ![r] = [@ EXCEPT !.step = "done"]]
    /\ UNCHANGED <<next, record, issued, given>>

----------------------------------------------------------------------------
(* The rest of the system *)

\* A user raises NextNumber.  Lowering it may reuse numbers, as its help says.
Raise ==
    /\ lock = None
    /\ \E n \in next + 1 .. RaiseLimit : next' = n
    /\ UNCHANGED <<lock, record, call, issued, given>>

Expire(k) ==
    /\ Replayable(k)
    /\ record' = [record EXCEPT ![k] = [@ EXCEPT !.expired = TRUE]]
    /\ given' = [given EXCEPT ![k] = {}]
    /\ UNCHANGED <<next, lock, call, issued>>

CleanupIdempotency ==
    /\ \E k \in Keys : Recorded(k) /\ record[k].expired
    /\ record' = [k \in Keys |-> IF record[k].expired THEN NoRow ELSE record[k]]
    /\ UNCHANGED <<next, lock, call, issued, given>>

SequenceCall(r) ==
    \/ Resolve(r) \/ Replay(r) \/ Miss(r) \/ Preview(r)
    \/ Allocate(r) \/ Reread(r) \/ Commit(r)
    \/ Replace(r) \/ ReplaceMisses(r) \/ Create(r) \/ CreateConflicts(r)
    \/ ReplayWinner(r) \/ FindExpired(r) \/ Fail(r)

Next ==
    \/ \E r \in Requests : SequenceCall(r)
    \/ Raise
    \/ \E k \in Keys : Expire(k)
    \/ CleanupIdempotency

Spec == Init /\ [][Next]_vars

----------------------------------------------------------------------------
(* Properties *)

\* The rows and calls have their types; a call tries to allocate at most
\* MaxTries times.
TypeOK ==
    /\ next \in Nat
    /\ lock \in Requests \cup {None}
    /\ record \in [Keys -> Row]
    /\ call \in [Requests -> Call]
    /\ \A r \in Requests : call[r].tries < MaxTries
    /\ issued \in SUBSET Requests
    /\ given \in [Keys -> SUBSET [start : Nat, count : Nat]]

\* Two calls are never answered with a common number of their own, and none
\* of these numbers is still to be issued, whatever calls overlap or fail.
RangesDisjoint ==
    /\ \A r, s \in issued : r # s => Numbers(r) \cap Numbers(s) = {}
    /\ \A r \in issued : \A n \in Numbers(r) : n < next

\* Within the lifetime of its record an idempotency key stands for one range:
\* a repeated call gets the numbers of the first and takes none of its own.
OneRangePerKey == \A k \in Keys : Cardinality(given[k]) <= 1

\* A sequence is an allocator that never issues a number twice: each commit
\* issues or skips the numbers from NextNumber on, everything else (rollbacks,
\* replays, lost updates) leaves the allocator as it was.
IssuedNumbers == UNION {Numbers(r) : r \in issued}

Allocator == INSTANCE NumberAllocator WITH issued <- IssuedNumbers

ImplementsAllocator == Allocator!Spec

============================================================================
