------------------------- MODULE SequenceNextProofs -------------------------
(* For any number of calls, keys and retries: calls are never answered with  *)
(* a common number, and a sequence implements NumberAllocator.  The argument *)
(* is the row lock: from its update of NextNumber to its end a call holds    *)
(* it, and the range it took starts at the committed NextNumber.             *)
EXTENDS SequenceNext, FiniteSetTheorems, TLAPS

\* The steps of a call that has taken a range and not committed.
Held == {"commit", "replace", "create", "conflict", "replace_again"}

Asks == \A r \in Requests : ~At(r, "new") => call[r].count \in Counts

Holds == \A r \in Requests :
            call[r].step \in Held => lock = r /\ call[r].start = next

Ended == \A r \in issued : At(r, "done")

IInv == TypeOK /\ Asks /\ Holds /\ Ended /\ RangesDisjoint

----------------------------------------------------------------------------
(* The shapes of a call's steps: call r becomes c, and ... *)

Moves(r, c) ==
    /\ call' = [call EXCEPT ![r] = c]
    /\ c \in Call
    /\ c.step # "new" /\ c.count \in Counts
    /\ c.tries < MaxTries

\* ... the database stays as it is, or gets its lock back by a rollback.
Quiet(r, c) ==
    /\ Moves(r, c)
    /\ ~At(r, "done")
    /\ c.step \in Held => call[r].step \in Held /\ c.start = call[r].start /\ lock' = lock
    /\ lock' = lock \/ (lock = r /\ lock' = None)
    /\ UNCHANGED <<next, issued>>

\* ... it takes its range and the row lock.
Locks(r, c) ==
    /\ Moves(r, c)
    /\ At(r, "allocate")
    /\ lock = None /\ lock' = r
    /\ c.start = next
    /\ UNCHANGED <<next, issued>>

\* ... it commits, answered with its range or not.
Commits(r, c) ==
    /\ Moves(r, c)
    /\ call[r].step \in Held
    /\ c.step = "done" /\ c.start = call[r].start /\ c.count = call[r].count
    /\ next' = call[r].start + call[r].count
    /\ lock' = None
    /\ issued' = issued \/ issued' = issued \cup {r}

Shaped(r) == \E c \in Call : Quiet(r, c) \/ Locks(r, c) \/ Commits(r, c)

Rows == /\ record' \in [Keys -> Row]
        /\ given' \in [Keys -> SUBSET [start : Nat, count : Nat]]

LEMMA GoesShape ==
    ASSUME IInv, NEW r \in Requests, NEW c \in Call, Goes(r, c), ~At(r, "done"),
           c.step # "new", c.step \in Held => call[r].step \in Held /\ c.start = call[r].start,
           c.count \in Counts, c.tries < MaxTries
    PROVE  Shaped(r) /\ Rows
<1>1. Quiet(r, c)
  BY DEF Goes, Quiet, Moves
<1>2. Rows
  BY DEF Goes, Rows, IInv, TypeOK
<1> QED
  BY <1>1, <1>2 DEF Shaped

LEMMA DoneShape ==
    ASSUME IInv, NEW r \in Requests, ~At(r, "new"),
           call' = [call EXCEPT ![r] = [@ EXCEPT !.step = "done"]]
    PROVE  Moves(r, [call[r] EXCEPT !.step = "done"])
  BY DEF IInv, TypeOK, Asks, At, Call, Moves, Steps

LEMMA IssueShape ==
    ASSUME IInv, NEW r \in Requests, Issue(r), call[r].step \in Held
    PROVE  Shaped(r)
<1> DEFINE c == [call[r] EXCEPT !.step = "done"]
<1>1. Moves(r, c)
  BY DoneShape DEF Issue, At, Held
<1>2. Commits(r, c)
  BY <1>1 DEF Commits, Issue, IInv, TypeOK, Call
<1> QED
  BY <1>1, <1>2 DEF Shaped, Moves

LEMMA IssueUnderShape ==
    ASSUME IInv, NEW r \in Requests, NEW id \in Requests \cup {None},
           IssueUnder(r, id), call[r].step \in Held
    PROVE  Shaped(r) /\ Rows
<1>1. Shaped(r)
  BY IssueShape DEF IssueUnder
<1>2. call[r].start \in Nat /\ call[r].count \in Nat
  BY DEF IInv, TypeOK, Call
<1>3. [id |-> id, start |-> call[r].start, count |-> call[r].count, expired |-> FALSE] \in Row
  BY <1>2 DEF Row
<1>4. OwnRange(r) \in [start : Nat, count : Nat]
  BY <1>2 DEF OwnRange
<1>5. Rows
  BY <1>3, <1>4 DEF IssueUnder, Rows, IInv, TypeOK
<1> QED
  BY <1>1, <1>5

\* Every action of a call has one of the shapes.
LEMMA CallShape ==
    ASSUME IInv, NEW r \in Requests, SequenceCall(r)
    PROVE  Shaped(r) /\ Rows
<1> USE DEF At
<1>t. call[r] \in Call /\ next \in Nat
  BY DEF IInv, TypeOK
<1>n. ~At(r, "new") => call[r].count \in Counts
  BY DEF IInv, Asks
<1>m. call[r].tries < MaxTries /\ 0 < MaxTries
  BY SequenceAssumption DEF IInv, TypeOK
<1>k. \A k \in Keys : record[k] \in Row
  BY DEF IInv, TypeOK
<1>1. CASE Resolve(r)
  <2> PICK k \in Keys \cup {None}, n \in Counts :
        Goes(r, [NoCall EXCEPT !.step = "find", !.key = k, !.count = n, !.seen = next])
    BY <1>1 DEF Resolve
  <2> DEFINE c == [NoCall EXCEPT !.step = "find", !.key = k, !.count = n, !.seen = next]
  <2>1. c \in Call /\ c.step = "find" /\ c.count \in Counts /\ c.tries < MaxTries
    BY <1>t, <1>m, SequenceAssumption DEF Call, NoCall, Steps
  <2> QED
    BY <2>1, <1>1, GoesShape DEF Resolve, Held
<1>2. CASE Replay(r)
  <2> DEFINE c == [call[r] EXCEPT !.step = "done"]
  <2>1. Moves(r, c)
    BY <1>2, DoneShape DEF Replay
  <2>2. Quiet(r, c)
    BY <1>2, <2>1, <1>t DEF Replay, Quiet, Held, Call
  <2>3. RangeOf(call[r].key) \in [start : Nat, count : Nat]
    BY <1>2, <1>k DEF Replay, Replayable, Recorded, RangeOf, Row
  <2>4. Rows
    BY <1>2, <2>3 DEF Replay, Rows, IInv, TypeOK
  <2> QED
    BY <2>1, <2>2, <2>4 DEF Shaped, Moves
<1>3. CASE Miss(r)
  <2> DEFINE c == [call[r] EXCEPT !.step = "allocate"]
  <2> DEFINE d == [call[r] EXCEPT !.step = "allocate", !.old = record[call[r].key].id]
  <2>1. c \in Call /\ c.step = "allocate" /\ c.count = call[r].count /\ c.tries = call[r].tries
    BY <1>t DEF Call, Steps
  <2>2. ASSUME Recorded(call[r].key)
        PROVE  d \in Call /\ d.step = "allocate" /\ d.count = call[r].count /\ d.tries = call[r].tries
    BY <1>t, <1>k, <2>2 DEF Call, Steps, Recorded, Row
  <2>3. Goes(r, c) \/ (Recorded(call[r].key) /\ Goes(r, d))
    BY <1>3 DEF Miss
  <2>4. call[r].step = "find" /\ call[r].count \in Counts
    BY <1>3, <1>n DEF Miss
  <2>5. CASE Goes(r, c)
    BY <2>1, <2>4, <2>5, <1>m, GoesShape DEF Held
  <2>6. CASE Recorded(call[r].key) /\ Goes(r, d)
    BY <2>2, <2>4, <2>6, <1>m, GoesShape DEF Held
  <2> QED
    BY <2>3, <2>5, <2>6
<1>4. CASE Preview(r)
  <2> DEFINE c == [call[r] EXCEPT !.step = "done"]
  <2>1. c \in Call /\ c.step = "done" /\ c.count = call[r].count /\ c.tries = call[r].tries
    BY <1>t DEF Call, Steps
  <2> QED
    BY <1>4, <2>1, <1>n, <1>m, GoesShape DEF Preview, Held
<1>5. CASE Allocate(r)
  <2> DEFINE c == [call[r] EXCEPT !.start = next, !.step = AfterRange(call[r])]
  <2>1. AfterRange(call[r]) \in {"commit", "create", "replace"}
    BY DEF AfterRange
  <2>2. c \in Call /\ c.step # "new" /\ c.count = call[r].count
        /\ c.tries = call[r].tries /\ c.start = next
    BY <1>t, <2>1 DEF Call, Steps
  <2>3. call' = [call EXCEPT ![r] = c]
    BY <1>5 DEF Allocate
  <2>4. Locks(r, c)
    BY <1>5, <1>n, <1>m, <2>2, <2>3 DEF Allocate, Locks, Moves
  <2>5. Rows
    BY <1>5 DEF Allocate, Rows, IInv, TypeOK
  <2> QED
    BY <2>2, <2>4, <2>5 DEF Shaped
<1>6. CASE Reread(r)
  <2> PICK n \in Nat : n = call[r].tries + 1
    BY <1>t DEF Call
  <2> DEFINE c == [call[r] EXCEPT !.seen = next, !.tries = n]
  <2>1. call[r].tries \in Nat /\ call[r].tries + 1 < MaxTries /\ call[r].step = "allocate"
    BY <1>6, <1>t DEF Reread, Call
  <2>2. c \in Call
    BY <2>1, <1>t DEF Call
  <2>3. c.step = "allocate" /\ c.count = call[r].count /\ c.tries = n
    BY <2>1, <1>t DEF Call
  <2> QED
    BY <1>6, <2>1, <2>2, <2>3, <1>n, GoesShape DEF Reread, Held
<1>7. CASE Commit(r)
  <2>1. Shaped(r)
    BY <1>7, IssueShape DEF Commit, Held
  <2>2. Rows
    BY <1>7 DEF Commit, Rows, IInv, TypeOK
  <2> QED
    BY <2>1, <2>2
<1>8. CASE Replace(r)
  <2>1. call[r].old \in Requests \cup {None}
    BY <1>t DEF Call
  <2> QED
    BY <1>8, <2>1, IssueUnderShape DEF Replace, Held
<1>9. CASE ReplaceMisses(r)
  <2> DEFINE c == [call[r] EXCEPT !.step = "create", !.old = None]
  <2>1. c \in Call /\ c.step = "create" /\ c.count = call[r].count
        /\ c.tries = call[r].tries /\ c.start = call[r].start
    BY <1>t DEF Call, Steps
  <2> QED
    BY <1>9, <2>1, <1>n, <1>m, GoesShape DEF ReplaceMisses, Held
<1>10. CASE Create(r)
  BY <1>10, IssueUnderShape DEF Create, Held
<1>11. CASE CreateConflicts(r)
  <2> DEFINE c == [call[r] EXCEPT !.step = "conflict"]
  <2>1. c \in Call /\ c.step = "conflict" /\ c.count = call[r].count
        /\ c.tries = call[r].tries /\ c.start = call[r].start
    BY <1>t DEF Call, Steps
  <2> QED
    BY <1>11, <2>1, <1>n, <1>m, GoesShape DEF CreateConflicts, Held
<1>12. CASE ReplayWinner(r)
  <2> DEFINE c == [call[r] EXCEPT !.step = "done"]
  <2>1. Moves(r, c)
    BY <1>12, DoneShape DEF ReplayWinner
  <2>2. Commits(r, c)
    BY <1>12, <2>1, <1>t DEF ReplayWinner, Commits, Held, Call
  <2>3. RangeOf(call[r].key) \in [start : Nat, count : Nat]
    BY <1>12, <1>k DEF ReplayWinner, Replayable, Recorded, RangeOf, Row
  <2>4. Rows
    BY <1>12, <2>3 DEF ReplayWinner, Rows, IInv, TypeOK
  <2> QED
    BY <2>1, <2>2, <2>4 DEF Shaped, Moves
<1>13. CASE FindExpired(r)
  <2> DEFINE c == [call[r] EXCEPT !.step = "replace_again", !.old = record[call[r].key].id]
  <2>1. c \in Call /\ c.step = "replace_again" /\ c.count = call[r].count
        /\ c.tries = call[r].tries /\ c.start = call[r].start
    BY <1>13, <1>t, <1>k DEF FindExpired, Recorded, Row, Call, Steps
  <2> QED
    BY <1>13, <2>1, <1>n, <1>m, GoesShape DEF FindExpired, Held
<1>14. CASE Fail(r)
  <2> DEFINE c == [call[r] EXCEPT !.step = "done"]
  <2>1. Moves(r, c)
    BY <1>14, DoneShape DEF Fail
  <2>2. Quiet(r, c)
    BY <1>14, <2>1, <1>t DEF Fail, Quiet, Held, Call
  <2>3. Rows
    BY <1>14 DEF Fail, Rows, IInv, TypeOK
  <2> QED
    BY <2>1, <2>2, <2>3 DEF Shaped, Moves
<1> QED
  BY <1>1, <1>2, <1>3, <1>4, <1>5, <1>6, <1>7, <1>8, <1>9, <1>10, <1>11, <1>12,
     <1>13, <1>14 DEF SequenceCall

----------------------------------------------------------------------------
(* The invariant *)

LEMMA InitInv == Init => IInv
<1> SUFFICES ASSUME Init PROVE IInv
  OBVIOUS
<1>1. TypeOK
  BY SequenceAssumption DEF Init, TypeOK, NoCall, NoRow, Call, Row, Steps
<1> QED
  BY <1>1 DEF Init, IInv, Asks, Holds, Ended, RangesDisjoint, At, NoCall, Held

\* A call's step keeps the invariant, whatever its shape.
LEMMA ShapeInv ==
    ASSUME IInv, NEW r \in Requests, Shaped(r), Rows
    PROVE  IInv'
<1> PICK c \in Call : Quiet(r, c) \/ Locks(r, c) \/ Commits(r, c)
  BY DEF Shaped
<1>1. Moves(r, c)
  BY DEF Quiet, Locks, Commits
<1>2. call' \in [Requests -> Call] /\ call'[r] = c
      /\ \A s \in Requests \ {r} : call'[s] = call[s]
  BY <1>1 DEF Moves, IInv, TypeOK
<1>3. call[r] \in Call /\ call[r].start \in Nat /\ call[r].count \in Nat /\ next \in Nat
  BY DEF IInv, TypeOK, Call
<1>4. r \notin issued
  BY DEF IInv, Ended, Quiet, Locks, Commits, At, Held
<1>5. TypeOK'
  <2>1. next' \in Nat
    BY <1>3 DEF Quiet, Locks, Commits
  <2>2. lock' \in Requests \cup {None}
    BY DEF Quiet, Locks, Commits, IInv, TypeOK
  <2>3. issued' \in SUBSET Requests
    BY DEF Quiet, Locks, Commits, IInv, TypeOK
  <2>4. \A s \in Requests : call'[s].tries < MaxTries
    BY <1>1, <1>2 DEF Moves, IInv, TypeOK
  <2> QED
    BY <2>1, <2>2, <2>3, <2>4, <1>2 DEF TypeOK, Rows
<1>6. Asks'
  BY <1>1, <1>2 DEF Asks, Moves, IInv, At
<1>7. Holds'
  <2> SUFFICES ASSUME NEW s \in Requests, call'[s].step \in Held
               PROVE  lock' = s /\ call'[s].start = next'
    BY DEF Holds
  <2>1. CASE Quiet(r, c)
    BY <2>1, <1>2 DEF Quiet, Holds, IInv, Held
  <2>2. CASE Locks(r, c)
    BY <2>2, <1>2, SequenceAssumption DEF Locks, Holds, IInv, Held
  <2>3. CASE Commits(r, c)
    BY <2>3, <1>2 DEF Commits, Holds, IInv, Held
  <2> QED
    BY <2>1, <2>2, <2>3
<1>8. Ended'
  BY <1>2, <1>4 DEF Ended, IInv, TypeOK, At, Quiet, Locks, Commits
<1>9. \A s \in issued : s \in Requests /\ Numbers(s)' = Numbers(s)
  BY <1>2, <1>4 DEF Numbers, IInv, TypeOK
<1>10. RangesDisjoint'
  <2>1. CASE issued' = issued /\ next' = next
    BY <2>1, <1>9 DEF RangesDisjoint, IInv
  <2>2. CASE Commits(r, c)
    <3>1. call[r].start = next
      BY <2>2 DEF Commits, IInv, Holds
    <3>2. Numbers(r)' = next .. next' - 1 /\ next' = next + call[r].count
      BY <2>2, <3>1, <1>2, <1>3 DEF Commits, Numbers
    <3>3. \A s \in issued : \A n \in Numbers(s)' : n < next
      BY <1>9 DEF IInv, RangesDisjoint
    <3>4. \A s \in issued : Numbers(s)' \cap Numbers(r)' = {}
      BY <3>2, <3>3, <1>3
    <3>5. \A s \in issued : \A n \in Numbers(s)' : n < next'
      <4> SUFFICES ASSUME NEW s \in issued, NEW n \in Numbers(s)' PROVE n < next'
        OBVIOUS
      <4>1. n \in Int
        BY <1>2, <1>9 DEF Numbers, Call
      <4> QED
        BY <4>1, <3>2, <3>3, <1>3
    <3>6. \A n \in Numbers(r)' : n < next'
      BY <3>2, <1>3
    <3>7. \A s, t \in issued : s # t => Numbers(s)' \cap Numbers(t)' = {}
      BY <1>9 DEF IInv, RangesDisjoint
    <3>8. issued' \subseteq issued \cup {r}
      BY <2>2 DEF Commits
    <3>9. \A s, t \in issued' : s # t => Numbers(s)' \cap Numbers(t)' = {}
      BY <3>4, <3>7, <3>8
    <3>10. \A s \in issued' : \A n \in Numbers(s)' : n < next'
      BY <3>5, <3>6, <3>8
    <3> QED
      BY <3>9, <3>10 DEF RangesDisjoint
  <2> QED
    BY <2>1, <2>2 DEF Quiet, Locks
<1> QED
  BY <1>5, <1>6, <1>7, <1>8, <1>10 DEF IInv

LEMMA NextInv == IInv /\ [Next]_vars => IInv'
<1> SUFFICES ASSUME IInv, [Next]_vars PROVE IInv'
  OBVIOUS
<1>1. ASSUME NEW r \in Requests, SequenceCall(r) PROVE IInv'
  BY <1>1, CallShape, ShapeInv
<1>2. CASE Raise
  <2> PICK n \in next + 1 .. RaiseLimit : next' = n
    BY <1>2 DEF Raise
  <2>0. next \in Nat /\ next' \in Nat /\ next' > next
    BY SequenceAssumption DEF IInv, TypeOK
  <2>1. TypeOK' /\ Asks' /\ Ended'
    BY <1>2, <2>0 DEF Raise, IInv, TypeOK, Asks, Ended, At
  <2>2. Holds'
    BY <1>2, SequenceAssumption DEF Raise, IInv, Holds
  <2>3. RangesDisjoint'
    <3>1. \A s \in issued : \A m \in Numbers(s) : m \in Int /\ m < next
      BY DEF IInv, RangesDisjoint, Numbers, TypeOK, Call
    <3>2. \A s \in issued : \A m \in Numbers(s) : m < next'
      BY <3>1, <2>0
    <3> QED
      BY <3>2, <1>2 DEF Raise, IInv, RangesDisjoint, Numbers
  <2> QED
    BY <2>1, <2>2, <2>3 DEF IInv
<1>3. ASSUME NEW k \in Keys, Expire(k) PROVE IInv'
  <2>1. TypeOK'
    BY <1>3 DEF Expire, Replayable, IInv, TypeOK, Row
  <2> QED
    BY <1>3, <2>1 DEF Expire, IInv, Asks, Holds, Ended, RangesDisjoint, At, Numbers
<1>4. CASE CleanupIdempotency
  <2>1. NoRow \in Row
    BY DEF NoRow, Row
  <2>2. TypeOK'
    BY <1>4, <2>1 DEF CleanupIdempotency, IInv, TypeOK
  <2> QED
    BY <1>4, <2>2 DEF CleanupIdempotency, IInv, Asks, Holds, Ended, RangesDisjoint, At, Numbers
<1>5. CASE UNCHANGED vars
  BY <1>5 DEF vars, IInv, TypeOK, Asks, Holds, Ended, RangesDisjoint, At, Numbers
<1> QED
  BY <1>1, <1>2, <1>3, <1>4, <1>5 DEF Next

LEMMA Invariant == Spec => []IInv
  BY InitInv, NextInv, PTL DEF Spec

\* Every row and call keeps its type, and no call tries to allocate more than
\* MaxTries times.
THEOREM TypeCorrect == Spec => []TypeOK
<1>1. IInv => TypeOK
  BY DEF IInv
<1> QED
  BY <1>1, Invariant, PTL

\* However many calls overlap, fail and are repeated, and whatever range sizes
\* they ask for, no number is given to two calls or offered again.
THEOREM DisjointTheorem == Spec => []RangesDisjoint
<1>1. IInv => RangesDisjoint
  BY DEF IInv
<1> QED
  BY <1>1, Invariant, PTL

----------------------------------------------------------------------------
(* The sequence implements the allocator *)

LEMMA ShapeAllocates ==
    ASSUME IInv, NEW r \in Requests, Shaped(r)
    PROVE  Allocator!Next \/ UNCHANGED <<next, IssuedNumbers>>
<1> PICK c \in Call : Quiet(r, c) \/ Locks(r, c) \/ Commits(r, c)
  BY DEF Shaped
<1>1. call' = [call EXCEPT ![r] = c] /\ c.count \in Counts
  BY DEF Quiet, Locks, Commits, Moves
<1>2. r \notin issued
  BY DEF IInv, Ended, Quiet, Locks, Commits, At, Held
<1>3. \A s \in issued : Numbers(s)' = Numbers(s)
  BY <1>1, <1>2 DEF Numbers, IInv, TypeOK
<1>4. CASE issued' = issued
  <2>1. IssuedNumbers' = IssuedNumbers
    BY <1>3, <1>4 DEF IssuedNumbers
  <2>2. next' = next \/ (next' \in Nat /\ next' > next)
    BY <1>1, SequenceAssumption DEF Quiet, Locks, Commits, IInv, TypeOK, Holds, Call
  <2> QED
    BY <2>1, <2>2 DEF Allocator!Next, Allocator!Skip, Allocator!Advance
<1>5. CASE issued' = issued \cup {r} /\ Commits(r, c)
  <2>1. call[r].start = next /\ next \in Nat /\ call[r].count \in Nat \ {0}
    BY <1>1, <1>5, SequenceAssumption DEF Commits, IInv, TypeOK, Holds
  <2>2. next' = next + call[r].count
    BY <1>5, <2>1 DEF Commits
  <2>3. Numbers(r)' = next .. next' - 1
    BY <1>1, <1>5, <2>1, <2>2 DEF Commits, Numbers, IInv, TypeOK
  <2>4. IssuedNumbers' = IssuedNumbers \cup next .. next' - 1
    BY <1>3, <1>5, <2>3 DEF IssuedNumbers
  <2> QED
    BY <2>1, <2>2, <2>4 DEF Allocator!Next, Allocator!Issue, Allocator!Advance
<1> QED
  BY <1>4, <1>5 DEF Quiet, Locks, Commits

LEMMA RaiseAllocates ==
    ASSUME IInv, Raise
    PROVE  Allocator!Next
<1>1. next' \in Nat /\ next' > next
  BY SequenceAssumption DEF Raise, IInv, TypeOK
<1>2. IssuedNumbers' = IssuedNumbers
  BY DEF Raise, IssuedNumbers, Numbers
<1> QED
  BY <1>1, <1>2 DEF Allocator!Next, Allocator!Skip, Allocator!Advance

\* Seen from outside, a sequence only ever issues or skips the numbers from
\* NextNumber on, whatever its calls, records, rollbacks and retries do inside.
THEOREM RefinementTheorem == Spec => ImplementsAllocator
<1>1. Init => Allocator!Init
  BY SequenceAssumption DEF Init, Allocator!Init, IssuedNumbers
<1>2. IInv /\ [Next]_vars => [Allocator!Next]_<<next, IssuedNumbers>>
  <2> SUFFICES ASSUME IInv, [Next]_vars
               PROVE  Allocator!Next \/ UNCHANGED <<next, IssuedNumbers>>
    OBVIOUS
  <2>1. ASSUME NEW r \in Requests, SequenceCall(r)
        PROVE  Allocator!Next \/ UNCHANGED <<next, IssuedNumbers>>
    BY <2>1, CallShape, ShapeAllocates
  <2>2. ASSUME NEW k \in Keys, Expire(k)
        PROVE  UNCHANGED <<next, IssuedNumbers>>
    BY <2>2 DEF Expire, IssuedNumbers, Numbers
  <2>3. CASE CleanupIdempotency
    BY <2>3 DEF CleanupIdempotency, IssuedNumbers, Numbers
  <2>4. CASE UNCHANGED vars
    BY <2>4 DEF vars, IssuedNumbers, Numbers
  <2> QED
    BY <2>1, <2>2, <2>3, <2>4, RaiseAllocates DEF Next
<1> QED
  BY <1>1, <1>2, Invariant, PTL DEF Spec, ImplementsAllocator, Allocator!Spec

----------------------------------------------------------------------------
(* One range per key, where no two calls have found one expired record *)

Live(r) == ~At(r, "done")

\* Rows, and the expired rows calls hold on to, were created by answered calls.
Witnessed ==
    /\ \A k \in Keys : Recorded(k) => record[k].id \in issued
    /\ \A r \in Requests : call[r].old # None => call[r].old \in issued

\* As long as a call holds on to an expired row, nobody else makes it new.
StillExpired ==
    \A r \in Requests :
        /\ Live(r) /\ call[r].old # None /\ call[r].key \in Keys
        /\ record[call[r].key].id = call[r].old
        => record[call[r].key].expired

OneKeeper ==
    \A r, s \in Requests :
        r # s /\ Live(r) /\ Live(s) /\ call[r].key = call[s].key
        => call[r].old = None \/ call[s].old = None

Keyed ==
    \A r \in Requests :
        /\ call[r].step \in {"replace", "replace_again"} =>
               call[r].old # None /\ call[r].key \in Keys
        /\ call[r].step \in {"create", "conflict"} => call[r].key \in Keys

GivenIsRecorded ==
    \A k \in Keys : /\ given[k] \subseteq {RangeOf(k)}
                    /\ ~Replayable(k) => given[k] = {}

KInv == Witnessed /\ StillExpired /\ OneKeeper /\ Keyed /\ GivenIsRecorded

\* Call r becomes c over unchanged rows.
LEMMA KeeperMoves ==
    ASSUME IInv, KInv, NEW r \in Requests, NEW c \in Call,
           call' = [call EXCEPT ![r] = c], record' = record, issued \subseteq issued', Live(r),
           \/ c.old = None
           \/ c.old = call[r].old /\ (c.key = call[r].key \/ c.step = "done")
           \/ /\ c.key = call[r].key /\ Recorded(c.key) /\ c.old = record[c.key].id
              /\ record[c.key].expired
              /\ \A o \in Requests \ {r} : call[o].key = c.key => call[o].old = None \/ At(o, "done"),
           c.step \in {"replace", "replace_again"} => c.old # None /\ c.key \in Keys,
           c.step \in {"create", "conflict"} => c.key \in Keys
    PROVE  Witnessed' /\ StillExpired' /\ OneKeeper' /\ Keyed'
<1>1. call'[r] = c /\ \A s \in Requests \ {r} : call'[s] = call[s]
  BY DEF IInv, TypeOK
<1>2. Witnessed'
  BY <1>1 DEF KInv, Witnessed, Recorded
<1>3. StillExpired'
  BY <1>1 DEF KInv, StillExpired, Live, At, Recorded
<1>4. OneKeeper'
  BY <1>1 DEF KInv, OneKeeper, Live, At, Recorded
<1>5. Keyed'
  BY <1>1 DEF KInv, Keyed
<1> QED
  BY <1>2, <1>3, <1>4, <1>5

LEMMA GivenStays ==
    ASSUME KInv, UNCHANGED <<record, given>>
    PROVE  GivenIsRecorded'
  BY DEF KInv, GivenIsRecorded, RangeOf, Replayable, Recorded

\* An answer from a record adds nothing to what its key stands for.
LEMMA GivenAgain ==
    ASSUME IInv, KInv, NEW k \in Keys, Replayable(k), record' = record,
           given' = [given EXCEPT ![k] = @ \cup {RangeOf(k)}]
    PROVE  GivenIsRecorded'
<1> SUFFICES ASSUME NEW j \in Keys
             PROVE  given'[j] \subseteq {RangeOf(j)} /\ (~Replayable(j) => given'[j] = {})
  BY DEF GivenIsRecorded, RangeOf, Replayable, Recorded
<1>1. given'[j] = IF j = k THEN given[k] \cup {RangeOf(k)} ELSE given[j]
  BY DEF IInv, TypeOK
<1> QED
  BY <1>1 DEF KInv, GivenIsRecorded

\* The row of a key without an answer left is written anew.
LEMMA IssueUnderKeeps ==
    ASSUME IInv, KInv, NEW r \in Requests, NEW id \in Requests,
           call[r].step \in {"create", "replace", "replace_again"},
           id = r \/ (id = call[r].old /\ id # None),
           ~Replayable(call[r].key), IssueUnder(r, id)
    PROVE  KInv'
<1>0. call[r].key \in Keys /\ call[r] \in Call
  BY DEF KInv, Keyed, IInv, TypeOK
<1> PICK k \in Keys : k = call[r].key
  BY <1>0
<1> DEFINE row == [id |-> id, start |-> call[r].start, count |-> call[r].count, expired |-> FALSE]
<1>1. ~Replayable(k) /\ call[r] \in Call
  BY <1>0
<1>2. /\ record'[k] = row
      /\ \A j \in Keys \ {k} : record'[j] = record[j]
      /\ given'[k] = given[k] \cup {OwnRange(r)}
      /\ \A j \in Keys \ {k} : given'[j] = given[j]
  BY <1>1 DEF IssueUnder, IInv, TypeOK
<1>3. /\ call'[r].step = "done" /\ call'[r].old = call[r].old
      /\ \A s \in Requests \ {r} : call'[s] = call[s]
      /\ issued' = issued \cup {r}
  BY <1>1 DEF IssueUnder, Issue, IInv, TypeOK, Call
<1>4. r \notin issued /\ Live(r)
  BY DEF IInv, Ended, At, Live
<1>5. Witnessed'
  BY <1>1, <1>2, <1>3 DEF KInv, Witnessed, Recorded
<1>6. StillExpired'
  <2> SUFFICES ASSUME NEW s \in Requests, ~At(s, "done")', call'[s].old # None,
                      call'[s].key \in Keys, record'[call'[s].key].id = call'[s].old
               PROVE  record'[call'[s].key].expired
    BY DEF StillExpired, Live
  <2>1. s # r /\ call'[s] = call[s] /\ Live(s)
    BY <1>3 DEF At, Live
  <2>2. CASE call[s].key = k
    <3>1. call[s].old = id
      BY <1>2, <2>1, <2>2
    <3>2. call[s].old \in issued
      BY <2>1 DEF KInv, Witnessed
    <3>3. call[r].old = None
      BY <1>4, <2>1, <2>2 DEF KInv, OneKeeper
    <3> QED
      BY <3>1, <3>2, <3>3, <1>4, SequenceAssumption
  <2>3. CASE call[s].key # k
    BY <1>2, <2>1, <2>3 DEF KInv, StillExpired
  <2> QED
    BY <2>2, <2>3
<1>7. OneKeeper'
  BY <1>3 DEF KInv, OneKeeper, Live, At
<1>8. Keyed'
  BY <1>3 DEF KInv, Keyed
<1>9. GivenIsRecorded'
  <2> SUFFICES ASSUME NEW j \in Keys
               PROVE  given'[j] \subseteq {RangeOf(j)'} /\ (~Replayable(j)' => given'[j] = {})
    BY DEF GivenIsRecorded
  <2>1. CASE j = k
    <3>1. given[k] = {}
      BY <1>1 DEF KInv, GivenIsRecorded
    <3>2. RangeOf(k)' = OwnRange(r)
      BY <1>2 DEF RangeOf, OwnRange
    <3>3. Replayable(k)'
      BY <1>1, <1>2, SequenceAssumption DEF Replayable, Recorded
    <3> QED
      BY <2>1, <1>2, <3>1, <3>2, <3>3
  <2>2. CASE j # k
    BY <2>2, <1>2 DEF KInv, GivenIsRecorded, RangeOf, Replayable, Recorded
  <2> QED
    BY <2>1, <2>2
<1> QED
  BY <1>5, <1>6, <1>7, <1>8, <1>9 DEF KInv

\* Every action of a call keeps what its key stands for.
LEMMA CallKeeps ==
    ASSUME IInv, KInv, ~ExpiredRaces, NEW r \in Requests, SequenceCall(r)
    PROVE  KInv'
<1> USE DEF At, Live
<1>t. call[r] \in Call /\ next \in Nat
  BY DEF IInv, TypeOK
<1>k. \A k \in Keys : record[k] \in Row
  BY DEF IInv, TypeOK
<1>q. ASSUME NEW c \in Call, Goes(r, c), Live(r),
             \/ c.old = None
             \/ c.old = call[r].old /\ (c.key = call[r].key \/ c.step = "done")
             \/ /\ c.key = call[r].key /\ Recorded(c.key) /\ c.old = record[c.key].id
                /\ record[c.key].expired
                /\ AloneWithExpired(r),
             c.step \in {"replace", "replace_again"} => c.old # None /\ c.key \in Keys,
             c.step \in {"create", "conflict"} => c.key \in Keys
      PROVE  KInv'
  <2>1. c.key = call[r].key /\ AloneWithExpired(r) =>
            \A o \in Requests \ {r} : call[o].key = c.key => call[o].old = None \/ At(o, "done")
    BY DEF AloneWithExpired
  <2>2. Witnessed' /\ StillExpired' /\ OneKeeper' /\ Keyed'
    BY <1>q, <2>1, KeeperMoves DEF Goes
  <2>3. GivenIsRecorded'
    BY <1>q, GivenStays DEF Goes
  <2> QED
    BY <2>2, <2>3 DEF KInv
<1>d. ASSUME call' = [call EXCEPT ![r] = [@ EXCEPT !.step = "done"]], record' = record,
             issued \subseteq issued', Live(r)
      PROVE  Witnessed' /\ StillExpired' /\ OneKeeper' /\ Keyed'
  <2> DEFINE c == [call[r] EXCEPT !.step = "done"]
  <2>1. c \in Call /\ c.step = "done" /\ c.old = call[r].old
    BY <1>t DEF Call, Steps
  <2> QED
    BY <1>d, <2>1, KeeperMoves
<1>1. CASE Resolve(r)
  <2> PICK k \in Keys \cup {None}, n \in Counts :
        Goes(r, [NoCall EXCEPT !.step = "find", !.key = k, !.count = n, !.seen = next])
    BY <1>1 DEF Resolve
  <2> DEFINE c == [NoCall EXCEPT !.step = "find", !.key = k, !.count = n, !.seen = next]
  <2>1. c \in Call /\ c.step = "find" /\ c.old = None
    BY <1>t, SequenceAssumption DEF Call, NoCall, Steps
  <2> QED
    BY <2>1, <1>1, <1>q DEF Resolve
<1>2. CASE Replay(r)
  <2>1. GivenIsRecorded'
    BY <1>2, GivenAgain DEF Replay, Replayable, Recorded
  <2> QED
    BY <1>2, <2>1, <1>d DEF Replay, KInv
<1>3. CASE Miss(r)
  <2> DEFINE c == [call[r] EXCEPT !.step = "allocate"]
  <2> DEFINE d == [call[r] EXCEPT !.step = "allocate", !.old = record[call[r].key].id]
  <2>1. c \in Call /\ c.step = "allocate" /\ c.old = call[r].old /\ c.key = call[r].key
    BY <1>t DEF Call, Steps
  <2>2. ASSUME Recorded(call[r].key)
        PROVE  d \in Call /\ d.step = "allocate" /\ d.key = call[r].key
               /\ d.old = record[call[r].key].id
    BY <1>t, <1>k, <2>2 DEF Call, Steps, Recorded, Row
  <2>3. Goes(r, c) \/ (/\ Recorded(call[r].key) /\ record[call[r].key].expired
                       /\ AloneWithExpired(r) /\ Goes(r, d))
    BY <1>3 DEF Miss
  <2>4. Live(r)
    BY <1>3 DEF Miss
  <2>5. CASE Goes(r, c)
    BY <2>1, <2>4, <2>5, <1>q
  <2>6. CASE /\ Recorded(call[r].key) /\ record[call[r].key].expired
             /\ AloneWithExpired(r) /\ Goes(r, d)
    <3> HIDE DEF d
    <3> QED
      BY <2>2, <2>4, <2>6, <1>q
  <2> QED
    BY <2>3, <2>5, <2>6
<1>4. CASE Preview(r)
  <2> DEFINE c == [call[r] EXCEPT !.step = "done"]
  <2>1. c \in Call /\ c.step = "done" /\ c.old = call[r].old
    BY <1>t DEF Call, Steps
  <2> QED
    BY <1>4, <2>1, <1>q DEF Preview
<1>5. CASE Allocate(r)
  <2> DEFINE c == [call[r] EXCEPT !.start = next, !.step = AfterRange(call[r])]
  <2>1. AfterRange(call[r]) \in {"commit", "create", "replace"}
    BY DEF AfterRange
  <2>2. c \in Call /\ c.step = AfterRange(call[r]) /\ c.old = call[r].old /\ c.key = call[r].key
    BY <1>t, <2>1 DEF Call, Steps
  <2>3. c.step \in {"replace", "replace_again"} => c.old # None /\ c.key \in Keys
    BY <1>t, <2>2 DEF AfterRange, Call
  <2>4. c.step \in {"create", "conflict"} => c.key \in Keys
    BY <1>t, <2>2 DEF AfterRange, Call
  <2>5. call' = [call EXCEPT ![r] = c] /\ Live(r) /\ UNCHANGED <<record, issued, given>>
    BY <1>5 DEF Allocate
  <2> HIDE DEF c
  <2>6. Witnessed' /\ StillExpired' /\ OneKeeper' /\ Keyed'
    BY <2>2, <2>3, <2>4, <2>5, KeeperMoves
  <2> QED
    BY <2>5, <2>6, GivenStays DEF KInv
<1>6. CASE Reread(r)
  <2> PICK n \in Nat : n = call[r].tries + 1
    BY <1>t DEF Call
  <2> DEFINE c == [call[r] EXCEPT !.seen = next, !.tries = n]
  <2>1. c \in Call
    BY <1>t DEF Call
  <2>2. c.step = call[r].step /\ c.old = call[r].old /\ c.key = call[r].key
    BY <1>t DEF Call
  <2> QED
    BY <1>6, <2>1, <2>2, <1>q DEF Reread
<1>7. CASE Commit(r)
  BY <1>7, <1>d, GivenStays DEF Commit, Issue, KInv
<1>8. CASE Replace(r)
  <2>1. call[r].old \in Requests /\ call[r].old # None /\ call[r].key \in Keys
    BY <1>8, <1>t DEF Replace, KInv, Keyed, Call
  <2>2. ~Replayable(call[r].key)
    BY <1>8, <2>1 DEF Replace, KInv, StillExpired, Replayable
  <2> QED
    BY <1>8, <2>1, <2>2, IssueUnderKeeps DEF Replace
<1>9. CASE ReplaceMisses(r)
  <2> DEFINE c == [call[r] EXCEPT !.step = "create", !.old = None]
  <2>1. c \in Call /\ c.step = "create" /\ c.old = None /\ c.key = call[r].key
    BY <1>t DEF Call, Steps
  <2>2. call[r].key \in Keys
    BY <1>9 DEF ReplaceMisses, KInv, Keyed
  <2> QED
    BY <1>9, <2>1, <2>2, <1>q DEF ReplaceMisses
<1>10. CASE Create(r)
  BY <1>10, IssueUnderKeeps DEF Create, Replayable
<1>11. CASE CreateConflicts(r)
  <2> DEFINE c == [call[r] EXCEPT !.step = "conflict"]
  <2>1. c \in Call /\ c.step = "conflict" /\ c.old = call[r].old /\ c.key = call[r].key
    BY <1>t DEF Call, Steps
  <2>2. call[r].key \in Keys
    BY <1>11 DEF CreateConflicts, KInv, Keyed
  <2> QED
    BY <1>11, <2>1, <2>2, <1>q DEF CreateConflicts
<1>12. CASE ReplayWinner(r)
  <2>1. GivenIsRecorded'
    BY <1>12, GivenAgain DEF ReplayWinner, Replayable, Recorded
  <2> QED
    BY <1>12, <2>1, <1>d DEF ReplayWinner, KInv
<1>13. CASE FindExpired(r)
  <2> DEFINE c == [call[r] EXCEPT !.step = "replace_again", !.old = record[call[r].key].id]
  <2>1. /\ c \in Call /\ c.step = "replace_again" /\ c.key = call[r].key
        /\ c.old = record[call[r].key].id
    BY <1>13, <1>t, <1>k DEF FindExpired, Recorded, Row, Call, Steps
  <2>2. c.old # None /\ c.key \in Keys /\ Live(r)
    BY <1>13, <2>1 DEF FindExpired, Recorded
  <2> QED
    BY <1>13, <2>1, <2>2, <1>q DEF FindExpired
<1>14. CASE Fail(r)
  BY <1>14, <1>d, GivenStays DEF Fail, KInv
<1> QED
  BY <1>1, <1>2, <1>3, <1>4, <1>5, <1>6, <1>7, <1>8, <1>9, <1>10, <1>11, <1>12,
     <1>13, <1>14 DEF SequenceCall

LEMMA NextKeeps ==
    ASSUME ~ExpiredRaces
    PROVE  IInv /\ KInv /\ [Next]_vars => KInv'
<1> SUFFICES ASSUME IInv, KInv, [Next]_vars PROVE KInv'
  OBVIOUS
<1> USE DEF At, Live
<1>1. ASSUME NEW r \in Requests, SequenceCall(r) PROVE KInv'
  BY <1>1, CallKeeps
<1>2. ASSUME UNCHANGED <<record, call, issued, given>> PROVE KInv'
  <2>1. Witnessed' /\ StillExpired' /\ OneKeeper' /\ Keyed'
    BY <1>2 DEF KInv, Witnessed, StillExpired, OneKeeper, Keyed, Recorded
  <2> QED
    BY <1>2, <2>1, GivenStays DEF KInv
<1>3. ASSUME NEW k \in Keys, Expire(k) PROVE KInv'
  <2>1. /\ record'[k] = [record[k] EXCEPT !.expired = TRUE]
        /\ \A j \in Keys \ {k} : record'[j] = record[j] /\ given'[j] = given[j]
        /\ given'[k] = {}
        /\ UNCHANGED <<call, issued>>
    BY <1>3 DEF Expire, IInv, TypeOK
  <2>0. record[k] \in Row
    BY DEF IInv, TypeOK
  <2>2. record'[k].id = record[k].id /\ record'[k].expired
    BY <2>0, <2>1 DEF Row
  <2>3. Witnessed'
    BY <2>1, <2>2 DEF KInv, Witnessed, Recorded
  <2>4. StillExpired'
    BY <2>1, <2>2 DEF KInv, StillExpired
  <2>5. OneKeeper' /\ Keyed'
    BY <2>1 DEF KInv, OneKeeper, Keyed
  <2>6. GivenIsRecorded'
    BY <2>1, <2>2 DEF KInv, GivenIsRecorded, RangeOf, Replayable, Recorded
  <2> QED
    BY <2>3, <2>4, <2>5, <2>6 DEF KInv
<1>4. CASE CleanupIdempotency
  <2>1. /\ \A j \in Keys : record'[j] = IF record[j].expired THEN NoRow ELSE record[j]
        /\ UNCHANGED <<call, issued, given>>
    BY <1>4 DEF CleanupIdempotency
  <2>2. Witnessed'
    BY <2>1 DEF KInv, Witnessed, Recorded, NoRow
  <2>3. StillExpired'
    BY <2>1 DEF KInv, StillExpired, NoRow
  <2>4. OneKeeper' /\ Keyed'
    BY <2>1 DEF KInv, OneKeeper, Keyed
  <2>5. GivenIsRecorded'
    BY <2>1 DEF KInv, GivenIsRecorded, RangeOf, Replayable, Recorded, NoRow
  <2> QED
    BY <2>2, <2>3, <2>4, <2>5 DEF KInv
<1> QED
  BY <1>1, <1>2, <1>3, <1>4 DEF Next, Raise, vars

LEMMA InitKeeps == Init => KInv
  BY SequenceAssumption
  DEF Init, KInv, Witnessed, StillExpired, OneKeeper, Keyed, GivenIsRecorded, Recorded,
      Replayable, NoRow, NoCall

\* As long as no two overlapping calls have found the same expired record, all
\* answers under a key within the lifetime of its record are one range: a call
\* repeated after a lost answer takes no numbers of its own.
THEOREM OneRangeTheorem ==
    ASSUME ~ExpiredRaces
    PROVE  Spec => []OneRangePerKey
<1>1. IInv /\ KInv => OneRangePerKey
  <2> SUFFICES ASSUME KInv, NEW k \in Keys PROVE Cardinality(given[k]) <= 1
    BY DEF OneRangePerKey
  <2>1. given[k] = {} \/ given[k] = {RangeOf(k)}
    BY DEF KInv, GivenIsRecorded
  <2>2. Cardinality(given[k]) = 0 \/ Cardinality(given[k]) = 1
    BY <2>1, FS_EmptySet, FS_Singleton, Zenon
  <2> QED
    BY <2>2
<1>2. Init => IInv /\ KInv
  BY InitInv, InitKeeps
<1>3. IInv /\ KInv /\ [Next]_vars => (IInv /\ KInv)'
  BY NextInv, NextKeeps
<1> QED
  BY <1>1, <1>2, <1>3, PTL DEF Spec

=============================================================================
