-------------------------- MODULE DispatchSelection --------------------------
(***************************************************************************)
(* The two pure list algorithms of the task dispatcher's ready queue        *)
(* (internal/task/dispatcher.go): which listed jobs enter the queue, and    *)
(* which queued jobs are taken out for dispatch.                            *)
(***************************************************************************)
EXTENDS Naturals, FiniteSets, SequencesExt

\* The members of a finite set S in the strict order R.  (SelectSeq and SortSeq
\* would do for TLC; nothing can be proved about them.)
Arranged(S, R) ==
    [n \in 1..Cardinality(S) |->
        CHOOSE i \in S : Cardinality({k \in S : <<k, i>> \in R}) = n - 1]

\* The elements of sequence s at the positions I.
Kept(s, I) ==
    LET order == Arranged(I, {p \in I \X I : p[1] < p[2]})
    IN  [n \in 1..Cardinality(I) |-> s[order[n]]]

\* The jobs of a listing that are not queued yet.
Fresh(inQueue, listing) == Kept(listing, {i \in DOMAIN listing : listing[i] \notin inQueue})

\* Mutant: the room left is computed from the maximum alone.
AdmittedPastMax(q, inQueue, listing, max) ==
    LET fresh == Fresh(inQueue, listing)
        room  == IF max = 0 THEN Len(fresh) ELSE max
    IN  SubSeq(fresh, 1, IF room < Len(fresh) THEN room ELSE Len(fresh))

\* The jobs of the listing that enqueueReady appends to a ready queue q whose
\* index set is inQueue: those not queued yet, in order, while there is room
\* (max = 0 is an unbounded queue).
Admitted(q, inQueue, listing, max) ==
    LET fresh == Fresh(inQueue, listing)
        room  == IF max = 0 THEN Len(fresh)
                 ELSE IF Len(q) >= max THEN 0 ELSE max - Len(q)
    IN  SubSeq(fresh, 1, IF room < Len(fresh) THEN room ELSE Len(fresh))

\* The positions of q whose job's application is open, appOf[j] being the target
\* application of job j, and the order in which they are taken: one job of each
\* application in turn, applications in the order they first occur in q and jobs
\* of one application in queue order.
Eligible(q, appOf, open) == {i \in DOMAIN q : appOf[q[i]] \in open}
Peers(q, appOf, open, i) ==
    {k \in Eligible(q, appOf, open) : appOf[q[k]] = appOf[q[i]]}
Round(q, appOf, open, i) == Cardinality({k \in Peers(q, appOf, open, i) : k < i})
Turns(q, appOf, open) ==
    LET E        == Eligible(q, appOf, open)
        round(i) == Round(q, appOf, open, i)
        lead(i)  == Min(Peers(q, appOf, open, i))
    IN  {p \in E \X E : \/ round(p[1]) < round(p[2])
                        \/ round(p[1]) = round(p[2]) /\ lead(p[1]) < lead(p[2])}

\* What selectDispatchJobs takes from queue q: the first `limit` jobs in turn.
RoundRobin(q, appOf, open, limit) ==
    LET E     == Eligible(q, appOf, open)
        order == Arranged(E, Turns(q, appOf, open))
    IN  [n \in 1..(IF limit < Cardinality(E) THEN limit ELSE Cardinality(E)) |-> q[order[n]]]

\* The queue that popReadyForDispatch leaves behind.
Without(q, selected) == Kept(q, {i \in DOMAIN q : q[i] \notin ToSet(selected)})
=============================================================================
