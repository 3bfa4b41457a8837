-------------------------- MODULE NumberAllocator --------------------------
(* What a sequence promises: numbers are issued upwards from NextNumber, in *)
(* consecutive ranges, and none is issued twice.  Numbers may be skipped.   *)
EXTENDS Integers

VARIABLES
    next,   \* NextNumber, the lowest number that can still be issued
    issued  \* the numbers issued

Init == next \in Nat /\ issued = {}

Advance == next' \in Nat /\ next' > next

Issue == Advance /\ issued' = issued \cup next .. (next' - 1)

Skip == Advance /\ UNCHANGED issued

Next == Issue \/ Skip

Spec == Init /\ [][Next]_<<next, issued>>

============================================================================
