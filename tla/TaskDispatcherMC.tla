--------------------------- MODULE TaskDispatcherMC ---------------------------
(* Constant values for the model-checking runs of TaskDispatcher.          *)
EXTENDS TaskDispatcher

OneApp     == [j \in Jobs |-> CHOOSE a \in Apps : TRUE]
EachItsOwn == CHOOSE f \in [Jobs -> Apps] : \A i, j \in Jobs : f[i] = f[j] => i = j
TwoAttempts == [j \in Jobs |-> 2]
OneAttempt == [j \in Jobs |-> 1]

\* Dispatchers are interchangeable in the safety runs.
Symmetry == Permutations(Dispatchers)
==============================================================================
