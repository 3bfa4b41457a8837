--------------------------- MODULE AttachmentsMC ---------------------------
(* Attachments on a small instance.  Rows whose identifiers NewId chooses   *)
(* (payloads, contents, bindings) are not symmetric; sessions, mutations    *)
(* and call slots are only compared for equality and quantified over.       *)
EXTENDS Attachments, TLC

Symmetry ==
    Permutations(Sessions) \cup Permutations(Mutations) \cup Permutations(Calls)

============================================================================
