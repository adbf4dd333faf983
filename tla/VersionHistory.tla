---------------------------- MODULE VersionHistory ----------------------------
(***************************************************************************)
(* What document_versions promises the rest of the system: the history of  *)
(* a document on a branch is a list of contents that only grows.  Reading  *)
(* version v, now or later, gives the content that was written as v.       *)
(***************************************************************************)
EXTENDS Sequences

CONSTANT Contents

VARIABLE history

Init == history \in {<<c>> : c \in Contents}

Write(c) == history' = Append(history, c)

Next == \E c \in Contents : Write(c)

Spec == Init /\ [][Next]_history

=============================================================================
