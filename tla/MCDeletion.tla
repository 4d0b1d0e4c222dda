------------------------------ MODULE MCDeletion ------------------------------
(* Model values for checking Deletion with TLC.                              *)
EXTENDS Deletion

CONSTANTS c1, d1, k1

OneDeleter == {c1}
OneDeletion == {d1}
OneCleanup == {k1}
BothBackends == {"workspace", "scoped"}
=============================================================================
