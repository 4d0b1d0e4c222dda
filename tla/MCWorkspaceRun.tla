---------------------------- MODULE MCWorkspaceRun ----------------------------
(* WorkspaceRun as TLC checks it: the bounds are numbers, given in the .cfg. *)
EXTENDS WorkspaceRun
=============================================================================
