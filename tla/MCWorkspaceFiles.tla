-------------------------- MODULE MCWorkspaceFiles --------------------------
(***************************************************************************)
(* TLC instance of WorkspaceFiles: two turns, the first of which attaches  *)
(* a file, over that attachment and a result of the agent.  Both sync in   *)
(* the background, and both can find the result before either of them has  *)
(* committed its row.                                                      *)
(***************************************************************************)
EXTENDS WorkspaceFiles, TLC

CONSTANTS t1, t2, upload, result, n1, n2

TwoTurns == {t1, t2}
TwoPaths == {upload, result}
OwnNames == (upload :> n1) @@ (result :> n2)
FirstUploads == (t1 :> {upload}) @@ (t2 :> {})
=============================================================================
