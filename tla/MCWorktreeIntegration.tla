----------------------- MODULE MCWorktreeIntegration -----------------------
(***************************************************************************)
(* Instances of WorktreeIntegration.  The first worker merges one commit;  *)
(* the second commits its work and the resolution of its conflict.         *)
(***************************************************************************)
EXTENDS WorktreeIntegration

OneTwo == <<1, 2>>

Budget(git, resume, other, fail) ==
    [git |-> git, resume |-> resume, other |-> other, fail |-> fail]
Quiet == {Budget(0, 0, 0, FALSE)}
OneResume == {Budget(0, 1, 0, FALSE)}
OneFault == {Budget(1, 0, 0, FALSE)}
\* Failed tasks and a recovery by the Planner, or one git failure and one of
\* the other recovery commands.
Disturbed == {Budget(0, 1, 0, TRUE), Budget(1, 0, 1, FALSE)}
=============================================================================
