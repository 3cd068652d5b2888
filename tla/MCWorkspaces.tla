---------------------------- MODULE MCWorkspaces ----------------------------
(* Values of the constants of Workspaces that a cfg cannot write.          *)
EXTENDS Workspaces, TLC

CONSTANTS dir, x, y, a, b

(* Two files, one of them deleted again; a fetched tree without one.       *)
MCEdits    == {<<dir, 1, x>>, <<dir, 2, x>>}
MCTargets  == {a, Public(a), Tracked(b)}
MCUpstream == {<<y, Absent>>}

Symmetric  == Permutations(Procs)
=============================================================================
