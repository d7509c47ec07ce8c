--------------------------- MODULE MCPatchRequests ---------------------------
(* PatchRequests with two workers and one or two execution rows; the runs   *)
(* differ in the requests that compete.                                     *)
EXTENDS PatchRequests, TLC

CONSTANTS w1, w2, e1, e2

TwoWorkers == {w1, w2}
WorkersAlike == Permutations(TwoWorkers)

OneRow == {e1}
TwoRows == {e1, e2}
BothAlike == WorkersAlike \union Permutations(TwoRows)

\* The plan is edited while executions are created, worked through and reset.
Snapshotting == {"create", "check", "done", "reset", "edit"}

\* Every request that can make a row active, with what makes room for one.
Activating == {"create", "check", "abort", "reset", "patch", "delete"}

\* Requests that wait for the locks of one another.
Waiting == {"create", "done", "reset", "edit"}

Marking == {"create", "done"}
=============================================================================
