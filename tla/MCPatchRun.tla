----------------------------- MODULE MCPatchRun -----------------------------
(* PatchRun with two execution rows that compete for one environment.      *)
EXTENDS PatchRun, TLC

CONSTANTS e1, e2, prod

Rows == {e1, e2}
RowsAlike == Permutations(Rows)
AllInProd == [e \in Rows |-> prod]

\* Bound: at most one of the rows is aborted, or deleted, and not both.
OneGivenUp ==
    Cardinality({e \in Rows : aborts[e] # <<>>})
        + Cardinality({e \in Rows : exec[e].deleted}) <= 1

OneEnv == {prod}
=============================================================================
