---------------------------- MODULE PatchRefines ----------------------------
(***************************************************************************)
(* One server process implements PatchRun: its requests, statement by      *)
(* statement and with every row lock and rollback, are the atomic requests *)
(* of that module; killed in the middle of one, it leaves what CreateCut   *)
(* or EditCut leaves, or nothing.  With two processes they are not (see    *)
(* the README).                                                            *)
(***************************************************************************)
EXTENDS PatchRequests

ASSUME SingleAssumption == \A v, w \in Worker : v = w

VARIABLE shown  \* history: the plan without an edit whose resync still runs

Resyncing == {"resyncList", "resyncProbe", "resyncScan", "resyncDelete",
              "resyncRead", "resyncInsert"}

HistoryInit == Init /\ shown = plan

HistoryNext ==
    /\ Next
    /\ shown' = IF \E w \in Worker : pc'[w] \in Resyncing THEN shown ELSE plan'

HistorySpec == HistoryInit /\ [][HistoryNext]_<<vars, shown>>

\* An execution whose row is committed but whose snapshot is still to come
\* does not exist yet: perform_create returns only after both.
BeingCreated(e) ==
    \E w \in Worker : pc[w] \in {"createSnap", "createInsert"} /\ at[w].ex = e

ShownExec ==
    [e \in Exec |-> IF BeingCreated(e) THEN Unborn ELSE exec[e]]

ShownSteps ==
    [e \in Exec |->
        [i \in 1..Cardinality(steps[e]) |->
            LET s == CHOOSE r \in steps[e] : r.num = i
            IN [timed |-> s.timed, done |-> s.done, started |-> s.started]]]

ShownAborts ==
    [e \in Exec |->
        [i \in 1..Cardinality(aborts[e]) |->
            LET a == CHOOSE r \in aborts[e] : r.attempt = i
            IN [completed |-> a.completed, total |-> a.total]]]

Atomic == INSTANCE PatchRun WITH
    Env <- {"environment"},
    EnvOf <- [e \in Exec |-> "environment"],
    plan <- shown,
    exec <- ShownExec,
    steps <- ShownSteps,
    aborts <- ShownAborts,
    stale <- [env \in {"environment"} |-> stale]

\* Every behaviour of a single worker is one of PatchRun: the initial states
\* agree, and each commit is a whole request or changes nothing it shows.  The
\* commit of a check may come when its environment is not behind any more: it
\* is then the creation of an active execution, which a client may ask for.
RefinesPatchRun == Atomic!Spec
=============================================================================
