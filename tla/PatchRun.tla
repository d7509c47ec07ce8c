------------------------------ MODULE PatchRun ------------------------------
(***************************************************************************)
(* What a patch execution promises when every API request runs by itself:  *)
(* each action below is one whole request of api/patching, with the signal *)
(* handler and the service calls it triggers, or what it leaves committed  *)
(* when it stops half-way (CreateCut, EditCut).  PatchRequests models the  *)
(* same requests statement by statement, for several server processes.     *)
(*                                                                         *)
(* One plan is modelled, with the executions queued for it.  started_at is *)
(* the Boolean "it is set"; the other times are StepTimes' subject.  Of a  *)
(* plan step only not_timed is kept: the code copies the rest unread.      *)
(***************************************************************************)
EXTENDS Naturals, Sequences, FiniteSets

CONSTANTS
    Exec,       \* rows of patch_executions, created or not yet
    Env,        \* environments of AMS-contracted organizations
    EnvOf,      \* [Exec -> Env]: the environment an execution is for
    MaxSteps,   \* bound on the length of the plan
    MaxAborts   \* bound on the abort records of an execution

ASSUME EnvOfAssumption == EnvOf \in [Exec -> Env]
ASSUME BoundsAssumption == MaxSteps \in Nat /\ MaxAborts \in Nat

VARIABLES
    plan,       \* the plan's steps in step_num order: TRUE for a timed step
    exec,       \* [Exec -> row of patch_executions]
    steps,      \* [Exec -> rows of patch_execution_steps, by step_num]
    aborts,     \* [Exec -> rows of patch_execution_aborts, by attempt_num]
    stale       \* [Env -> an installed release is behind the catalog Latest]

vars == <<plan, exec, steps, aborts, stale>>

\* The statuses a client may write; "aborted" is written by clients alone.
Statuses == {"active", "completed", "aborted"}

ExecRow == [status : Statuses \union {"none"},
            deleted : BOOLEAN,
            started : BOOLEAN]

StepRow == [timed : BOOLEAN, done : BOOLEAN, started : BOOLEAN]

AbortRow == [completed : Nat, total : Nat]

\* Every type of the state: the columns of the four tables the module keeps.
TypeOK ==
    /\ plan \in Seq(BOOLEAN)
    /\ exec \in [Exec -> ExecRow]
    /\ steps \in [Exec -> Seq(StepRow)]
    /\ aborts \in [Exec -> Seq(AbortRow)]
    /\ stale \in [Env -> BOOLEAN]

-----------------------------------------------------------------------------
(* What the requests read. *)

Live(e) == exec[e].status # "none" /\ ~exec[e].deleted

Active(e) == Live(e) /\ exec[e].status = "active"

\* patch_executions_one_active: the unique index over live active rows.
ActiveFor(env) == {e \in Exec : Active(e) /\ EnvOf[e] = env}

Pristine(e) == \A i \in DOMAIN steps[e] : ~steps[e][i].started

AllDone(rows) == \A i \in DOMAIN rows : rows[i].done

DoneCount(rows) == Cardinality({i \in DOMAIN rows : rows[i].done})

\* Variant: the count goes by the start times.
RemainingUnfinished(rows) ==
    Cardinality({i \in DOMAIN rows : ~rows[i].started})

Remaining(rows) == Cardinality({i \in DOMAIN rows : ~rows[i].done})

(* What the services write. *)

Snapshot(p) ==
    [i \in DOMAIN p |->
        [timed |-> p[i], done |-> FALSE, started |-> FALSE]]

Marked(s) ==
    [timed |-> s.timed,
     done |-> TRUE,
     started |-> s.started \/ s.timed]

Cleared(rows) ==
    [i \in DOMAIN rows |->
        [timed |-> rows[i].timed, done |-> FALSE, started |-> FALSE]]

NewRow(st) == [status |-> st, deleted |-> FALSE, started |-> FALSE]

\* Variant: every active execution is taken for pristine.
ResyncedAll(p) == [e \in Exec |-> IF Active(e) THEN Snapshot(p) ELSE steps[e]]

\* Variant: the rows are updated in place, and the surplus ones stay.
ResyncedInPlace(p) ==
    [e \in Exec |->
        IF Active(e) /\ Pristine(e)
        THEN Snapshot(p) \o SubSeq(steps[e], Len(p) + 1, Len(steps[e]))
        ELSE steps[e]]

\* The rows after resync_pristine_executions(plan), the plan being p.
Resynced(p) ==
    [e \in Exec |->
        IF Active(e) /\ Pristine(e) THEN Snapshot(p) ELSE steps[e]]

-----------------------------------------------------------------------------
Init ==
    /\ plan \in UNION {[1..n -> BOOLEAN] : n \in 0..MaxSteps}
    /\ exec = [e \in Exec |->
                  [status |-> "none", deleted |-> FALSE, started |-> FALSE]]
    /\ steps = [e \in Exec |-> <<>>]
    /\ aborts = [e \in Exec |-> <<>>]
    /\ stale \in [Env -> BOOLEAN]

\* A row may be made active when no other is: patch_executions_one_active.
MayBe(st, e) == st = "active" => ActiveFor(EnvOf[e]) \subseteq {e}

\* POST /patch-executions: the status is the client's, active by default.
Create(e, st) ==
    /\ exec[e].status = "none"
    /\ MayBe(st, e)
    /\ exec' = [exec EXCEPT ![e] = NewRow(st)]
    /\ steps' = [steps EXCEPT ![e] = Snapshot(plan)]
    /\ UNCHANGED <<plan, aborts, stale>>

\* The same request, its worker killed before snapshot_steps_from_plan ends:
\* the row is committed, and has no steps.
CreateCut(e, st) ==
    /\ exec[e].status = "none"
    /\ MayBe(st, e)
    /\ exec' = [exec EXCEPT ![e] = NewRow(st)]
    /\ UNCHANGED <<plan, steps, aborts, stale>>

Needed == {env \in Env : stale[env] /\ ActiveFor(env) = {}}

\* POST /patch-executions/check: one new execution in every environment that
\* is behind and has none active; S holds the rows it inserts.
Check(S) ==
    /\ \A e \in S : exec[e].status = "none" /\ EnvOf[e] \in Needed
    /\ \A env \in Needed : \E e \in S : EnvOf[e] = env
    /\ \A e, f \in S : EnvOf[e] = EnvOf[f] => e = f
    /\ exec' = [e \in Exec |-> IF e \in S THEN NewRow("active") ELSE exec[e]]
    /\ steps' = [e \in Exec |-> IF e \in S THEN Snapshot(plan) ELSE steps[e]]
    /\ UNCHANGED <<plan, aborts, stale>>

\* POST .../steps/<i>/done: mark_step_done, and finalize_execution when no
\* step is left.  The status of the execution is not looked at.  What is
\* finalized is the execution's softwares: others may still be behind.
StepDone(e, i) ==
    LET rows == [steps[e] EXCEPT ![i] = Marked(steps[e][i])]
        last == Remaining(rows) = 0
    IN /\ Live(e)
       /\ i \in DOMAIN steps[e]
       /\ ~steps[e][i].done
       /\ steps' = [steps EXCEPT ![e] = rows]
       /\ exec' = [exec EXCEPT
              ![e].started = exec[e].started \/ steps[e][i].timed,
              ![e].status = IF last THEN "completed" ELSE exec[e].status]
       /\ \/ stale' = stale
          \/ last /\ stale' = [stale EXCEPT ![EnvOf[e]] = FALSE]
       /\ UNCHANGED <<plan, aborts>>

\* Variant: the execution keeps its started_at.
AbortKeepsClock(e) ==
    /\ Live(e)
    /\ Len(aborts[e]) < MaxAborts
    /\ aborts' = [aborts EXCEPT ![e] = Append(aborts[e],
           [completed |-> DoneCount(steps[e]), total |-> Len(steps[e])])]
    /\ steps' = [steps EXCEPT ![e] = Cleared(steps[e])]
    /\ UNCHANGED <<plan, exec, stale>>

\* POST .../abort: records the attempt and clears the steps, not the status.
Abort(e) ==
    /\ Live(e)
    /\ Len(aborts[e]) < MaxAborts
    /\ aborts' = [aborts EXCEPT ![e] = Append(aborts[e],
           [completed |-> DoneCount(steps[e]), total |-> Len(steps[e])])]
    /\ steps' = [steps EXCEPT ![e] = Cleared(steps[e])]
    /\ exec' = [exec EXCEPT ![e].started = FALSE]
    /\ UNCHANGED <<plan, stale>>

\* POST .../reset: refused when it would make a second active row.
Reset(e) ==
    /\ Live(e)
    /\ MayBe("active", e)
    /\ steps' = [steps EXCEPT ![e] = Cleared(steps[e])]
    /\ exec' = [exec EXCEPT ![e].started = FALSE, ![e].status = "active"]
    /\ UNCHANGED <<plan, aborts, stale>>

\* PATCH {status}: any status, of any execution, and nothing is done about the
\* steps or the clock.
Patch(e, st) ==
    /\ Live(e)
    /\ MayBe(st, e)
    /\ exec' = [exec EXCEPT ![e].status = st]
    /\ UNCHANGED <<plan, steps, aborts, stale>>

\* DELETE: the soft delete of SoftDeleteDestroyMixin.
Delete(e) ==
    /\ Live(e)
    /\ exec' = [exec EXCEPT ![e].deleted = TRUE]
    /\ UNCHANGED <<plan, steps, aborts, stale>>

\* The steps of a group that is imported.
Additions == UNION {[1..n -> BOOLEAN] : n \in 1..MaxSteps}

\* The plan with a step put in as its k-th, and without its i-th.
With(p, k, timed) ==
    [j \in 1..(Len(p) + 1) |->
        IF j < k THEN p[j] ELSE IF j = k THEN timed ELSE p[j - 1]]

Without(p, i) == [j \in 1..(Len(p) - 1) |-> IF j < i THEN p[j] ELSE p[j + 1]]

\* The plans one edit can leave: a step is added at any step_num, or those of a
\* group are at the end; a step is removed; or it is rewritten, its kind and
\* its place with it.
Edits(p) ==
    {With(p, k, timed) : k \in 1..(Len(p) + 1), timed \in BOOLEAN}
    \union {p \o added : added \in Additions}
    \union {Without(p, i) : i \in DOMAIN p}
    \union {With(Without(p, i), k, timed) :
                i \in DOMAIN p, k \in DOMAIN p, timed \in BOOLEAN}

\* A write to the plan's steps, and the resync its signal triggers.
EditPlan(p) ==
    /\ Len(p) <= MaxSteps
    /\ plan' = p
    /\ steps' = Resynced(p)
    /\ UNCHANGED <<exec, aborts, stale>>

\* The same write, its resync cut short: by a killed worker, or by an error,
\* which the signal handler only logs.
EditCut(p) ==
    /\ Len(p) <= MaxSteps
    /\ plan' = p
    /\ UNCHANGED <<exec, steps, aborts, stale>>

\* The catalog or an install changes (Inventory has these requests): any
\* environment may come to be behind, or not to be.
InventoryChanges ==
    /\ stale' \in [Env -> BOOLEAN]
    /\ UNCHANGED <<plan, exec, steps, aborts>>

Next ==
    \/ \E e \in Exec : Abort(e) \/ Reset(e) \/ Delete(e)
    \/ \E e \in Exec, st \in Statuses :
           Create(e, st) \/ CreateCut(e, st) \/ Patch(e, st)
    \/ \E S \in SUBSET Exec : Check(S)
    \/ \E e \in Exec : \E i \in DOMAIN steps[e] : StepDone(e, i)
    \/ \E p \in Edits(plan) : EditPlan(p) \/ EditCut(p)
    \/ InventoryChanges

Spec == Init /\ [][Next]_vars

-----------------------------------------------------------------------------
(* Safety. *)

\* A live environment never has two active executions of the plan, whichever
\* of create, check and reset made the row active (models.py:159-168).
OneActive == \A env \in Env : \A e, f \in ActiveFor(env) : e = f

\* An execution's clock runs exactly while a timed step of its present
\* attempt is done: what mark_step_done starts, abort and reset stop, and a
\* plan edit never rewrites the steps of a running clock.
ClockMatchesSteps ==
    \A e \in Exec :
        exec[e].started <=>
            \E i \in DOMAIN steps[e] : steps[e][i].timed /\ steps[e][i].done

\* A step carries a start time exactly when it is a timed step that is done,
\* so "a step has started_at" is what resync may take for "in flight".
StartedMeansTimedDone ==
    \A e \in Exec : \A i \in DOMAIN steps[e] :
        steps[e][i].started <=> steps[e][i].timed /\ steps[e][i].done

\* Whether an execution counts as completed just when every step is done.
StatusAgrees(e) ==
    Live(e) /\ steps[e] # <<>> =>
        (exec[e].status = "completed" <=> AllDone(steps[e]))

\* The status of an execution and its steps part only where a client writes
\* the status (POST, PATCH), or aborts a run that is over.  No mark leaves every
\* step done and the execution open ("if it's the last, finalize",
\* services.py:90), none completes it early, and no reset, delete or plan edit
\* comes between the two, cut short or not.
StatusPartsByClient ==
    [][\A e \in Exec : StatusAgrees(e) /\ ~StatusAgrees(e)' =>
           \/ \E st \in Statuses : Create(e, st) \/ Patch(e, st)
           \/ Abort(e) /\ exec[e].status = "completed"]_vars

\* The steps of an execution whose clock runs are never replaced: their
\* number and kinds stay what was snapshotted until it is stopped.
RunningKeepsSnapshot ==
    [][\A e \in Exec : exec[e].started =>
           /\ DOMAIN steps'[e] = DOMAIN steps[e]
           /\ \A i \in DOMAIN steps[e] : steps'[e][i].timed = steps[e][i].timed]_vars

Matches(e) ==
    /\ Len(steps[e]) = Len(plan)
    /\ \A i \in DOMAIN plan : steps[e][i].timed = plan[i]

\* An active execution that has the plan's steps loses them only to an edit of
\* the plan made while one of its steps has started, or to one whose resync
\* was cut short: neither abort nor reset makes it drift (services.py:228,244).
DriftsOnlyInFlight ==
    [][\A e \in Exec :
           Active(e) /\ Matches(e) /\ Active(e)' /\ ~Matches(e)' =>
               /\ plan' # plan
               /\ \/ \E i \in DOMAIN steps[e] : steps[e][i].started
                  \/ EditCut(plan')]_vars
=============================================================================
