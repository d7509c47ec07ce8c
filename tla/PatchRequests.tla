--------------------------- MODULE PatchRequests ---------------------------
(***************************************************************************)
(* The requests of PatchRun as the server runs them: gunicorn workers      *)
(* (Dockerfile:67-71), each handling one request at a time, over one       *)
(* Postgres database at READ COMMITTED.  An action is one statement, or a  *)
(* few of which only one can be observed by another worker.                *)
(*                                                                         *)
(* Tables hold committed rows only.  A worker inside transaction.atomic    *)
(* keeps its writes in `at` until the action that commits; meanwhile it    *)
(* holds the row locks of what it has updated or deleted (HeldSteps,       *)
(* HeldExecs), and every action that writes a row waits for its lock.      *)
(* All executions here are of one plan and one environment, the key of the *)
(* unique index patch_executions_one_active.                               *)
(***************************************************************************)
EXTENDS Naturals, Sequences, FiniteSets

CONSTANTS
    Worker,     \* server processes
    Exec,       \* rows of patch_executions, created or not yet
    Ops,        \* the requests clients send
    Faults,     \* whether a worker may be killed in the middle of a request
    MaxSteps,   \* bound on the length of the plan
    MaxAborts   \* bound on the abort records of an execution

AllOps == {"create", "check", "done", "abort", "reset", "patch", "delete", "edit"}

ASSUME OpsAssumption == Ops \subseteq AllOps /\ Faults \in BOOLEAN
ASSUME WorkersAssumption == IsFiniteSet(Worker)
ASSUME BoundsAssumption == MaxSteps \in Nat /\ MaxAborts \in Nat

VARIABLES
    plan,       \* the plan's committed steps: TRUE for a timed step
    exec,       \* [Exec -> committed row]
    steps,      \* [Exec -> set of committed step rows]
    aborts,     \* [Exec -> set of committed abort rows]
    stale,      \* the environment has an installed release behind Latest
    pc,         \* [Worker -> where its request is]
    at          \* [Worker -> the request's local variables]

vars == <<plan, exec, steps, aborts, stale, pc, at>>

\* The statuses a client may write; "aborted" is written by clients alone.
Statuses == {"active", "completed", "aborted"}

NoExec == "none"

Unborn == [status |-> "none", deleted |-> FALSE, started |-> FALSE]

\* A worker's locals: the execution of its request and its row as read; the
\* step, whether it is the first timed one and whether it finalizes; the rows
\* a bulk statement is about; the plan read; what an abort records.
NoLocals == [ex |-> NoExec, row |-> Unborn,
             step |-> [gen |-> 0, num |-> 0], first |-> FALSE, last |-> FALSE,
             todo |-> {}, plan |-> <<>>,
             attempt |-> 0, completed |-> 0, total |-> 0]

-----------------------------------------------------------------------------
(* Rows. *)

Live(e) == exec[e].status # "none" /\ ~exec[e].deleted

Active(e) == Live(e) /\ exec[e].status = "active"

NewRow(st) == [status |-> st, deleted |-> FALSE, started |-> FALSE]

\* A step row is known by its snapshot (gen) and number: primary keys are
\* fresh UUIDs, so a row inserted again is never the one that was deleted.
Key(s) == [gen |-> s.gen, num |-> s.num]

Keys(e) == {Key(s) : s \in steps[e]}

\* A snapshot number no row of e has and no worker remembers.
FreshGen(e) ==
    LET used == {s.gen : s \in steps[e]}
                \union {k.gen : k \in UNION {at[w].todo : w \in Worker}}
                \union {at[w].step.gen : w \in Worker}
        free == (1..(Cardinality(used) + 1)) \ used
    IN CHOOSE g \in free : \A h \in free : g <= h

\* Variant: the steps are numbered from 0.
SnapshotFromZero(e, p) ==
    {[gen |-> FreshGen(e), num |-> i - 1, timed |-> p[i], done |-> FALSE,
      started |-> FALSE] : i \in DOMAIN p}

Snapshot(e, p) ==
    {[gen |-> FreshGen(e), num |-> i, timed |-> p[i], done |-> FALSE,
      started |-> FALSE] : i \in DOMAIN p}

Cleared(rows, keys) ==
    {IF Key(s) \in keys THEN [s EXCEPT !.done = FALSE, !.started = FALSE] ELSE s :
        s \in rows}

Marked(s) == [s EXCEPT !.done = TRUE, !.started = s.started \/ s.timed]

(* Locks. *)

\* Step rows a worker has updated or deleted in its open transaction.
HeldSteps(w) ==
    CASE pc[w] \in {"doneCount", "doneFinal", "doneCommit"} -> {at[w].step}
      [] pc[w] \in {"abortExec", "resetExec", "resyncRead", "resyncInsert"}
             -> at[w].todo
      [] OTHER -> {}

\* Whether a worker has updated, or inserted, its execution in a transaction.
HoldsExec(w) ==
    \/ pc[w] \in {"doneWrite", "doneCount", "doneFinal", "doneCommit"} /\ at[w].first
    \/ pc[w] = "doneCommit" /\ at[w].last
    \/ pc[w] \in {"checkSnap", "checkCommit"}

ExecFree(w, e) == \A v \in Worker \ {w} : ~(HoldsExec(v) /\ at[v].ex = e)

HeldIn(v, e) == IF at[v].ex = e THEN HeldSteps(v) ELSE {}

StepsFree(w, e, keys) ==
    \A v \in Worker \ {w} : HeldIn(v, e) \intersect keys = {}

\* Making e active waits for an uncommitted row with the same unique key.
KeyFree(w) == \A v \in Worker \ {w} : pc[v] \notin {"checkSnap", "checkCommit"}

OthersActive(e) == {f \in Exec \ {e} : Active(f)}

-----------------------------------------------------------------------------
Init ==
    /\ plan \in UNION {[1..n -> BOOLEAN] : n \in 0..MaxSteps}
    /\ exec = [e \in Exec |-> Unborn]
    /\ steps = [e \in Exec |-> {}]
    /\ aborts = [e \in Exec |-> {}]
    /\ stale \in BOOLEAN
    /\ pc = [w \in Worker |-> "idle"]
    /\ at = [w \in Worker |-> NoLocals]

\* How actions move a worker along.
Goto(w, label) == pc' = [pc EXCEPT ![w] = label] /\ UNCHANGED at

GotoWith(w, label, locals) ==
    pc' = [pc EXCEPT ![w] = label] /\ at' = [at EXCEPT ![w] = locals]

Return(w) == GotoWith(w, "idle", NoLocals)

Receive(w, op) == pc[w] = "idle" /\ op \in Ops

tables == <<plan, exec, steps, aborts, stale>>

-----------------------------------------------------------------------------
(* step_done and mark_step_done. *)

\* get_object: the execution's row is read, outside any transaction.
DoneRead(w, e) ==
    /\ Receive(w, "done")
    /\ Live(e)
    /\ GotoWith(w, "doneStep", [NoLocals EXCEPT !.ex = e, !.row = exec[e]])
    /\ UNCHANGED tables

\* The step's row is read; a step already done, or gone, is refused.
DoneStep(w) ==
    /\ pc[w] = "doneStep"
    /\ \/ \E s \in steps[at[w].ex] :
              /\ ~s.done
              /\ LET first == s.timed /\ ~at[w].row.started IN
                 GotoWith(w, IF first THEN "doneFirst" ELSE "doneWrite",
                          [at[w] EXCEPT !.step = Key(s), !.first = first,
                                        !.row = Unborn])
       \/ Return(w)
    /\ UNCHANGED tables

\* execution.save(started_at, patch_date), in the transaction.
DoneFirst(w) ==
    /\ pc[w] = "doneFirst"
    /\ ExecFree(w, at[w].ex)
    /\ Goto(w, "doneWrite")
    /\ UNCHANGED tables

\* step.save(update_fields): an update that finds no row rolls back.
DoneWrite(w) ==
    /\ pc[w] = "doneWrite"
    /\ StepsFree(w, at[w].ex, {at[w].step})
    /\ IF at[w].step \in Keys(at[w].ex) THEN Goto(w, "doneCount") ELSE Return(w)
    /\ UNCHANGED tables

\* execution.steps.filter(done=False).count(): committed rows and its own.
DoneCount(w) ==
    /\ pc[w] = "doneCount"
    /\ IF \E s \in steps[at[w].ex] : ~s.done /\ Key(s) # at[w].step
       THEN Goto(w, "doneCommit")
       ELSE Goto(w, "doneFinal")
    /\ UNCHANGED tables

\* finalize_execution: the execution's row is written without a look at it.
DoneFinal(w) ==
    /\ pc[w] = "doneFinal"
    /\ ExecFree(w, at[w].ex)
    /\ GotoWith(w, "doneCommit", [at[w] EXCEPT !.last = TRUE])
    /\ UNCHANGED tables

\* What a finalize brings up to date are the execution's softwares: others
\* of the environment may still be behind.
DoneCommit(w) ==
    LET e == at[w].ex IN
    /\ pc[w] = "doneCommit"
    /\ steps' = [steps EXCEPT ![e] =
           {IF Key(s) = at[w].step THEN Marked(s) ELSE s : s \in @}]
    /\ exec' = [exec EXCEPT
           ![e].started = exec[e].started \/ at[w].first,
           ![e].status = IF at[w].last THEN "completed" ELSE exec[e].status]
    /\ stale' \in IF at[w].last THEN {FALSE, stale} ELSE {stale}
    /\ Return(w)
    /\ UNCHANGED <<plan, aborts>>

-----------------------------------------------------------------------------
(* abort_execution and reset_execution. *)

\* get_object with its prefetched steps and aborts, which the counts use.
AbortRead(w, e) ==
    /\ Receive(w, "abort")
    /\ Live(e)
    /\ Cardinality(aborts[e]) < MaxAborts
    /\ GotoWith(w, "abortInsert", [NoLocals EXCEPT
           !.ex = e,
           !.attempt = Cardinality(aborts[e]) + 1,
           !.completed = Cardinality({s \in steps[e] : s.done}),
           !.total = Cardinality(steps[e])])
    /\ UNCHANGED tables

Aborting == {"abortScan", "abortClear", "abortExec"}

\* Variant: no unique constraint on the attempt number.
AbortInsertUnchecked(w) ==
    /\ pc[w] = "abortInsert"
    /\ Goto(w, "abortScan")
    /\ UNCHANGED tables

\* The attempt is inserted; its number is unique for the execution.
AbortInsert(w) ==
    LET mine == at[w] IN
    /\ pc[w] = "abortInsert"
    /\ \A v \in Worker \ {w} :
           ~(pc[v] \in Aborting /\ at[v].ex = mine.ex /\ at[v].attempt = mine.attempt)
    /\ IF \E a \in aborts[mine.ex] : a.attempt = mine.attempt
       THEN Return(w) ELSE Goto(w, "abortScan")
    /\ UNCHANGED tables

ResetRead(w, e) ==
    /\ Receive(w, "reset")
    /\ Live(e)
    /\ GotoWith(w, "resetScan", [NoLocals EXCEPT !.ex = e])
    /\ UNCHANGED tables

\* execution.steps.update(...): the rows the statement sees when it starts,
\* then, once their locks are free, those of them that still exist.
ClearScan(w) ==
    /\ pc[w] \in {"abortScan", "resetScan"}
    /\ GotoWith(w, IF pc[w] = "abortScan" THEN "abortClear" ELSE "resetClear",
                [at[w] EXCEPT !.todo = Keys(at[w].ex)])
    /\ UNCHANGED tables

\* (variant: without waiting for the locks)
ClearLockFree(w) ==
    /\ pc[w] \in {"abortClear", "resetClear"}
    /\ GotoWith(w, IF pc[w] = "abortClear" THEN "abortExec" ELSE "resetExec",
                [at[w] EXCEPT !.todo = @ \intersect Keys(at[w].ex)])
    /\ UNCHANGED tables

ClearLock(w) ==
    /\ pc[w] \in {"abortClear", "resetClear"}
    /\ StepsFree(w, at[w].ex, at[w].todo)
    /\ GotoWith(w, IF pc[w] = "abortClear" THEN "abortExec" ELSE "resetExec",
                [at[w] EXCEPT !.todo = @ \intersect Keys(at[w].ex)])
    /\ UNCHANGED tables

\* Variant: the clock is left running.
AbortCommitKeepsClock(w) ==
    LET e == at[w].ex IN
    /\ pc[w] = "abortExec"
    /\ ExecFree(w, e)
    /\ aborts' = [aborts EXCEPT ![e] = @ \union
           {[attempt |-> at[w].attempt, completed |-> at[w].completed,
             total |-> at[w].total]}]
    /\ steps' = [steps EXCEPT ![e] = Cleared(@, at[w].todo)]
    /\ Return(w)
    /\ UNCHANGED <<plan, exec, stale>>

AbortCommit(w) ==
    LET e == at[w].ex IN
    /\ pc[w] = "abortExec"
    /\ ExecFree(w, e)
    /\ aborts' = [aborts EXCEPT ![e] = @ \union
           {[attempt |-> at[w].attempt, completed |-> at[w].completed,
             total |-> at[w].total]}]
    /\ steps' = [steps EXCEPT ![e] = Cleared(@, at[w].todo)]
    /\ exec' = [exec EXCEPT ![e].started = FALSE]
    /\ Return(w)
    /\ UNCHANGED <<plan, stale>>

\* Variant: no unique index over the active rows.
ResetCommitUnchecked(w) ==
    LET e == at[w].ex IN
    /\ pc[w] = "resetExec"
    /\ ExecFree(w, e)
    /\ steps' = [steps EXCEPT ![e] = Cleared(@, at[w].todo)]
    /\ exec' = [exec EXCEPT ![e].started = FALSE, ![e].status = "active"]
    /\ Return(w)
    /\ UNCHANGED <<plan, aborts, stale>>

\* Rolled back when the row would be a second active one.
ResetCommit(w) ==
    LET e == at[w].ex IN
    /\ pc[w] = "resetExec"
    /\ ExecFree(w, e)
    /\ exec[e].deleted \/ KeyFree(w)
    /\ IF ~exec[e].deleted /\ OthersActive(e) # {}
       THEN UNCHANGED <<steps, exec>>
       ELSE /\ steps' = [steps EXCEPT ![e] = Cleared(@, at[w].todo)]
            /\ exec' = [exec EXCEPT ![e].started = FALSE, ![e].status = "active"]
    /\ Return(w)
    /\ UNCHANGED <<plan, aborts, stale>>

-----------------------------------------------------------------------------
(* PATCH, and DELETE. *)

\* get_object, and the status the request carries: the one read, when it
\* carries none (PATCH of planned_date or patch_date).
PatchRead(w, e, st) ==
    /\ Receive(w, "patch")
    /\ Live(e)
    /\ GotoWith(w, "patchSave", [NoLocals EXCEPT
           !.ex = e, !.row = [exec[e] EXCEPT !.status = st]])
    /\ UNCHANGED tables

\* serializer.save() without update_fields: the status that was sent, and
\* every other column as it was read.
PatchSave(w) ==
    LET e == at[w].ex
        activates == at[w].row.status = "active" /\ ~at[w].row.deleted
    IN /\ pc[w] = "patchSave"
       /\ ExecFree(w, e)
       /\ activates => KeyFree(w)
       /\ IF activates /\ OthersActive(e) # {}
          THEN UNCHANGED exec
          ELSE exec' = [exec EXCEPT ![e] = at[w].row]
       /\ Return(w)
       /\ UNCHANGED <<plan, steps, aborts, stale>>

\* The read and the write of deleted_at; a repeated one changes nothing.
Delete(w, e) ==
    /\ Receive(w, "delete")
    /\ Live(e)
    /\ ExecFree(w, e)
    /\ exec' = [exec EXCEPT ![e].deleted = TRUE]
    /\ UNCHANGED <<plan, steps, aborts, stale, pc, at>>

-----------------------------------------------------------------------------
(* perform_create and check_for_needed_executions. *)

\* Rows nobody has inserted, committed or not.
Unused == {e \in Exec : exec[e] = Unborn /\ \A v \in Worker : at[v].ex # e}

\* serializer.save() commits the row at once: perform_create is not atomic.
Create(w, e, st) ==
    /\ Receive(w, "create")
    /\ e \in Unused
    /\ st = "active" => KeyFree(w) /\ OthersActive(e) = {}
    /\ exec' = [exec EXCEPT ![e] = NewRow(st)]
    /\ GotoWith(w, "createSnap", [NoLocals EXCEPT !.ex = e])
    /\ UNCHANGED <<plan, steps, aborts, stale>>

\* snapshot_steps_from_plan reads the plan's steps...
CreateSnap(w) ==
    /\ pc[w] = "createSnap"
    /\ GotoWith(w, "createInsert", [at[w] EXCEPT !.plan = plan])
    /\ UNCHANGED tables

\* Variant: no unique constraint on the step number.
NoClash(w, e, p) == {}

\* (rows of e, other than those w deletes, that have a number of p)
Clash(w, e, p) == {s \in steps[e] : Key(s) \notin at[w].todo /\ s.num \in DOMAIN p}

\* ... and inserts them: a number already taken rolls the snapshot back.
CreateInsert(w) ==
    LET e == at[w].ex
        clash == Clash(w, e, at[w].plan)
    IN /\ pc[w] = "createInsert"
       /\ StepsFree(w, e, {Key(s) : s \in clash})
       /\ steps' = IF clash = {}
                   THEN [steps EXCEPT ![e] = @ \union Snapshot(e, at[w].plan)]
                   ELSE steps
       /\ Return(w)
       /\ UNCHANGED <<plan, exec, aborts, stale>>

\* The environment is found behind, with no active execution...
CheckRead(w) ==
    /\ Receive(w, "check")
    /\ stale
    /\ ~\E e \in Exec : Active(e)
    /\ Goto(w, "checkInsert")
    /\ UNCHANGED tables

\* ... and an execution is inserted, unless another became active meanwhile.
CheckInsert(w) ==
    /\ pc[w] = "checkInsert"
    /\ KeyFree(w)
    /\ IF (\E f \in Exec : Active(f)) \/ Unused = {}
       THEN Return(w)
       ELSE \E e \in Unused :
                GotoWith(w, "checkSnap", [NoLocals EXCEPT !.ex = e])
    /\ UNCHANGED tables

CheckSnap(w) ==
    /\ pc[w] = "checkSnap"
    /\ GotoWith(w, "checkCommit", [at[w] EXCEPT !.plan = plan])
    /\ UNCHANGED tables

CheckCommit(w) ==
    LET e == at[w].ex IN
    /\ pc[w] = "checkCommit"
    /\ exec' = [exec EXCEPT ![e] = NewRow("active")]
    /\ steps' = [steps EXCEPT ![e] = Snapshot(e, at[w].plan)]
    /\ Return(w)
    /\ UNCHANGED <<plan, aborts, stale>>

-----------------------------------------------------------------------------
(* A write to the plan's steps, and resync_pristine_executions. *)

\* The steps of a group that is imported.
Additions == UNION {[1..n -> BOOLEAN] : n \in 1..MaxSteps}

\* The plan with a step put in as its k-th, and without its i-th.
With(p, k, timed) ==
    [j \in 1..(Len(p) + 1) |->
        IF j < k THEN p[j] ELSE IF j = k THEN timed ELSE p[j - 1]]

Without(p, i) == [j \in 1..(Len(p) - 1) |-> IF j < i THEN p[j] ELSE p[j + 1]]

\* The plans one edit can leave: a step is added at any step_num, or those of a
\* group are at the end; a step is removed; or it is rewritten, its kind and
\* its place with it.
Edits(p) ==
    {With(p, k, timed) : k \in 1..(Len(p) + 1), timed \in BOOLEAN}
    \union {p \o added : added \in Additions}
    \union {Without(p, i) : i \in DOMAIN p}
    \union {With(Without(p, i), k, timed) :
                i \in DOMAIN p, k \in DOMAIN p, timed \in BOOLEAN}

\* The edit commits; its signal handler runs after the commit.
Edit(w) ==
    /\ Receive(w, "edit")
    /\ \E p \in Edits(plan) :
           /\ Len(p) <= MaxSteps
           /\ plan' = p
    /\ Goto(w, "resyncList")
    /\ UNCHANGED <<exec, steps, aborts, stale>>

\* The active execution of the plan, if there is one.
ResyncList(w) ==
    /\ pc[w] = "resyncList"
    /\ \/ \E e \in Exec :
              /\ Active(e)
              /\ GotoWith(w, "resyncProbe", [at[w] EXCEPT !.ex = e])
       \/ /\ ~\E e \in Exec : Active(e)
          /\ Return(w)
    /\ UNCHANGED tables

\* steps.filter(started_at__isnull=False).exists()
ResyncProbe(w) ==
    /\ pc[w] = "resyncProbe"
    /\ IF \E s \in steps[at[w].ex] : s.started
       THEN Return(w) ELSE Goto(w, "resyncScan")
    /\ UNCHANGED tables

\* steps.all().delete(): the rows it sees, then, unlocked, those left of them.
ResyncScan(w) ==
    /\ pc[w] = "resyncScan"
    /\ GotoWith(w, "resyncDelete", [at[w] EXCEPT !.todo = Keys(at[w].ex)])
    /\ UNCHANGED tables

ResyncDelete(w) ==
    /\ pc[w] = "resyncDelete"
    /\ StepsFree(w, at[w].ex, at[w].todo)
    /\ GotoWith(w, "resyncRead", [at[w] EXCEPT !.todo = @ \intersect Keys(at[w].ex)])
    /\ UNCHANGED tables

ResyncRead(w) ==
    /\ pc[w] = "resyncRead"
    /\ GotoWith(w, "resyncInsert", [at[w] EXCEPT !.plan = plan])
    /\ UNCHANGED tables

\* A clash rolls the resync back, and the signal handler only logs it.
ResyncInsert(w) ==
    LET e == at[w].ex
        clash == Clash(w, e, at[w].plan)
    IN /\ pc[w] = "resyncInsert"
       /\ StepsFree(w, e, {Key(s) : s \in clash})
       /\ steps' = IF clash = {}
                   THEN [steps EXCEPT ![e] =
                            {s \in @ : Key(s) \notin at[w].todo}
                            \union Snapshot(e, at[w].plan)]
                   ELSE steps
       /\ Return(w)
       /\ UNCHANGED <<plan, exec, aborts, stale>>

-----------------------------------------------------------------------------
(* What the environment does. *)

\* Workers that hold a lock w is waiting for.
BlockedBy(w) ==
    LET e == at[w].ex IN
    {v \in Worker \ {w} :
        \/ /\ pc[w] \in {"doneFirst", "doneFinal", "abortExec", "resetExec"}
           /\ HoldsExec(v) /\ at[v].ex = e
        \/ /\ pc[w] = "doneWrite"
           /\ at[w].step \in HeldIn(v, e)
        \/ /\ pc[w] \in {"abortClear", "resetClear", "resyncDelete"}
           /\ at[w].todo \intersect HeldIn(v, e) # {}}

\* Variant: nothing breaks a deadlock.
NoVictim(w) == FALSE

\* Postgres breaks a deadlock by failing one of its statements.
Victim(w) ==
    /\ \E v \in BlockedBy(w) : w \in BlockedBy(v)
    /\ Return(w)
    /\ UNCHANGED tables

\* A worker is killed (a timeout, a deployment): its transaction rolls back.
Kill(w) ==
    /\ Faults
    /\ pc[w] # "idle"
    /\ Return(w)
    /\ UNCHANGED tables

\* The catalog or an install changes (Inventory has these requests): the
\* environment may come to be behind, or not to be.
InventoryChanges ==
    /\ stale' \in BOOLEAN
    /\ UNCHANGED <<plan, exec, steps, aborts, pc, at>>

\* A request in progress takes its next step.
Continue(w) ==
    \/ DoneStep(w) \/ DoneFirst(w) \/ DoneWrite(w) \/ DoneCount(w)
    \/ DoneFinal(w) \/ DoneCommit(w)
    \/ AbortInsert(w) \/ ClearScan(w) \/ ClearLock(w)
    \/ AbortCommit(w) \/ ResetCommit(w)
    \/ PatchSave(w)
    \/ CreateSnap(w) \/ CreateInsert(w)
    \/ CheckInsert(w) \/ CheckSnap(w) \/ CheckCommit(w)
    \/ ResyncList(w) \/ ResyncProbe(w) \/ ResyncScan(w) \/ ResyncDelete(w)
    \/ ResyncRead(w) \/ ResyncInsert(w)
    \/ Victim(w)

\* A request arrives at an idle worker.
Begin(w) ==
    \/ \E e \in Exec : \/ DoneRead(w, e) \/ AbortRead(w, e) \/ ResetRead(w, e)
                       \/ Delete(w, e)
    \/ \E e \in Exec, st \in Statuses : PatchRead(w, e, st) \/ Create(w, e, st)
    \/ CheckRead(w)
    \/ Edit(w)

Next == (\E w \in Worker : Begin(w) \/ Continue(w) \/ Kill(w)) \/ InventoryChanges

Spec == Init /\ [][Next]_vars

\* Requests run to their end: nothing but a lock stops one, and Postgres
\* serves the waiters of a lock in the order they came.
FairSpec == Spec /\ \A w \in Worker : SF_vars(Continue(w))

-----------------------------------------------------------------------------
(* Safety, whatever the number of workers. *)

TypeOK ==
    /\ plan \in Seq(BOOLEAN)
    /\ \A e \in Exec :
           /\ exec[e] \in [status : Statuses \union {"none"},
                          deleted : BOOLEAN, started : BOOLEAN]
           /\ steps[e] \subseteq [gen : Nat, num : 1..MaxSteps, timed : BOOLEAN,
                                 done : BOOLEAN, started : BOOLEAN]
           /\ aborts[e] \subseteq [attempt : 1..MaxAborts,
                                  completed : 0..MaxSteps, total : 0..MaxSteps]
    /\ stale \in BOOLEAN
    /\ \A w \in Worker : pc[w] = "idle" => at[w] = NoLocals

\* At most one execution of the key is live and active, whatever interleaving
\* of create, check, reset and PATCH tries to make a second one.
OneActive == \A e, f \in Exec : Active(e) /\ Active(f) => e = f

\* The steps of an execution are always one whole snapshot, numbered 1..n:
\* concurrent creates and resyncs never mix two plans in one execution.
OneSnapshot ==
    \A e \in Exec :
        /\ {s.num : s \in steps[e]} = 1..Cardinality(steps[e])
        /\ \A s, t \in steps[e] : s.gen = t.gen

\* Attempts are numbered 1..n: two aborts at once never share a number.
AttemptsNumbered ==
    \A e \in Exec : {a.attempt : a \in aborts[e]} = 1..Cardinality(aborts[e])

\* The commit of a mark that finalizes leaves every step of its execution
\* done: the count of mark_step_done is still right when its transaction ends,
\* whatever abort, reset or resync commits after the count.
FinalizedOnlyWhenDone ==
    [][\A w \in Worker : DoneCommit(w) /\ at[w].last =>
           \A s \in steps'[at[w].ex] : s.done]_vars

\* Every request ends, deadlocks included.
RequestsFinish == \A w \in Worker : pc[w] # "idle" ~> pc[w] = "idle"

(* What a comment of the code says and two workers do not keep. *)

\* No active execution has steps and has them all done ("if it's the last,
\* finalize the execution", services.py:90).
NeverStuckDone ==
    \A e \in Exec : Active(e) /\ steps[e] # {} => \E s \in steps[e] : ~s.done
=============================================================================
