--------------------------- MODULE PatchRunProofs ---------------------------
(***************************************************************************)
(* Proofs about PatchRun for any set of executions and environments and    *)
(* any bounds.  The inductive invariant is the conjunction of the type     *)
(* invariant, one active execution, the clock and the started marks: the   *)
(* clock needs StartedMeansTimedDone, because a resync decides by the      *)
(* steps' started_at what the execution's own started_at is about.         *)
(***************************************************************************)
EXTENDS PatchRun, FiniteSetTheorems, TLAPS

IInv ==
    /\ TypeOK
    /\ OneActive
    /\ StartedMeansTimedDone
    /\ ClockMatchesSteps
    /\ \A e \in Exec : exec[e].status = "none" => steps[e] = <<>>

(* The operators on step rows. *)

\* A fresh snapshot is a sequence of steps, none of them done or started.
LEMMA SnapshotFacts ==
    ASSUME NEW p \in Seq(BOOLEAN)
    PROVE  /\ Snapshot(p) \in Seq(StepRow)
           /\ DOMAIN Snapshot(p) = DOMAIN p
           /\ \A i \in DOMAIN Snapshot(p) :
                 ~Snapshot(p)[i].done /\ ~Snapshot(p)[i].started
<1>1. \A i \in 1..Len(p) : p[i] \in BOOLEAN
  OBVIOUS
<1>2. Snapshot(p) = [i \in 1..Len(p) |->
          [timed |-> p[i], done |-> FALSE, started |-> FALSE]]
  BY DEF Snapshot
<1> QED
  BY <1>1, <1>2 DEF StepRow

\* Clearing keeps every step and its kind, and leaves none done or started.
LEMMA ClearedFacts ==
    ASSUME NEW rows \in Seq(StepRow)
    PROVE  /\ Cleared(rows) \in Seq(StepRow)
           /\ DOMAIN Cleared(rows) = DOMAIN rows
           /\ \A i \in DOMAIN rows :
                 /\ ~Cleared(rows)[i].done
                 /\ ~Cleared(rows)[i].started
                 /\ Cleared(rows)[i].timed = rows[i].timed
<1>0. \A i \in 1..Len(rows) : rows[i] \in StepRow
  OBVIOUS
<1>1. \A i \in 1..Len(rows) : rows[i].timed \in BOOLEAN
  BY <1>0 DEF StepRow
<1>2. Cleared(rows) = [i \in 1..Len(rows) |->
          [timed |-> rows[i].timed, done |-> FALSE, started |-> FALSE]]
  BY DEF Cleared
<1> QED
  BY <1>1, <1>2 DEF StepRow

\* Marking step i changes that step alone, and makes it done.
LEMMA MarkedFacts ==
    ASSUME NEW rows \in Seq(StepRow), NEW i \in DOMAIN rows,
           NEW new, new = [rows EXCEPT ![i] = Marked(rows[i])]
    PROVE  /\ new \in Seq(StepRow)
           /\ DOMAIN new = DOMAIN rows
           /\ \A j \in DOMAIN rows : j # i => new[j] = rows[j]
           /\ new[i].done
           /\ new[i].timed = rows[i].timed
           /\ new[i].started = (rows[i].started \/ rows[i].timed)
<1>1. rows[i] \in StepRow
  OBVIOUS
<1>2. Marked(rows[i]) \in StepRow
  BY <1>1 DEF Marked, StepRow
<1> QED
  BY <1>1, <1>2 DEF Marked, StepRow

\* The number of done steps is a number.
LEMMA DoneCountType ==
    ASSUME NEW rows \in Seq(StepRow)
    PROVE  DoneCount(rows) \in Nat
<1>1. IsFiniteSet(1..Len(rows))
  BY FS_Interval
<1>2. {i \in DOMAIN rows : rows[i].done} \subseteq 1..Len(rows)
  OBVIOUS
<1> QED
  BY <1>1, <1>2, FS_Subset, FS_CardinalityType DEF DoneCount

\* mark_step_done's count is zero exactly when every step is done.
LEMMA RemainingFacts ==
    ASSUME NEW rows \in Seq(StepRow)
    PROVE  Remaining(rows) = 0 <=> AllDone(rows)
<1> DEFINE left == {i \in DOMAIN rows : ~rows[i].done}
<1>1. IsFiniteSet(1..Len(rows)) /\ left \subseteq 1..Len(rows)
  BY FS_Interval
<1>2. IsFiniteSet(left)
  BY <1>1, FS_Subset
<1>3. Cardinality(left) = 0 <=> left = {}
  BY <1>2, FS_EmptySet
<1> QED
  BY <1>3 DEF Remaining, AllDone

\* Putting a step into a plan, or taking one out, leaves a plan.
LEMMA WithType ==
    ASSUME NEW p \in Seq(BOOLEAN), NEW k \in Nat, NEW timed \in BOOLEAN,
           k >= 1, k <= Len(p) + 1
    PROVE  With(p, k, timed) \in Seq(BOOLEAN)
<1>1. Len(p) + 1 \in Nat
  OBVIOUS
<1>2. ASSUME NEW j \in 1..(Len(p) + 1)
      PROVE  (IF j < k THEN p[j] ELSE IF j = k THEN timed ELSE p[j - 1]) \in BOOLEAN
  OBVIOUS
<1> QED
  BY <1>1, <1>2 DEF With

LEMMA WithoutType ==
    ASSUME NEW p \in Seq(BOOLEAN), NEW i \in DOMAIN p
    PROVE  /\ Without(p, i) \in Seq(BOOLEAN)
           /\ Len(Without(p, i)) = Len(p) - 1
<1>1. Len(p) - 1 \in Nat
  OBVIOUS
<1>2. \A j \in 1..(Len(p) - 1) : p[j] \in BOOLEAN /\ p[j + 1] \in BOOLEAN
  OBVIOUS
<1> QED
  BY <1>1, <1>2 DEF Without

\* An edit leaves a sequence of step kinds.
LEMMA EditsType ==
    ASSUME NEW p \in Seq(BOOLEAN), NEW q \in Edits(p)
    PROVE  q \in Seq(BOOLEAN)
<1>1. CASE \E k \in 1..(Len(p) + 1), timed \in BOOLEAN : q = With(p, k, timed)
  <2>1. PICK k \in 1..(Len(p) + 1), timed \in BOOLEAN : q = With(p, k, timed)
    BY <1>1
  <2> QED
    BY <2>1, WithType
<1>2. CASE \E added \in Additions : q = p \o added
  <2>1. PICK n \in 1..MaxSteps : \E added \in [1..n -> BOOLEAN] : q = p \o added
    BY <1>2 DEF Additions
  <2>2. PICK added \in [1..n -> BOOLEAN] : q = p \o added
    BY <2>1
  <2>3. n \in Nat
    BY <2>1, BoundsAssumption
  <2>4. added \in Seq(BOOLEAN)
    BY <2>2, <2>3
  <2> QED
    BY <2>2, <2>4
<1>3. CASE \E i \in DOMAIN p : q = Without(p, i)
  BY <1>3, WithoutType
<1>4. CASE \E i \in DOMAIN p, k \in DOMAIN p, timed \in BOOLEAN :
              q = With(Without(p, i), k, timed)
  <2>1. PICK i \in DOMAIN p, k \in DOMAIN p, timed \in BOOLEAN :
            q = With(Without(p, i), k, timed)
    BY <1>4
  <2>2. /\ Without(p, i) \in Seq(BOOLEAN)
        /\ Len(Without(p, i)) = Len(p) - 1
    BY WithoutType
  <2>3. k \in Nat /\ k >= 1 /\ k <= Len(Without(p, i)) + 1
    BY <2>2
  <2> QED
    BY <2>1, <2>2, <2>3, WithType
<1> QED
  BY <1>1, <1>2, <1>3, <1>4 DEF Edits

(* The invariant. *)

LEMMA InitInv == Init => IInv
<1> SUFFICES ASSUME Init PROVE IInv
  OBVIOUS
<1>1. TypeOK
  BY DEF Init, TypeOK, ExecRow
<1>2. \A e \in Exec : ~Active(e) /\ ~exec[e].started /\ steps[e] = <<>>
  BY DEF Init, Active, Live
<1> QED
  BY <1>1, <1>2 DEF IInv, OneActive, ActiveFor, StartedMeansTimedDone,
     ClockMatchesSteps

\* What a step does to one execution: enough to keep the two invariants
\* about it, whatever the step does to the others.
ExecOK(row, rows) ==
    /\ \A i \in DOMAIN rows : rows[i].started <=> rows[i].timed /\ rows[i].done
    /\ row.started <=> \E i \in DOMAIN rows : rows[i].timed /\ rows[i].done
    /\ row.status = "none" => rows = <<>>

\* The invariants about single executions, said of each one.
LEMMA ExecWise ==
    IInv <=> /\ TypeOK
             /\ OneActive
             /\ \A e \in Exec : ExecOK(exec[e], steps[e])
BY DEF IInv, StartedMeansTimedDone, ClockMatchesSteps, ExecOK

\* The same of the next state.
LEMMA ExecWiseNext ==
    IInv' <=> /\ TypeOK'
              /\ OneActive'
              /\ \A e \in Exec : ExecOK(exec'[e], steps'[e])
BY DEF IInv, StartedMeansTimedDone, ClockMatchesSteps, ExecOK

\* A row just snapshotted is as the invariants want it, with its clock stopped.
LEMMA FreshExecOK ==
    ASSUME NEW p \in Seq(BOOLEAN), NEW row \in ExecRow, ~row.started, row.status # "none"
    PROVE  ExecOK(row, Snapshot(p))
<1>1. /\ Snapshot(p) \in Seq(StepRow)
      /\ \A i \in DOMAIN Snapshot(p) :
             ~Snapshot(p)[i].done /\ ~Snapshot(p)[i].started
  BY SnapshotFacts
<1> QED
  BY <1>1 DEF ExecOK

\* So is a cleared one.
LEMMA ClearedExecOK ==
    ASSUME NEW rows \in Seq(StepRow), NEW row \in ExecRow, ~row.started, row.status # "none"
    PROVE  ExecOK(row, Cleared(rows))
<1>1. /\ Cleared(rows) \in Seq(StepRow)
      /\ \A i \in DOMAIN Cleared(rows) :
             ~Cleared(rows)[i].done /\ ~Cleared(rows)[i].started
  BY ClearedFacts
<1> QED
  BY <1>1 DEF ExecOK

LEMMA NextInv == IInv /\ [Next]_vars => IInv'
<1> SUFFICES ASSUME IInv, [Next]_vars PROVE IInv'
  OBVIOUS
<1> USE DEF IInv
<1>0. \A e \in Exec : ExecOK(exec[e], steps[e])
  BY ExecWise
<1>t. /\ plan \in Seq(BOOLEAN)
      /\ exec \in [Exec -> ExecRow]
      /\ steps \in [Exec -> Seq(StepRow)]
      /\ aborts \in [Exec -> Seq(AbortRow)]
      /\ stale \in [Env -> BOOLEAN]
  BY DEF TypeOK
<1>r. \A st \in Statuses : /\ NewRow(st) \in ExecRow
                          /\ ~NewRow(st).started
                          /\ NewRow(st).status = st
                          /\ ~NewRow(st).deleted
  BY DEF NewRow, ExecRow, Statuses
<1>n. "none" \notin Statuses /\ "active" \in Statuses
  BY DEF Statuses
<1>s. /\ Snapshot(plan) \in Seq(StepRow)
      /\ \A st \in Statuses : ExecOK(NewRow(st), Snapshot(plan))
  BY <1>t, <1>r, <1>n, SnapshotFacts, FreshExecOK
<1>1. ASSUME NEW e \in Exec, NEW st \in Statuses, Create(e, st) PROVE IInv'
  <2>1. TypeOK'
    <3>1. exec' \in [Exec -> ExecRow]
      BY <1>1, <1>t, <1>r DEF Create
    <3>2. steps' \in [Exec -> Seq(StepRow)]
      BY <1>1, <1>t, <1>s DEF Create
    <3>3. plan' = plan /\ aborts' = aborts /\ stale' = stale
      BY <1>1 DEF Create
    <3> QED
      BY <1>t, <3>1, <3>2, <3>3 DEF TypeOK
  <2>2. OneActive'
    <3>1. /\ exec'[e].status = st
          /\ MayBe(st, e)
          /\ \A f \in Exec : f # e => exec'[f] = exec[f]
      BY <1>1, <1>t, <1>r DEF Create
    <3>2. \A f \in Exec : Active(f)' => Active(f) \/ (f = e /\ st = "active")
      BY <3>1 DEF Active, Live
    <3>3. st = "active" =>
              \A f \in Exec : Active(f) /\ EnvOf[f] = EnvOf[e] => f = e
      BY <3>1 DEF MayBe, ActiveFor
    <3>4. \A f, g \in Exec : Active(f) /\ Active(g) /\ EnvOf[f] = EnvOf[g] => f = g
      BY EnvOfAssumption DEF OneActive, ActiveFor
    <3> QED
      BY <3>2, <3>3, <3>4 DEF OneActive, ActiveFor
  <2>3. \A f \in Exec : ExecOK(exec'[f], steps'[f])
    BY <1>0, <1>1, <1>t, <1>s DEF Create
  <2> QED
    BY <2>1, <2>2, <2>3, ExecWiseNext
<1>1c. ASSUME NEW e \in Exec, NEW st \in Statuses, CreateCut(e, st) PROVE IInv'
  <2>1. TypeOK'
    BY <1>1c, <1>t, <1>r DEF CreateCut, TypeOK
  <2>2. OneActive'
    BY <1>1c, <1>t, <1>r, EnvOfAssumption
       DEF CreateCut, MayBe, OneActive, ActiveFor, Active, Live
  <2>3. ExecOK(NewRow(st), <<>>)
    BY <1>r, <1>n DEF ExecOK
  <2>4. steps[e] = <<>>
    BY <1>0, <1>1c DEF CreateCut, ExecOK
  <2>5. \A f \in Exec : ExecOK(exec'[f], steps'[f])
    BY <1>0, <1>1c, <1>t, <2>3, <2>4 DEF CreateCut
  <2> QED
    BY <2>1, <2>2, <2>5, ExecWiseNext
<1>2. ASSUME NEW S \in SUBSET Exec, Check(S) PROVE IInv'
  <2>1. TypeOK'
    BY <1>2, <1>t, <1>r, <1>n, <1>s DEF Check, TypeOK
  <2>2. OneActive'
    BY <1>2, <1>t, <1>r, <1>n, EnvOfAssumption
       DEF Check, OneActive, ActiveFor, Active, Live, Needed
  <2>3. \A f \in Exec : ExecOK(exec'[f], steps'[f])
    BY <1>0, <1>2, <1>t, <1>n, <1>s DEF Check
  <2> QED
    BY <2>1, <2>2, <2>3, ExecWiseNext
<1>3. ASSUME NEW e \in Exec, NEW i \in DOMAIN steps[e], StepDone(e, i) PROVE IInv'
  <2> DEFINE rows == [steps[e] EXCEPT ![i] = Marked(steps[e][i])]
  <2>1. /\ steps[e] \in Seq(StepRow)
        /\ exec[e] \in ExecRow
        /\ steps[e][i] \in StepRow
    BY <1>t
  <2>0. rows = [steps[e] EXCEPT ![i] = Marked(steps[e][i])]
    OBVIOUS
  <2> HIDE DEF rows
  <2>2. /\ rows \in Seq(StepRow)
        /\ DOMAIN rows = DOMAIN steps[e]
        /\ \A j \in DOMAIN rows : j # i => rows[j] = steps[e][j]
        /\ rows[i].done
        /\ rows[i].timed = steps[e][i].timed
        /\ rows[i].started = (steps[e][i].started \/ steps[e][i].timed)
    BY <2>0, <2>1, MarkedFacts
  <2>3. /\ steps' = [steps EXCEPT ![e] = rows]
        /\ exec' = [exec EXCEPT
              ![e].started = exec[e].started \/ steps[e][i].timed,
              ![e].status = IF Remaining(rows) = 0 THEN "completed"
                            ELSE exec[e].status]
        /\ plan' = plan
        /\ aborts' = aborts
        /\ ~steps[e][i].done
    BY <1>3, <2>0 DEF StepDone
  <2>4. /\ exec'[e].started = (exec[e].started \/ steps[e][i].timed)
        /\ exec'[e].deleted = exec[e].deleted
        /\ exec'[e].status \in {"completed", exec[e].status}
        /\ exec'[e] \in ExecRow
        /\ \A f \in Exec : f # e => exec'[f] = exec[f]
    BY <2>1, <2>3, <1>t DEF ExecRow, StepRow, Statuses
  <2>5. stale' \in [Env -> BOOLEAN]
    BY <1>3, <1>t DEF StepDone
  <2>6. TypeOK'
    BY <2>2, <2>3, <2>4, <2>5, <1>t DEF TypeOK
  <2>7. \A f \in Exec : Active(f)' => Active(f)
    BY <2>4 DEF Active, Live
  <2>8. OneActive'
    BY <2>7 DEF OneActive, ActiveFor
  <2>9. ExecOK(exec'[e], rows)
    <3>1. \A j \in DOMAIN rows : rows[j].started <=> rows[j].timed /\ rows[j].done
      BY <1>0, <2>2, <2>3 DEF ExecOK
    <3>2. exec'[e].started <=> \E j \in DOMAIN rows : rows[j].timed /\ rows[j].done
      <4>1. exec[e].started <=>
                \E j \in DOMAIN steps[e] : steps[e][j].timed /\ steps[e][j].done
        BY <1>0 DEF ExecOK
      <4>2. ASSUME NEW j \in DOMAIN rows
            PROVE  rows[j].timed /\ rows[j].done <=>
                       \/ steps[e][j].timed /\ steps[e][j].done
                       \/ j = i /\ steps[e][i].timed
        BY <2>2, <2>3
      <4>3. exec'[e].started <=> exec[e].started \/ steps[e][i].timed
        BY <2>4
      <4> QED
        BY <2>2, <4>1, <4>2, <4>3
    <3>4. exec'[e].status # "none"
      BY <1>3, <2>4 DEF StepDone, Live
    <3> QED
      BY <3>1, <3>2, <3>4 DEF ExecOK
  <2>10. \A f \in Exec : ExecOK(exec'[f], steps'[f])
    BY <1>0, <1>t, <2>3, <2>4, <2>9
  <2> QED
    BY <2>6, <2>8, <2>10, ExecWiseNext
<1>4. ASSUME NEW e \in Exec, Abort(e) PROVE IInv'
  <2>1. steps[e] \in Seq(StepRow) /\ exec[e] \in ExecRow
    BY <1>t
  <2>2. /\ Cleared(steps[e]) \in Seq(StepRow)
        /\ DoneCount(steps[e]) \in Nat
        /\ Len(steps[e]) \in Nat
    BY <2>1, ClearedFacts, DoneCountType
  <2>3. /\ exec'[e] \in ExecRow
        /\ ~exec'[e].started
        /\ exec'[e].status = exec[e].status
        /\ exec'[e].deleted = exec[e].deleted
        /\ \A f \in Exec : f # e => exec'[f] = exec[f]
    BY <1>4, <1>t, <2>1 DEF Abort, ExecRow
  <2>4. [completed |-> DoneCount(steps[e]), total |-> Len(steps[e])] \in AbortRow
    BY <2>2 DEF AbortRow
  <2>5. TypeOK'
    BY <1>4, <1>t, <2>2, <2>3, <2>4 DEF Abort, TypeOK
  <2>6. \A f \in Exec : Active(f)' = Active(f)
    BY <2>3 DEF Active, Live
  <2>7. OneActive'
    BY <2>6 DEF OneActive, ActiveFor
  <2>8. ExecOK(exec'[e], Cleared(steps[e]))
    BY <1>4, <2>1, <2>3, ClearedExecOK DEF Abort, Live
  <2>9. \A f \in Exec : ExecOK(exec'[f], steps'[f])
    BY <1>0, <1>4, <1>t, <2>3, <2>8 DEF Abort
  <2> QED
    BY <2>5, <2>7, <2>9, ExecWiseNext
<1>5. ASSUME NEW e \in Exec, Reset(e) PROVE IInv'
  <2>1. steps[e] \in Seq(StepRow) /\ exec[e] \in ExecRow
    BY <1>t
  <2>2. Cleared(steps[e]) \in Seq(StepRow)
    BY <2>1, ClearedFacts
  <2>3. /\ exec'[e] \in ExecRow
        /\ ~exec'[e].started
        /\ exec'[e].status = "active"
        /\ \A f \in Exec : f # e => exec'[f] = exec[f]
    BY <1>5, <1>t, <2>1 DEF Reset, ExecRow, Statuses
  <2>4. TypeOK'
    BY <1>5, <1>t, <2>2, <2>3 DEF Reset, TypeOK
  <2>5. OneActive'
    BY <1>5, <1>t, <2>3, EnvOfAssumption
       DEF Reset, MayBe, OneActive, ActiveFor, Active, Live
  <2>6. ExecOK(exec'[e], Cleared(steps[e]))
    BY <2>1, <2>3, ClearedExecOK
  <2>7. \A f \in Exec : ExecOK(exec'[f], steps'[f])
    BY <1>0, <1>5, <1>t, <2>3, <2>6 DEF Reset
  <2> QED
    BY <2>4, <2>5, <2>7, ExecWiseNext
<1>5p. ASSUME NEW e \in Exec, NEW st \in Statuses, Patch(e, st) PROVE IInv'
  <2>1. /\ exec'[e] \in ExecRow
        /\ exec'[e].started = exec[e].started
        /\ exec'[e].status = st
        /\ exec[e].status # "none"
        /\ \A f \in Exec : f # e => exec'[f] = exec[f]
    BY <1>5p, <1>t DEF Patch, Live, ExecRow
  <2>2. TypeOK'
    BY <1>5p, <1>t, <2>1 DEF Patch, TypeOK
  <2>3. OneActive'
    BY <1>5p, <1>t, <2>1, EnvOfAssumption
       DEF Patch, MayBe, OneActive, ActiveFor, Active, Live
  <2>4. \A f \in Exec : ExecOK(exec'[f], steps'[f])
    BY <1>0, <1>5p, <1>n, <2>1 DEF Patch, ExecOK
  <2> QED
    BY <2>2, <2>3, <2>4, ExecWiseNext
<1>6. ASSUME NEW e \in Exec, Delete(e) PROVE IInv'
  <2>1. /\ exec'[e] \in ExecRow
        /\ exec'[e].started = exec[e].started
        /\ exec'[e].deleted
        /\ exec'[e].status = exec[e].status
        /\ \A f \in Exec : f # e => exec'[f] = exec[f]
    BY <1>6, <1>t DEF Delete, ExecRow
  <2>2. TypeOK'
    BY <1>6, <1>t, <2>1 DEF Delete, TypeOK
  <2>3. \A f \in Exec : Active(f)' => Active(f)
    BY <2>1 DEF Active, Live
  <2>4. OneActive'
    BY <2>3 DEF OneActive, ActiveFor
  <2>5. \A f \in Exec : ExecOK(exec'[f], steps'[f])
    BY <1>0, <1>6, <2>1 DEF Delete, ExecOK
  <2> QED
    BY <2>2, <2>4, <2>5, ExecWiseNext
<1>7. ASSUME NEW p \in Edits(plan), EditPlan(p) PROVE IInv'
  <2>1. p \in Seq(BOOLEAN)
    BY <1>t, EditsType
  <2>2. Snapshot(p) \in Seq(StepRow)
    BY <2>1, SnapshotFacts
  <2>3. TypeOK'
    BY <1>7, <1>t, <2>1, <2>2 DEF EditPlan, Resynced, TypeOK
  <2>4. OneActive'
    BY <1>7 DEF EditPlan, OneActive, ActiveFor, Active, Live
  <2>5. ASSUME NEW f \in Exec PROVE ExecOK(exec'[f], steps'[f])
    <3>1. CASE Active(f) /\ Pristine(f)
      <4>1. ~exec[f].started
        BY <1>0, <3>1 DEF ExecOK, Pristine
      <4>2. ExecOK(exec[f], Snapshot(p))
        BY <1>t, <2>1, <3>1, <4>1, FreshExecOK DEF Active
      <4> QED
        BY <1>7, <3>1, <4>2 DEF EditPlan, Resynced
    <3>2. CASE ~(Active(f) /\ Pristine(f))
      BY <1>0, <1>7, <3>2 DEF EditPlan, Resynced
    <3> QED
      BY <3>1, <3>2
  <2> QED
    BY <2>3, <2>4, <2>5, ExecWiseNext
<1>7c. ASSUME NEW p \in Edits(plan), EditCut(p) PROVE IInv'
  <2>1. TypeOK'
    BY <1>7c, <1>t, EditsType DEF EditCut, TypeOK
  <2>2. OneActive'
    BY <1>7c DEF EditCut, OneActive, ActiveFor, Active, Live
  <2>3. \A f \in Exec : ExecOK(exec'[f], steps'[f])
    BY <1>0, <1>7c DEF EditCut
  <2> QED
    BY <2>1, <2>2, <2>3, ExecWiseNext
<1>8. CASE InventoryChanges
  <2>1. TypeOK'
    BY <1>8, <1>t DEF InventoryChanges, TypeOK
  <2>2. OneActive'
    BY <1>8 DEF InventoryChanges, OneActive, ActiveFor, Active, Live
  <2>3. \A f \in Exec : ExecOK(exec'[f], steps'[f])
    BY <1>0, <1>8 DEF InventoryChanges
  <2> QED
    BY <2>1, <2>2, <2>3, ExecWiseNext
<1>9. CASE UNCHANGED vars
  <2>1. TypeOK' /\ OneActive'
    BY <1>9 DEF vars, TypeOK, OneActive, ActiveFor, Active, Live
  <2>2. \A f \in Exec : ExecOK(exec'[f], steps'[f])
    BY <1>0, <1>9 DEF vars
  <2> QED
    BY <2>1, <2>2, ExecWiseNext
<1> QED
  BY <1>1, <1>1c, <1>2, <1>3, <1>4, <1>5, <1>5p, <1>6, <1>7, <1>7c, <1>8, <1>9
     DEF Next

\* At every state between requests the tables have their types, no environment
\* has two active executions, and "a step has started_at" means what a resync
\* takes it for, whichever of POST, PATCH, check and reset made a row active.
THEOREM Safety == Spec => [](TypeOK /\ OneActive /\ StartedMeansTimedDone)
<1>1. Spec => []IInv
  BY InitInv, NextInv, PTL DEF Spec
<1>2. IInv => TypeOK /\ OneActive /\ StartedMeansTimedDone
  BY DEF IInv
<1> QED
  BY <1>1, <1>2, PTL

\* An execution's clock runs exactly while a timed step of its present attempt
\* is done: no request stops one of the two alone.
THEOREM ClockHolds == Spec => []ClockMatchesSteps
<1>1. Spec => []IInv
  BY InitInv, NextInv, PTL DEF Spec
<1>2. IInv => ClockMatchesSteps
  BY DEF IInv
<1> QED
  BY <1>1, <1>2, PTL

(* The action properties. *)

\* A request parts an execution's status from its steps only by writing the
\* status for a client, or by aborting a run that is over: mark_step_done,
\* reset_execution and the resync keep the two together.
THEOREM StatusHolds == Spec => StatusPartsByClient
<1> DEFINE Good == \A e \in Exec : StatusAgrees(e) /\ ~StatusAgrees(e)' =>
               \/ \E st \in Statuses : Create(e, st) \/ Patch(e, st)
               \/ Abort(e) /\ exec[e].status = "completed"
<1>1. ASSUME IInv, [Next]_vars PROVE [Good]_vars
  <2>t. /\ plan \in Seq(BOOLEAN)
        /\ exec \in [Exec -> ExecRow]
        /\ steps \in [Exec -> Seq(StepRow)]
    BY <1>1 DEF IInv, TypeOK
  <2>s. ASSUME NEW f \in Exec, StatusAgrees(f),
               exec'[f] = exec[f], steps'[f] = steps[f]
        PROVE  StatusAgrees(f)'
    BY <2>s DEF StatusAgrees, Live, AllDone
  <2>f. ASSUME NEW f \in Exec, Live(f)' => exec'[f].status = "active",
               \A i \in DOMAIN steps'[f] : ~steps'[f][i].done,
               steps'[f] # <<>> => \E i \in DOMAIN steps'[f] : TRUE
        PROVE  StatusAgrees(f)'
    BY <2>f DEF StatusAgrees, Live, AllDone
  <2>n. ASSUME NEW rows \in Seq(StepRow), rows # <<>>
        PROVE  \E i \in DOMAIN rows : TRUE
    <3>1. Len(rows) \in Nat /\ Len(rows) # 0
      BY <2>n
    <3>2. 1 \in DOMAIN rows
      BY <3>1
    <3> QED
      BY <3>2
  <2>p. /\ Snapshot(plan) \in Seq(StepRow)
        /\ \A i \in DOMAIN Snapshot(plan) : ~Snapshot(plan)[i].done
    BY <2>t, SnapshotFacts
  <2>1. ASSUME NEW e \in Exec, NEW st \in Statuses, Create(e, st) \/ Patch(e, st)
        PROVE  Good
    <3>1. \A f \in Exec \ {e} : exec'[f] = exec[f] /\ steps'[f] = steps[f]
      BY <2>1, <2>t DEF Create, Patch
    <3> QED
      BY <2>1, <2>s, <3>1
  <2>2. ASSUME NEW e \in Exec, NEW st \in Statuses, CreateCut(e, st) PROVE Good
    <3>1. steps[e] = <<>>
      BY <1>1, <2>2 DEF IInv, CreateCut
    <3>2. StatusAgrees(e)'
      BY <2>2, <3>1 DEF CreateCut, StatusAgrees
    <3>3. \A f \in Exec \ {e} : exec'[f] = exec[f] /\ steps'[f] = steps[f]
      BY <2>2, <2>t DEF CreateCut
    <3> QED
      BY <2>s, <3>2, <3>3
  <2>3. ASSUME NEW S \in SUBSET Exec, Check(S) PROVE Good
    <3>1. \A f \in Exec \ S : exec'[f] = exec[f] /\ steps'[f] = steps[f]
      BY <2>3 DEF Check
    <3>2. ASSUME NEW f \in S PROVE StatusAgrees(f)'
      <4>1. exec'[f].status = "active" /\ steps'[f] = Snapshot(plan)
        BY <2>3 DEF Check, NewRow
      <4> QED
        BY <2>f, <2>n, <2>p, <4>1
    <3> QED
      BY <2>s, <3>1, <3>2
  <2>4. ASSUME NEW e \in Exec, NEW i \in DOMAIN steps[e], StepDone(e, i) PROVE Good
    <3> DEFINE rows == [steps[e] EXCEPT ![i] = Marked(steps[e][i])]
    <3>0. rows = [steps[e] EXCEPT ![i] = Marked(steps[e][i])]
      OBVIOUS
    <3> HIDE DEF rows
    <3>1. /\ rows \in Seq(StepRow)
          /\ Remaining(rows) = 0 <=> AllDone(rows)
      BY <2>t, <3>0, MarkedFacts, RemainingFacts
    <3>2. /\ steps' = [steps EXCEPT ![e] = rows]
          /\ exec' = [exec EXCEPT
                ![e].started = exec[e].started \/ steps[e][i].timed,
                ![e].status = IF Remaining(rows) = 0 THEN "completed"
                              ELSE exec[e].status]
          /\ ~steps[e][i].done
      BY <2>4, <3>0 DEF StepDone
    <3>3. /\ steps'[e] = rows
          /\ exec'[e].status = IF Remaining(rows) = 0 THEN "completed"
                                ELSE exec[e].status
          /\ exec'[e].deleted = exec[e].deleted
          /\ Live(e)
          /\ \A f \in Exec \ {e} : exec'[f] = exec[f] /\ steps'[f] = steps[f]
      <4>1. exec[e] \in ExecRow
        BY <2>t
      <4> QED
        BY <2>4, <2>t, <3>2, <4>1 DEF StepDone, ExecRow
    <3>4. ASSUME StatusAgrees(e) PROVE StatusAgrees(e)'
      <4>1. ~AllDone(steps[e]) /\ steps[e] # <<>>
        BY <2>t, <3>2 DEF AllDone
      <4>2. exec[e].status # "completed"
        BY <3>3, <3>4, <4>1 DEF StatusAgrees
      <4>3. exec'[e].status = "completed" <=> AllDone(rows)
        BY <3>1, <3>3, <4>2
      <4>4. AllDone(steps[e])' <=> AllDone(rows)
        BY <3>3 DEF AllDone
      <4> QED
        BY <4>3, <4>4 DEF StatusAgrees
    <3> QED
      BY <2>s, <3>3, <3>4
  <2>5. ASSUME NEW e \in Exec, Abort(e) \/ Reset(e) PROVE Good
    <3>1. /\ Cleared(steps[e]) \in Seq(StepRow)
          /\ DOMAIN Cleared(steps[e]) = DOMAIN steps[e]
          /\ \A i \in DOMAIN steps[e] : ~Cleared(steps[e])[i].done
      BY <2>t, ClearedFacts
    <3>2. /\ steps'[e] = Cleared(steps[e])
          /\ exec'[e].deleted = exec[e].deleted
          /\ Abort(e) => exec'[e].status = exec[e].status
          /\ Reset(e) => exec'[e].status = "active"
          /\ \A f \in Exec \ {e} : exec'[f] = exec[f] /\ steps'[f] = steps[f]
      <4>1. exec[e] \in ExecRow
        BY <2>t
      <4> QED
        BY <2>5, <2>t, <4>1 DEF Abort, Reset, ExecRow
    <3>3. ASSUME exec'[e].status # "completed" PROVE StatusAgrees(e)'
      <4>1. steps'[e] # <<>> => ~AllDone(steps[e])'
        BY <2>n, <3>1, <3>2 DEF AllDone
      <4> QED
        BY <3>3, <4>1 DEF StatusAgrees
    <3>4. StatusAgrees(e)' \/ (Abort(e) /\ exec[e].status = "completed")
      BY <2>5, <3>2, <3>3
    <3> QED
      BY <2>s, <3>2, <3>4
  <2>6. ASSUME NEW e \in Exec, Delete(e) PROVE Good
    <3>1. ~Live(e)' /\ \A f \in Exec \ {e} : exec'[f] = exec[f] /\ steps'[f] = steps[f]
      BY <2>6, <2>t DEF Delete, Live, ExecRow
    <3>2. StatusAgrees(e)'
      BY <3>1 DEF StatusAgrees
    <3> QED
      BY <2>s, <3>1, <3>2
  <2>7. ASSUME NEW p \in Edits(plan), EditPlan(p) PROVE Good
    <3>1. p \in Seq(BOOLEAN)
      BY <2>t, EditsType
    <3>2. /\ Snapshot(p) \in Seq(StepRow)
          /\ \A i \in DOMAIN Snapshot(p) : ~Snapshot(p)[i].done
      BY <3>1, SnapshotFacts
    <3>3. ASSUME NEW f \in Exec, Active(f), Pristine(f) PROVE StatusAgrees(f)'
      <4>1. exec'[f].status = "active" /\ steps'[f] = Snapshot(p)
        BY <2>7, <3>3 DEF EditPlan, Resynced, Active
      <4> QED
        BY <2>f, <2>n, <3>2, <4>1
    <3>4. ASSUME NEW f \in Exec, ~(Active(f) /\ Pristine(f))
          PROVE  exec'[f] = exec[f] /\ steps'[f] = steps[f]
      BY <2>7, <3>4 DEF EditPlan, Resynced
    <3> QED
      BY <2>s, <3>3, <3>4
  <2>8. ASSUME exec' = exec, steps' = steps PROVE Good
    BY <2>8, <2>s
  <2> QED
    BY <1>1, <2>1, <2>2, <2>3, <2>4, <2>5, <2>6, <2>7, <2>8
       DEF Next, vars, EditCut, InventoryChanges
<1>2. Spec => []IInv
  BY InitInv, NextInv, PTL DEF Spec
<1> QED
  BY <1>1, <1>2, PTL DEF Spec, StatusPartsByClient

\* The steps of an execution whose clock runs are replaced by no request: a
\* resync takes only executions without a started step.
THEOREM KeepsSnapshot == Spec => RunningKeepsSnapshot
<1> DEFINE Good == \A e \in Exec : exec[e].started =>
               /\ DOMAIN steps'[e] = DOMAIN steps[e]
               /\ \A i \in DOMAIN steps[e] : steps'[e][i].timed = steps[e][i].timed
<1>1. ASSUME IInv, [Next]_vars PROVE [Good]_vars
  <2>t. exec \in [Exec -> ExecRow] /\ steps \in [Exec -> Seq(StepRow)]
    BY <1>1 DEF IInv, TypeOK
  <2>o. \A e \in Exec : ExecOK(exec[e], steps[e])
    BY <1>1, ExecWise
  <2>n. \A e \in Exec : exec[e].status = "none" => ~exec[e].started
    BY <2>o DEF ExecOK
  <2>1. ASSUME NEW e \in Exec, NEW st \in Statuses, Create(e, st) PROVE Good
    BY <2>1, <2>n, <2>t DEF Create
  <2>2. ASSUME NEW S \in SUBSET Exec, Check(S) PROVE Good
    BY <2>2, <2>n, <2>t DEF Check
  <2>3. ASSUME NEW e \in Exec, NEW i \in DOMAIN steps[e], StepDone(e, i) PROVE Good
    <3>1. /\ steps[e] \in Seq(StepRow)
          /\ steps' = [steps EXCEPT ![e] = [steps[e] EXCEPT ![i] = Marked(steps[e][i])]]
      BY <2>3, <2>t DEF StepDone
    <3>2. /\ DOMAIN steps'[e] = DOMAIN steps[e]
          /\ \A j \in DOMAIN steps[e] : steps'[e][j].timed = steps[e][j].timed
      BY <3>1, <2>t DEF Marked
    <3> QED
      BY <3>1, <3>2, <2>t
  <2>4. ASSUME NEW e \in Exec, Abort(e) \/ Reset(e) PROVE Good
    <3>1. /\ steps[e] \in Seq(StepRow)
          /\ steps' = [steps EXCEPT ![e] = Cleared(steps[e])]
      BY <2>4, <2>t DEF Abort, Reset
    <3>2. /\ DOMAIN steps'[e] = DOMAIN steps[e]
          /\ \A j \in DOMAIN steps[e] : steps'[e][j].timed = steps[e][j].timed
      BY <3>1, <2>t, ClearedFacts
    <3> QED
      BY <3>1, <3>2, <2>t
  <2>5. ASSUME NEW p \in Edits(plan), EditPlan(p) PROVE Good
    <3>1. ASSUME NEW f \in Exec, exec[f].started PROVE ~Pristine(f)
      BY <2>o, <3>1 DEF ExecOK, Pristine
    <3> QED
      BY <2>5, <3>1 DEF EditPlan, Resynced
  <2>6. ASSUME steps' = steps PROVE Good
    BY <2>6
  <2> QED
    BY <1>1, <2>1, <2>2, <2>3, <2>4, <2>5, <2>6 
       DEF Next, vars, CreateCut, Patch, Delete, EditCut, InventoryChanges
<1>2. Spec => []IInv
  BY InitInv, NextInv, PTL DEF Spec
<1> QED
  BY <1>1, <1>2, PTL DEF Spec, RunningKeepsSnapshot

\* An execution that has the plan's steps drifts from the plan only by an edit
\* made while a step of it has started, or by one whose resync was cut short.
THEOREM Drifts == Spec => DriftsOnlyInFlight
<1> DEFINE Good == \A e \in Exec :
           Active(e) /\ Matches(e) /\ Active(e)' /\ ~Matches(e)' =>
               /\ plan' # plan
               /\ \/ \E i \in DOMAIN steps[e] : steps[e][i].started
                  \/ EditCut(plan')
<1>1. ASSUME IInv, [Next]_vars PROVE [Good]_vars
  <2>t. /\ plan \in Seq(BOOLEAN)
        /\ exec \in [Exec -> ExecRow]
        /\ steps \in [Exec -> Seq(StepRow)]
    BY <1>1 DEF IInv, TypeOK
  <2>s. ASSUME NEW e \in Exec, Matches(e), plan' = plan,
               Len(steps'[e]) = Len(steps[e]),
               \A i \in DOMAIN plan : steps'[e][i].timed = steps[e][i].timed
        PROVE  Matches(e)'
    BY <2>s DEF Matches
  <2>1. ASSUME NEW e \in Exec, NEW st \in Statuses, Create(e, st) PROVE Good
    <3>1. ~Active(e)
      BY <2>1 DEF Create, Active
    <3>2. /\ plan' = plan
          /\ \A f \in Exec : f # e => steps'[f] = steps[f]
      BY <2>1, <2>t DEF Create
    <3> QED
      BY <2>s, <3>1, <3>2
  <2>2. ASSUME NEW S \in SUBSET Exec, Check(S) PROVE Good
    <3>1. \A e \in S : ~Active(e)
      BY <2>2 DEF Check, Active
    <3>2. /\ plan' = plan
          /\ \A f \in Exec : f \notin S => steps'[f] = steps[f]
      BY <2>2, <2>t DEF Check
    <3> QED
      BY <2>s, <3>1, <3>2
  <2>3. ASSUME NEW e \in Exec, NEW i \in DOMAIN steps[e], StepDone(e, i) PROVE Good
    <3> DEFINE rows == [steps[e] EXCEPT ![i] = Marked(steps[e][i])]
    <3>0. rows = [steps[e] EXCEPT ![i] = Marked(steps[e][i])]
      OBVIOUS
    <3> HIDE DEF rows
    <3>1. /\ rows \in Seq(StepRow)
          /\ DOMAIN rows = DOMAIN steps[e]
          /\ \A j \in DOMAIN steps[e] : j # i => rows[j] = steps[e][j]
          /\ rows[i].timed = steps[e][i].timed
      BY <2>t, <3>0, MarkedFacts
    <3>2. steps' = [steps EXCEPT ![e] = rows] /\ plan' = plan
      BY <2>3, <3>0 DEF StepDone
    <3>3. ASSUME NEW f \in Exec, Matches(f) PROVE Matches(f)'
      <4>1. CASE f = e
        <5>1. steps'[f] = rows
          BY <2>t, <3>2, <4>1
        <5>2. Len(rows) = Len(steps[e])
          BY <2>t, <3>1
        <5>3. \A j \in DOMAIN plan : rows[j].timed = steps[e][j].timed
          BY <2>t, <3>1, <3>3, <4>1 DEF Matches
        <5> QED
          BY <2>s, <3>2, <3>3, <4>1, <5>1, <5>2, <5>3
      <4>2. CASE f # e
        BY <2>s, <2>t, <3>2, <3>3, <4>2
      <4> QED
        BY <4>1, <4>2
    <3> QED
      BY <3>3
  <2>4. ASSUME NEW e \in Exec, Abort(e) \/ Reset(e) PROVE Good
    <3>1. steps' = [steps EXCEPT ![e] = Cleared(steps[e])] /\ plan' = plan
      BY <2>4 DEF Abort, Reset
    <3>2. /\ Cleared(steps[e]) \in Seq(StepRow)
          /\ DOMAIN Cleared(steps[e]) = DOMAIN steps[e]
          /\ \A i \in DOMAIN steps[e] : Cleared(steps[e])[i].timed = steps[e][i].timed
      BY <2>t, ClearedFacts
    <3>3. ASSUME NEW f \in Exec, Matches(f) PROVE Matches(f)'
      <4>1. CASE f = e
        <5>1. steps'[f] = Cleared(steps[e])
          BY <2>t, <3>1, <4>1
        <5>2. Len(Cleared(steps[e])) = Len(steps[e])
          BY <2>t, <3>2
        <5>3. \A j \in DOMAIN plan : Cleared(steps[e])[j].timed = steps[e][j].timed
          BY <2>t, <3>2, <3>3, <4>1 DEF Matches
        <5> QED
          BY <2>s, <3>1, <3>3, <4>1, <5>1, <5>2, <5>3
      <4>2. CASE f # e
        BY <2>s, <2>t, <3>1, <3>3, <4>2
      <4> QED
        BY <4>1, <4>2
    <3> QED
      BY <3>3
  <2>5. ASSUME NEW p \in Edits(plan), EditPlan(p) PROVE Good
    <3> SUFFICES ASSUME NEW e \in Exec, Active(e), Matches(e), ~Matches(e)'
                 PROVE  /\ plan' # plan
                        /\ \E i \in DOMAIN steps[e] : steps[e][i].started
      OBVIOUS
    <3>1. p \in Seq(BOOLEAN) /\ plan' = p
      BY <2>5, <2>t, EditsType DEF EditPlan
    <3>2. ASSUME Pristine(e) PROVE FALSE
      <4>1. steps'[e] = Snapshot(p)
        BY <2>5, <3>2 DEF EditPlan, Resynced
      <4>2. Len(Snapshot(p)) = Len(p) /\ \A i \in DOMAIN p : Snapshot(p)[i].timed = p[i]
        BY <3>1 DEF Snapshot
      <4> QED
        BY <3>1, <4>1, <4>2 DEF Matches
    <3>3. steps'[e] = steps[e]
      BY <2>5, <3>2 DEF EditPlan, Resynced
    <3> QED
      BY <3>2, <3>3, <2>s DEF Pristine
  <2>6. ASSUME NEW p \in Edits(plan), EditCut(p) PROVE Good
    <3>1. EditCut(plan') /\ steps' = steps
      BY <2>6 DEF EditCut
    <3> QED
      BY <3>1, <2>s
  <2>7. ASSUME steps' = steps, plan' = plan PROVE Good
    BY <2>7, <2>s
  <2> QED
    BY <1>1, <2>1, <2>2, <2>3, <2>4, <2>5, <2>6, <2>7
       DEF Next, vars, CreateCut, Patch, Delete, InventoryChanges
<1>2. Spec => []IInv
  BY InitInv, NextInv, PTL DEF Spec
<1> QED
  BY <1>1, <1>2, PTL DEF Spec, DriftsOnlyInFlight
=============================================================================
