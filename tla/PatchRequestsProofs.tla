------------------------ MODULE PatchRequestsProofs ------------------------
(***************************************************************************)
(* Two promises of PatchRequests that rest on its unique indexes, proved   *)
(* for any number of workers and executions: one active execution, and     *)
(* attempts numbered without a gap.                                        *)
(*                                                                         *)
(* Neither is inductive.  A worker between its insert and its commit has   *)
(* written a row nobody sees, so the invariant says what that worker       *)
(* excludes: while an active row is uncommitted no other row is active or  *)
(* becoming so (KeyHeld), and while an attempt is uncommitted its number   *)
(* is the next one and nobody else's (Attempting).                         *)
(***************************************************************************)
EXTENDS PatchRequests, FiniteSetTheorems, TLAPS

ExecRow == [status : Statuses \union {"none"},
            deleted : BOOLEAN, started : BOOLEAN]

Label == {"idle", "doneStep", "doneFirst", "doneWrite", "doneCount",
          "doneFinal", "doneCommit", "abortInsert", "abortScan", "abortClear",
          "abortExec", "resetScan", "resetClear", "resetExec", "patchSave",
          "createSnap", "createInsert", "checkInsert", "checkSnap",
          "checkCommit", "resyncList", "resyncProbe", "resyncScan",
          "resyncDelete", "resyncRead", "resyncInsert"}

\* A worker's locals; of most fields it only matters that they are there.
Locals(X) == [ex : X, row : ExecRow, step : X, first : BOOLEAN,
              last : BOOLEAN, todo : X, plan : X,
              attempt : Nat, completed : X, total : X]

Shape ==
    /\ exec \in [Exec -> ExecRow]
    /\ pc \in [Worker -> Label]
    /\ \E X : at \in [Worker -> Locals(X)]
    /\ \E Y : aborts \in [Exec -> SUBSET Y]
    /\ \A e \in Exec : IsFiniteSet(aborts[e])

\* Where a worker has inserted an active row and not committed it.
Keyed == {"checkSnap", "checkCommit"}

KeyHeld ==
    \A w \in Worker : pc[w] \in Keyed =>
        /\ \A e \in Exec : ~Active(e)
        /\ \A v \in Worker \ {w} : pc[v] \notin Keyed

\* The number the next attempt of e gets.
NextAttempt(e) == Cardinality(aborts[e]) + 1

Attempting ==
    \A w \in Worker :
        /\ pc[w] \in {"abortInsert"} \union Aborting =>
               at[w].ex \in Exec /\ at[w].attempt \in 1..NextAttempt(at[w].ex)
        /\ pc[w] \in Aborting =>
               /\ at[w].attempt = NextAttempt(at[w].ex)
               /\ \A v \in Worker \ {w} :
                      pc[v] \in Aborting => at[v].ex # at[w].ex

IInv == Shape /\ OneActive /\ KeyHeld /\ Attempting /\ AttemptsNumbered

-----------------------------------------------------------------------------
(* A worker moves along. *)

\* What a step of w that writes no row may do: go anywhere but into a
\* transaction with an uncommitted row, unless it is in one already.
Moves(w, label, locals) ==
    /\ UNCHANGED <<exec, aborts>>
    /\ pc' = [pc EXCEPT ![w] = label] /\ at' = [at EXCEPT ![w] = locals]
    /\ label \in Label \ {"abortInsert"}
    /\ label \in Keyed => pc[w] \in Keyed
    /\ label \in Aborting => /\ pc[w] \in Aborting
                             /\ locals.ex = at[w].ex
                             /\ locals.attempt = at[w].attempt

\* Locals stay locals when one worker's are replaced.
LEMMA LocalsKept ==
    ASSUME Shape, NEW w \in Worker, NEW Z, NEW l \in Locals(Z),
           at' = [at EXCEPT ![w] = l]
    PROVE  \E X : at' \in [Worker -> Locals(X)]
  <1>1. PICK X : at \in [Worker -> Locals(X)]
    BY DEF Shape
  <1>2. \A k : k \in Locals(X) \/ k \in Locals(Z) => k \in Locals(X \union Z)
    BY DEF Locals
  <1>3. at' \in [Worker -> Locals(X \union Z)]
    BY <1>1, <1>2
  <1> QED BY <1>3

LEMMA NoLocalsFacts == \E Z : NoLocals \in Locals(Z)
  <1>1. NoLocals \in Locals({NoExec, [gen |-> 0, num |-> 0], {}, <<>>, 0})
    BY DEF NoLocals, Locals, Unborn, ExecRow
  <1> QED BY <1>1

\* Such a step leaves every worker of a transaction where it was.
LEMMA MoveKeeps ==
    ASSUME IInv, NEW w \in Worker, NEW label, NEW Z, NEW l \in Locals(Z),
           Moves(w, label, l)
    PROVE  IInv'
  <1>1. Shape /\ UNCHANGED <<exec, aborts>>
    BY DEF IInv, Moves
  <1>2. PICK X : at \in [Worker -> Locals(X)]
    BY <1>1 DEF Shape
  <1>3. /\ pc' = [pc EXCEPT ![w] = label] /\ label \in Label
        /\ at' = [at EXCEPT ![w] = l]
    BY DEF Moves
  <1>4. /\ pc'[w] = label /\ at'[w] = l
        /\ \A v \in Worker \ {w} : pc'[v] = pc[v] /\ at'[v] = at[v]
    BY <1>1, <1>2, <1>3 DEF Shape
  <1>5. Shape'
    <2>1. \E Y : at' \in [Worker -> Locals(Y)]
      BY <1>1, <1>3, LocalsKept
    <2>2. pc' \in [Worker -> Label]
      BY <1>1, <1>3 DEF Shape
    <2> QED BY <1>1, <2>1, <2>2 DEF Shape
  <1>6. OneActive' /\ AttemptsNumbered'
    BY <1>1 DEF IInv, OneActive, AttemptsNumbered, Active, Live
  <1>7. KeyHeld'
    <2>1. label \in Keyed => pc[w] \in Keyed
      BY DEF Moves
    <2> QED BY <1>1, <1>4, <2>1 DEF IInv, KeyHeld, Active, Live
  <1>8. Attempting'
    <2>1. \A e : NextAttempt(e)' = NextAttempt(e)
      BY <1>1 DEF NextAttempt
    <2>2. label # "abortInsert"
      BY DEF Moves
    <2>3. label \in Aborting => /\ pc[w] \in Aborting
                                /\ l.ex = at[w].ex /\ l.attempt = at[w].attempt
      BY DEF Moves
    <2> QED BY <1>4, <2>1, <2>2, <2>3 DEF IInv, Attempting
  <1> QED BY <1>5, <1>6, <1>7, <1>8 DEF IInv

\* Returning is moving to "idle".
LEMMA ReturnKeeps ==
    ASSUME IInv, NEW w \in Worker, Return(w), UNCHANGED <<exec, aborts>>
    PROVE  IInv'
  <1>1. PICK Z : NoLocals \in Locals(Z)
    BY NoLocalsFacts
  <1>2. "idle" \notin Keyed \union Aborting /\ "idle" \in Label \ {"abortInsert"}
    BY DEF Keyed, Aborting, Label
  <1>3. Moves(w, "idle", NoLocals)
    BY <1>2 DEF Moves, Return, GotoWith
  <1> QED BY <1>1, <1>3, MoveKeeps

\* A worker that goes on with its locals as they are.
LEMMA GotoKeeps ==
    ASSUME IInv, NEW w \in Worker, NEW label \in Label \ {"abortInsert"},
           Goto(w, label), UNCHANGED <<exec, aborts>>,
           label \in Keyed => pc[w] \in Keyed,
           label \in Aborting => pc[w] \in Aborting
    PROVE  IInv'
  <1>1. PICK X : at \in [Worker -> Locals(X)]
    BY DEF IInv, Shape
  <1>2. at[w] \in Locals(X) /\ at' = [at EXCEPT ![w] = at[w]]
    BY <1>1 DEF Goto
  <1>3. Moves(w, label, at[w])
    BY <1>2 DEF Moves, Goto
  <1> QED BY <1>2, <1>3, MoveKeeps

\* A worker whose locals change outside the transactions above.
LEMMA GotoWithKeeps ==
    ASSUME IInv, NEW w \in Worker, NEW label \in Label \ {"abortInsert"},
           NEW Z, NEW l \in Locals(Z),
           GotoWith(w, label, l), UNCHANGED <<exec, aborts>>,
           label \in Keyed => pc[w] \in Keyed,
           label \in Aborting => /\ pc[w] \in Aborting
                                 /\ l.ex = at[w].ex /\ l.attempt = at[w].attempt
    PROVE  IInv'
  <1>1. Moves(w, label, l)
    BY DEF Moves, GotoWith
  <1> QED BY <1>1, MoveKeeps

-----------------------------------------------------------------------------
(* The requests' steps that write no row. *)

\* The locals a worker has are locals when fields are replaced.
LEMMA LocalsExcept ==
    ASSUME NEW X, NEW l \in Locals(X), NEW x, NEW b \in BOOLEAN,
           NEW r \in ExecRow
    PROVE  /\ [l EXCEPT !.step = x, !.first = b, !.row = r] \in Locals(X \union {x})
           /\ [l EXCEPT !.last = TRUE] \in Locals(X)
           /\ [l EXCEPT !.todo = x] \in Locals(X \union {x})
           /\ [l EXCEPT !.plan = x] \in Locals(X \union {x})
           /\ [l EXCEPT !.ex = x] \in Locals(X \union {x})
           /\ [l EXCEPT !.ex = x, !.row = r] \in Locals(X \union {x})
  BY DEF Locals

LEMMA UnbornIsRow ==
    Unborn \in ExecRow /\ \A st \in Statuses : NewRow(st) \in ExecRow
  BY DEF Unborn, NewRow, ExecRow

LEMMA DoneKeeps ==
    ASSUME IInv, NEW w \in Worker,
           \/ \E e \in Exec : DoneRead(w, e)
           \/ DoneStep(w) \/ DoneFirst(w) \/ DoneWrite(w)
           \/ DoneCount(w) \/ DoneFinal(w)
    PROVE  IInv'
  <1>1. PICK X : at \in [Worker -> Locals(X)]
    BY DEF IInv, Shape
  <1>2. PICK Z : NoLocals \in Locals(Z)
    BY NoLocalsFacts
  <1> USE DEF tables
  <1>3. ASSUME NEW e \in Exec, DoneRead(w, e) PROVE IInv'
    <2>1. exec[e] \in ExecRow
      BY DEF IInv, Shape
    <2>2. [NoLocals EXCEPT !.ex = e, !.row = exec[e]] \in Locals(Z \union {e})
      BY <1>2, <2>1, LocalsExcept
    <2>3. "doneStep" \in Label \ ({"abortInsert"} \union Keyed \union Aborting)
      BY DEF Label, Keyed, Aborting
    <2> QED BY <1>3, <2>2, <2>3, GotoWithKeeps DEF DoneRead
  <1>4. CASE DoneStep(w)
    <2>1. CASE Return(w)
      BY <1>4, <2>1, ReturnKeeps DEF DoneStep
    <2>2. ASSUME NEW s \in steps[at[w].ex], NEW first \in BOOLEAN,
                 GotoWith(w, IF first THEN "doneFirst" ELSE "doneWrite",
                          [at[w] EXCEPT !.step = Key(s), !.first = first,
                                        !.row = Unborn])
          PROVE  IInv'
      <3>1. [at[w] EXCEPT !.step = Key(s), !.first = first, !.row = Unborn]
                \in Locals(X \union {Key(s)})
        BY <1>1, LocalsExcept, UnbornIsRow
      <3>2. (IF first THEN "doneFirst" ELSE "doneWrite")
                \in Label \ ({"abortInsert"} \union Keyed \union Aborting)
        BY DEF Label, Keyed, Aborting
      <3> QED BY <1>4, <2>2, <3>1, <3>2, GotoWithKeeps DEF DoneStep
    <2>3. ASSUME NEW s \in steps[at[w].ex],
                 GotoWith(w, IF s.timed /\ ~at[w].row.started
                             THEN "doneFirst" ELSE "doneWrite",
                          [at[w] EXCEPT !.step = Key(s),
                                        !.first = s.timed /\ ~at[w].row.started,
                                        !.row = Unborn])
          PROVE  IInv'
      <3>1. (s.timed /\ ~at[w].row.started) \in BOOLEAN
        OBVIOUS
      <3> QED BY <2>2, <2>3, <3>1
    <2> QED BY <1>4, <2>1, <2>3 DEF DoneStep
  <1>5. CASE DoneFirst(w)
    <2>1. "doneWrite" \in Label \ ({"abortInsert"} \union Keyed \union Aborting)
      BY DEF Label, Keyed, Aborting
    <2> QED BY <1>5, <2>1, GotoKeeps DEF DoneFirst
  <1>6. CASE DoneWrite(w)
    <2>1. "doneCount" \in Label \ ({"abortInsert"} \union Keyed \union Aborting)
      BY DEF Label, Keyed, Aborting
    <2> QED BY <1>6, <2>1, GotoKeeps, ReturnKeeps DEF DoneWrite
  <1>7. CASE DoneCount(w)
    <2>1. {"doneCommit", "doneFinal"} \subseteq
              Label \ ({"abortInsert"} \union Keyed \union Aborting)
      BY DEF Label, Keyed, Aborting
    <2> QED BY <1>7, <2>1, GotoKeeps DEF DoneCount
  <1>8. CASE DoneFinal(w)
    <2>1. "doneCommit" \in Label \ ({"abortInsert"} \union Keyed \union Aborting)
      BY DEF Label, Keyed, Aborting
    <2>2. [at[w] EXCEPT !.last = TRUE] \in Locals(X)
      BY <1>1, LocalsExcept, UnbornIsRow
    <2> QED BY <1>8, <2>1, <2>2, GotoWithKeeps DEF DoneFinal
  <1> QED BY <1>3, <1>4, <1>5, <1>6, <1>7, <1>8

LEMMA ClearKeeps ==
    ASSUME IInv, NEW w \in Worker,
           \/ \E e \in Exec : ResetRead(w, e)
           \/ ClearScan(w) \/ ClearLock(w)
    PROVE  IInv'
  <1>1. PICK X : at \in [Worker -> Locals(X)]
    BY DEF IInv, Shape
  <1>2. PICK Z : NoLocals \in Locals(Z)
    BY NoLocalsFacts
  <1> USE DEF tables
  <1>3. ASSUME NEW e \in Exec, ResetRead(w, e) PROVE IInv'
    <2>1. [NoLocals EXCEPT !.ex = e] \in Locals(Z \union {e})
      BY <1>2, LocalsExcept, UnbornIsRow
    <2>2. "resetScan" \in Label \ ({"abortInsert"} \union Keyed \union Aborting)
      BY DEF Label, Keyed, Aborting
    <2> QED BY <1>3, <2>1, <2>2, GotoWithKeeps DEF ResetRead
  <1>4. ASSUME NEW label \in Label \ ({"abortInsert"} \union Keyed), NEW todo,
               label \in Aborting => pc[w] \in Aborting,
               GotoWith(w, label, [at[w] EXCEPT !.todo = todo]),
               UNCHANGED <<exec, aborts>>
        PROVE  IInv'
    <2>1. [at[w] EXCEPT !.todo = todo] \in Locals(X \union {todo})
      BY <1>1, LocalsExcept, UnbornIsRow
    <2>2. /\ [at[w] EXCEPT !.todo = todo].ex = at[w].ex
          /\ [at[w] EXCEPT !.todo = todo].attempt = at[w].attempt
      BY <1>1 DEF Locals
    <2> QED BY <1>4, <2>1, <2>2, GotoWithKeeps
  <1>5. CASE ClearScan(w)
    <2>1. /\ {"abortClear", "resetClear"} \subseteq Label \ ({"abortInsert"} \union Keyed)
          /\ "resetClear" \notin Aborting /\ "abortScan" \in Aborting
      BY DEF Label, Keyed, Aborting
    <2> QED BY <1>4, <1>5, <2>1 DEF ClearScan
  <1>6. CASE ClearLock(w)
    <2>1. /\ {"abortExec", "resetExec"} \subseteq Label \ ({"abortInsert"} \union Keyed)
          /\ "resetExec" \notin Aborting /\ "abortClear" \in Aborting
      BY DEF Label, Keyed, Aborting
    <2> QED BY <1>4, <1>6, <2>1 DEF ClearLock
  <1> QED BY <1>3, <1>5, <1>6

LEMMA ReadsKeep ==
    ASSUME IInv, NEW w \in Worker,
           \/ \E e \in Exec, st \in Statuses : PatchRead(w, e, st)
           \/ CreateSnap(w) \/ CreateInsert(w) \/ CheckRead(w) \/ CheckSnap(w)
           \/ Victim(w) \/ Kill(w)
    PROVE  IInv'
  <1>1. PICK X : at \in [Worker -> Locals(X)]
    BY DEF IInv, Shape
  <1>2. PICK Z : NoLocals \in Locals(Z)
    BY NoLocalsFacts
  <1>p. [at[w] EXCEPT !.plan = plan] \in Locals(X \union {plan})
    BY <1>1, LocalsExcept, UnbornIsRow
  <1> USE DEF tables
  <1>3. ASSUME NEW e \in Exec, NEW st \in Statuses, PatchRead(w, e, st) PROVE IInv'
    <2>1. [exec[e] EXCEPT !.status = st] \in ExecRow
      BY DEF IInv, Shape, ExecRow
    <2>2. [NoLocals EXCEPT !.ex = e, !.row = [exec[e] EXCEPT !.status = st]]
              \in Locals(Z \union {e})
      BY <1>2, <2>1, LocalsExcept
    <2>3. "patchSave" \in Label \ ({"abortInsert"} \union Keyed \union Aborting)
      BY DEF Label, Keyed, Aborting
    <2> QED BY <1>3, <2>2, <2>3, GotoWithKeeps DEF PatchRead
  <1>4. CASE CreateSnap(w)
    <2>1. "createInsert" \in Label \ ({"abortInsert"} \union Keyed \union Aborting)
      BY DEF Label, Keyed, Aborting
    <2> QED BY <1>4, <1>p, <2>1, GotoWithKeeps DEF CreateSnap
  <1>5. CASE CreateInsert(w)
    BY <1>5, ReturnKeeps DEF CreateInsert
  <1>6. CASE CheckRead(w)
    <2>1. "checkInsert" \in Label \ ({"abortInsert"} \union Keyed \union Aborting)
      BY DEF Label, Keyed, Aborting
    <2> QED BY <1>6, <2>1, GotoKeeps DEF CheckRead
  <1>7. CASE CheckSnap(w)
    <2>1. /\ "checkCommit" \in Label \ ({"abortInsert"} \union Aborting)
          /\ "checkSnap" \in Keyed
      BY DEF Label, Keyed, Aborting
    <2> QED BY <1>7, <1>p, <2>1, GotoWithKeeps DEF CheckSnap
  <1>8. CASE Victim(w)
    BY <1>8, ReturnKeeps DEF Victim
  <1>9. CASE Kill(w)
    BY <1>9, ReturnKeeps DEF Kill
  <1> QED BY <1>3, <1>4, <1>5, <1>6, <1>7, <1>8, <1>9

LEMMA ResyncKeeps ==
    ASSUME IInv, NEW w \in Worker,
           \/ Edit(w) \/ ResyncList(w) \/ ResyncProbe(w) \/ ResyncScan(w)
           \/ ResyncDelete(w) \/ ResyncRead(w) \/ ResyncInsert(w)
    PROVE  IInv'
  <1>1. PICK X : at \in [Worker -> Locals(X)]
    BY DEF IInv, Shape
  <1>2. {"resyncList", "resyncProbe", "resyncScan", "resyncDelete",
         "resyncRead", "resyncInsert"} \subseteq
            Label \ ({"abortInsert"} \union Keyed \union Aborting)
    BY DEF Label, Keyed, Aborting
  <1>3. \A x : /\ [at[w] EXCEPT !.ex = x] \in Locals(X \union {x})
               /\ [at[w] EXCEPT !.todo = x] \in Locals(X \union {x})
               /\ [at[w] EXCEPT !.plan = x] \in Locals(X \union {x})
    BY <1>1, LocalsExcept, UnbornIsRow
  <1> USE DEF tables
  <1>4. CASE Edit(w)
    BY <1>2, <1>4, GotoKeeps DEF Edit
  <1>5. CASE ResyncList(w)
    BY <1>2, <1>3, <1>5, GotoWithKeeps, ReturnKeeps DEF ResyncList
  <1>6. CASE ResyncProbe(w)
    BY <1>2, <1>6, GotoKeeps, ReturnKeeps DEF ResyncProbe
  <1>7. CASE ResyncScan(w)
    BY <1>2, <1>3, <1>7, GotoWithKeeps DEF ResyncScan
  <1>8. CASE ResyncDelete(w)
    BY <1>2, <1>3, <1>8, GotoWithKeeps DEF ResyncDelete
  <1>9. CASE ResyncRead(w)
    BY <1>2, <1>3, <1>9, GotoWithKeeps DEF ResyncRead
  <1>10. CASE ResyncInsert(w)
    BY <1>10, ReturnKeeps DEF ResyncInsert
  <1> QED BY <1>4, <1>5, <1>6, <1>7, <1>8, <1>9, <1>10

-----------------------------------------------------------------------------
(* Entering a transaction. *)

\* The key is free and nothing is active when the check inserts its row.
LEMMA CheckInsertKeeps ==
    ASSUME IInv, NEW w \in Worker, CheckInsert(w)
    PROVE  IInv'
  <1>1. CASE Return(w)
    BY <1>1, ReturnKeeps DEF CheckInsert, tables
  <1>2. ASSUME NEW e \in Exec, \A f \in Exec : ~Active(f),
               GotoWith(w, "checkSnap", [NoLocals EXCEPT !.ex = e])
        PROVE  IInv'
    <2>1. UNCHANGED <<exec, aborts>> /\ KeyFree(w)
      BY DEF CheckInsert, tables
    <2>2. PICK Z : NoLocals \in Locals(Z)
      BY NoLocalsFacts
    <2>3. [NoLocals EXCEPT !.ex = e] \in Locals(Z \union {e})
      BY <2>2, LocalsExcept, UnbornIsRow
    <2>4. /\ pc' = [pc EXCEPT ![w] = "checkSnap"]
          /\ at' = [at EXCEPT ![w] = [NoLocals EXCEPT !.ex = e]]
      BY <1>2 DEF GotoWith
    <2>5. Shape'
      <3>1. \E X : at' \in [Worker -> Locals(X)]
        BY <2>3, <2>4, LocalsKept DEF IInv
      <3>2. pc' \in [Worker -> Label]
        BY <2>4 DEF IInv, Shape, Label
      <3> QED BY <2>1, <3>1, <3>2 DEF IInv, Shape
    <2>6. /\ pc'[w] = "checkSnap"
          /\ \A v \in Worker \ {w} : pc'[v] = pc[v] /\ at'[v] = at[v]
      BY <2>4 DEF IInv, Shape
    <2>7. KeyHeld'
      BY <1>2, <2>1, <2>6 DEF KeyHeld, KeyFree, Keyed, Active, Live
    <2>8. Attempting'
      <3>1. \A x : NextAttempt(x)' = NextAttempt(x)
        BY <2>1 DEF NextAttempt
      <3>2. "checkSnap" \notin {"abortInsert"} \union Aborting
        BY DEF Aborting
      <3> QED BY <2>6, <3>1, <3>2 DEF IInv, Attempting
    <2>9. OneActive' /\ AttemptsNumbered'
      BY <2>1 DEF IInv, OneActive, AttemptsNumbered, Active, Live
    <2> QED BY <2>5, <2>7, <2>8, <2>9 DEF IInv
  <1> QED BY <1>1, <1>2 DEF CheckInsert, Unused

\* The next attempt's number is at least that of any attempt begun before.
LEMMA AbortReadKeeps ==
    ASSUME IInv, NEW w \in Worker, NEW e \in Exec, AbortRead(w, e)
    PROVE  IInv'
  <1> DEFINE done == Cardinality({s \in steps[e] : s.done})
             total == Cardinality(steps[e])
             next == Cardinality(aborts[e]) + 1
             l == [NoLocals EXCEPT !.ex = e, !.attempt = next,
                                   !.completed = done, !.total = total]
  <1>1. UNCHANGED <<exec, aborts>> /\ pc[w] = "idle"
    BY DEF AbortRead, tables, Receive
  <1>2. /\ pc' = [pc EXCEPT ![w] = "abortInsert"] /\ at' = [at EXCEPT ![w] = l]
    BY DEF AbortRead, GotoWith
  <1>3. Cardinality(aborts[e]) \in Nat
    BY FS_CardinalityType DEF IInv, Shape
  <1>a. next \in Nat /\ next = NextAttempt(e)
    BY <1>3 DEF NextAttempt
  <1> HIDE DEF done, total, next
  <1>b. PICK Z : NoLocals \in Locals(Z)
    BY NoLocalsFacts
  <1>4. /\ l \in Locals(Z \union {e, done, total})
        /\ l.ex = e /\ l.attempt = NextAttempt(e)
    BY <1>a, <1>b DEF Locals
  <1> HIDE DEF l
  <1>5. Shape'
    <2>1. \E X : at' \in [Worker -> Locals(X)]
      BY <1>2, <1>4, LocalsKept DEF IInv
    <2>2. pc' \in [Worker -> Label]
      BY <1>2 DEF IInv, Shape, Label
    <2> QED BY <1>1, <2>1, <2>2 DEF IInv, Shape
  <1>6. /\ pc'[w] = "abortInsert" /\ at'[w] = l
        /\ \A v \in Worker \ {w} : pc'[v] = pc[v] /\ at'[v] = at[v]
    BY <1>2 DEF IInv, Shape
  <1>7. KeyHeld'
    BY <1>1, <1>6 DEF IInv, KeyHeld, Keyed, Active, Live
  <1>8. Attempting'
    <2>1. \A x : NextAttempt(x)' = NextAttempt(x)
      BY <1>1 DEF NextAttempt
    <2>2. NextAttempt(e) \in 1..NextAttempt(e)
      BY <1>3 DEF NextAttempt
    <2>3. "abortInsert" \notin Aborting
      BY DEF Aborting
    <2> QED BY <1>4, <1>6, <2>1, <2>2, <2>3 DEF IInv, Attempting
  <1>9. OneActive' /\ AttemptsNumbered'
    BY <1>1 DEF IInv, OneActive, AttemptsNumbered, Active, Live
  <1> QED BY <1>5, <1>7, <1>8, <1>9 DEF IInv

\* A number that is not taken, and nobody's, is the next one.
LEMMA AbortInsertKeeps ==
    ASSUME IInv, NEW w \in Worker, AbortInsert(w)
    PROVE  IInv'
  <1>1. CASE Return(w)
    BY <1>1, ReturnKeeps DEF AbortInsert, tables
  <1>2. CASE Goto(w, "abortScan") /\ ~\E a \in aborts[at[w].ex] :
                                         a.attempt = at[w].attempt
    <2> DEFINE e == at[w].ex
    <2>1. /\ UNCHANGED <<exec, aborts, at>> /\ pc[w] = "abortInsert"
          /\ pc' = [pc EXCEPT ![w] = "abortScan"]
      BY <1>2 DEF AbortInsert, tables, Goto
    <2>2. e \in Exec /\ at[w].attempt \in 1..NextAttempt(e)
      BY <2>1 DEF IInv, Attempting
    <2>3. Cardinality(aborts[e]) \in Nat
      BY <2>2, FS_CardinalityType DEF IInv, Shape
    <2>4. at[w].attempt = NextAttempt(e)
      <3>1. {a.attempt : a \in aborts[e]} = 1..Cardinality(aborts[e])
        BY <2>2 DEF IInv, AttemptsNumbered
      <3>2. at[w].attempt \notin 1..Cardinality(aborts[e])
        BY <1>2, <3>1
      <3> QED BY <2>2, <2>3, <3>2 DEF NextAttempt
    <2>5. /\ pc'[w] = "abortScan"
          /\ \A v \in Worker \ {w} : pc'[v] = pc[v]
      BY <2>1 DEF IInv, Shape
    <2>6. \A v \in Worker \ {w} : pc[v] \in Aborting => at[v].ex # e
      <3>1. \A v \in Worker \ {w} :
                ~(pc[v] \in Aborting /\ at[v].ex = e
                  /\ at[v].attempt = at[w].attempt)
        BY DEF AbortInsert
      <3>2. \A v \in Worker : pc[v] \in Aborting =>
                at[v].attempt = NextAttempt(at[v].ex)
        BY DEF IInv, Attempting
      <3> QED BY <2>4, <3>1, <3>2
    <2>7. Attempting'
      <3>1. \A x : NextAttempt(x)' = NextAttempt(x)
        BY <2>1 DEF NextAttempt
      <3> QED BY <2>1, <2>2, <2>4, <2>5, <2>6, <3>1 DEF IInv, Attempting
    <2>8. Shape'
      <3>1. pc' \in [Worker -> Label]
        BY <2>1 DEF IInv, Shape, Label
      <3> QED BY <2>1, <3>1 DEF IInv, Shape
    <2>9. KeyHeld'
      BY <2>1, <2>5 DEF IInv, KeyHeld, Keyed, Active, Live
    <2>10. OneActive' /\ AttemptsNumbered'
      BY <2>1 DEF IInv, OneActive, AttemptsNumbered, Active, Live
    <2> QED BY <2>7, <2>8, <2>9, <2>10 DEF IInv
  <1> QED BY <1>1, <1>2 DEF AbortInsert

-----------------------------------------------------------------------------
(* Steps that write rows of executions. *)

\* A worker that leaves its request, or goes on outside the transactions
\* above, having written execution rows: enough is what is active then.
LEMMA WriteKeeps ==
    ASSUME IInv, NEW w \in Worker,
           NEW label \in Label \ ({"abortInsert"} \union Keyed \union Aborting),
           NEW Z, NEW l \in Locals(Z),
           GotoWith(w, label, l), UNCHANGED aborts,
           exec' \in [Exec -> ExecRow], OneActive',
           \/ \A f \in Exec : Active(f)' => Active(f)
           \/ \A v \in Worker \ {w} : pc[v] \notin Keyed
    PROVE  IInv'
  <1>1. pc' = [pc EXCEPT ![w] = label] /\ at' = [at EXCEPT ![w] = l]
    BY DEF GotoWith
  <1>2. Shape'
    <2>1. \E X : at' \in [Worker -> Locals(X)]
      BY <1>1, LocalsKept DEF IInv
    <2>2. pc' \in [Worker -> Label]
      BY <1>1 DEF IInv, Shape
    <2> QED BY <2>1, <2>2 DEF IInv, Shape
  <1>3. /\ pc'[w] = label
        /\ \A v \in Worker \ {w} : pc'[v] = pc[v] /\ at'[v] = at[v]
    BY <1>1 DEF IInv, Shape
  <1>4. KeyHeld'
    BY <1>3 DEF IInv, KeyHeld
  <1>5. Attempting'
    <2>1. \A x : NextAttempt(x)' = NextAttempt(x)
      BY DEF NextAttempt
    <2> QED BY <1>3, <2>1 DEF IInv, Attempting
  <1>6. AttemptsNumbered'
    BY DEF IInv, AttemptsNumbered
  <1> QED BY <1>2, <1>4, <1>5, <1>6 DEF IInv

\* The same for one that returns.
LEMMA WriteReturnKeeps ==
    ASSUME IInv, NEW w \in Worker, Return(w), UNCHANGED aborts,
           exec' \in [Exec -> ExecRow], OneActive',
           \/ \A f \in Exec : Active(f)' => Active(f)
           \/ \A v \in Worker \ {w} : pc[v] \notin Keyed
    PROVE  IInv'
  <1>1. PICK Z : NoLocals \in Locals(Z)
    BY NoLocalsFacts
  <1>2. "idle" \in Label \ ({"abortInsert"} \union Keyed \union Aborting)
    BY DEF Label, Keyed, Aborting
  <1> QED BY <1>1, <1>2, WriteKeeps DEF Return

\* At most one is active when nothing becomes so ...
LEMMA FewerActive ==
    ASSUME OneActive, \A f \in Exec : Active(f)' => Active(f)
    PROVE  OneActive'
  BY DEF OneActive

\* ... and when one row does and no other is.
LEMMA OnlyActive ==
    ASSUME NEW e, \A f \in Exec \ {e} : ~Active(f)'
    PROVE  OneActive'
  BY DEF OneActive

LEMMA DoneCommitKeeps ==
    ASSUME IInv, NEW w \in Worker, DoneCommit(w)
    PROVE  IInv'
  <1>1. exec \in [Exec -> ExecRow] /\ Return(w) /\ UNCHANGED aborts
    BY DEF IInv, Shape, DoneCommit
  <1>2. exec' = [exec EXCEPT
           ![at[w].ex].started = exec[at[w].ex].started \/ at[w].first,
           ![at[w].ex].status = IF at[w].last THEN "completed"
                                ELSE exec[at[w].ex].status]
    BY DEF DoneCommit
  <1>3. ASSUME at[w].ex \in Exec
        PROVE  exec'[at[w].ex] \in ExecRow
    <2>1. exec'[at[w].ex] = [exec[at[w].ex] EXCEPT
               !.started = exec[at[w].ex].started \/ at[w].first,
               !.status = IF at[w].last THEN "completed"
                          ELSE exec[at[w].ex].status]
      BY <1>1, <1>2, <1>3
    <2>2. PICK b \in BOOLEAN : b = (exec[at[w].ex].started \/ at[w].first)
      OBVIOUS
    <2>3. PICK st \in {exec[at[w].ex].status, "completed"} :
              st = IF at[w].last THEN "completed" ELSE exec[at[w].ex].status
      OBVIOUS
    <2>4. exec[at[w].ex] \in ExecRow
      BY <1>1, <1>3
    <2>5. exec'[at[w].ex] =
              [exec[at[w].ex] EXCEPT !.started = b, !.status = st]
      BY <2>1, <2>2, <2>3
    <2>6. st \in Statuses \union {"none"}
      BY <2>4 DEF ExecRow, Statuses
    <2> QED BY <2>4, <2>5, <2>6 DEF ExecRow
  <1>4. exec' \in [Exec -> ExecRow]
    BY <1>1, <1>2, <1>3
  <1>5. \A f \in Exec : Active(f)' => Active(f)
    BY <1>1, <1>2 DEF ExecRow, Active, Live
  <1> QED BY <1>1, <1>4, <1>5, FewerActive, WriteReturnKeeps DEF IInv

LEMMA ResetCommitKeeps ==
    ASSUME IInv, NEW w \in Worker, ResetCommit(w)
    PROVE  IInv'
  <1> DEFINE e == at[w].ex
  <1>1. exec \in [Exec -> ExecRow] /\ Return(w) /\ UNCHANGED aborts
    BY DEF IInv, Shape, ResetCommit
  <1>2. CASE UNCHANGED exec
    BY <1>1, <1>2, ReturnKeeps
  <1>3. CASE /\ exec[e].deleted
             /\ exec' = [exec EXCEPT ![e].started = FALSE, ![e].status = "active"]
    <2>1. exec' \in [Exec -> ExecRow] /\ \A f \in Exec : Active(f)' => Active(f)
      BY <1>1, <1>3 DEF ExecRow, Statuses, Active, Live
    <2> QED BY <1>1, <2>1, FewerActive, WriteReturnKeeps DEF IInv
  <1>4. CASE /\ OthersActive(e) = {} /\ KeyFree(w)
             /\ exec' = [exec EXCEPT ![e].started = FALSE, ![e].status = "active"]
    <2>1. /\ exec' \in [Exec -> ExecRow]
          /\ \A f \in Exec \ {e} : ~Active(f)'
      BY <1>1, <1>4 DEF ExecRow, Statuses, Active, Live, OthersActive
    <2>2. OneActive'
      BY <2>1, OnlyActive
    <2>3. \A v \in Worker \ {w} : pc[v] \notin Keyed
      BY <1>4 DEF KeyFree, Keyed
    <2> QED BY <1>1, <2>1, <2>2, <2>3, WriteReturnKeeps
  <1> QED BY <1>2, <1>3, <1>4 DEF ResetCommit

LEMMA PatchSaveKeeps ==
    ASSUME IInv, NEW w \in Worker, PatchSave(w)
    PROVE  IInv'
  <1> DEFINE e == at[w].ex
             row == at[w].row
  <1>0. row \in ExecRow
    BY DEF IInv, Shape, Locals
  <1>1. exec \in [Exec -> ExecRow] /\ Return(w) /\ UNCHANGED aborts
    BY DEF IInv, Shape, PatchSave
  <1>2. CASE UNCHANGED exec
    BY <1>1, <1>2, ReturnKeeps
  <1>3. CASE ~(row.status = "active" /\ ~row.deleted) /\ exec' = [exec EXCEPT ![e] = row]
    <2>1. exec' \in [Exec -> ExecRow] /\ \A f \in Exec : Active(f)' => Active(f)
      BY <1>0, <1>1, <1>3 DEF Active, Live
    <2> QED BY <1>1, <2>1, FewerActive, WriteReturnKeeps DEF IInv
  <1>4. CASE OthersActive(e) = {} /\ KeyFree(w) /\ exec' = [exec EXCEPT ![e] = row]
    <2>1. /\ exec' \in [Exec -> ExecRow]
          /\ \A f \in Exec \ {e} : ~Active(f)'
      BY <1>0, <1>1, <1>4 DEF Active, Live, OthersActive
    <2>2. OneActive'
      BY <2>1, OnlyActive
    <2>3. \A v \in Worker \ {w} : pc[v] \notin Keyed
      BY <1>4 DEF KeyFree, Keyed
    <2> QED BY <1>1, <2>1, <2>2, <2>3, WriteReturnKeeps
  <1> QED BY <1>2, <1>3, <1>4 DEF PatchSave

LEMMA DeleteKeeps ==
    ASSUME IInv, NEW w \in Worker, NEW e \in Exec, Delete(w, e)
    PROVE  IInv'
  <1>1. exec \in [Exec -> ExecRow] /\ UNCHANGED <<aborts, pc, at>>
    BY DEF IInv, Shape, Delete
  <1>2. exec' \in [Exec -> ExecRow] /\ \A f \in Exec : Active(f)' => Active(f)
    BY <1>1 DEF Delete, ExecRow, Active, Live
  <1>3. Shape' /\ OneActive'
    BY <1>1, <1>2, FewerActive DEF IInv, Shape
  <1>4. KeyHeld' /\ Attempting' /\ AttemptsNumbered'
    BY <1>1, <1>2 DEF IInv, KeyHeld, Attempting, NextAttempt, AttemptsNumbered
  <1> QED BY <1>3, <1>4 DEF IInv

LEMMA CreateKeeps ==
    ASSUME IInv, NEW w \in Worker, NEW e \in Exec, NEW st \in Statuses,
           Create(w, e, st)
    PROVE  IInv'
  <1>1. PICK Z : NoLocals \in Locals(Z)
    BY NoLocalsFacts
  <1>2. [NoLocals EXCEPT !.ex = e] \in Locals(Z \union {e})
    BY <1>1, LocalsExcept, UnbornIsRow
  <1>3. "createSnap" \in Label \ ({"abortInsert"} \union Keyed \union Aborting)
    BY DEF Label, Keyed, Aborting
  <1>4. /\ exec \in [Exec -> ExecRow]
        /\ exec' = [exec EXCEPT ![e] = NewRow(st)]
        /\ NewRow(st) \in ExecRow /\ NewRow(st).status = st
    BY UnbornIsRow DEF IInv, Shape, Create, NewRow
  <1>5. exec' \in [Exec -> ExecRow]
    BY <1>4
  <1>6. CASE st = "active"
    <2>1. \A f \in Exec \ {e} : ~Active(f)'
      BY <1>4, <1>6 DEF Create, OthersActive, Active, Live
    <2>2. \A v \in Worker \ {w} : pc[v] \notin Keyed
      BY <1>6 DEF Create, KeyFree, Keyed
    <2>3. OneActive'
      BY <2>1, OnlyActive
    <2> QED BY <1>2, <1>3, <1>5, <2>2, <2>3, WriteKeeps DEF Create
  <1>7. CASE st # "active"
    <2>1. \A f \in Exec : Active(f)' => Active(f)
      BY <1>4, <1>7 DEF Active, Live
    <2>2. OneActive'
      BY <2>1, FewerActive DEF IInv
    <2> QED BY <1>2, <1>3, <1>5, <2>1, <2>2, WriteKeeps DEF Create
  <1> QED BY <1>6, <1>7

\* The one insert without a look at the others: nobody else could.
LEMMA CheckCommitKeeps ==
    ASSUME IInv, NEW w \in Worker, CheckCommit(w)
    PROVE  IInv'
  <1> DEFINE e == at[w].ex
  <1>1. /\ exec \in [Exec -> ExecRow] /\ Return(w) /\ UNCHANGED aborts
        /\ exec' = [exec EXCEPT ![e] = NewRow("active")]
    BY DEF IInv, Shape, CheckCommit
  <1>2. /\ \A f \in Exec : ~Active(f)
        /\ \A v \in Worker \ {w} : pc[v] \notin Keyed
    BY DEF IInv, KeyHeld, CheckCommit, Keyed
  <1>3. /\ exec' \in [Exec -> ExecRow]
        /\ \A f \in Exec \ {e} : ~Active(f)'
    BY <1>1, <1>2, UnbornIsRow DEF Active, Live, Statuses
  <1>4. OneActive'
    BY <1>3, OnlyActive
  <1> QED BY <1>1, <1>2, <1>3, <1>4, WriteReturnKeeps

-----------------------------------------------------------------------------
(* The commit of an abort. *)

LEMMA AbortCommitKeeps ==
    ASSUME IInv, NEW w \in Worker, AbortCommit(w)
    PROVE  IInv'
  <1>0. PICK e \in Exec : at[w].ex = e
    BY DEF IInv, Attempting, AbortCommit, Aborting
  <1> DEFINE rec == [attempt |-> at[w].attempt, completed |-> at[w].completed,
                     total |-> at[w].total]
             n == Cardinality(aborts[e])
  <1>1. /\ pc[w] = "abortExec" /\ "abortExec" \in Aborting
        /\ Return(w) /\ aborts' = [aborts EXCEPT ![e] = @ \union {rec}]
        /\ exec' = [exec EXCEPT ![e].started = FALSE]
    BY <1>0 DEF AbortCommit, Aborting
  <1>2. /\ at[w].attempt = n + 1
        /\ \A v \in Worker \ {w} : pc[v] \in Aborting => at[v].ex # e
    BY <1>0, <1>1 DEF IInv, Attempting, NextAttempt
  <1>3. IsFiniteSet(aborts[e]) /\ n \in Nat
    BY FS_CardinalityType DEF IInv, Shape
  <1>4. {a.attempt : a \in aborts[e]} = 1..n
    BY DEF IInv, AttemptsNumbered
  <1>5. rec.attempt = n + 1
    BY <1>2
  <1> HIDE DEF rec
  <1>6. rec \notin aborts[e]
    <2>1. n + 1 \notin 1..n
      BY <1>3
    <2> QED BY <1>4, <1>5, <2>1
  <1>7. /\ aborts'[e] = aborts[e] \union {rec}
        /\ \A f \in Exec \ {e} : aborts'[f] = aborts[f]
    BY <1>1 DEF IInv, Shape
  <1>8. IsFiniteSet(aborts'[e]) /\ Cardinality(aborts'[e]) = n + 1
    <2>1. /\ IsFiniteSet(aborts[e] \union {rec})
          /\ Cardinality(aborts[e] \union {rec}) = n + 1
      BY <1>3, <1>6, FS_AddElement
    <2> QED BY <1>7, <2>1
  <1>9. {a.attempt : a \in aborts'[e]} = 1..(n + 1)
    <2>1. {a.attempt : a \in aborts'[e]} = {a.attempt : a \in aborts[e]} \union {n + 1}
      BY <1>5, <1>7
    <2>2. (1..n) \union {n + 1} = 1..(n + 1)
      BY <1>3
    <2> QED BY <1>4, <2>1, <2>2
  <1>10. AttemptsNumbered'
    BY <1>7, <1>8, <1>9 DEF IInv, AttemptsNumbered
  <1>11. /\ pc' = [pc EXCEPT ![w] = "idle"] /\ at' = [at EXCEPT ![w] = NoLocals]
    BY <1>1 DEF Return, GotoWith
  <1>12. exec' \in [Exec -> ExecRow] /\ \A f \in Exec : Active(f)' => Active(f)
    BY <1>1 DEF IInv, Shape, ExecRow, Active, Live
  <1>13. Shape'
    <2>1. \E X : at' \in [Worker -> Locals(X)]
      BY <1>11, LocalsKept, NoLocalsFacts DEF IInv
    <2>2. pc' \in [Worker -> Label]
      BY <1>11 DEF IInv, Shape, Label
    <2>3. \E Y : aborts' \in [Exec -> SUBSET Y]
      <3>1. PICK Y : aborts \in [Exec -> SUBSET Y]
        BY DEF IInv, Shape
      <3>2. aborts' \in [Exec -> SUBSET (Y \union {rec})]
        BY <1>1, <3>1
      <3> QED BY <3>2
    <2>4. \A f \in Exec : IsFiniteSet(aborts'[f])
      BY <1>7, <1>8 DEF IInv, Shape
    <2> QED BY <1>12, <2>1, <2>2, <2>3, <2>4 DEF Shape
  <1>14. /\ pc'[w] = "idle"
         /\ \A v \in Worker \ {w} : pc'[v] = pc[v] /\ at'[v] = at[v]
    BY <1>11 DEF IInv, Shape
  <1>15. KeyHeld'
    BY <1>12, <1>14 DEF IInv, KeyHeld, Keyed
  <1>16. Attempting'
    <2>1. NextAttempt(e)' = NextAttempt(e) + 1 /\ NextAttempt(e) \in Nat
      BY <1>3, <1>8 DEF NextAttempt
    <2>2. \A f \in Exec \ {e} : NextAttempt(f)' = NextAttempt(f)
      BY <1>7 DEF NextAttempt
    <2>3. "idle" \notin {"abortInsert"} \union Aborting
      BY DEF Aborting
    <2>4. ASSUME NEW v \in Worker \ {w},
                 pc[v] \in {"abortInsert"} \union Aborting
          PROVE  /\ at[v].ex \in Exec
                 /\ at[v].attempt \in 1..NextAttempt(at[v].ex)'
      <3>1. at[v].ex \in Exec /\ at[v].attempt \in 1..NextAttempt(at[v].ex)
        BY <2>4 DEF IInv, Attempting
      <3>2. CASE at[v].ex = e
        BY <1>14, <2>1, <3>1, <3>2
      <3>3. CASE at[v].ex # e
        BY <1>14, <2>2, <3>1, <3>3
      <3> QED BY <3>2, <3>3
    <2>5. ASSUME NEW v \in Worker \ {w}, pc[v] \in Aborting
          PROVE  /\ at[v].attempt = NextAttempt(at[v].ex)'
                 /\ \A u \in Worker \ {v, w} :
                        pc[u] \in Aborting => at[u].ex # at[v].ex
      <3>1. /\ at[v].attempt = NextAttempt(at[v].ex)
            /\ \A u \in Worker \ {v} :
                   pc[u] \in Aborting => at[u].ex # at[v].ex
        BY <2>5 DEF IInv, Attempting
      <3>2. at[v].ex \in Exec \ {e}
        BY <1>2, <2>4, <2>5
      <3> QED BY <1>14, <2>2, <3>1, <3>2
    <2> QED BY <1>14, <2>3, <2>4, <2>5 DEF Attempting
  <1>17. OneActive'
    BY <1>12, FewerActive DEF IInv
  <1> QED BY <1>10, <1>13, <1>15, <1>16, <1>17 DEF IInv

-----------------------------------------------------------------------------
(* The invariant and the theorem. *)

LEMMA InitInv == Init => IInv
  <1> SUFFICES ASSUME Init PROVE IInv
    OBVIOUS
  <1>1. Shape
    <2>1. \E X : at \in [Worker -> Locals(X)]
      BY NoLocalsFacts DEF Init
    <2>2. aborts \in [Exec -> SUBSET {}] /\ \A e \in Exec : IsFiniteSet(aborts[e])
      BY FS_EmptySet DEF Init
    <2>3. \E Y : aborts \in [Exec -> SUBSET Y]
      BY <2>2
    <2> QED BY <2>1, <2>2, <2>3, UnbornIsRow DEF Init, Shape, Label
  <1>2. OneActive
    BY DEF Init, OneActive, Active, Live, Unborn
  <1>3. KeyHeld /\ Attempting
    BY DEF Init, KeyHeld, Keyed, Attempting, Aborting
  <1>4. AttemptsNumbered
    <2>1. \A e \in Exec : aborts[e] = {}
      BY DEF Init
    <2>2. Cardinality({}) = 0 /\ 1..0 = {}
      BY FS_EmptySet
    <2> QED BY <2>1, <2>2 DEF AttemptsNumbered
  <1> QED BY <1>1, <1>2, <1>3, <1>4 DEF IInv

LEMMA NextKeeps == IInv /\ [Next]_vars => IInv'
  <1> SUFFICES ASSUME IInv, [Next]_vars PROVE IInv'
    OBVIOUS
  <1>1. CASE UNCHANGED <<exec, aborts, pc, at>>
    BY <1>1 DEF IInv, Shape, OneActive, KeyHeld, Attempting, NextAttempt,
                AttemptsNumbered, Active, Live
  <1>2. ASSUME NEW w \in Worker, Begin(w) PROVE IInv'
    BY <1>2, DoneKeeps, ClearKeeps, ReadsKeep, ResyncKeeps, AbortReadKeeps,
       DeleteKeeps, CreateKeeps
    DEF Begin
  <1>3. ASSUME NEW w \in Worker, Continue(w) PROVE IInv'
    BY <1>3, DoneKeeps, ClearKeeps, ReadsKeep, ResyncKeeps, DoneCommitKeeps,
       AbortInsertKeeps, AbortCommitKeeps, ResetCommitKeeps, PatchSaveKeeps,
       CheckInsertKeeps, CheckCommitKeeps
    DEF Continue
  <1>4. ASSUME NEW w \in Worker, Kill(w) PROVE IInv'
    BY <1>4, ReadsKeep
  <1> QED BY <1>1, <1>2, <1>3, <1>4 DEF Next, InventoryChanges, vars

LEMMA Invariant == Spec => []IInv
  BY InitInv, NextKeeps, PTL DEF Spec

\* With any number of workers, at most one execution is active, killed workers
\* and deadlocks included.
THEOREM OneIsActive == Spec => []OneActive
  <1>1. IInv => OneActive
    BY DEF IInv
  <1> QED BY <1>1, Invariant, PTL

\* The attempts of an execution are numbered 1..n: two aborts that race never
\* share a number, and one that fails leaves no gap.
THEOREM AttemptsHold == Spec => []AttemptsNumbered
  <1>1. IInv => AttemptsNumbered
    BY DEF IInv
  <1> QED BY <1>1, Invariant, PTL
=============================================================================
