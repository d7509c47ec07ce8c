------------------------ MODULE PatchSnapshotProofs ------------------------
(***************************************************************************)
(* What PatchRequests promises of the steps of its executions, proved for  *)
(* any number of workers: they are always one whole snapshot, and when an  *)
(* execution is finalized they are all done.                               *)
(*                                                                         *)
(* Both rest on what a worker remembers of rows that others may replace    *)
(* before it writes (RowsFit): a bulk statement is about every row of the  *)
(* execution's present snapshot or about none, since a snapshot's number   *)
(* is never used again while a worker remembers it (FreshFacts); and the   *)
(* row locks keep what mark_step_done counted true until it commits        *)
(* (Apart).                                                                *)
(***************************************************************************)
EXTENDS PatchRequestsProofs, FunctionTheorems, NaturalsInduction, WellFoundedInduction

StepKey == [gen : Nat, num : Nat]

StepRow == [gen : Nat, num : 1..MaxSteps, timed : BOOLEAN,
            done : BOOLEAN, started : BOOLEAN]

AbortRow == [attempt : 1..MaxAborts,
             completed : 0..MaxSteps, total : 0..MaxSteps]

Plans == {p \in Seq(BOOLEAN) : Len(p) <= MaxSteps}

\* The locals of a request.
Request == [ex : Exec \union {NoExec}, row : ExecRow, step : StepKey,
            first : BOOLEAN, last : BOOLEAN, todo : SUBSET StepKey,
            plan : Plans, attempt : 0..MaxAborts,
            completed : 0..MaxSteps, total : 0..MaxSteps]

\* The rows S of an execution are one snapshot, numbered 1..n.
Snapped(S) ==
    \E n \in 0..MaxSteps :
        /\ {s.num : s \in S} = 1..n
        /\ \A s, t \in S : s.gen = t.gen /\ (s.num = t.num => s = t)

KeysOf(S) == {Key(s) : s \in S}

\* Where a request remembers the rows of a bulk statement.
Bulk == {"abortClear", "abortExec", "resetClear", "resetExec",
         "resyncDelete", "resyncRead", "resyncInsert"}

\* Where it has marked a step and not committed.
Marking == {"doneCount", "doneFinal", "doneCommit"}

\* What a request at a label may have for locals.
Placed(label, l) ==
    /\ label \in {"idle", "checkInsert", "resyncList"} => l = NoLocals
    /\ label \notin {"idle", "checkInsert", "resyncList"} => l.ex \in Exec
    /\ label \notin Bulk => l.todo = {}
    /\ label \in Keyed => l.ex # NoExec
    /\ l.last => label = "doneCommit"
    /\ IsFiniteSet(l.todo)

\* What it remembers of the rows S of its execution is true of them.
RowsFit(S, label, l) ==
    /\ l.todo = {} \/ l.todo = KeysOf(S) \/ l.todo \intersect KeysOf(S) = {}
    /\ label \in Marking => l.step \in KeysOf(S)
    /\ label = "doneFinal" \/ l.last => \A s \in S : Key(s) = l.step \/ s.done

\* The step rows it holds locks of: HeldSteps, of any label and locals.
Held(label, l) ==
    IF label \in Marking THEN {l.step}
    ELSE IF label \in {"abortExec", "resetExec", "resyncRead", "resyncInsert"}
         THEN l.todo
         ELSE {}

\* Two requests keep out of each other's way.
Apart(label, l, other, m) ==
    /\ label \in Keyed \/ other \in Keyed => m.ex # l.ex
    /\ m.ex = l.ex => Held(label, l) \intersect Held(other, m) = {}

Data ==
    /\ plan \in Plans
    /\ \A e \in Exec : aborts[e] \subseteq AbortRow
    /\ stale \in BOOLEAN

SInv ==
    /\ Data
    /\ at \in [Worker -> Request]
    /\ steps \in [Exec -> SUBSET StepRow]
    /\ \A e \in Exec : Snapped(steps[e])
    /\ \A w \in Worker :
           /\ Placed(pc[w], at[w])
           /\ RowsFit(steps[at[w].ex], pc[w], at[w])
           /\ pc[w] \in Keyed => exec[at[w].ex] = Unborn
           /\ \A v \in Worker \ {w} : Apart(pc[w], at[w], pc[v], at[v])

-----------------------------------------------------------------------------
(* Sets of numbers, and the snapshot numbers that are free. *)

\* A set of natural numbers has a least one.
LEMMA LeastNat ==
    ASSUME NEW S \in SUBSET Nat, S # {}
    PROVE  \E m \in S : \A k \in S : m <= k
  <1>1. PICK m \in S : \A k \in S : ~(<<k, m>> \in OpToRel(<, Nat))
    BY NatLessThanWellFounded, WFMin
  <1>2. \A k \in S : ~(k < m)
    BY <1>1 DEF OpToRel
  <1> QED BY <1>2

\* The image of a finite set is finite.
LEMMA ImageFinite ==
    ASSUME NEW S, IsFiniteSet(S), NEW f, f = [x \in S |-> f[x]]
    PROVE  IsFiniteSet({f[x] : x \in S})
  <1> DEFINE T == {f[x] : x \in S}
  <1>1. f \in Surjection(S, T)
    BY DEF Surjection
  <1> QED BY <1>1, FS_Surjection

\* Of 1..(n + 1) some number is not among n others.
LEMMA SomeFree ==
    ASSUME NEW S, IsFiniteSet(S)
    PROVE  (1..(Cardinality(S) + 1)) \ S # {}
  <1>1. Cardinality(S) \in Nat
    BY FS_CardinalityType
  <1>2. Cardinality(1..(Cardinality(S) + 1)) = Cardinality(S) + 1
    BY <1>1, FS_Interval
  <1>3. ~(1..(Cardinality(S) + 1) \subseteq S)
    BY <1>1, <1>2, FS_Subset
  <1> QED BY <1>3

\* The keys of rows are keys, one for each row of a snapshot.
LEMMA KeyFacts ==
    ASSUME NEW S \in SUBSET StepRow, Snapped(S)
    PROVE  /\ KeysOf(S) \in SUBSET StepKey
           /\ IsFiniteSet(S) /\ IsFiniteSet(KeysOf(S))
           /\ \A s, t \in S : Key(s) = Key(t) => s = t
           /\ Cardinality(S) \in 0..MaxSteps
           /\ {s.num : s \in S} = 1..Cardinality(S)
  <1>1. PICK n \in 0..MaxSteps :
            /\ {s.num : s \in S} = 1..n
            /\ \A s, t \in S : s.gen = t.gen /\ (s.num = t.num => s = t)
    BY DEF Snapped
  <1>2. n \in Nat
    BY <1>1, BoundsAssumption
  <1> DEFINE f == [s \in S |-> s.num]
  <1>3. f \in Bijection(S, 1..n)
    BY <1>1 DEF Bijection, Injection, Surjection, IsInjective
  <1>4. ExistsBijection(1..n, S)
    BY <1>3, Fun_ExistsBijSymmetric DEF ExistsBijection
  <1>5. IsFiniteSet(S) /\ Cardinality(S) = n
    BY <1>2, <1>4, FS_NatBijection, FS_CountingElements
  <1>6. KeysOf(S) \in SUBSET StepKey
    <2>1. \A s \in S : s.gen \in Nat /\ s.num \in Nat
      BY BoundsAssumption DEF StepRow
    <2> QED BY <2>1 DEF KeysOf, Key, StepKey
  <1>7. IsFiniteSet(KeysOf(S))
    <2> DEFINE g == [s \in S |-> Key(s)]
    <2>1. IsFiniteSet({g[s] : s \in S})
      BY <1>5, ImageFinite
    <2>2. {g[s] : s \in S} = KeysOf(S)
      BY DEF KeysOf
    <2> QED BY <2>1, <2>2
  <1>8. \A s, t \in S : Key(s) = Key(t) => s = t
    BY <1>1 DEF Key
  <1> QED BY <1>1, <1>5, <1>6, <1>7, <1>8

\* A snapshot's number is one that no row of the execution has and no worker
\* remembers.
LEMMA FreshFacts ==
    ASSUME SInv, NEW e \in Exec
    PROVE  /\ FreshGen(e) \in Nat
           /\ \A s \in steps[e] : s.gen # FreshGen(e)
           /\ \A w \in Worker : \A k \in at[w].todo : k.gen # FreshGen(e)
           /\ \A w \in Worker : at[w].step.gen # FreshGen(e)
  <1> DEFINE A == {s.gen : s \in steps[e]}
             B == {k.gen : k \in UNION {at[w].todo : w \in Worker}}
             C == {at[w].step.gen : w \in Worker}
             used == A \union B \union C
             free == (1..(Cardinality(used) + 1)) \ used
  <1>1. IsFiniteSet(A)
    <2> DEFINE f == [s \in steps[e] |-> s.gen]
    <2>1. IsFiniteSet(steps[e])
      BY KeyFacts DEF SInv
    <2>2. IsFiniteSet({f[s] : s \in steps[e]})
      BY <2>1, ImageFinite
    <2> QED BY <2>2
  <1>2. IsFiniteSet(B)
    <2> DEFINE todos == [w \in Worker |-> at[w].todo]
               T == {todos[w] : w \in Worker}
               all == UNION T
               f == [k \in all |-> k.gen]
    <2>1. IsFiniteSet(T)
      BY ImageFinite, WorkersAssumption
    <2>2. \A t \in T : IsFiniteSet(t)
      BY DEF SInv, Placed
    <2>3. IsFiniteSet(all)
      BY <2>1, <2>2, FS_UNION
    <2>4. B = {k.gen : k \in all}
      OBVIOUS
    <2> HIDE DEF all
    <2>5. IsFiniteSet({f[k] : k \in all})
      BY <2>3, ImageFinite
    <2> QED BY <2>4, <2>5
  <1>3. IsFiniteSet(C)
    <2> DEFINE f == [w \in Worker |-> at[w].step.gen]
    <2>1. IsFiniteSet({f[w] : w \in Worker})
      BY ImageFinite, WorkersAssumption
    <2> QED BY <2>1
  <1>4. IsFiniteSet(used)
    BY <1>1, <1>2, <1>3, FS_Union
  <1>5. Cardinality(used) \in Nat
    BY <1>4, FS_CardinalityType
  <1>6. free # {} /\ free \in SUBSET Nat
    <2> HIDE DEF used
    <2> QED BY <1>4, <1>5, SomeFree
  <1>7. PICK m \in free : \A h \in free : m <= h
    BY <1>6, LeastNat
  <1>8. FreshGen(e) = CHOOSE g \in free : \A h \in free : g <= h
    BY DEF FreshGen
  <1>9. FreshGen(e) \in free
    BY <1>7, <1>8
  <1> HIDE DEF A, B, C
  <1>10. FreshGen(e) \in Nat /\ FreshGen(e) \notin A \union B \union C
    BY <1>6, <1>9
  <1> USE DEF A, B, C
  <1>11. \A s \in steps[e] : s.gen # FreshGen(e)
    BY <1>10
  <1>12. \A w \in Worker : \A k \in at[w].todo : k.gen # FreshGen(e)
    BY <1>10
  <1>13. \A w \in Worker : at[w].step.gen # FreshGen(e)
    BY <1>10
  <1> QED BY <1>10, <1>11, <1>12, <1>13

LEMMA PlanFacts ==
    ASSUME NEW p \in Plans
    PROVE  /\ p \in Seq(BOOLEAN) /\ Len(p) \in 0..MaxSteps
           /\ DOMAIN p = 1..Len(p)
  BY BoundsAssumption DEF Plans

\* A new snapshot is whole, and no worker remembers a row of it.
LEMMA NewSnapshot ==
    ASSUME SInv, NEW e \in Exec, NEW p \in Plans
    PROVE  /\ Snapshot(e, p) \in SUBSET StepRow
           /\ Snapped(Snapshot(e, p))
           /\ \A s \in Snapshot(e, p) : ~s.done /\ ~s.started
           /\ \A w \in Worker : at[w].todo \intersect KeysOf(Snapshot(e, p)) = {}
  <1> DEFINE g == FreshGen(e)
             S == Snapshot(e, p)
             n == Len(p)
             row(i) == [gen |-> g, num |-> i, timed |-> p[i], done |-> FALSE,
                        started |-> FALSE]
  <1>1. /\ g \in Nat
        /\ \A w \in Worker : \A k \in at[w].todo : k.gen # g
    BY FreshFacts
  <1>2. n \in 0..MaxSteps /\ DOMAIN p = 1..n /\ p \in Seq(BOOLEAN)
    BY PlanFacts
  <1>3. S = {row(i) : i \in 1..n}
    BY <1>2 DEF Snapshot
  <1> HIDE DEF S, g, n
  <1>4. \A i \in 1..n : /\ i \in 1..MaxSteps /\ p[i] \in BOOLEAN
                        /\ row(i) \in StepRow
    BY <1>1, <1>2, BoundsAssumption DEF StepRow
  <1>5. S \in SUBSET StepRow
    BY <1>3, <1>4
  <1>r. \A i : /\ row(i).gen = g /\ row(i).num = i
               /\ ~row(i).done /\ ~row(i).started
    OBVIOUS
  <1> HIDE DEF row
  <1>6. \A s \in S : s.gen = g /\ ~s.done /\ ~s.started
    BY <1>3, <1>r
  <1>7. {s.num : s \in S} = 1..n
    BY <1>3, <1>r
  <1>8. \A s, t \in S : s.num = t.num => s = t
    BY <1>3, <1>r
  <1>9. Snapped(S)
    BY <1>2, <1>6, <1>7, <1>8 DEF Snapped
  <1>10. \A k \in KeysOf(S) : k.gen = g
    BY <1>6 DEF KeysOf, Key
  <1> USE DEF S
  <1> QED BY <1>1, <1>5, <1>6, <1>9, <1>10

\* An empty plan has an empty snapshot.
LEMMA EmptyPlan ==
    ASSUME NEW e, NEW p \in Plans, DOMAIN p = {}
    PROVE  Snapshot(e, p) = {}
  BY DEF Snapshot

-----------------------------------------------------------------------------
(* Steps of a worker. *)

LEMMA HeldFacts == \A v \in Worker : HeldSteps(v) = Held(pc[v], at[v])
  BY DEF HeldSteps, Held, Marking

LEMMA ApartSymmetric ==
    ASSUME NEW label, NEW l, NEW other, NEW m, Apart(label, l, other, m)
    PROVE  Apart(other, m, label, l)
  BY DEF Apart

\* What a step of worker w must see to, and what it must leave to the others.
LEMMA StepFits ==
    ASSUME IInv, SInv, NEW w \in Worker, NEW label, NEW l \in Request,
           pc' = [pc EXCEPT ![w] = label], at' = [at EXCEPT ![w] = l],
           Data', steps' \in [Exec -> SUBSET StepRow],
           \A e \in Exec : Snapped(steps'[e]),
           Placed(label, l), RowsFit(steps'[l.ex], label, l),
           label \in Keyed => exec'[l.ex] = Unborn,
           \A v \in Worker \ {w} :
               /\ Apart(label, l, pc[v], at[v])
               /\ RowsFit(steps'[at[v].ex], pc[v], at[v])
               /\ pc[v] \in Keyed => exec'[at[v].ex] = exec[at[v].ex]
    PROVE  SInv'
  <1>1. /\ pc \in [Worker -> Label] /\ at \in [Worker -> Request]
    BY DEF IInv, Shape, SInv
  <1>2. /\ pc'[w] = label /\ at'[w] = l
        /\ \A v \in Worker \ {w} : pc'[v] = pc[v] /\ at'[v] = at[v]
        /\ at' \in [Worker -> Request]
    BY <1>1
  <1>3. ASSUME NEW v \in Worker
        PROVE  /\ Placed(pc'[v], at'[v])
               /\ RowsFit(steps'[at'[v].ex], pc'[v], at'[v])
               /\ pc'[v] \in Keyed => exec'[at'[v].ex] = Unborn
               /\ \A u \in Worker \ {v} : Apart(pc'[v], at'[v], pc'[u], at'[u])
    <2>1. CASE v = w
      BY <1>2, <2>1
    <2>2. CASE v # w
      <3>1. /\ Placed(pc[v], at[v])
            /\ pc[v] \in Keyed => exec[at[v].ex] = Unborn
            /\ \A u \in Worker \ {v} : Apart(pc[v], at[v], pc[u], at[u])
        BY DEF SInv
      <3>2. Apart(pc[v], at[v], label, l)
        BY <2>2, ApartSymmetric
      <3> QED BY <1>2, <2>2, <3>1, <3>2
    <2> QED BY <2>1, <2>2
  <1> QED BY <1>2, <1>3 DEF SInv

\* A step that writes no row of an execution.
LEMMA QuietFits ==
    ASSUME IInv, SInv, NEW w \in Worker, NEW label, NEW l \in Request,
           GotoWith(w, label, l), Data', UNCHANGED <<exec, steps>>,
           Placed(label, l), RowsFit(steps[l.ex], label, l),
           label \in Keyed => exec[l.ex] = Unborn,
           \A v \in Worker \ {w} : Apart(label, l, pc[v], at[v])
    PROVE  SInv'
  <1>1. /\ steps \in [Exec -> SUBSET StepRow]
        /\ \A e \in Exec : Snapped(steps[e])
        /\ \A v \in Worker \ {w} : RowsFit(steps[at[v].ex], pc[v], at[v])
    BY DEF SInv
  <1> QED BY <1>1, StepFits DEF GotoWith

\* A request that ends is in nobody's way.
LEMMA IdleFits ==
    ASSUME SInv, NEW w \in Worker
    PROVE  /\ NoLocals \in Request
           /\ Placed("idle", NoLocals)
           /\ \A S : RowsFit(S, "idle", NoLocals)
           /\ "idle" \notin Keyed
           /\ \A v \in Worker : Apart("idle", NoLocals, pc[v], at[v])
  <1>1. NoLocals \in Request
    <2>1. <<>> \in Plans
      BY BoundsAssumption DEF Plans
    <2>2. /\ 0 \in 0..MaxSteps /\ 0 \in 0..MaxAborts
          /\ [gen |-> 0, num |-> 0] \in StepKey
      BY BoundsAssumption DEF StepKey
    <2> QED BY <2>1, <2>2, UnbornIsRow DEF NoLocals, Request
  <1>2. /\ NoLocals.ex = NoExec /\ NoLocals.todo = {} /\ ~NoLocals.last
    BY DEF NoLocals
  <1>3. "idle" \notin Keyed \union Bulk \union Marking
    BY DEF Keyed, Bulk, Marking
  <1>4. Placed("idle", NoLocals)
    BY <1>2, <1>3, FS_EmptySet DEF Placed
  <1>5. \A S : RowsFit(S, "idle", NoLocals)
    BY <1>2, <1>3 DEF RowsFit
  <1>6. Held("idle", NoLocals) = {}
    BY <1>3 DEF Held
  <1>7. \A v \in Worker : pc[v] \in Keyed => at[v].ex # NoExec
    BY DEF SInv, Placed
  <1> QED BY <1>1, <1>2, <1>3, <1>4, <1>5, <1>6, <1>7 DEF Apart

LEMMA ReturnFits ==
    ASSUME IInv, SInv, NEW w \in Worker, Return(w), Data',
           UNCHANGED <<exec, steps>>
    PROVE  SInv'
  BY IdleFits, QuietFits DEF Return

\* What is replaced when one execution's step rows are.
LEMMA RowsReplaced ==
    ASSUME steps \in [Exec -> SUBSET StepRow], NEW e \in Exec,
           NEW S \in SUBSET StepRow, steps' = [steps EXCEPT ![e] = S]
    PROVE  /\ steps' \in [Exec -> SUBSET StepRow] /\ steps'[e] = S
           /\ \A f \in Exec \ {e} : steps'[f] = steps[f]
  OBVIOUS

\* A request that ends with a write to its own execution e.
LEMMA WriteFits ==
    ASSUME IInv, SInv, NEW w \in Worker, Return(w), Data',
           NEW e \in Exec, at[w].ex = e,
           \A f \in Exec \ {e} : exec'[f] = exec[f],
           \A f \in Exec \ {e} : steps'[f] = steps[f],
           steps' \in [Exec -> SUBSET StepRow], Snapped(steps'[e]),
           \A v \in Worker \ {w} :
               at[v].ex = e => RowsFit(steps'[e], pc[v], at[v])
    PROVE  SInv'
  <1>2. \A f \in Exec : Snapped(steps'[f])
    BY DEF SInv
  <1>3. ASSUME NEW v \in Worker \ {w}
        PROVE  /\ RowsFit(steps'[at[v].ex], pc[v], at[v])
               /\ pc[v] \in Keyed => exec'[at[v].ex] = exec[at[v].ex]
    <2>1. /\ RowsFit(steps[at[v].ex], pc[v], at[v])
          /\ Apart(pc[w], at[w], pc[v], at[v])
          /\ Placed(pc[v], at[v])
      BY DEF SInv
    <2>2. pc[v] \in Keyed => at[v].ex \in Exec \ {e}
      <3>1. Keyed \intersect {"idle", "checkInsert", "resyncList"} = {}
        BY DEF Keyed
      <3> QED BY <2>1, <3>1 DEF Apart, Placed
    <2>3. CASE at[v].ex = e
      BY <2>2, <2>3
    <2>4. CASE at[v].ex \in Exec \ {e}
      BY <2>1, <2>4
    <2>5. CASE at[v].ex \notin Exec
      <3>1. pc[v] \in {"idle", "checkInsert", "resyncList"} /\ at[v] = NoLocals
        BY <2>1, <2>5 DEF Placed
      <3>2. RowsFit(steps'[at[v].ex], pc[v], at[v])
        BY <3>1 DEF RowsFit, NoLocals, Marking
      <3> QED BY <2>2, <2>5, <3>2
    <2> QED BY <2>3, <2>4, <2>5
  <1> QED BY <1>2, <1>3, IdleFits, StepFits DEF Return, GotoWith

-----------------------------------------------------------------------------
(* Why two requests stay apart. *)

\* A request that goes on with its execution and takes no lock.
LEMMA NoNewLock ==
    ASSUME SInv, NEW w \in Worker, NEW label, NEW l,
           l.ex = at[w].ex, label \in Keyed => pc[w] \in Keyed,
           Held(label, l) \subseteq Held(pc[w], at[w])
    PROVE  \A v \in Worker \ {w} : Apart(label, l, pc[v], at[v])
  <1>1. \A v \in Worker \ {w} : Apart(pc[w], at[w], pc[v], at[v])
    BY DEF SInv
  <1> QED BY <1>1 DEF Apart

\* One that takes the locks it waited for.
LEMMA LocksTaken ==
    ASSUME SInv, NEW w \in Worker, NEW label, NEW l,
           l.ex = at[w].ex, label \notin Keyed,
           StepsFree(w, at[w].ex, Held(label, l))
    PROVE  \A v \in Worker \ {w} : Apart(label, l, pc[v], at[v])
  <1> SUFFICES ASSUME NEW v \in Worker \ {w}
               PROVE  Apart(label, l, pc[v], at[v])
    OBVIOUS
  <1>1. pc[v] \in Keyed => at[v].ex # l.ex
    BY DEF SInv, Apart
  <1>2. at[v].ex = l.ex => Held(pc[v], at[v]) \intersect Held(label, l) = {}
    BY HeldFacts DEF StepsFree, HeldIn
  <1> QED BY <1>1, <1>2 DEF Apart

\* One that turns to a row others can see.
LEMMA LiveApart ==
    ASSUME SInv, NEW w \in Worker, NEW e \in Exec, Live(e),
           NEW label, NEW l, l.ex = e, label \notin Keyed, Held(label, l) = {}
    PROVE  \A v \in Worker \ {w} : Apart(label, l, pc[v], at[v])
  <1>1. \A v \in Worker : pc[v] \in Keyed => at[v].ex # e
    BY DEF SInv, Live, Unborn
  <1> QED BY <1>1 DEF Apart

\* Fields of a request are replaced one or two at a time.
LEMMA RequestExcept ==
    ASSUME NEW l \in Request
    PROVE  /\ \A e \in Exec : [l EXCEPT !.ex = e] \in Request
           /\ \A e \in Exec : \A r \in ExecRow :
                  [l EXCEPT !.ex = e, !.row = r] \in Request
           /\ \A k \in StepKey : \A b \in BOOLEAN :
                  [l EXCEPT !.step = k, !.first = b, !.row = Unborn] \in Request
           /\ [l EXCEPT !.last = TRUE] \in Request
           /\ \A t \in SUBSET StepKey : [l EXCEPT !.todo = t] \in Request
           /\ \A p \in Plans : [l EXCEPT !.plan = p] \in Request
  BY UnbornIsRow DEF Request

LEMMA DataUnchanged == Data /\ UNCHANGED tables => Data'
  BY DEF Data, tables

\* A request at its first statement, about a row it has just read.
LEMMA ReadFits ==
    ASSUME IInv, SInv, NEW w \in Worker, NEW e \in Exec, Live(e), UNCHANGED tables,
           NEW label \in {"doneStep", "abortInsert", "resetScan", "patchSave",
                          "resyncProbe"},
           NEW l \in Request, l.ex = e, l.todo = {}, ~l.last,
           GotoWith(w, label, l)
    PROVE  SInv'
  <1>1. /\ label \notin Keyed \union Bulk \union Marking
        /\ label \notin {"idle", "checkInsert", "resyncList", "doneFinal"}
    BY DEF Keyed, Bulk, Marking
  <1>2. Held(label, l) = {}
    BY <1>1 DEF Held, Bulk
  <1>3. Placed(label, l) /\ RowsFit(steps[l.ex], label, l)
    BY <1>1, FS_EmptySet DEF Placed, RowsFit
  <1>4. \A v \in Worker \ {w} : Apart(label, l, pc[v], at[v])
    BY <1>1, <1>2, LiveApart
  <1> QED BY <1>1, <1>3, <1>4, QuietFits, DataUnchanged DEF SInv, tables

\* One that goes on with nothing remembered and no lock.
LEMMA OnwardFits ==
    ASSUME IInv, SInv, NEW w \in Worker, UNCHANGED tables,
           pc[w] \notin {"idle", "checkInsert", "resyncList"} \union Keyed \union Bulk,
           NEW label \in {"doneFirst", "doneWrite", "abortScan", "createInsert",
                          "resyncScan"},
           NEW l \in Request, l.ex = at[w].ex, l.todo = at[w].todo,
           l.last = at[w].last, pc[w] # "doneCommit",
           GotoWith(w, label, l)
    PROVE  SInv'
  <1>1. /\ label \notin Keyed \union Bulk \union Marking
        /\ label \notin {"idle", "checkInsert", "resyncList", "doneFinal"}
    BY DEF Keyed, Bulk, Marking
  <1>2. Held(label, l) = {}
    BY <1>1 DEF Held, Bulk
  <1>3. l.ex \in Exec /\ l.todo = {} /\ ~l.last
    BY DEF SInv, Placed
  <1>4. Placed(label, l) /\ RowsFit(steps[l.ex], label, l)
    BY <1>1, <1>3, FS_EmptySet DEF Placed, RowsFit
  <1>5. \A v \in Worker \ {w} : Apart(label, l, pc[v], at[v])
    BY <1>1, <1>2, NoNewLock
  <1> QED BY <1>1, <1>4, <1>5, QuietFits, DataUnchanged DEF SInv, tables

-----------------------------------------------------------------------------
(* step_done and mark_step_done. *)

LEMMA DoneFits ==
    ASSUME IInv, SInv, NEW w \in Worker,
           \/ \E e \in Exec : DoneRead(w, e)
           \/ DoneStep(w) \/ DoneFirst(w) \/ DoneWrite(w)
           \/ DoneCount(w) \/ DoneFinal(w)
    PROVE  SInv'
  <1>l. /\ at[w] \in Request /\ Placed(pc[w], at[w])
        /\ RowsFit(steps[at[w].ex], pc[w], at[w])
        /\ steps \in [Exec -> SUBSET StepRow]
        /\ Data
    BY DEF SInv
  <1>u. ASSUME UNCHANGED tables PROVE Data' /\ UNCHANGED <<exec, steps>>
    BY <1>l, <1>u, DataUnchanged DEF tables
  <1>g. ASSUME NEW label, Goto(w, label) PROVE GotoWith(w, label, at[w])
    BY <1>g DEF Goto, GotoWith, SInv
  <1>n. NoLocals \in Request
    BY IdleFits
  <1>1. ASSUME NEW e \in Exec, DoneRead(w, e) PROVE SInv'
    <2>1. exec[e] \in ExecRow
      BY DEF IInv, Shape
    <2> DEFINE l == [NoLocals EXCEPT !.ex = e, !.row = exec[e]]
    <2>2. l \in Request
      BY <1>n, <2>1, RequestExcept
    <2>3. l.ex = e /\ l.todo = {} /\ ~l.last
      BY DEF NoLocals
    <2> QED BY <1>1, <2>2, <2>3, ReadFits DEF DoneRead
  <1>2. CASE DoneStep(w)
    <2>1. pc[w] = "doneStep" /\ UNCHANGED tables
      BY <1>2 DEF DoneStep
    <2>2. CASE Return(w)
      BY <1>u, <2>1, <2>2, ReturnFits
    <2>3. ASSUME NEW s \in steps[at[w].ex], NEW first,
                 first = (s.timed /\ ~at[w].row.started),
                 GotoWith(w, IF first THEN "doneFirst" ELSE "doneWrite",
                          [at[w] EXCEPT !.step = Key(s), !.first = first,
                                        !.row = Unborn])
          PROVE  SInv'
      <3> DEFINE l == [at[w] EXCEPT !.step = Key(s), !.first = first,
                                    !.row = Unborn]
      <3>1. at[w].ex \in Exec
        BY <1>l, <2>1 DEF Placed
      <3>2. Key(s) \in StepKey
        BY <1>l, <3>1, BoundsAssumption DEF StepRow, Key, StepKey
      <3>3. l \in Request
        BY <1>l, <2>3, <3>2, RequestExcept
      <3>4. l.ex = at[w].ex /\ l.todo = at[w].todo /\ l.last = at[w].last
        BY <1>l DEF Request
      <3>5. pc[w] \notin {"idle", "checkInsert", "resyncList"} \union Keyed \union Bulk
        BY <2>1 DEF Keyed, Bulk
      <3> QED BY <2>1, <2>3, <3>3, <3>4, <3>5, OnwardFits
    <2> QED BY <1>2, <2>2, <2>3 DEF DoneStep
  <1>3. CASE DoneFirst(w)
    <2>1. pc[w] \notin {"idle", "checkInsert", "resyncList"} \union Keyed \union Bulk
      BY <1>3 DEF DoneFirst, Keyed, Bulk
    <2> QED BY <1>3, <1>l, <1>g, <2>1, OnwardFits DEF DoneFirst
  <1>4. CASE DoneWrite(w)
    <2>1. pc[w] = "doneWrite" /\ UNCHANGED tables
      BY <1>4 DEF DoneWrite
    <2>2. CASE Return(w)
      BY <1>u, <2>1, <2>2, ReturnFits
    <2>3. CASE /\ at[w].step \in Keys(at[w].ex) /\ Goto(w, "doneCount")
               /\ StepsFree(w, at[w].ex, {at[w].step})
      <3>1. /\ "doneCount" \in Marking /\ "doneCount" \notin Keyed \union Bulk
            /\ "doneWrite" \notin Keyed \union Bulk
        BY DEF Marking, Keyed, Bulk
      <3>2. Placed("doneCount", at[w])
        BY <1>l, <2>1, <3>1 DEF Placed
      <3>3. RowsFit(steps[at[w].ex], "doneCount", at[w])
        BY <1>l, <2>1, <2>3, <3>1 DEF RowsFit, Placed, Keys, KeysOf
      <3>4. Held("doneCount", at[w]) = {at[w].step}
        BY <3>1 DEF Held
      <3>5. \A v \in Worker \ {w} : Apart("doneCount", at[w], pc[v], at[v])
        BY <2>3, <3>1, <3>4, LocksTaken
      <3> QED BY <1>l, <1>g, <1>u, <2>1, <2>3, <3>1, <3>2, <3>3, <3>5, QuietFits
    <2> QED BY <1>4, <2>2, <2>3 DEF DoneWrite
  <1>5. CASE DoneCount(w)
    <2>1. pc[w] = "doneCount" /\ UNCHANGED tables /\ pc[w] \in Marking
      BY <1>5 DEF DoneCount, Marking
    <2>2. /\ {"doneCommit", "doneFinal"} \subseteq Marking
          /\ {"doneCommit", "doneFinal"} \intersect (Keyed \union Bulk) = {}
          /\ "doneCount" \notin Keyed \union Bulk
      BY DEF Marking, Keyed, Bulk
    <2>3. \A label \in {"doneCommit", "doneFinal"} :
              /\ Placed(label, at[w])
              /\ \A v \in Worker \ {w} : Apart(label, at[w], pc[v], at[v])
      <3>1. \A label \in {"doneCommit", "doneFinal"} :
                Held(label, at[w]) = Held(pc[w], at[w])
        BY <2>1, <2>2 DEF Held
      <3> QED BY <1>l, <2>1, <2>2, <3>1, NoNewLock DEF Placed
    <2>4. ~at[w].last /\ at[w].todo = {} /\ at[w].step \in KeysOf(steps[at[w].ex])
      BY <1>l, <2>1, <2>2 DEF Placed, RowsFit
    <2>5. CASE Goto(w, "doneCommit")
      <3>1. RowsFit(steps[at[w].ex], "doneCommit", at[w])
        BY <2>4 DEF RowsFit
      <3> QED BY <1>l, <1>g, <1>u, <2>1, <2>2, <2>3, <2>5, <3>1, QuietFits
    <2>6. CASE /\ Goto(w, "doneFinal")
               /\ ~\E s \in steps[at[w].ex] : ~s.done /\ Key(s) # at[w].step
      <3>1. RowsFit(steps[at[w].ex], "doneFinal", at[w])
        BY <2>4, <2>6 DEF RowsFit
      <3> QED BY <1>l, <1>g, <1>u, <2>1, <2>2, <2>3, <2>6, <3>1, QuietFits
    <2> QED BY <1>5, <2>5, <2>6 DEF DoneCount
  <1>6. CASE DoneFinal(w)
    <2> DEFINE l == [at[w] EXCEPT !.last = TRUE]
    <2>1. pc[w] = "doneFinal" /\ UNCHANGED tables /\ GotoWith(w, "doneCommit", l)
      BY <1>6 DEF DoneFinal
    <2>2. /\ {"doneCommit", "doneFinal"} \subseteq Marking
          /\ "doneCommit" \notin Keyed \union Bulk
          /\ "doneFinal" \notin Keyed \union Bulk
      BY DEF Marking, Keyed, Bulk
    <2>3. /\ l \in Request /\ l.ex = at[w].ex /\ l.todo = at[w].todo
          /\ l.step = at[w].step
      BY <1>l, RequestExcept DEF Request
    <2>4. Placed("doneCommit", l) /\ RowsFit(steps[l.ex], "doneCommit", l)
      BY <1>l, <2>1, <2>2, <2>3 DEF Placed, RowsFit
    <2>5. Held("doneCommit", l) = Held(pc[w], at[w])
      BY <2>1, <2>2, <2>3 DEF Held
    <2>6. \A v \in Worker \ {w} : Apart("doneCommit", l, pc[v], at[v])
      BY <2>2, <2>3, <2>5, NoNewLock
    <2> QED BY <1>u, <2>1, <2>2, <2>3, <2>4, <2>6, QuietFits
  <1> QED BY <1>1, <1>2, <1>3, <1>4, <1>5, <1>6

-----------------------------------------------------------------------------
(* abort_execution and reset_execution, up to their commit. *)

LEMMA AbortReadFits ==
    ASSUME IInv, SInv, NEW w \in Worker, NEW e \in Exec, AbortRead(w, e)
    PROVE  SInv'
  <1> DEFINE done == {s \in steps[e] : s.done}
             l == [NoLocals EXCEPT !.ex = e,
                      !.attempt = Cardinality(aborts[e]) + 1,
                      !.completed = Cardinality(done),
                      !.total = Cardinality(steps[e])]
  <1>1. Cardinality(steps[e]) \in 0..MaxSteps /\ IsFiniteSet(steps[e])
    BY KeyFacts DEF SInv
  <1>2. Cardinality(done) \in 0..MaxSteps
    <2>1. /\ IsFiniteSet(done) /\ Cardinality(done) <= Cardinality(steps[e])
      BY <1>1, FS_Subset
    <2>2. Cardinality(done) \in Nat
      BY <2>1, FS_CardinalityType
    <2> QED BY <1>1, <2>1, <2>2, BoundsAssumption
  <1>3. Cardinality(aborts[e]) + 1 \in 0..MaxAborts
    <2>1. Cardinality(aborts[e]) \in Nat
      BY FS_CardinalityType DEF IInv, Shape
    <2> QED BY <2>1, BoundsAssumption DEF AbortRead
  <1> HIDE DEF done
  <1>4. l \in Request
    BY <1>1, <1>2, <1>3, IdleFits DEF Request
  <1>5. l.ex = e /\ l.todo = {} /\ ~l.last
    BY DEF NoLocals
  <1>6. GotoWith(w, "abortInsert", l)
    BY DEF AbortRead, done
  <1>7. Live(e) /\ UNCHANGED tables
    BY DEF AbortRead
  <1> HIDE DEF l
  <1> QED BY <1>4, <1>5, <1>6, <1>7, ReadFits

\* The rows a bulk statement will be about are those of its scan ...
LEMMA ScanFits ==
    ASSUME IInv, SInv, NEW w \in Worker, UNCHANGED tables,
           pc[w] \in {"abortScan", "resetScan", "resyncScan"},
           NEW label \in {"abortClear", "resetClear", "resyncDelete"},
           GotoWith(w, label, [at[w] EXCEPT !.todo = Keys(at[w].ex)])
    PROVE  SInv'
  <1> DEFINE l == [at[w] EXCEPT !.todo = Keys(at[w].ex)]
  <1>1. /\ at[w] \in Request /\ Placed(pc[w], at[w])
        /\ steps \in [Exec -> SUBSET StepRow] /\ Data
        /\ \A e \in Exec : Snapped(steps[e])
    BY DEF SInv
  <1>2. /\ label \in Bulk /\ label \notin Keyed \union Marking
        /\ pc[w] \notin Keyed \union Marking
        /\ at[w].ex \in Exec /\ ~at[w].last
    BY <1>1 DEF Bulk, Keyed, Marking, Placed
  <1>3. /\ Keys(at[w].ex) = KeysOf(steps[at[w].ex])
        /\ Keys(at[w].ex) \in SUBSET StepKey
        /\ IsFiniteSet(Keys(at[w].ex))
    BY <1>1, <1>2, KeyFacts DEF Keys, KeysOf
  <1>4. /\ l \in Request /\ l.ex = at[w].ex /\ l.last = at[w].last
        /\ l.todo = KeysOf(steps[l.ex]) /\ IsFiniteSet(l.todo)
    BY <1>1, <1>3, RequestExcept DEF Request
  <1>5. Placed(label, l) /\ RowsFit(steps[l.ex], label, l)
    BY <1>2, <1>4 DEF Placed, RowsFit
  <1>6. Held(label, l) = {}
    BY <1>2 DEF Held
  <1>7. \A v \in Worker \ {w} : Apart(label, l, pc[v], at[v])
    BY <1>2, <1>4, <1>6, NoNewLock
  <1> QED BY <1>1, <1>2, <1>4, <1>5, <1>7, QuietFits, DataUnchanged DEF tables

\* ... and, once their locks are free, those of them that still exist.
LEMMA LockFits ==
    ASSUME IInv, SInv, NEW w \in Worker, UNCHANGED tables,
           pc[w] \in {"abortClear", "resetClear", "resyncDelete"},
           StepsFree(w, at[w].ex, at[w].todo),
           NEW label \in {"abortExec", "resetExec", "resyncRead"},
           GotoWith(w, label,
                    [at[w] EXCEPT !.todo = @ \intersect Keys(at[w].ex)])
    PROVE  SInv'
  <1> DEFINE todo == at[w].todo \intersect Keys(at[w].ex)
             l == [at[w] EXCEPT !.todo = todo]
  <1>1. /\ at[w] \in Request /\ Placed(pc[w], at[w])
        /\ RowsFit(steps[at[w].ex], pc[w], at[w])
        /\ Data
    BY DEF SInv
  <1>2. /\ label \in Bulk /\ label \notin Keyed \union Marking
        /\ at[w].ex \in Exec /\ ~at[w].last
    BY <1>1 DEF Bulk, Keyed, Marking, Placed
  <1>3. /\ todo \in SUBSET StepKey /\ IsFiniteSet(todo)
        /\ todo = {} \/ todo = KeysOf(steps[at[w].ex])
    <2>1. at[w].todo \in SUBSET StepKey /\ IsFiniteSet(at[w].todo)
      BY <1>1 DEF Request, Placed
    <2>2. IsFiniteSet(todo)
      BY <2>1, FS_Subset
    <2> QED BY <1>1, <2>1, <2>2 DEF RowsFit, Keys, KeysOf
  <1>4. /\ l \in Request /\ l.ex = at[w].ex /\ l.last = at[w].last
        /\ l.todo = todo
    BY <1>1, <1>3, RequestExcept DEF Request
  <1>5. Placed(label, l) /\ RowsFit(steps[l.ex], label, l)
    BY <1>2, <1>3, <1>4 DEF Placed, RowsFit
  <1>6. Held(label, l) \subseteq at[w].todo
    BY <1>2, <1>4 DEF Held
  <1>7. \A v \in Worker \ {w} : Apart(label, l, pc[v], at[v])
    <2>1. StepsFree(w, at[w].ex, Held(label, l))
      BY <1>6 DEF StepsFree
    <2> QED BY <1>2, <1>4, <2>1, LocksTaken
  <1> QED BY <1>1, <1>2, <1>4, <1>5, <1>7, QuietFits, DataUnchanged DEF tables

LEMMA ClearFits ==
    ASSUME IInv, SInv, NEW w \in Worker,
           \/ \E e \in Exec : ResetRead(w, e)
           \/ AbortInsert(w) \/ ClearScan(w) \/ ClearLock(w)
    PROVE  SInv'
  <1>1. ASSUME NEW e \in Exec, ResetRead(w, e) PROVE SInv'
    <2> DEFINE l == [NoLocals EXCEPT !.ex = e]
    <2>1. l \in Request
      BY IdleFits, RequestExcept
    <2>2. l.ex = e /\ l.todo = {} /\ ~l.last
      BY DEF NoLocals
    <2> QED BY <1>1, <2>1, <2>2, ReadFits DEF ResetRead
  <1>2. CASE AbortInsert(w)
    <2>1. pc[w] = "abortInsert" /\ UNCHANGED tables
      BY <1>2 DEF AbortInsert
    <2>2. CASE Return(w)
      BY <2>1, <2>2, ReturnFits, DataUnchanged DEF SInv, tables
    <2>3. CASE Goto(w, "abortScan")
      <3>1. at[w] \in Request /\ GotoWith(w, "abortScan", at[w])
        BY <2>3 DEF SInv, Goto, GotoWith
      <3>2. pc[w] \notin {"idle", "checkInsert", "resyncList"} \union Keyed \union Bulk
        BY <2>1 DEF Keyed, Bulk
      <3> QED BY <2>1, <3>1, <3>2, OnwardFits
    <2> QED BY <1>2, <2>2, <2>3 DEF AbortInsert
  <1>3. CASE ClearScan(w)
    BY <1>3, ScanFits DEF ClearScan
  <1>4. CASE ClearLock(w)
    BY <1>4, LockFits DEF ClearLock
  <1> QED BY <1>1, <1>2, <1>3, <1>4

-----------------------------------------------------------------------------
(* A killed worker, a broken deadlock, and the reads of the other requests. *)

LEMMA EndFits ==
    ASSUME IInv, SInv, NEW w \in Worker, Victim(w) \/ Kill(w)
    PROVE  SInv'
  BY ReturnFits, DataUnchanged DEF Victim, Kill, SInv, tables

LEMMA PatchReadFits ==
    ASSUME IInv, SInv, NEW w \in Worker, NEW e \in Exec, NEW st \in Statuses,
           PatchRead(w, e, st)
    PROVE  SInv'
  <1> DEFINE row == [exec[e] EXCEPT !.status = st]
             l == [NoLocals EXCEPT !.ex = e, !.row = row]
  <1>1. row \in ExecRow
    BY DEF IInv, Shape, ExecRow
  <1>2. l \in Request
    BY <1>1, IdleFits, RequestExcept
  <1>3. l.ex = e /\ l.todo = {} /\ ~l.last
    BY DEF NoLocals
  <1> QED BY <1>2, <1>3, ReadFits DEF PatchRead

\* Putting a step into a plan, or taking one out, leaves a plan.
LEMMA WithType ==
    ASSUME NEW p \in Seq(BOOLEAN), NEW k \in Nat, NEW timed \in BOOLEAN,
           k >= 1, k <= Len(p) + 1
    PROVE  With(p, k, timed) \in Seq(BOOLEAN)
<1>1. Len(p) + 1 \in Nat
  OBVIOUS
<1>2. ASSUME NEW j \in 1..(Len(p) + 1)
      PROVE  (IF j < k THEN p[j] ELSE IF j = k THEN timed ELSE p[j - 1]) \in BOOLEAN
  OBVIOUS
<1> QED
  BY <1>1, <1>2 DEF With

LEMMA WithoutType ==
    ASSUME NEW p \in Seq(BOOLEAN), NEW i \in DOMAIN p
    PROVE  /\ Without(p, i) \in Seq(BOOLEAN)
           /\ Len(Without(p, i)) = Len(p) - 1
<1>1. Len(p) - 1 \in Nat
  OBVIOUS
<1>2. \A j \in 1..(Len(p) - 1) : p[j] \in BOOLEAN /\ p[j + 1] \in BOOLEAN
  OBVIOUS
<1> QED
  BY <1>1, <1>2 DEF Without

\* An edit leaves a sequence of step kinds.
LEMMA EditsType ==
    ASSUME NEW p \in Seq(BOOLEAN), NEW q \in Edits(p)
    PROVE  q \in Seq(BOOLEAN)
<1>1. CASE \E k \in 1..(Len(p) + 1), timed \in BOOLEAN : q = With(p, k, timed)
  <2>1. PICK k \in 1..(Len(p) + 1), timed \in BOOLEAN : q = With(p, k, timed)
    BY <1>1
  <2> QED
    BY <2>1, WithType
<1>2. CASE \E added \in Additions : q = p \o added
  <2>1. PICK n \in 1..MaxSteps : \E added \in [1..n -> BOOLEAN] : q = p \o added
    BY <1>2 DEF Additions
  <2>2. PICK added \in [1..n -> BOOLEAN] : q = p \o added
    BY <2>1
  <2>3. n \in Nat
    BY <2>1, BoundsAssumption
  <2>4. added \in Seq(BOOLEAN)
    BY <2>2, <2>3
  <2> QED
    BY <2>2, <2>4
<1>3. CASE \E i \in DOMAIN p : q = Without(p, i)
  BY <1>3, WithoutType
<1>4. CASE \E i \in DOMAIN p, k \in DOMAIN p, timed \in BOOLEAN :
              q = With(Without(p, i), k, timed)
  <2>1. PICK i \in DOMAIN p, k \in DOMAIN p, timed \in BOOLEAN :
            q = With(Without(p, i), k, timed)
    BY <1>4
  <2>2. /\ Without(p, i) \in Seq(BOOLEAN)
        /\ Len(Without(p, i)) = Len(p) - 1
    BY WithoutType
  <2>3. k \in Nat /\ k >= 1 /\ k <= Len(Without(p, i)) + 1
    BY <2>2
  <2> QED
    BY <2>1, <2>2, <2>3, WithType
<1> QED
  BY <1>1, <1>2, <1>3, <1>4 DEF Edits

LEMMA ResyncFits ==
    ASSUME IInv, SInv, NEW w \in Worker,
           \/ Edit(w) \/ ResyncList(w) \/ ResyncProbe(w) \/ ResyncScan(w)
           \/ ResyncDelete(w) \/ ResyncRead(w)
    PROVE  SInv'
  <1>l. /\ at[w] \in Request /\ Placed(pc[w], at[w])
        /\ RowsFit(steps[at[w].ex], pc[w], at[w])
        /\ Data
    BY DEF SInv
  <1>u. ASSUME UNCHANGED tables PROVE Data' /\ UNCHANGED <<exec, steps>>
    BY <1>l, <1>u, DataUnchanged DEF tables
  <1>1. CASE Edit(w)
    <2>1. /\ pc[w] = "idle" /\ Goto(w, "resyncList")
          /\ UNCHANGED <<exec, steps, aborts, stale>>
      BY <1>1 DEF Edit, Receive
    <2>2. plan' \in Plans
      <3>1. PICK p \in Edits(plan) : Len(p) <= MaxSteps /\ plan' = p
        BY <1>1 DEF Edit
      <3> QED BY <1>l, <3>1, EditsType DEF Data, Plans
    <2>3. Data'
      BY <1>l, <2>1, <2>2 DEF Data
    <2>4. at[w] = NoLocals /\ GotoWith(w, "resyncList", NoLocals)
      BY <1>l, <2>1 DEF Placed, Goto, GotoWith, SInv
    <2>5. "resyncList" \notin Keyed \union Bulk \union Marking
      BY DEF Keyed, Bulk, Marking
    <2>6. Placed("resyncList", NoLocals) /\ RowsFit(steps[NoExec], "resyncList", NoLocals)
      BY <2>5, FS_EmptySet DEF Placed, RowsFit, NoLocals
    <2>7. /\ Held("resyncList", NoLocals) = {}
          /\ NoLocals.ex = NoExec
      BY <2>5 DEF Held, NoLocals
    <2>8. \A v \in Worker \ {w} : Apart("resyncList", NoLocals, pc[v], at[v])
      BY <2>4, <2>5, <2>7, NoNewLock
    <2> QED BY <2>1, <2>3, <2>4, <2>5, <2>6, <2>7, <2>8, IdleFits, QuietFits
  <1>2. CASE ResyncList(w)
    <2>1. pc[w] = "resyncList" /\ UNCHANGED tables
      BY <1>2 DEF ResyncList
    <2>2. CASE Return(w)
      BY <1>u, <2>1, <2>2, ReturnFits
    <2>3. ASSUME NEW e \in Exec, Active(e),
                 GotoWith(w, "resyncProbe", [at[w] EXCEPT !.ex = e])
          PROVE  SInv'
      <3> DEFINE l == [at[w] EXCEPT !.ex = e]
      <3>1. at[w] = NoLocals
        BY <1>l, <2>1 DEF Placed
      <3>2. l \in Request
        BY <1>l, RequestExcept
      <3>3. l.ex = e /\ l.todo = {} /\ ~l.last
        BY <3>1 DEF NoLocals
      <3> QED BY <2>1, <2>3, <3>2, <3>3, ReadFits DEF Active
    <2> QED BY <1>2, <2>2, <2>3 DEF ResyncList
  <1>3. CASE ResyncProbe(w)
    <2>1. pc[w] = "resyncProbe" /\ UNCHANGED tables
      BY <1>3 DEF ResyncProbe
    <2>2. CASE Return(w)
      BY <1>u, <2>1, <2>2, ReturnFits
    <2>3. CASE Goto(w, "resyncScan")
      <3>1. GotoWith(w, "resyncScan", at[w])
        BY <2>3 DEF SInv, Goto, GotoWith
      <3>2. pc[w] \notin {"idle", "checkInsert", "resyncList"} \union Keyed \union Bulk
        BY <2>1 DEF Keyed, Bulk
      <3> QED BY <1>l, <2>1, <3>1, <3>2, OnwardFits
    <2> QED BY <1>3, <2>2, <2>3 DEF ResyncProbe
  <1>4. CASE ResyncScan(w)
    BY <1>4, ScanFits DEF ResyncScan
  <1>5. CASE ResyncDelete(w)
    BY <1>5, LockFits DEF ResyncDelete
  <1>6. CASE ResyncRead(w)
    <2> DEFINE l == [at[w] EXCEPT !.plan = plan]
    <2>1. /\ pc[w] = "resyncRead" /\ UNCHANGED tables
          /\ GotoWith(w, "resyncInsert", l)
      BY <1>6 DEF ResyncRead
    <2>2. /\ {"resyncRead", "resyncInsert"} \subseteq Bulk
          /\ {"resyncRead", "resyncInsert"} \intersect (Keyed \union Marking) = {}
      BY DEF Bulk, Keyed, Marking
    <2>3. /\ l \in Request /\ l.ex = at[w].ex /\ l.todo = at[w].todo
          /\ l.last = at[w].last
      BY <1>l, RequestExcept DEF Request, Data
    <2>4. Placed("resyncInsert", l) /\ RowsFit(steps[l.ex], "resyncInsert", l)
      BY <1>l, <2>1, <2>2, <2>3 DEF Placed, RowsFit
    <2>5. Held("resyncInsert", l) = Held(pc[w], at[w])
      BY <2>1, <2>2, <2>3 DEF Held
    <2>6. \A v \in Worker \ {w} : Apart("resyncInsert", l, pc[v], at[v])
      BY <2>2, <2>3, <2>5, NoNewLock
    <2> QED BY <1>u, <2>1, <2>2, <2>3, <2>4, <2>6, QuietFits
  <1> QED BY <1>1, <1>2, <1>3, <1>4, <1>5, <1>6

-----------------------------------------------------------------------------
(* perform_create and check_for_needed_executions. *)

\* What a worker may do to executions no other worker is about.
LEMMA ExecWriteFits ==
    ASSUME IInv, SInv, NEW w \in Worker, NEW e \in Exec,
           NEW label, NEW l \in Request, GotoWith(w, label, l),
           UNCHANGED <<plan, steps, aborts, stale>>,
           \A f \in Exec \ {e} : exec'[f] = exec[f],
           Placed(label, l), RowsFit(steps[l.ex], label, l), label \notin Keyed,
           \A v \in Worker \ {w} : /\ Apart(label, l, pc[v], at[v])
                                   /\ pc[v] \in Keyed => at[v].ex # e
    PROVE  SInv'
  <1>1. /\ steps \in [Exec -> SUBSET StepRow]
        /\ \A f \in Exec : Snapped(steps[f])
        /\ \A v \in Worker \ {w} : /\ RowsFit(steps[at[v].ex], pc[v], at[v])
                                   /\ Placed(pc[v], at[v])
        /\ Data
    BY DEF SInv
  <1>2. Data'
    BY <1>1 DEF Data
  <1>3. \A v \in Worker \ {w} : pc[v] \in Keyed => exec'[at[v].ex] = exec[at[v].ex]
    <2>1. Keyed \intersect {"idle", "checkInsert", "resyncList"} = {}
      BY DEF Keyed
    <2> QED BY <1>1, <2>1 DEF Placed
  <1> QED BY <1>1, <1>2, <1>3, StepFits DEF GotoWith

LEMMA CreateFits ==
    ASSUME IInv, SInv, NEW w \in Worker, NEW e \in Exec, NEW st \in Statuses,
           Create(w, e, st)
    PROVE  SInv'
  <1> DEFINE l == [NoLocals EXCEPT !.ex = e]
  <1>1. /\ \A v \in Worker : at[v].ex # e
        /\ exec' = [exec EXCEPT ![e] = NewRow(st)]
        /\ GotoWith(w, "createSnap", l)
        /\ UNCHANGED <<plan, steps, aborts, stale>>
    BY DEF Create, Unused
  <1>2. l \in Request
    BY IdleFits, RequestExcept
  <1>3. l.ex = e /\ l.todo = {} /\ ~l.last
    BY DEF NoLocals
  <1>4. "createSnap" \notin Keyed \union Bulk \union Marking
    BY DEF Keyed, Bulk, Marking
  <1>5. Placed("createSnap", l) /\ RowsFit(steps[l.ex], "createSnap", l)
    BY <1>3, <1>4, FS_EmptySet DEF Placed, RowsFit
  <1>6. \A v \in Worker \ {w} : Apart("createSnap", l, pc[v], at[v])
    BY <1>1, <1>3 DEF Apart
  <1>7. \A f \in Exec \ {e} : exec'[f] = exec[f]
    BY <1>1 DEF IInv, Shape
  <1> HIDE DEF l
  <1> QED BY <1>1, <1>2, <1>4, <1>5, <1>6, <1>7, ExecWriteFits

LEMMA CheckFits ==
    ASSUME IInv, SInv, NEW w \in Worker,
           CreateSnap(w) \/ CheckRead(w) \/ CheckInsert(w) \/ CheckSnap(w)
    PROVE  SInv'
  <1>l. /\ at[w] \in Request /\ Placed(pc[w], at[w])
        /\ RowsFit(steps[at[w].ex], pc[w], at[w])
        /\ pc[w] \in Keyed => exec[at[w].ex] = Unborn
        /\ Data
    BY DEF SInv
  <1>u. ASSUME UNCHANGED tables PROVE Data' /\ UNCHANGED <<exec, steps>>
    BY <1>l, <1>u, DataUnchanged DEF tables
  <1>k. /\ "createSnap" \notin Keyed \union Bulk \union Marking
        /\ {"checkSnap", "checkCommit"} \subseteq Keyed
        /\ {"checkSnap", "checkCommit"} \intersect (Bulk \union Marking) = {}
        /\ "checkInsert" \notin Keyed \union Bulk \union Marking
    BY DEF Keyed, Bulk, Marking
  <1>p. ASSUME NEW p \in Plans
        PROVE  LET l == [at[w] EXCEPT !.plan = p]
               IN  /\ l \in Request /\ l.ex = at[w].ex /\ l.todo = at[w].todo
                   /\ l.last = at[w].last
    BY <1>l, RequestExcept DEF Request
  <1>1. CASE CreateSnap(w)
    <2> DEFINE l == [at[w] EXCEPT !.plan = plan]
    <2>1. /\ pc[w] = "createSnap" /\ UNCHANGED tables
          /\ GotoWith(w, "createInsert", l)
      BY <1>1 DEF CreateSnap
    <2>2. /\ l \in Request /\ l.ex = at[w].ex /\ l.todo = at[w].todo
          /\ l.last = at[w].last
      BY <1>l, <1>p DEF Data
    <2> HIDE DEF l
    <2> QED BY <1>k, <2>1, <2>2, OnwardFits
  <1>2. CASE CheckRead(w)
    <2>1. pc[w] = "idle" /\ UNCHANGED tables /\ Goto(w, "checkInsert")
      BY <1>2 DEF CheckRead, Receive
    <2>2. at[w] = NoLocals /\ GotoWith(w, "checkInsert", NoLocals)
      BY <1>l, <2>1 DEF Placed, Goto, GotoWith, SInv
    <2>3. /\ NoLocals.ex = NoExec
          /\ Placed("checkInsert", NoLocals)
          /\ RowsFit(steps[NoLocals.ex], "checkInsert", NoLocals)
      BY <1>k, FS_EmptySet DEF Placed, RowsFit, NoLocals
    <2>4. Held("checkInsert", NoLocals) = {}
      BY <1>k DEF Held
    <2>5. \A v \in Worker \ {w} : Apart("checkInsert", NoLocals, pc[v], at[v])
      BY <1>k, <2>2, <2>4, NoNewLock
    <2> QED BY <1>u, <1>k, <2>1, <2>2, <2>3, <2>5, IdleFits, QuietFits
  <1>3. CASE CheckInsert(w)
    <2>1. pc[w] = "checkInsert" /\ UNCHANGED tables
      BY <1>3 DEF CheckInsert
    <2>2. CASE Return(w)
      BY <1>u, <2>1, <2>2, ReturnFits
    <2>3. ASSUME NEW e \in Unused,
                 GotoWith(w, "checkSnap", [NoLocals EXCEPT !.ex = e])
          PROVE  SInv'
      <3> DEFINE l == [NoLocals EXCEPT !.ex = e]
      <3>1. e \in Exec /\ exec[e] = Unborn /\ \A v \in Worker : at[v].ex # e
        BY <2>3 DEF Unused
      <3>2. l \in Request
        BY <3>1, IdleFits, RequestExcept
      <3>3. l.ex = e /\ l.todo = {} /\ ~l.last
        BY DEF NoLocals
      <3>4. e # NoExec
        BY <1>l, <2>1, <3>1 DEF Placed, NoLocals
      <3>5. Placed("checkSnap", l) /\ RowsFit(steps[l.ex], "checkSnap", l)
        BY <1>k, <3>1, <3>3, <3>4, FS_EmptySet DEF Placed, RowsFit
      <3>6. \A v \in Worker \ {w} : Apart("checkSnap", l, pc[v], at[v])
        BY <3>1, <3>3 DEF Apart
      <3>7. exec[l.ex] = Unborn
        BY <3>1, <3>3
      <3>8. GotoWith(w, "checkSnap", l)
        BY <2>3
      <3> HIDE DEF l
      <3> QED BY <1>u, <2>1, <3>2, <3>5, <3>6, <3>7, <3>8, QuietFits
    <2> QED BY <1>3, <2>2, <2>3 DEF CheckInsert
  <1>4. CASE CheckSnap(w)
    <2> DEFINE l == [at[w] EXCEPT !.plan = plan]
    <2>1. /\ pc[w] = "checkSnap" /\ UNCHANGED tables
          /\ GotoWith(w, "checkCommit", l)
      BY <1>4 DEF CheckSnap
    <2>2. /\ l \in Request /\ l.ex = at[w].ex /\ l.todo = at[w].todo
          /\ l.last = at[w].last
      BY <1>l, <1>p DEF Data
    <2> HIDE DEF l
    <2>3. Placed("checkCommit", l) /\ RowsFit(steps[l.ex], "checkCommit", l)
      BY <1>l, <1>k, <2>1, <2>2 DEF Placed, RowsFit
    <2>4. Held("checkCommit", l) = {}
      BY <1>k DEF Held, Bulk
    <2>5. \A v \in Worker \ {w} : Apart("checkCommit", l, pc[v], at[v])
      BY <1>k, <2>1, <2>2, <2>4, NoNewLock
    <2> QED BY <1>l, <1>u, <1>k, <2>1, <2>2, <2>3, <2>5, QuietFits
  <1> QED BY <1>1, <1>2, <1>3, <1>4

-----------------------------------------------------------------------------
(* The writes of execution rows alone. *)

LEMMA DeleteFits ==
    ASSUME IInv, SInv, NEW w \in Worker, NEW e \in Exec, Delete(w, e)
    PROVE  SInv'
  <1>1. /\ exec' = [exec EXCEPT ![e].deleted = TRUE] /\ Live(e)
        /\ pc[w] = "idle" /\ UNCHANGED <<plan, steps, aborts, stale, pc, at>>
    BY DEF Delete, Receive
  <1>2. \A v \in Worker : pc[v] \in Keyed => at[v].ex \in Exec \ {e}
    <2>1. Keyed \intersect {"idle", "checkInsert", "resyncList"} = {}
      BY DEF Keyed
    <2> QED BY <1>1, <2>1 DEF SInv, Placed, Live, Unborn
  <1>3. \A v \in Worker : pc[v] \in Keyed => exec'[at[v].ex] = exec[at[v].ex]
    BY <1>1, <1>2 DEF IInv, Shape
  <1>4. Data'
    BY <1>1 DEF SInv, Data
  <1> QED BY <1>1, <1>3, <1>4 DEF SInv

LEMMA PatchSaveFits ==
    ASSUME IInv, SInv, NEW w \in Worker, PatchSave(w)
    PROVE  SInv'
  <1> DEFINE e == at[w].ex
  <1>1. /\ pc[w] = "patchSave" /\ Return(w)
        /\ UNCHANGED <<plan, steps, aborts, stale>>
        /\ exec' = exec \/ exec' = [exec EXCEPT ![e] = at[w].row]
    BY DEF PatchSave
  <1>2. e \in Exec
    BY <1>1 DEF SInv, Placed
  <1>3. \A f \in Exec \ {e} : exec'[f] = exec[f]
    BY <1>1 DEF IInv, Shape
  <1>4. \A v \in Worker \ {w} : pc[v] \in Keyed => at[v].ex # e
    BY DEF SInv, Apart
  <1> QED BY <1>1, <1>2, <1>3, <1>4, IdleFits, ExecWriteFits DEF Return

-----------------------------------------------------------------------------
(* The commits that write step rows. *)

\* Rows changed one by one, their keys kept, are a snapshot still.
LEMMA SameKeys ==
    ASSUME NEW S \in SUBSET StepRow, Snapped(S), NEW f \in [S -> StepRow],
           \A s \in S : Key(f[s]) = Key(s)
    PROVE  LET T == {f[s] : s \in S}
           IN  T \in SUBSET StepRow /\ Snapped(T) /\ KeysOf(T) = KeysOf(S)
  <1> DEFINE T == {f[s] : s \in S}
  <1>1. \A s \in S : f[s].gen = s.gen /\ f[s].num = s.num
    BY DEF Key
  <1>2. T \in SUBSET StepRow
    OBVIOUS
  <1>3. PICK n \in 0..MaxSteps :
            /\ {s.num : s \in S} = 1..n
            /\ \A s, t \in S : s.gen = t.gen /\ (s.num = t.num => s = t)
    BY DEF Snapped
  <1>4. {t.num : t \in T} = {s.num : s \in S}
    BY <1>1
  <1>5. \A s, t \in T : s.gen = t.gen /\ (s.num = t.num => s = t)
    BY <1>1, <1>3
  <1>6. Snapped(T)
    BY <1>3, <1>4, <1>5 DEF Snapped
  <1>7. KeysOf(T) = KeysOf(S)
    BY DEF KeysOf
  <1> QED BY <1>2, <1>6, <1>7

\* The rows as a mark leaves them ...
LEMMA MarkedRows ==
    ASSUME NEW S \in SUBSET StepRow, Snapped(S), NEW k
    PROVE  LET T == {IF Key(s) = k THEN Marked(s) ELSE s : s \in S}
           IN  /\ T \in SUBSET StepRow /\ Snapped(T) /\ KeysOf(T) = KeysOf(S)
               /\ \A t \in T : Key(t) = k => t.done
               /\ \A j : (\A s \in S : Key(s) = j \/ s.done)
                         => \A t \in T : Key(t) = j \/ t.done
  <1> DEFINE f == [s \in S |-> IF Key(s) = k THEN Marked(s) ELSE s]
             T == {f[s] : s \in S}
  <1>1. \A s \in S : /\ Marked(s) \in StepRow /\ Key(Marked(s)) = Key(s)
                     /\ Marked(s).done
    BY DEF Marked, StepRow, Key
  <1>2. f \in [S -> StepRow] /\ \A s \in S : Key(f[s]) = Key(s)
    BY <1>1
  <1>3. T \in SUBSET StepRow /\ Snapped(T) /\ KeysOf(T) = KeysOf(S)
    BY <1>2, SameKeys
  <1>4. \A t \in T : Key(t) = k => t.done
    BY <1>1
  <1>5. ASSUME NEW j, \A s \in S : Key(s) = j \/ s.done
        PROVE  \A t \in T : Key(t) = j \/ t.done
    BY <1>1, <1>5
  <1>6. T = {IF Key(s) = k THEN Marked(s) ELSE s : s \in S}
    OBVIOUS
  <1> QED BY <1>3, <1>4, <1>5, <1>6

\* ... and as an abort or a reset leaves them.
LEMMA ClearedRows ==
    ASSUME NEW S \in SUBSET StepRow, Snapped(S), NEW keys
    PROVE  /\ Cleared(S, keys) \in SUBSET StepRow /\ Snapped(Cleared(S, keys))
           /\ KeysOf(Cleared(S, keys)) = KeysOf(S)
           /\ keys \intersect KeysOf(S) = {} => Cleared(S, keys) = S
  <1> DEFINE clear(s) == [s EXCEPT !.done = FALSE, !.started = FALSE]
             f == [s \in S |-> IF Key(s) \in keys THEN clear(s) ELSE s]
             T == {f[s] : s \in S}
  <1>1. \A s \in S : clear(s) \in StepRow /\ Key(clear(s)) = Key(s)
    BY DEF StepRow, Key
  <1>2. f \in [S -> StepRow] /\ \A s \in S : Key(f[s]) = Key(s)
    BY <1>1
  <1>3. T \in SUBSET StepRow /\ Snapped(T) /\ KeysOf(T) = KeysOf(S)
    BY <1>2, SameKeys
  <1>4. T = Cleared(S, keys)
    BY DEF Cleared
  <1>5. keys \intersect KeysOf(S) = {} => T = S
    BY DEF KeysOf
  <1> QED BY <1>3, <1>4, <1>5

\* A commit's rows fit another request when those it found did.
LEMMA StillFit ==
    ASSUME NEW S, NEW T, NEW label, NEW l,
           RowsFit(S, label, l), KeysOf(T) = KeysOf(S),
           label = "doneFinal" \/ l.last =>
               \A t \in T : Key(t) = l.step \/ t.done
    PROVE  RowsFit(T, label, l)
  BY DEF RowsFit

\* At a commit of DoneCommit that finalizes, every step is done.
LEMMA FinalMark ==
    ASSUME SInv, NEW w \in Worker, DoneCommit(w), at[w].last
    PROVE  /\ at[w].ex \in Exec
           /\ \A s \in steps'[at[w].ex] : s.done
  <1> DEFINE e == at[w].ex
             T == {IF Key(s) = at[w].step THEN Marked(s) ELSE s : s \in steps[e]}
  <1>1. /\ Placed(pc[w], at[w]) /\ RowsFit(steps[e], pc[w], at[w])
        /\ steps \in [Exec -> SUBSET StepRow] /\ pc[w] = "doneCommit"
    BY DEF SInv, DoneCommit
  <1>2. e \in Exec
    BY <1>1 DEF Placed
  <1>3. Snapped(steps[e])
    BY <1>2 DEF SInv
  <1>4. steps'[e] = T
    BY <1>1, <1>2 DEF DoneCommit
  <1>5. \A s \in steps[e] : Key(s) = at[w].step \/ s.done
    BY <1>1 DEF RowsFit
  <1>6. steps[e] \in SUBSET StepRow
    BY <1>1, <1>2
  <1>7. /\ \A t \in T : Key(t) = at[w].step => t.done
        /\ \A j : (\A s \in steps[e] : Key(s) = j \/ s.done)
                  => \A t \in T : Key(t) = j \/ t.done
    BY <1>3, <1>6, MarkedRows
  <1> HIDE DEF T
  <1>8. \A t \in T : Key(t) = at[w].step \/ t.done
    BY <1>5, <1>7
  <1> QED BY <1>2, <1>4, <1>7, <1>8

LEMMA DoneCommitFits ==
    ASSUME IInv, SInv, NEW w \in Worker, DoneCommit(w)
    PROVE  SInv'
  <1> DEFINE e == at[w].ex
             T == {IF Key(s) = at[w].step THEN Marked(s) ELSE s : s \in steps[e]}
  <1>1. /\ Placed(pc[w], at[w]) /\ pc[w] = "doneCommit"
        /\ steps \in [Exec -> SUBSET StepRow] /\ Data
        /\ \A v \in Worker : RowsFit(steps[at[v].ex], pc[v], at[v])
    BY DEF SInv, DoneCommit
  <1>2. e \in Exec
    BY <1>1 DEF Placed
  <1>3. Snapped(steps[e])
    BY <1>2 DEF SInv
  <1>4. /\ T \in SUBSET StepRow /\ Snapped(T) /\ KeysOf(T) = KeysOf(steps[e])
        /\ \A j : (\A s \in steps[e] : Key(s) = j \/ s.done)
                  => \A t \in T : Key(t) = j \/ t.done
    BY <1>1, <1>2, <1>3, MarkedRows
  <1>5. steps' = [steps EXCEPT ![e] = T] /\ Return(w)
    BY DEF DoneCommit
  <1>6. Data'
    BY <1>1 DEF DoneCommit, Data
  <1>7. \A f \in Exec \ {e} : exec'[f] = exec[f]
    BY DEF DoneCommit, IInv, Shape
  <1> HIDE DEF T
  <1>8. ASSUME NEW v \in Worker \ {w}, at[v].ex = e
        PROVE  RowsFit(T, pc[v], at[v])
    <2>1. RowsFit(steps[e], pc[v], at[v])
      BY <1>1, <1>8
    <2> QED BY <1>4, <2>1, StillFit DEF RowsFit
  <1>9. /\ steps' \in [Exec -> SUBSET StepRow] /\ steps'[e] = T
        /\ \A f \in Exec \ {e} : steps'[f] = steps[f]
    BY <1>1, <1>2, <1>4, <1>5, RowsReplaced
  <1> QED BY <1>2, <1>4, <1>5, <1>6, <1>7, <1>8, <1>9, WriteFits

\* A clear of locked rows disturbs nobody who has counted them.
LEMMA ClearCommitFits ==
    ASSUME IInv, SInv, NEW w \in Worker, Return(w), Data',
           pc[w] \in {"abortExec", "resetExec"},
           steps' = [steps EXCEPT ![at[w].ex] = Cleared(@, at[w].todo)],
           \A f \in Exec \ {at[w].ex} : exec'[f] = exec[f]
    PROVE  SInv'
  <1> DEFINE e == at[w].ex
             T == Cleared(steps[e], at[w].todo)
  <1>1. /\ Placed(pc[w], at[w])
        /\ steps \in [Exec -> SUBSET StepRow]
        /\ \A v \in Worker : RowsFit(steps[at[v].ex], pc[v], at[v])
        /\ \A v \in Worker \ {w} : Apart(pc[w], at[w], pc[v], at[v])
        /\ \A v \in Worker : at[v].last => pc[v] = "doneCommit"
    BY DEF SInv, Placed
  <1>2. e \in Exec
    BY <1>1 DEF Placed
  <1>3. Snapped(steps[e])
    BY <1>2 DEF SInv
  <1>4. /\ T \in SUBSET StepRow /\ Snapped(T) /\ KeysOf(T) = KeysOf(steps[e])
        /\ at[w].todo \intersect KeysOf(steps[e]) = {} => T = steps[e]
    BY <1>1, <1>2, <1>3, ClearedRows
  <1>5. steps' = [steps EXCEPT ![e] = T]
    OBVIOUS
  <1> HIDE DEF T
  <1>6. ASSUME NEW v \in Worker \ {w}, at[v].ex = e
        PROVE  RowsFit(T, pc[v], at[v])
    <2>1. RowsFit(steps[e], pc[v], at[v])
      BY <1>1, <1>6
    <2>2. CASE pc[v] \in Marking
      <3>1. at[v].step \in KeysOf(steps[e])
        BY <2>1, <2>2 DEF RowsFit
      <3>2. Held(pc[v], at[v]) = {at[v].step} /\ Held(pc[w], at[w]) = at[w].todo
        BY <2>2 DEF Held, Marking
      <3>3. at[v].step \notin at[w].todo
        BY <1>1, <1>6, <3>2 DEF Apart
      <3>4. at[w].todo \intersect KeysOf(steps[e]) = {}
        BY <1>1, <3>1, <3>3 DEF RowsFit
      <3> QED BY <1>4, <2>1, <3>4
    <2>3. CASE pc[v] \notin Marking
      <3>1. pc[v] # "doneFinal" /\ ~at[v].last
        BY <1>1, <2>3 DEF Marking
      <3> QED BY <1>4, <2>1, <3>1, StillFit
    <2> QED BY <2>2, <2>3
  <1>7. /\ steps' \in [Exec -> SUBSET StepRow] /\ steps'[e] = T
        /\ \A f \in Exec \ {e} : steps'[f] = steps[f]
    BY <1>1, <1>2, <1>4, <1>5, RowsReplaced
  <1> QED BY <1>2, <1>4, <1>6, <1>7, WriteFits

LEMMA AbortCommitFits ==
    ASSUME IInv, SInv, NEW w \in Worker, AbortCommit(w)
    PROVE  SInv'
  <1> DEFINE e == at[w].ex
             rec == [attempt |-> at[w].attempt, completed |-> at[w].completed,
                     total |-> at[w].total]
  <1>1. /\ pc[w] = "abortExec" /\ Return(w)
        /\ steps' = [steps EXCEPT ![e] = Cleared(@, at[w].todo)]
        /\ exec' = [exec EXCEPT ![e].started = FALSE]
        /\ aborts' = [aborts EXCEPT ![e] = @ \union {rec}]
        /\ UNCHANGED <<plan, stale>>
    BY DEF AbortCommit
  <1>2. rec \in AbortRow
    <2>1. at[w] \in Request
      BY DEF SInv
    <2>2. pc[w] \in Aborting /\ e \in Exec /\ at[w].attempt = NextAttempt(e)
      BY <1>1 DEF IInv, Attempting, Aborting
    <2>3. Cardinality(aborts[e]) \in Nat
      BY <2>2, FS_CardinalityType DEF IInv, Shape
    <2>4. at[w].attempt \in 1..MaxAborts
      BY <2>1, <2>2, <2>3, BoundsAssumption DEF Request, NextAttempt
    <2> QED BY <2>1, <2>4 DEF Request, AbortRow
  <1> HIDE DEF rec
  <1>3. Data'
    <2>1. \A f \in Exec : aborts'[f] \subseteq aborts[f] \union {rec}
      BY <1>1 DEF IInv, Shape
    <2> QED BY <1>1, <1>2, <2>1 DEF SInv, Data
  <1>4. \A f \in Exec \ {e} : exec'[f] = exec[f]
    BY <1>1 DEF IInv, Shape
  <1> QED BY <1>1, <1>3, <1>4, ClearCommitFits

LEMMA ResetCommitFits ==
    ASSUME IInv, SInv, NEW w \in Worker, ResetCommit(w)
    PROVE  SInv'
  <1>1. /\ pc[w] = "resetExec" /\ Return(w) /\ UNCHANGED <<plan, aborts, stale>>
    BY DEF ResetCommit
  <1>2. Data'
    BY <1>1 DEF SInv, Data
  <1>3. CASE UNCHANGED <<steps, exec>>
    BY <1>1, <1>2, <1>3, ReturnFits
  <1>4. CASE /\ steps' = [steps EXCEPT ![at[w].ex] = Cleared(@, at[w].todo)]
             /\ exec' = [exec EXCEPT ![at[w].ex].started = FALSE,
                                     ![at[w].ex].status = "active"]
    <2>1. \A f \in Exec \ {at[w].ex} : exec'[f] = exec[f]
      BY <1>4 DEF IInv, Shape
    <2> QED BY <1>1, <1>2, <1>4, <2>1, ClearCommitFits
  <1> QED BY <1>3, <1>4 DEF ResetCommit

\* A snapshot put where no row was, or in place of all that were.
LEMMA NewSnapshotFits ==
    ASSUME IInv, SInv, NEW w \in Worker, Return(w), Data',
           NEW e \in Exec, at[w].ex = e, NEW p \in Plans,
           steps' = [steps EXCEPT ![e] = Snapshot(e, p)],
           \A f \in Exec \ {e} : exec'[f] = exec[f],
           \A v \in Worker \ {w} : at[v].ex = e => pc[v] \notin Marking
    PROVE  SInv'
  <1> DEFINE S == Snapshot(e, p)
  <1>1. /\ S \in SUBSET StepRow /\ Snapped(S)
        /\ \A v \in Worker : at[v].todo \intersect KeysOf(S) = {}
    BY NewSnapshot
  <1>2. \A v \in Worker : at[v].last => pc[v] = "doneCommit"
    BY DEF SInv, Placed
  <1> HIDE DEF S
  <1>3. ASSUME NEW v \in Worker \ {w}, at[v].ex = e
        PROVE  RowsFit(S, pc[v], at[v])
    <2>1. pc[v] # "doneFinal" /\ ~at[v].last /\ pc[v] \notin Marking
      BY <1>2, <1>3 DEF Marking
    <2> QED BY <1>1, <2>1 DEF RowsFit
  <1>4. steps' = [steps EXCEPT ![e] = S]
    BY DEF S
  <1>5. steps \in [Exec -> SUBSET StepRow]
    BY DEF SInv
  <1>6. /\ steps' \in [Exec -> SUBSET StepRow] /\ steps'[e] = S
        /\ \A f \in Exec \ {e} : steps'[f] = steps[f]
    BY <1>1, <1>4, <1>5, RowsReplaced
  <1> QED BY <1>1, <1>3, <1>6, WriteFits

\* Rows that are in the way of the number 1 are in the way of a plan with steps.
LEMMA ClashFacts ==
    ASSUME NEW w, NEW e, NEW p \in Plans, Snapped(steps[e]),
           at[w].todo \intersect KeysOf(steps[e]) = {}, Clash(w, e, p) = {}
    PROVE  steps[e] = {} \/ DOMAIN p = {}
  <1>1. PICK n \in 0..MaxSteps : {s.num : s \in steps[e]} = 1..n
    BY DEF Snapped
  <1>2. n \in Nat /\ DOMAIN p = 1..Len(p) /\ Len(p) \in Nat
    BY <1>1, PlanFacts, BoundsAssumption
  <1>3. \A s \in steps[e] : s.num \notin DOMAIN p
    BY DEF Clash, KeysOf
  <1>4. CASE n = 0
    <2>1. 1..n = {}
      BY <1>4
    <2> QED BY <1>1, <2>1
  <1>5. CASE n # 0
    <2>1. 1 \in 1..n
      BY <1>2, <1>5
    <2>2. 1 \notin DOMAIN p
      BY <1>1, <1>3, <2>1
    <2> QED BY <1>2, <2>2
  <1> QED BY <1>4, <1>5

LEMMA CreateInsertFits ==
    ASSUME IInv, SInv, NEW w \in Worker, CreateInsert(w)
    PROVE  SInv'
  <1> DEFINE e == at[w].ex
             p == at[w].plan
  <1>1. /\ pc[w] = "createInsert" /\ Return(w)
        /\ UNCHANGED <<plan, exec, aborts, stale>>
    BY DEF CreateInsert
  <1>2. /\ Placed(pc[w], at[w]) /\ at[w] \in Request
        /\ steps \in [Exec -> SUBSET StepRow]
        /\ \A v \in Worker : RowsFit(steps[at[v].ex], pc[v], at[v])
    BY DEF SInv
  <1>3. e \in Exec /\ at[w].todo = {} /\ p \in Plans /\ Snapped(steps[e])
    <2>1. "createInsert" \notin Bulk
      BY DEF Bulk
    <2> QED BY <1>1, <1>2, <2>1 DEF Placed, Request, SInv
  <1>4. Data'
    BY <1>1 DEF SInv, Data
  <1>5. CASE UNCHANGED steps
    BY <1>1, <1>4, <1>5, ReturnFits
  <1>6. CASE /\ Clash(w, e, p) = {}
             /\ steps' = [steps EXCEPT ![e] = @ \union Snapshot(e, p)]
    <2>1. CASE steps[e] = {}
      <3>1. \A v \in Worker \ {w} : at[v].ex = e => pc[v] \notin Marking
        BY <1>2, <2>1 DEF RowsFit, KeysOf
      <3>2. steps' = [steps EXCEPT ![e] = Snapshot(e, p)]
        BY <1>6, <2>1
      <3> QED BY <1>1, <1>3, <1>4, <3>1, <3>2, NewSnapshotFits
    <2>2. CASE DOMAIN p = {}
      <3>1. UNCHANGED steps
        BY <1>2, <1>3, <1>6, <2>2, EmptyPlan
      <3> QED BY <1>1, <1>4, <3>1, ReturnFits
    <2> QED BY <1>3, <1>6, <2>1, <2>2, ClashFacts
  <1> QED BY <1>5, <1>6 DEF CreateInsert

LEMMA CheckCommitFits ==
    ASSUME IInv, SInv, NEW w \in Worker, CheckCommit(w)
    PROVE  SInv'
  <1> DEFINE e == at[w].ex
  <1>1. /\ pc[w] = "checkCommit" /\ Return(w)
        /\ exec' = [exec EXCEPT ![e] = NewRow("active")]
        /\ steps' = [steps EXCEPT ![e] = Snapshot(e, at[w].plan)]
        /\ UNCHANGED <<plan, aborts, stale>>
    BY DEF CheckCommit
  <1>2. e \in Exec /\ at[w].plan \in Plans /\ pc[w] \in Keyed
    BY <1>1 DEF SInv, Placed, Request, Keyed
  <1>3. Data'
    BY <1>1 DEF SInv, Data
  <1>4. \A f \in Exec \ {e} : exec'[f] = exec[f]
    BY <1>1 DEF IInv, Shape
  <1>5. \A v \in Worker \ {w} : at[v].ex = e => pc[v] \notin Marking
    BY <1>2 DEF SInv, Apart
  <1> QED BY <1>1, <1>2, <1>3, <1>4, <1>5, NewSnapshotFits

LEMMA ResyncInsertFits ==
    ASSUME IInv, SInv, NEW w \in Worker, ResyncInsert(w)
    PROVE  SInv'
  <1> DEFINE e == at[w].ex
             p == at[w].plan
             kept == {s \in steps[e] : Key(s) \notin at[w].todo}
  <1>1. /\ pc[w] = "resyncInsert" /\ Return(w)
        /\ UNCHANGED <<plan, exec, aborts, stale>>
    BY DEF ResyncInsert
  <1>2. /\ Placed(pc[w], at[w]) /\ at[w] \in Request
        /\ steps \in [Exec -> SUBSET StepRow]
        /\ \A v \in Worker : RowsFit(steps[at[v].ex], pc[v], at[v])
        /\ \A v \in Worker \ {w} : Apart(pc[w], at[w], pc[v], at[v])
    BY DEF SInv
  <1>3. e \in Exec /\ p \in Plans /\ Snapped(steps[e])
    BY <1>1, <1>2 DEF Placed, Request, SInv
  <1>4. Data'
    BY <1>1 DEF SInv, Data
  <1>5. CASE UNCHANGED steps
    BY <1>1, <1>4, <1>5, ReturnFits
  <1>6. CASE /\ Clash(w, e, p) = {}
             /\ steps' = [steps EXCEPT ![e] = kept \union Snapshot(e, p)]
    <2>1. CASE at[w].todo = KeysOf(steps[e])
      <3>1. kept = {}
        BY <2>1 DEF KeysOf
      <3>2. \A v \in Worker \ {w} : at[v].ex = e => pc[v] \notin Marking
        <4> SUFFICES ASSUME NEW v \in Worker \ {w}, at[v].ex = e, pc[v] \in Marking
                     PROVE  FALSE
          OBVIOUS
        <4>1. at[v].step \in at[w].todo
          BY <1>2, <2>1 DEF RowsFit
        <4>2. Held(pc[v], at[v]) = {at[v].step} /\ Held(pc[w], at[w]) = at[w].todo
          BY <1>1 DEF Held, Marking
        <4> QED BY <1>2, <4>1, <4>2 DEF Apart
      <3>3. steps' = [steps EXCEPT ![e] = Snapshot(e, p)]
        BY <1>6, <3>1
      <3> QED BY <1>1, <1>3, <1>4, <3>2, <3>3, NewSnapshotFits
    <2>2. CASE at[w].todo \intersect KeysOf(steps[e]) = {}
      <3>1. kept = steps[e]
        BY <2>2 DEF KeysOf
      <3>2. CASE steps[e] = {}
        <4>1. \A v \in Worker \ {w} : at[v].ex = e => pc[v] \notin Marking
          BY <1>2, <3>2 DEF RowsFit, KeysOf
        <4>2. steps' = [steps EXCEPT ![e] = Snapshot(e, p)]
          BY <1>6, <3>1, <3>2
        <4> QED BY <1>1, <1>3, <1>4, <4>1, <4>2, NewSnapshotFits
      <3>3. CASE DOMAIN p = {}
        <4>1. UNCHANGED steps
          BY <1>2, <1>3, <1>6, <3>1, <3>3, EmptyPlan
        <4> QED BY <1>1, <1>4, <4>1, ReturnFits
      <3> QED BY <1>3, <1>6, <2>2, <3>2, <3>3, ClashFacts
    <2> QED BY <1>2, <2>1, <2>2 DEF RowsFit
  <1> QED BY <1>5, <1>6 DEF ResyncInsert

-----------------------------------------------------------------------------
(* The invariant and the theorems. *)

LEMMA SInit == Init => SInv
  <1> SUFFICES ASSUME Init PROVE SInv
    OBVIOUS
  <1>1. Data
    <2>1. PICK n \in 0..MaxSteps : plan \in [1..n -> BOOLEAN]
      BY DEF Init
    <2>2. plan \in Seq(BOOLEAN) /\ Len(plan) = n
      BY <2>1, BoundsAssumption
    <2> QED BY <2>1, <2>2, BoundsAssumption DEF Data, Plans, Init
  <1>2. /\ pc = [w \in Worker |-> "idle"] /\ at = [w \in Worker |-> NoLocals]
        /\ steps = [e \in Exec |-> {}]
    BY DEF Init
  <1>3. Snapped({})
    <2>1. 0 \in 0..MaxSteps /\ 1..0 = {} /\ {s.num : s \in {}} = {}
      BY BoundsAssumption
    <2> QED BY <2>1 DEF Snapped
  <1>4. NoLocals \in Request /\ Placed("idle", NoLocals)
    <2>1. <<>> \in Plans
      BY BoundsAssumption DEF Plans
    <2>2. /\ 0 \in 0..MaxSteps /\ 0 \in 0..MaxAborts
          /\ [gen |-> 0, num |-> 0] \in StepKey
      BY BoundsAssumption DEF StepKey
    <2>3. NoLocals \in Request
      BY <2>1, <2>2, UnbornIsRow DEF NoLocals, Request
    <2>4. /\ NoLocals.todo = {} /\ ~NoLocals.last
          /\ "idle" \notin Keyed
      BY DEF NoLocals, Keyed
    <2> QED BY <2>3, <2>4, FS_EmptySet DEF Placed
  <1>5. "idle" \notin Keyed \union Marking \union Bulk
    BY DEF Keyed, Marking, Bulk
  <1>6. \A S : RowsFit(S, "idle", NoLocals)
    BY <1>5 DEF RowsFit, NoLocals
  <1>7. Apart("idle", NoLocals, "idle", NoLocals)
    BY <1>5 DEF Apart, Held
  <1> QED BY <1>1, <1>2, <1>3, <1>4, <1>5, <1>6, <1>7 DEF SInv

LEMMA SNext == IInv /\ SInv /\ [Next]_vars => SInv'
  <1> SUFFICES ASSUME IInv, SInv, [Next]_vars PROVE SInv'
    OBVIOUS
  <1>1. CASE UNCHANGED <<plan, exec, steps, aborts, pc, at>> /\ stale' \in BOOLEAN
    <2>1. Data'
      BY <1>1 DEF SInv, Data
    <2> QED BY <1>1, <2>1 DEF SInv
  <1>2. ASSUME NEW w \in Worker, Begin(w) PROVE SInv'
    <2>1. ASSUME NEW e \in Exec, DoneRead(w, e) PROVE SInv'
      BY <2>1, DoneFits
    <2>2. ASSUME NEW e \in Exec, ResetRead(w, e) PROVE SInv'
      BY <2>2, ClearFits
    <2> QED BY <1>2, <2>1, <2>2, AbortReadFits, PatchReadFits, DeleteFits,
               CreateFits, CheckFits, ResyncFits DEF Begin
  <1>3. ASSUME NEW w \in Worker, Continue(w) PROVE SInv'
    <2>1. CASE \/ DoneStep(w) \/ DoneFirst(w) \/ DoneWrite(w)
               \/ DoneCount(w) \/ DoneFinal(w)
      BY <2>1, DoneFits
    <2>2. CASE AbortInsert(w) \/ ClearScan(w) \/ ClearLock(w)
      BY <2>2, ClearFits
    <2>3. CASE \/ DoneCommit(w) \/ AbortCommit(w) \/ ResetCommit(w)
               \/ PatchSave(w) \/ Victim(w)
      BY <2>3, DoneCommitFits, AbortCommitFits, ResetCommitFits, PatchSaveFits,
         EndFits
    <2>4. CASE \/ CreateSnap(w) \/ CreateInsert(w)
               \/ CheckInsert(w) \/ CheckSnap(w) \/ CheckCommit(w)
      BY <2>4, CheckFits, CreateInsertFits, CheckCommitFits
    <2>5. CASE \/ ResyncList(w) \/ ResyncProbe(w) \/ ResyncScan(w)
               \/ ResyncDelete(w) \/ ResyncRead(w) \/ ResyncInsert(w)
      BY <2>5, ResyncFits, ResyncInsertFits
    <2> QED BY <1>3, <2>1, <2>2, <2>3, <2>4, <2>5 DEF Continue
  <1>4. ASSUME NEW w \in Worker, Kill(w) PROVE SInv'
    BY <1>4, EndFits
  <1>5. CASE InventoryChanges
    BY <1>1, <1>5 DEF InventoryChanges
  <1>6. CASE UNCHANGED vars
    BY <1>1, <1>6 DEF vars, SInv, Data
  <1> QED BY <1>2, <1>3, <1>4, <1>5, <1>6 DEF Next

LEMMA Invariants == Spec => [](IInv /\ SInv)
  BY Invariant, SInit, SNext, PTL DEF Spec

\* Every row and every request that has ended is what the code declares it to
\* be: steps numbered within the plan's length, counts within the steps'.
THEOREM TypesHold == Spec => []TypeOK
  <1>1. IInv /\ SInv => TypeOK
    <2> SUFFICES ASSUME IInv, SInv PROVE TypeOK
      OBVIOUS
    <2>1. \A e \in Exec : exec[e] \in ExecRow /\ steps[e] \in SUBSET StepRow
      BY DEF IInv, Shape, SInv
    <2>2. \A w \in Worker : pc[w] = "idle" => at[w] = NoLocals
      BY DEF SInv, Placed
    <2>3. Data
      BY DEF SInv
    <2> QED BY <2>1, <2>2, <2>3 DEF TypeOK, Data, Plans, ExecRow, StepRow, AbortRow
  <1> QED BY <1>1, Invariants, PTL

\* With any number of workers the steps of an execution are always one whole
\* snapshot: inserts that race never leave two plans in it.
THEOREM SnapshotsHold == Spec => []OneSnapshot
  <1>1. IInv /\ SInv => OneSnapshot
    <2> SUFFICES ASSUME SInv, NEW e \in Exec
                 PROVE  /\ {s.num : s \in steps[e]} = 1..Cardinality(steps[e])
                        /\ \A s, t \in steps[e] : s.gen = t.gen
      BY DEF OneSnapshot
    <2>1. steps[e] \in SUBSET StepRow /\ Snapped(steps[e])
      BY DEF SInv
    <2>2. \A s, t \in steps[e] : s.gen = t.gen
      BY <2>1 DEF Snapped
    <2> QED BY <2>1, <2>2, KeyFacts
  <1> QED BY <1>1, Invariants, PTL

\* The commit that finalizes an execution leaves every step of it done,
\* whatever other workers do between the count of the steps left and that
\* commit: abort and reset wait for the mark's lock, a resync for its row.
THEOREM FinalizedWhenDone == Spec => FinalizedOnlyWhenDone
  <1> DEFINE Finalized ==
          \A w \in Worker : DoneCommit(w) /\ at[w].last =>
              \A s \in steps'[at[w].ex] : s.done
  <1>1. IInv /\ SInv /\ [Next]_vars => [Finalized]_vars
    BY FinalMark
  <1> QED BY <1>1, Invariants, PTL DEF Spec, FinalizedOnlyWhenDone
=============================================================================
