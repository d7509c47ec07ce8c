------------------------- MODULE PatchRefinesProofs -------------------------
(***************************************************************************)
(* One server process implements PatchRun, proved for any executions, any  *)
(* requests and any bounds: each commit of PatchRequests, seen through the *)
(* mapping of PatchRefines, is a whole request of PatchRun or changes      *)
(* nothing that it shows.                                                  *)
(*                                                                         *)
(* What makes a request atomic is that nobody else writes: whatever its    *)
(* worker has read is still so when it commits (Remembers).  What a set of *)
(* numbered rows shows is a sequence (RowsOf, AttemptsOf), and each write  *)
(* of rows is the write of that sequence which PatchRun makes.             *)
(***************************************************************************)
EXTENDS PatchRefines, PatchSnapshotProofs

RowAt(S, i) == CHOOSE r \in S : r.num = i

Shows(s) == [timed |-> s.timed, done |-> s.done, started |-> s.started]

\* The sequence that the step rows S show.
RowsOf(S) == [i \in 1..Cardinality(S) |-> Shows(RowAt(S, i))]

AttemptAt(A, i) == CHOOSE r \in A : r.attempt = i

\* And the abort rows A.
AttemptsOf(A) ==
    [i \in 1..Cardinality(A) |-> [completed |-> AttemptAt(A, i).completed,
                                  total |-> AttemptAt(A, i).total]]

LEMMA ShownFacts ==
    /\ \A e \in Exec : ShownSteps[e] = RowsOf(steps[e])
    /\ \A e \in Exec : ShownAborts[e] = AttemptsOf(aborts[e])
    /\ ShownSteps = [e \in Exec |-> RowsOf(steps[e])]
    /\ ShownAborts = [e \in Exec |-> AttemptsOf(aborts[e])]
  BY DEF ShownSteps, ShownAborts, RowsOf, AttemptsOf, RowAt, AttemptAt, Shows

-----------------------------------------------------------------------------
(* Sets of step rows as sequences. *)

LEMMA RowAtFacts ==
    ASSUME NEW S \in SUBSET StepRow, Snapped(S)
    PROVE  /\ Cardinality(S) \in Nat
           /\ \A s \in S : s.num \in 1..Cardinality(S) /\ RowAt(S, s.num) = s
           /\ \A i \in 1..Cardinality(S) : RowAt(S, i) \in S /\ RowAt(S, i).num = i
  <1>1. /\ Cardinality(S) \in Nat
        /\ {s.num : s \in S} = 1..Cardinality(S)
    BY KeyFacts, BoundsAssumption
  <1>2. \A s, t \in S : s.num = t.num => s = t
    BY DEF Snapped
  <1>3. ASSUME NEW i \in 1..Cardinality(S)
        PROVE  RowAt(S, i) \in S /\ RowAt(S, i).num = i
    <2>1. \E r \in S : r.num = i
      BY <1>1
    <2> QED BY <2>1 DEF RowAt
  <1>4. ASSUME NEW s \in S
        PROVE  s.num \in 1..Cardinality(S) /\ RowAt(S, s.num) = s
    <2>1. s.num \in 1..Cardinality(S)
      BY <1>1
    <2> QED BY <1>2, <1>3, <2>1
  <1> QED BY <1>1, <1>3, <1>4

\* As many rows as numbers.
LEMMA SameNumbers ==
    ASSUME NEW S \in SUBSET StepRow, Snapped(S), NEW n \in Nat,
           {s.num : s \in S} = 1..n
    PROVE  Cardinality(S) = n
  <1>1. /\ Cardinality(S) \in Nat
        /\ {s.num : s \in S} = 1..Cardinality(S)
    BY KeyFacts, BoundsAssumption
  <1>2. \A m \in Nat : 1..m = 1..n => m = n
    <2> SUFFICES ASSUME NEW m \in Nat, 1..m = 1..n PROVE m = n
      OBVIOUS
    <2>1. m > n => m \in 1..m /\ m \notin 1..n
      OBVIOUS
    <2>2. n > m => n \in 1..n /\ n \notin 1..m
      OBVIOUS
    <2> QED BY <2>1, <2>2
  <1> QED BY <1>1, <1>2

\* Rows that are rewritten one by one and keep their numbers keep their places.
LEMMA RowsMapped ==
    ASSUME NEW S \in SUBSET StepRow, Snapped(S), NEW f \in [S -> StepRow],
           \A s \in S : f[s].num = s.num,
           NEW T \in SUBSET StepRow, Snapped(T), T = {f[s] : s \in S}
    PROVE  /\ Cardinality(T) = Cardinality(S)
           /\ \A i \in 1..Cardinality(S) : RowAt(T, i) = f[RowAt(S, i)]
  <1>1. /\ Cardinality(S) \in Nat
        /\ {s.num : s \in S} = 1..Cardinality(S)
    BY KeyFacts, BoundsAssumption
  <1>2. {t.num : t \in T} = {s.num : s \in S}
    OBVIOUS
  <1>3. Cardinality(T) = Cardinality(S)
    BY <1>1, <1>2, SameNumbers
  <1>4. ASSUME NEW i \in 1..Cardinality(S)
        PROVE  RowAt(T, i) = f[RowAt(S, i)]
    <2>1. RowAt(S, i) \in S /\ RowAt(S, i).num = i
      BY RowAtFacts
    <2>2. f[RowAt(S, i)] \in T /\ f[RowAt(S, i)].num = i
      BY <2>1
    <2> QED BY <2>2, RowAtFacts
  <1> QED BY <1>3, <1>4

\* Marking one row marks its place.
LEMMA MarkedShows ==
    ASSUME NEW S \in SUBSET StepRow, Snapped(S), NEW r \in S
    PROVE  LET T == {IF Key(s) = Key(r) THEN Marked(s) ELSE s : s \in S}
           IN  RowsOf(T) = [RowsOf(S) EXCEPT
                   ![r.num] = Atomic!Marked(RowsOf(S)[r.num])]
  <1> DEFINE T == {IF Key(s) = Key(r) THEN Marked(s) ELSE s : s \in S}
             f == [s \in S |-> IF Key(s) = Key(r) THEN Marked(s) ELSE s]
             n == Cardinality(S)
  <1>1. T \in SUBSET StepRow /\ Snapped(T)
    BY MarkedRows
  <1>2. f \in [S -> StepRow] /\ \A s \in S : f[s].num = s.num
    BY DEF Marked, StepRow
  <1>3. T = {f[s] : s \in S}
    OBVIOUS
  <1>4. Cardinality(T) = n /\ \A i \in 1..n : RowAt(T, i) = f[RowAt(S, i)]
    <2> HIDE DEF T, f
    <2> QED BY <1>1, <1>2, <1>3, RowsMapped
  <1>5. /\ r.num \in 1..n /\ RowAt(S, r.num) = r
        /\ \A i \in 1..n : RowAt(S, i) \in S /\ RowAt(S, i).num = i
        /\ n \in Nat
    BY RowAtFacts
  <1>6. ASSUME NEW i \in 1..n
        PROVE  Shows(RowAt(T, i)) = IF i = r.num
                                    THEN Atomic!Marked(Shows(RowAt(S, i)))
                                    ELSE Shows(RowAt(S, i))
    <2>1. CASE i = r.num
      <3>1. RowAt(T, i) = Marked(r) /\ RowAt(S, i) = r /\ r \in StepRow
        BY <1>4, <1>5, <2>1
      <3> QED BY <2>1, <3>1 DEF Shows, Marked, Atomic!Marked, StepRow
    <2>2. CASE i # r.num
      <3>1. Key(RowAt(S, i)) # Key(r)
        BY <1>5, <2>2 DEF Key
      <3>2. RowAt(T, i) = RowAt(S, i)
        BY <1>4, <1>5, <3>1
      <3> QED BY <2>2, <3>2
    <2> QED BY <2>1, <2>2
  <1> HIDE DEF T, f
  <1>7. RowsOf(T) = [RowsOf(S) EXCEPT ![r.num] = Atomic!Marked(RowsOf(S)[r.num])]
    <2>1. RowsOf(T) = [i \in 1..n |-> Shows(RowAt(T, i))]
      BY <1>4 DEF RowsOf
    <2>2. RowsOf(S) = [i \in 1..n |-> Shows(RowAt(S, i))]
      BY DEF RowsOf
    <2> QED BY <1>5, <1>6, <2>1, <2>2
  <1> QED BY <1>7 DEF T

\* Clearing every row clears the sequence.
LEMMA ClearedShows ==
    ASSUME NEW S \in SUBSET StepRow, Snapped(S)
    PROVE  RowsOf(Cleared(S, KeysOf(S))) = Atomic!Cleared(RowsOf(S))
  <1> DEFINE T == Cleared(S, KeysOf(S))
             f == [s \in S |-> [s EXCEPT !.done = FALSE, !.started = FALSE]]
             n == Cardinality(S)
  <1>1. T \in SUBSET StepRow /\ Snapped(T)
    BY ClearedRows
  <1>2. f \in [S -> StepRow] /\ \A s \in S : f[s].num = s.num
    BY DEF StepRow
  <1>3. T = {f[s] : s \in S}
    <2>1. \A s \in S : Key(s) \in KeysOf(S)
      BY DEF KeysOf
    <2> QED BY <2>1 DEF Cleared
  <1>4. Cardinality(T) = n /\ \A i \in 1..n : RowAt(T, i) = f[RowAt(S, i)]
    <2> HIDE DEF T, f
    <2> QED BY <1>1, <1>2, <1>3, RowsMapped
  <1>5. \A i \in 1..n : RowAt(S, i) \in S
    BY RowAtFacts
  <1>6. ASSUME NEW i \in 1..n
        PROVE  Shows(RowAt(T, i)) = [timed |-> RowAt(S, i).timed,
                                     done |-> FALSE, started |-> FALSE]
    <2>1. RowAt(T, i) = f[RowAt(S, i)] /\ RowAt(S, i) \in StepRow
      BY <1>4, <1>5
    <2> QED BY <1>5, <2>1 DEF Shows, StepRow
  <1> HIDE DEF T, f
  <1>7. RowsOf(T) = [i \in 1..n |-> Shows(RowAt(T, i))]
    BY <1>4 DEF RowsOf
  <1>8. RowsOf(S) = [i \in 1..n |-> Shows(RowAt(S, i))]
    BY DEF RowsOf
  <1>9. Atomic!Cleared(RowsOf(S))
            = [i \in 1..n |-> [timed |-> RowAt(S, i).timed,
                               done |-> FALSE, started |-> FALSE]]
    BY <1>8 DEF Atomic!Cleared, Shows
  <1>10. RowsOf(T) = Atomic!Cleared(RowsOf(S))
    BY <1>6, <1>7, <1>9
  <1> QED BY <1>10 DEF T

\* A snapshot of a plan shows the plan.
LEMMA SnapshotShows ==
    ASSUME SInv, NEW e \in Exec, NEW p \in Plans
    PROVE  RowsOf(Snapshot(e, p)) = Atomic!Snapshot(p)
  <1> DEFINE T == Snapshot(e, p)
             n == Len(p)
  <1>1. T \in SUBSET StepRow /\ Snapped(T)
    BY NewSnapshot
  <1>2. n \in Nat /\ DOMAIN p = 1..n
    BY PlanFacts, BoundsAssumption
  <1>3. {s.num : s \in T} = 1..n
    <2>1. \A s \in T : s.num \in 1..n
      BY <1>2 DEF Snapshot
    <2>2. ASSUME NEW i \in 1..n PROVE \E s \in T : s.num = i
      <3> DEFINE s == [gen |-> FreshGen(e), num |-> i, timed |-> p[i],
                       done |-> FALSE, started |-> FALSE]
      <3>1. s \in T /\ s.num = i
        BY <1>2 DEF Snapshot
      <3> QED BY <3>1
    <2> HIDE DEF T
    <2> QED BY <2>1, <2>2
  <1>4. Cardinality(T) = n
    <2> HIDE DEF T
    <2> QED BY <1>1, <1>2, <1>3, SameNumbers
  <1>5. \A i \in 1..n : RowAt(T, i) \in T /\ RowAt(T, i).num = i
    <2> HIDE DEF T
    <2> QED BY <1>1, <1>4, RowAtFacts
  <1>6. ASSUME NEW s \in T
        PROVE  Shows(s) = [timed |-> p[s.num], done |-> FALSE, started |-> FALSE]
    <2>1. PICK i \in DOMAIN p : s = [gen |-> FreshGen(e), num |-> i,
               timed |-> p[i], done |-> FALSE, started |-> FALSE]
      BY DEF Snapshot
    <2> QED BY <2>1 DEF Shows
  <1>7. \A i \in 1..n : Shows(RowAt(T, i)) =
            [timed |-> p[i], done |-> FALSE, started |-> FALSE]
    <2> HIDE DEF T
    <2> QED BY <1>5, <1>6
  <1> HIDE DEF T
  <1>8. RowsOf(T) = Atomic!Snapshot(p)
    BY <1>2, <1>4, <1>7 DEF RowsOf, Atomic!Snapshot
  <1> QED BY <1>8 DEF T

LEMMA NoRowsShow == RowsOf({}) = <<>> /\ AttemptsOf({}) = <<>>
  <1>1. Cardinality({}) = 0
    BY FS_EmptySet
  <1> QED BY <1>1 DEF RowsOf, AttemptsOf

\* The instance counts as its instantiator does.
LEMMA SameCardinality ==
    ASSUME NEW S
    PROVE  Atomic!Cardinality(S) = Cardinality(S)
  BY DEF Atomic!Cardinality, Cardinality

\* As many done places as done rows.
LEMMA CountShows ==
    ASSUME NEW S \in SUBSET StepRow, Snapped(S)
    PROVE  /\ Len(RowsOf(S)) = Cardinality(S)
           /\ Atomic!DoneCount(RowsOf(S)) = Cardinality({s \in S : s.done})
           /\ IsFiniteSet({i \in DOMAIN RowsOf(S) : ~RowsOf(S)[i].done})
  <1> DEFINE n == Cardinality(S)
             D == {s \in S : s.done}
             I == {i \in DOMAIN RowsOf(S) : RowsOf(S)[i].done}
             f == [s \in D |-> s.num]
  <1>1. /\ n \in Nat
        /\ \A s \in S : s.num \in 1..n /\ RowAt(S, s.num) = s
        /\ \A i \in 1..n : RowAt(S, i) \in S /\ RowAt(S, i).num = i
    BY RowAtFacts
  <1>2. /\ DOMAIN RowsOf(S) = 1..n
        /\ \A i \in 1..n : RowsOf(S)[i].done = RowAt(S, i).done
    BY DEF RowsOf, Shows
  <1>3. Len(RowsOf(S)) = n
    BY <1>1, <1>2
  <1>4. f \in Bijection(D, I)
    <2>1. f \in [D -> I]
      BY <1>1, <1>2
    <2>2. \A s, t \in D : f[s] = f[t] => s = t
      BY <1>1
    <2>3. \A i \in I : \E s \in D : f[s] = i
      BY <1>1, <1>2
    <2> HIDE DEF f, D, I
    <2> QED BY <2>1, <2>2, <2>3, Fun_IsBij
  <1>5. IsFiniteSet(D)
    <2>1. IsFiniteSet(S)
      BY KeyFacts
    <2> QED BY <2>1, FS_Subset
  <1>6. Cardinality(I) = Cardinality(D)
    <2> HIDE DEF f, D, I
    <2> QED BY <1>4, <1>5, FS_Bijection DEF ExistsBijection
  <1>7. IsFiniteSet({i \in DOMAIN RowsOf(S) : ~RowsOf(S)[i].done})
    <2>1. IsFiniteSet(1..n)
      BY <1>1, FS_Interval
    <2>2. {i \in DOMAIN RowsOf(S) : ~RowsOf(S)[i].done} \subseteq 1..n
      BY <1>2
    <2> QED BY <2>1, <2>2, FS_Subset
  <1>8. Atomic!DoneCount(RowsOf(S)) = Cardinality(I)
    BY SameCardinality DEF Atomic!DoneCount
  <1> HIDE DEF I
  <1> QED BY <1>3, <1>6, <1>7, <1>8

\* Nothing remains when every place is done.
LEMMA RemainingShows ==
    ASSUME NEW S \in SUBSET StepRow, Snapped(S)
    PROVE  Atomic!Remaining(RowsOf(S)) = 0 <=> \A s \in S : s.done
  <1> DEFINE n == Cardinality(S)
             I == {i \in DOMAIN RowsOf(S) : ~RowsOf(S)[i].done}
  <1>1. /\ \A s \in S : s.num \in 1..n /\ RowAt(S, s.num) = s
        /\ \A i \in 1..n : RowAt(S, i) \in S /\ RowAt(S, i).num = i
    BY RowAtFacts
  <1>2. /\ DOMAIN RowsOf(S) = 1..n
        /\ \A i \in 1..n : RowsOf(S)[i].done = RowAt(S, i).done
    BY DEF RowsOf, Shows
  <1>3. I = {} <=> \A s \in S : s.done
    BY <1>1, <1>2
  <1>4. Atomic!Remaining(RowsOf(S)) = Cardinality(I)
    BY SameCardinality DEF Atomic!Remaining
  <1>5. IsFiniteSet(I)
    BY CountShows
  <1> HIDE DEF I
  <1> QED BY <1>3, <1>4, <1>5, FS_EmptySet

-----------------------------------------------------------------------------
(* Sets of abort rows as sequences. *)

\* Attempts that are numbered 1..n are one a number.
LEMMA AttemptFacts ==
    ASSUME NEW A, IsFiniteSet(A), {a.attempt : a \in A} = 1..Cardinality(A)
    PROVE  /\ Cardinality(A) \in Nat
           /\ \A a, b \in A : a.attempt = b.attempt => a = b
           /\ \A a \in A : /\ a.attempt \in 1..Cardinality(A)
                           /\ AttemptAt(A, a.attempt) = a
           /\ \A i \in 1..Cardinality(A) : /\ AttemptAt(A, i) \in A
                                           /\ AttemptAt(A, i).attempt = i
  <1> DEFINE n == Cardinality(A)
             f == [a \in A |-> a.attempt]
  <1>1. n \in Nat
    BY FS_CardinalityType
  <1>2. Cardinality(1..n) = n
    BY <1>1, FS_Interval
  <1>3. f \in Surjection(A, 1..n)
    BY DEF Surjection
  <1>4. \A a, b \in A : a.attempt = b.attempt => a = b
    <2>1. f \in Injection(A, 1..n)
      <3> HIDE DEF f
      <3> QED BY <1>2, <1>3, FS_SurjSameCardinalityImpliesInj
    <2> QED BY <2>1 DEF Injection, IsInjective
  <1>5. ASSUME NEW i \in 1..n
        PROVE  AttemptAt(A, i) \in A /\ AttemptAt(A, i).attempt = i
    <2>1. \E a \in A : a.attempt = i
      OBVIOUS
    <2> QED BY <2>1 DEF AttemptAt
  <1>6. \A a \in A : a.attempt \in 1..n /\ AttemptAt(A, a.attempt) = a
    BY <1>4, <1>5
  <1> QED BY <1>1, <1>4, <1>5, <1>6

\* The next attempt is appended.
LEMMA AppendShows ==
    ASSUME NEW A, IsFiniteSet(A), {a.attempt : a \in A} = 1..Cardinality(A),
           NEW c, NEW t
    PROVE  LET b == [attempt |-> Cardinality(A) + 1, completed |-> c, total |-> t]
           IN  /\ AttemptsOf(A \union {b})
                      = Append(AttemptsOf(A), [completed |-> c, total |-> t])
               /\ Len(AttemptsOf(A)) = Cardinality(A)
  <1> DEFINE n == Cardinality(A)
             b == [attempt |-> n + 1, completed |-> c, total |-> t]
             B == A \union {b}
             R(a) == [completed |-> a.completed, total |-> a.total]
  <1>1. /\ n \in Nat
        /\ \A a \in A : a.attempt \in 1..n /\ AttemptAt(A, a.attempt) = a
        /\ \A i \in 1..n : AttemptAt(A, i) \in A /\ AttemptAt(A, i).attempt = i
    BY AttemptFacts
  <1>2. b \notin A /\ b.attempt = n + 1
    BY <1>1
  <1>3. Cardinality(B) = n + 1 /\ IsFiniteSet(B)
    <2> HIDE DEF b
    <2> QED BY <1>2, FS_AddElement
  <1>4. {a.attempt : a \in B} = 1..(n + 1)
    <2>1. \A a \in B : a.attempt \in 1..(n + 1)
      BY <1>1, <1>2
    <2>2. ASSUME NEW i \in 1..(n + 1) PROVE \E a \in B : a.attempt = i
      <3>1. CASE i = n + 1
        BY <1>2, <3>1
      <3>2. CASE i \in 1..n
        BY <1>1, <3>2
      <3> QED BY <1>1, <3>1, <3>2
    <2> HIDE DEF B
    <2> QED BY <2>1, <2>2
  <1>5. \A a \in B : AttemptAt(B, a.attempt) = a
    <2> HIDE DEF B
    <2> QED BY <1>3, <1>4, AttemptFacts
  <1>6. /\ AttemptAt(B, n + 1) = b
        /\ \A i \in 1..n : AttemptAt(B, i) = AttemptAt(A, i)
    BY <1>1, <1>2, <1>5
  <1>7. AttemptsOf(B) = [i \in 1..(n + 1) |-> R(AttemptAt(B, i))]
    BY <1>3 DEF AttemptsOf
  <1>8. AttemptsOf(A) = [i \in 1..n |-> R(AttemptAt(A, i))]
    BY DEF AttemptsOf
  <1>9. Len(AttemptsOf(A)) = n
    BY <1>1, <1>8
  <1>10. R(b) = [completed |-> c, total |-> t]
    OBVIOUS
  <1>11. AttemptsOf(B) = Append(AttemptsOf(A), R(b))
    <2>1. \A i \in 1..(n + 1) : R(AttemptAt(B, i)) = IF i = n + 1 THEN R(b)
                                                   ELSE R(AttemptAt(A, i))
      BY <1>1, <1>6
    <2> HIDE DEF R, b, B
    <2>2. AttemptsOf(B) = [i \in 1..(n + 1) |-> IF i = n + 1 THEN R(b)
                                                ELSE R(AttemptAt(A, i))]
      BY <1>7, <2>1
    <2> QED BY <1>1, <1>8, <1>9, <2>2
  <1> QED BY <1>9, <1>10, <1>11

-----------------------------------------------------------------------------
(* What a worker has read is still so. *)

\* Where the request for a step has found its row.
AtStep == {"doneFirst", "doneWrite", "doneCount", "doneFinal", "doneCommit"}

AtAbort == {"abortInsert", "abortScan", "abortClear", "abortExec"}

AtReset == {"resetScan", "resetClear", "resetExec"}

AtCreate == {"createSnap", "createInsert"}

AtCheck == {"checkInsert", "checkSnap", "checkCommit"}

\* Where the resync has found an execution, and none of its steps started.
AtResync == {"resyncProbe", "resyncScan", "resyncDelete", "resyncRead",
             "resyncInsert"}

\* The row a request is about is as it was read.
ReadRow(label, l) ==
    /\ label = "doneStep" => l.row = exec[l.ex]
    /\ label = "patchSave" =>
           /\ Live(l.ex)
           /\ \E st \in Statuses : l.row = [exec[l.ex] EXCEPT !.status = st]
    /\ label \in {"doneStep"} \union AtStep \union AtAbort \union AtReset
           => Live(l.ex)
    /\ label \in AtResync => Active(l.ex)
    /\ label \in AtCreate => /\ \E st \in Statuses : exec[l.ex] = NewRow(st)
                             /\ steps[l.ex] = {} /\ aborts[l.ex] = {}
    /\ label \in AtCheck => \A e \in Exec : ~Active(e)

\* So are its steps ...
ReadSteps(label, l) ==
    /\ label \in AtStep =>
           \E s \in steps[l.ex] :
               /\ Key(s) = l.step /\ ~s.done
               /\ l.first = (s.timed /\ ~exec[l.ex].started)
    /\ label = "doneCommit" /\ ~l.last =>
           \E s \in steps[l.ex] : Key(s) # l.step /\ ~s.done
    /\ label \in Bulk => l.todo = KeysOf(steps[l.ex])
    /\ label \in AtResync \ {"resyncProbe"} => \A s \in steps[l.ex] : ~s.started

\* ... and what was counted and copied.
ReadOthers(label, l) ==
    /\ label \in AtAbort =>
           /\ Cardinality(aborts[l.ex]) < MaxAborts
           /\ l.attempt = Cardinality(aborts[l.ex]) + 1
           /\ l.completed = Cardinality({s \in steps[l.ex] : s.done})
           /\ l.total = Cardinality(steps[l.ex])
    /\ label \in {"createInsert", "checkCommit", "resyncInsert"} => l.plan = plan

\* A row nobody inserted has nothing.
Unwritten ==
    \A e \in Exec : exec[e].status = "none" =>
        exec[e] = Unborn /\ steps[e] = {} /\ aborts[e] = {}

\* The plan shown is the plan, or what one edit in progress made it from.
ShownPlan ==
    /\ (\A w \in Worker : pc[w] \notin Resyncing) => shown = plan
    /\ (\E w \in Worker : pc[w] \in Resyncing) => plan \in Edits(shown)

Remembers ==
    \A w \in Worker : /\ ReadRow(pc[w], at[w])
                      /\ ReadSteps(pc[w], at[w])
                      /\ ReadOthers(pc[w], at[w])

RInv == Unwritten /\ ShownPlan /\ Remembers

-----------------------------------------------------------------------------
(* It stays so: one worker's steps. *)

LEMMA OneWorker ==
    ASSUME NEW w \in Worker
    PROVE  /\ \A v \in Worker : v = w
           /\ Worker \ {w} = {}
  BY SingleAssumption

\* What the worker is about to remember is what it has to.
Recalls(w) ==
    /\ ReadRow(pc[w], at[w])
    /\ ReadSteps(pc[w], at[w])
    /\ ReadOthers(pc[w], at[w])

LEMMA StepTaken ==
    ASSUME IInv, SInv, NEW w \in Worker, NEW label, NEW l, GotoWith(w, label, l)
    PROVE  /\ pc'[w] = label /\ at'[w] = l
           /\ Recalls(w)' => Remembers'
  <1>1. pc \in [Worker -> Label] /\ at \in [Worker -> Request]
    BY DEF IInv, Shape, SInv
  <1>2. pc'[w] = label /\ at'[w] = l
    BY <1>1 DEF GotoWith
  <1>3. Recalls(w)' => Remembers'
    BY OneWorker DEF Recalls, Remembers
  <1> QED BY <1>2, <1>3

LEMMA GotoTaken ==
    ASSUME IInv, SInv, NEW w \in Worker, NEW label, Goto(w, label)
    PROVE  /\ pc'[w] = label /\ at'[w] = at[w]
           /\ Recalls(w)' => Remembers'
  <1>1. pc \in [Worker -> Label]
    BY DEF IInv, Shape
  <1>2. pc'[w] = label /\ at'[w] = at[w]
    BY <1>1 DEF Goto
  <1>3. Recalls(w)' => Remembers'
    BY OneWorker DEF Recalls, Remembers
  <1> QED BY <1>2, <1>3

\* A worker that returns has nothing to remember.
LEMMA ReturnRemembers ==
    ASSUME IInv, SInv, NEW w \in Worker, Return(w)
    PROVE  Remembers'
  <1>1. pc'[w] = "idle" /\ (Recalls(w)' => Remembers')
    BY StepTaken DEF Return
  <1>2. Recalls(w)'
    BY <1>1 DEF Recalls, ReadRow, ReadSteps, ReadOthers, AtStep, AtAbort,
         AtReset, AtCreate, AtCheck, AtResync, Bulk
  <1> QED BY <1>1, <1>2

LEMMA DoneRemembers ==
    ASSUME IInv, SInv, RInv, NEW w \in Worker,
           \/ \E e \in Exec : DoneRead(w, e)
           \/ DoneStep(w) \/ DoneFirst(w) \/ DoneWrite(w) \/ DoneCount(w)
           \/ DoneFinal(w)
    PROVE  Remembers'
  <1> USE DEF ReadRow, ReadSteps, ReadOthers, AtStep, AtAbort, AtReset,
          AtCreate, AtCheck, AtResync, Bulk
  <1>1. at[w] \in Request /\ Recalls(w)
    BY DEF SInv, RInv, Remembers, Recalls
  <1>2. CASE \E e \in Exec : DoneRead(w, e)
    <2>1. PICK e \in Exec : DoneRead(w, e)
      BY <1>2
    <2> DEFINE l == [NoLocals EXCEPT !.ex = e, !.row = exec[e]]
    <2>2. GotoWith(w, "doneStep", l) /\ UNCHANGED tables /\ Live(e)
      BY <2>1 DEF DoneRead
    <2>3. l.ex = e /\ l.row = exec[e]
      BY DEF NoLocals
    <2> HIDE DEF l
    <2>4. pc'[w] = "doneStep" /\ at'[w] = l /\ (Recalls(w)' => Remembers')
      BY <2>2, StepTaken
    <2>5. Recalls(w)'
      BY <2>2, <2>3, <2>4 DEF Recalls, tables, Live
    <2> QED BY <2>4, <2>5
  <1>3. CASE DoneStep(w)
    <2>1. CASE Return(w)
      BY <2>1, ReturnRemembers
    <2>2. ASSUME NEW s \in steps[at[w].ex], ~s.done,
                 NEW first, first = (s.timed /\ ~at[w].row.started),
                 GotoWith(w, IF first THEN "doneFirst" ELSE "doneWrite",
                          [at[w] EXCEPT !.step = Key(s), !.first = first,
                                        !.row = Unborn])
          PROVE  Remembers'
      <3> DEFINE l == [at[w] EXCEPT !.step = Key(s), !.first = first,
                                    !.row = Unborn]
                 label == IF first THEN "doneFirst" ELSE "doneWrite"
      <3>1. l.ex = at[w].ex /\ l.step = Key(s) /\ l.first = first
        BY <1>1 DEF Request
      <3>2. /\ UNCHANGED tables /\ pc[w] = "doneStep"
            /\ Live(at[w].ex) /\ at[w].row = exec[at[w].ex]
        BY <1>1, <1>3 DEF DoneStep, Recalls
      <3>3. label \in {"doneFirst", "doneWrite"}
        OBVIOUS
      <3> HIDE DEF l, label
      <3>4. pc'[w] = label /\ at'[w] = l /\ (Recalls(w)' => Remembers')
        BY <2>2, StepTaken DEF l, label
      <3>5. \E r \in steps[l.ex] : /\ Key(r) = l.step /\ ~r.done
                                   /\ l.first = (r.timed /\ ~exec[l.ex].started)
        BY <2>2, <3>1, <3>2
      <3>6. Recalls(w)'
        BY <3>1, <3>2, <3>3, <3>4, <3>5 DEF Recalls, tables, Live, Key
      <3> QED BY <3>4, <3>6
    <2> QED BY <1>3, <2>1, <2>2 DEF DoneStep
  <1>4. CASE DoneFirst(w) \/ DoneWrite(w) \/ DoneCount(w)
    <2>1. CASE Return(w)
      BY <2>1, ReturnRemembers
    <2>2. CASE ~Return(w)
      <3>1. /\ UNCHANGED tables /\ pc[w] \in AtStep \ {"doneCommit"}
            /\ \E label \in {"doneWrite", "doneCount", "doneFinal", "doneCommit"} :
                  /\ Goto(w, label)
                  /\ label = "doneCommit" => \E s \in steps[at[w].ex] :
                                                 Key(s) # at[w].step /\ ~s.done
        BY <1>4, <2>2 DEF DoneFirst, DoneWrite, DoneCount
      <3>2. PICK label \in {"doneWrite", "doneCount", "doneFinal", "doneCommit"} :
                  /\ Goto(w, label)
                  /\ label = "doneCommit" => \E s \in steps[at[w].ex] :
                                                 Key(s) # at[w].step /\ ~s.done
        BY <3>1
      <3>3. pc'[w] = label /\ at'[w] = at[w] /\ (Recalls(w)' => Remembers')
        BY <3>2, GotoTaken
      <3>4. Recalls(w)'
        BY <1>1, <3>1, <3>2, <3>3 DEF Recalls, tables, Live, Key
      <3> QED BY <3>3, <3>4
    <2> QED BY <2>1, <2>2
  <1>5. CASE DoneFinal(w)
    <2> DEFINE l == [at[w] EXCEPT !.last = TRUE]
    <2>1. /\ GotoWith(w, "doneCommit", l) /\ UNCHANGED tables
          /\ pc[w] = "doneFinal"
      BY <1>5 DEF DoneFinal
    <2>2. /\ l.ex = at[w].ex /\ l.step = at[w].step /\ l.first = at[w].first
          /\ l.last
      BY <1>1 DEF Request
    <2> HIDE DEF l
    <2>3. pc'[w] = "doneCommit" /\ at'[w] = l /\ (Recalls(w)' => Remembers')
      BY <2>1, StepTaken
    <2>4. Recalls(w)'
      BY <1>1, <2>1, <2>2, <2>3 DEF Recalls, tables, Live, Key
    <2> QED BY <2>3, <2>4
  <1> QED BY <1>2, <1>3, <1>4, <1>5

LEMMA ClearRemembers ==
    ASSUME IInv, SInv, RInv, NEW w \in Worker,
           \/ \E e \in Exec : AbortRead(w, e) \/ ResetRead(w, e)
           \/ AbortInsert(w) \/ ClearScan(w) \/ ClearLock(w)
    PROVE  Remembers'
  <1> USE DEF ReadRow, ReadSteps, ReadOthers, AtStep, AtAbort, AtReset,
          AtCreate, AtCheck, AtResync, Bulk
  <1>1. at[w] \in Request /\ Recalls(w)
    BY DEF SInv, RInv, Remembers, Recalls
  <1>2. ASSUME NEW e \in Exec, AbortRead(w, e) PROVE Remembers'
    <2> DEFINE l == [NoLocals EXCEPT
           !.ex = e,
           !.attempt = Cardinality(aborts[e]) + 1,
           !.completed = Cardinality({s \in steps[e] : s.done}),
           !.total = Cardinality(steps[e])]
    <2>1. /\ GotoWith(w, "abortInsert", l) /\ UNCHANGED tables /\ Live(e)
          /\ Cardinality(aborts[e]) < MaxAborts
      BY <1>2 DEF AbortRead
    <2>2. /\ l.ex = e
          /\ l.attempt = Cardinality(aborts[e]) + 1
          /\ l.completed = Cardinality({s \in steps[e] : s.done})
          /\ l.total = Cardinality(steps[e])
      BY DEF NoLocals
    <2> HIDE DEF l
    <2>3. pc'[w] = "abortInsert" /\ at'[w] = l /\ (Recalls(w)' => Remembers')
      BY <2>1, StepTaken
    <2>4. Recalls(w)'
      BY <2>1, <2>2, <2>3 DEF Recalls, tables, Live
    <2> QED BY <2>3, <2>4
  <1>3. ASSUME NEW e \in Exec, ResetRead(w, e) PROVE Remembers'
    <2> DEFINE l == [NoLocals EXCEPT !.ex = e]
    <2>1. GotoWith(w, "resetScan", l) /\ UNCHANGED tables /\ Live(e)
      BY <1>3 DEF ResetRead
    <2>2. l.ex = e
      BY DEF NoLocals
    <2> HIDE DEF l
    <2>3. pc'[w] = "resetScan" /\ at'[w] = l /\ (Recalls(w)' => Remembers')
      BY <2>1, StepTaken
    <2>4. Recalls(w)'
      BY <2>1, <2>2, <2>3 DEF Recalls, tables, Live
    <2> QED BY <2>3, <2>4
  <1>4. CASE AbortInsert(w)
    <2>1. CASE Return(w)
      BY <2>1, ReturnRemembers
    <2>2. CASE Goto(w, "abortScan")
      <3>1. UNCHANGED tables /\ pc[w] = "abortInsert"
        BY <1>4 DEF AbortInsert
      <3>2. pc'[w] = "abortScan" /\ at'[w] = at[w] /\ (Recalls(w)' => Remembers')
        BY <2>2, GotoTaken
      <3>3. Recalls(w)'
        BY <1>1, <3>1, <3>2 DEF Recalls, tables, Live
      <3> QED BY <3>2, <3>3
    <2> QED BY <1>4, <2>1, <2>2 DEF AbortInsert
  <1>5. CASE ClearScan(w) \/ ClearLock(w)
    <2>1. PICK label \in {"abortClear", "resetClear", "abortExec", "resetExec"} :
              /\ GotoWith(w, label, [at[w] EXCEPT !.todo = KeysOf(steps[at[w].ex])])
              /\ label \in {"abortClear", "abortExec"} => pc[w] \in AtAbort
              /\ label \in {"resetClear", "resetExec"} => pc[w] \in AtReset
      <3>1. CASE ClearScan(w)
        BY <3>1 DEF ClearScan, KeysOf, Keys
      <3>2. CASE ClearLock(w)
        <4>1. at[w].todo \intersect Keys(at[w].ex) = KeysOf(steps[at[w].ex])
          BY <1>1, <3>2 DEF ClearLock, Recalls, KeysOf, Keys
        <4> QED BY <3>2, <4>1 DEF ClearLock
      <3> QED BY <1>5, <3>1, <3>2
    <2> DEFINE l == [at[w] EXCEPT !.todo = KeysOf(steps[at[w].ex])]
    <2>2. /\ l.ex = at[w].ex /\ l.attempt = at[w].attempt
          /\ l.completed = at[w].completed /\ l.total = at[w].total
          /\ l.todo = KeysOf(steps[at[w].ex])
      BY <1>1 DEF Request
    <2>3. UNCHANGED tables
      BY <1>5 DEF ClearScan, ClearLock
    <2>5. GotoWith(w, label, l)
      BY <2>1
    <2> HIDE DEF l
    <2>4. pc'[w] = label /\ at'[w] = l /\ (Recalls(w)' => Remembers')
      BY <2>5, StepTaken
    <2>6. Recalls(w)'
      BY <1>1, <2>1, <2>2, <2>3, <2>4 DEF Recalls, tables, Live, KeysOf
    <2> QED BY <2>4, <2>6
  <1> QED BY <1>2, <1>3, <1>4, <1>5

\* Reading the execution a PATCH is for, and creating one.
LEMMA CreateRemembers ==
    ASSUME IInv, SInv, RInv, NEW w \in Worker,
           \/ \E e \in Exec, st \in Statuses : PatchRead(w, e, st) \/ Create(w, e, st)
           \/ CreateSnap(w)
    PROVE  Remembers'
  <1> USE DEF ReadRow, ReadSteps, ReadOthers, AtStep, AtAbort, AtReset,
          AtCreate, AtCheck, AtResync, Bulk
  <1>1. at[w] \in Request /\ Recalls(w) /\ Unwritten
    BY DEF SInv, RInv, Remembers, Recalls
  <1>2. ASSUME NEW e \in Exec, NEW st \in Statuses, PatchRead(w, e, st)
        PROVE  Remembers'
    <2> DEFINE l == [NoLocals EXCEPT
                        !.ex = e, !.row = [exec[e] EXCEPT !.status = st]]
    <2>1. GotoWith(w, "patchSave", l) /\ UNCHANGED tables /\ Live(e)
      BY <1>2 DEF PatchRead
    <2>2. l.ex = e /\ l.row = [exec[e] EXCEPT !.status = st]
      BY DEF NoLocals
    <2> HIDE DEF l
    <2>3. pc'[w] = "patchSave" /\ at'[w] = l /\ (Recalls(w)' => Remembers')
      BY <2>1, StepTaken
    <2>4. Recalls(w)'
      BY <2>1, <2>2, <2>3 DEF Recalls, tables, Live
    <2> QED BY <2>3, <2>4
  <1>3. ASSUME NEW e \in Exec, NEW st \in Statuses, Create(w, e, st)
        PROVE  Remembers'
    <2> DEFINE l == [NoLocals EXCEPT !.ex = e]
    <2>1. /\ GotoWith(w, "createSnap", l) /\ exec[e] = Unborn
          /\ exec' = [exec EXCEPT ![e] = NewRow(st)]
          /\ UNCHANGED <<steps, aborts>>
      BY <1>3 DEF Create, Unused
    <2>2. l.ex = e
      BY DEF NoLocals
    <2> HIDE DEF l
    <2>3. pc'[w] = "createSnap" /\ at'[w] = l /\ (Recalls(w)' => Remembers')
      BY <2>1, StepTaken
    <2>4. exec'[e] = NewRow(st)
      BY <2>1 DEF IInv, Shape
    <2>5. steps'[e] = {} /\ aborts'[e] = {}
      BY <1>1, <2>1 DEF Unwritten, Unborn
    <2>6. Recalls(w)'
      BY <2>2, <2>3, <2>4, <2>5 DEF Recalls, NewRow
    <2> QED BY <2>3, <2>6
  <1>4. CASE CreateSnap(w)
    <2> DEFINE l == [at[w] EXCEPT !.plan = plan]
    <2>1. /\ GotoWith(w, "createInsert", l) /\ UNCHANGED tables
          /\ pc[w] = "createSnap"
      BY <1>4 DEF CreateSnap
    <2>2. l.ex = at[w].ex /\ l.plan = plan
      BY <1>1 DEF Request
    <2> HIDE DEF l
    <2>3. pc'[w] = "createInsert" /\ at'[w] = l /\ (Recalls(w)' => Remembers')
      BY <2>1, StepTaken
    <2>4. Recalls(w)'
      BY <1>1, <2>1, <2>2, <2>3 DEF Recalls, tables, NewRow
    <2> QED BY <2>3, <2>4
  <1> QED BY <1>2, <1>3, <1>4

LEMMA CheckRemembers ==
    ASSUME IInv, SInv, RInv, NEW w \in Worker,
           CheckRead(w) \/ CheckInsert(w) \/ CheckSnap(w)
    PROVE  Remembers'
  <1> USE DEF ReadRow, ReadSteps, ReadOthers, AtStep, AtAbort, AtReset,
          AtCreate, AtCheck, AtResync, Bulk
  <1>1. at[w] \in Request /\ Recalls(w)
    BY DEF SInv, RInv, Remembers, Recalls
  <1>2. CASE CheckRead(w)
    <2>1. /\ Goto(w, "checkInsert") /\ UNCHANGED tables
          /\ stale /\ \A e \in Exec : ~Active(e)
      BY <1>2 DEF CheckRead
    <2>2. pc'[w] = "checkInsert" /\ at'[w] = at[w] /\ (Recalls(w)' => Remembers')
      BY <2>1, GotoTaken
    <2>3. Recalls(w)'
      BY <2>1, <2>2 DEF Recalls, tables, Active, Live
    <2> QED BY <2>2, <2>3
  <1>3. CASE CheckInsert(w)
    <2>1. CASE Return(w)
      BY <2>1, ReturnRemembers
    <2>2. ASSUME NEW e \in Unused,
                 GotoWith(w, "checkSnap", [NoLocals EXCEPT !.ex = e])
          PROVE  Remembers'
      <3>1. UNCHANGED tables /\ pc[w] = "checkInsert"
        BY <1>3 DEF CheckInsert
      <3>2. pc'[w] = "checkSnap" /\ (Recalls(w)' => Remembers')
        BY <2>2, StepTaken
      <3>3. Recalls(w)'
        BY <1>1, <3>1, <3>2 DEF Recalls, tables, Active, Live
      <3> QED BY <3>2, <3>3
    <2> QED BY <1>3, <2>1, <2>2 DEF CheckInsert
  <1>4. CASE CheckSnap(w)
    <2> DEFINE l == [at[w] EXCEPT !.plan = plan]
    <2>1. /\ GotoWith(w, "checkCommit", l) /\ UNCHANGED tables
          /\ pc[w] = "checkSnap"
      BY <1>4 DEF CheckSnap
    <2>2. l.plan = plan
      BY <1>1 DEF Request
    <2> HIDE DEF l
    <2>3. pc'[w] = "checkCommit" /\ at'[w] = l /\ (Recalls(w)' => Remembers')
      BY <2>1, StepTaken
    <2>4. Recalls(w)'
      BY <1>1, <2>1, <2>2, <2>3 DEF Recalls, tables, Active, Live
    <2> QED BY <2>3, <2>4
  <1> QED BY <1>2, <1>3, <1>4

LEMMA ResyncRemembers ==
    ASSUME IInv, SInv, RInv, NEW w \in Worker,
           \/ Edit(w) \/ ResyncList(w) \/ ResyncProbe(w) \/ ResyncScan(w)
           \/ ResyncDelete(w) \/ ResyncRead(w)
    PROVE  Remembers'
  <1> USE DEF ReadRow, ReadSteps, ReadOthers, AtStep, AtAbort, AtReset,
          AtCreate, AtCheck, AtResync, Bulk
  <1>1. at[w] \in Request /\ Recalls(w)
    BY DEF SInv, RInv, Remembers, Recalls
  <1>2. CASE Edit(w)
    <2>1. Goto(w, "resyncList")
      BY <1>2 DEF Edit
    <2>2. pc'[w] = "resyncList" /\ (Recalls(w)' => Remembers')
      BY <2>1, GotoTaken
    <2>3. Recalls(w)'
      BY <2>2 DEF Recalls
    <2> QED BY <2>2, <2>3
  <1>3. CASE ResyncList(w)
    <2>1. CASE Return(w)
      BY <2>1, ReturnRemembers
    <2>2. ASSUME NEW e \in Exec, Active(e),
                 GotoWith(w, "resyncProbe", [at[w] EXCEPT !.ex = e])
          PROVE  Remembers'
      <3> DEFINE l == [at[w] EXCEPT !.ex = e]
      <3>1. UNCHANGED tables
        BY <1>3 DEF ResyncList
      <3>2. l.ex = e
        BY <1>1 DEF Request
      <3>3. GotoWith(w, "resyncProbe", l)
        BY <2>2
      <3> HIDE DEF l
      <3>4. pc'[w] = "resyncProbe" /\ at'[w] = l /\ (Recalls(w)' => Remembers')
        BY <3>3, StepTaken
      <3>5. Recalls(w)'
        BY <2>2, <3>1, <3>2, <3>4 DEF Recalls, tables, Active, Live
      <3> QED BY <3>4, <3>5
    <2> QED BY <1>3, <2>1, <2>2 DEF ResyncList
  <1>4. CASE ResyncProbe(w)
    <2>1. CASE Return(w)
      BY <2>1, ReturnRemembers
    <2>2. CASE ~Return(w)
      <3>1. /\ UNCHANGED tables /\ pc[w] = "resyncProbe"
            /\ Goto(w, "resyncScan") /\ \A s \in steps[at[w].ex] : ~s.started
        BY <1>4, <2>2 DEF ResyncProbe
      <3>2. pc'[w] = "resyncScan" /\ at'[w] = at[w] /\ (Recalls(w)' => Remembers')
        BY <3>1, GotoTaken
      <3>3. Recalls(w)'
        BY <1>1, <3>1, <3>2 DEF Recalls, tables, Active, Live
      <3> QED BY <3>2, <3>3
    <2> QED BY <2>1, <2>2
  <1>5. CASE ResyncScan(w) \/ ResyncDelete(w)
    <2>1. PICK label \in {"resyncDelete", "resyncRead"} :
              GotoWith(w, label, [at[w] EXCEPT !.todo = KeysOf(steps[at[w].ex])])
      <3>1. CASE ResyncScan(w)
        BY <3>1 DEF ResyncScan, KeysOf, Keys
      <3>2. CASE ResyncDelete(w)
        <4>1. at[w].todo \intersect Keys(at[w].ex) = KeysOf(steps[at[w].ex])
          BY <1>1, <3>2 DEF ResyncDelete, Recalls, KeysOf, Keys
        <4> QED BY <3>2, <4>1 DEF ResyncDelete
      <3> QED BY <1>5, <3>1, <3>2
    <2> DEFINE l == [at[w] EXCEPT !.todo = KeysOf(steps[at[w].ex])]
    <2>2. l.ex = at[w].ex /\ l.todo = KeysOf(steps[at[w].ex])
      BY <1>1 DEF Request
    <2>3. UNCHANGED tables /\ pc[w] \in {"resyncScan", "resyncDelete"}
      BY <1>5 DEF ResyncScan, ResyncDelete
    <2>4. GotoWith(w, label, l)
      BY <2>1
    <2> HIDE DEF l
    <2>5. pc'[w] = label /\ at'[w] = l /\ (Recalls(w)' => Remembers')
      BY <2>4, StepTaken
    <2>6. Recalls(w)'
      BY <1>1, <2>2, <2>3, <2>5 DEF Recalls, tables, Active, Live, KeysOf
    <2> QED BY <2>5, <2>6
  <1>6. CASE ResyncRead(w)
    <2> DEFINE l == [at[w] EXCEPT !.plan = plan]
    <2>1. /\ GotoWith(w, "resyncInsert", l) /\ UNCHANGED tables
          /\ pc[w] = "resyncRead"
      BY <1>6 DEF ResyncRead
    <2>2. l.ex = at[w].ex /\ l.todo = at[w].todo /\ l.plan = plan
      BY <1>1 DEF Request
    <2> HIDE DEF l
    <2>3. pc'[w] = "resyncInsert" /\ at'[w] = l /\ (Recalls(w)' => Remembers')
      BY <2>1, StepTaken
    <2>4. Recalls(w)'
      BY <1>1, <2>1, <2>2, <2>3 DEF Recalls, tables, Active, Live, KeysOf
    <2> QED BY <2>3, <2>4
  <1> QED BY <1>2, <1>3, <1>4, <1>5, <1>6

\* The rows are written by these steps alone.
Writes(w) ==
    \/ DoneCommit(w) \/ AbortCommit(w) \/ ResetCommit(w) \/ PatchSave(w)
    \/ \E e \in Exec : Delete(w, e)
    \/ \E e \in Exec, st \in Statuses : Create(w, e, st)
    \/ CreateInsert(w) \/ CheckCommit(w) \/ ResyncInsert(w)

LEMMA UnwrittenKept ==
    ASSUME IInv, SInv, RInv, NEW w \in Worker, Writes(w)
    PROVE  Unwritten'
  <1> USE DEF Unwritten
  <1>1. /\ at[w] \in Request /\ Recalls(w) /\ Placed(pc[w], at[w])
        /\ pc[w] \in Keyed => exec[at[w].ex] = Unborn
        /\ exec \in [Exec -> ExecRow] /\ steps \in [Exec -> SUBSET StepRow]
        /\ Unwritten
    BY DEF SInv, IInv, Shape, RInv, Remembers, Recalls
  <1>2. CASE DoneCommit(w)
    <2>1. Live(at[w].ex) /\ at[w].ex \in Exec
      BY <1>1, <1>2 DEF DoneCommit, Recalls, ReadRow, AtStep, Placed
    <2> QED BY <1>1, <1>2, <2>1 DEF DoneCommit, Live, ExecRow
  <1>3. CASE AbortCommit(w)
    <2>1. Live(at[w].ex) /\ at[w].ex \in Exec
      BY <1>1, <1>3 DEF AbortCommit, Recalls, ReadRow, AtAbort, Placed
    <2> QED BY <1>1, <1>3, <2>1 DEF AbortCommit, Live, ExecRow, IInv, Shape
  <1>4. CASE ResetCommit(w)
    <2>1. Live(at[w].ex) /\ at[w].ex \in Exec
      BY <1>1, <1>4 DEF ResetCommit, Recalls, ReadRow, AtReset, Placed
    <2> QED BY <1>1, <1>4, <2>1 DEF ResetCommit, Live, ExecRow
  <1>5. CASE PatchSave(w)
    <2>1. /\ at[w].ex \in Exec /\ Live(at[w].ex)
          /\ at[w].row \in ExecRow /\ at[w].row.status # "none"
      BY <1>1, <1>5 DEF PatchSave, Recalls, ReadRow, Placed, ExecRow, Statuses
    <2>2. exec' = exec \/ exec' = [exec EXCEPT ![at[w].ex] = at[w].row]
      BY <1>5 DEF PatchSave
    <2> QED BY <1>1, <1>5, <2>1, <2>2 DEF PatchSave
  <1>6. ASSUME NEW e \in Exec, Delete(w, e) PROVE Unwritten'
    BY <1>1, <1>6 DEF Delete, Live, ExecRow
  <1>7. ASSUME NEW e \in Exec, NEW st \in Statuses, Create(w, e, st)
        PROVE  Unwritten'
    BY <1>1, <1>7 DEF Create, NewRow, Statuses
  <1>8. CASE CreateInsert(w)
    <2>1. exec[at[w].ex].status # "none" /\ at[w].ex \in Exec
      BY <1>1, <1>8 DEF CreateInsert, Recalls, ReadRow, AtCreate, Placed, NewRow,
         Statuses
    <2> QED BY <1>1, <1>8, <2>1 DEF CreateInsert
  <1>9. CASE CheckCommit(w)
    <2>1. at[w].ex \in Exec
      BY <1>1, <1>9 DEF CheckCommit, Placed
    <2> QED BY <1>1, <1>9, <2>1 DEF CheckCommit, NewRow
  <1>10. CASE ResyncInsert(w)
    <2>1. Active(at[w].ex) /\ at[w].ex \in Exec
      BY <1>1, <1>10 DEF ResyncInsert, Recalls, ReadRow, AtResync, Placed
    <2> QED BY <1>1, <1>10, <2>1 DEF ResyncInsert, Active, Live
  <1> QED BY <1>2, <1>3, <1>4, <1>5, <1>6, <1>7, <1>8, <1>9, <1>10 DEF Writes

\* Every other step of a worker leaves the tables as they are, or is an edit.
LEMMA ReadsWriteNothing ==
    ASSUME NEW w \in Worker, Begin(w) \/ Continue(w) \/ Kill(w)
    PROVE  \/ Writes(w)
           \/ Edit(w)
           \/ UNCHANGED tables
  <1>1. CASE Begin(w)
    BY <1>1 DEF Begin, Writes, DoneRead, AbortRead, ResetRead, PatchRead, CheckRead
  <1>2. CASE Kill(w)
    BY <1>2 DEF Kill
  <1>3. CASE Continue(w)
    BY <1>3 DEF Continue, Writes, DoneStep, DoneFirst, DoneWrite, DoneCount,
         DoneFinal, AbortInsert, ClearScan, ClearLock, CreateSnap, CheckInsert,
         CheckSnap, ResyncList, ResyncProbe, ResyncScan, ResyncDelete,
         ResyncRead, Victim
  <1> QED BY <1>1, <1>2, <1>3

\* A worker that resyncs began with an edit, and goes on or returns.
LEMMA ResyncEntered ==
    ASSUME IInv, NEW w \in Worker, Begin(w) \/ Continue(w) \/ Kill(w), ~Edit(w)
    PROVE  pc'[w] \in Resyncing => pc[w] \in Resyncing
  <1>1. pc \in [Worker -> Label]
    BY DEF IInv, Shape
  <1>2. ASSUME NEW label, pc' = [pc EXCEPT ![w] = label]
        PROVE  pc'[w] = label
    BY <1>1, <1>2
  <1>3. pc[w] \notin Resyncing => pc' = pc \/ \E label \in Label \ Resyncing :
                                                 pc' = [pc EXCEPT ![w] = label]
    <2> USE DEF Goto, GotoWith, Return, Resyncing, Label
    <2>1. CASE Begin(w)
      BY <2>1 DEF Begin, DoneRead, AbortRead, ResetRead, PatchRead, CheckRead,
           Delete, Create
    <2>2. CASE Kill(w)
      BY <2>2 DEF Kill
    <2>3. CASE Continue(w)
      <3>1. CASE \/ DoneStep(w) \/ DoneFirst(w) \/ DoneWrite(w) \/ DoneCount(w)
                 \/ DoneFinal(w) \/ DoneCommit(w) \/ Victim(w)
        BY <3>1 DEF DoneStep, DoneFirst, DoneWrite, DoneCount, DoneFinal,
             DoneCommit, Victim
      <3>2. CASE \/ AbortInsert(w) \/ ClearScan(w) \/ ClearLock(w)
                 \/ AbortCommit(w) \/ ResetCommit(w) \/ PatchSave(w)
        BY <3>2 DEF AbortInsert, ClearScan, ClearLock, AbortCommit, ResetCommit,
             PatchSave
      <3>3. CASE \/ CreateSnap(w) \/ CreateInsert(w)
                 \/ CheckInsert(w) \/ CheckSnap(w) \/ CheckCommit(w)
        BY <3>3 DEF CreateSnap, CreateInsert, CheckInsert, CheckSnap, CheckCommit
      <3>4. CASE \/ ResyncList(w) \/ ResyncProbe(w) \/ ResyncScan(w)
                 \/ ResyncDelete(w) \/ ResyncRead(w) \/ ResyncInsert(w)
        BY <3>4 DEF ResyncList, ResyncProbe, ResyncScan, ResyncDelete,
             ResyncRead, ResyncInsert
      <3> QED BY <2>3, <3>1, <3>2, <3>3, <3>4 DEF Continue
    <2> QED BY <2>1, <2>2, <2>3
  <1> QED BY <1>2, <1>3

\* What one edit can leave is a matter of the plan alone.
LEMMA EditsRigid == \A p : Edits(p)' = Edits(p)
  BY DEF Edits, Additions, With, Without

\* And the same in both modules.
LEMMA SameEdits == \A p : Atomic!Edits(p) = Edits(p)
  BY DEF Edits, Additions, With, Without, Atomic!Edits, Atomic!Additions,
     Atomic!With, Atomic!Without

LEMMA ShownPlanKept ==
    ASSUME IInv, SInv, RInv, HistoryNext
    PROVE  ShownPlan'
  <1>1. pc \in [Worker -> Label] /\ ShownPlan
    BY DEF IInv, Shape, RInv
  <1>2. shown' = IF \E w \in Worker : pc'[w] \in Resyncing THEN shown ELSE plan'
    BY DEF HistoryNext
  <1>3. CASE InventoryChanges
    BY <1>1, <1>2, <1>3 DEF InventoryChanges, ShownPlan
  <1>4. ASSUME NEW w \in Worker, Begin(w) \/ Continue(w) \/ Kill(w)
        PROVE  ShownPlan'
    <2>1. \A v \in Worker : v = w
      BY OneWorker
    <2>2. CASE Edit(w)
      <3>1. pc[w] = "idle" /\ pc'[w] = "resyncList" /\ plan' \in Edits(plan)
        BY <1>1, <2>2 DEF Edit, Receive, Goto
      <3>2. shown = plan /\ shown' = plan
        BY <1>1, <1>2, <2>1, <3>1 DEF ShownPlan, Resyncing
      <3>3. Edits(shown)' = Edits(plan)
        BY <3>2, EditsRigid
      <3> QED BY <2>1, <3>1, <3>3 DEF ShownPlan, Resyncing
    <2>3. CASE ~Edit(w)
      <3>1. pc'[w] \in Resyncing => pc[w] \in Resyncing
        BY <1>4, <2>3, ResyncEntered
      <3>2. plan' = plan
        BY <1>4, <2>3, ReadsWriteNothing DEF tables, Writes, DoneCommit,
           AbortCommit, ResetCommit, PatchSave, Delete, Create, CreateInsert,
           CheckCommit, ResyncInsert
      <3>3. CASE pc'[w] \in Resyncing
        <4>1. plan \in Edits(shown) /\ shown' = shown
          BY <1>1, <1>2, <3>1, <3>3 DEF ShownPlan
        <4>2. (plan \in Edits(shown))'
          BY <3>2, <4>1, EditsRigid
        <4> QED BY <2>1, <3>3, <4>2 DEF ShownPlan
      <3>4. CASE pc'[w] \notin Resyncing
        <4>1. \A v \in Worker : pc'[v] \notin Resyncing
          BY <2>1, <3>4
        <4>2. shown' = plan'
          BY <1>2, <4>1
        <4> QED BY <4>1, <4>2 DEF ShownPlan
      <3> QED BY <3>3, <3>4
    <2> QED BY <2>2, <2>3
  <1> QED BY <1>3, <1>4 DEF HistoryNext, Next

LEMMA RemembersKept ==
    ASSUME IInv, SInv, RInv, Next
    PROVE  Remembers'
  <1>1. CASE InventoryChanges
    BY <1>1 DEF InventoryChanges, RInv, Remembers, ReadRow, ReadSteps, ReadOthers,
         Live, Active
  <1>2. ASSUME NEW w \in Worker, Begin(w) PROVE Remembers'
    <2>1. CASE \E e \in Exec : Delete(w, e)
      <3>1. pc'[w] = "idle" /\ \A v \in Worker : v = w
        BY <2>1, OneWorker DEF Delete, Receive
      <3> QED BY <3>1 DEF Remembers, ReadRow, ReadSteps, ReadOthers, AtStep,
               AtAbort, AtReset, AtCreate, AtCheck, AtResync, Bulk
    <2> QED BY <1>2, <2>1, DoneRemembers, ClearRemembers, CreateRemembers,
             CheckRemembers, ResyncRemembers DEF Begin
  <1>3. ASSUME NEW w \in Worker, Kill(w) PROVE Remembers'
    BY <1>3, ReturnRemembers DEF Kill
  <1>4. ASSUME NEW w \in Worker, Continue(w) PROVE Remembers'
    <2>1. CASE \/ DoneCommit(w) \/ AbortCommit(w) \/ ResetCommit(w)
               \/ PatchSave(w) \/ CreateInsert(w) \/ CheckCommit(w)
               \/ ResyncInsert(w) \/ Victim(w)
      <3>1. Return(w)
        BY <2>1 DEF DoneCommit, AbortCommit, ResetCommit, PatchSave,
             CreateInsert, CheckCommit, ResyncInsert, Victim
      <3> QED BY <3>1, ReturnRemembers
    <2> QED BY <1>4, <2>1, DoneRemembers, ClearRemembers, CreateRemembers,
             CheckRemembers, ResyncRemembers DEF Continue
  <1> QED BY <1>1, <1>2, <1>3, <1>4 DEF Next

LEMMA RNext == IInv /\ SInv /\ RInv /\ [HistoryNext]_<<vars, shown>> => RInv'
  <1> SUFFICES ASSUME IInv, SInv, RInv, [HistoryNext]_<<vars, shown>>
               PROVE  RInv'
    OBVIOUS
  <1>1. CASE HistoryNext
    <2>1. Next
      BY <1>1 DEF HistoryNext
    <2>2. Unwritten'
      <3>1. ASSUME NEW w \in Worker, Begin(w) \/ Continue(w) \/ Kill(w)
            PROVE  Unwritten'
        <4>1. CASE Writes(w)
          BY <4>1, UnwrittenKept
        <4>2. CASE Edit(w) \/ UNCHANGED tables
          BY <4>2 DEF Edit, tables, RInv, Unwritten
        <4> QED BY <3>1, <4>1, <4>2, ReadsWriteNothing
      <3>2. CASE InventoryChanges
        BY <3>2 DEF InventoryChanges, RInv, Unwritten
      <3> QED BY <2>1, <3>1, <3>2 DEF Next
    <2> QED BY <1>1, <2>1, <2>2, ShownPlanKept, RemembersKept DEF RInv
  <1>2. CASE UNCHANGED <<vars, shown>>
    <2>1. Edits(shown)' = Edits(shown)
      BY <1>2, EditsRigid
    <2>2. ShownPlan'
      BY <1>2, <2>1 DEF vars, RInv, ShownPlan
    <2>3. Unwritten'
      BY <1>2 DEF vars, RInv, Unwritten
    <2>4. ASSUME NEW w \in Worker
          PROVE  /\ ReadRow(pc[w], at[w])'
                 /\ ReadSteps(pc[w], at[w])'
                 /\ ReadOthers(pc[w], at[w])'
      <3>1. /\ ReadRow(pc[w], at[w])
            /\ ReadSteps(pc[w], at[w])
            /\ ReadOthers(pc[w], at[w])
        BY DEF RInv, Remembers
      <3>2. ReadRow(pc[w], at[w])'
        BY <1>2, <3>1 DEF vars, ReadRow, Live, Active, NewRow, Statuses
      <3>3. ReadSteps(pc[w], at[w])' /\ ReadOthers(pc[w], at[w])'
        BY <1>2, <3>1 DEF vars, ReadSteps, ReadOthers
      <3> QED BY <3>2, <3>3
    <2> QED BY <2>2, <2>3, <2>4 DEF RInv, Remembers
  <1> QED BY <1>1, <1>2

LEMMA RInit == HistoryInit => RInv
  <1> SUFFICES ASSUME HistoryInit PROVE RInv
    OBVIOUS
  <1>1. /\ exec = [e \in Exec |-> Unborn] /\ steps = [e \in Exec |-> {}]
        /\ aborts = [e \in Exec |-> {}] /\ shown = plan
        /\ pc = [w \in Worker |-> "idle"]
    BY DEF HistoryInit, Init
  <1>2. Unwritten
    BY <1>1 DEF Unwritten
  <1>3. ShownPlan
    BY <1>1 DEF ShownPlan, Resyncing
  <1>4. Remembers
    BY <1>1 DEF Remembers, ReadRow, ReadSteps, ReadOthers, AtStep, AtAbort,
         AtReset, AtCreate, AtCheck, AtResync, Bulk
  <1> QED BY <1>2, <1>3, <1>4 DEF RInv

LEMMA RInvariant == HistorySpec => [](IInv /\ SInv /\ RInv)
  <1>1. HistoryInit => IInv /\ SInv
    BY InitInv, SInit DEF HistoryInit
  <1>2. [HistoryNext]_<<vars, shown>> => [Next]_vars
    BY DEF HistoryNext, vars
  <1>3. IInv /\ SInv /\ [HistoryNext]_<<vars, shown>> => IInv' /\ SInv'
    BY <1>2, NextKeeps, SNext
  <1> QED BY <1>1, <1>3, RInit, RNext, PTL DEF HistorySpec

-----------------------------------------------------------------------------
(* What a step of the worker changes of what is shown. *)

\* Nothing is being created, before and after: the rows are shown as they are.
LEMMA ExecShown ==
    ASSUME IInv, NEW w \in Worker, pc[w] \notin AtCreate
    PROVE  ShownExec = exec
  <1>1. \A v \in Worker : v = w
    BY OneWorker
  <1>2. \A e \in Exec : ~BeingCreated(e)
    BY <1>1 DEF BeingCreated, AtCreate
  <1> QED BY <1>2 DEF ShownExec, IInv, Shape

LEMMA ExecShownNext ==
    ASSUME IInv', NEW w \in Worker, pc'[w] \notin AtCreate
    PROVE  ShownExec' = exec'
  <1>1. \A v \in Worker : v = w
    BY OneWorker
  <1>2. \A e \in Exec : ~BeingCreated(e)'
    BY <1>1 DEF BeingCreated, AtCreate
  <1> QED BY <1>2 DEF ShownExec, IInv, Shape

\* What the resync does not touch is shown at once.
LEMMA PlanShown ==
    ASSUME RInv, HistoryNext, NEW w \in Worker, pc[w] \notin Resyncing
    PROVE  /\ shown = plan
           /\ pc'[w] \notin Resyncing => shown' = plan'
           /\ pc'[w] \in Resyncing => shown' = shown
  <1>1. \A v \in Worker : v = w
    BY OneWorker
  <1> QED BY <1>1 DEF RInv, ShownPlan, HistoryNext

\* What no worker writes, nobody sees change.
LEMMA Stutters ==
    ASSUME UNCHANGED <<exec, steps, aborts, stale, shown>>,
           \A e \in Exec : BeingCreated(e)' <=> BeingCreated(e)
    PROVE  UNCHANGED Atomic!vars
  <1>1. ShownExec' = ShownExec
    BY DEF ShownExec
  <1>2. ShownSteps' = ShownSteps
    BY ShownFacts DEF ShownSteps
  <1>3. ShownAborts' = ShownAborts
    BY DEF ShownAborts
  <1> QED BY <1>1, <1>2, <1>3 DEF Atomic!vars

\* The rows of other executions are shown as they were.
LEMMA StepsWritten ==
    ASSUME NEW e \in Exec, SInv, NEW S, steps' = [steps EXCEPT ![e] = S]
    PROVE  ShownSteps' = [ShownSteps EXCEPT ![e] = RowsOf(S)]
  <1>1. ShownSteps = [f \in Exec |-> RowsOf(steps[f])]
    BY ShownFacts
  <1>2. ShownSteps' = [f \in Exec |-> RowsOf(steps'[f])]
    BY DEF ShownSteps, RowsOf, RowAt, Shows
  <1>3. \A f \in Exec : steps'[f] = IF f = e THEN S ELSE steps[f]
    BY DEF SInv
  <1> QED BY <1>1, <1>2, <1>3

LEMMA StepsKept ==
    ASSUME UNCHANGED steps
    PROVE  ShownSteps' = ShownSteps
  BY DEF ShownSteps

LEMMA AbortsKept ==
    ASSUME UNCHANGED aborts
    PROVE  ShownAborts' = ShownAborts
  BY DEF ShownAborts

\* With nothing being created, the two modules read the same of an execution.
LEMMA SameReads ==
    ASSUME IInv, ShownExec = exec
    PROVE  \A e \in Exec : /\ Atomic!Live(e) <=> Live(e)
                           /\ Atomic!Active(e) <=> Active(e)
  BY DEF Atomic!Live, Atomic!Active, Live, Active

LEMMA SameStatuses == Atomic!Statuses = Statuses
  BY DEF Atomic!Statuses, Statuses

LEMMA SameNewRow == ASSUME NEW st PROVE Atomic!NewRow(st) = NewRow(st)
  BY DEF Atomic!NewRow, NewRow

\* Deleting an execution, and saving the row that was read with a new status.
LEMMA DeleteShows ==
    ASSUME IInv, IInv', SInv, RInv, HistoryNext,
           NEW w \in Worker, NEW e \in Exec, Delete(w, e)
    PROVE  Atomic!Next
  <1>1. pc[w] = "idle" /\ pc'[w] = "idle"
    BY DEF Delete, Receive
  <1>2. ShownExec = exec /\ ShownExec' = exec'
    BY <1>1, ExecShown, ExecShownNext DEF AtCreate
  <1>3. shown' = shown
    BY <1>1, PlanShown DEF Resyncing, Delete
  <1>4. ShownSteps' = ShownSteps /\ ShownAborts' = ShownAborts /\ stale' = stale
    BY StepsKept, AbortsKept DEF Delete
  <1>5. Atomic!Live(e)
    BY <1>2, SameReads DEF Delete
  <1>6. Atomic!Delete(e)
    BY <1>2, <1>3, <1>4, <1>5 DEF Atomic!Delete, Delete
  <1> QED BY <1>6 DEF Atomic!Next

LEMMA PatchSaveShows ==
    ASSUME IInv, IInv', SInv, RInv, HistoryNext, NEW w \in Worker, PatchSave(w)
    PROVE  Atomic!Next \/ UNCHANGED Atomic!vars
  <1> DEFINE e == at[w].ex
  <1>1. pc[w] = "patchSave" /\ pc'[w] = "idle"
    BY DEF PatchSave, Return, GotoWith, IInv, Shape
  <1>2. /\ e \in Exec /\ Live(e) /\ exec \in [Exec -> ExecRow]
        /\ \E st \in Statuses : at[w].row = [exec[e] EXCEPT !.status = st]
    <2>1. Placed(pc[w], at[w]) /\ ReadRow(pc[w], at[w])
      BY DEF SInv, RInv, Remembers
    <2> QED BY <1>1, <2>1 DEF Placed, ReadRow, IInv, Shape
  <1>3. PICK st \in Statuses : at[w].row = [exec[e] EXCEPT !.status = st]
    BY <1>2
  <1>4. UNCHANGED <<plan, steps, aborts, stale>>
    BY DEF PatchSave
  <1>5. shown' = shown
    BY <1>1, <1>4, PlanShown DEF Resyncing
  <1>6. ShownExec = exec /\ ShownExec' = exec'
    BY <1>1, ExecShown, ExecShownNext DEF AtCreate
  <1>7. ShownSteps' = ShownSteps /\ ShownAborts' = ShownAborts
    BY <1>4, StepsKept, AbortsKept
  <1>8. /\ at[w].row.status = st
        /\ at[w].row.deleted = exec[e].deleted /\ ~exec[e].deleted
    BY <1>2, <1>3 DEF ExecRow, Live
  <1>9. CASE st = "active" /\ OthersActive(e) # {}
    <2>1. UNCHANGED exec
      BY <1>8, <1>9 DEF PatchSave
    <2> QED BY <1>4, <1>5, <1>6, <1>7, <2>1 DEF Atomic!vars
  <1>10. CASE ~(st = "active" /\ OthersActive(e) # {})
    <2>1. exec' = [exec EXCEPT ![e] = at[w].row]
      BY <1>8, <1>10 DEF PatchSave
    <2>2. exec' = [exec EXCEPT ![e].status = st]
      BY <1>3, <2>1
    <2>3. st = "active" =>
              Atomic!ActiveFor([f \in Exec |-> "environment"][e]) \subseteq {e}
      <3>1. st = "active" => \A f \in Exec \ {e} : ~Atomic!Active(f)
        BY <1>6, <1>10, SameReads DEF OthersActive
      <3> QED BY <3>1 DEF Atomic!ActiveFor
    <2>4. Atomic!Live(e)
      BY <1>2, <1>6, SameReads
    <2>5. Atomic!Patch(e, st)
      <3> HIDE DEF e
      <3> QED BY <1>4, <1>5, <1>6, <1>7, <2>2, <2>3, <2>4
              DEF Atomic!Patch, Atomic!MayBe
    <2> QED BY <1>2, <2>5, SameStatuses DEF Atomic!Next
  <1> QED BY <1>9, <1>10

\* The row that perform_create commits first is not shown.
LEMMA CreateShows ==
    ASSUME IInv, SInv, RInv, HistoryNext,
           NEW w \in Worker, NEW e \in Exec, NEW st \in Statuses, Create(w, e, st)
    PROVE  UNCHANGED Atomic!vars
  <1>1. pc[w] = "idle" /\ pc'[w] = "createSnap" /\ at'[w].ex = e
    <2>1. at'[w] = [NoLocals EXCEPT !.ex = e]
      BY DEF Create, GotoWith, SInv
    <2> QED BY <2>1 DEF Create, Receive, GotoWith, IInv, Shape, NoLocals
  <1>2. /\ exec[e] = Unborn /\ UNCHANGED <<plan, steps, aborts, stale>>
        /\ exec' = [exec EXCEPT ![e] = NewRow(st)]
    BY DEF Create, Unused
  <1>3. shown' = shown
    BY <1>1, <1>2, PlanShown DEF Resyncing
  <1>4. \A f \in Exec : ~BeingCreated(f) /\ (BeingCreated(f)' <=> f = e)
    BY <1>1, OneWorker DEF BeingCreated
  <1>5. ShownExec' = ShownExec
    BY <1>2, <1>4 DEF ShownExec, IInv, Shape
  <1>6. ShownSteps' = ShownSteps /\ ShownAborts' = ShownAborts
    BY <1>2, StepsKept, AbortsKept
  <1> QED BY <1>2, <1>3, <1>5, <1>6 DEF Atomic!vars

\* What creating an execution needs, and what it looks like before.
LEMMA CreatedFacts ==
    ASSUME IInv, SInv, RInv, NEW w \in Worker, pc[w] \in AtCreate
    PROVE  LET e == at[w].ex
           IN  /\ e \in Exec /\ steps[e] = {} /\ aborts[e] = {}
               /\ ShownExec = [exec EXCEPT ![e] = Unborn]
               /\ ShownExec[e].status = "none"
               /\ \E st \in Statuses : exec[e] = NewRow(st) /\ Atomic!MayBe(st, e)
  <1> DEFINE e == at[w].ex
  <1>1. /\ e \in Exec /\ steps[e] = {} /\ aborts[e] = {}
        /\ \E st \in Statuses : exec[e] = NewRow(st)
    <2>1. Placed(pc[w], at[w]) /\ ReadRow(pc[w], at[w])
      BY DEF SInv, RInv, Remembers
    <2> QED BY <2>1 DEF Placed, ReadRow, AtCreate
  <1>2. PICK st \in Statuses : exec[e] = NewRow(st)
    BY <1>1
  <1>3. \A f \in Exec : BeingCreated(f) <=> f = e
    BY OneWorker DEF BeingCreated, AtCreate
  <1>4. ShownExec = [exec EXCEPT ![e] = Unborn]
    BY <1>1, <1>3 DEF ShownExec, IInv, Shape
  <1>5. \A f \in Exec : ShownExec[f] = IF f = e THEN Unborn ELSE exec[f]
    BY <1>3 DEF ShownExec
  <1>6. ASSUME st = "active", NEW f \in Exec PROVE ~Atomic!Active(f)
    <2>1. CASE f = e
      BY <1>5, <2>1 DEF Atomic!Active, Atomic!Live, Unborn
    <2>2. CASE f # e
      <3>1. Active(e)
        BY <1>2, <1>6 DEF Active, Live, NewRow
      <3>2. ~Active(f)
        BY <1>1, <2>2, <3>1 DEF IInv, OneActive
      <3> QED BY <1>5, <2>2, <3>2 DEF Atomic!Active, Atomic!Live, Active, Live
    <2> QED BY <2>1, <2>2
  <1>7. Atomic!MayBe(st, e)
    BY <1>6 DEF Atomic!MayBe, Atomic!ActiveFor
  <1>8. ShownExec[e].status = "none"
    BY <1>1, <1>5 DEF Unborn
  <1> QED BY <1>1, <1>2, <1>4, <1>7, <1>8

\* The snapshot makes the execution: a whole request to create one.
LEMMA CreateInsertShows ==
    ASSUME IInv, IInv', SInv, RInv, HistoryNext,
           NEW w \in Worker, CreateInsert(w)
    PROVE  Atomic!Next
  <1> DEFINE e == at[w].ex
  <1>1. pc[w] = "createInsert" /\ pc'[w] = "idle"
    BY DEF CreateInsert, Return, GotoWith, IInv, Shape
  <1>2. /\ e \in Exec /\ steps[e] = {}
        /\ ShownExec = [exec EXCEPT ![e] = Unborn]
        /\ ShownExec[e].status = "none"
        /\ \E st \in Statuses : exec[e] = NewRow(st) /\ Atomic!MayBe(st, e)
    BY <1>1, CreatedFacts DEF AtCreate
  <1>10. PICK st \in Statuses : exec[e] = NewRow(st) /\ Atomic!MayBe(st, e)
    BY <1>2
  <1>3. at[w].plan = plan /\ plan \in Plans
    BY <1>1 DEF RInv, Remembers, ReadOthers, SInv, Data
  <1>4. /\ steps' = [steps EXCEPT ![e] = Snapshot(e, plan)]
        /\ UNCHANGED <<plan, exec, aborts, stale>>
    <2>1. Clash(w, e, plan) = {}
      BY <1>2 DEF Clash
    <2>2. steps' = [steps EXCEPT ![e] = @ \union Snapshot(e, plan)]
      BY <1>3, <2>1 DEF CreateInsert
    <2> QED BY <1>2, <2>2 DEF CreateInsert, SInv
  <1>5. shown = plan /\ shown' = shown
    BY <1>1, <1>4, PlanShown DEF Resyncing
  <1>6. ShownExec' = [ShownExec EXCEPT ![e] = Atomic!NewRow(st)]
    <2>1. ShownExec' = exec'
      BY <1>1, ExecShownNext DEF AtCreate
    <2>2. Atomic!NewRow(st) = NewRow(st)
      BY SameNewRow
    <2>3. exec = [[exec EXCEPT ![e] = Unborn] EXCEPT ![e] = NewRow(st)]
      BY <1>2, <1>10 DEF IInv, Shape
    <2> QED BY <1>2, <1>4, <2>1, <2>2, <2>3
  <1>7. ShownSteps' = [ShownSteps EXCEPT ![e] = Atomic!Snapshot(shown)]
    <2>1. RowsOf(Snapshot(e, plan)) = Atomic!Snapshot(plan)
      BY <1>2, <1>3, SnapshotShows
    <2> QED BY <1>2, <1>4, <1>5, <2>1, StepsWritten
  <1>8. ShownAborts' = ShownAborts
    BY <1>4, AbortsKept
  <1>9. Atomic!Create(e, st)
    <2> HIDE DEF e
    <2> QED BY <1>2, <1>4, <1>5, <1>6, <1>7, <1>8, <1>10 DEF Atomic!Create
  <1> QED BY <1>2, <1>9, SameStatuses DEF Atomic!Next

\* Killed before that, the request leaves the row without steps.
LEMMA CreateCutShows ==
    ASSUME IInv, IInv', SInv, RInv, HistoryNext,
           NEW w \in Worker, pc[w] \in AtCreate, Return(w), UNCHANGED tables
    PROVE  Atomic!Next
  <1> DEFINE e == at[w].ex
  <1>1. pc'[w] = "idle"
    BY DEF Return, GotoWith, IInv, Shape
  <1>2. /\ e \in Exec
        /\ ShownExec = [exec EXCEPT ![e] = Unborn]
        /\ ShownExec[e].status = "none"
        /\ \E st \in Statuses : exec[e] = NewRow(st) /\ Atomic!MayBe(st, e)
    BY CreatedFacts
  <1>7. PICK st \in Statuses : exec[e] = NewRow(st) /\ Atomic!MayBe(st, e)
    BY <1>2
  <1>3. shown' = shown
    BY <1>1, PlanShown DEF Resyncing, AtCreate, tables
  <1>4. ShownExec' = [ShownExec EXCEPT ![e] = Atomic!NewRow(st)]
    <2>1. ShownExec' = exec'
      BY <1>1, ExecShownNext DEF AtCreate
    <2>2. Atomic!NewRow(st) = NewRow(st)
      BY SameNewRow
    <2>3. exec = [[exec EXCEPT ![e] = Unborn] EXCEPT ![e] = NewRow(st)]
      BY <1>2, <1>7 DEF IInv, Shape
    <2> QED BY <1>2, <2>1, <2>2, <2>3 DEF tables
  <1>5. ShownSteps' = ShownSteps /\ ShownAborts' = ShownAborts /\ stale' = stale
    BY StepsKept, AbortsKept DEF tables
  <1>6. Atomic!CreateCut(e, st)
    <2> HIDE DEF e
    <2> QED BY <1>2, <1>3, <1>4, <1>5, <1>7 DEF Atomic!CreateCut, tables
  <1> QED BY <1>2, <1>6, SameStatuses DEF Atomic!Next

\* An execution that the check inserts comes with its steps.  The environment
\* may not be behind any more: what is committed is an execution created with
\* none active, as a client may create it.
LEMMA CheckCommitShows ==
    ASSUME IInv, IInv', SInv, RInv, HistoryNext,
           NEW w \in Worker, CheckCommit(w)
    PROVE  Atomic!Next
  <1> DEFINE e == at[w].ex
  <1>1. pc[w] = "checkCommit" /\ pc'[w] = "idle"
    BY DEF CheckCommit, Return, GotoWith, IInv, Shape
  <1>2. e \in Exec /\ exec[e] = Unborn /\ \A f \in Exec : ~Active(f)
    <2>1. /\ Placed(pc[w], at[w]) /\ ReadRow(pc[w], at[w])
          /\ pc[w] \in Keyed => exec[at[w].ex] = Unborn
      BY DEF SInv, RInv, Remembers
    <2> QED BY <1>1, <2>1 DEF Placed, ReadRow, AtCheck, Keyed
  <1>3. at[w].plan = plan /\ plan \in Plans
    BY <1>1 DEF RInv, Remembers, ReadOthers, SInv, Data
  <1>4. /\ steps' = [steps EXCEPT ![e] = Snapshot(e, plan)]
        /\ exec' = [exec EXCEPT ![e] = NewRow("active")]
        /\ UNCHANGED <<plan, aborts, stale>>
    BY <1>3 DEF CheckCommit
  <1>5. shown = plan /\ shown' = shown
    BY <1>1, <1>4, PlanShown DEF Resyncing
  <1>6. ShownExec = exec /\ ShownExec' = exec'
    BY <1>1, ExecShown, ExecShownNext DEF AtCreate
  <1>7. ShownExec' = [ShownExec EXCEPT ![e] = Atomic!NewRow("active")]
    BY <1>4, <1>6, SameNewRow
  <1>8. ShownSteps' = [ShownSteps EXCEPT ![e] = Atomic!Snapshot(shown)]
    <2>1. RowsOf(Snapshot(e, plan)) = Atomic!Snapshot(plan)
      BY <1>2, <1>3, SnapshotShows
    <2> QED BY <1>2, <1>4, <1>5, <2>1, StepsWritten
  <1>9. ShownAborts' = ShownAborts
    BY <1>4, AbortsKept
  <1>10. Atomic!MayBe("active", e)
    BY <1>2, <1>6, SameReads DEF Atomic!MayBe, Atomic!ActiveFor
  <1>11. ShownExec[e].status = "none"
    BY <1>2, <1>6 DEF Unborn
  <1>12. Atomic!Create(e, "active")
    <2> HIDE DEF e
    <2> QED BY <1>4, <1>5, <1>7, <1>8, <1>9, <1>10, <1>11 DEF Atomic!Create
  <1> QED BY <1>2, <1>12 DEF Atomic!Next, Atomic!Statuses

\* The commit of a marked step is the whole request to mark it, with the
\* finalization if it was the last.
LEMMA DoneCommitShows ==
    ASSUME IInv, IInv', SInv, RInv, HistoryNext,
           NEW w \in Worker, DoneCommit(w)
    PROVE  Atomic!Next
  <1> DEFINE e == at[w].ex
             S == steps[e]
             env == [f \in Exec |-> "environment"]
  <1>1. pc[w] = "doneCommit" /\ pc'[w] = "idle"
    BY DEF DoneCommit, Return, GotoWith, IInv, Shape
  <1>2. /\ at[w] \in Request /\ e \in Exec /\ Live(e)
        /\ S \in SUBSET StepRow /\ Snapped(S)
        /\ exec \in [Exec -> ExecRow]
    <2>1. Placed(pc[w], at[w]) /\ ReadRow(pc[w], at[w])
      BY DEF SInv, RInv, Remembers
    <2> QED BY <1>1, <2>1 DEF Placed, ReadRow, AtStep, SInv, IInv, Shape
  <1>3. PICK s \in S : /\ Key(s) = at[w].step /\ ~s.done
                       /\ at[w].first = (s.timed /\ ~exec[e].started)
    <2>1. ReadSteps(pc[w], at[w])
      BY DEF RInv, Remembers
    <2> QED BY <1>1, <2>1 DEF ReadSteps, AtStep
  <1> DEFINE T == {IF Key(r) = Key(s) THEN Marked(r) ELSE r : r \in S}
             rows == [ShownSteps[e] EXCEPT
                         ![s.num] = Atomic!Marked(ShownSteps[e][s.num])]
  <1>4. /\ steps' = [steps EXCEPT ![e] = T]
        /\ exec' = [exec EXCEPT
               ![e].started = exec[e].started \/ at[w].first,
               ![e].status = IF at[w].last THEN "completed" ELSE exec[e].status]
        /\ stale' \in IF at[w].last THEN {FALSE, stale} ELSE {stale}
        /\ UNCHANGED <<plan, aborts>>
    BY <1>3 DEF DoneCommit
  <1>5. ShownSteps[e] = RowsOf(S)
    BY <1>2, ShownFacts
  <1>6. rows = RowsOf(T)
    BY <1>2, <1>5, MarkedShows
  <1>7. /\ s.num \in DOMAIN ShownSteps[e]
        /\ ShownSteps[e][s.num].timed = s.timed
        /\ ShownSteps[e][s.num].done = s.done
    <2>1. s.num \in 1..Cardinality(S) /\ RowAt(S, s.num) = s
      BY <1>2, RowAtFacts
    <2> QED BY <1>5, <2>1 DEF RowsOf, Shows
  <1>8. Atomic!Remaining(rows) = 0 <=> at[w].last
    <2>1. /\ RowsFit(steps[at[w].ex], pc[w], at[w])
          /\ ReadSteps(pc[w], at[w])
      BY DEF SInv, RInv, Remembers
    <2>2. at[w].last <=> \A r \in S : Key(r) = Key(s) \/ r.done
      BY <1>1, <1>2, <1>3, <2>1 DEF RowsFit, ReadSteps, StepRow, Request
    <2>3. T \in SUBSET StepRow /\ Snapped(T)
      BY <1>2, MarkedRows
    <2>4. (\A r \in T : r.done) <=> \A r \in S : Key(r) = Key(s) \/ r.done
      <3>1. \A r \in S : Marked(r).done
        BY <1>2 DEF Marked, StepRow
      <3> QED BY <3>1
    <2> HIDE DEF T
    <2>5. Atomic!Remaining(RowsOf(T)) = 0 <=> \A r \in T : r.done
      BY <2>3, RemainingShows
    <2> QED BY <1>6, <2>2, <2>4, <2>5
  <1>9. shown' = shown
    BY <1>1, <1>4, PlanShown DEF Resyncing
  <1>10. ShownExec = exec /\ ShownExec' = exec'
    BY <1>1, ExecShown, ExecShownNext DEF AtCreate
  <1>11. ShownExec' = [ShownExec EXCEPT
             ![e].started = ShownExec[e].started \/ ShownSteps[e][s.num].timed,
             ![e].status = IF Atomic!Remaining(rows) = 0 THEN "completed"
                                                        ELSE ShownExec[e].status]
    <2>1. (exec[e].started \/ at[w].first) = (exec[e].started \/ s.timed)
      BY <1>2, <1>3 DEF ExecRow, StepRow
    <2>2. (IF at[w].last THEN "completed" ELSE exec[e].status)
             = IF Atomic!Remaining(rows) = 0 THEN "completed" ELSE exec[e].status
      BY <1>8
    <2> HIDE DEF rows
    <2>3. ShownExec' = [exec EXCEPT
             ![e].started = exec[e].started \/ s.timed,
             ![e].status = IF Atomic!Remaining(rows) = 0 THEN "completed"
                                                        ELSE exec[e].status]
      BY <1>4, <1>10, <2>1, <2>2
    <2> QED BY <1>7, <1>10, <2>3
  <1>12. ShownSteps' = [ShownSteps EXCEPT ![e] = rows]
    <2> HIDE DEF T, rows
    <2> QED BY <1>2, <1>4, <1>6, StepsWritten
  <1>13. ShownAborts' = ShownAborts
    BY <1>4, AbortsKept
  <1>14. \/ stale' = stale
         \/ /\ Atomic!Remaining(rows) = 0
            /\ [v \in {"environment"} |-> stale']
                   = [[v \in {"environment"} |-> stale] EXCEPT ![env[e]] = FALSE]
    <2>1. env[e] = "environment"
      BY <1>2
    <2>2. stale' = stale \/ (at[w].last /\ stale' = FALSE)
      BY <1>4
    <2> QED BY <1>8, <2>1, <2>2
  <1>15. Atomic!Live(e)
    BY <1>2, <1>10, SameReads
  <1>16. Atomic!StepDone(e, s.num)
    <2>1. ~ShownSteps[e][s.num].done
      BY <1>3, <1>7
    <2> HIDE DEF e
    <2> QED BY <1>7, <1>9, <1>11, <1>12, <1>13, <1>14, <1>15, <2>1
            DEF Atomic!StepDone
  <1> QED BY <1>2, <1>7, <1>16 DEF Atomic!Next

\* The whole request to abort.
LEMMA AbortCommitShows ==
    ASSUME IInv, IInv', SInv, RInv, HistoryNext,
           NEW w \in Worker, AbortCommit(w)
    PROVE  Atomic!Next
  <1> DEFINE e == at[w].ex
             S == steps[e]
             A == aborts[e]
             c == Cardinality({s \in S : s.done})
             t == Cardinality(S)
  <1>1. pc[w] = "abortExec" /\ pc'[w] = "idle"
    BY DEF AbortCommit, Return, GotoWith, IInv, Shape
  <1>2. /\ e \in Exec /\ Live(e) /\ at[w].todo = KeysOf(S)
        /\ Cardinality(A) < MaxAborts
        /\ at[w].attempt = Cardinality(A) + 1
        /\ at[w].completed = c /\ at[w].total = t
        /\ S \in SUBSET StepRow /\ Snapped(S)
    <2>1. /\ Placed(pc[w], at[w]) /\ ReadRow(pc[w], at[w])
          /\ ReadSteps(pc[w], at[w]) /\ ReadOthers(pc[w], at[w])
      BY DEF SInv, RInv, Remembers
    <2> QED BY <1>1, <2>1 DEF Placed, ReadRow, ReadSteps, ReadOthers, AtAbort,
             Bulk, SInv
  <1> DEFINE b == [attempt |-> Cardinality(A) + 1, completed |-> c, total |-> t]
  <1>3. /\ aborts' = [aborts EXCEPT ![e] = A \union {b}]
        /\ steps' = [steps EXCEPT ![e] = Cleared(S, KeysOf(S))]
        /\ exec' = [exec EXCEPT ![e].started = FALSE]
        /\ UNCHANGED <<plan, stale>>
    BY <1>2 DEF AbortCommit
  <1>4. shown' = shown
    BY <1>1, <1>3, PlanShown DEF Resyncing
  <1>5. ShownExec = exec /\ ShownExec' = exec'
    BY <1>1, ExecShown, ExecShownNext DEF AtCreate
  <1>6. ShownSteps[e] = RowsOf(S) /\ ShownAborts[e] = AttemptsOf(A)
    BY <1>2, ShownFacts
  <1>7. ShownSteps' = [ShownSteps EXCEPT ![e] = Atomic!Cleared(ShownSteps[e])]
    <2>1. RowsOf(Cleared(S, KeysOf(S))) = Atomic!Cleared(RowsOf(S))
      BY <1>2, ClearedShows
    <2>2. ShownSteps' = [ShownSteps EXCEPT ![e] = RowsOf(Cleared(S, KeysOf(S)))]
      BY <1>2, <1>3, StepsWritten
    <2> QED BY <1>6, <2>1, <2>2
  <1>8. /\ AttemptsOf(A \union {b})
               = Append(AttemptsOf(A), [completed |-> c, total |-> t])
        /\ Len(AttemptsOf(A)) = Cardinality(A)
    <2>1. IsFiniteSet(A) /\ {a.attempt : a \in A} = 1..Cardinality(A)
      BY <1>2 DEF IInv, Shape, AttemptsNumbered
    <2> HIDE DEF A, c, t
    <2> QED BY <2>1, AppendShows
  <1>9. c = Atomic!DoneCount(ShownSteps[e]) /\ t = Len(ShownSteps[e])
    BY <1>2, <1>6, CountShows
  <1>10. ShownAborts' = [ShownAborts EXCEPT ![e] = Append(ShownAborts[e],
             [completed |-> Atomic!DoneCount(ShownSteps[e]),
              total |-> Len(ShownSteps[e])])]
    <2>1. ShownAborts' = [f \in Exec |-> AttemptsOf(aborts'[f])]
      BY DEF ShownAborts, AttemptsOf, AttemptAt
    <2>2. \A f \in Exec : aborts'[f] = IF f = e THEN A \union {b} ELSE aborts[f]
      BY <1>3 DEF IInv, Shape
    <2>3. ShownAborts = [f \in Exec |-> AttemptsOf(aborts[f])]
      BY ShownFacts
    <2> HIDE DEF b, c, t
    <2>4. ShownAborts' = [ShownAborts EXCEPT ![e] = AttemptsOf(A \union {b})]
      BY <2>1, <2>2, <2>3
    <2> QED BY <1>6, <1>8, <1>9, <2>4
  <1>11. Atomic!Live(e)
    BY <1>2, <1>5, SameReads
  <1>12. Atomic!Abort(e)
    <2>1. Len(ShownAborts[e]) < MaxAborts
      BY <1>2, <1>6, <1>8
    <2> HIDE DEF e
    <2> QED BY <1>3, <1>4, <1>5, <1>7, <1>10, <1>11, <2>1 DEF Atomic!Abort
  <1> QED BY <1>2, <1>12 DEF Atomic!Next

\* The whole request to reset, or one that is refused.
LEMMA ResetCommitShows ==
    ASSUME IInv, IInv', SInv, RInv, HistoryNext,
           NEW w \in Worker, ResetCommit(w)
    PROVE  Atomic!Next \/ UNCHANGED Atomic!vars
  <1> DEFINE e == at[w].ex
             S == steps[e]
  <1>1. pc[w] = "resetExec" /\ pc'[w] = "idle"
    BY DEF ResetCommit, Return, GotoWith, IInv, Shape
  <1>2. /\ e \in Exec /\ Live(e) /\ at[w].todo = KeysOf(S)
        /\ S \in SUBSET StepRow /\ Snapped(S)
    <2>1. /\ Placed(pc[w], at[w]) /\ ReadRow(pc[w], at[w])
          /\ ReadSteps(pc[w], at[w])
      BY DEF SInv, RInv, Remembers
    <2> QED BY <1>1, <2>1 DEF Placed, ReadRow, ReadSteps, AtReset, Bulk, SInv
  <1>3. UNCHANGED <<plan, aborts, stale>>
    BY DEF ResetCommit
  <1>4. shown' = shown
    BY <1>1, <1>3, PlanShown DEF Resyncing
  <1>5. ShownExec = exec /\ ShownExec' = exec'
    BY <1>1, ExecShown, ExecShownNext DEF AtCreate
  <1>6. ShownAborts' = ShownAborts
    BY <1>3, AbortsKept
  <1>7. CASE OthersActive(e) # {}
    <2>1. UNCHANGED <<steps, exec>>
      BY <1>2, <1>7 DEF ResetCommit, Live
    <2> QED BY <1>3, <1>4, <1>5, <1>6, <2>1, StepsKept DEF Atomic!vars
  <1>8. CASE OthersActive(e) = {}
    <2>1. /\ steps' = [steps EXCEPT ![e] = Cleared(S, KeysOf(S))]
          /\ exec' = [exec EXCEPT ![e].started = FALSE, ![e].status = "active"]
      BY <1>2, <1>8 DEF ResetCommit
    <2>2. ShownSteps' = [ShownSteps EXCEPT ![e] = Atomic!Cleared(ShownSteps[e])]
      <3>1. RowsOf(Cleared(S, KeysOf(S))) = Atomic!Cleared(RowsOf(S))
        BY <1>2, ClearedShows
      <3>2. ShownSteps[e] = RowsOf(S)
        BY <1>2, ShownFacts
      <3>3. ShownSteps' = [ShownSteps EXCEPT ![e] = RowsOf(Cleared(S, KeysOf(S)))]
        BY <1>2, <2>1, StepsWritten
      <3> QED BY <3>1, <3>2, <3>3
    <2>3. Atomic!ActiveFor([f \in Exec |-> "environment"][e]) \subseteq {e}
      <3>1. \A f \in Exec \ {e} : ~Atomic!Active(f)
        BY <1>5, <1>8, SameReads DEF OthersActive
      <3> QED BY <3>1 DEF Atomic!ActiveFor
    <2>4. Atomic!Live(e)
      BY <1>2, <1>5, SameReads
    <2>5. Atomic!Reset(e)
      <3> HIDE DEF e
      <3> QED BY <1>3, <1>4, <1>5, <1>6, <2>1, <2>2, <2>3, <2>4
              DEF Atomic!Reset, Atomic!MayBe
    <2> QED BY <1>2, <2>5 DEF Atomic!Next
  <1> QED BY <1>7, <1>8

\* The catalog and the installs change for the atomic requests as well.
LEMMA InventoryChangesShows ==
    ASSUME RInv, HistoryNext, InventoryChanges
    PROVE  Atomic!Next
  <1>1. /\ UNCHANGED <<plan, exec, steps, aborts, pc, at>>
        /\ stale' \in BOOLEAN
    BY DEF InventoryChanges
  <1>2. shown' = shown
    BY <1>1 DEF HistoryNext, RInv, ShownPlan
  <1>3. ShownExec' = ShownExec
    BY <1>1 DEF ShownExec, BeingCreated
  <1>4. ShownSteps' = ShownSteps /\ ShownAborts' = ShownAborts
    BY <1>1, StepsKept, AbortsKept
  <1>5. Atomic!InventoryChanges
    BY <1>1, <1>2, <1>3, <1>4 DEF Atomic!InventoryChanges
  <1> QED BY <1>5 DEF Atomic!Next

\* The plan that an edit made, while it is resynced and when that has ended.
LEMMA EditFacts ==
    ASSUME IInv, IInv', SInv, RInv, HistoryNext,
           NEW w \in Worker, pc[w] \in Resyncing, Return(w),
           UNCHANGED <<plan, exec, aborts, stale>>
    PROVE  /\ plan \in Atomic!Edits(shown) /\ Len(plan) <= MaxSteps
           /\ shown' = plan
           /\ ShownExec = exec /\ ShownExec' = exec'
           /\ ShownAborts' = ShownAborts
           /\ pc'[w] = "idle"
  <1>1. pc'[w] = "idle"
    BY DEF Return, GotoWith, IInv, Shape
  <1>2. \A v \in Worker : v = w
    BY OneWorker
  <1>3. plan \in Edits(shown)
    BY DEF RInv, ShownPlan
  <1>4. plan \in Atomic!Edits(shown)
    BY <1>3, SameEdits
  <1>5. Len(plan) <= MaxSteps
    BY DEF SInv, Data, Plans
  <1>6. shown' = plan
    BY <1>1, <1>2 DEF HistoryNext, Resyncing
  <1>7. ShownExec = exec /\ ShownExec' = exec'
    BY <1>1, ExecShown, ExecShownNext DEF AtCreate, Resyncing
  <1>8. ShownAborts' = ShownAborts
    BY AbortsKept
  <1> QED BY <1>1, <1>4, <1>5, <1>6, <1>7, <1>8

\* The snapshot taken again ends the edit and its resync.
LEMMA ResyncInsertShows ==
    ASSUME IInv, IInv', SInv, RInv, HistoryNext,
           NEW w \in Worker, ResyncInsert(w)
    PROVE  Atomic!Next
  <1> DEFINE e == at[w].ex
             S == steps[e]
  <1>1. /\ pc[w] = "resyncInsert" /\ Return(w)
        /\ UNCHANGED <<plan, exec, aborts, stale>>
    BY DEF ResyncInsert
  <1>2. /\ plan \in Atomic!Edits(shown) /\ Len(plan) <= MaxSteps
        /\ shown' = plan
        /\ ShownExec = exec /\ ShownExec' = exec'
        /\ ShownAborts' = ShownAborts
    BY <1>1, EditFacts DEF Resyncing
  <1>3. /\ e \in Exec /\ Active(e) /\ at[w].todo = KeysOf(S)
        /\ at[w].plan = plan /\ plan \in Plans
        /\ \A s \in S : ~s.started
        /\ S \in SUBSET StepRow /\ Snapped(S)
    <2>1. /\ Placed(pc[w], at[w]) /\ ReadRow(pc[w], at[w])
          /\ ReadSteps(pc[w], at[w]) /\ ReadOthers(pc[w], at[w])
      BY DEF SInv, RInv, Remembers
    <2> QED BY <1>1, <2>1 DEF Placed, ReadRow, ReadSteps, ReadOthers, AtResync,
             Bulk, SInv, Data
  <1>4. steps' = [steps EXCEPT ![e] = Snapshot(e, plan)]
    <2>1. \A s \in S : Key(s) \in at[w].todo
      BY <1>3 DEF KeysOf
    <2>2. Clash(w, e, plan) = {}
      BY <2>1 DEF Clash
    <2>3. steps' = [steps EXCEPT ![e] = {s \in S : Key(s) \notin at[w].todo}
                                        \union Snapshot(e, plan)]
      BY <1>3, <2>2 DEF ResyncInsert
    <2>4. {s \in S : Key(s) \notin at[w].todo} = {}
      BY <2>1
    <2> QED BY <2>3, <2>4
  <1>5. ShownSteps' = [ShownSteps EXCEPT ![e] = Atomic!Snapshot(plan)]
    <2>1. RowsOf(Snapshot(e, plan)) = Atomic!Snapshot(plan)
      BY <1>3, SnapshotShows
    <2>2. ShownSteps' = [ShownSteps EXCEPT ![e] = RowsOf(Snapshot(e, plan))]
      BY <1>3, <1>4, StepsWritten
    <2> QED BY <2>1, <2>2
  <1>6. Atomic!Pristine(e)
    <2>1. ShownSteps[e] = RowsOf(S)
      BY <1>3, ShownFacts
    <2>2. \A i \in 1..Cardinality(S) : RowAt(S, i) \in S
      BY <1>3, RowAtFacts
    <2> QED BY <1>3, <2>1, <2>2 DEF Atomic!Pristine, RowsOf, Shows
  <1>7. \A f \in Exec : Atomic!Active(f) /\ Atomic!Pristine(f) <=> f = e
    <2>1. \A f \in Exec : Atomic!Active(f) <=> Active(f)
      BY <1>2, SameReads
    <2>2. \A f \in Exec : Active(f) => f = e
      BY <1>3 DEF IInv, OneActive
    <2> QED BY <1>3, <1>6, <2>1, <2>2
  <1>8. ShownSteps' = Atomic!Resynced(plan)
    <2>1. Atomic!Resynced(plan) = [f \in Exec |-> IF f = e THEN Atomic!Snapshot(plan)
                                                  ELSE ShownSteps[f]]
      BY <1>7 DEF Atomic!Resynced
    <2>2. DOMAIN ShownSteps = Exec /\ ShownSteps = [f \in Exec |-> ShownSteps[f]]
      BY DEF ShownSteps
    <2> HIDE DEF e
    <2> QED BY <1>5, <2>1, <2>2
  <1>9. Atomic!EditPlan(plan)
    BY <1>1, <1>2, <1>8 DEF Atomic!EditPlan
  <1> QED BY <1>2, <1>9 DEF Atomic!Next

\* A resync that ends otherwise leaves the edit alone.
LEMMA EditCutShows ==
    ASSUME IInv, IInv', SInv, RInv, HistoryNext,
           NEW w \in Worker, pc[w] \in Resyncing, Return(w), UNCHANGED tables
    PROVE  Atomic!Next
  <1>1. /\ plan \in Atomic!Edits(shown) /\ Len(plan) <= MaxSteps
        /\ shown' = plan
        /\ ShownExec = exec /\ ShownExec' = exec'
        /\ ShownAborts' = ShownAborts
    BY EditFacts DEF tables
  <1>2. ShownSteps' = ShownSteps
    BY StepsKept DEF tables
  <1>3. Atomic!EditCut(plan)
    BY <1>1, <1>2 DEF Atomic!EditCut, tables
  <1> QED BY <1>1, <1>3 DEF Atomic!Next

-----------------------------------------------------------------------------
(* Steps that write nothing. *)

\* Where a request that writes nothing goes on to.
LEMMA QuietMoves ==
    ASSUME IInv, SInv, NEW w \in Worker, Begin(w) \/ Continue(w) \/ Kill(w),
           ~Writes(w)
    PROVE  \/ Return(w)
           \/ /\ pc'[w] \in AtCreate <=> pc[w] \in AtCreate
              /\ pc[w] \in AtCreate => at'[w].ex = at[w].ex
              /\ pc[w] \in Resyncing => pc'[w] \in Resyncing
  <1> USE DEF Goto, GotoWith, Receive, AtCreate, Resyncing
  <1>1. /\ pc \in [Worker -> Label] /\ at \in [Worker -> Request]
    BY DEF IInv, Shape, SInv
  <1>2. CASE Begin(w)
    <2>1. pc[w] = "idle" /\ pc'[w] \notin AtCreate
      BY <1>1, <1>2 DEF Begin, Writes, DoneRead, AbortRead, ResetRead, PatchRead,
         CheckRead, Edit
    <2> QED BY <2>1
  <1>3. CASE Kill(w)
    BY <1>3 DEF Kill
  <1>4. CASE Continue(w)
    <2>1. CASE CreateSnap(w)
      BY <1>1, <2>1 DEF CreateSnap, Request
    <2>2. CASE \/ ResyncList(w) \/ ResyncProbe(w) \/ ResyncScan(w)
               \/ ResyncDelete(w) \/ ResyncRead(w)
      BY <1>1, <2>2 DEF ResyncList, ResyncProbe, ResyncScan, ResyncDelete,
         ResyncRead
    <2>3. CASE \/ DoneStep(w) \/ DoneFirst(w) \/ DoneWrite(w) \/ DoneCount(w)
               \/ DoneFinal(w)
      BY <1>1, <2>3 DEF DoneStep, DoneFirst, DoneWrite, DoneCount, DoneFinal
    <2>4. CASE \/ AbortInsert(w) \/ ClearScan(w) \/ ClearLock(w)
               \/ CheckInsert(w) \/ CheckSnap(w)
      BY <1>1, <2>4 DEF AbortInsert, ClearScan, ClearLock, CheckInsert, CheckSnap
    <2>5. CASE Victim(w)
      BY <2>5 DEF Victim
    <2> QED BY <1>4, <2>1, <2>2, <2>3, <2>4, <2>5 DEF Continue, Writes
  <1> QED BY <1>2, <1>3, <1>4

LEMMA QuietShows ==
    ASSUME IInv, IInv', SInv, RInv, HistoryNext,
           NEW w \in Worker, Begin(w) \/ Continue(w) \/ Kill(w), ~Writes(w)
    PROVE  Atomic!Next \/ UNCHANGED Atomic!vars
  <1>1. CASE UNCHANGED tables /\ Return(w)
    <2>1. CASE pc[w] \in AtCreate
      BY <1>1, <2>1, CreateCutShows
    <2>2. CASE pc[w] \in Resyncing
      BY <1>1, <2>2, EditCutShows
    <2>3. CASE pc[w] \notin AtCreate \union Resyncing
      <3>1. pc'[w] = "idle"
        BY <1>1 DEF Return, GotoWith, IInv, Shape
      <3>2. shown' = shown
        BY <1>1, <2>3, <3>1, PlanShown DEF tables, Resyncing
      <3>3. \A e \in Exec : ~BeingCreated(e) /\ ~BeingCreated(e)'
        BY <2>3, <3>1, OneWorker DEF BeingCreated, AtCreate
      <3> QED BY <1>1, <3>2, <3>3, Stutters DEF tables
    <2> QED BY <2>1, <2>2, <2>3
  <1>2. CASE UNCHANGED tables /\ ~Edit(w) /\ ~Return(w)
    <2>1. /\ pc'[w] \in AtCreate <=> pc[w] \in AtCreate
          /\ pc[w] \in AtCreate => at'[w].ex = at[w].ex
          /\ pc[w] \in Resyncing => pc'[w] \in Resyncing
      BY <1>2, QuietMoves
    <2>2. pc'[w] \in Resyncing => pc[w] \in Resyncing
      BY <1>2, ResyncEntered
    <2>3. shown' = shown
      <3>1. CASE pc[w] \in Resyncing
        BY <2>1, <3>1 DEF HistoryNext
      <3>2. CASE pc[w] \notin Resyncing
        BY <1>2, <3>2, PlanShown DEF tables
      <3> QED BY <3>1, <3>2
    <2>4. \A e \in Exec : BeingCreated(e)' <=> BeingCreated(e)
      BY <2>1, OneWorker DEF BeingCreated, AtCreate
    <2> QED BY <1>2, <2>3, <2>4, Stutters DEF tables
  <1>3. CASE Edit(w)
    <2>1. pc[w] = "idle" /\ pc'[w] = "resyncList"
      BY <1>3 DEF Edit, Receive, Goto, IInv, Shape
    <2>2. shown' = shown
      BY <2>1, PlanShown DEF Resyncing
    <2>3. \A e \in Exec : ~BeingCreated(e) /\ ~BeingCreated(e)'
      BY <2>1, OneWorker DEF BeingCreated
    <2> QED BY <1>3, <2>2, <2>3, Stutters DEF Edit
  <1> QED BY <1>1, <1>2, <1>3, ReadsWriteNothing

-----------------------------------------------------------------------------
(* The refinement. *)

LEMMA RefinesInit == HistoryInit => Atomic!Init
  <1> SUFFICES ASSUME HistoryInit PROVE Atomic!Init
    OBVIOUS
  <1>1. /\ plan \in UNION {[1..n -> BOOLEAN] : n \in 0..MaxSteps}
        /\ exec = [e \in Exec |-> Unborn] /\ steps = [e \in Exec |-> {}]
        /\ aborts = [e \in Exec |-> {}] /\ stale \in BOOLEAN /\ shown = plan
        /\ pc = [w \in Worker |-> "idle"]
    BY DEF HistoryInit, Init
  <1>2. \A e \in Exec : ~BeingCreated(e)
    BY <1>1 DEF BeingCreated
  <1>3. ShownExec = [e \in Exec |-> [status |-> "none", deleted |-> FALSE,
                                     started |-> FALSE]]
    BY <1>1, <1>2 DEF ShownExec, Unborn
  <1>4. /\ ShownSteps = [e \in Exec |-> <<>>]
        /\ ShownAborts = [e \in Exec |-> <<>>]
    BY <1>1, ShownFacts, NoRowsShow
  <1>5. [env \in {"environment"} |-> stale] \in [{"environment"} -> BOOLEAN]
    BY <1>1
  <1> QED BY <1>1, <1>3, <1>4, <1>5 DEF Atomic!Init

LEMMA RefinesNext ==
    IInv /\ IInv' /\ SInv /\ RInv /\ [HistoryNext]_<<vars, shown>>
        => [Atomic!Next]_Atomic!vars
  <1> SUFFICES ASSUME IInv, IInv', SInv, RInv, [HistoryNext]_<<vars, shown>>
               PROVE  Atomic!Next \/ UNCHANGED Atomic!vars
    OBVIOUS
  <1>1. CASE UNCHANGED <<vars, shown>>
    BY <1>1, Stutters DEF vars, BeingCreated
  <1>2. CASE HistoryNext
    <2>1. CASE InventoryChanges
      BY <1>2, <2>1, InventoryChangesShows
    <2>2. ASSUME NEW w \in Worker, Begin(w) \/ Continue(w) \/ Kill(w)
          PROVE  Atomic!Next \/ UNCHANGED Atomic!vars
      <3>1. CASE DoneCommit(w)
        BY <1>2, <3>1, DoneCommitShows
      <3>2. CASE AbortCommit(w)
        BY <1>2, <3>2, AbortCommitShows
      <3>3. CASE ResetCommit(w)
        BY <1>2, <3>3, ResetCommitShows
      <3>4. CASE PatchSave(w)
        BY <1>2, <3>4, PatchSaveShows
      <3>5. CASE \E e \in Exec : Delete(w, e)
        BY <1>2, <3>5, DeleteShows
      <3>6. CASE \E e \in Exec, st \in Statuses : Create(w, e, st)
        BY <1>2, <3>6, CreateShows
      <3>7. CASE CreateInsert(w)
        BY <1>2, <3>7, CreateInsertShows
      <3>8. CASE CheckCommit(w)
        BY <1>2, <3>8, CheckCommitShows
      <3>9. CASE ResyncInsert(w)
        BY <1>2, <3>9, ResyncInsertShows
      <3>10. CASE ~Writes(w)
        BY <1>2, <2>2, <3>10, QuietShows
      <3> QED BY <3>1, <3>2, <3>3, <3>4, <3>5, <3>6, <3>7, <3>8, <3>9, <3>10
               DEF Writes
    <2> QED BY <1>2, <2>1, <2>2 DEF HistoryNext, Next
  <1> QED BY <1>1, <1>2

\* One server process implements PatchRun: for any executions, requests and
\* bounds, with workers killed in the middle of a request or not, every commit
\* of api/patching is one whole request of PatchRun, or one cut short as
\* CreateCut and EditCut say, or changes nothing that a client is shown.
THEOREM Refines == HistorySpec => RefinesPatchRun
  <1>1. HistorySpec => [](IInv /\ SInv /\ RInv)
    BY RInvariant
  <1>2. (IInv /\ SInv /\ RInv) /\ (IInv /\ SInv /\ RInv)'
            /\ [HistoryNext]_<<vars, shown>> => [Atomic!Next]_Atomic!vars
    BY RefinesNext
  <1>3. HistoryInit => Atomic!Init
    BY RefinesInit
  <1> QED BY <1>1, <1>2, <1>3, PTL DEF HistorySpec, RefinesPatchRun, Atomic!Spec
=============================================================================
