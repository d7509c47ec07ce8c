--------------------------- MODULE CalendarProofs ---------------------------
(***************************************************************************)
(* What the times of an execution's steps, the critical calendar and the   *)
(* certificate badge have to do with each other, proved for any moments,   *)
(* snapshots, servers, dates and values of `weeks`.                        *)
(*                                                                         *)
(* The badge and one calendar are properties of one state, of which they   *)
(* need only that its days are numbers (Days).  The chain of step times    *)
(* takes an invariant of its own (TimesInv): the execution's clock is the  *)
(* first finish there is, and it is what its day is the day of.            *)
(***************************************************************************)
EXTENDS Calendar, WellFoundedInduction, TLAPS

\* What the calendar's arithmetic needs of a state.
Days ==
    /\ clock \in Nat
    /\ exec \in ExecRow
    /\ history \subseteq DayColumn
    /\ server \in [Server -> ServerRow]

\* An undone step has no start; a timed one that is done started no earlier
\* than its execution, and finished.
Ordered ==
    \A i \in Number :
        /\ ~steps[i].done => steps[i].started = Null
        /\ i \in TimedDone =>
               /\ steps[i].started \in Nat /\ steps[i].finished \in Nat
               /\ exec.started <= steps[i].started
               /\ steps[i].started <= steps[i].finished
               /\ steps[i].finished <= clock

\* The execution's start is the first finish, and patch_date is its day unless
\* a request wrote another.
Dated ==
    IF TimedDone = {}
    THEN exec.started = Null /\ (~byHand => exec.patchDate = Null)
    ELSE /\ exec.started \in Nat
         /\ ~byHand => exec.patchDate = Day(exec.started)
         /\ \E i \in TimedDone : steps[i].finished = exec.started

\* From that start to any finish every moment belongs to a step.
Covered ==
    \A j \in TimedDone : \A t \in exec.started..steps[j].finished :
        \E i \in TimedDone : steps[i].started <= t /\ t <= steps[i].finished

TimesInv == Ordered /\ Dated /\ Covered /\ StepsTile

IInv == TypeOK /\ TimesInv

-----------------------------------------------------------------------------
(* Weeks. *)

LEMMA TodayFacts ==
    ASSUME clock \in Nat
    PROVE  /\ Today \in Nat /\ Monday \in Int
           /\ Monday <= Today /\ Today < Monday + 7
  BY TicksAssumption DEF Today, Day, Monday

\* A value of `weeks` is a number or left out.
Asks == Int \union {Null}

\* The window of a positive `weeks` is one to twelve weeks, and grows with it.
LEMMA CappedFacts ==
    ASSUME NEW w \in Asks
    PROVE  /\ Capped(w) \in Int /\ Said(w) \in Int
           /\ 1 <= Said(w) => 1 <= Capped(w)
           /\ 6 <= Said(w) => 6 <= Capped(w)
           /\ \A v \in Asks : Said(v) <= Said(w) => Capped(v) <= Capped(w)
  <1>1. \A v \in Asks : Said(v) \in Int
    BY DEF Said, Asks
  <1> QED BY <1>1 DEF Capped

LEMMA WindowFacts ==
    ASSUME clock \in Nat, NEW w \in Asks
    PROVE  /\ LookbackStart(w) \in Int /\ End(w) \in Int
           /\ 1 <= Said(w) => Today < End(w)
           /\ 6 <= Said(w) => Today + SoonDays < End(w)
           /\ \A v \in Asks : Said(v) <= Said(w) =>
                  /\ LookbackStart(v) \in Int /\ End(v) \in Int
                  /\ LookbackStart(w) <= LookbackStart(v) /\ End(v) <= End(w)
  <1>1. /\ Today \in Nat /\ Monday \in Int
        /\ Monday <= Today /\ Today < Monday + 7
    BY TodayFacts
  <1>2. /\ Capped(w) \in Int
        /\ 1 <= Said(w) => 1 <= Capped(w)
        /\ 6 <= Said(w) => 6 <= Capped(w)
    BY CappedFacts
  <1>3. ASSUME NEW v \in Asks, Said(v) <= Said(w)
        PROVE  /\ LookbackStart(v) \in Int /\ End(v) \in Int
               /\ LookbackStart(w) <= LookbackStart(v) /\ End(v) <= End(w)
    <2>1. Capped(v) \in Int /\ Capped(v) <= Capped(w)
      BY <1>3, CappedFacts
    <2> QED BY <1>1, <1>2, <2>1 DEF LookbackStart, End
  <1>4. /\ LookbackStart(w) \in Int /\ End(w) \in Int
        /\ 1 <= Said(w) => Today < End(w)
        /\ 6 <= Said(w) => Today + SoonDays < End(w)
    BY <1>1, <1>2 DEF LookbackStart, End, SoonDays
  <1> QED BY <1>3, <1>4

-----------------------------------------------------------------------------
(* Days, and the largest and smallest of a set. *)

LEMMA DayFacts ==
    ASSUME NEW t \in Nat
    PROVE  Day(t) \in Nat /\ Day(t) # Null
  BY TicksAssumption, NullAssumption DEF Day

\* A later moment is on no earlier day.
LEMMA DayGrows ==
    ASSUME NEW s \in Nat, NEW t \in Nat, s <= t
    PROVE  Day(s) <= Day(t)
  <1> DEFINE n == TicksPerDay
             p == s \div n
             q == t \div n
  <1>1. n \in Nat /\ n > 0 /\ p \in Nat /\ q \in Nat
    BY TicksAssumption
  <1>2. n * p <= s /\ t < n * q + n
    BY <1>1
  <1>3. SUFFICES ASSUME q + 1 <= p PROVE FALSE
    BY <1>1 DEF Day
  <1>4. n * (q + 1) <= n * p
    BY <1>1, <1>3
  <1>5. n * (q + 1) = n * q + n
    BY <1>1
  <1> QED
    <2>1. n * p \in Nat /\ n * q \in Nat
      BY <1>1
    <2> HIDE DEF n, p, q
    <2> QED BY <1>1, <1>2, <1>4, <1>5, <2>1

LEMMA LeastNat ==
    ASSUME NEW S \in SUBSET Nat, S # {}
    PROVE  \E m \in S : \A k \in S : m <= k
  <1>1. PICK m \in S : \A k \in S : ~(<<k, m>> \in OpToRel(<, Nat))
    BY NatLessThanWellFounded, WFMin
  <1>2. \A k \in S : ~(k < m)
    BY <1>1 DEF OpToRel
  <1> QED BY <1>2

LEMMA MinFacts ==
    ASSUME NEW S \in SUBSET Nat, S # {}
    PROVE  Min(S) \in S /\ \A k \in S : Min(S) <= k
  <1>1. \E m \in S : \A k \in S : m =< k
    BY LeastNat
  <1> QED BY <1>1 DEF Min

\* Seen from a bound, the largest number is the nearest one.
LEMMA MaxFacts ==
    ASSUME NEW S \in SUBSET Nat, S # {}, NEW b \in Nat, \A k \in S : k <= b
    PROVE  Max(S) \in S /\ \A k \in S : k <= Max(S)
  <1> DEFINE D == {b - k : k \in S}
  <1>1. D \in SUBSET Nat /\ D # {}
    <2>1. ASSUME NEW k \in S PROVE b - k \in Nat
      <3>1. k \in Nat /\ k <= b
        OBVIOUS
      <3> QED BY <3>1
    <2> QED BY <2>1
  <1>2. PICK d \in D : \A e \in D : d <= e
    BY <1>1, LeastNat
  <1>3. PICK m \in S : d = b - m
    BY <1>2
  <1>4. \A k \in S : m >= k
    <2> TAKE k \in S
    <2>1. b - m <= b - k
      BY <1>2, <1>3
    <2> QED BY <2>1
  <1>5. \E x \in S : \A k \in S : x >= k
    BY <1>4
  <1> QED BY <1>5 DEF Max

-----------------------------------------------------------------------------
(* The invariant: marking a step. *)

\* Where a timed step's own clock starts: at the execution's start, or at the
\* finish of the last timed step before it.
LEMMA StartOfFacts ==
    ASSUME IInv, NEW i \in Number, steps[i].timed, ~steps[i].done
    PROVE  LET before == {j \in TimedDone : j < i} IN
           IF before = {} THEN StartOf(i) = Started(i).started
           ELSE \E m \in before :
                    /\ \A j \in before : j <= m
                    /\ StartOf(i) = steps[m].finished
  <1> DEFINE before == {j \in TimedDone : j < i}
  <1>1. before = {j \in 1..(i - 1) : steps[j].done /\ steps[j].timed}
    BY NStepsAssumption DEF TimedDone, Number
  <1>2. CASE before = {}
    BY <1>1, <1>2 DEF StartOf
  <1>3. CASE before # {}
    <2>1. before \in SUBSET Nat /\ \A j \in before : j <= i
      BY NStepsAssumption DEF TimedDone, Number
    <2>2. Max(before) \in before /\ \A j \in before : j <= Max(before)
      <3>1. i \in Nat
        BY NStepsAssumption DEF Number
      <3> HIDE DEF before
      <3> QED BY <1>3, <2>1, <3>1, MaxFacts
    <2>3. steps[Max(before)].finished # Null
      BY <2>2, NullAssumption DEF IInv, TimesInv, Ordered, TimedDone
    <2>4. StartOf(i) = steps[Max(before)].finished
      BY <1>1, <1>3, <2>3 DEF StartOf
    <2> QED BY <1>3, <2>2, <2>4
  <1> QED BY <1>2, <1>3
\* What marking step i does to the times.
LEMMA MarkedFacts ==
    ASSUME IInv, NEW i \in Number, StepDone(i)
    PROVE  /\ clock' = clock /\ i \notin TimedDone
           /\ \A j \in Number \ {i} : steps'[j] = steps[j]
           /\ steps'[i].done
           /\ TimedDone' = IF steps[i].timed THEN TimedDone \union {i}
                           ELSE TimedDone
           /\ steps[i].timed => /\ steps'[i].finished = clock
                                /\ steps'[i].started = StartOf(i)
           /\ exec'.started = Started(i).started
           /\ exec'.patchDate = Started(i).patchDate /\ byHand' = byHand
           /\ Started(i).started = IF steps[i].timed /\ TimedDone = {}
                                   THEN clock ELSE exec.started
           /\ ~byHand => Started(i).patchDate = IF steps[i].timed /\ TimedDone = {}
                                                THEN Today ELSE exec.patchDate
  <1>1. /\ clock \in Nat /\ exec \in ExecRow
        /\ steps \in [Number -> StepRow]
    BY InstantsAssumption DEF IInv, TypeOK, StepTimesTypeOK
  <1>2. /\ clock' = clock /\ byHand' = byHand
        /\ ~steps[i].done /\ steps' = Timed(i)
        /\ exec'.started = Started(i).started
        /\ exec'.patchDate = Started(i).patchDate
    <2>1. Started(i) \in [status : Statuses, deleted : BOOLEAN,
                          started : {Started(i).started},
                          completedAt : {Started(i).completedAt},
                          patchDate : {Started(i).patchDate},
                          planned : {Started(i).planned}]
      BY <1>1 DEF Started, ExecRow
    <2>2. CASE Finalized(Started(i))
      <3>1. exec' = [Started(i) EXCEPT !.status = "completed",
                                       !.completedAt = clock]
        BY <2>2 DEF Finalized
      <3> QED BY <2>1, <3>1 DEF StepDone
    <2>3. CASE exec' = Started(i)
      BY <2>3 DEF StepDone
    <2> QED BY <2>2, <2>3 DEF StepDone
  <1>3. /\ i \notin TimedDone
        /\ exec.started = Null <=> TimedDone = {}
        /\ ~byHand /\ TimedDone = {} => exec.patchDate = Null
        /\ steps[i].started = Null
    BY <1>2, NullAssumption DEF TimedDone, IInv, TimesInv, Dated, Ordered
  <1>4. /\ \A j \in Number \ {i} : steps'[j] = steps[j]
        /\ steps'[i].done /\ steps'[i].timed = steps[i].timed
        /\ steps[i].timed => /\ steps'[i].finished = clock
                             /\ steps'[i].started = StartOf(i)
    <2>1. CASE ~steps[i].timed
      BY <1>1, <1>2, <2>1 DEF Timed, StepRow
    <2>2. CASE steps[i].timed
      BY <1>1, <1>2, <1>3, <2>2 DEF Timed, StepRow
    <2> QED BY <2>1, <2>2
  <1>5. TimedDone' = IF steps[i].timed THEN TimedDone \union {i} ELSE TimedDone
    BY <1>3, <1>4 DEF TimedDone
  <1>6. /\ Started(i).started = IF steps[i].timed /\ TimedDone = {}
                                THEN clock ELSE exec.started
        /\ ~byHand => Started(i).patchDate = IF steps[i].timed /\ TimedDone = {}
                                             THEN Today ELSE exec.patchDate
    BY <1>1, <1>3 DEF Started, ExecRow
  <1> QED BY <1>2, <1>3, <1>4, <1>5, <1>6

\* The chain is a matter of the timed steps that are done.
LEMMA SameTimes ==
    ASSUME IInv, TimedDone' = TimedDone, clock' \in Nat, clock <= clock',
           \A i \in TimedDone : steps'[i] = steps[i],
           \A i \in Number : ~steps'[i].done => steps'[i].started = Null,
           exec'.started = exec.started,
           ~byHand' => ~byHand /\ exec'.patchDate = exec.patchDate
    PROVE  TimesInv'
  <1>1. clock \in Nat /\ TimedDone \subseteq Number
    BY InstantsAssumption DEF IInv, TypeOK, StepTimesTypeOK, TimedDone
  <1>2. Ordered'
    <2> SUFFICES ASSUME NEW i \in Number, i \in TimedDone
                 PROVE  /\ steps[i].started \in Nat /\ steps[i].finished \in Nat
                        /\ exec.started <= steps[i].started
                        /\ steps[i].started <= steps[i].finished
                        /\ steps[i].finished <= clock'
      BY DEF Ordered
    <2>1. /\ steps[i].started \in Nat /\ steps[i].finished \in Nat
          /\ exec.started <= steps[i].started
          /\ steps[i].started <= steps[i].finished
          /\ steps[i].finished <= clock
      BY DEF IInv, TimesInv, Ordered
    <2> QED BY <1>1, <2>1
  <1>3. Dated'
    BY DEF IInv, TimesInv, Dated
  <1>4. Covered'
    BY DEF IInv, TimesInv, Covered
  <1>5. StepsTile'
    BY DEF IInv, TimesInv, StepsTile
  <1> QED BY <1>2, <1>3, <1>4, <1>5 DEF TimesInv

\* Abort and reset start over.
LEMMA UndoneTimes ==
    ASSUME IInv, steps' = Undone(steps), exec'.started = Null,
           exec'.patchDate = Null
    PROVE  TimesInv'
  <1>1. \A i \in Number : ~steps'[i].done /\ steps'[i].started = Null
    BY DEF Undone, IInv, TypeOK, StepTimesTypeOK, StepRow
  <1>2. TimedDone' = {}
    BY <1>1 DEF TimedDone
  <1> QED BY <1>1, <1>2 DEF TimesInv, Ordered, Dated, Covered, StepsTile

\* A timed step that is marked takes the time from a finish, or from the
\* execution's start, until now.
LEMMA MarkedTimes ==
    ASSUME IInv, NEW i \in Number, StepDone(i), steps[i].timed
    PROVE  TimesInv'
  <1> DEFINE before == {j \in TimedDone : j < i}
             S == StartOf(i)
             E == exec'.started
  <1>1. /\ clock' = clock /\ i \notin TimedDone
        /\ \A j \in TimedDone : steps'[j] = steps[j]
        /\ \A j \in Number : j # i => steps'[j] = steps[j]
        /\ steps'[i].done
        /\ TimedDone' = TimedDone \union {i}
        /\ steps'[i].finished = clock /\ steps'[i].started = S
        /\ E = IF TimedDone = {} THEN clock ELSE exec.started
        /\ byHand' = byHand
        /\ ~byHand =>
               exec'.patchDate = IF TimedDone = {} THEN Today ELSE exec.patchDate
    BY MarkedFacts DEF TimedDone
  <1>2. clock \in Nat /\ Number \subseteq Nat /\ TimedDone \subseteq Number
    BY InstantsAssumption
       DEF IInv, TypeOK, StepTimesTypeOK, TimedDone, Number
  <1>3. \A j \in TimedDone :
            /\ steps[j].started \in Nat /\ steps[j].finished \in Nat
            /\ exec.started <= steps[j].started
            /\ steps[j].started <= steps[j].finished
            /\ steps[j].finished <= clock
    BY <1>2 DEF IInv, TimesInv, Ordered
  <1>4. /\ E \in Nat /\ E <= clock
        /\ ~byHand => exec'.patchDate = Day(E)
        /\ \A j \in TimedDone : E <= steps[j].started
        /\ \E j \in TimedDone' : steps'[j].finished = E
    <2>1. CASE TimedDone = {}
      BY <1>1, <1>2, <2>1 DEF Today
    <2>2. CASE TimedDone # {}
      <3>1. /\ exec.started \in Nat
            /\ ~byHand => exec.patchDate = Day(exec.started)
            /\ \E j \in TimedDone : steps[j].finished = exec.started
        BY <2>2 DEF IInv, TimesInv, Dated
      <3> QED BY <1>1, <1>2, <1>3, <2>2, <3>1
    <2> QED BY <2>1, <2>2
  <1>5. IF before = {} THEN S = E
        ELSE \E m \in before :
                 /\ \A j \in before : j <= m
                 /\ S = steps[m].finished
    <2>1. ~steps[i].done
      BY DEF StepDone
    <2> QED BY <2>1, MarkedFacts, StartOfFacts
  <1>6. S \in Nat /\ E <= S /\ S <= clock
    <2>1. CASE before = {}
      BY <1>4, <1>5, <2>1
    <2>2. CASE before # {}
      <3>1. PICK m \in TimedDone : S = steps[m].finished
        BY <1>5, <2>2
      <3> QED BY <1>2, <1>3, <1>4, <3>1
    <2> QED BY <2>1, <2>2
  <1> HIDE DEF E, S, before
  <1>7. Ordered'
    <2> SUFFICES ASSUME NEW j \in Number
                 PROVE  /\ ~steps'[j].done => steps'[j].started = Null
                        /\ j \in TimedDone' =>
                              /\ steps'[j].started \in Nat
                              /\ steps'[j].finished \in Nat
                              /\ E <= steps'[j].started
                              /\ steps'[j].started <= steps'[j].finished
                              /\ steps'[j].finished <= clock'
      BY DEF Ordered, E
    <2>1. CASE j = i
      BY <1>1, <1>2, <1>6, <2>1
    <2>2. CASE j # i
      <3>1. ~steps[j].done => steps[j].started = Null
        BY DEF IInv, TimesInv, Ordered
      <3> QED BY <1>1, <1>2, <1>3, <1>4, <2>2, <3>1
    <2> QED BY <2>1, <2>2
  <1>8. Dated'
    BY <1>1, <1>4 DEF Dated, E
  <1>9. Covered'
    <2> SUFFICES ASSUME NEW j \in TimedDone', NEW t \in E..steps'[j].finished
                 PROVE  \E k \in TimedDone' :
                            steps'[k].started <= t /\ t <= steps'[k].finished
      BY DEF Covered, E
    <2>1. t \in Int /\ E <= t /\ t <= steps'[j].finished
      BY <1>1, <1>2, <1>3, <1>4
    <2>2. CASE \E k \in TimedDone : t <= steps[k].finished
      <3>1. PICK k \in TimedDone : t <= steps[k].finished
        BY <2>2
      <3>2. E = exec.started /\ t \in exec.started..steps[k].finished
        BY <1>1, <1>3, <1>4, <2>1, <3>1
      <3>3. PICK n \in TimedDone : steps[n].started <= t /\ t <= steps[n].finished
        BY <3>2 DEF IInv, TimesInv, Covered
      <3> QED BY <1>1, <3>3
    <2>3. CASE \A k \in TimedDone : steps[k].finished < t
      <3>1. j = i
        <4>1. j \in TimedDone => FALSE
          <5> HAVE j \in TimedDone
          <5>1. steps[j].finished < t /\ t <= steps[j].finished
            BY <1>1, <2>1, <2>3
          <5> QED BY <1>3, <2>1, <5>1
        <4> QED BY <1>1, <4>1
      <3>2. S <= t
        <4>1. CASE before = {}
          BY <1>5, <2>1, <4>1
        <4>2. CASE before # {}
          <5>1. PICK m \in TimedDone : S = steps[m].finished
            BY <1>5, <4>2 DEF before
          <5> QED BY <1>3, <2>1, <2>3, <5>1
        <4> QED BY <4>1, <4>2
      <3> QED BY <1>1, <2>1, <3>1, <3>2
    <2> QED BY <1>3, <2>1, <2>2, <2>3
  <1>10. StepsTile'
    <2> SUFFICES ASSUME \A j, k \in TimedDone' :
                            j < k => steps'[j].finished < steps'[k].finished,
                        NEW j \in TimedDone', NEW k \in TimedDone', j < k
                 PROVE  steps'[j].finished <= steps'[k].started
      BY DEF StepsTile
    <2>1. \A p, q \in TimedDone :
              p < q => steps[p].finished < steps[q].finished
      BY <1>1
    <2>2. CASE j \in TimedDone /\ k \in TimedDone
      <3>1. \A p, q \in TimedDone :
                p < q => steps[p].finished <= steps[q].started
        BY <2>1 DEF IInv, TimesInv, StepsTile
      <3> QED BY <1>1, <2>2, <3>1
    <2>3. CASE j = i
      <3>1. k \in TimedDone
        BY <1>1, <1>2, <2>3
      <3>2. clock < steps[k].finished
        BY <1>1, <2>3, <3>1
      <3> QED BY <1>2, <1>3, <3>1, <3>2
    <2>4. CASE j \in TimedDone /\ k = i
      <3>1. j \in before
        BY <2>4 DEF before
      <3>2. PICK m \in before : j <= m /\ S = steps[m].finished
        BY <1>5, <3>1
      <3>3. m \in TimedDone
        BY DEF before
      <3>4. steps[j].finished <= steps[m].finished
        BY <1>2, <1>3, <2>1, <2>4, <3>2, <3>3
      <3> QED BY <1>1, <2>4, <3>2, <3>4
    <2> QED BY <1>1, <2>2, <2>3, <2>4
  <1> QED BY <1>7, <1>8, <1>9, <1>10 DEF TimesInv

(* The types, and the other requests. *)

LEMMA StepDoneKeeps ==
    ASSUME clock \in Instants, exec \in ExecRow,
           history \subseteq DayColumn,
           NEW i \in Number, StepDone(i)
    PROVE  exec' \in ExecRow /\ history' \subseteq DayColumn
  <1>1. Today \in DayColumn
    BY DEF Today, DayColumn
  <1>2. Started(i) \in ExecRow
    BY <1>1 DEF Started, ExecRow
  <1>3. CASE Finalized(Started(i))
    <2> DEFINE row == Started(i)
    <2>1. row \in ExecRow
      BY <1>2
    <2>2. exec' = [row EXCEPT !.status = "completed", !.completedAt = clock]
      BY <1>3 DEF Finalized
    <2>3. exec' \in ExecRow
      BY <2>1, <2>2 DEF ExecRow, Statuses
    <2>4. row.patchDate \in DayColumn \union {Null}
      BY <2>1 DEF ExecRow
    <2>5. history' \subseteq DayColumn
      BY <1>1, <1>3, <2>4 DEF Finalized
    <2> QED BY <2>3, <2>5
  <1>4. CASE exec' = Started(i) /\ UNCHANGED history
    BY <1>2, <1>4
  <1> QED BY <1>3, <1>4 DEF StepDone

LEMMA StepDoneTypes ==
    ASSUME IInv, NEW i \in Number, StepDone(i)
    PROVE  StepTimesTypeOK'
  <1>1. /\ clock \in Instants /\ exec \in ExecRow /\ clock' = clock
        /\ steps \in [Number -> StepRow]
        /\ history \subseteq DayColumn
        /\ byHand \in BOOLEAN /\ byHand' = byHand
    BY DEF IInv, TypeOK, StepTimesTypeOK, StepDone
  <1>2. exec' \in ExecRow /\ history' \subseteq DayColumn
    BY <1>1, StepDoneKeeps
  <1>3. steps[i].timed => StartOf(i) \in Instants
    <2> SUFFICES ASSUME steps[i].timed PROVE StartOf(i) \in Instants
      OBVIOUS
    <2> DEFINE before == {j \in TimedDone : j < i}
    <2>1. ~steps[i].done
      BY DEF StepDone
    <2>2. CASE before = {}
      <3>1. StartOf(i) = Started(i).started
        BY <2>1, <2>2, StartOfFacts
      <3>2. TimedDone # {} => exec.started \in Instants
        BY <1>1, NullAssumption DEF IInv, TimesInv, Dated, ExecRow
      <3> QED BY <1>1, <3>1, <3>2, MarkedFacts
    <2>3. CASE before # {}
      <3>1. PICK m \in TimedDone : StartOf(i) = steps[m].finished
        BY <2>1, <2>3, StartOfFacts
      <3>2. m \in Number /\ steps[m].finished \in Nat
        BY DEF IInv, TimesInv, Ordered, TimedDone
      <3> QED BY <1>1, <3>1, <3>2, NullAssumption DEF StepRow
    <2> QED BY <2>2, <2>3
  <1>4. steps' \in [Number -> StepRow]
    <2>1. CASE ~steps[i].timed
      <3>1. steps' = [steps EXCEPT ![i].done = TRUE]
        BY <2>1 DEF StepDone, Timed
      <3> QED BY <1>1, <3>1 DEF StepRow
    <2>2. CASE steps[i].timed
      <3>1. steps' = [steps EXCEPT ![i].done = TRUE, ![i].finished = clock,
                          ![i].started = IF @ = Null THEN StartOf(i) ELSE @]
        BY <2>2 DEF StepDone, Timed
      <3> DEFINE v == IF steps[i].started = Null THEN StartOf(i)
                      ELSE steps[i].started
      <3>2. v \in Instants
        BY <1>1, <1>3, <2>2 DEF StepRow
      <3>3. steps' = [steps EXCEPT ![i].done = TRUE, ![i].finished = clock,
                                   ![i].started = v]
        BY <1>1, <3>1
      <3> HIDE DEF v
      <3>4. \A j \in Number : steps'[j] \in StepRow
        BY <1>1, <3>2, <3>3 DEF StepRow
      <3> QED BY <1>1, <3>3, <3>4
    <2> QED BY <2>1, <2>2
  <1> QED BY <1>1, <1>2, <1>4 DEF StepTimesTypeOK

LEMMA StepDoneInv ==
    ASSUME IInv, NEW i \in Number, StepDone(i)
    PROVE  StepTimesTypeOK' /\ TimesInv'
  <1>1. CASE steps[i].timed
    BY <1>1, StepDoneTypes, MarkedTimes
  <1>2. CASE ~steps[i].timed
    <2>1. /\ TimedDone' = TimedDone /\ i \notin TimedDone
          /\ clock' = clock /\ steps'[i].done
          /\ \A j \in Number \ {i} : steps'[j] = steps[j]
          /\ exec'.started = exec.started /\ byHand' = byHand
          /\ ~byHand => exec'.patchDate = exec.patchDate
      BY <1>2, MarkedFacts
    <2>2. \A j \in TimedDone : steps'[j] = steps[j]
      BY <2>1 DEF TimedDone
    <2>3. \A j \in Number : ~steps'[j].done => steps'[j].started = Null
      BY <2>1 DEF IInv, TimesInv, Ordered
    <2>4. clock \in Nat
      BY InstantsAssumption DEF IInv, TypeOK, StepTimesTypeOK
    <2> QED BY <2>1, <2>2, <2>3, <2>4, SameTimes, StepDoneTypes
  <1> QED BY <1>1, <1>2

\* A step that leaves the execution and its steps alone.
LEMMA ElsewhereInv ==
    ASSUME IInv, UNCHANGED <<steps, history>>, clock' \in Instants,
           clock <= clock', exec' \in ExecRow, byHand' \in BOOLEAN,
           exec'.started = exec.started,
           ~byHand' => ~byHand /\ exec'.patchDate = exec.patchDate
    PROVE  StepTimesTypeOK' /\ TimesInv'
  <1>1. StepTimesTypeOK'
    BY DEF IInv, TypeOK, StepTimesTypeOK
  <1>2. \A j \in Number : ~steps'[j].done => steps'[j].started = Null
    BY DEF IInv, TimesInv, Ordered
  <1>3. TimedDone' = TimedDone /\ clock' \in Nat
    BY InstantsAssumption DEF TimedDone
  <1> QED BY <1>1, <1>2, <1>3, SameTimes

LEMMA UndoneInv ==
    ASSUME IInv, Abort \/ Reset
    PROVE  StepTimesTypeOK' /\ TimesInv'
  <1>1. /\ clock' = clock /\ history' = history /\ steps' = Undone(steps)
        /\ exec' \in ExecRow /\ exec'.started = Null /\ exec'.patchDate = Null
        /\ byHand' = FALSE
    BY DEF IInv, TypeOK, StepTimesTypeOK, Abort, Reset, ExecRow, Statuses
  <1>2. Undone(steps) \in [Number -> StepRow]
    BY DEF IInv, TypeOK, StepTimesTypeOK, Undone, StepRow
  <1>3. StepTimesTypeOK'
    BY <1>1, <1>2 DEF IInv, TypeOK, StepTimesTypeOK
  <1> QED BY <1>1, <1>3, UndoneTimes

LEMMA InitInv == Init => IInv
  <1> SUFFICES ASSUME Init PROVE IInv
    OBVIOUS
  <1>1. PICK timed \in [Number -> BOOLEAN] :
            steps = [i \in Number |-> [timed |-> timed[i], done |-> FALSE,
                                       started |-> Null, finished |-> Null]]
    BY DEF Init, StepTimesInit
  <1>2. steps \in [Number -> StepRow]
    BY <1>1 DEF StepRow
  <1>0. PICK st \in Statuses, given \in GivenDates \union {Null},
             planned \in PlanDates \union {Null} :
                exec = [status |-> st, deleted |-> FALSE, started |-> Null,
                        completedAt |-> Null, patchDate |-> given,
                        planned |-> planned]
    BY DEF Init, StepTimesInit
  <1>3. TypeOK
    <2>1. exec \in ExecRow
      BY <1>0 DEF ExecRow, DayColumn
    <2> QED BY <1>2, <2>1, EnvOfAssumption
            DEF Init, StepTimesInit, TypeOK, StepTimesTypeOK, ServerRow,
                ActivityRow
  <1>4. \A i \in Number : ~steps[i].done /\ steps[i].started = Null
    BY <1>1
  <1>5. TimedDone = {}
    BY <1>4 DEF TimedDone
  <1>6. exec.started = Null /\ (~byHand => exec.patchDate = Null)
    BY <1>0 DEF Init, StepTimesInit
  <1>7. TimesInv
    BY <1>4, <1>5, <1>6 DEF TimesInv, Ordered, Dated, Covered, StepsTile
  <1> QED BY <1>3, <1>7 DEF IInv

\* The requests for the customer's rows and the activity.
LEMMA RowsInv ==
    ASSUME IInv, UNCHANGED stepTimes,
           server' \in [Server -> ServerRow], liveEnv' \subseteq Env,
           activity' \in ActivityRow
    PROVE  IInv'
  <1>1. /\ UNCHANGED <<steps, history, exec, clock, byHand>>
        /\ byHand \in BOOLEAN
        /\ clock \in Instants /\ clock \in Nat /\ exec \in ExecRow
    BY InstantsAssumption DEF stepTimes, IInv, TypeOK, StepTimesTypeOK
  <1>2. clock <= clock'
    BY <1>1
  <1>3. StepTimesTypeOK' /\ TimesInv'
    BY <1>1, <1>2, ElsewhereInv
  <1> QED BY <1>3 DEF IInv, TypeOK

LEMMA NextInv == IInv /\ [Next]_vars => IInv'
  <1> SUFFICES ASSUME IInv, [Next]_vars PROVE IInv'
    OBVIOUS
  <1>0. /\ clock \in Instants /\ clock \in Nat /\ exec \in ExecRow
        /\ server \in [Server -> ServerRow] /\ liveEnv \subseteq Env
        /\ activity \in ActivityRow /\ byHand \in BOOLEAN
    BY InstantsAssumption DEF IInv, TypeOK, StepTimesTypeOK
  <1>1. CASE (Pass \/ StepTimesNext) /\ UNCHANGED <<customer, activity>>
    <2>1. StepTimesTypeOK' /\ TimesInv'
      <3>1. CASE Pass
        <4>1. /\ UNCHANGED <<steps, history, exec, byHand>>
              /\ clock' \in Instants
              /\ clock <= clock'
          BY <1>0, <3>1, InstantsAssumption DEF Pass
        <4> QED BY <1>0, <4>1, ElsewhereInv
      <3>2. CASE \E i \in Number : StepDone(i)
        BY <3>2, StepDoneInv
      <3>3. CASE Abort \/ Reset
        BY <3>3, UndoneInv
      <3>4. CASE DeleteExecution
        <4>1. /\ UNCHANGED <<steps, history, clock, byHand>> /\ exec' \in ExecRow
              /\ exec'.started = exec.started
              /\ exec'.patchDate = exec.patchDate
          BY <1>0, <3>4 DEF DeleteExecution, ExecRow
        <4>2. clock <= clock'
          BY <1>0, <4>1
        <4> QED BY <1>0, <4>1, <4>2, ElsewhereInv
      <3>5. ASSUME NEW st \in Statuses, NEW planned \in PlanDates \union {Null},
                   NEW given \in GivenDates \union {exec.patchDate, Null},
                   Patch(st, planned, given)
            PROVE  StepTimesTypeOK' /\ TimesInv'
        <4>1. /\ UNCHANGED <<steps, history, clock>> /\ byHand' \in BOOLEAN
              /\ exec'.started = exec.started /\ exec'.patchDate = given
              /\ ~byHand' => ~byHand /\ given = exec.patchDate
              /\ exec' = [exec EXCEPT !.status = st, !.planned = planned,
                                      !.patchDate = given]
          BY <1>0, <3>5 DEF Patch, ExecRow
        <4>2. given \in DayColumn \union {Null}
          BY <1>0 DEF ExecRow, DayColumn
        <4>3. exec' \in ExecRow
          BY <1>0, <4>1, <4>2 DEF ExecRow
        <4>4. clock <= clock'
          BY <1>0, <4>1
        <4> QED BY <1>0, <4>1, <4>3, <4>4, ElsewhereInv
      <3> QED BY <1>1, <3>1, <3>2, <3>3, <3>4, <3>5 DEF StepTimesNext
    <2> QED BY <1>0, <1>1, <2>1 DEF IInv, TypeOK, customer
  <1>2. CASE UNCHANGED vars
    BY <1>0, <1>2, RowsInv DEF vars, customer
  <1>3. ASSUME UNCHANGED <<stepTimes, activity>>,
               server' \in [Server -> ServerRow], liveEnv' \subseteq Env
        PROVE  IInv'
    BY <1>0, <1>3, RowsInv
  <1>4. CASE \E s \in Server, d \in CertDates \union {Null} : SetCert(s, d)
    <2>1. UNCHANGED <<stepTimes, liveEnv, activity>>
          /\ server' \in [Server -> ServerRow]
      BY <1>0, <1>4 DEF SetCert, ServerRow
    <2> QED BY <1>0, <1>3, <2>1
  <1>5. CASE \E s \in Server, e \in Env : MoveServer(s, e)
    <2>1. UNCHANGED <<stepTimes, liveEnv, activity>>
          /\ server' \in [Server -> ServerRow]
      BY <1>0, <1>5 DEF MoveServer, ServerRow
    <2> QED BY <1>0, <1>3, <2>1
  <1>6. CASE \E s \in Server : DeleteServer(s)
    <2>1. UNCHANGED <<stepTimes, liveEnv, activity>>
          /\ server' \in [Server -> ServerRow]
      BY <1>0, <1>6 DEF DeleteServer, ServerRow
    <2> QED BY <1>0, <1>3, <2>1
  <1>7. CASE \E e \in Env : DeleteEnv(e)
    BY <1>0, <1>3, <1>7 DEF DeleteEnv
  <1>8. CASE \/ \E d \in Dates : Schedule(d) \/ Reschedule(d)
             \/ \E st \in {"scheduled", "completed"} : SetStatus(st)
             \/ Complete
             \/ DeleteActivity
    <2>1. UNCHANGED <<stepTimes, customer>> /\ activity' \in ActivityRow
      BY <1>0, <1>8 DEF Schedule, Reschedule, SetStatus, Complete,
                        DeleteActivity, OnActivity, ActivityRow
    <2> QED BY <1>0, <2>1, RowsInv DEF customer
  <1> QED BY <1>1, <1>2, <1>4, <1>5, <1>6, <1>7, <1>8 DEF Next

LEMMA Invariant == Spec => []IInv
  BY InitInv, NextInv, PTL DEF Spec


LEMMA DaysAreNumbers == IInv => Days
  BY InstantsAssumption DEF IInv, TypeOK, StepTimesTypeOK, Days
-----------------------------------------------------------------------------
(* The events of a calendar. *)

\* A date on a calendar of v weeks is on one of w, when w asks for more.
LEMMA WindowGrows ==
    ASSUME clock \in Nat, NEW v \in Asks, NEW w \in Asks, Said(v) <= Said(w),
           NEW d \in Int
    PROVE  /\ InWindow(d, v) => InWindow(d, w)
           /\ d < End(v) => d < End(w)
  <1>1. /\ LookbackStart(v) \in Int /\ End(v) \in Int
        /\ LookbackStart(w) \in Int /\ End(w) \in Int
        /\ LookbackStart(w) <= LookbackStart(v) /\ End(v) <= End(w)
    BY WindowFacts
  <1> QED BY <1>1 DEF InWindow

\* The certificates a calendar shows.
LEMMA CertShown ==
    ASSUME Days, NEW w \in Asks
    PROVE  /\ \A ev \in Events(w) : ev.kind = "cert" =>
                  /\ ev.id \in Server /\ ~server[ev.id].deleted
                  /\ server[ev.id].cert # Null
                  /\ ev.late = (server[ev.id].cert < Today)
           /\ \A s \in Server :
                  /\ ~server[s].deleted /\ server[s].cert # Null
                  /\ server[s].cert < End(w)
                  => \E ev \in Events(w) :
                         /\ ev.kind = "cert" /\ ev.id = s
                         /\ ev.late = (server[s].cert < Today)
  <1>1. ASSUME NEW ev \in Events(w), ev.kind = "cert"
        PROVE  /\ ev.id \in Server /\ ~server[ev.id].deleted
               /\ server[ev.id].cert # Null
               /\ ev.late = (server[ev.id].cert < Today)
    <2>1. ev \in CertEvents(w)
      BY <1>1 DEF Events, ActivityEvents, HistoryEvents, PlannedEvents, Event
    <2> QED BY <2>1 DEF CertEvents, Event
  <1>2. ASSUME NEW s \in Server, ~server[s].deleted, server[s].cert # Null,
               server[s].cert < End(w)
        PROVE  \E ev \in Events(w) :
                  /\ ev.kind = "cert" /\ ev.id = s
                  /\ ev.late = (server[s].cert < Today)
    <2> DEFINE e == Event("cert", s, server[s].cert, server[s].cert < Today)
    <2>1. e \in CertEvents(w)
      BY <1>2 DEF CertEvents
    <2>2. e \in Events(w)
      BY <2>1 DEF Events
    <2>3. e.kind = "cert" /\ e.id = s /\ e.late = (server[s].cert < Today)
      BY DEF Event
    <2> QED BY <2>2, <2>3
  <1> QED BY <1>1, <1>2

-----------------------------------------------------------------------------
(* The theorems. *)

\* The badge counts a subset of what it is computed from.
LiveCerts == {server[s].cert : s \in
                 {t \in Server : server[t].env \in liveEnv /\ ~server[t].deleted}}
                 \ {Null}

LEMMA LiveCertsFacts ==
    ASSUME Days
    PROVE  /\ LiveCerts \subseteq Nat
           /\ CertStatus = "red" <=> \E d \in LiveCerts : d < Today
           /\ CertStatus = "yellow" =>
                  /\ ~\E d \in LiveCerts : d < Today
                  /\ \E d \in LiveCerts : d < Today + SoonDays
           /\ \A d \in LiveCerts :
                  d < Today + SoonDays => CertStatus \in {"red", "yellow"}
  <1>1. LiveCerts \subseteq Nat
    <2> SUFFICES ASSUME NEW s \in Server, server[s].cert # Null
                 PROVE  server[s].cert \in Nat
      BY DEF LiveCerts
    <2>1. server[s].cert \in CertDates \union {Null}
      BY DEF Days, ServerRow
    <2> QED BY <2>1, DatesAssumption
  <1>2. CertStatus = CASE LiveCerts = {} -> "unknown"
          [] \E d \in LiveCerts : d < Today -> "red"
          [] OTHER -> IF \E d \in LiveCerts : d < Today + SoonDays
                      THEN "yellow" ELSE "green"
    BY DEF CertStatus, LiveCerts
  <1>3. CASE LiveCerts = {}
    BY <1>2, <1>3, <1>1
  <1>4. CASE \E d \in LiveCerts : d < Today
    <2>1. LiveCerts # {}
      BY <1>4
    <2>2. CertStatus = "red"
      BY <1>2, <1>4, <2>1
    <2> QED BY <1>1, <1>4, <2>2
  <1>5. CASE LiveCerts # {} /\ ~\E d \in LiveCerts : d < Today
    <2>1. CertStatus = IF \E d \in LiveCerts : d < Today + SoonDays
                       THEN "yellow" ELSE "green"
      BY <1>2, <1>5
    <2> QED BY <1>1, <1>5, <2>1
  <1> QED BY <1>3, <1>4, <1>5

\* What follows for the badge, of any state.
BadgeTells ==
    /\ CertStatus = "red" <=> \E d \in LiveCerts : d < Today
    /\ \A d \in LiveCerts :
           d < Today + SoonDays => CertStatus \in {"red", "yellow"}

LEMMA BadgeFacts == Days => BadgeTells
  BY LiveCertsFacts DEF BadgeTells

\* The red badge and the EXPIRED label say the same of every customer
\* (serializers.py:147, views.py:95).
THEOREM RedMeansExpired == Spec => []RedIsExpired
<1>1. Days => RedIsExpired
  <2> SUFFICES ASSUME Days, NEW w \in Weeks, Said(w) >= 1
               PROVE  CertStatus = "red" <=>
                        \E ev \in Events(w) : /\ ev.kind = "cert" /\ ev.late
                                              /\ server[ev.id].env \in liveEnv
    BY DEF RedIsExpired
  <2>1. w \in Asks /\ Said(w) \in Int
    BY WeeksAssumption, CappedFacts DEF Asks
  <2>2. Today \in Nat /\ End(w) \in Int /\ Today < End(w)
    BY <2>1, TodayFacts, WindowFacts DEF Days
  <2>3. ASSUME CertStatus = "red"
        PROVE  \E ev \in Events(w) : /\ ev.kind = "cert" /\ ev.late
                                     /\ server[ev.id].env \in liveEnv
    <3>1. PICK d \in LiveCerts : d < Today
      BY <2>3, LiveCertsFacts
    <3>2. PICK s \in Server : /\ server[s].env \in liveEnv /\ ~server[s].deleted
                              /\ server[s].cert = d /\ d # Null
      BY <3>1 DEF LiveCerts
    <3>3. d \in Nat /\ server[s].cert < End(w)
      BY <2>2, <3>1, <3>2, LiveCertsFacts
    <3>4. PICK ev \in Events(w) : /\ ev.kind = "cert" /\ ev.id = s
                                  /\ ev.late = (server[s].cert < Today)
      BY <2>1, <3>2, <3>3, CertShown
    <3> QED BY <3>1, <3>2, <3>4
  <2>4. ASSUME NEW ev \in Events(w), ev.kind = "cert", ev.late,
               server[ev.id].env \in liveEnv
        PROVE  CertStatus = "red"
    <3>1. /\ ev.id \in Server /\ ~server[ev.id].deleted
          /\ server[ev.id].cert # Null
          /\ server[ev.id].cert < Today
      BY <2>1, <2>4, CertShown
    <3>2. server[ev.id].cert \in LiveCerts
      BY <2>4, <3>1 DEF LiveCerts
    <3> QED BY <3>1, <3>2, LiveCertsFacts
  <2> QED BY <2>3, <2>4
<1> QED BY <1>1, DaysAreNumbers, Invariant, PTL

\* What turned the badge yellow is on the default calendar and on every one of
\* six weeks or more.
THEOREM YellowMeansListed == Spec => []YellowIsListed
<1>1. Days => YellowIsListed
  <2> SUFFICES ASSUME Days, CertStatus = "yellow",
                      NEW w \in Weeks, Said(w) >= 6
               PROVE  \E ev \in Events(w) : /\ ev.kind = "cert" /\ ~ev.late
                                            /\ server[ev.id].env \in liveEnv
    BY DEF YellowIsListed
  <2>1. w \in Asks /\ Said(w) \in Int
    BY WeeksAssumption, CappedFacts DEF Asks
  <2>2. Today \in Nat /\ End(w) \in Int /\ Today + SoonDays < End(w)
    BY <2>1, TodayFacts, WindowFacts DEF Days
  <2>3. PICK d \in LiveCerts : ~(d < Today) /\ d < Today + SoonDays
    BY LiveCertsFacts
  <2>4. PICK s \in Server : /\ server[s].env \in liveEnv /\ ~server[s].deleted
                            /\ server[s].cert = d /\ d # Null
    BY <2>3 DEF LiveCerts
  <2>5. d \in Nat /\ server[s].cert < End(w)
    BY <2>2, <2>3, <2>4, LiveCertsFacts DEF SoonDays
  <2>6. PICK ev \in Events(w) : /\ ev.kind = "cert" /\ ev.id = s
                                /\ ev.late = (server[s].cert < Today)
    BY <2>1, <2>4, <2>5, CertShown
  <2> QED BY <2>3, <2>4, <2>6
<1> QED BY <1>1, DaysAreNumbers, Invariant, PTL

\* More weeks asked for, by any two values of the parameter or by its default,
\* never show less, in all four tables.
THEOREM WiderCalendar == Spec => []WiderShowsMore
<1>1. Days => WiderShowsMore
  <2> SUFFICES ASSUME Days, NEW v \in Weeks, NEW w \in Weeks,
                      Said(v) <= Said(w)
               PROVE  Events(v) \subseteq Events(w)
    BY DEF WiderShowsMore
  <2>1. v \in Asks /\ w \in Asks
    BY WeeksAssumption DEF Asks
  <2>2. \A d \in Nat : /\ InWindow(d, v) => InWindow(d, w)
                       /\ d < End(v) => d < End(w)
    BY <2>1, WindowGrows DEF Days
  <2>3. ActivityEvents(v) \subseteq ActivityEvents(w)
    BY <2>2, DatesAssumption DEF ActivityEvents
  <2>4. CertEvents(v) \subseteq CertEvents(w)
    <3>1. \A s \in Server : server[s].cert # Null => server[s].cert \in Nat
      BY DatesAssumption DEF Days, ServerRow
    <3> QED BY <2>2, <3>1 DEF CertEvents
  <2>5. HistoryEvents(v) \subseteq HistoryEvents(w)
    <3>1. history \subseteq Nat
      <4>1. \A t \in Instants : Day(t) \in Nat
        BY InstantsAssumption, TicksAssumption DEF Day
      <4> QED BY <4>1, GivenDatesAssumption DEF Days, DayColumn
    <3> QED BY <2>2, <3>1 DEF HistoryEvents
  <2>6. PlannedEvents(v) \subseteq PlannedEvents(w)
    BY <2>2, DatesAssumption DEF PlannedEvents
  <2> QED BY <2>3, <2>4, <2>5, <2>6 DEF Events
<1> QED BY <1>1, DaysAreNumbers, Invariant, PTL

-----------------------------------------------------------------------------
(* The times of the steps. *)

\* Each state has the types it should.
THEOREM TypesHold == Spec => []TypeOK
<1>1. IInv => TypeOK
  BY DEF IInv
<1> QED BY <1>1, Invariant, PTL

\* The step clocks leave no gap between the execution's start and the last
\* finish (services.py:118).
THEOREM ChainHolds == Spec => []NoGaps
<1>1. IInv => NoGaps
  <2> SUFFICES ASSUME IInv, TimedDone # {}
               PROVE  /\ \A i \in TimedDone : exec.started <= steps[i].started
                      /\ \A t \in exec.started..
                               Max({steps[i].finished : i \in TimedDone}) :
                             \E i \in TimedDone :
                                 /\ steps[i].started <= t
                                 /\ t <= steps[i].finished
    BY DEF NoGaps
  <2> DEFINE finishes == {steps[i].finished : i \in TimedDone}
  <2>1. clock \in Nat
    BY InstantsAssumption DEF IInv, TypeOK, StepTimesTypeOK
  <2>2. finishes \in SUBSET Nat /\ \A k \in finishes : k <= clock
    BY DEF IInv, TimesInv, Ordered, TimedDone
  <2>3. finishes # {}
    OBVIOUS
  <2>4. Max(finishes) \in finishes
    <3> HIDE DEF finishes
    <3> QED BY <2>1, <2>2, <2>3, MaxFacts
  <2>5. PICK j \in TimedDone : steps[j].finished = Max(finishes)
    BY <2>4
  <2>6. \A i \in TimedDone : exec.started <= steps[i].started
    BY DEF IInv, TimesInv, Ordered, TimedDone
  <2> QED BY <2>5, <2>6 DEF IInv, TimesInv, Covered
<1> QED BY <1>1, Invariant, PTL

\* Steps finished in the order of their numbers follow on each other.
THEOREM TilesHold == Spec => []StepsTile
<1>1. IInv => StepsTile
  BY DEF IInv, TimesInv
<1> QED BY <1>1, Invariant, PTL

\* A run whose patch_date nobody wrote is filed under the day of its own first
\* timed step.
THEOREM FiledOnRunDay == Spec => PatchedOnRunDay
<1>1. ASSUME IInv, IInv', NEW i \in Number, StepDone(i), ~byHand
      PROVE  history' \ history \subseteq {RunDay'}
  <2>1. SUFFICES ASSUME Finalized(Started(i))
                 PROVE  history' \ history \subseteq {RunDay'}
    BY <1>1 DEF StepDone
  <2>2. /\ exec'.patchDate = Started(i).patchDate /\ Today' = Today
        /\ byHand' = byHand
    BY <1>1, MarkedFacts DEF Today
  <2>3. history' \ history \subseteq {IF exec'.patchDate = Null THEN Today'
                                      ELSE exec'.patchDate}
    BY <2>1, <2>2 DEF Finalized
  <2>4. CASE TimedDone' = {}
    BY <1>1, <2>2, <2>3, <2>4 DEF IInv, TimesInv, Dated, RunDay
  <2>5. CASE TimedDone' # {}
    <3> DEFINE finishes == {steps'[j].finished : j \in TimedDone'}
    <3>1. /\ exec'.started \in Nat /\ exec'.patchDate = Day(exec'.started)
          /\ exec'.started \in finishes
      BY <1>1, <2>2, <2>5 DEF IInv, TimesInv, Dated
    <3>2. \A j \in TimedDone' : /\ steps'[j].started \in Nat
                                /\ steps'[j].finished \in Nat
                                /\ exec'.started <= steps'[j].started
                                /\ steps'[j].started <= steps'[j].finished
      BY <1>1 DEF IInv, TimesInv, Ordered, TimedDone
    <3>3. finishes \in SUBSET Nat /\ \A k \in finishes : exec'.started <= k
      BY <3>1, <3>2
    <3>4. Min(finishes) = exec'.started
      <4>1. Min(finishes) \in finishes /\ Min(finishes) <= exec'.started
        <5> HIDE DEF finishes
        <5> QED BY <3>1, <3>3, MinFacts
      <4>2. exec'.started <= Min(finishes) /\ Min(finishes) \in Nat
        <5> HIDE DEF finishes
        <5> QED BY <3>3, <4>1
      <4> QED
        <5> HIDE DEF finishes
        <5> QED BY <3>1, <4>1, <4>2
    <3>5. RunDay' = Day(Min(finishes))
      BY <2>5 DEF RunDay, Day
    <3>6. exec'.patchDate # Null
      BY <3>1, DayFacts
    <3> QED BY <2>3, <3>1, <3>4, <3>5, <3>6
  <2> QED BY <2>4, <2>5
<1>2. IInv /\ IInv' /\ [Next]_vars =>
          [~byHand => history' \ history \subseteq {RunDay'}]_stepTimes
  <2> SUFFICES ASSUME IInv, IInv', [Next]_vars, ~byHand
               PROVE  history' \ history \subseteq {RunDay'} \/ UNCHANGED stepTimes
    OBVIOUS
  <2>1. CASE StepTimesNext
    <3>1. CASE \E i \in Number : StepDone(i)
      BY <1>1, <3>1
    <3>2. CASE history' = history
      BY <3>2
    <3> QED BY <2>1, <3>1, <3>2
            DEF StepTimesNext, Abort, Reset, Patch, DeleteExecution
  <2>2. CASE history' = history
    BY <2>2
  <2>3. CASE UNCHANGED stepTimes
    BY <2>3
  <2> QED BY <2>1, <2>2, <2>3
          DEF Next, Pass, SetCert, MoveServer, DeleteServer, DeleteEnv, Schedule,
              Reschedule, SetStatus, Complete, DeleteActivity, OnActivity, vars
<1> QED BY <1>2, Invariant, PTL DEF Spec, PatchedOnRunDay

-----------------------------------------------------------------------------
(* Time. *)

\* A later day is in no earlier week.
LEMMA WeekGrows ==
    ASSUME NEW d \in Nat, NEW e \in Nat, d <= e
    PROVE  /\ d - (d % 7) \in Int /\ e - (e % 7) \in Int
           /\ d - (d % 7) <= e - (e % 7)
  OBVIOUS

\* A later day's windows begin and end no earlier.
LEMMA LaterWindow ==
    ASSUME clock \in Nat, clock' \in Nat, clock <= clock', NEW w \in Asks
    PROVE  /\ Today \in Nat /\ Today' \in Nat /\ Today <= Today'
           /\ End(w) \in Int /\ End(w)' \in Int /\ End(w) <= End(w)'
           /\ LookbackStart(w)' \in Int
  <1>1. /\ Today \in Nat /\ Today' \in Nat /\ Today <= Today'
    BY DayFacts, DayGrows DEF Today
  <1>2. /\ Monday \in Int /\ Monday' \in Int /\ Monday <= Monday'
    BY <1>1, WeekGrows DEF Monday
  <1>3. Capped(w) \in Int
    BY CappedFacts
  <1>4. /\ End(w) = Monday + 7 * Capped(w) /\ End(w)' = Monday' + 7 * Capped(w)
        /\ LookbackStart(w)' = Monday' - 7 * Capped(w)
    BY DEF End, LookbackStart
  <1> QED BY <1>1, <1>2, <1>3, <1>4

\* Days that pass make nothing better and take nothing off the calendar.
THEOREM TimeWorsens == Spec => TimeOnlyWorsens
<1> DEFINE Stays(w, ev) == \E late \in {ev.late, TRUE} :
                               [ev EXCEPT !.late = late] \in Events(w)'
<1>1. ASSUME Days, Days', Pass, UNCHANGED <<customer, activity>>
      PROVE  /\ Rank(CertStatus') >= Rank(CertStatus)
             /\ \A w \in Weeks : Said(w) >= 1 =>
                 \A ev \in Events(w) :
                     ev.kind = "cert" \/ ev.date >= LookbackStart(w)'
                     => Stays(w, ev)
  <2>1. /\ clock \in Nat /\ clock' \in Nat /\ clock <= clock'
        /\ UNCHANGED <<exec, history, server, liveEnv, activity>>
    BY <1>1 DEF Pass, Days, customer
  <2>2. Today \in Nat /\ Today' \in Nat /\ Today <= Today'
    BY <2>1, DayFacts, DayGrows DEF Today
  <2>3. Rank(CertStatus') >= Rank(CertStatus)
    <3>0. BadgeTells'
      BY <1>1, BadgeFacts, PTL
    <3>1. LiveCerts' = LiveCerts /\ LiveCerts \subseteq Nat
      BY <1>1, <2>1, LiveCertsFacts DEF LiveCerts
    <3>2. Rank(CertStatus') \in {1, 2, 3} /\ Rank(CertStatus) \in {1, 2, 3}
      BY DEF Rank
    <3>3. CASE CertStatus = "red"
      <4>1. PICK d \in LiveCerts : d < Today
        BY <1>1, <3>3, LiveCertsFacts
      <4>2. d \in LiveCerts' /\ d < Today'
        BY <2>2, <3>1, <4>1
      <4>3. CertStatus' = "red"
        BY <3>0, <4>2 DEF BadgeTells
      <4> QED BY <3>2, <3>3, <4>3
    <3>4. CASE CertStatus = "yellow"
      <4>1. PICK d \in LiveCerts : d < Today + SoonDays
        BY <1>1, <3>4, LiveCertsFacts
      <4>2. d \in LiveCerts' /\ d < Today' + SoonDays
        <5>1. d \in Nat /\ d \in LiveCerts'
          BY <3>1
        <5>2. \A a, b, c \in Nat : a < b + SoonDays /\ b <= c => a < c + SoonDays
          BY DEF SoonDays
        <5>3. d < Today' + SoonDays
          BY <2>2, <4>1, <5>1, <5>2
        <5> QED BY <5>1, <5>3
      <4>3. CertStatus' \in {"red", "yellow"}
        BY <3>0, <4>2 DEF BadgeTells
      <4> QED BY <3>4, <4>3 DEF Rank
    <3>5. CASE CertStatus \notin {"red", "yellow"}
      BY <3>2, <3>5 DEF Rank
    <3> QED BY <3>3, <3>4, <3>5
  <2>4. ASSUME NEW w \in Weeks, Said(w) >= 1, NEW ev \in Events(w),
               ev.kind = "cert" \/ ev.date >= LookbackStart(w)'
        PROVE  Stays(w, ev)
    <3>1. w \in Asks
      BY WeeksAssumption DEF Asks
    <3>2. /\ End(w) \in Int /\ End(w)' \in Int /\ End(w) <= End(w)'
          /\ LookbackStart(w)' \in Int
      BY <2>1, <3>1, LaterWindow
    <3>3. \A d \in Nat : d < End(w) => d < End(w)'
      BY <3>2
    <3>4. \A d \in Nat : /\ InWindow(d, w) /\ d >= LookbackStart(w)'
                         => InWindow(d, w)'
      BY <3>2, <3>3 DEF InWindow
    <3>5. \A d \in Nat : (d < Today') \in {d < Today, TRUE}
      <4> TAKE d \in Nat
      <4>1. CASE d < Today'
        BY <4>1
      <4>2. CASE ~(d < Today')
        <5>1. ~(d < Today)
          BY <2>2, <4>2
        <5>2. (d < Today') = FALSE /\ (d < Today) = FALSE
          BY <4>2, <5>1
        <5> HIDE <4>2, <5>1
        <5> QED BY <5>2
      <4> QED BY <4>1, <4>2
    <3>6. CASE ev \in ActivityEvents(w)
      <4>1. PICK d \in Dates : /\ ev = Event("activity", "activity", d, d < Today)
                               /\ d = activity.at /\ ~activity.deleted
                               /\ activity.status = "scheduled" /\ InWindow(d, w)
        BY <3>6 DEF ActivityEvents
      <4>2. d \in Nat /\ ev.kind = "activity" /\ ev.date = d /\ ev.late = (d < Today)
        BY <4>1, DatesAssumption DEF Event
      <4>3. InWindow(d, w)'
        BY <2>4, <3>4, <4>1, <4>2
      <4>4. Event("activity", "activity", d, d < Today') \in ActivityEvents(w)'
        BY <2>1, <4>1, <4>3 DEF ActivityEvents
      <4>5. [ev EXCEPT !.late = (d < Today')]
                = Event("activity", "activity", d, d < Today')
        BY <4>1 DEF Event
      <4>6. (d < Today') \in {ev.late, TRUE}
        BY <3>5, <4>2
      <4> QED BY <4>4, <4>5, <4>6 DEF Events
    <3>7. CASE ev \in CertEvents(w)
      <4>1. PICK s \in Server :
                /\ ev = Event("cert", s, server[s].cert, server[s].cert < Today)
                /\ ~server[s].deleted /\ server[s].cert # Null
                /\ server[s].cert < End(w)
        BY <3>7 DEF CertEvents
      <4> DEFINE d == server[s].cert
      <4>2. d \in Nat /\ ev.late = (d < Today)
        BY <1>1, <4>1, DatesAssumption DEF Event, Days, ServerRow
      <4>3. Event("cert", s, d, d < Today') \in CertEvents(w)'
        BY <2>1, <3>3, <4>1, <4>2 DEF CertEvents
      <4>4. [ev EXCEPT !.late = (d < Today')] = Event("cert", s, d, d < Today')
        BY <4>1 DEF Event
      <4>5. (d < Today') \in {ev.late, TRUE}
        BY <3>5, <4>2
      <4> QED BY <4>3, <4>4, <4>5 DEF Events
    <3>8. CASE ev \in HistoryEvents(w)
      <4>1. PICK d \in history : /\ ev = Event("patch", "history", d, FALSE)
                                 /\ InWindow(d, w)
        BY <3>8 DEF HistoryEvents
      <4>2. d \in Nat /\ ev.kind = "patch" /\ ev.date = d
        BY <1>1, <4>1, DayFacts, InstantsAssumption, GivenDatesAssumption
           DEF Days, DayColumn, Event
      <4>3. InWindow(d, w)'
        BY <2>4, <3>4, <4>1, <4>2
      <4>4. ev \in HistoryEvents(w)'
        BY <2>1, <4>1, <4>3 DEF HistoryEvents
      <4>5. [ev EXCEPT !.late = ev.late] = ev
        BY <4>1 DEF Event
      <4> QED BY <4>4, <4>5 DEF Events
    <3>9. CASE ev \in PlannedEvents(w)
      <4>1. PICK d \in PlanDates :
                /\ ev = Event("patch_planned", "execution", d, FALSE)
                /\ d = exec.planned /\ ~exec.deleted
                /\ exec.status = "active" /\ InWindow(d, w)
        BY <3>9 DEF PlannedEvents
      <4>2. d \in Nat /\ ev.kind = "patch_planned" /\ ev.date = d
        BY <4>1, DatesAssumption DEF Event
      <4>3. InWindow(d, w)'
        BY <2>4, <3>4, <4>1, <4>2
      <4>4. ev \in PlannedEvents(w)'
        BY <2>1, <4>1, <4>3 DEF PlannedEvents
      <4>5. [ev EXCEPT !.late = ev.late] = ev
        BY <4>1 DEF Event
      <4> QED BY <4>4, <4>5 DEF Events
    <3> QED BY <2>4, <3>6, <3>7, <3>8, <3>9 DEF Events
  <2> QED BY <2>3, <2>4
<1>2. ASSUME IInv, IInv', [Next]_vars, clock' > clock
      PROVE  Pass /\ UNCHANGED <<customer, activity>>
  <2>1. clock \in Nat /\ clock' # clock
    BY <1>2, InstantsAssumption DEF IInv, TypeOK, StepTimesTypeOK
  <2> QED BY <1>2, <2>1
          DEF Next, StepTimesNext, StepDone, Abort, Reset, Patch,
              DeleteExecution, SetCert, MoveServer, DeleteServer, DeleteEnv,
              Schedule, Reschedule, SetStatus, Complete, DeleteActivity,
              OnActivity, vars, stepTimes
<1>3. IInv => Days
  BY DaysAreNumbers
<1>4. IInv' => Days'
  BY DaysAreNumbers, PTL
<1>5. IInv /\ IInv' /\ [Next]_vars =>
        [clock' > clock =>
          /\ Rank(CertStatus') >= Rank(CertStatus)
          /\ \A w \in Weeks : Said(w) >= 1 =>
              \A ev \in Events(w) :
                  ev.kind = "cert" \/ ev.date >= LookbackStart(w)'
                  => Stays(w, ev)]_vars
  BY <1>1, <1>2, <1>3, <1>4
<1> QED BY <1>5, Invariant, PTL DEF Spec, TimeOnlyWorsens
=============================================================================
