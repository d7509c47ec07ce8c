------------------------------ MODULE StepTimes ------------------------------
(***************************************************************************)
(* The dates and times of one patch execution: when it and its steps start *)
(* and finish, the day the run counts as done on, and the days that the    *)
(* patch history gets.  PatchRun has the same requests without a clock.    *)
(*                                                                         *)
(* Requests run one at a time here.  total_time is started..finished as    *)
(* text, or what a person typed over it, and nothing reads it.             *)
(***************************************************************************)
EXTENDS Naturals, FiniteSets, FiniteSetsExt

CONSTANTS
    Instants,     \* the moments at which something happens
    TicksPerDay,  \* how many units of time a day has
    PlanDates,    \* the days a person plans a run for
    GivenDates,   \* the days a person writes into patch_date
    NSteps,       \* how many steps the execution's snapshot has
    Null          \* SQL's NULL

ASSUME InstantsAssumption == Instants \subseteq Nat /\ Instants # {}
ASSUME TicksAssumption == TicksPerDay \in Nat \ {0}
ASSUME NStepsAssumption == NSteps \in Nat
ASSUME NullAssumption == Null \notin Nat
ASSUME GivenDatesAssumption == GivenDates \subseteq Nat

VARIABLES
    clock,    \* timezone.now()
    exec,     \* the row of patch_executions
    steps,    \* its rows of patch_execution_steps, by step_num
    history,  \* patched_on of the patch_history rows of its environment
    byHand    \* history: patch_date is what a request wrote into it

stepTimes == <<clock, exec, steps, history, byHand>>

Number == 1..NSteps

Day(t) == t \div TicksPerDay

Today == Day(clock)

Statuses == {"active", "completed", "aborted"}

DayColumn == {Day(t) : t \in Instants} \union GivenDates

ExecRow == [status : Statuses, deleted : BOOLEAN,
            started : Instants \union {Null},
            completedAt : Instants \union {Null},
            patchDate : DayColumn \union {Null},
            planned : PlanDates \union {Null}]

StepRow == [timed : BOOLEAN, done : BOOLEAN,
            started : Instants \union {Null},
            finished : Instants \union {Null}]

\* The types of the execution's part of the state.
StepTimesTypeOK ==
    /\ clock \in Instants
    /\ exec \in ExecRow
    /\ steps \in [Number -> StepRow]
    /\ history \subseteq DayColumn
    /\ byHand \in BOOLEAN

\* The execution as a POST leaves it, which may carry its status and dates.
StepTimesInit ==
    /\ clock \in Instants /\ \A t \in Instants : clock <= t
    /\ \E st \in Statuses, given \in GivenDates \union {Null},
          planned \in PlanDates \union {Null} :
           exec = [status |-> st, deleted |-> FALSE, started |-> Null,
                   completedAt |-> Null, patchDate |-> given, planned |-> planned]
    /\ \E timed \in [Number -> BOOLEAN] :
           steps = [i \in Number |-> [timed |-> timed[i], done |-> FALSE,
                                      started |-> Null, finished |-> Null]]
    /\ history = {}
    /\ byHand = (exec.patchDate # Null)

\* Time passes.
Pass == /\ clock' \in {t \in Instants : t > clock}
        /\ UNCHANGED <<exec, steps, history, byHand>>

-----------------------------------------------------------------------------
(* mark_step_done. *)

\* Variant: the time is kept where its day belongs.
StartedAtTime(i) ==
    IF steps[i].timed /\ exec.started = Null
    THEN [exec EXCEPT !.started = clock,
                      !.patchDate = IF @ = Null THEN clock ELSE @]
    ELSE exec

\* The execution once step i is being marked: its clock starts with the
\* first timed step.
Started(i) ==
    IF steps[i].timed /\ exec.started = Null
    THEN [exec EXCEPT !.started = clock,
                      !.patchDate = IF @ = Null THEN Today ELSE @]
    ELSE exec

\* Variant: the step before it counts, timed or not.
StartAfterAny(i) ==
    LET before == {j \in 1..(i - 1) : steps[j].done}
        prior == steps[Max(before)].finished
    IN  IF before # {} /\ prior # Null THEN prior ELSE Started(i).started

\* The finish of the timed step done before it, or else the execution's start.
StartOf(i) ==
    LET before == {j \in 1..(i - 1) : steps[j].done /\ steps[j].timed}
        prior == steps[Max(before)].finished
    IN  IF before # {} /\ prior # Null THEN prior ELSE Started(i).started

Timed(i) ==
    IF ~steps[i].timed THEN [steps EXCEPT ![i].done = TRUE]
    ELSE [steps EXCEPT ![i].done = TRUE, ![i].finished = clock,
                       ![i].started = IF @ = Null THEN StartOf(i) ELSE @]

\* finalize_execution: whether a row is written is Inventory's subject.
Finalized(row) ==
    /\ exec' = [row EXCEPT !.status = "completed", !.completedAt = clock]
    /\ \/ history' = history \union
              {IF row.patchDate = Null THEN Today ELSE row.patchDate}
       \/ UNCHANGED history

StepDone(i) ==
    /\ ~exec.deleted /\ ~steps[i].done
    /\ steps' = Timed(i)
    /\ IF \A j \in Number : steps'[j].done
       THEN Finalized(Started(i))
       ELSE exec' = Started(i) /\ UNCHANGED history
    /\ UNCHANGED <<clock, byHand>>

-----------------------------------------------------------------------------
(* The other requests for the execution. *)

Undone(rows) == [i \in Number |-> [rows[i] EXCEPT !.done = FALSE,
                     !.started = Null, !.finished = Null]]

\* abort_execution leaves the status.
Abort ==
    /\ ~exec.deleted
    /\ steps' = Undone(steps)
    /\ exec' = [exec EXCEPT !.started = Null, !.patchDate = Null]
    /\ byHand' = FALSE
    /\ UNCHANGED <<clock, history>>

\* Variants: a column is forgotten.
ResetKeepsDay ==
    /\ ~exec.deleted
    /\ steps' = Undone(steps)
    /\ exec' = [exec EXCEPT !.status = "active", !.started = Null,
                            !.completedAt = Null]
    /\ byHand' = FALSE
    /\ UNCHANGED <<clock, history>>

ResetKeepsTimes ==
    /\ ~exec.deleted
    /\ steps' = [i \in Number |-> [steps[i] EXCEPT !.done = FALSE]]
    /\ exec' = [exec EXCEPT !.status = "active", !.started = Null,
                            !.completedAt = Null, !.patchDate = Null]
    /\ byHand' = FALSE
    /\ UNCHANGED <<clock, history>>

Reset ==
    /\ ~exec.deleted
    /\ steps' = Undone(steps)
    /\ exec' = [exec EXCEPT !.status = "active", !.started = Null,
                            !.completedAt = Null, !.patchDate = Null]
    /\ byHand' = FALSE
    /\ UNCHANGED <<clock, history>>

\* PATCH: the serializer lets these three columns be written, in any state.
Patch(st, planned, given) ==
    /\ ~exec.deleted
    /\ exec' = [exec EXCEPT !.status = st, !.planned = planned, !.patchDate = given]
    /\ byHand' = (byHand \/ given # exec.patchDate)
    /\ UNCHANGED <<clock, steps, history>>

DeleteExecution ==
    /\ ~exec.deleted
    /\ exec' = [exec EXCEPT !.deleted = TRUE]
    /\ UNCHANGED <<clock, steps, history, byHand>>

StepTimesNext ==
    \/ \E i \in Number : StepDone(i)
    \/ Abort
    \/ Reset
    \/ \E st \in Statuses, planned \in PlanDates \union {Null},
          given \in GivenDates \union {exec.patchDate, Null} :
           Patch(st, planned, given)
    \/ DeleteExecution

-----------------------------------------------------------------------------
TimedDone == {i \in Number : steps[i].timed /\ steps[i].done}

\* No step starts before its execution, and from the execution's start to the
\* latest finish every moment belongs to a step, in whatever order the steps
\* were marked and after any abort or reset (services.py:118 chains them).
NoGaps ==
    TimedDone # {} =>
        /\ \A i \in TimedDone : exec.started <= steps[i].started
        /\ \A t \in exec.started..Max({steps[i].finished : i \in TimedDone}) :
               \E i \in TimedDone :
                   steps[i].started <= t /\ t <= steps[i].finished

\* Timed steps that were finished in the order of their numbers do not
\* overlap, whichever not_timed steps are clicked in between: each starts when
\* the one before it finished (services.py:112 leaves the untimed ones out).
StepsTile ==
    (\A i, j \in TimedDone : i < j => steps[i].finished < steps[j].finished)
        => \A i, j \in TimedDone :
               i < j => steps[i].finished <= steps[j].started

\* A history row bears the day on which the run it reports marked its first
\* timed step, or today's when it has none, whatever was aborted, reset or
\* re-opened before, unless a request wrote a patch_date for that run
\* (services.py:100 keeps it, services.py:202 takes the day from it).
RunDay == IF TimedDone = {} THEN Today
          ELSE Day(Min({steps[i].finished : i \in TimedDone}))

PatchedOnRunDay ==
    [][~byHand => history' \ history \subseteq {RunDay'}]_stepTimes
=============================================================================
