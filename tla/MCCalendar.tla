----------------------------- MODULE MCCalendar -----------------------------
(* Calendar with two servers in two environments.  Day 100 * 7 is a Monday. *)
EXTENDS Calendar, TLC

CONSTANTS s1, s2, dev, prod

Base == 700

\* Monday morning and evening, Sunday evening, the next Monday.
Moments == {2 * Base, 2 * Base + 1, 2 * Base + 13, 2 * Base + 14}

OneEach == s1 :> dev @@ s2 :> prod

\* Long expired; expires this Monday; the 30th day from Monday, from Sunday;
\* the last day of six weeks, and the day after it.
CertDays == {Base - 42, Base, Base + 29, Base + 35, Base + 41, Base + 42}

ActivityDays == {Base - 42, Base + 1, Base + 60}

PlanDays == {Base + 2}

WrittenDays == {Base - 7}

Asked == {-1, 0, 1, 5, 6, 12, 13, Null}

\* What a client wrote: a planned date, or a status the run did not give it.
Rewritten ==
    \/ exec.planned # Null
    \/ exec.status = "aborted"
    \/ exec.status = "completed" /\ exec.completedAt = Null

\* The run (only it asks which steps are timed), what a client wrote of it, the
\* customer and the activity share nothing but the clock and the calendar that
\* lists them, so at most one of them leaves its first state.
OneSubject ==
    Cardinality({x \in {<<1, history # {} \/ exec.completedAt # Null \/ byHand
                             \/ \E i \in Number : steps[i].timed \/ steps[i].done>>,
                        <<2, Rewritten>>,
                        <<3, liveEnv # Env \/ \E s \in Server : server[s] #
                             [env |-> EnvOf[s], cert |-> Null, deleted |-> FALSE]>>,
                        <<4, activity.at # Null>>,
                        <<IF Rewritten THEN 2 ELSE 1, exec.deleted>>} : x[2]}) <= 1

\* Bound: a day is written by hand only for a run of one timed step at most.
DatedWhenShort == byHand => Cardinality({i \in Number : steps[i].timed}) <= 1

MCSpec == Init /\ [][Next /\ OneSubject' /\ DatedWhenShort']_vars
=============================================================================
