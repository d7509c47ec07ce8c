------------------------------ MODULE Calendar ------------------------------
(***************************************************************************)
(* The critical calendar (activities/views.py), which gathers four tables  *)
(* into one list of dated events, and the certificate badge of a customer  *)
(* (customers/serializers.py), which reads one of the same tables by other *)
(* rules.  Both are functions of the rows and of today's date; the rows    *)
(* change by the requests below and by those of StepTimes.                 *)
(*                                                                         *)
(* One customer, one activity, one patch execution.  Days are numbers, and *)
(* a day divisible by 7 is a Monday; the zone is UTC throughout            *)
(* (settings.TIME_ZONE), so dates and times agree on what day it is.       *)
(***************************************************************************)
EXTENDS StepTimes, Integers

CONSTANTS
    Server,    \* servers of the customer
    Env,       \* environments of the customer
    EnvOf,     \* [Server -> Env]: where each server is at first
    CertDates, \* days on which certificates expire
    Dates,     \* days for which the activity is scheduled
    Weeks      \* values of the query parameter `weeks`, Null for none

ASSUME EnvOfAssumption == EnvOf \in [Server -> Env]
ASSUME DatesAssumption ==
    CertDates \subseteq Nat /\ Dates \subseteq Nat /\ PlanDates \subseteq Nat
ASSUME WeeksAssumption == Weeks \subseteq Int \union {Null} /\ Null \notin Int

VARIABLES
    server,    \* [Server -> row of servers]
    liveEnv,   \* environments that are not soft-deleted
    activity   \* the row of activities

customer == <<server, liveEnv>>
vars == <<stepTimes, customer, activity>>

ServerRow == [env : Env, cert : CertDates \union {Null}, deleted : BOOLEAN]

ActivityRow == [at : Dates \union {Null}, deleted : BOOLEAN,
                status : {"scheduled", "completed"}, completed : BOOLEAN]

\* Every type of the state; an activity without a date is not there yet.
TypeOK ==
    /\ StepTimesTypeOK
    /\ server \in [Server -> ServerRow]
    /\ liveEnv \subseteq Env
    /\ activity \in ActivityRow

Init ==
    /\ StepTimesInit
    /\ server = [s \in Server |->
                    [env |-> EnvOf[s], cert |-> Null, deleted |-> FALSE]]
    /\ liveEnv = Env
    /\ activity = [at |-> Null, deleted |-> FALSE,
                   status |-> "scheduled", completed |-> FALSE]

-----------------------------------------------------------------------------
(* The requests that write the rows. *)

\* PATCH of a server; its queryset looks at the server's own deleted_at.
SetCert(s, d) ==
    /\ ~server[s].deleted
    /\ server' = [server EXCEPT ![s].cert = d]
    /\ UNCHANGED <<stepTimes, liveEnv, activity>>

\* PATCH of its environment, to one that is not deleted, also from one that is.
MoveServer(s, e) ==
    /\ ~server[s].deleted /\ e \in liveEnv
    /\ server' = [server EXCEPT ![s].env = e]
    /\ UNCHANGED <<stepTimes, liveEnv, activity>>

DeleteServer(s) ==
    /\ ~server[s].deleted
    /\ server' = [server EXCEPT ![s].deleted = TRUE]
    /\ UNCHANGED <<stepTimes, liveEnv, activity>>

\* The servers of a deleted environment stay as they are.
DeleteEnv(e) ==
    /\ e \in liveEnv
    /\ liveEnv' = liveEnv \ {e}
    /\ UNCHANGED <<stepTimes, server, activity>>

OnActivity(row) ==
    /\ activity.at # Null /\ ~activity.deleted
    /\ activity' = row
    /\ UNCHANGED <<stepTimes, customer>>

Schedule(d) ==
    /\ activity.at = Null
    /\ activity' = [activity EXCEPT !.at = d]
    /\ UNCHANGED <<stepTimes, customer>>

\* PATCH: the serializer lets the status be written, but not completed_at.
Reschedule(d) == OnActivity([activity EXCEPT !.at = d])

SetStatus(st) == OnActivity([activity EXCEPT !.status = st])

Complete == OnActivity([activity EXCEPT !.status = "completed",
                                        !.completed = TRUE])

DeleteActivity == OnActivity([activity EXCEPT !.deleted = TRUE])

Next ==
    \/ Pass /\ UNCHANGED <<customer, activity>>
    \/ StepTimesNext /\ UNCHANGED <<customer, activity>>
    \/ \E s \in Server, d \in CertDates \union {Null} : SetCert(s, d)
    \/ \E s \in Server, e \in Env : MoveServer(s, e)
    \/ \E s \in Server : DeleteServer(s)
    \/ \E e \in Env : DeleteEnv(e)
    \/ \E d \in Dates : Schedule(d) \/ Reschedule(d)
    \/ \E st \in {"scheduled", "completed"} : SetStatus(st)
    \/ Complete
    \/ DeleteActivity

Spec == Init /\ [][Next]_vars

-----------------------------------------------------------------------------
(* CriticalCalendarView.get *)

Monday == Today - (Today % 7)

\* int(get("weeks", "6") or 6): a parameter that is left out or empty is 6,
\* and "0" is 0.
Said(w) == IF w = Null THEN 6 ELSE w

\* Variant: the number is tested, and not the text.
CappedOrDefault(w) ==
    IF Said(w) = 0 THEN 6 ELSE IF Said(w) > 12 THEN 12 ELSE Said(w)

Capped(w) == IF Said(w) > 12 THEN 12 ELSE Said(w)

LookbackStart(w) == Monday - 7 * Capped(w)

\* Variant: five days a week.
EndByWorkdays(w) == Monday + 5 * Capped(w)

End(w) == Monday + 7 * Capped(w)

InWindow(d, w) == LookbackStart(w) <= d /\ d < End(w)

Event(kind, id, d, late) ==
    [kind |-> kind, id |-> id, date |-> d, late |-> late]

\* `late` is the OVERDUE or EXPIRED of the label.
ActivityEvents(w) ==
    {Event("activity", "activity", d, d < Today) : d \in
        {at \in Dates : /\ at = activity.at /\ ~activity.deleted
                        /\ activity.status = "scheduled" /\ InWindow(at, w)}}

\* Variants: certificates are bounded below, or a deleted server's counts.
CertEventsInWindow(w) ==
    {Event("cert", s, server[s].cert, server[s].cert < Today) : s \in
        {t \in Server : /\ ~server[t].deleted /\ server[t].cert # Null
                        /\ InWindow(server[t].cert, w)}}

CertEventsOfAll(w) ==
    {Event("cert", s, server[s].cert, server[s].cert < Today) : s \in
        {t \in Server : server[t].cert # Null /\ server[t].cert < End(w)}}

CertEvents(w) ==
    {Event("cert", s, server[s].cert, server[s].cert < Today) : s \in
        {t \in Server : /\ ~server[t].deleted /\ server[t].cert # Null
                        /\ server[t].cert < End(w)}}

HistoryEvents(w) ==
    {Event("patch", "history", d, FALSE) : d \in
        {h \in history : InWindow(h, w)}}

PlannedEvents(w) ==
    {Event("patch_planned", "execution", d, FALSE) : d \in
        {p \in PlanDates : /\ p = exec.planned /\ ~exec.deleted
                           /\ exec.status = "active" /\ InWindow(p, w)}}

Events(w) == ActivityEvents(w) \union CertEvents(w)
                \union HistoryEvents(w) \union PlannedEvents(w)

(* OrganizationSerializer.get_cert_status *)

SoonDays == 30

CertStatus ==
    LET dates == {server[s].cert : s \in
                     {t \in Server : server[t].env \in liveEnv /\ ~server[t].deleted}}
                     \ {Null}
    IN  CASE dates = {} -> "unknown"
          [] \E d \in dates : d < Today -> "red"
          [] OTHER -> IF \E d \in dates : d < Today + SoonDays
                      THEN "yellow" ELSE "green"

-----------------------------------------------------------------------------
\* Asking for more weeks never shows less: for any two values, 0, negative,
\* left out or above the cap (views.py:51).
WiderShowsMore ==
    LET shown == [w \in Weeks |-> Events(w)]
    IN  \A v, w \in Weeks : Said(v) <= Said(w) => shown[v] \subseteq shown[w]

\* A customer's badge is red exactly when the calendar of any week or more
\* shows an EXPIRED certificate of one of its environments that still exist;
\* the two are computed apart (serializers.py:147, views.py:95).
RedIsExpired ==
    \A w \in Weeks : Said(w) >= 1 =>
        (CertStatus = "red" <=>
            \E ev \in Events(w) :
                ev.kind = "cert" /\ ev.late /\ server[ev.id].env \in liveEnv)

\* What turns a badge yellow is on the default calendar, and on any of six
\* weeks or more: 30 days from a Sunday end within the window that began on
\* its Monday.  (On a shorter one, 0 weeks included, it need not be.)
YellowIsListed ==
    CertStatus = "yellow" =>
        \A w \in Weeks : Said(w) >= 6 =>
            \E ev \in Events(w) :
                ev.kind = "cert" /\ ~ev.late /\ server[ev.id].env \in liveEnv

Rank(badge) == CASE badge = "red" -> 3 [] badge = "yellow" -> 2 [] OTHER -> 1

\* Days that pass only make things worse: no badge improves, nothing that was
\* late is in time, and nothing ahead of the lookback leaves the calendar, a
\* certificate never (views.py:94 "until someone renews them").
TimeOnlyWorsens ==
    [][clock' > clock =>
        /\ Rank(CertStatus') >= Rank(CertStatus)
        /\ \A w \in Weeks : Said(w) >= 1 =>
            \A ev \in Events(w) :
                ev.kind = "cert" \/ ev.date >= LookbackStart(w)' =>
                    \E late \in {ev.late, TRUE} :
                        [ev EXCEPT !.late = late] \in Events(w)']_vars
=============================================================================
