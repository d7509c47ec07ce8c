# Verification of the AMS dashboard

TLA+ models of the AMS dashboard (a Django REST API over Postgres, a React
single-page application, management commands that sync from JIRA), their TLC
configurations, and proofs for TLAPS.  The program's own logic is in how patch
executions are run and timed, in what the inventory says needs patching, in the
JIRA sync, in the session handling of the SPA, and in the calendar that gathers
four tables; those are modelled.

Sources are named from the repository root under `src/`, as in
`PROJECT.json`; `services.py` alone is `src/api/patching/services.py`.

## The system

### Components, state, operations

| component | state it keeps | operations that change it |
|---|---|---|
| Patch executions (`api/patching`) | `patch_executions` (status, started_at, deleted_at), `patch_execution_steps`, `patch_execution_aborts` | create, check for needed, step done (which finalizes on the last and chains the times of the steps), set elapsed, abort, reset, PATCH (of status and dates too), soft delete; a plan edit resyncs pristine executions through a signal |
| Patch plans and groups (`api/patching`) | plan steps, softwares covered; groups of both | edit a step, add, delete, renumber, import a group |
| Patch history | `patch_history`, append-only | written by `finalize_execution` only |
| Software catalog (`api/software`) | releases and their status; one Latest per software (a unique index) | create, PATCH (both demote the old Latest), soft delete |
| Baskets and installed software (`api/baskets`) | pins of a basket, assignments to servers, `server_installed_software` (release, override) | pin, unpin, assign (PUT), record, PATCH, delete, copy from a server, copy to the environment; two `post_save` signals derive installs |
| Customers (`api/customers`) | organizations, environments, servers, users, documents | row editing, soft delete (an environment is deleted alone, its servers stay live); the JIRA commands |
| JIRA sync (`customers/management/commands`, `jira_client.py`) | organizations' names and presence, users, split ticket counts with an error column | three commands run by cron |
| Authentication (`ams_dashboard/auth_*.py`, `web/src/auth.ts`, `api.ts`) | Cognito id and refresh tokens in `sessionStorage`, one refresh promise | login, challenge, refresh, retry after a 401, bounce to `/login` (there is no logout button) |
| Activities and calendar (`api/activities`) | activities | row editing, complete; the critical calendar is computed from activities, certificates, history and planned executions |
| Analytics, staff | single rows | row editing |
| SPA pages (`web/src/pages`) | copies of server rows, optimistic edits | reload after each answer |

### Interactions

* A **plan edit** commits, and only then (`transaction.on_commit`) does
  `on_plan_step_changed` rewrite the snapshots of the plan's pristine
  executions.  Exceptions in it are logged and swallowed.
* **Marking the last step** finalizes in the same transaction: it completes the
  execution, writes the installed release of every server of the environment
  and appends the history.  The **check** reads the same installs and the
  catalog to queue the next execution.  This is the loop of the program.
* **Pinning and assigning** derive installs through signals; copying is written
  to keep them out (`bulk_create`).
* The **critical calendar** reads four tables by date; the **certificate badge**
  of a customer reads one of them again, by other rules.
* A **401** makes a call wait for the one refresh of the tab, retry once, and
  bounce the session when that fails; the server reads the admin group from the
  token, so a change of group shows only in the next one.
* `server_needs_patching` and the two rollups read the baskets, the installs
  and the catalog; they share no code with the check that asks the same.

### Hard behaviours

gunicorn runs several workers over one database at READ COMMITTED, and
`ATOMIC_REQUESTS` is off, so a request is one transaction only where its code
says `transaction.atomic`.  Nothing uses `SELECT ... FOR UPDATE`.  What is hard
to test is therefore: a row read before the transaction and used in it
(`get_object`, prefetches, full-row `save()`), counts that cannot see another
worker's uncommitted row, lock orders, unique indexes that turn a race into an
`IntegrityError`, work after a commit that a killed worker never does, and long
legal sequences (abort what is complete, edit a plan under a running execution,
delete the Latest release before the last step).  `PROJECT.json` lists each
hazard at its line.

### What makes each part correct

* Executions: one active execution per environment and plan; the clock runs
  exactly while a timed step is done; the status and the steps part only where a
  client writes the status or aborts a run that is over; what is in flight keeps its
  snapshot; a snapshot is whole; a finalize leaves every step done, and only a client
  can complete an execution without one; every request ends.
* Inventory: one Latest; the rollups agree, and so do the badge and the check where
  the environment exists; a recorded install is never overwritten by a derivation;
  what is finalized is not found again; the history is true; peers of a copy answer
  as their source.
* JIRA sync: one live row per organization and per user; a sync of a listing
  that stands still is exact; the organizations never all go at once; the split
  counts add up.
* Sessions: one refresh at a time, shared by the calls that wait; every call
  ends; the refresh token outlives the id tokens; after a bounce only a sign-in
  brings a session back; a demoted user stops writing.
* Times: the timed steps of a run follow on each other without a gap, and its
  history bears the day on which it began, or the one that a person wrote.
* Calendar: it agrees with the badge, grows with `weeks`, and days that pass
  only make it worse.

## Modules

| module | what it is |
|---|---|
| `PatchRun` | the abstract specification: every request of `api/patching` as one action, with its signal handler and service calls |
| `PatchRequests` | the same requests, one action per statement, several workers, row locks, unique keys, rollbacks, deadlock victims, killed workers |
| `PatchRefines` | one worker of `PatchRequests` implements `PatchRun`: a history variable, the refinement mapping, the property |
| `Inventory` | catalog, baskets, installs, the answers derived from them, check and finalize |
| `JiraSync` | the commands that sync organizations, users and ticket counts, JIRA's paged listing, an edit of a row |
| `Session` | one browser tab: tokens, calls, the shared refresh, the sign-in pages, and the server that verifies and gates |
| `StepTimes` | the times and dates of one execution, its steps and its history |
| `Calendar` | extends `StepTimes` with certificates and an activity; the critical calendar and the certificate badge |
| `PatchRunProofs`, `PatchRequestsProofs`, `InventoryProofs`, `JiraSyncProofs`, `SessionProofs`, `CalendarProofs` | TLAPS proofs about the module of that name (`CalendarProofs` also those about `StepTimes`) |
| `PatchSnapshotProofs` | extends `PatchRequestsProofs`: the proofs about the steps of executions |
| `PatchRefinesProofs` | the proof that the statements of one worker implement `PatchRun` |
| `MC*` | the constants of the runs |

### PatchRun

`plan` is the plan's steps in `step_num` order; of a step only `not_timed`
matters to control (TRUE here is a *timed* step), the rest is copied unread.
`exec[e]` is the row of an execution (`"none"` before it exists) with its status
and `started_at` as the Boolean "it is set".  The serializer lets a POST and a PATCH
write any of the three `Statuses`; no code but a client's request writes `aborted`.
`steps[e]` and `aborts[e]` are its child rows in order.  `stale[env]` abstracts the
inventory: some server's installed release, of a software that the plan covers, is
behind the Latest.  `Inventory` has the tables behind that Boolean.

`Create`, `Patch`, `Check`, `StepDone`, `Abort`, `Reset`, `Delete` and `EditPlan` are
the requests; `CreateCut` and `EditCut` are the two that are not one transaction,
stopped half-way (a row without a snapshot, an edit without its resync), and
are the whole fault model of this level; `InventoryChanges` is everything that may
change `stale` from outside, in either direction.  `StepDone` looks at no status, as
the code does: a step of a completed execution that was aborted can be marked
again.  Its finalize may leave the environment behind, since it bumps only the
softwares the execution was queued with.  Whatever makes a row active (`Create`,
`Check`, `Reset`, `Patch`) is refused when it would break the unique index (`MayBe`);
`Patch` touches neither steps nor clock.  `EditPlan` takes every plan one edit can
leave (`Edits`: a step added at any `step_num`, removed, or rewritten with its place;
a group imported) and resyncs every active execution with no started step.

### PatchRequests

The tables hold committed rows.  A worker (`pc`, `at`) reads at one action and
writes at another; inside `transaction.atomic` its writes stay in `at` until the
action that commits.  The locks are not a variable: which rows a worker has
updated follows from where it is (`HeldSteps`, `HoldsExec`), and every action
that writes a row waits for its lock.  A bulk `UPDATE` or `DELETE` is two actions,
the rows its snapshot sees and then, with their locks, those that are still
there: that is what Postgres does at READ COMMITTED.  A step row is known by its
snapshot and number, since primary keys are fresh UUIDs and a re-inserted row is
another row.  `Victim` is the deadlock detector, `Kill` a worker that dies
(bounded by the constant `Faults`).  An edit's handler runs once per edit; a group
import, whose handler runs once per step added, is resynced once, the repetitions
finding the plan they left.  A PATCH reads the row (`PatchRead`) and saves it whole (`PatchSave`): the
status is the one sent, or the one read when none is, and every other column is as it
was read, `started_at` and `deleted_at` included.  All executions are of one plan and
one environment, the key of the unique index, and the check's other environments are
in `PatchRun`.  DRF's own validator of that index may refuse a request before the
database does; the model leaves the refusal to the index and allows more.

### PatchRefines

`shown` is the plan as of the last edit whose resync is over, and an execution
whose snapshot is still to be inserted is shown as not existing, because
`perform_create` answers only after both.  With that mapping every commit of a
single worker, killed at any statement or not, is one whole action of `PatchRun`
(`CreateCut` or `EditCut` when a kill falls between two commits), or changes
nothing it shows: POST and PATCH of any status included.  A check commits what it
decided before its inserts; when the environment has ceased to be behind meanwhile,
that commit is the creation of an active execution.  The safety of `PatchRun` is
thereby that of the statements: a transaction cannot leave half of what it writes.
Two workers do not implement it; `lost_finalize` shows how.

### Inventory

Soft deletions do not cascade: `servers`, `environments` and `softwares` are the rows
not deleted, and a live server may stand in a deleted environment.  The check, the
rollups and a new execution go by live environments; the check and finalize by
the softwares that still exist, since the managers hide deleted ones and leave their
links; the badge of a server asks neither.  A deleted environment's execution can
still be finalized.  `PatchExecution` is the PATCH of an execution's status, with
nothing done about its installs.

Requests are single actions, but for two that are in flight while others run:
the PATCH of a release (`ReadRelease`, `SaveRelease`: the demotion is decided by
the status that was read, and `save()` writes every column, `deleted_at`
included, so a deleted release can come back) and the POST of a pin (`Pin`, then
`PinServer` for each server, each its own commit, `Cut` when the worker dies
between two).  `logged` keeps the history rows the last request wrote: no code
reads older ones back into a decision.  Release names stand for releases.  The
servers are those of one AMS-contracted organization, the plan is one plan, and
of an environment's executions the latest is kept; "other" is the status
Supported or EOL, which nothing distinguishes.  Servers stay in their environment
here; they move in `Calendar`.  Of the requests that save a whole row, the PATCH of
a release is the only one taken apart, so no other deleted row comes back here.

### JiraSync

A behaviour is about one table, the organizations or the users of one
organization (`table`).  `listing` is JIRA's list of its entries, which changes on
its own (`Appear`, `Vanish`) while it is fetched page by page (`FetchOrgs`,
`FetchUsers`, one HTTP request by offset).  `WriteOrgs` and `WriteUsers` are the
transaction after the last page: the upsert of what was seen, which looks among
live rows only, and the soft delete of the rest.  Only the organizations are
guarded against an empty list.  `StartTickets`, `CountOrg` and `CountFails` are the
ticket command, one organization an action.  A job (`jobs[j]`) is one run of
a command; runs overlap, since one can be started by hand beside the
scheduled task, and end early (`Abandon`).  `ReadOrg`, `ReadUser` and `SaveOrg` are
the PATCH of a row, which saves every column as it was read, counts and
`deleted_at` included, by the primary key, so it can revive a deleted row; the
unique index over live rows may refuse it.  `steady` is a history flag: the
listing has stood still since the first request.  A soft-deleted organization
that JIRA lists again gets a new row, without what the team recorded on the old
one.  A transaction is
one action.  Of two that update the same row the second waits for the first in
Postgres, but their statements do mix otherwise: at READ COMMITTED the update that
soft-deletes what was not seen (`sync_jira_orgs.py:30-32`) does not see a row that an
overlapping run has inserted and not committed, and leaves it live.  The model
misses that interleaving; it leaves a row too many, and the next sync takes it away.

### Session

The browser runs the page's code between two answers to its end, so an answer and
all that the page does about it is one action.  A call (`calls[c]`) is sent with
the token of the moment; `Served`, `Refused` (403), `Failed` and `Unauthorized`
(401) are its answers.  The first 401 waits for the refresh under way or starts
one, a second one bounces.  `Refreshed` and `RefreshFailed` answer the refresh for
all that wait: `tryRefresh` makes no difference between a rejection and a failed
request.  A bounce clears the tokens and asks for `/login`; until that document
loads (`Bounced`) the old page goes on, with whatever it has in flight.  `Open` is
a page that is opened or reloaded, which keeps `sessionStorage` and loses
everything else.  A token is the number of its minting and the claim it carries;
`Expire`, `Revoke` and `ChangeGroup` are Cognito's.  `lastAdmin` is history: the
tokens minted before the user last left the group.

### StepTimes and Calendar

`clock` is `timezone.now()`, and moves by `Pass` only.  `StepDone` follows
`mark_step_done`: the first timed step starts the execution's clock and day, a
timed step starts where the timed one done before it finished, and the last one
finalizes, with or without a row for the history (what it says is `Inventory`'s
subject).  A POST and a PATCH may write `status`, `planned_date` and `patch_date`;
`byHand` is a history variable, TRUE while the run's `patch_date` is one that a request
wrote and no abort or reset has cleared.  `Calendar` adds the rows that its other events come from, with the
requests that write them: certificates of servers that move and of environments
that are deleted, and one activity.  `Events(w)` is the answer for `weeks=w`
(`Said`: left out or empty it is 6, and "0" is no weeks; a negative number is taken),
and `CertStatus` the badge of the customer.  Days are numbers and a multiple of seven
is a Monday.  The `start` and `end` that the answer states are not in the model.

## Runs

| run | what is asked | instance | result |
|---|---|---|---|
| `run_one_env` | the safety of whole and cut-short requests | 2 rows, 1 environment, plan up to 2 steps, 1 abort; 383 978 states | holds |
| `refines_steps` | does one worker, killed at any statement, implement `PatchRun` | 1 worker, all requests, 1 row, 2 steps, 1 abort, faults; 383 312 states | holds |
| `requests_snapshots` | can create, check, done, reset and edit mix two snapshots, or finalize cleared steps | 2 workers, 1 row, 2 steps; about 1 010 000 states | holds |
| `requests_active` | can any race of create, check, abort, reset, PATCH of any status and delete make two rows active, or two attempts share a number | 2 workers, 2 rows, 1 step, 2 aborts; about 1 350 000 states | holds |
| `requests_live` | does every request end, with the opposite lock orders of done and reset, and with workers killed while they hold locks | 2 workers, 1 row, 1 step, faults, strong fairness; 72 552 states | holds |
| `inventory` | do badges, check, history and copies agree, with a stale PATCH or a half-done pin in flight, and with servers, environments, softwares or baskets deleted | 2 servers, 1 environment, 1 basket, 1 software, 2 releases, 1 deletion; 142 932 states | holds |
| `jira_sync` | can overlapping syncs, failures and a stale edit make two live rows or counts that do not add up; is a sync of a listing that stands still exact; can the organizations all go | organizations or users: 2 entries, 3 rows, 2 runs, pages of 1, 1 change; 500 942 states | holds |
| `session` | do calls share one refresh and all end; what may a bounce, a reload or a change of group leave behind | 1 tab, 2 calls, 3 id tokens, weak fairness; 66 300 states | holds |
| `calendar` | do the times of a run follow on each other; do calendar and badge agree as days pass | 4 steps, 4 moments, 2 servers in 2 environments, 6 certificate days, 8 values of `weeks`; 208 690 states | holds |
| `lost_finalize` | is an execution with every step done completed, with two workers | 2 workers, 2 steps | violated |
| `forgets_release` | is a server that ran a release on the catalog's Latest once patched | the instance of `inventory` | violated |
| `jira_drops_listed` | does a sync keep what JIRA lists | 1 run, 2 organizations, 1 change | violated |

Each property of a passing run has a mutant in `PROJECT.json`: a definition of
the model replaced by a plausible bug (the variant just above it in its module)
under which TLC finds the property violated.

### Bounds

* *Two steps* make a step that is last and one that is not, a timed and an
  untimed one in both orders, and an edit that shortens, extends or reorders;
  plans of every length from 0 to the bound are initial states.  `requests_active`
  needs one step only, since its properties are about rows and attempts.
* *Two rows* are needed for the unique index to refuse, *two workers* for a race;
  no code involves three of either.
* `MaxAborts` bounds how many attempts are recorded: one is enough for two workers
  to compute the same number, and `requests_active` has two, so that a second number
  follows a first.  In `run_one_env`, `OneGivenUp` lets one of the rows be aborted, or
  be deleted, and not both: the two rows meet in the unique index alone, and a row
  that was given up competes there with one that was not.
* `MaxDeleted = 1` in `inventory`: one server, environment, software or basket is
  soft-deleted, each of which some answer skips and another does not.
  `DeletedBetweenRequests` lets that happen only with no request in flight, and none be
  in flight afterwards: what is in flight is about a release or about a pin, and
  neither asks what is deleted.  Two releases make a promotion, a stale one and a
  deleted Latest (a release's deletion is not bounded).

*Pages of one* over two organizations put an organization on each side of a page
boundary.  Three rows let a deleted organization come back beside another one,
and one change of the listing is what the lost page takes.

*Two calls* share a refresh; *three id tokens* are one at sign-in, one refreshed and
one more, so that a token from before a change of group, one from after it, and
one that is expired exist together.

*Four moments* are a Monday morning and evening, the Sunday evening and the next
Monday: two in one day, the day on which the calendar's window ends earliest, and
the step of the window.  Certificates expire on the days at either edge of the
window and of the 30 days from each of those moments; `weeks` is left out, negative,
zero, one, the default and what is under it, the cap and what is over it.  Four
steps, timed or not in every combination, are what it takes to mark one before,
between and after others.  One hand-written `patch_date`, a week back, tells a day
that was given from one that was taken; `DatedWhenShort` leaves it to executions with
one timed step at most, since how many more are timed matters to the clock and not to
a date that is kept. `OneSubject` lets one of the run (only it asks which steps are
timed, and so alone has a timed one), what a client wrote of the execution (a
planned date, a status that the run did not give it), the customer and the activity
leave its first state at a time: no code of one reads another, and only the calendar
and the clock, which all of them keep, bring them together.

Symmetry is used over organizations, runs, workers, rows, servers and releases,
never in the liveness runs.  `requests_snapshots` sends no PATCH and
`requests_active` marks no step, which keeps each within reach of TLC; the theorems
behind their properties are for every set of requests.

### Fairness

`CallsSettle` (`session`) assumes weak fairness of each call's answer and of the
refresh's: an HTTP request is answered or fails, `fetch` rejects when the
connection does, and nothing in the page keeps an answer from being taken.  It is
not assumed that tokens expire, that a refresh succeeds or that anyone signs in.

`RequestsFinish` (`requests_live`) assumes strong fairness of each worker's next statement and
nothing of arrivals.  A statement is disabled only while another transaction
holds a lock; Postgres queues the waiters of a lock in order of arrival, so one
whose lock is freed again and again does get it, which is strong and not weak
fairness.  A cycle of waits is broken by the deadlock detector (`Victim`), which is
one of those statements' outcomes.  The mutant without it leaves the two
workers waiting.  A worker may be killed but need not be: gunicorn's own timeout
is not what ends a request.

## Findings

1. **Lost finalisation** (`services.py:130`).  Two people mark the last two
   steps at once: each transaction's count still sees the other's step undone,
   both commit, nobody finalizes.  The execution is active, all done, and has no
   Done button left; it takes a reset, an abort or a PATCH of its status to get out.
2. **Finalizing with no Latest erases the release** (`services.py:191`).  A row that
   recorded a release, whose software has no Latest any more when the last step is
   marked, comes out with no release, and there is no history row.
3. **The sync drops an organization JIRA lists** (`sync_jira_orgs.py:30`).  The
   listing is paged by offset.  When an organization leaves JIRA between two
   requests the next ones move up, the first of them is on no page, and it is
   soft-deleted.  The next sync makes it a new row, without its local data.

Met while modelling and left without a run of their own:

* an untimed step is done without a trace (`services.py:60`): it sets no
  `started_at`, so the resync of a plan edit takes the execution for pristine and
  deletes the step with the rest;
* a PATCH {status} is not guarded (`serializers.py:145-156`): an execution can be
  completed with steps undone and nothing installed, or made active again with every
  step done and no Done button left; `StatusPartsByClient` says that nothing else
  leads there;
* a PATCH of an execution saves every column as read, so a planned date edited
  while the last step is being marked writes `active` back over `completed`;
* a reset or aborted execution is pristine again with the old plan's snapshot,
  and follows the plan only at the next edit;
* with two workers, a step marked between resync's test and its delete is deleted;
* an abort of a completed execution leaves it completed with its steps cleared;
* an execution of an empty plan can never be finalized;
* an organization whose user list comes back empty loses all its users
  (`sync_jira_users.py:50`), where the organizations are guarded;
* a refresh that fails on the network bounces like one Cognito rejects
  (`auth.ts:79`); `auth_views.py:196` says "Only bounces to /login if the refresh
  token itself is rejected";
* a refresh that answers between the bounce and the new document stores a token
  again, so that `/login` is left by going back to the application;
* the execution's clock starts when its first timed step is marked *done*, so
  that step always takes no time (`services.py:96`);
* the calendar shows certificates of servers whose environment is deleted, which
  the badge leaves out (`activities/views.py:95`);
* `weeks=0` or a negative one is not refused (`activities/views.py:51`): the window is
  then empty, and only certificates that expire before its end are listed;
* a live server of a deleted environment keeps its badge, and the check does not
  look at it (`services.py:309`): "yes" for as long as nobody moves it;
* a `patch_date` that was written before a run starts is kept by it, and its
  history has that day (`services.py:100`, `services.py:202`);
* a PATCH can make an activity completed without `completed_at`.

They are in the hazards.

## Proofs

Each theorem holds for every value of the constants that the assumptions of its
module allow.

| module | theorem | what it says |
|---|---|---|
| `PatchRunProofs` | `Safety` | `[]` of the types, `OneActive` and `StartedMeansTimedDone` |
| | `ClockHolds` | `[]ClockMatchesSteps` |
| | `StatusHolds` | `StatusPartsByClient` |
| | `KeepsSnapshot` | `RunningKeepsSnapshot` |
| | `Drifts` | `DriftsOnlyInFlight` |
| `PatchRequestsProofs` | `OneIsActive`, `AttemptsHold` | `[]OneActive`, `[]AttemptsNumbered`, any number of workers |
| `PatchSnapshotProofs` | `TypesHold`, `SnapshotsHold` | `[]TypeOK`, `[]OneSnapshot`, any number of workers |
| | `FinalizedWhenDone` | `FinalizedOnlyWhenDone` |
| `PatchRefinesProofs` | `Refines` | `RefinesPatchRun`: one worker implements `PatchRun`, for any executions, requests (PATCH of any status included) and bounds |
| `InventoryProofs` | `TypesHold`, `CatalogIsSound` | `[]TypeOK`, `[]OneLatest` |
| | `BadgesAgree`, `AnswersHold` | `[]YesMeansCheckFinds`, `[]RollupsAgree` |
| | `HistoryHolds`, `UserWins`, `PatchedIsNotStale`, `PeersHold` | `[]HistoryIsTrue`, `RecordedStateWins`, `FinalizedIsNotStale`, `PeersAnswerAlike` |
| `JiraSyncProofs` | `TypesHold`, `RowsAreSound`, `CountsHold` | `[]TypeOK`, `[]OneLiveRow`, `[]CountsAddUp` |
| | `SyncsExactly`, `NeverAllGone` | `SyncIsExact`, `NeverEmptied` |
| `SessionProofs` | `TypesHold`, `RefreshIsShared` | `[]TypeOK`, `[]OneRefresh` |
| | `RefreshOutlives`, `BounceIsFinal`, `DemotionHolds` | `RefreshKept`, `BouncedForGood`, `DemotedCannotWrite` |
| `CalendarProofs` | `TypesHold` | `[]TypeOK` |
| | `ChainHolds`, `TilesHold`, `FiledOnRunDay` | `[]NoGaps`, `[]StepsTile`, `PatchedOnRunDay` of `StepTimes` |
| | `RedMeansExpired`, `YellowMeansListed`, `WiderCalendar`, `TimeWorsens` | `[]RedIsExpired`, `[]YellowIsListed`, `[]WiderShowsMore`, `TimeOnlyWorsens` |

**Assumptions.**  Where things are (`EnvOf`, `ReleaseOf`) are functions, bounds are
natural numbers, a day has some units of time, dates are natural and `weeks`
integers; the value that stands for "no row", "no token", "no time" or "no request" is not
one.  `Inventory` takes the table of releases to be finite, and `PatchRequests` the
set of workers: a resync takes a snapshot number that no worker remembers.  Nothing
else need be, not even the sets of executions and environments.  `PatchRefines`
alone takes there to be one worker at most (`SingleAssumption`): with two the
refinement is false, which is what `lost_finalize` shows.

**`PatchRun`.**  The inductive invariant `IInv` is the conjunction of the properties of
`Safety` and `ClockHolds` with one more, that a row not yet created has no steps.
`ClockMatchesSteps` is not inductive alone: `EditPlan` keeps it only because a
snapshot without a started step has no timed done one (`StartedMeansTimedDone`), and
`Create` because of the extra conjunct.  Apart from `TypeOK` and `OneActive` the
conjuncts speak of one execution at a time; `ExecWise` restates them so
(`ExecOK`), and each action is shown to leave `ExecOK` for every row.  That an edit
leaves a plan is `EditsType`, from `WithType` and `WithoutType`.
`StatusPartsByClient` is no invariant's consequence, since a client can break the
agreement it is about: it is read off action by action.  `StepDone` keeps the
agreement because the count of what is left is zero exactly when all are done
(`RemainingFacts`, from the finite-set theorems), `Reset` because a step it clears is
undone, and `EditPlan` because it rewrites only rows that are active, with a fresh
snapshot.

**`PatchRequests`.**  What a worker has inserted and not committed is in no table,
so the invariant says what it excludes: while an active row is uncommitted no row
is active and no other worker has one (`KeyHeld`, which the unique index keeps);
while an attempt is uncommitted its number is the next one of its execution, and
no other worker's (`Attempting`).  The statements that only move a worker along
are one lemma (`MoveKeeps`).

`PatchSnapshotProofs` adds what a worker remembers between two statements.  A bulk
statement was told the keys of every row of a snapshot, and others may replace the
rows before it writes: `RowsFit` says that the keys are all of the present
snapshot's or none of them, which holds because a snapshot's number is not used
again while a worker remembers it (`FreshFacts`).  `OneSnapshot` is then kept by each
statement: an insert follows the delete of everything there was, or fails.  What
`mark_step_done` counted as the last undone step stays the last because it holds the
lock of its step, and an abort or a reset must have every step's (`Apart`); this is
`FinalizedOnlyWhenDone`.

**`PatchRefines`.**  Three invariants carry the refinement: that of
`PatchRequestsProofs`, that of `PatchSnapshotProofs`, and `RInv`, which says what
being alone is worth to a worker.  Whatever its request has read is still so when it
commits (`Remembers`): its execution live, active or just created, the step it marks
not done, the rows it deletes all there are, what it counted and copied right.  The
plan is the one shown, or made from it by the one edit under way (`ShownPlan`), and
a row nobody inserted has nothing (`Unwritten`).  None of the three is true of two
workers.  `RNext` keeps `RInv`.  Then each write is mapped, one lemma a commit (`DoneCommitShows`, `AbortCommitShows`,
`ResyncInsertShows` and so on), a request that is killed or ends early is
`CreateCut`, `EditCut` or a stutter (`QuietShows`), and `RefinesNext` collects them.
The save of a PATCH is `Patch` because the row read is still the row but for the status
(`PatchSaveShows`), and a check's commit is `Create` (`CheckCommitShows`).
The rows are sets in one module and sequences in the other: `RowsOf` reads one as the
other, which it can because the rows of an execution are numbered 1..n
(`OneSnapshot`), and the attempts too (`AttemptsNumbered`); `MarkedShows`,
`ClearedShows`, `SnapshotShows`, `AppendShows` and `CountShows` say that it turns each
write and each count into that of `PatchRun`.

**`Inventory`.**  `YesMeansCheckFinds` and `RollupsAgree` follow from the operators
alone, the former of the servers that stand in a live environment.  `OneLatest` is kept by the demotion in `CreateRelease` and by the unique
index in `SaveRelease`, whatever the stale PATCH had read.

**`JiraSync`.**  The invariant adds that a row an edit has read was live and adds
up, and that a run whose listing has stood still has seen exactly the entries
before its offset (`SeenSoFar`): that is what makes the last page the end of the
listing.  `MirrorFacts` says what a sync makes of the rows.

**`Session`.**  To the types and `OneRefresh` the invariant adds where a claim comes
from: a token that claims the group, in the tab or in a call, was minted while the
user was in it (`Claims`).  `LateRefresh` is an invariant beside it: a refresh still to
be answered when there is no refresh token left is of a page that is being left.

**`StepTimes` and `Calendar`.**  The badge and one calendar are properties of a state,
of which they need only that its days are numbers (`Days`); the rest is the
arithmetic of weeks (`WindowFacts`): 30 days after any day of a week are within six
weeks of its Monday.  `NoGaps` is not inductive: it says nothing of where
`exec.started` comes from, so that a mark could start before it.  `TimesInv` adds
that the execution's start is the first finish there is and `patch_date` its day
(`Dated`), and that no step ends before it starts or after now (`Ordered`).  A mark
then starts at an earlier finish or at that start (`StartOfFacts`), never later than
the latest finish, so nothing opens between the two (`MarkedTimes`).  `patch_date`
being the day of the least finish, unless it is `byHand`, is also what
`PatchedOnRunDay` says.
`TimeOnlyWorsens` is about `Pass` alone: `DayGrows`, `WeekGrows` and `LaterWindow`
carry the order of moments over to days, weeks and windows.

**Only model-checked:** liveness (`RequestsFinish`, `CallsSettle`), which with
ENABLED is beyond the prover.  That the theorems of `PatchRun` hold of what one worker
shows is a reading of `Refines` and not a theorem of its own: this
version of the prover cannot cite a theorem through an instance.

## Not modelled, and why

* `set_step_elapsed` and the `total_time` columns: text that a person may type over
  and no code reads back.
* A PATCH that moves an execution to another plan, organization or environment, which
  the serializer allows: its steps and softwares stay those of the plan it was
  queued for.  The models have one plan, or the execution's environment as a constant.
* The rows that only a person reads: names, notes, documents, staff, the values of
  analytics.  A binding of an analytic names a server or none as its metric's
  scope says; that is a check of one row.
* The Zabbix rollup, a placeholder that reads one flag.
* The count of tickets by pages, which the ticket command falls back on.
* The verification of a token's signature (a library's), and Cognito itself, of which
  only the tokens, the challenge and the group are kept.
* The pages' copies of server rows and their optimistic edits: they are reloaded
  whole, and what they do wrong is gone at the next reload.
* The migrations that move data (`software/migrations/0003`,
  `patching/migrations/0004`), run once with the program stopped.  Two things a
  reader should know: the squash of versions gives a deleted software's versions
  live rows, and 0004 is not atomic, so that it cannot be run again after it was
  killed half-way.
* The admin, the deployment templates, the prototype in `tabbed-app.html`, and
  `db/schema.sql`, which the Django models supersede.

## Plan

Done: `PatchRun`, `PatchRequests`, `PatchRefines`, `Inventory`, `JiraSync`,
`Session`, `StepTimes`, `Calendar`, and the proofs about them listed above.

What could follow:

1. `Inventory` with the statements of PUT and of the PATCH of an installed row
   apart, once there is a property that tells what they leave from what a later
   request may leave.
2. `PatchPage`: the SPA's copy of an execution and of the installed rows against
   the server's, with answers out of order.
