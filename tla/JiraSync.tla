------------------------------ MODULE JiraSync ------------------------------
(***************************************************************************)
(* The commands that sync organizations, their ticket counts and their     *)
(* users from JIRA Service Management, while JIRA's listing changes under  *)
(* the pages that are fetched, runs overlap (a scheduled task and one      *)
(* started by hand), and a person edits a row.                             *)
(*                                                                         *)
(* `table` says what a behaviour is about: the organizations, or the users *)
(* of one organization (the command takes the organizations in turn, each  *)
(* in a transaction of its own).  An entry of a user listing without an    *)
(* account is passed over, and is not an entry here.                       *)
(*                                                                         *)
(* A page of the listing is one HTTP request; the write that follows the   *)
(* last page is one transaction.  The PATCH of a row reads it and later   *)
(* saves every column of it.  What the team keeps locally rides on the row *)
(* and is not a column of its own here; names, times and error texts       *)
(* decide nothing and are left out.                                        *)
(***************************************************************************)
EXTENDS Naturals, Sequences, FiniteSets, Functions

CONSTANTS
    Org,        \* what JIRA lists: organizations, or users of one
    Row,        \* rows of the table, inserted or not yet
    Job,        \* runs of a command
    PageSize,   \* `limit` of the listing requests
    MaxCount,   \* bound on the tickets of an organization, of each kind
    MaxChanges, \* bound on the changes of JIRA's listing
    Null,       \* a count never taken
    Absent,     \* a row not inserted
    Idle        \* a job, or an edit, that is not running

ASSUME BoundsAssumption ==
    PageSize \in Nat \ {0} /\ MaxCount \in Nat /\ MaxChanges \in Nat

VARIABLES
    table,      \* what is synced: "organizations" or "users"
    listing,    \* JIRA's entries in the order it lists them
    changes,    \* how often it has changed
    rows,       \* [Row -> the row of that entry]
    jobs,       \* [Job -> its progress]
    edit        \* the PATCH of a row: the row as it was read

vars == <<table, listing, changes, rows, jobs, edit>>

Counts == 0..MaxCount

OrgRow == [org : Org, deleted : BOOLEAN,
           open : (0..(2 * MaxCount)) \union {Null},
           automated : Counts \union {Null}, manual : Counts \union {Null}]

\* A user has no counts.
UserRow == [org : Org, deleted : BOOLEAN,
            open : {Null}, automated : {Null}, manual : {Null}]

\* A listing that is fetched: the pages so far; `steady` is history, whether
\* the listing has stood still since the first request.
Fetching == [start : Nat, seen : SUBSET Org, last : BOOLEAN, steady : BOOLEAN]

\* sync_jira_tickets: the rows of the first query still to be counted.
Counting == [todo : SUBSET Row]

ASSUME AbsentAssumption ==
    Absent \notin OrgRow /\ Idle \notin Fetching \union Counting

\* Every type of the state.
TypeOK ==
    /\ table \in {"organizations", "users"}
    /\ listing \in Seq(Org) /\ changes \in 0..MaxChanges
    /\ \A r \in Row : rows[r] \in {Absent} \union
           IF table = "users" THEN UserRow ELSE OrgRow
    /\ \A j \in Job : jobs[j] \in Fetching \union Counting \union {Idle}
    /\ edit \in [id : Row, row : OrgRow] \union {Idle}

-----------------------------------------------------------------------------
Live(r) == rows[r] # Absent /\ ~rows[r].deleted

LiveRows == {r \in Row : Live(r)}

LiveOrgs == {rows[r].org : r \in LiveRows}

NewRow(o) == [org |-> o, deleted |-> FALSE,
              open |-> Null, automated |-> Null, manual |-> Null]

Init ==
    /\ table \in {"organizations", "users"}
    /\ listing \in {s \in UNION {[1..n -> Org] : n \in 0..Cardinality(Org)} :
                        \A i, k \in DOMAIN s : s[i] = s[k] => i = k}
    /\ changes = 0
    /\ rows = [r \in Row |-> Absent]
    /\ jobs = [j \in Job |-> Idle]
    /\ edit = Idle

(* JIRA. *)

\* A listing that is being fetched does not stand still any more.
Disturbed ==
    [j \in Job |-> IF jobs[j] \in Fetching
                   THEN [jobs[j] EXCEPT !.steady = FALSE] ELSE jobs[j]]

\* An organization appears somewhere in the listing.
Appear(o, i) ==
    /\ changes < MaxChanges
    /\ o \notin Range(listing)
    /\ listing' = SubSeq(listing, 1, i) \o <<o>>
                  \o SubSeq(listing, i + 1, Len(listing))
    /\ changes' = changes + 1
    /\ jobs' = Disturbed
    /\ UNCHANGED <<table, rows, edit>>

\* The i-th organization is deleted in JIRA; the later ones move up.
Vanish(i) ==
    /\ changes < MaxChanges
    /\ listing' = SubSeq(listing, 1, i - 1)
                  \o SubSeq(listing, i + 1, Len(listing))
    /\ changes' = changes + 1
    /\ jobs' = Disturbed
    /\ UNCHANGED <<table, rows, edit>>

(* sync_jira_orgs and sync_jira_users. *)

Start(j) ==
    /\ jobs[j] = Idle
    /\ jobs' = [jobs EXCEPT ![j] =
           [start |-> 0, seen |-> {}, last |-> FALSE, steady |-> TRUE]]
    /\ UNCHANGED <<table, listing, changes, rows, edit>>

StartOrgs(j) == table = "organizations" /\ Start(j)

\* The users' turn of an organization.
StartUsers(j) == table = "users" /\ Start(j)

\* The entries a request with `start` and `limit` is answered.
Page(start) ==
    {listing[i] : i \in {k \in DOMAIN listing : start < k /\ k <= start + PageSize}}

\* One request of a loop, which ends with isLastPage or a short page, and
\* goes on `step` entries later.
Fetch(j, step) ==
    /\ jobs[j] \in Fetching /\ ~jobs[j].last
    /\ jobs' = [jobs EXCEPT
           ![j].seen = jobs[j].seen \union Page(jobs[j].start),
           ![j].last = jobs[j].start + PageSize >= Len(listing),
           ![j].start = jobs[j].start + step]
    /\ UNCHANGED <<table, listing, changes, rows, edit>>

\* Variant: the next page starts one entry late.
FetchUsersSkipping(j) == table = "users" /\ Fetch(j, PageSize + 1)

FetchOrgs(j) == table = "organizations" /\ Fetch(j, PageSize)

FetchUsers(j) == table = "users" /\ Fetch(j, PageSize)

\* A live row for every entry seen, made where there is none, and every other
\* live row soft-deleted.
Mirror(seen) ==
    LET missing == seen \ LiveOrgs
        free == {r \in Row : rows[r] = Absent}
    IN \E made \in [missing -> free] :
          /\ \A o, p \in missing : made[o] = made[p] => o = p
          /\ rows' = [r \in Row |->
                IF r \in Range(made)
                THEN NewRow(CHOOSE o \in missing : made[o] = r)
                ELSE IF Live(r) /\ rows[r].org \notin seen
                THEN [rows[r] EXCEPT !.deleted = TRUE]
                ELSE rows[r]]

Fetched(j) ==
    /\ jobs[j] \in Fetching /\ jobs[j].last
    /\ jobs' = [jobs EXCEPT ![j] = Idle]
    /\ UNCHANGED <<table, listing, changes, edit>>

\* Variant: an empty listing is written like any other.
WriteOrgsUnguarded(j) ==
    /\ table = "organizations"
    /\ Fetched(j)
    /\ Mirror(jobs[j].seen)

\* The transaction of the organizations.  Nothing seen, nothing done.
WriteOrgs(j) ==
    /\ table = "organizations"
    /\ Fetched(j)
    /\ IF jobs[j].seen = {} THEN UNCHANGED rows ELSE Mirror(jobs[j].seen)

\* The transaction of one organization's users, whatever was seen.
WriteUsers(j) ==
    /\ table = "users"
    /\ Fetched(j)
    /\ Mirror(jobs[j].seen)

(* sync_jira_tickets. *)

\* The live rows are read, then the alert accounts: without those it ends.
StartTickets(j) ==
    /\ table = "organizations"
    /\ jobs[j] = Idle
    /\ LiveRows # {}
    /\ jobs' = [jobs EXCEPT ![j] = [todo |-> LiveRows]]
    /\ UNCHANGED <<table, listing, changes, rows, edit>>

Counted(j, r) ==
    jobs' = [jobs EXCEPT ![j] =
        IF jobs[j].todo = {r} THEN Idle ELSE [todo |-> jobs[j].todo \ {r}]]

\* Variant: the total is counted by a request of its own (fetch_open_ticket_count).
CountOrgApart(j, r) ==
    /\ jobs[j] \in Counting /\ r \in jobs[j].todo
    /\ \E automated, manual \in Counts, open \in 0..(2 * MaxCount) :
           rows' = IF Live(r)
                   THEN [rows EXCEPT ![r].open = open,
                                     ![r].automated = automated,
                                     ![r].manual = manual]
                   ELSE rows
    /\ Counted(j, r)
    /\ UNCHANGED <<table, listing, changes, edit>>

\* Variant: the total grows with every run.
CountOrgTwice(j, r) ==
    /\ jobs[j] \in Counting /\ r \in jobs[j].todo
    /\ \E automated, manual \in Counts :
           rows' = IF Live(r)
                   THEN [rows EXCEPT
                       ![r].open = automated + manual +
                                   (IF rows[r].open = Null THEN 0 ELSE rows[r].open),
                       ![r].automated = automated, ![r].manual = manual]
                   ELSE rows
    /\ Counted(j, r)
    /\ UNCHANGED <<table, listing, changes, edit>>

\* One organization: both counts are fetched and written with their sum in
\* one UPDATE, which a row deleted meanwhile does not match.
CountOrg(j, r) ==
    /\ jobs[j] \in Counting /\ r \in jobs[j].todo
    /\ \E automated, manual \in Counts :
           rows' = IF Live(r)
                   THEN [rows EXCEPT ![r].open = automated + manual,
                                     ![r].automated = automated,
                                     ![r].manual = manual]
                   ELSE rows
    /\ Counted(j, r)
    /\ UNCHANGED <<table, listing, changes, edit>>

\* JIRA refuses or fails: the row keeps its counts, and the run goes on.
CountFails(j, r) ==
    /\ jobs[j] \in Counting /\ r \in jobs[j].todo
    /\ Counted(j, r)
    /\ UNCHANGED <<table, listing, changes, rows, edit>>

\* A run ends early: an error it does not catch, or its task is stopped.
Abandon(j) ==
    /\ jobs[j] # Idle
    /\ jobs' = [jobs EXCEPT ![j] = Idle]
    /\ UNCHANGED <<table, listing, changes, rows, edit>>

(* PATCH of an organization, or of a user. *)

Read(r) ==
    /\ edit = Idle
    /\ Live(r)
    /\ edit' = [id |-> r, row |-> rows[r]]
    /\ UNCHANGED <<table, listing, changes, rows, jobs>>

ReadOrg(r) == table = "organizations" /\ Read(r)

ReadUser(r) == table = "users" /\ Read(r)

\* Variant: no unique index over the live rows.
SaveOrgUnchecked ==
    /\ edit # Idle
    /\ rows' = [rows EXCEPT ![edit.id] = edit.row]
    /\ edit' = Idle
    /\ UNCHANGED <<table, listing, changes, jobs>>

\* serializer.save(): every column as it was read, the counts and deleted_at
\* with them.  Refused when the entry has another live row by now.
SaveOrg ==
    /\ edit # Idle
    /\ rows' = IF \E r \in LiveRows \ {edit.id} : rows[r].org = edit.row.org
               THEN rows ELSE [rows EXCEPT ![edit.id] = edit.row]
    /\ edit' = Idle
    /\ UNCHANGED <<table, listing, changes, jobs>>

Next ==
    \/ \E o \in Org, i \in 0..Len(listing) : Appear(o, i)
    \/ \E i \in 1..Len(listing) : Vanish(i)
    \/ \E j \in Job : \/ StartOrgs(j) \/ FetchOrgs(j) \/ WriteOrgs(j)
                      \/ StartUsers(j) \/ FetchUsers(j) \/ WriteUsers(j)
                      \/ StartTickets(j) \/ Abandon(j)
                      \/ \E r \in Row : CountOrg(j, r) \/ CountFails(j, r)
    \/ \E r \in Row : ReadOrg(r) \/ ReadUser(r)
    \/ SaveOrg

Spec == Init /\ [][Next]_vars

-----------------------------------------------------------------------------
(* Safety. *)

\* An organization, or an account among an organization's users, never has two
\* live rows, whichever of overlapping syncs and a stale edit would make the
\* second (organizations_jira_org_id_unique, org_users_org_jira_account_unique).
OneLiveRow ==
    \A q, r \in LiveRows : rows[q].org = rows[r].org => q = r

\* "Sum invariant: automated + manual == open_ticket_count when both are
\* non-null" (customers/models.py:85), with runs that overlap, a count that
\* fails, and an edit that writes back old counts.
CountsAddUp ==
    \A r \in Row : rows[r] # Absent /\ rows[r].automated # Null /\ rows[r].manual # Null
                   => rows[r].open = rows[r].automated + rows[r].manual

\* When the listing stands still while it is fetched, the sync leaves exactly
\* its entries live, each in the row it had: no page is lost at the boundary,
\* and what the team recorded stays with its organization or user.
SyncIsExact ==
    [][\A j \in Job :
           (/\ (WriteOrgs(j) /\ listing # <<>>) \/ WriteUsers(j)
            /\ jobs[j].steady) =>
               /\ LiveOrgs' = Range(listing)
               /\ \A r \in LiveRows :
                      rows[r].org \in Range(listing) => rows'[r] = rows[r]]_vars

\* The organizations never all disappear at once, not even when JIRA lists
\* none any more while the pages are fetched (sync_jira_orgs.py:14-16).
NeverEmptied ==
    [][table = "organizations" /\ LiveRows # {} => LiveRows' # {}]_vars

(* What a comment of the code says and the code does not do. *)

\* "Soft-delete any orgs no longer present in JIRA" (sync_jira_orgs.py:29):
\* a sync deletes no organization that JIRA lists.
ListedIsKept ==
    [][\A j \in Job : WriteOrgs(j) =>
           \A r \in LiveRows : rows[r].org \in Range(listing) => Live(r)']_vars
=============================================================================
