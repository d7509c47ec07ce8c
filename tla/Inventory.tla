------------------------------ MODULE Inventory ------------------------------
(***************************************************************************)
(* What an organization's servers run, and what says that they need        *)
(* patching: the release catalog (api/software), the baskets assigned to   *)
(* servers and the recorded installs (api/baskets), and the two ends of    *)
(* patching that read and write them: the check that queues an execution   *)
(* and finalize_execution.                                                 *)
(*                                                                         *)
(* A request is one action, with two exceptions that span several commits  *)
(* and are in flight while other requests run: the PATCH of a release      *)
(* (read, then saved with every column) and the POST of a basket's pin     *)
(* (one commit per server its signal visits).  The servers are those of    *)
(* one AMS-contracted organization; the plan is one plan; of the           *)
(* executions for an environment the latest is kept.  Soft deletions do    *)
(* not cascade: a live server may stand in a deleted environment, and a    *)
(* deleted software may be pinned, recorded, covered and being patched.    *)
(***************************************************************************)
EXTENDS Naturals, FiniteSets

CONSTANTS
    Server, Env, Basket, Software, Release,
    EnvOf,      \* [Server -> Env]
    ReleaseOf,  \* [Release -> Software]: the software a release belongs to
    None,       \* a null foreign key
    Absent,     \* no row
    Idle,       \* no request in flight
    MaxDeleted  \* bound: the rows soft-deleted, releases aside

ASSUME PlacesAssumption == EnvOf \in [Server -> Env]
ASSUME CatalogAssumption == ReleaseOf \in [Release -> Software]
ASSUME TableAssumption == IsFiniteSet(Release)
ASSUME NullAssumption == None \notin Release
ASSUME AbsentAssumption ==
    Absent \notin [release : Release \union {None}, override : BOOLEAN]
ASSUME BoundAssumption == MaxDeleted \in Nat

VARIABLES
    status,     \* software_releases: "other" is Supported or EOL
    softwares,  \* the softwares not soft-deleted
    basket,     \* baskets with their basket_software pins
    assigned,   \* server_baskets
    installed,  \* server_installed_software, by server and software
    servers,    \* the servers not soft-deleted
    environments, \* the environments not soft-deleted
    covered,    \* the softwares of the patch plan
    execution,  \* the latest patch execution of the plan for an environment
    logged,     \* the patch_history rows the last request wrote
    inflight    \* the request between two of its commits

vars == <<status, softwares, basket, assigned, installed, servers,
          environments, covered, execution, logged, inflight>>

\* What the requests below leave alone unless they say otherwise.
catalog == <<status, softwares>>
standing == <<servers, environments>>
estate == <<basket, assigned, standing>>
patching == <<covered, execution>>

ReleaseStatus == {"unused", "Latest", "other", "deleted"}
BasketRow == [live : BOOLEAN, pins : SUBSET Software]
InstalledRow == [release : Release \union {None}, override : BOOLEAN]
ExecutionRow == [active : BOOLEAN, softwares : SUBSET Software]
HistoryRow == [env : Env, software : Software,
               from : Release \union {None}, to : Release]
PatchingRelease == [release : Release, read : {"Latest", "other"}]
Pinning == [software : Software, todo : SUBSET Server]

\* Every type of the state.
TypeOK ==
    /\ status \in [Release -> ReleaseStatus]
    /\ softwares \subseteq Software
    /\ basket \in [Basket -> BasketRow]
    /\ assigned \in [Server -> SUBSET Basket]
    /\ installed \in [Server -> [Software -> InstalledRow \union {Absent}]]
    /\ servers \subseteq Server /\ environments \subseteq Env
    /\ covered \subseteq Software
    /\ execution \in [Env -> ExecutionRow \union {Absent}]
    /\ logged \subseteq HistoryRow
    /\ inflight \in PatchingRelease \union Pinning \union {Idle}

-----------------------------------------------------------------------------
(* What the requests read. *)

LiveReleases == {r \in Release : status[r] \in {"Latest", "other"}}

Latests(s) == {r \in Release : ReleaseOf[r] = s /\ status[r] = "Latest"}

\* The release flagged Latest, or None: `.filter(status="Latest").first()`.
Latest(s) == IF Latests(s) = {} THEN None ELSE CHOOSE r \in Latests(s) : TRUE

Recorded(srv, s) == installed[srv][s] # Absent

\* Variant: a row with no release is skipped.
BehindIfReleased(srv, s) ==
    /\ Recorded(srv, s)
    /\ ~installed[srv][s].override
    /\ installed[srv][s].release \notin {None, Latest(s)}
    /\ Latest(s) # None

\* The check's test of one installed row: not overridden, and not at Latest.
Behind(srv, s) ==
    /\ Recorded(srv, s)
    /\ ~installed[srv][s].override
    /\ Latest(s) # None
    /\ installed[srv][s].release # Latest(s)

\* The live servers of an environment, whether it is deleted or not.
ServersIn(env) == {srv \in servers : EnvOf[srv] = env}

\* stale_softwares of an environment.
Stale(env) == {s \in Software : \E srv \in ServersIn(env) : Behind(srv, s)}

Active(env) == execution[env] # Absent /\ execution[env].active

\* The softwares the live baskets of a server pin.
Pinned(srv) ==
    UNION {basket[b].pins : b \in {c \in assigned[srv] : basket[c].live}}

\* The pinned softwares there is something to compare for.
Evaluable(srv) == {s \in Pinned(srv) : Recorded(srv, s) /\ Latest(s) # None}

ServerNeedsPatching(srv) ==
    IF \E s \in Evaluable(srv) :
           /\ ~installed[srv][s].override
           /\ installed[srv][s].release # Latest(s)
    THEN "yes"
    ELSE IF Evaluable(srv) # {} THEN "no" ELSE "unknown"

\* The servers the answers about the organization walk: live, in a live
\* environment.  The badge of a server alone asks neither.
ServersAt(answer) ==
    {srv \in servers : /\ EnvOf[srv] \in environments
                       /\ ServerNeedsPatching(srv) = answer}

OrganizationNeedsPatching ==
    IF ServersAt("yes") # {} THEN "yes"
    ELSE IF ServersAt("no") # {} THEN "no" ELSE "unknown"

\* Variant: red unless some server is known to be up to date.
RollupUnknownAsBehind ==
    IF \A srv \in servers : EnvOf[srv] \notin environments THEN "unknown"
    ELSE IF ServersAt("no") = {} THEN "red"
    ELSE IF ServersAt("yes") = {} THEN "green"
    ELSE "yellow"

OrganizationPatchingRollup ==
    IF ServersAt("yes") = {} /\ ServersAt("no") = {} THEN "unknown"
    ELSE IF ServersAt("no") = {} THEN "red"
    ELSE IF ServersAt("yes") = {} THEN "green"
    ELSE "yellow"

(* What the requests write. *)

\* Variant: the signal re-derives rows that exist.
EnsuredAnew(rows, S) ==
    [s \in Software |->
        IF s \in S THEN [release |-> Latest(s), override |-> FALSE] ELSE rows[s]]

\* A server's rows after _ensure_installed of every software in S.
Ensured(rows, S) ==
    [s \in Software |->
        IF s \in S /\ rows[s] = Absent
        THEN [release |-> Latest(s), override |-> FALSE]
        ELSE rows[s]]

\* The statuses after _demote_existing_latest for software s, but for r.
Demoted(st, s, r) ==
    [q \in Release |->
        IF ReleaseOf[q] = s /\ q # r /\ st[q] = "Latest" THEN "other" ELSE st[q]]

\* software_releases_one_latest_per_software.
OneLatestIn(st, s) ==
    Cardinality({r \in Release : ReleaseOf[r] = s /\ st[r] = "Latest"}) <= 1

-----------------------------------------------------------------------------
Init ==
    /\ status = [r \in Release |-> "unused"]
    /\ softwares = Software
    /\ basket = [b \in Basket |-> [live |-> TRUE, pins |-> {}]]
    /\ assigned = [srv \in Server |-> {}]
    /\ installed = [srv \in Server |-> [s \in Software |-> Absent]]
    /\ servers = Server /\ environments = Env
    /\ covered = {}
    /\ execution = [env \in Env |-> Absent]
    /\ logged = {}
    /\ inflight = Idle

(* The catalog (software/views.py). *)

\* POST .../releases: a new Latest demotes the one there is.
CreateRelease(r, st) ==
    /\ status[r] = "unused"
    /\ st \in {"Latest", "other"}
    /\ LET others == IF st = "Latest" THEN Demoted(status, ReleaseOf[r], r)
                     ELSE status
       IN  status' = [others EXCEPT ![r] = st]
    /\ logged' = {}
    /\ UNCHANGED <<softwares, estate, installed, patching, inflight>>

\* PATCH .../releases/<r>: get_object ...
ReadRelease(r) ==
    /\ inflight = Idle
    /\ r \in LiveReleases
    /\ inflight' = [release |-> r, read |-> status[r]]
    /\ logged' = {}
    /\ UNCHANGED <<catalog, estate, installed, patching>>

\* The statuses a PATCH saves: st is in its body, or was read with the row.
\* The demotion goes by the status that was read.
Patched(st) ==
    LET r == inflight.release
        demoted == IF st = "Latest" /\ inflight.read # "Latest"
                   THEN Demoted(status, ReleaseOf[r], r) ELSE status
    IN [demoted EXCEPT ![r] = st]

\* Variant: no unique index over the Latest releases.
SaveReleaseUnchecked(st) ==
    /\ inflight \in PatchingRelease
    /\ st \in {"Latest", "other"}
    /\ status' = Patched(st)
    /\ inflight' = Idle
    /\ logged' = {}
    /\ UNCHANGED <<softwares, estate, installed, patching>>

\* ... perform_update: demotes, then saves every column of the row as read,
\* deleted_at with them.  A second Latest is an IntegrityError, rolled back.
SaveRelease(st) ==
    /\ inflight \in PatchingRelease
    /\ st \in {"Latest", "other"}
    /\ status' = IF OneLatestIn(Patched(st), ReleaseOf[inflight.release])
                 THEN Patched(st) ELSE status
    /\ inflight' = Idle
    /\ logged' = {}
    /\ UNCHANGED <<softwares, estate, installed, patching>>

\* DELETE .../releases/<r>: the soft delete; no other release takes over.
DeleteRelease(r) ==
    /\ r \in LiveReleases
    /\ status' = [status EXCEPT ![r] = "deleted"]
    /\ logged' = {}
    /\ UNCHANGED <<softwares, estate, installed, patching, inflight>>

\* The servers, environments, softwares and baskets soft-deleted.
Deletions ==
    Cardinality(Server \ servers) + Cardinality(Env \ environments)
    + Cardinality(Software \ softwares)
    + Cardinality({b \in Basket : ~basket[b].live})

\* DELETE .../software/<s>: the soft delete; releases, pins, installs and
\* the links of plans and executions stay.
DeleteSoftware(s) ==
    /\ s \in softwares
    /\ Deletions < MaxDeleted
    /\ softwares' = softwares \ {s}
    /\ logged' = {}
    /\ UNCHANGED <<status, estate, installed, patching, inflight>>

(* Baskets (baskets/views.py, signals.py). *)

\* The pin request with servers left to visit, or answered.
StillPinning(s, todo) ==
    IF todo = {} THEN Idle ELSE [software |-> s, todo |-> todo]

\* POST .../baskets/<b>/software: the pin is committed, and the servers its
\* signal will visit are read.
Pin(b, s) ==
    /\ inflight = Idle
    /\ s \in softwares \ basket[b].pins
    /\ basket' = [basket EXCEPT ![b].pins = basket[b].pins \union {s}]
    /\ inflight' = StillPinning(s, {srv \in Server : b \in assigned[srv]})
    /\ logged' = {}
    /\ UNCHANGED <<catalog, assigned, standing, installed, patching>>

\* on_basket_software_created, one server; each row is its own commit.
PinServer(srv) ==
    /\ inflight \in Pinning /\ srv \in inflight.todo
    /\ installed' = [installed EXCEPT
           ![srv] = Ensured(installed[srv], {inflight.software})]
    /\ inflight' = StillPinning(inflight.software, inflight.todo \ {srv})
    /\ logged' = {}
    /\ UNCHANGED <<catalog, estate, patching>>

\* The request in flight ends early: its body is invalid, or its worker is
\* killed between two commits.
Cut ==
    /\ inflight # Idle
    /\ inflight' = Idle
    /\ logged' = {}
    /\ UNCHANGED <<catalog, estate, installed, patching>>

\* DELETE .../baskets/<b>/software/<s>.
Unpin(b, s) ==
    /\ s \in basket[b].pins
    /\ basket' = [basket EXCEPT ![b].pins = basket[b].pins \ {s}]
    /\ logged' = {}
    /\ UNCHANGED <<catalog, assigned, standing, installed, patching, inflight>>

\* DELETE .../baskets/<b>: the soft delete; assignments and pins stay.
DeleteBasket(b) ==
    /\ basket[b].live
    /\ Deletions < MaxDeleted
    /\ basket' = [basket EXCEPT ![b].live = FALSE]
    /\ logged' = {}
    /\ UNCHANGED <<catalog, assigned, standing, installed, patching, inflight>>

\* PUT .../servers/<srv>/baskets, one transaction: the set is replaced, and
\* what the added baskets pin is recorded.  Deleted baskets are accepted.
PutBaskets(srv, B) ==
    /\ srv \in servers
    /\ assigned' = [assigned EXCEPT ![srv] = B]
    /\ installed' = [installed EXCEPT
           ![srv] = Ensured(installed[srv],
                            UNION {basket[b].pins : b \in B \ assigned[srv]})]
    /\ logged' = {}
    /\ UNCHANGED <<catalog, basket, standing, patching, inflight>>

(* Installed software (baskets/views.py, services.py). *)

\* POST and PATCH .../installed-software: any live release, or none, or what
\* the row has already, with any override.  A POST names a live software, and
\* is refused by unique_together when there is a row.
Record(srv, s, row) ==
    /\ s \in softwares \/ Recorded(srv, s)
    /\ \/ row.release \in LiveReleases \union {None}
       \/ Recorded(srv, s) /\ row.release = installed[srv][s].release
    /\ installed' = [installed EXCEPT ![srv][s] = row]
    /\ logged' = {}
    /\ UNCHANGED <<catalog, estate, patching, inflight>>

\* DELETE .../installed-software/<id>: a hard delete.
Forget(srv, s) ==
    /\ Recorded(srv, s)
    /\ installed' = [installed EXCEPT ![srv][s] = Absent]
    /\ logged' = {}
    /\ UNCHANGED <<catalog, estate, patching, inflight>>

\* copy_installed_software: the rows of src are added to, or replace, dst's.
CopyFrom(src, dst) ==
    /\ src # dst /\ {src, dst} \subseteq servers
    /\ installed' = [installed EXCEPT ![dst] =
           [s \in Software |->
               IF Recorded(src, s) THEN installed[src][s] ELSE installed[dst][s]]]
    /\ logged' = {}
    /\ UNCHANGED <<catalog, estate, patching, inflight>>

\* Variant: what a peer already records is kept.
CopyToPeersKeeps(src) ==
    LET peers == ServersIn(EnvOf[src]) \ {src} IN
    /\ src \in servers
    /\ assigned' = [srv \in Server |->
                       IF srv \in peers THEN assigned[src] ELSE assigned[srv]]
    /\ installed' = [srv \in Server |->
                        IF srv \in peers
                        THEN [s \in Software |->
                                 IF Recorded(srv, s) THEN installed[srv][s]
                                 ELSE installed[src][s]]
                        ELSE installed[srv]]
    /\ logged' = {}
    /\ UNCHANGED <<catalog, basket, standing, patching, inflight>>

\* copy_server_details_to_env_peers: every live peer's assignments and rows
\* are replaced; bulk_create keeps the signals out of it.
CopyToPeers(src) ==
    LET peers == ServersIn(EnvOf[src]) \ {src} IN
    /\ src \in servers
    /\ assigned' = [srv \in Server |->
                       IF srv \in peers THEN assigned[src] ELSE assigned[srv]]
    /\ installed' = [srv \in Server |->
                        IF srv \in peers THEN installed[src] ELSE installed[srv]]
    /\ logged' = {}
    /\ UNCHANGED <<catalog, basket, standing, patching, inflight>>

\* DELETE .../servers/<srv>: the soft delete.
DeleteServer(srv) ==
    /\ srv \in servers
    /\ Deletions < MaxDeleted
    /\ servers' = servers \ {srv}
    /\ logged' = {}
    /\ UNCHANGED <<catalog, basket, assigned, environments, installed, patching,
                   inflight>>

\* DELETE .../environments/<env>: the soft delete; its servers stay live, and
\* its executions can be worked on.
DeleteEnv(env) ==
    /\ env \in environments
    /\ Deletions < MaxDeleted
    /\ environments' = environments \ {env}
    /\ logged' = {}
    /\ UNCHANGED <<catalog, basket, assigned, servers, installed, patching,
                   inflight>>

(* Patching (patching/services.py). *)

\* The plan's live softwares are replaced, or a group's are added to them; the
\* manager hides the links to deleted ones, which stay.
CoverSoftwares(S) ==
    /\ S \subseteq softwares
    /\ covered' = S \union (covered \ softwares)
    /\ covered' # covered
    /\ logged' = {}
    /\ UNCHANGED <<catalog, estate, installed, execution, inflight>>

\* A new execution of the plan: its softwares are copied, of those that are
\* not deleted.
Queued(active) == [active |-> active, softwares |-> covered \intersect softwares]

\* POST /patch-executions, with any status, for one live environment; the
\* index over active executions refuses a second.
CreateExecution(env, active) ==
    /\ env \in environments
    /\ ~Active(env)
    /\ execution' = [execution EXCEPT ![env] = Queued(active)]
    /\ logged' = {}
    /\ UNCHANGED <<catalog, estate, installed, covered, inflight>>

\* check_for_needed_executions: every live environment with a stale software
\* that the plan covers, and no active execution, gets one.  A deleted
\* software is covered by no plan.
Check ==
    /\ execution' = [env \in Env |->
           IF /\ env \in environments /\ ~Active(env)
              /\ Stale(env) \intersect covered \intersect softwares # {}
           THEN Queued(TRUE) ELSE execution[env]]
    /\ logged' = {}
    /\ UNCHANGED <<catalog, estate, installed, covered, inflight>>

\* Variant: the plan's softwares and not the execution's.
BumpedByPlan(env, s) ==
    {srv \in ServersIn(env) :
        s \in covered \intersect softwares /\ Recorded(srv, s)}

\* The servers whose row for s the finalization of env writes: the manager
\* hides the deleted of the execution's softwares.
Bumped(env, s) ==
    {srv \in ServersIn(env) :
        s \in execution[env].softwares \intersect softwares /\ Recorded(srv, s)}

\* A row after finalization: at the Latest there is, or at none.
BumpedRow(row, s) == [release |-> Latest(s), override |-> FALSE]

\* Variant: the history names what the server had.
WrittenBackwards(env) ==
    UNION {{[env |-> env, software |-> s,
              from |-> Latest(s), to |-> installed[srv][s].release] :
                srv \in {v \in Bumped(env, s) :
                            /\ Latest(s) # None
                            /\ installed[v][s].release \notin {None, Latest(s)}}} :
           s \in Software}

\* Variant: a row is written with no Latest to name.
WrittenAlways(env) ==
    UNION {{[env |-> env, software |-> s,
              from |-> installed[srv][s].release, to |-> Latest(s)] :
                srv \in {v \in Bumped(env, s) :
                            installed[v][s].release # Latest(s)}} :
           s \in Software}

\* The patch_history rows of a finalization: one where the release changes.
\* With no Latest, to_release is what from_release is, and there is none.
Written(env) ==
    UNION {{[env |-> env, software |-> s,
              from |-> installed[srv][s].release, to |-> Latest(s)] :
                srv \in {v \in Bumped(env, s) :
                            /\ Latest(s) # None
                            /\ installed[v][s].release # Latest(s)}} :
           s \in Software}

\* finalize_execution, when the last step of the execution is marked.
Finalize(env) ==
    /\ execution[env] # Absent
    /\ execution' = [execution EXCEPT ![env].active = FALSE]
    /\ installed' = [srv \in Server |-> [s \in Software |->
           IF srv \in Bumped(env, s) THEN BumpedRow(installed[srv][s], s)
           ELSE installed[srv][s]]]
    /\ logged' = Written(env)
    /\ UNCHANGED <<catalog, estate, covered, inflight>>

\* PATCH /patch-executions/<id> {status}: nothing else is done.
PatchExecution(env, active) ==
    /\ execution[env] # Absent /\ execution[env].active # active
    /\ execution' = [execution EXCEPT ![env].active = active]
    /\ logged' = {}
    /\ UNCHANGED <<catalog, estate, installed, covered, inflight>>

\* reset_execution: back to active, with the softwares it had.
ResetExecution(env) ==
    /\ execution[env] # Absent /\ ~execution[env].active
    /\ execution' = [execution EXCEPT ![env].active = TRUE]
    /\ logged' = {}
    /\ UNCHANGED <<catalog, estate, installed, covered, inflight>>

\* DELETE /patch-executions/<id>.
DeleteExecution(env) ==
    /\ execution[env] # Absent
    /\ execution' = [execution EXCEPT ![env] = Absent]
    /\ logged' = {}
    /\ UNCHANGED <<catalog, estate, installed, covered, inflight>>

CatalogNext ==
    \/ \E r \in Release :
           \/ \E st \in {"Latest", "other"} : CreateRelease(r, st)
           \/ ReadRelease(r)
           \/ DeleteRelease(r)
    \/ \E st \in {"Latest", "other"} : SaveRelease(st)
    \/ \E s \in Software : DeleteSoftware(s)

EstateNext ==
    \/ \E b \in Basket :
           \/ \E s \in Software : Pin(b, s) \/ Unpin(b, s)
           \/ DeleteBasket(b)
    \/ \E srv \in Server :
           \/ PinServer(srv) \/ CopyToPeers(srv) \/ DeleteServer(srv)
           \/ \E B \in SUBSET Basket : PutBaskets(srv, B)
           \/ \E dst \in Server : CopyFrom(srv, dst)
           \/ \E s \in Software :
                  \/ Forget(srv, s)
                  \/ \E row \in InstalledRow : Record(srv, s, row)
    \/ \E env \in Env : DeleteEnv(env)
    \/ Cut

PatchingNext ==
    \/ \E S \in SUBSET Software : CoverSoftwares(S)
    \/ Check
    \/ \E env \in Env :
           \/ \E active \in BOOLEAN :
                  CreateExecution(env, active) \/ PatchExecution(env, active)
           \/ Finalize(env) \/ ResetExecution(env) \/ DeleteExecution(env)

Next == CatalogNext \/ EstateNext \/ PatchingNext

Spec == Init /\ [][Next]_vars

-----------------------------------------------------------------------------
(* Safety. *)

\* A software has at most one live Latest release, with a stale PATCH in
\* flight among the requests that promote one (_demote_existing_latest and
\* software_releases_one_latest_per_software).
OneLatest == \A s \in Software : OneLatestIn(status, s)

\* While its environment exists, the badge of a server never says "yes" for
\* something the check button does not collect as stale: two pieces of code
\* that walk different tables agree (server_needs_patching,
\* check_for_needed_executions).  What of it a plan covers is another matter.
YesMeansCheckFinds ==
    \A srv \in ServersAt("yes") : Pinned(srv) \intersect Stale(EnvOf[srv]) # {}

\* The two answers about an organization agree (organization_needs_patching
\* and organization_patching_rollup, computed apart).
RollupsAgree ==
    CASE OrganizationNeedsPatching = "yes" ->
             OrganizationPatchingRollup \in {"red", "yellow"}
      [] OrganizationNeedsPatching = "no" -> OrganizationPatchingRollup = "green"
      [] OTHER -> OrganizationPatchingRollup = "unknown"

\* The history that a finalization writes is true: a live server of that
\* environment has come to run the release it names, which is the Latest.
HistoryIsTrue ==
    \A h \in logged :
        /\ h.to \in Latests(h.software) /\ h.from # h.to
        /\ \E srv \in ServersIn(h.env) :
               /\ Recorded(srv, h.software)
               /\ installed[srv][h.software].release = h.to

\* Assigning baskets and pinning software never touch a recorded install,
\* "the user's recorded state wins" (signals.py:6).
RecordedStateWins ==
    [][\A srv \in Server : \A s \in Software :
           /\ installed'[srv][s] # installed[srv][s]
           /\ PinServer(srv) \/ PutBaskets(srv, assigned'[srv])
           => ~Recorded(srv, s)]_vars

\* Of what an execution was queued for, the softwares that still exist are not
\* stale once it is finalized: the check does not find again, without anyone's
\* doing, what was just patched, though the plan has been edited since.
FinalizedIsNotStale ==
    [][\A env \in Env : Finalize(env) =>
           execution[env].softwares \intersect softwares
               \intersect Stale(env)' = {}]_vars

\* After copy-to-env every live peer answers "needs patching" as the source.
PeersAnswerAlike ==
    [][<<assigned, installed>>' # <<assigned, installed>> =>
           \A src \in Server : CopyToPeers(src) =>
               \A srv \in ServersIn(EnvOf[src]) :
                   ServerNeedsPatching(srv)' = ServerNeedsPatching(src)']_vars

(* What a comment of the code says and the code does not do. *)

\* "Patch ran -> server is on the actual catalog Latest" (services.py:192): a
\* server that ran some release runs the Latest once it is patched.
PatchedIsOnLatest ==
    [][\A env \in Env : Finalize(env) =>
           \A s \in Software : \A srv \in Bumped(env, s) :
               installed[srv][s].release # None =>
                   installed'[srv][s].release \in Latests(s)]_vars
=============================================================================
