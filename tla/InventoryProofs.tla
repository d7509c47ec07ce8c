--------------------------- MODULE InventoryProofs ---------------------------
(***************************************************************************)
(* What Inventory promises, proved for any servers, environments, baskets, *)
(* softwares and releases.                                                 *)
(*                                                                         *)
(* Three of the properties follow from what the operators are, whatever    *)
(* the state: the badge and the check read the same rows, and so do the    *)
(* two answers about an organization.  The others need the invariant: that *)
(* a software has one Latest is kept by the demotion in one action and by  *)
(* the unique index in another, and only of well-typed statuses.           *)
(***************************************************************************)
EXTENDS Inventory, FiniteSetTheorems, TLAPS

Row == InstalledRow \union {Absent}

IInv == TypeOK /\ OneLatest /\ HistoryIsTrue

-----------------------------------------------------------------------------
(* Lemmas about the operators. *)

\* Latest is a release flagged so, or None when there is none.
LEMMA LatestFacts ==
    ASSUME NEW s \in Software
    PROVE  /\ Latest(s) \in Release \union {None}
           /\ Latest(s) # None => Latest(s) \in Latests(s)
           /\ Latest(s) = None => Latests(s) = {}
  <1>1. CASE Latests(s) = {}
    BY <1>1 DEF Latest
  <1>2. CASE Latests(s) # {}
    <2>1. Latest(s) \in Latests(s)
      BY <1>2 DEF Latest
    <2>2. Latest(s) \in Release
      BY <2>1 DEF Latests
    <2> QED BY <2>1, <2>2, NullAssumption
  <1> QED BY <1>1, <1>2

\* The signal adds rows and changes none.
LEMMA EnsuredFacts ==
    ASSUME NEW rows \in [Software -> Row], NEW S
    PROVE  /\ Ensured(rows, S) \in [Software -> Row]
           /\ \A s \in Software :
                  rows[s] # Absent => Ensured(rows, S)[s] = rows[s]
  <1>1. \A s \in Software :
            [release |-> Latest(s), override |-> FALSE] \in Row
    BY LatestFacts DEF Row, InstalledRow
  <1> QED BY <1>1 DEF Ensured

\* A set of releases within one that has at most one member has so itself.
LEMMA AtMostOne ==
    ASSUME NEW S \in SUBSET Release, NEW T \in SUBSET S, Cardinality(S) <= 1
    PROVE  Cardinality(T) <= 1
  <1>1. IsFiniteSet(S)
    BY TableAssumption, FS_Subset
  <1>2. /\ Cardinality(T) <= Cardinality(S)
        /\ Cardinality(T) \in Nat /\ Cardinality(S) \in Nat
    BY <1>1, FS_Subset, FS_CardinalityType
  <1> QED BY <1>2

\* The live Latest releases of a software in the statuses st.
Flagged(st, s) == {r \in Release : ReleaseOf[r] = s /\ st[r] = "Latest"}

\* Demoting touches one software, and of it leaves no Latest but r.
LEMMA DemotedFacts ==
    ASSUME NEW st \in [Release -> ReleaseStatus], NEW r \in Release, NEW s
    PROVE  /\ Demoted(st, s, r) \in [Release -> ReleaseStatus]
           /\ \A t : t # s => Flagged(Demoted(st, s, r), t) = Flagged(st, t)
           /\ Flagged(Demoted(st, s, r), s) \subseteq {r}
  BY DEF Demoted, Flagged, ReleaseStatus

-----------------------------------------------------------------------------
(* Properties of a state. *)

\* What turns a server's badge to "yes" is what the check looks for.
LEMMA YesIsFound == TypeOK => YesMeansCheckFinds
  <1> SUFFICES ASSUME TypeOK, NEW srv \in ServersAt("yes")
               PROVE  Pinned(srv) \intersect Stale(EnvOf[srv]) # {}
    BY DEF YesMeansCheckFinds
  <1>1. /\ srv \in servers /\ srv \in Server
        /\ ServerNeedsPatching(srv) = "yes"
    BY DEF ServersAt, TypeOK
  <1>2. PICK s \in Evaluable(srv) :
            /\ ~installed[srv][s].override
            /\ installed[srv][s].release # Latest(s)
    BY <1>1 DEF ServerNeedsPatching
  <1>3. s \in Pinned(srv) /\ Behind(srv, s)
    BY <1>2 DEF Evaluable, Behind
  <1>4. s \in Software
    BY <1>1, <1>3 DEF Pinned, TypeOK, BasketRow
  <1>5. s \in Stale(EnvOf[srv])
    BY <1>1, <1>3, <1>4 DEF Stale, ServersIn
  <1> QED BY <1>3, <1>5

\* Both answers about an organization are about the same two sets of servers.
LEMMA AnswersAgree == RollupsAgree
  <1>1. /\ OrganizationNeedsPatching = "yes" <=> ServersAt("yes") # {}
        /\ OrganizationNeedsPatching = "no" <=>
               ServersAt("yes") = {} /\ ServersAt("no") # {}
    BY DEF OrganizationNeedsPatching
  <1>2. /\ ServersAt("yes") # {} =>
               OrganizationPatchingRollup \in {"red", "yellow"}
        /\ ServersAt("yes") = {} /\ ServersAt("no") # {} =>
               OrganizationPatchingRollup = "green"
        /\ ServersAt("yes") = {} /\ ServersAt("no") = {} =>
               OrganizationPatchingRollup = "unknown"
    BY DEF OrganizationPatchingRollup
  <1> QED BY <1>1, <1>2 DEF RollupsAgree

-----------------------------------------------------------------------------
(* Steps that change the catalog. *)

\* At most one Latest each, when one software's are settled and the others'
\* are what they were.
LEMMA OneLatestAfter ==
    ASSUME OneLatest, NEW st, NEW s \in Software,
           Cardinality(Flagged(st, s)) <= 1,
           \A t \in Software \ {s} : Flagged(st, t) = Flagged(status, t)
    PROVE  \A t \in Software : OneLatestIn(st, t)
  BY DEF OneLatest, OneLatestIn, Flagged

\* A new release, the Latest before it demoted.
LEMMA CreateReleaseKeeps ==
    ASSUME IInv, NEW r \in Release, NEW st \in {"Latest", "other"},
           CreateRelease(r, st)
    PROVE  status' \in [Release -> ReleaseStatus] /\ OneLatest'
  <1> DEFINE s == ReleaseOf[r]
  <1>1. s \in Software /\ status \in [Release -> ReleaseStatus]
    BY CatalogAssumption DEF IInv, TypeOK
  <1>2. CASE st = "Latest"
    <2> DEFINE dem == Demoted(status, s, r)
    <2>1. status' = [dem EXCEPT ![r] = "Latest"]
      BY <1>2 DEF CreateRelease
    <2>2. /\ dem \in [Release -> ReleaseStatus]
          /\ \A t : t # s => Flagged(dem, t) = Flagged(status, t)
          /\ Flagged(dem, s) \subseteq {r}
      BY <1>1, DemotedFacts
    <2> HIDE DEF dem
    <2>3. status' \in [Release -> ReleaseStatus]
      BY <2>1, <2>2 DEF ReleaseStatus
    <2>4. Flagged(status', s) = {r}
      BY <2>1, <2>2 DEF Flagged
    <2>5. \A t \in Software \ {s} : Flagged(status', t) = Flagged(status, t)
      <3>1. \A t \in Software \ {s} : Flagged(status', t) = Flagged(dem, t)
        BY <2>1, <2>2 DEF Flagged
      <3> QED BY <2>2, <3>1
    <2>6. Cardinality(Flagged(status', s)) <= 1
      BY <2>4, FS_EmptySet, FS_AddElement
    <2>7. \A t \in Software : OneLatestIn(status', t)
      BY <1>1, <2>5, <2>6, OneLatestAfter DEF IInv
    <2> QED BY <2>3, <2>7 DEF OneLatest, OneLatestIn
  <1>3. CASE st # "Latest"
    <2>1. status' = [status EXCEPT ![r] = "other"] /\ status[r] = "unused"
      BY <1>3 DEF CreateRelease
    <2>2. status' \in [Release -> ReleaseStatus]
      BY <1>1, <2>1 DEF ReleaseStatus
    <2>3. \A t : Flagged(status', t) = Flagged(status, t)
      BY <1>1, <2>1 DEF Flagged
    <2>4. OneLatest'
      BY <2>3 DEF IInv, OneLatest, OneLatestIn, Flagged
    <2> QED BY <2>2, <2>4
  <1> QED BY <1>2, <1>3

\* A stale PATCH: the index refuses what the demotion missed.
LEMMA SaveReleaseKeeps ==
    ASSUME IInv, NEW st \in {"Latest", "other"}, SaveRelease(st)
    PROVE  status' \in [Release -> ReleaseStatus] /\ OneLatest'
  <1> DEFINE r == inflight.release
             s == ReleaseOf[r]
             dem == Demoted(status, s, r)
  <1>1. r \in Release /\ s \in Software /\ status \in [Release -> ReleaseStatus]
    BY CatalogAssumption DEF IInv, TypeOK, SaveRelease, PatchingRelease
  <1>2. CASE status' = status
    BY <1>1, <1>2 DEF IInv, OneLatest, OneLatestIn
  <1>3. CASE OneLatestIn(Patched(st), s) /\ status' = Patched(st)
    <2>1. /\ dem \in [Release -> ReleaseStatus]
          /\ \A t : t # s => Flagged(dem, t) = Flagged(status, t)
      BY <1>1, DemotedFacts
    <2>2. \/ status' = [dem EXCEPT ![r] = st]
          \/ status' = [status EXCEPT ![r] = st]
      BY <1>3 DEF Patched
    <2> HIDE DEF dem
    <2>3. status' \in [Release -> ReleaseStatus]
      BY <1>1, <2>1, <2>2 DEF ReleaseStatus
    <2>4. \A t \in Software \ {s} :
              Flagged(status', t) \in {Flagged(dem, t), Flagged(status, t)}
      <3>1. TAKE t \in Software \ {s}
      <3>2. CASE status' = [dem EXCEPT ![r] = st]
        BY <2>1, <3>2 DEF Flagged
      <3>3. CASE status' = [status EXCEPT ![r] = st]
        BY <1>1, <3>3 DEF Flagged
      <3> QED BY <2>2, <3>2, <3>3
    <2>5. \A t \in Software \ {s} : Flagged(status', t) = Flagged(status, t)
      BY <2>1, <2>4
    <2>6. Cardinality(Flagged(status', s)) <= 1
      BY <1>3 DEF OneLatestIn, Flagged
    <2>7. \A t \in Software : OneLatestIn(status', t)
      BY <1>1, <2>5, <2>6, OneLatestAfter DEF IInv
    <2> QED BY <2>3, <2>7 DEF OneLatest, OneLatestIn
  <1> QED BY <1>2, <1>3 DEF SaveRelease

\* A deleted release takes its flag with it.
LEMMA DeleteReleaseKeeps ==
    ASSUME IInv, NEW r \in Release, DeleteRelease(r)
    PROVE  status' \in [Release -> ReleaseStatus] /\ OneLatest'
  <1>1. status \in [Release -> ReleaseStatus]
    BY DEF IInv, TypeOK
  <1>2. status' = [status EXCEPT ![r] = "deleted"]
    BY DEF DeleteRelease
  <1>3. status' \in [Release -> ReleaseStatus]
    BY <1>1, <1>2 DEF ReleaseStatus
  <1>4. ASSUME NEW s \in Software PROVE OneLatestIn(status', s)
    <2>1. /\ Flagged(status, s) \in SUBSET Release
          /\ Flagged(status', s) \in SUBSET Flagged(status, s)
      BY <1>1, <1>2 DEF Flagged
    <2>2. Cardinality(Flagged(status, s)) <= 1
      BY DEF IInv, OneLatest, OneLatestIn, Flagged
    <2>3. Cardinality(Flagged(status', s)) <= 1
      BY <2>1, <2>2, AtMostOne
    <2> QED BY <2>3 DEF OneLatestIn, Flagged
  <1> QED BY <1>3, <1>4 DEF OneLatest, OneLatestIn

-----------------------------------------------------------------------------
(* Steps that change what servers record. *)

\* What a finalization writes in the history is of rows it has changed.
LEMMA WrittenFacts ==
    ASSUME NEW env \in Env, NEW h \in Written(env)
    PROVE  \E s \in Software : \E srv \in Bumped(env, s) :
               /\ Latest(s) # None /\ installed[srv][s].release # Latest(s)
               /\ h = [env |-> env, software |-> s,
                       from |-> installed[srv][s].release, to |-> Latest(s)]
  BY DEF Written

\* A finalization leaves the invariant true, and its history with it.
LEMMA FinalizeKeeps ==
    ASSUME IInv, NEW env \in Env, Finalize(env)
    PROVE  IInv'
  <1> USE DEF IInv
  <1>1. /\ TypeOK /\ OneLatest
        /\ UNCHANGED <<status, softwares, basket, assigned, servers,
                       environments, covered, inflight>>
    BY DEF Finalize, catalog, estate, standing
  <1>2. execution' \in [Env -> ExecutionRow \union {Absent}]
    BY <1>1 DEF TypeOK, ExecutionRow, Finalize
  <1>3. \A s \in Software : \A row : BumpedRow(row, s) \in InstalledRow
    BY LatestFacts DEF BumpedRow, InstalledRow
  <1>4. installed' \in [Server -> [Software -> Row]]
    BY <1>1, <1>3 DEF TypeOK, Row, Finalize
  <1>5. ASSUME NEW h \in logged'
        PROVE  /\ h \in HistoryRow
               /\ h.to \in Latests(h.software)' /\ h.from # h.to
               /\ \E srv \in ServersIn(h.env)' :
                      /\ Recorded(srv, h.software)'
                      /\ installed'[srv][h.software].release = h.to
    <2>0. PICK s \in Software : \E srv \in Bumped(env, s) :
              /\ Latest(s) # None /\ installed[srv][s].release # Latest(s)
              /\ h = [env |-> env, software |-> s,
                      from |-> installed[srv][s].release, to |-> Latest(s)]
      BY <1>5, WrittenFacts DEF Finalize
    <2>1. PICK srv \in Bumped(env, s) :
              /\ Latest(s) # None /\ installed[srv][s].release # Latest(s)
              /\ h = [env |-> env, software |-> s,
                      from |-> installed[srv][s].release, to |-> Latest(s)]
      BY <2>0
    <2>2. /\ srv \in Server /\ srv \in ServersIn(env) /\ Recorded(srv, s)
      BY <1>1 DEF Bumped, ServersIn, TypeOK
    <2>3. installed[srv][s] \in InstalledRow
      BY <1>1, <2>2 DEF TypeOK, Recorded
    <2>4. /\ Latest(s) \in Latests(s) /\ Latest(s) \in Release
      BY <2>1, LatestFacts
    <2>5. h \in HistoryRow
      BY <2>1, <2>3, <2>4 DEF HistoryRow, InstalledRow
    <2>6. Latests(s)' = Latests(s) /\ ServersIn(env)' = ServersIn(env)
      BY <1>1 DEF Latests, ServersIn
    <2>7. installed'[srv][s] = BumpedRow(installed[srv][s], s)
      BY <2>1, <2>2 DEF Finalize
    <2>8. Recorded(srv, s)'
      BY <1>3, <2>7, AbsentAssumption DEF Recorded, InstalledRow
    <2>9. installed'[srv][s].release = Latest(s)
      BY <2>7 DEF BumpedRow
    <2> QED BY <2>1, <2>2, <2>4, <2>5, <2>6, <2>8, <2>9
  <1>6. TypeOK'
    BY <1>1, <1>2, <1>4, <1>5 DEF TypeOK, Row
  <1>7. OneLatest'
    BY <1>1 DEF OneLatest, OneLatestIn
  <1>8. HistoryIsTrue'
    BY <1>5 DEF HistoryIsTrue
  <1> QED BY <1>6, <1>7, <1>8

\* The three other ways of writing rows leave them rows.
LEMMA CopyFromKeeps ==
    ASSUME TypeOK, NEW src \in Server, NEW dst \in Server, CopyFrom(src, dst)
    PROVE  installed' \in [Server -> [Software -> Row]]
  BY DEF TypeOK, CopyFrom, Row

LEMMA CopyToEnvKeeps ==
    ASSUME TypeOK, NEW src \in Server, CopyToPeers(src)
    PROVE  /\ installed' \in [Server -> [Software -> Row]]
           /\ assigned' \in [Server -> SUBSET Basket]
  BY DEF TypeOK, CopyToPeers, Row

LEMMA SignalKeeps ==
    ASSUME TypeOK, NEW srv \in Server, NEW S,
           installed' = [installed EXCEPT ![srv] = Ensured(installed[srv], S)]
    PROVE  installed' \in [Server -> [Software -> Row]]
  <1>1. installed \in [Server -> [Software -> Row]]
    BY DEF TypeOK, Row
  <1>2. Ensured(installed[srv], S) \in [Software -> Row]
    BY <1>1, EnsuredFacts
  <1> QED BY <1>1, <1>2

-----------------------------------------------------------------------------
(* The invariant. *)

LEMMA InitInv == Init => IInv
  <1> SUFFICES ASSUME Init PROVE IInv
    OBVIOUS
  <1>1. TypeOK
    BY DEF Init, TypeOK, ReleaseStatus, BasketRow
  <1>2. \A s \in Software :
            {r \in Release : ReleaseOf[r] = s /\ status[r] = "Latest"} = {}
    BY DEF Init
  <1>3. OneLatest
    BY <1>2, FS_EmptySet DEF OneLatest, OneLatestIn
  <1>4. HistoryIsTrue
    BY DEF Init, HistoryIsTrue
  <1> QED BY <1>1, <1>3, <1>4 DEF IInv

LEMMA CatalogKeeps == IInv /\ CatalogNext => IInv'
  <1> SUFFICES ASSUME IInv, CatalogNext PROVE IInv'
    OBVIOUS
  <1>0. TypeOK
    BY DEF IInv
  <1>1. ASSUME logged' = {}, UNCHANGED <<estate, installed, patching>>,
               inflight' \in PatchingRelease \union Pinning \union {Idle},
               status' \in [Release -> ReleaseStatus], OneLatest',
               softwares' \subseteq Software
        PROVE  IInv'
    BY <1>0, <1>1
    DEF IInv, TypeOK, HistoryIsTrue, estate, standing, patching
  <1>2. ASSUME NEW r \in Release, NEW st \in {"Latest", "other"},
               CreateRelease(r, st)
        PROVE  IInv'
    BY <1>0, <1>1, <1>2, CreateReleaseKeeps DEF CreateRelease, TypeOK
  <1>3. ASSUME NEW r \in Release, ReadRelease(r) PROVE IInv'
    <2>1. OneLatest'
      BY <1>3 DEF IInv, ReadRelease, catalog, OneLatest, OneLatestIn
    <2>2. inflight' \in PatchingRelease
      BY <1>3 DEF ReadRelease, LiveReleases, PatchingRelease
    <2> QED BY <1>0, <1>1, <1>3, <2>1, <2>2 DEF ReadRelease, TypeOK, catalog
  <1>4. ASSUME NEW r \in Release, DeleteRelease(r) PROVE IInv'
    BY <1>0, <1>1, <1>4, DeleteReleaseKeeps DEF DeleteRelease, TypeOK
  <1>5. ASSUME NEW st \in {"Latest", "other"}, SaveRelease(st) PROVE IInv'
    BY <1>0, <1>1, <1>5, SaveReleaseKeeps DEF SaveRelease, TypeOK
  <1>6. ASSUME NEW s \in Software, DeleteSoftware(s) PROVE IInv'
    <2>1. OneLatest'
      BY <1>6 DEF IInv, DeleteSoftware, OneLatest, OneLatestIn
    <2> QED BY <1>0, <1>1, <1>6, <2>1 DEF DeleteSoftware, TypeOK
  <1> QED BY <1>2, <1>3, <1>4, <1>5, <1>6 DEF CatalogNext

LEMMA EstateKeeps == IInv /\ EstateNext => IInv'
  <1> SUFFICES ASSUME IInv, EstateNext PROVE IInv'
    OBVIOUS
  <1>0. TypeOK
    BY DEF IInv
  <1>1. ASSUME UNCHANGED <<catalog, patching>>, logged' = {},
               basket' \in [Basket -> BasketRow],
               assigned' \in [Server -> SUBSET Basket],
               installed' \in [Server -> [Software -> Row]],
               servers' \subseteq Server, environments' \subseteq Env,
               inflight' \in PatchingRelease \union Pinning \union {Idle}
        PROVE  IInv'
    <2>1. TypeOK'
      BY <1>0, <1>1 DEF TypeOK, catalog, patching, Row
    <2>2. OneLatest' /\ HistoryIsTrue'
      BY <1>1 DEF IInv, catalog, OneLatest, OneLatestIn, HistoryIsTrue
    <2> QED BY <2>1, <2>2 DEF IInv
  <1> USE DEF catalog, estate, standing
  <1>2. ASSUME NEW b \in Basket, NEW s \in Software, Pin(b, s) PROVE IInv'
    <2>1. basket' \in [Basket -> BasketRow]
      BY <1>0, <1>2 DEF Pin, TypeOK, BasketRow
    <2>2. inflight' \in Pinning \union {Idle}
      BY <1>2 DEF Pin, StillPinning, Pinning
    <2> QED BY <1>0, <1>1, <1>2, <2>1, <2>2 DEF Pin, TypeOK, Row
  <1>3. ASSUME NEW b \in Basket, NEW s \in Software, Unpin(b, s) PROVE IInv'
    <2>1. basket' \in [Basket -> BasketRow]
      BY <1>0, <1>3 DEF Unpin, TypeOK, BasketRow
    <2> QED BY <1>0, <1>1, <1>3, <2>1 DEF Unpin, TypeOK, Row
  <1>4. ASSUME NEW b \in Basket, DeleteBasket(b) PROVE IInv'
    <2>1. basket' \in [Basket -> BasketRow]
      BY <1>0, <1>4 DEF DeleteBasket, TypeOK, BasketRow
    <2> QED BY <1>0, <1>1, <1>4, <2>1 DEF DeleteBasket, TypeOK, Row
  <1>5. ASSUME NEW srv \in Server, PinServer(srv) PROVE IInv'
    <2>1. installed' \in [Server -> [Software -> Row]]
      BY <1>0, <1>5, SignalKeeps DEF PinServer
    <2>2. inflight' \in Pinning \union {Idle}
      BY <1>5 DEF PinServer, StillPinning, Pinning
    <2> QED BY <1>0, <1>1, <1>5, <2>1, <2>2 DEF PinServer, TypeOK
  <1>6. ASSUME NEW src \in Server, CopyToPeers(src) PROVE IInv'
    BY <1>0, <1>1, <1>6, CopyToEnvKeeps DEF CopyToPeers, TypeOK
  <1>7. ASSUME NEW srv \in Server, DeleteServer(srv) PROVE IInv'
    BY <1>0, <1>1, <1>7 DEF DeleteServer, TypeOK, Row
  <1>8. ASSUME NEW srv \in Server, NEW B \in SUBSET Basket, PutBaskets(srv, B)
        PROVE  IInv'
    <2>1. installed' \in [Server -> [Software -> Row]]
      BY <1>0, <1>8, SignalKeeps DEF PutBaskets
    <2>2. assigned' \in [Server -> SUBSET Basket]
      BY <1>0, <1>8 DEF PutBaskets, TypeOK
    <2> QED BY <1>0, <1>1, <1>8, <2>1, <2>2 DEF PutBaskets, TypeOK
  <1>9. ASSUME NEW src \in Server, NEW dst \in Server, CopyFrom(src, dst)
        PROVE  IInv'
    BY <1>0, <1>1, <1>9, CopyFromKeeps DEF CopyFrom, TypeOK
  <1>10. ASSUME NEW srv \in Server, NEW s \in Software, Forget(srv, s)
         PROVE  IInv'
    <2>1. installed' \in [Server -> [Software -> Row]]
      BY <1>0, <1>10 DEF Forget, TypeOK, Row
    <2> QED BY <1>0, <1>1, <1>10, <2>1 DEF Forget, TypeOK
  <1>11. ASSUME NEW srv \in Server, NEW s \in Software,
                NEW row \in InstalledRow, Record(srv, s, row)
         PROVE  IInv'
    <2>1. installed' \in [Server -> [Software -> Row]]
      BY <1>0, <1>11 DEF Record, TypeOK, Row
    <2> QED BY <1>0, <1>1, <1>11, <2>1 DEF Record, TypeOK
  <1>12. CASE Cut
    BY <1>0, <1>1, <1>12 DEF Cut, TypeOK, Row
  <1>13. ASSUME NEW env \in Env, DeleteEnv(env) PROVE IInv'
    BY <1>0, <1>1, <1>13 DEF DeleteEnv, TypeOK, Row
  <1> QED
    BY <1>2, <1>3, <1>4, <1>5, <1>6, <1>7, <1>8, <1>9, <1>10, <1>11, <1>12,
       <1>13
    DEF EstateNext

LEMMA PatchingKeeps == IInv /\ PatchingNext => IInv'
  <1> SUFFICES ASSUME IInv, PatchingNext PROVE IInv'
    OBVIOUS
  <1>0. TypeOK
    BY DEF IInv
  <1>1. ASSUME UNCHANGED <<catalog, estate, installed, inflight>>, logged' = {},
               covered' \subseteq Software,
               execution' \in [Env -> ExecutionRow \union {Absent}]
        PROVE  IInv'
    BY <1>0, <1>1
    DEF IInv, TypeOK, OneLatest, OneLatestIn, HistoryIsTrue, catalog, estate,
        standing
  <1>q. \A active \in BOOLEAN : Queued(active) \in ExecutionRow
    BY <1>0 DEF Queued, ExecutionRow, TypeOK
  <1>2. ASSUME NEW S \in SUBSET Software, CoverSoftwares(S) PROVE IInv'
    BY <1>0, <1>1, <1>2 DEF CoverSoftwares, TypeOK
  <1>3. CASE Check
    <2>1. execution' \in [Env -> ExecutionRow \union {Absent}]
      BY <1>0, <1>3, <1>q DEF Check, TypeOK
    <2> QED BY <1>0, <1>1, <1>3, <2>1 DEF Check, TypeOK
  <1>4. ASSUME NEW env \in Env, NEW active \in BOOLEAN,
               CreateExecution(env, active)
        PROVE  IInv'
    BY <1>0, <1>1, <1>4, <1>q DEF CreateExecution, TypeOK
  <1>5. ASSUME NEW env \in Env, Finalize(env) PROVE IInv'
    BY <1>5, FinalizeKeeps
  <1>6. ASSUME NEW env \in Env, ResetExecution(env) PROVE IInv'
    BY <1>0, <1>1, <1>6 DEF ResetExecution, TypeOK, ExecutionRow
  <1>7. ASSUME NEW env \in Env, DeleteExecution(env) PROVE IInv'
    BY <1>0, <1>1, <1>7 DEF DeleteExecution, TypeOK
  <1>8. ASSUME NEW env \in Env, NEW active \in BOOLEAN,
               PatchExecution(env, active)
        PROVE  IInv'
    BY <1>0, <1>1, <1>8 DEF PatchExecution, TypeOK, ExecutionRow
  <1> QED BY <1>2, <1>3, <1>4, <1>5, <1>6, <1>7, <1>8 DEF PatchingNext

LEMMA Invariant == Spec => []IInv
  <1>1. IInv /\ [Next]_vars => IInv'
    <2>1. IInv /\ UNCHANGED vars => IInv'
      BY DEF IInv, TypeOK, OneLatest, OneLatestIn, HistoryIsTrue, Latests,
             ServersIn, Recorded, vars
    <2> QED BY <2>1, CatalogKeeps, EstateKeeps, PatchingKeeps DEF Next
  <1> QED BY <1>1, InitInv, PTL DEF Spec

-----------------------------------------------------------------------------
(* Theorems. *)

\* No software ever has two Latest releases, however many releases there are
\* and with a stale PATCH of one in flight.
THEOREM CatalogIsSound == Spec => []OneLatest
  <1>1. IInv => OneLatest
    BY DEF IInv
  <1> QED BY <1>1, Invariant, PTL

\* Rows, baskets, executions and the requests in flight are what the models
\* and serializers declare.
THEOREM TypesHold == Spec => []TypeOK
  <1>1. IInv => TypeOK
    BY DEF IInv
  <1> QED BY <1>1, Invariant, PTL

\* While its environment exists, the badge of a server never says "yes" of what
\* the check does not collect as stale.
THEOREM BadgesAgree == Spec => []YesMeansCheckFinds
  <1>1. IInv => YesMeansCheckFinds
    BY YesIsFound DEF IInv
  <1> QED BY <1>1, Invariant, PTL

\* The two answers about an organization agree.
THEOREM AnswersHold == Spec => []RollupsAgree
  <1>1. IInv => RollupsAgree
    BY AnswersAgree DEF IInv
  <1> QED BY <1>1, Invariant, PTL

\* Every row of the history is about a server that came to run what it names.
THEOREM HistoryHolds == Spec => []HistoryIsTrue
  <1>1. IInv => HistoryIsTrue
    BY DEF IInv
  <1> QED BY <1>1, Invariant, PTL

\* Assigning and pinning never write over what someone recorded.
THEOREM UserWins == Spec => RecordedStateWins
  <1>1. ASSUME IInv, NEW srv \in Server, NEW s \in Software,
               installed'[srv][s] # installed[srv][s],
               PinServer(srv) \/ PutBaskets(srv, assigned'[srv])
        PROVE  ~Recorded(srv, s)
    <2>1. installed \in [Server -> [Software -> Row]]
      BY <1>1 DEF IInv, TypeOK, Row
    <2>2. PICK S : installed' = [installed EXCEPT
                       ![srv] = Ensured(installed[srv], S)]
      BY <1>1 DEF PinServer, PutBaskets
    <2>3. installed[srv][s] # Absent => installed'[srv][s] = installed[srv][s]
      BY <2>1, <2>2, EnsuredFacts
    <2> QED BY <1>1, <2>3 DEF Recorded
  <1>2. IInv => \A srv \in Server : \A s \in Software :
                    /\ installed'[srv][s] # installed[srv][s]
                    /\ PinServer(srv) \/ PutBaskets(srv, assigned'[srv])
                    => ~Recorded(srv, s)
    BY <1>1
  <1> QED BY <1>2, Invariant, PTL DEF RecordedStateWins

\* What was just patched is not found again by the check.
THEOREM PatchedIsNotStale == Spec => FinalizedIsNotStale
  <1>1. ASSUME IInv, NEW env \in Env, Finalize(env)
        PROVE  execution[env].softwares \intersect softwares
                   \intersect Stale(env)' = {}
    <2>1. TypeOK
      BY <1>1 DEF IInv
    <2>3. ASSUME NEW s \in softwares, s \in execution[env].softwares,
                 NEW srv \in ServersIn(env)'
          PROVE  ~Behind(srv, s)'
      <3>1. srv \in ServersIn(env) /\ srv \in Server /\ Latest(s)' = Latest(s)
        BY <1>1, <2>1, <2>3
        DEF Finalize, catalog, estate, standing, ServersIn, TypeOK, Latest,
            Latests
      <3>2. CASE Recorded(srv, s)
        <4>1. installed'[srv][s] = BumpedRow(installed[srv][s], s)
          BY <1>1, <2>1, <2>3, <3>1, <3>2 DEF Finalize, Bumped, TypeOK
        <4> QED BY <3>1, <4>1 DEF Behind, BumpedRow
      <3>3. CASE ~Recorded(srv, s)
        <4>1. installed'[srv][s] = installed[srv][s]
          BY <1>1, <2>1, <2>3, <3>1, <3>3 DEF Finalize, Bumped, TypeOK
        <4> QED BY <3>3, <4>1 DEF Behind, Recorded
      <3> QED BY <3>2, <3>3
    <2> QED BY <2>3 DEF Stale
  <1>2. IInv =>
            \A env \in Env : Finalize(env) =>
                execution[env].softwares \intersect softwares
                    \intersect Stale(env)' = {}
    BY <1>1
  <1> QED BY <1>2, Invariant, PTL DEF FinalizedIsNotStale

\* After copy-to-env the badges of an environment's live servers agree.
THEOREM PeersHold == Spec => PeersAnswerAlike
  <1>1. ASSUME TypeOK, NEW src \in Server, CopyToPeers(src),
               NEW srv \in ServersIn(EnvOf[src])
        PROVE  ServerNeedsPatching(srv)' = ServerNeedsPatching(src)'
    <2>1. srv \in Server
      BY <1>1 DEF ServersIn, TypeOK
    <2>2. assigned'[srv] = assigned'[src] /\ installed'[srv] = installed'[src]
      BY <1>1, <2>1 DEF CopyToPeers
    <2>3. Pinned(srv)' = Pinned(src)'
      BY <2>2 DEF Pinned
    <2>4. \A s : Recorded(srv, s)' <=> Recorded(src, s)'
      BY <2>2 DEF Recorded
    <2>5. Evaluable(srv)' = Evaluable(src)'
      BY <2>3, <2>4 DEF Evaluable
    <2> QED BY <2>2, <2>5 DEF ServerNeedsPatching
  <1>2. TypeOK => \A src \in Server : CopyToPeers(src) =>
                      \A srv \in ServersIn(EnvOf[src]) :
                          ServerNeedsPatching(srv)' = ServerNeedsPatching(src)'
    BY <1>1
  <1> QED BY <1>2, TypesHold, PTL DEF PeersAnswerAlike
=============================================================================
