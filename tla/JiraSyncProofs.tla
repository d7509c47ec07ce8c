--------------------------- MODULE JiraSyncProofs ---------------------------
(***************************************************************************)
(* What JiraSync promises, proved for any listing, any number of rows and  *)
(* of runs that overlap, and any page size.                                *)
(*                                                                         *)
(* The invariant adds what an edit and a run carry with them: a row that   *)
(* was read is a live row whose counts add up, and as long as the listing  *)
(* has stood still a run has seen exactly the entries before `start`.      *)
(***************************************************************************)
EXTENDS JiraSync, TLAPS

Shape ==
    /\ listing \in Seq(Org)
    /\ \A r \in Row : rows[r] # Absent => rows[r] \in OrgRow
    /\ rows = [r \in Row |-> rows[r]]
    /\ jobs \in [Job -> Fetching \union Counting \union {Idle}]
    /\ edit # Idle => /\ edit.id \in Row /\ edit.row \in OrgRow
                      /\ ~edit.row.deleted

AddsUp(row) ==
    row.automated # Null /\ row.manual # Null
        => row.open = row.automated + row.manual

EditAddsUp == edit # Idle => AddsUp(edit.row)

SeenSoFar ==
    \A j \in Job : jobs[j] \in Fetching /\ jobs[j].steady =>
        /\ jobs[j].seen = {listing[i] : i \in {k \in DOMAIN listing : k <= jobs[j].start}}
        /\ jobs[j].last => Len(listing) <= jobs[j].start

IInv == Shape /\ OneLiveRow /\ CountsAddUp /\ EditAddsUp /\ SeenSoFar

-----------------------------------------------------------------------------
(* The row that a run or an edit writes. *)

\* Soft-deleting and counting leave a row a row.
LEMMA RowFacts ==
    ASSUME NEW row \in OrgRow
    PROVE  /\ [row EXCEPT !.deleted = TRUE] \in OrgRow
           /\ \A a, m \in Counts : [row EXCEPT
                  !.open = a + m, !.automated = a, !.manual = m] \in OrgRow
  <1>1. [row EXCEPT !.deleted = TRUE] \in OrgRow
    BY DEF OrgRow
  <1>2. ASSUME NEW a \in Counts, NEW m \in Counts
        PROVE  [row EXCEPT !.open = a + m, !.automated = a, !.manual = m] \in OrgRow
    <2>1. a + m \in 0..(2 * MaxCount)
      BY <1>2, BoundsAssumption DEF Counts
    <2> QED BY <1>2, <2>1 DEF OrgRow
  <1> QED BY <1>1, <1>2

LEMMA NewRowFacts ==
    ASSUME NEW o \in Org
    PROVE  NewRow(o) \in OrgRow /\ NewRow(o) # Absent /\ AddsUp(NewRow(o))
  <1>1. NewRow(o) \in OrgRow
    BY DEF NewRow, OrgRow
  <1>2. AddsUp(NewRow(o))
    BY DEF NewRow, AddsUp
  <1> QED BY <1>1, <1>2, AbsentAssumption

\* What a sync of `seen` does to the rows.
LEMMA MirrorFacts ==
    ASSUME Shape, OneLiveRow, CountsAddUp, NEW seen \in SUBSET Org, Mirror(seen)
    PROVE  /\ \A r \in Row : rows'[r] # Absent => rows'[r] \in OrgRow
           /\ rows' = [r \in Row |-> rows'[r]]
           /\ OneLiveRow' /\ CountsAddUp'
           /\ LiveOrgs' = seen
           /\ \A r \in LiveRows : rows[r].org \in seen => rows'[r] = rows[r]
  <1> DEFINE missing == seen \ LiveOrgs
             free == {r \in Row : rows[r] = Absent}
             Of(made, r) == CHOOSE o \in missing : made[o] = r
  <1>1. PICK made \in [missing -> free] :
            /\ \A o, p \in missing : made[o] = made[p] => o = p
            /\ rows' = [r \in Row |->
                  IF r \in Range(made) THEN NewRow(Of(made, r))
                  ELSE IF Live(r) /\ rows[r].org \notin seen
                  THEN [rows[r] EXCEPT !.deleted = TRUE]
                  ELSE rows[r]]
    BY DEF Mirror
  <1>2. \A r \in Range(made) : /\ Of(made, r) \in missing /\ made[Of(made, r)] = r
                               /\ r \in Row /\ rows[r] = Absent
    <2> SUFFICES ASSUME NEW r \in Range(made)
                 PROVE  /\ Of(made, r) \in missing /\ made[Of(made, r)] = r
                        /\ r \in Row /\ rows[r] = Absent
      OBVIOUS
    <2>1. PICK o \in missing : made[o] = r
      BY DEF Range
    <2>2. Of(made, r) \in missing /\ made[Of(made, r)] = r
      BY <2>1
    <2> QED BY <2>1, <2>2
  <1>3. \A r \in Range(made) : /\ rows'[r] = NewRow(Of(made, r))
                               /\ rows'[r].org = Of(made, r)
                               /\ Of(made, r) \in Org
                               /\ Live(r)' /\ AddsUp(rows'[r])
    <2> SUFFICES ASSUME NEW r \in Range(made)
                 PROVE  /\ rows'[r] = NewRow(Of(made, r))
                        /\ rows'[r].org = Of(made, r)
                        /\ Of(made, r) \in Org
                        /\ Live(r)' /\ AddsUp(rows'[r])
      OBVIOUS
    <2>1. r \in Row /\ Of(made, r) \in Org
      BY <1>2
    <2>2. rows'[r] = NewRow(Of(made, r))
      BY <1>1, <2>1
    <2>3. rows'[r] # Absent /\ AddsUp(rows'[r])
      BY <2>1, <2>2, NewRowFacts
    <2>4. rows'[r].org = Of(made, r) /\ rows'[r].deleted = FALSE
      BY <2>2 DEF NewRow
    <2> QED BY <2>1, <2>2, <2>3, <2>4 DEF Live
  <1>4. \A r \in Row \ Range(made) :
            rows'[r] = IF Live(r) /\ rows[r].org \notin seen
                       THEN [rows[r] EXCEPT !.deleted = TRUE] ELSE rows[r]
    BY <1>1
  <1>5. \A r \in Row \ Range(made) :
            /\ Live(r)' <=> Live(r) /\ rows[r].org \in seen
            /\ Live(r)' => rows'[r] = rows[r]
    <2> SUFFICES ASSUME NEW r \in Row \ Range(made)
                 PROVE  /\ Live(r)' <=> Live(r) /\ rows[r].org \in seen
                        /\ Live(r)' => rows'[r] = rows[r]
      OBVIOUS
    <2>1. CASE Live(r) /\ rows[r].org \notin seen
      <3>1. rows[r] \in OrgRow
        BY <2>1 DEF Live, Shape
      <3>2. rows'[r] = [rows[r] EXCEPT !.deleted = TRUE]
        BY <2>1, <1>4
      <3>3. rows'[r].deleted
        BY <3>1, <3>2 DEF OrgRow
      <3> QED BY <2>1, <3>3 DEF Live
    <2>2. CASE ~(Live(r) /\ rows[r].org \notin seen)
      <3>1. rows'[r] = rows[r]
        BY <2>2, <1>4
      <3> QED BY <2>2, <3>1 DEF Live
    <2> QED BY <2>1, <2>2
  <1>6. \A r \in Row : rows'[r] # Absent => rows'[r] \in OrgRow
    <2> SUFFICES ASSUME NEW r \in Row, rows'[r] # Absent
                 PROVE  rows'[r] \in OrgRow
      OBVIOUS
    <2>1. CASE r \in Range(made)
      BY <1>3, <2>1, NewRowFacts
    <2>2. CASE r \notin Range(made) /\ Live(r) /\ rows[r].org \notin seen
      <3>1. rows[r] \in OrgRow
        BY <2>2 DEF Live, Shape
      <3> QED BY <1>4, <2>2, <3>1, RowFacts
    <2>3. CASE r \notin Range(made) /\ ~(Live(r) /\ rows[r].org \notin seen)
      <3>1. rows'[r] = rows[r]
        BY <1>4, <2>3
      <3> QED BY <3>1 DEF Shape
    <2> QED BY <2>1, <2>2, <2>3
  <1>7. rows' = [r \in Row |-> rows'[r]]
    BY <1>1
  <1>8. OneLiveRow'
    <2> SUFFICES ASSUME NEW q \in Row, NEW r \in Row, Live(q)', Live(r)',
                        rows'[q].org = rows'[r].org
                 PROVE  q = r
      BY DEF OneLiveRow, LiveRows
    <2>5. \A k \in Range(made) : rows'[k].org \notin LiveOrgs
      <3> SUFFICES ASSUME NEW k \in Range(made)
                   PROVE  rows'[k].org \notin LiveOrgs
        OBVIOUS
      <3>1. Of(made, k) \in missing /\ rows'[k].org = Of(made, k)
        BY <1>2, <1>3
      <3> QED BY <3>1
    <2>6. \A k \in Row \ Range(made) : Live(k)' => rows'[k].org \in LiveOrgs
      BY <1>5 DEF LiveOrgs, LiveRows
    <2>1. CASE q \in Range(made) /\ r \in Range(made)
      BY <1>2, <1>3, <2>1
    <2>2. CASE q \in Range(made) /\ r \notin Range(made)
      BY <2>2, <2>5, <2>6
    <2>3. CASE q \notin Range(made) /\ r \in Range(made)
      BY <2>3, <2>5, <2>6
    <2>4. CASE q \notin Range(made) /\ r \notin Range(made)
      BY <1>5, <2>4 DEF OneLiveRow, LiveRows
    <2> QED BY <2>1, <2>2, <2>3, <2>4
  <1>9. CountsAddUp'
    <2> SUFFICES ASSUME NEW r \in Row, rows'[r] # Absent
                 PROVE  AddsUp(rows'[r])
      BY DEF CountsAddUp, AddsUp
    <2>1. CASE r \in Range(made)
      BY <1>3, <2>1
    <2>2. CASE r \notin Range(made) /\ Live(r) /\ rows[r].org \notin seen
      <3>1. rows[r] \in OrgRow /\ rows[r] # Absent
        BY <2>2 DEF Live, Shape
      <3>2. rows'[r] = [rows[r] EXCEPT !.deleted = TRUE]
        BY <1>4, <2>2
      <3>3. /\ rows'[r].open = rows[r].open
            /\ rows'[r].automated = rows[r].automated
            /\ rows'[r].manual = rows[r].manual
        BY <3>1, <3>2 DEF OrgRow
      <3> QED BY <3>1, <3>3 DEF CountsAddUp, AddsUp
    <2>3. CASE r \notin Range(made) /\ ~(Live(r) /\ rows[r].org \notin seen)
      <3>1. rows'[r] = rows[r]
        BY <1>4, <2>3
      <3> QED BY <3>1 DEF CountsAddUp, AddsUp
    <2> QED BY <2>1, <2>2, <2>3
  <1>10. LiveOrgs' = seen
    <2>1. ASSUME NEW r \in Row, Live(r)' PROVE rows'[r].org \in seen
      <3>1. CASE r \in Range(made)
        BY <1>2, <1>3, <3>1
      <3>2. CASE r \notin Range(made)
        BY <1>5, <2>1, <3>2
      <3> QED BY <3>1, <3>2
    <2>2. ASSUME NEW o \in seen PROVE \E r \in Row : Live(r)' /\ rows'[r].org = o
      <3>1. CASE o \in LiveOrgs
        <4>1. PICK r \in Row : Live(r) /\ rows[r].org = o
          BY <3>1 DEF LiveOrgs, LiveRows
        <4>2. r \notin Range(made)
          BY <1>2, <4>1 DEF Live
        <4> QED BY <1>5, <4>1, <4>2
      <3>2. CASE o \notin LiveOrgs
        <4>1. o \in missing /\ made[o] \in Range(made)
          BY <3>2 DEF Range
        <4>2. Of(made, made[o]) = o
          BY <1>1, <1>2, <4>1
        <4>3. made[o] \in Row /\ Live(made[o])' /\ rows'[made[o]].org = o
          BY <1>2, <1>3, <4>1, <4>2
        <4> QED BY <4>3
      <3> QED BY <3>1, <3>2
    <2> QED BY <2>1, <2>2 DEF LiveOrgs, LiveRows
  <1>11. \A r \in LiveRows : rows[r].org \in seen => rows'[r] = rows[r]
    <2> SUFFICES ASSUME NEW r \in Row, Live(r), rows[r].org \in seen
                 PROVE  rows'[r] = rows[r]
      BY DEF LiveRows
    <2>1. r \notin Range(made)
      BY <1>2 DEF Live
    <2> QED BY <1>4, <2>1
  <1> QED BY <1>6, <1>7, <1>8, <1>9, <1>10, <1>11

-----------------------------------------------------------------------------
(* The listing and the runs. *)

LEMMA InitInv == Init => IInv
  <1> SUFFICES ASSUME Init PROVE IInv
    OBVIOUS
  <1>1. listing \in Seq(Org)
    BY DEF Init
  <1>2. Shape
    BY <1>1 DEF Init, Shape
  <1>3. OneLiveRow /\ CountsAddUp
    BY DEF Init, OneLiveRow, CountsAddUp, LiveRows, Live
  <1>4. EditAddsUp /\ SeenSoFar
    BY AbsentAssumption DEF Init, EditAddsUp, SeenSoFar
  <1> QED BY <1>2, <1>3, <1>4 DEF IInv

\* A change of the listing.
LEMMA ListingKeeps ==
    ASSUME IInv, listing' \in Seq(Org), jobs' = Disturbed, UNCHANGED <<rows, edit>>
    PROVE  IInv'
  <1>1. \A j \in Job : /\ jobs'[j] \in Fetching \union Counting \union {Idle}
                       /\ jobs'[j] \in Fetching => ~jobs'[j].steady
    <2> SUFFICES ASSUME NEW j \in Job
                 PROVE  /\ jobs'[j] \in Fetching \union Counting \union {Idle}
                        /\ jobs'[j] \in Fetching => ~jobs'[j].steady
      OBVIOUS
    <2>1. CASE jobs[j] \in Fetching
      <3>1. jobs'[j] = [jobs[j] EXCEPT !.steady = FALSE]
        BY <2>1 DEF Disturbed
      <3> QED BY <2>1, <3>1 DEF Fetching
    <2>2. CASE jobs[j] \notin Fetching
      <3>1. jobs'[j] = jobs[j]
        BY <2>2 DEF Disturbed
      <3> QED BY <2>2, <3>1 DEF IInv, Shape
    <2> QED BY <2>1, <2>2
  <1>2. jobs' \in [Job -> Fetching \union Counting \union {Idle}]
    BY <1>1 DEF Disturbed
  <1>3. Shape'
    BY <1>2 DEF IInv, Shape
  <1>4. SeenSoFar'
    BY <1>1 DEF SeenSoFar
  <1>5. OneLiveRow' /\ CountsAddUp' /\ EditAddsUp'
    BY DEF IInv, OneLiveRow, CountsAddUp, EditAddsUp, LiveRows, Live
  <1> QED BY <1>3, <1>4, <1>5 DEF IInv

LEMMA AppearKeeps ==
    ASSUME IInv, NEW o \in Org, NEW i \in 0..Len(listing), Appear(o, i)
    PROVE  IInv'
  <1>1. listing \in Seq(Org)
    BY DEF IInv, Shape
  <1>2. /\ SubSeq(listing, 1, i) \in Seq(Org)
        /\ SubSeq(listing, i + 1, Len(listing)) \in Seq(Org)
        /\ <<o>> \in Seq(Org)
    BY <1>1
  <1>3. SubSeq(listing, 1, i) \o <<o>> \in Seq(Org)
    BY <1>2
  <1>4. listing' \in Seq(Org)
    BY <1>2, <1>3 DEF Appear
  <1> QED BY <1>4, ListingKeeps DEF Appear

LEMMA VanishKeeps ==
    ASSUME IInv, NEW i \in 1..Len(listing), Vanish(i)
    PROVE  IInv'
  <1>1. listing \in Seq(Org)
    BY DEF IInv, Shape
  <1>2. /\ SubSeq(listing, 1, i - 1) \in Seq(Org)
        /\ SubSeq(listing, i + 1, Len(listing)) \in Seq(Org)
    BY <1>1
  <1>3. listing' \in Seq(Org)
    BY <1>2 DEF Vanish
  <1> QED BY <1>3, ListingKeeps DEF Vanish

\* A step of run j that leaves rows and edit alone.
LEMMA RunKeeps ==
    ASSUME IInv, NEW j \in Job, NEW new \in Fetching \union Counting \union {Idle},
           jobs' = [jobs EXCEPT ![j] = new], UNCHANGED <<listing, rows, edit>>,
           new \in Fetching /\ new.steady =>
               /\ new.seen = {listing[i] : i \in {k \in DOMAIN listing : k <= new.start}}
               /\ new.last => Len(listing) <= new.start
    PROVE  IInv'
  <1>1. \A k \in Job : jobs'[k] = IF k = j THEN new ELSE jobs[k]
    BY DEF IInv, Shape
  <1>2. Shape'
    BY DEF IInv, Shape
  <1>3. SeenSoFar'
    BY <1>1 DEF IInv, SeenSoFar
  <1>4. OneLiveRow' /\ CountsAddUp' /\ EditAddsUp'
    BY DEF IInv, OneLiveRow, CountsAddUp, EditAddsUp, LiveRows, Live
  <1> QED BY <1>2, <1>3, <1>4 DEF IInv

LEMMA StartKeeps ==
    ASSUME IInv, NEW j \in Job, Start(j)
    PROVE  IInv'
  <1> DEFINE new == [start |-> 0, seen |-> {}, last |-> FALSE, steady |-> TRUE]
  <1>1. new \in Fetching
    BY DEF Fetching
  <1>2. listing \in Seq(Org)
    BY DEF IInv, Shape
  <1>3. {listing[i] : i \in {k \in DOMAIN listing : k <= new.start}} = {}
    BY <1>2
  <1>4. jobs' = [jobs EXCEPT ![j] = new] /\ UNCHANGED <<listing, rows, edit>>
    BY DEF Start
  <1> HIDE DEF new
  <1>5. new.seen = {} /\ ~new.last
    BY DEF new
  <1> QED BY <1>1, <1>3, <1>4, <1>5, RunKeeps

\* A page goes on where the entries seen so far end.
LEMMA FetchKeeps ==
    ASSUME IInv, NEW j \in Job, Fetch(j, PageSize)
    PROVE  IInv'
  <1> DEFINE job == jobs[j]
             new == [job EXCEPT !.seen = job.seen \union Page(job.start),
                                !.last = job.start + PageSize >= Len(listing),
                                !.start = job.start + PageSize]
  <1>1. job \in Fetching /\ listing \in Seq(Org) /\ PageSize \in Nat
    BY BoundsAssumption DEF Fetch, IInv, Shape
  <1>2. Page(job.start) \subseteq Org
    BY <1>1 DEF Page
  <1>3. /\ new \in Fetching
        /\ new.seen = job.seen \union Page(job.start)
        /\ new.last = (job.start + PageSize >= Len(listing))
        /\ new.start = job.start + PageSize
        /\ new.steady = job.steady
    <2>1. job \in [start : Nat, seen : SUBSET Org, last : BOOLEAN, steady : BOOLEAN]
      BY <1>1 DEF Fetching
    <2>2. job.start + PageSize \in Nat
      BY <1>1, <2>1
    <2>3. job.seen \union Page(job.start) \in SUBSET Org
      BY <1>2, <2>1
    <2>4. (job.start + PageSize >= Len(listing)) \in BOOLEAN
      BY <1>1
    <2> HIDE DEF job
    <2> QED BY <2>1, <2>2, <2>3, <2>4 DEF Fetching
  <1>4. jobs' = [jobs EXCEPT ![j] = new] /\ UNCHANGED <<listing, rows, edit>>
    BY DEF Fetch, IInv, Shape
  <1>5. job.start \in Nat
    BY <1>1 DEF Fetching
  <1> HIDE DEF new
  <1>6. ASSUME new.steady
        PROVE  /\ new.seen = {listing[i] : i \in {k \in DOMAIN listing : k <= new.start}}
               /\ new.last => Len(listing) <= new.start
    <2>1. job.seen = {listing[i] : i \in {k \in DOMAIN listing : k <= job.start}}
      BY <1>1, <1>3, <1>6 DEF IInv, SeenSoFar
    <2>2. \A k \in DOMAIN listing :
              k <= new.start <=> \/ k <= job.start
                                 \/ job.start < k /\ k <= job.start + PageSize
      BY <1>1, <1>3, <1>5
    <2>3. new.seen = {listing[i] : i \in {k \in DOMAIN listing : k <= new.start}}
      BY <1>3, <2>1, <2>2 DEF Page
    <2> QED BY <1>1, <1>3, <1>5, <2>3
  <1> QED BY <1>3, <1>4, <1>6, RunKeeps

LEMMA CountedIs ==
    ASSUME IInv, NEW j \in Job, NEW r \in Row, jobs[j] \in Counting, Counted(j, r)
    PROVE  \E new \in Counting \union {Idle} : jobs' = [jobs EXCEPT ![j] = new]
  <1>1. CASE jobs[j].todo = {r}
    BY <1>1 DEF Counted
  <1>2. CASE jobs[j].todo # {r}
    <2>1. jobs' = [jobs EXCEPT ![j] = [todo |-> jobs[j].todo \ {r}]]
      BY <1>2 DEF Counted
    <2>2. [todo |-> jobs[j].todo \ {r}] \in Counting
      BY DEF Counting
    <2> QED BY <2>1, <2>2
  <1> QED BY <1>1, <1>2

\* A run of the ticket command is not one that fetches a listing.
LEMMA CountingIsNotFetching == \A new \in Counting \union {Idle} : new \notin Fetching
  <1>1. \A new \in Counting : new \notin Fetching
    BY DEF Counting, Fetching
  <1> QED BY <1>1, AbsentAssumption

-----------------------------------------------------------------------------
(* The writes. *)

\* What changes the rows and lets a run end, or go on counting.
LEMMA RowsKeep ==
    ASSUME IInv, NEW j \in Job, NEW new \in Counting \union {Idle},
           jobs' = [jobs EXCEPT ![j] = new], UNCHANGED <<listing, edit>>,
           \A r \in Row : rows'[r] # Absent => rows'[r] \in OrgRow,
           rows' = [r \in Row |-> rows'[r]], OneLiveRow', CountsAddUp'
    PROVE  IInv'
  <1>1. \A k \in Job : jobs'[k] = IF k = j THEN new ELSE jobs[k]
    BY DEF IInv, Shape
  <1>2. Shape'
    BY DEF IInv, Shape
  <1>3. new \notin Fetching
    BY CountingIsNotFetching
  <1>4. SeenSoFar'
    BY <1>1, <1>3 DEF IInv, SeenSoFar
  <1>5. EditAddsUp'
    BY DEF IInv, EditAddsUp
  <1> QED BY <1>2, <1>4, <1>5 DEF IInv

LEMMA SeenIsListed ==
    ASSUME IInv, NEW j \in Job, jobs[j] \in Fetching
    PROVE  /\ jobs[j].seen \in SUBSET Org
           /\ jobs[j].last /\ jobs[j].steady => jobs[j].seen = Range(listing)
  <1>1. jobs[j].seen \in SUBSET Org /\ jobs[j].start \in Nat
    BY DEF Fetching
  <1>2. ASSUME jobs[j].last, jobs[j].steady
        PROVE  jobs[j].seen = Range(listing)
    <2>1. /\ jobs[j].seen = {listing[i] : i \in {k \in DOMAIN listing : k <= jobs[j].start}}
          /\ Len(listing) <= jobs[j].start
      BY <1>2 DEF IInv, SeenSoFar
    <2>2. \A k \in DOMAIN listing : k <= jobs[j].start
      BY <1>1, <2>1 DEF IInv, Shape
    <2> QED BY <2>1, <2>2 DEF Range
  <1> QED BY <1>1, <1>2

LEMMA MirrorKeeps ==
    ASSUME IInv, NEW j \in Job, Fetched(j), Mirror(jobs[j].seen)
    PROVE  IInv'
  <1>1. jobs[j].seen \in SUBSET Org
    BY SeenIsListed DEF Fetched
  <1>2. /\ \A r \in Row : rows'[r] # Absent => rows'[r] \in OrgRow
        /\ rows' = [r \in Row |-> rows'[r]]
        /\ OneLiveRow' /\ CountsAddUp'
    BY <1>1, MirrorFacts DEF IInv
  <1> QED BY <1>2, RowsKeep DEF Fetched

\* A run that ends with the rows as they are.
LEMMA EndKeeps ==
    ASSUME IInv, NEW j \in Job, NEW new \in Counting \union {Idle},
           jobs' = [jobs EXCEPT ![j] = new], UNCHANGED <<listing, rows, edit>>
    PROVE  IInv'
  <1>1. new \notin Fetching
    BY CountingIsNotFetching
  <1> QED BY <1>1, RunKeeps

\* One row replaced by another: how the writes of a single row are checked.
LEMMA ReplaceKeeps ==
    ASSUME IInv, NEW r \in Row, NEW row \in OrgRow, AddsUp(row),
           rows' = [rows EXCEPT ![r] = row],
           ~row.deleted => \A q \in LiveRows \ {r} : rows[q].org # row.org
    PROVE  /\ \A q \in Row : rows'[q] # Absent => rows'[q] \in OrgRow
           /\ rows' = [q \in Row |-> rows'[q]]
           /\ OneLiveRow' /\ CountsAddUp'
  <1>1. \A q \in Row : rows'[q] = IF q = r THEN row ELSE rows[q]
    BY DEF IInv, Shape
  <1>2. row # Absent
    BY AbsentAssumption
  <1>3. \A q \in Row : rows'[q] # Absent => rows'[q] \in OrgRow
    BY <1>1 DEF IInv, Shape
  <1>4. rows' = [q \in Row |-> rows'[q]]
    BY DEF IInv, Shape
  <1>5. OneLiveRow'
    <2> SUFFICES ASSUME NEW p \in Row, NEW q \in Row, Live(p)', Live(q)',
                        rows'[p].org = rows'[q].org
                 PROVE  p = q
      BY DEF OneLiveRow, LiveRows
    <2>1. CASE p # r /\ q # r
      BY <1>1, <2>1 DEF IInv, OneLiveRow, LiveRows, Live
    <2>2. CASE p = r /\ q # r
      BY <1>1, <2>2 DEF LiveRows, Live
    <2>3. CASE p # r /\ q = r
      BY <1>1, <2>3 DEF LiveRows, Live
    <2>4. CASE p = r /\ q = r
      BY <2>4
    <2> QED BY <2>1, <2>2, <2>3, <2>4
  <1>6. CountsAddUp'
    <2> SUFFICES ASSUME NEW q \in Row, rows'[q] # Absent
                 PROVE  AddsUp(rows'[q])
      BY DEF CountsAddUp, AddsUp
    <2>1. CASE q = r
      BY <1>1, <2>1
    <2>2. CASE q # r
      BY <1>1, <2>2 DEF IInv, CountsAddUp, AddsUp
    <2> QED BY <2>1, <2>2
  <1> QED BY <1>3, <1>4, <1>5, <1>6

LEMMA CountOrgKeeps ==
    ASSUME IInv, NEW j \in Job, NEW r \in Row, CountOrg(j, r)
    PROVE  IInv'
  <1>1. PICK new \in Counting \union {Idle} : jobs' = [jobs EXCEPT ![j] = new]
    BY CountedIs DEF CountOrg
  <1>2. PICK a \in Counts, m \in Counts :
            rows' = IF Live(r)
                    THEN [rows EXCEPT ![r].open = a + m, ![r].automated = a,
                                      ![r].manual = m]
                    ELSE rows
    BY DEF CountOrg
  <1>3. UNCHANGED <<listing, edit>>
    BY DEF CountOrg
  <1>4. CASE Live(r)
    <2> DEFINE row == [rows[r] EXCEPT !.open = a + m, !.automated = a, !.manual = m]
    <2>1. rows[r] \in OrgRow
      BY <1>4 DEF IInv, Shape, Live
    <2>2. row \in OrgRow
      BY <2>1, RowFacts
    <2>3. /\ row.org = rows[r].org /\ row.deleted = rows[r].deleted
          /\ row.open = a + m /\ row.automated = a /\ row.manual = m
      BY <2>1 DEF OrgRow
    <2>4. rows' = [rows EXCEPT ![r] = row]
      BY <1>2, <1>4, <2>1 DEF IInv, Shape, OrgRow
    <2> HIDE DEF row
    <2>5. AddsUp(row)
      BY <2>3 DEF AddsUp
    <2>6. \A q \in LiveRows \ {r} : rows[q].org # row.org
      BY <1>4, <2>3 DEF IInv, OneLiveRow, LiveRows
    <2>7. /\ \A q \in Row : rows'[q] # Absent => rows'[q] \in OrgRow
          /\ rows' = [q \in Row |-> rows'[q]]
          /\ OneLiveRow' /\ CountsAddUp'
      BY <2>2, <2>4, <2>5, <2>6, ReplaceKeeps
    <2> QED BY <1>1, <1>3, <2>7, RowsKeep
  <1>5. CASE ~Live(r)
    BY <1>1, <1>2, <1>3, <1>5, EndKeeps
  <1> QED BY <1>4, <1>5

LEMMA ReadKeeps ==
    ASSUME IInv, NEW r \in Row, Read(r)
    PROVE  IInv'
  <1>1. edit'.id = r /\ edit'.row = rows[r] /\ Live(r)
    BY DEF Read
  <1>2. rows[r] \in OrgRow /\ ~rows[r].deleted /\ rows[r] # Absent
    BY <1>1 DEF Live, IInv, Shape
  <1>3. UNCHANGED <<listing, rows, jobs>>
    BY DEF Read
  <1>4. Shape'
    BY <1>1, <1>2, <1>3 DEF IInv, Shape
  <1>5. EditAddsUp'
    BY <1>1, <1>2 DEF IInv, CountsAddUp, EditAddsUp, AddsUp
  <1>6. OneLiveRow' /\ CountsAddUp' /\ SeenSoFar'
    BY <1>3 DEF IInv, OneLiveRow, CountsAddUp, SeenSoFar, LiveRows, Live
  <1> QED BY <1>4, <1>5, <1>6 DEF IInv

\* The unique index over live rows is what keeps a stale edit from making two.
LEMMA SaveOrgKeeps ==
    ASSUME IInv, SaveOrg
    PROVE  IInv'
  <1>1. /\ edit.id \in Row /\ edit.row \in OrgRow /\ AddsUp(edit.row)
    BY DEF SaveOrg, IInv, Shape, EditAddsUp
  <1>2. UNCHANGED <<listing, jobs>> /\ edit' = Idle
    BY DEF SaveOrg
  <1>3. /\ \A q \in Row : rows'[q] # Absent => rows'[q] \in OrgRow
        /\ rows' = [q \in Row |-> rows'[q]]
        /\ OneLiveRow' /\ CountsAddUp'
    <2>1. CASE \E r \in LiveRows \ {edit.id} : rows[r].org = edit.row.org
      <3>1. rows' = rows
        BY <2>1 DEF SaveOrg
      <3> QED BY <3>1 DEF IInv, Shape, OneLiveRow, CountsAddUp, LiveRows, Live
    <2>2. CASE ~\E r \in LiveRows \ {edit.id} : rows[r].org = edit.row.org
      <3>1. rows' = [rows EXCEPT ![edit.id] = edit.row]
        BY <2>2 DEF SaveOrg
      <3> QED BY <1>1, <2>2, <3>1, ReplaceKeeps
    <2> QED BY <2>1, <2>2
  <1>4. Shape'
    BY <1>2, <1>3 DEF IInv, Shape
  <1>5. EditAddsUp' /\ SeenSoFar'
    BY <1>2 DEF IInv, EditAddsUp, SeenSoFar
  <1> QED BY <1>3, <1>4, <1>5 DEF IInv

-----------------------------------------------------------------------------
(* The invariant. *)

LEMMA JobKeeps ==
    ASSUME IInv, NEW j \in Job,
           \/ StartOrgs(j) \/ FetchOrgs(j) \/ WriteOrgs(j)
           \/ StartUsers(j) \/ FetchUsers(j) \/ WriteUsers(j)
           \/ StartTickets(j) \/ Abandon(j)
           \/ \E r \in Row : CountOrg(j, r) \/ CountFails(j, r)
    PROVE  IInv'
  <1>1. CASE StartOrgs(j) \/ StartUsers(j)
    BY <1>1, StartKeeps DEF StartOrgs, StartUsers
  <1>2. CASE FetchOrgs(j) \/ FetchUsers(j)
    BY <1>2, FetchKeeps DEF FetchOrgs, FetchUsers
  <1>3. CASE WriteOrgs(j)
    <2>1. CASE jobs[j].seen = {}
      BY <1>3, <2>1, EndKeeps DEF WriteOrgs, Fetched
    <2>2. CASE jobs[j].seen # {}
      BY <1>3, <2>2, MirrorKeeps DEF WriteOrgs
    <2> QED BY <2>1, <2>2
  <1>4. CASE WriteUsers(j)
    BY <1>4, MirrorKeeps DEF WriteUsers
  <1>5. CASE StartTickets(j)
    <2>1. [todo |-> LiveRows] \in Counting
      BY DEF Counting, LiveRows
    <2> QED BY <1>5, <2>1, EndKeeps DEF StartTickets
  <1>6. CASE Abandon(j)
    BY <1>6, EndKeeps DEF Abandon
  <1>7. ASSUME NEW r \in Row, CountOrg(j, r) PROVE IInv'
    BY <1>7, CountOrgKeeps
  <1>8. ASSUME NEW r \in Row, CountFails(j, r) PROVE IInv'
    <2>1. PICK new \in Counting \union {Idle} : jobs' = [jobs EXCEPT ![j] = new]
      BY <1>8, CountedIs DEF CountFails
    <2> QED BY <1>8, <2>1, EndKeeps DEF CountFails
  <1> QED BY <1>1, <1>2, <1>3, <1>4, <1>5, <1>6, <1>7, <1>8

LEMMA NextKeeps == IInv /\ [Next]_vars => IInv'
  <1> SUFFICES ASSUME IInv, [Next]_vars PROVE IInv'
    OBVIOUS
  <1>1. ASSUME NEW o \in Org, NEW i \in 0..Len(listing), Appear(o, i) PROVE IInv'
    BY <1>1, AppearKeeps
  <1>2. ASSUME NEW i \in 1..Len(listing), Vanish(i) PROVE IInv'
    BY <1>2, VanishKeeps
  <1>3. ASSUME NEW j \in Job,
               \/ StartOrgs(j) \/ FetchOrgs(j) \/ WriteOrgs(j)
               \/ StartUsers(j) \/ FetchUsers(j) \/ WriteUsers(j)
               \/ StartTickets(j) \/ Abandon(j)
               \/ \E r \in Row : CountOrg(j, r) \/ CountFails(j, r)
        PROVE  IInv'
    BY <1>3, JobKeeps
  <1>4. ASSUME NEW r \in Row, ReadOrg(r) \/ ReadUser(r) PROVE IInv'
    BY <1>4, ReadKeeps DEF ReadOrg, ReadUser
  <1>5. CASE SaveOrg
    BY <1>5, SaveOrgKeeps
  <1>6. CASE UNCHANGED vars
    BY <1>6 DEF vars, IInv, Shape, OneLiveRow, CountsAddUp, EditAddsUp,
                SeenSoFar, LiveRows, Live
  <1> QED BY <1>1, <1>2, <1>3, <1>4, <1>5, <1>6 DEF Next

LEMMA Invariant == Spec => []IInv
  BY InitInv, NextKeeps, PTL DEF Spec

-----------------------------------------------------------------------------
(* The types: a user's row never gets a count. *)

NoCounts(row) == row.open = Null /\ row.automated = Null /\ row.manual = Null

\* No run counts tickets of users, and an edit of one carries no count.
Uncounted ==
    table = "users" =>
        /\ \A j \in Job : jobs[j] \notin Counting
        /\ edit # Idle => NoCounts(edit.row)

LEMMA UserRowFacts == \A row \in OrgRow : row \in UserRow <=> NoCounts(row)
  BY DEF OrgRow, UserRow, NoCounts

LEMMA UserRowIsRow == UserRow \subseteq OrgRow
  BY DEF OrgRow, UserRow

\* A sync counts nothing: a row it makes has no counts, the others keep theirs.
LEMMA MirrorCounts ==
    ASSUME Shape, NEW seen, Mirror(seen), NEW r \in Row,
           rows[r] # Absent => NoCounts(rows[r]), rows'[r] # Absent
    PROVE  NoCounts(rows'[r])
  <1> DEFINE missing == seen \ LiveOrgs
  <1>1. PICK made :
            rows' = [q \in Row |->
                  IF q \in Range(made)
                  THEN NewRow(CHOOSE o \in missing : made[o] = q)
                  ELSE IF Live(q) /\ rows[q].org \notin seen
                  THEN [rows[q] EXCEPT !.deleted = TRUE]
                  ELSE rows[q]]
    BY DEF Mirror
  <1>2. CASE r \in Range(made)
    <2>1. rows'[r] = NewRow(CHOOSE o \in missing : made[o] = r)
      BY <1>1, <1>2
    <2> QED BY <2>1 DEF NewRow, NoCounts
  <1>3. CASE r \notin Range(made) /\ Live(r) /\ rows[r].org \notin seen
    <2>1. rows'[r] = [rows[r] EXCEPT !.deleted = TRUE]
      BY <1>1, <1>3
    <2>2. rows[r] \in OrgRow /\ NoCounts(rows[r])
      BY <1>3 DEF Shape, Live
    <2> QED BY <2>1, <2>2 DEF OrgRow, NoCounts
  <1>4. CASE r \notin Range(made) /\ ~(Live(r) /\ rows[r].org \notin seen)
    BY <1>1, <1>4
  <1> QED BY <1>2, <1>3, <1>4

TInv == TypeOK /\ Uncounted

LEMMA TypesInit == Init => TInv
  <1> SUFFICES ASSUME Init PROVE TInv
    OBVIOUS
  <1>1. listing \in Seq(Org) /\ changes \in 0..MaxChanges
    BY BoundsAssumption DEF Init
  <1> QED BY <1>1, AbsentAssumption DEF Init, TInv, TypeOK, Uncounted

\* No step counts a user's tickets.
LEMMA UncountedNext ==
    ASSUME IInv, TInv, Next, table = "users"
    PROVE  /\ \A r \in Row : rows'[r] # Absent => NoCounts(rows'[r])
           /\ \A j \in Job : jobs'[j] \notin Counting
           /\ edit' # Idle => NoCounts(edit'.row)
  <1>1. /\ \A r \in Row : rows[r] # Absent => NoCounts(rows[r])
        /\ \A j \in Job : jobs[j] \notin Counting
        /\ edit # Idle => NoCounts(edit.row)
        /\ jobs \in [Job -> Fetching \union Counting \union {Idle}]
        /\ rows = [r \in Row |-> rows[r]]
    BY UserRowFacts, UserRowIsRow DEF TInv, TypeOK, Uncounted, IInv, Shape
  <1>2. \A new \in Fetching : new \notin Counting
    BY DEF Counting, Fetching
  <1>3. CASE \/ \E o \in Org, i \in 0..Len(listing) : Appear(o, i)
             \/ \E i \in 1..Len(listing) : Vanish(i)
    <2>1. jobs' = Disturbed /\ UNCHANGED <<rows, edit>>
      BY <1>3 DEF Appear, Vanish
    <2>2. ASSUME NEW j \in Job PROVE jobs'[j] \notin Counting
      <3>1. CASE jobs[j] \in Fetching
        <4>1. jobs'[j] = [jobs[j] EXCEPT !.steady = FALSE]
          BY <2>1, <3>1 DEF Disturbed
        <4>2. jobs'[j] \in Fetching
          BY <3>1, <4>1 DEF Fetching
        <4> QED BY <1>2, <4>2
      <3>2. CASE jobs[j] \notin Fetching
        BY <1>1, <2>1, <3>2 DEF Disturbed
      <3> QED BY <3>1, <3>2
    <2> QED BY <1>1, <2>1, <2>2
  <1>4. ASSUME NEW j \in Job, StartOrgs(j) \/ StartUsers(j) \/ StartTickets(j)
        PROVE  /\ \A k \in Job : jobs'[k] \notin Counting
               /\ UNCHANGED <<rows, edit>>
    <2>1. Start(j)
      BY <1>4 DEF StartOrgs, StartUsers, StartTickets
    <2> QED BY <1>1, <1>2, <2>1 DEF Start, Fetching
  <1>5. ASSUME NEW j \in Job, FetchOrgs(j) \/ FetchUsers(j)
        PROVE  /\ \A k \in Job : jobs'[k] \notin Counting
               /\ UNCHANGED <<rows, edit>>
    <2>1. Fetch(j, PageSize) /\ jobs[j] \in Fetching
      BY <1>5 DEF FetchOrgs, FetchUsers, Fetch
    <2>2. \A k \in Job \ {j} : jobs'[k] = jobs[k]
      BY <1>1, <2>1 DEF Fetch
    <2>3. DOMAIN jobs'[j] = DOMAIN jobs[j]
      BY <1>1, <2>1 DEF Fetch
    <2>4. "start" \in DOMAIN jobs'[j]
      BY <2>1, <2>3 DEF Fetching
    <2>5. jobs'[j] \notin Counting
      BY <2>4 DEF Counting
    <2> QED BY <1>1, <2>1, <2>2, <2>5 DEF Fetch
  <1>6. ASSUME NEW j \in Job, WriteOrgs(j) \/ WriteUsers(j) \/ Abandon(j)
        PROVE  /\ \A k \in Job : jobs'[k] \notin Counting
               /\ UNCHANGED edit
               /\ \A r \in Row : rows'[r] # Absent => NoCounts(rows'[r])
    <2>1. jobs' = [jobs EXCEPT ![j] = Idle] /\ UNCHANGED edit
      BY <1>6 DEF WriteOrgs, WriteUsers, Abandon, Fetched
    <2>2. \A k \in Job : jobs'[k] \notin Counting
      BY <1>1, <2>1, AbsentAssumption
    <2>3. CASE UNCHANGED rows
      BY <1>1, <2>1, <2>2, <2>3
    <2>4. CASE Mirror(jobs[j].seen)
      <3>1. Shape
        BY DEF IInv
      <3>2. \A r \in Row : rows'[r] # Absent => NoCounts(rows'[r])
        BY <1>1, <2>4, <3>1, MirrorCounts
      <3> QED BY <2>1, <2>2, <3>2
    <2> QED BY <1>6, <2>3, <2>4 DEF WriteOrgs, WriteUsers, Abandon
  <1>7. ~\E j \in Job, r \in Row : CountOrg(j, r) \/ CountFails(j, r)
    BY <1>1 DEF CountOrg, CountFails
  <1>8. ASSUME NEW r \in Row, ReadOrg(r) \/ ReadUser(r)
        PROVE  /\ UNCHANGED <<rows, jobs>>
               /\ NoCounts(edit'.row)
    <2>1. Read(r)
      BY <1>8 DEF ReadOrg, ReadUser
    <2>2. edit'.row = rows[r] /\ rows[r] # Absent /\ UNCHANGED <<rows, jobs>>
      BY <2>1 DEF Read, Live
    <2> QED BY <1>1, <2>2
  <1>9. CASE SaveOrg
    <2>1. edit' = Idle /\ UNCHANGED jobs /\ NoCounts(edit.row)
      BY <1>1, <1>9 DEF SaveOrg
    <2>2. rows' = rows \/ rows' = [rows EXCEPT ![edit.id] = edit.row]
      BY <1>9 DEF SaveOrg
    <2>3. \A r \in Row : rows'[r] = rows[r] \/ rows'[r] = edit.row
      BY <1>1, <2>2
    <2> QED BY <1>1, <2>1, <2>3
  <1> QED BY <1>1, <1>3, <1>4, <1>5, <1>6, <1>7, <1>8, <1>9 DEF Next

LEMMA TypesNext == IInv /\ IInv' /\ TInv /\ [Next]_vars => TInv'
  <1> SUFFICES ASSUME IInv, IInv', TInv, [Next]_vars PROVE TInv'
    OBVIOUS
  <1>1. CASE UNCHANGED vars
    BY <1>1 DEF vars, TInv, TypeOK, Uncounted
  <1>2. CASE Next
    <2> DEFINE Kept ==
                /\ table' = table
                /\ changes' \in {changes, changes + 1}
                /\ changes' # changes => changes < MaxChanges
                /\ \/ edit' = edit \/ edit' = Idle
                   \/ \E r \in Row : Live(r) /\ edit' = [id |-> r, row |-> rows[r]]
    <2>1. ASSUME NEW o, NEW i, Appear(o, i) \/ Vanish(i) PROVE Kept
      BY <2>1 DEF Appear, Vanish
    <2>2. ASSUME NEW j \in Job, NEW r \in Row, CountOrg(j, r) \/ CountFails(j, r)
          PROVE  Kept
      BY <2>2 DEF CountOrg, CountFails
    <2>3. ASSUME NEW j \in Job,
                 \/ StartOrgs(j) \/ FetchOrgs(j) \/ WriteOrgs(j)
                 \/ StartUsers(j) \/ FetchUsers(j) \/ WriteUsers(j)
                 \/ StartTickets(j) \/ Abandon(j)
          PROVE  Kept
      BY <2>3 DEF Start, StartOrgs, StartUsers, StartTickets, Fetch, FetchOrgs,
                  FetchUsers, WriteOrgs, WriteUsers, Fetched, Abandon
    <2>r. ASSUME NEW r \in Row, ReadOrg(r) \/ ReadUser(r) PROVE Kept
      BY <2>r DEF Read, ReadOrg, ReadUser
    <2>s. ASSUME SaveOrg PROVE Kept
      BY <2>s DEF SaveOrg
    <2>k. Kept
      <3> HIDE DEF Kept
      <3> QED BY <1>2, <2>1, <2>2, <2>3, <2>r, <2>s DEF Next
    <2>4. changes' \in 0..MaxChanges
      BY <2>k, BoundsAssumption DEF TInv, TypeOK
    <2>5. edit' \in [id : Row, row : OrgRow] \union {Idle}
      BY <2>k DEF TInv, TypeOK, IInv, Shape, Live
    <2>6. /\ listing' \in Seq(Org)
          /\ \A r \in Row : rows'[r] # Absent => rows'[r] \in OrgRow
          /\ \A j \in Job : jobs'[j] \in Fetching \union Counting \union {Idle}
      BY DEF IInv, Shape
    <2>7. table = "users" =>
              /\ \A r \in Row : rows'[r] # Absent => rows'[r] \in UserRow
              /\ \A j \in Job : jobs'[j] \notin Counting
              /\ edit' # Idle => NoCounts(edit'.row)
      BY <1>2, <2>6, UncountedNext, UserRowFacts
    <2> QED BY <2>k, <2>4, <2>5, <2>6, <2>7 DEF TInv, TypeOK, Uncounted
  <1> QED BY <1>1, <1>2

\* Every row and every run is what the models and the commands declare; a user
\* has no counts, whatever overlaps.
THEOREM TypesHold == Spec => []TypeOK
  <1>1. TInv => TypeOK
    BY DEF TInv
  <1> QED BY <1>1, TypesInit, TypesNext, Invariant, PTL DEF Spec

-----------------------------------------------------------------------------
(* The theorems. *)

\* Whatever overlaps, an organization or a user has one live row
\* (sync_jira_orgs.py:25).
THEOREM RowsAreSound == Spec => []OneLiveRow
<1>1. IInv => OneLiveRow
  BY DEF IInv
<1> QED BY <1>1, Invariant, PTL

\* The counts of every row add up, with runs that overlap and edits that write
\* old counts back (customers/models.py:85).
THEOREM CountsHold == Spec => []CountsAddUp
<1>1. IInv => CountsAddUp
  BY DEF IInv
<1> QED BY <1>1, Invariant, PTL

\* A sync whose listing stood still leaves exactly that live, with every row
\* it had as it was.
THEOREM SyncsExactly == Spec => SyncIsExact
<1>1. IInv /\ [Next]_vars => [\A j \in Job :
          (/\ (WriteOrgs(j) /\ listing # <<>>) \/ WriteUsers(j)
           /\ jobs[j].steady) =>
              /\ LiveOrgs' = Range(listing)
              /\ \A r \in LiveRows :
                     rows[r].org \in Range(listing) => rows'[r] = rows[r]]_vars
  <2> SUFFICES ASSUME IInv, NEW j \in Job, jobs[j].steady,
                      (WriteOrgs(j) /\ listing # <<>>) \/ WriteUsers(j)
               PROVE  /\ LiveOrgs' = Range(listing)
                      /\ \A r \in LiveRows :
                             rows[r].org \in Range(listing) => rows'[r] = rows[r]
    OBVIOUS
  <2>1. jobs[j] \in Fetching /\ jobs[j].last
    BY DEF WriteOrgs, WriteUsers, Fetched
  <2>2. jobs[j].seen = Range(listing) /\ jobs[j].seen \in SUBSET Org
    BY <2>1, SeenIsListed
  <2>3. Mirror(jobs[j].seen)
    <3>1. CASE WriteUsers(j)
      BY <3>1 DEF WriteUsers
    <3>2. CASE WriteOrgs(j) /\ listing # <<>>
      <4>1. listing \in Seq(Org)
        BY DEF IInv, Shape
      <4>2. listing[1] \in Range(listing)
        BY <3>2, <4>1 DEF Range
      <4> QED BY <2>2, <3>2, <4>2 DEF WriteOrgs
    <3> QED BY <3>1, <3>2
  <2>4. /\ LiveOrgs' = jobs[j].seen
        /\ \A r \in LiveRows : rows[r].org \in jobs[j].seen => rows'[r] = rows[r]
    BY <2>2, <2>3, MirrorFacts DEF IInv
  <2> QED BY <2>2, <2>4
<1> QED BY <1>1, Invariant, PTL DEF Spec, SyncIsExact

\* Once there is an organization there always is one, whatever JIRA lists.
THEOREM NeverAllGone == Spec => NeverEmptied
<1>1. IInv /\ [Next]_vars =>
          [table = "organizations" /\ LiveRows # {} => LiveRows' # {}]_vars
  <2> SUFFICES ASSUME IInv, Next, table = "organizations", LiveRows # {}
               PROVE  LiveRows' # {}
    OBVIOUS
  <2>1. PICK q \in Row : Live(q)
    BY DEF LiveRows
  <2>2. CASE UNCHANGED rows
    BY <2>1, <2>2 DEF LiveRows, Live
  <2>3. ASSUME NEW j \in Job, WriteOrgs(j) PROVE LiveRows' # {}
    <3>1. CASE jobs[j].seen = {}
      BY <2>2, <2>3, <3>1 DEF WriteOrgs
    <3>2. CASE jobs[j].seen # {}
      <4>1. jobs[j] \in Fetching /\ Mirror(jobs[j].seen)
        BY <2>3, <3>2 DEF WriteOrgs, Fetched
      <4>2. LiveOrgs' = jobs[j].seen
        BY <4>1, SeenIsListed, MirrorFacts DEF IInv
      <4> QED BY <3>2, <4>2 DEF LiveOrgs
    <3> QED BY <3>1, <3>2
  <2>4. ASSUME NEW j \in Job, NEW r \in Row, CountOrg(j, r) PROVE LiveRows' # {}
    <3>1. CASE ~Live(r)
      BY <2>2, <2>4, <3>1 DEF CountOrg
    <3>2. CASE Live(r)
      <4>1. PICK a \in Counts, m \in Counts :
                rows' = [rows EXCEPT ![r].open = a + m, ![r].automated = a,
                                     ![r].manual = m]
        BY <2>4, <3>2 DEF CountOrg
      <4>2. rows[r] \in OrgRow /\ ~rows[r].deleted
        BY <3>2 DEF IInv, Shape, Live
      <4>3. rows'[r] = [rows[r] EXCEPT !.open = a + m, !.automated = a, !.manual = m]
        BY <4>1, <4>2 DEF IInv, Shape, OrgRow
      <4>4. rows'[r] \in OrgRow /\ ~rows'[r].deleted
        <5> DEFINE row == rows[r]
        <5>1. row \in OrgRow
          BY <4>2
        <5>2. [row EXCEPT !.open = a + m, !.automated = a, !.manual = m] \in OrgRow
          BY <5>1, RowFacts
        <5>3. rows'[r] \in OrgRow
          BY <4>3, <5>2
        <5>4. rows'[r].deleted = rows[r].deleted
          BY <4>2, <4>3 DEF OrgRow
        <5> QED BY <4>2, <5>3, <5>4
      <4>5. Live(r)'
        BY <4>4, AbsentAssumption DEF Live
      <4> QED BY <4>5 DEF LiveRows
    <3> QED BY <3>1, <3>2
  <2>5. CASE SaveOrg
    <3>1. CASE rows' = [rows EXCEPT ![edit.id] = edit.row]
      <4>1. PICK r \in Row : r = edit.id
        BY <2>5 DEF SaveOrg, IInv, Shape
      <4>2. edit.row \in OrgRow /\ ~edit.row.deleted
        BY <2>5 DEF SaveOrg, IInv, Shape
      <4>3. rows'[r] = edit.row
        BY <3>1, <4>1 DEF IInv, Shape
      <4>4. Live(r)'
        BY <4>2, <4>3, AbsentAssumption DEF Live
      <4> QED BY <4>4 DEF LiveRows
    <3>2. CASE rows' = rows
      BY <2>2, <3>2
    <3> QED BY <2>5, <3>1, <3>2 DEF SaveOrg
  <2>6. ASSUME NEW j \in Job, WriteUsers(j) PROVE FALSE
    BY <2>6 DEF WriteUsers
  <2>7. ASSUME NEW o \in Org, NEW i \in 0..Len(listing), Appear(o, i)
        PROVE  UNCHANGED rows
    BY <2>7 DEF Appear
  <2>8. ASSUME NEW i \in 1..Len(listing), Vanish(i)
        PROVE  UNCHANGED rows
    BY <2>8 DEF Vanish
  <2>9. ASSUME NEW j \in Job,
               \/ StartOrgs(j) \/ FetchOrgs(j) \/ StartUsers(j) \/ FetchUsers(j)
               \/ StartTickets(j) \/ Abandon(j)
               \/ \E r \in Row : CountFails(j, r)
        PROVE  UNCHANGED rows
    BY <2>9 DEF StartOrgs, StartUsers, Start, FetchOrgs, FetchUsers, Fetch,
                StartTickets, Abandon, CountFails
  <2>10. ASSUME NEW r \in Row, ReadOrg(r) \/ ReadUser(r)
         PROVE  UNCHANGED rows
    BY <2>10 DEF ReadOrg, ReadUser, Read
  <2> QED BY <2>2, <2>3, <2>4, <2>5, <2>6, <2>7, <2>8, <2>9, <2>10 DEF Next
<1> QED BY <1>1, Invariant, PTL DEF Spec, NeverEmptied
=============================================================================
