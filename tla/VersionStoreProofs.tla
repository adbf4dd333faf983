------------------------- MODULE VersionStoreProofs -------------------------
(***************************************************************************)
(* Type correctness of the version table, and that published content keeps *)
(* its snapshot whatever compaction races the publish, for any number of   *)
(* writers of every kind.  Where no checkpoint revert runs, the newest     *)
(* version holds its snapshot too and every version can be rebuilt.        *)
(* Whatever runs, rebuilding a version gives what was written wherever its *)
(* chain is straight, and the table implements VersionHistory as far as it *)
(* is readable.                                                            *)
(***************************************************************************)
EXTENDS VersionStore, TLAPS, WellFoundedInduction, SequenceTheorems

Labels == {"idle", "read", "insert", "inserted", "fetched", "compact", "selected", "locked"}

\* What a process holds is about versions that exist, and the row a publish
\* locked keeps the snapshot the publish read.
JobOK(w) ==
    LET j == job[w] IN
    /\ pc[w] = "read" => (j.nulls => j.target \in Versions) /\ j.content # Null
    /\ pc[w] = "insert" => /\ j.version \in 2 .. Tip + 1
                           /\ j.content # Null
                           /\ j.nulls => j.target \in Versions /\ j.target < j.version
    /\ pc[w] = "inserted" => j.version \in 2 .. Tip /\ j.content # Null
    /\ pc[w] \in {"fetched", "compact"} =>
          j.version \in 2 .. Tip /\ j.target = j.version - 1
    /\ pc[w] \in {"selected", "locked"} => w \in Publishers /\ j.target \in Versions
    /\ pc[w] = "locked" /\ j.content # Null => rows[j.target].snapshot # Null

JobsOK == \A w \in Processes : JobOK(w)

\* A published row is stamped, and holds its snapshot. The stamp is what the
\* nulling statement rechecks when it is let through.
PublishedOK ==
    \A v \in Versions : rows[v].published => rows[v].pinned /\ rows[v].snapshot # Null

IInv == TypeOK /\ JobsOK /\ PublishedOK

-----------------------------------------------------------------------------
\* Facts about the operators.

LEMMA NullFresh == Null \notin Contents /\ Null \notin Patches
  BY VersionAssumption DEF Contents, Patches

LEMMA DiffType == ASSUME NEW a \in Contents, NEW b \in Contents PROVE Diff(a, b) \in Patches
  <1> DEFINE D == {g \in Fields : a[g] # b[g]}
  <1>1. D \in SUBSET Fields
    OBVIOUS
  <1>2. Diff(a, b) \in [D -> Values]
    BY DEF Diff, Contents
  <1> QED
    BY <1>1, <1>2 DEF Patches

LEMMA NoJobType == NoJob \in Job
  BY VersionAssumption DEF NoJob, Job

LEMMA FullRowType == ASSUME NEW c \in Contents PROVE FullRow(c) \in Row
  BY VersionAssumption DEF FullRow, Row

\* Nulling changes only the snapshot column of one unstamped row.
LEMMA NulledRows ==
  ASSUME rows \in Seq(Row), NEW j
  PROVE  /\ Nulled(j) \in Seq(Row)
         /\ Len(Nulled(j)) = Len(rows)
         /\ \A v \in Versions :
               /\ Nulled(j)[v].content = rows[v].content
               /\ Nulled(j)[v].patch = rows[v].patch
               /\ Nulled(j)[v].from = rows[v].from
               /\ Nulled(j)[v].pinned = rows[v].pinned
               /\ Nulled(j)[v].published = rows[v].published
               /\ Nulled(j)[v].snapshot = rows[v].snapshot \/
                     (v = j.target /\ Nullable(j) /\ ~rows[v].pinned)
  <1>1. \A v \in Versions : rows[v] \in Row
    BY DEF Versions
  <1>2. \A v \in Versions : [rows[v] EXCEPT !.snapshot = Null] \in Row
    BY <1>1 DEF Row
  <1>3. Nulled(j) \in [Versions -> Row]
    BY <1>1, <1>2 DEF Nulled
  <1>4. Nulled(j) \in Seq(Row) /\ Len(Nulled(j)) = Len(rows)
    BY <1>3 DEF Versions
  <1>5. \A v \in Versions :
          Nulled(j)[v] = IF Nullable(j) /\ v = j.target
                         THEN [rows[v] EXCEPT !.snapshot = Null] ELSE rows[v]
    BY DEF Nulled
  <1>6. ASSUME NEW v \in Versions
        PROVE  /\ Nulled(j)[v].content = rows[v].content
               /\ Nulled(j)[v].patch = rows[v].patch
               /\ Nulled(j)[v].from = rows[v].from
               /\ Nulled(j)[v].pinned = rows[v].pinned
               /\ Nulled(j)[v].published = rows[v].published
               /\ Nulled(j)[v].snapshot = rows[v].snapshot \/
                     (v = j.target /\ Nullable(j) /\ ~rows[v].pinned)
    <2>1. CASE Nullable(j) /\ v = j.target
      <3>1. Nulled(j)[v] = [rows[v] EXCEPT !.snapshot = Null]
        BY <1>5, <2>1
      <3>2. rows[v] \in Row
        BY <1>1
      <3>3. ~rows[v].pinned
        BY <2>1 DEF Nullable
      <3> QED
        BY <2>1, <3>1, <3>2, <3>3 DEF Row
    <2>2. CASE ~(Nullable(j) /\ v = j.target)
      BY <1>5, <2>2
    <2> QED
      BY <2>1, <2>2
  <1> QED
    BY <1>4, <1>6

LEMMA GoType ==
  ASSUME TypeOK, NEW w \in Processes, NEW l \in Labels, NEW j \in Job, Go(w, l, j)
  PROVE  /\ pc' \in [Processes -> Labels] /\ job' \in [Processes -> Job]
         /\ pc'[w] = l /\ job'[w] = j
         /\ \A u \in Processes \ {w} : pc'[u] = pc[u] /\ job'[u] = job[u]
  BY DEF Go, TypeOK, Labels

-----------------------------------------------------------------------------
\* What a step has to show: the table only grows, published rows stay
\* published-safe, and the rows held by other publishers keep their snapshots.

LEMMA StepOK ==
  ASSUME IInv, NEW W \in SUBSET Processes,
         pc' \in [Processes -> Labels], job' \in [Processes -> Job],
         \A u \in Processes \ W : pc'[u] = pc[u] /\ job'[u] = job[u],
         \A u \in W : JobOK(u)',
         rows' \in Seq(Row), Len(rows) <= Len(rows'), Len(rows') <= MaxVersions,
         \A u \in Processes \ W : pc[u] = "locked" =>
            (rows[job[u].target].snapshot # Null => rows'[job[u].target].snapshot # Null),
         PublishedOK'
  PROVE  IInv'
  <1>1. TypeOK'
    BY VersionAssumption DEF TypeOK, IInv, Labels
  <1>2. ASSUME NEW u \in Processes PROVE JobOK(u)'
    <2>1. CASE u \in W
      BY <2>1
    <2>2. CASE u \notin W
      <3>1. pc'[u] = pc[u] /\ job'[u] = job[u] /\ JobOK(u)
        BY <2>2 DEF IInv, JobsOK
      <3>2. Len(rows) \in Nat /\ Len(rows') \in Nat
        BY DEF IInv, TypeOK
      <3>3. /\ job[u].version \in Nat /\ job[u].target \in Nat
        BY VersionAssumption DEF IInv, TypeOK, Job
      <3>4. /\ Versions \subseteq Versions'
            /\ 2 .. Tip \subseteq (2 .. Tip)' /\ 2 .. Tip + 1 \subseteq (2 .. Tip + 1)'
        BY <3>2 DEF Versions, Tip
      <3>5. pc[u] = "locked" /\ job[u].content # Null =>
               rows'[job[u].target].snapshot # Null
        BY <2>2, <3>1 DEF JobOK
      <3> QED
        BY <3>1, <3>3, <3>4, <3>5 DEF JobOK
    <2> QED
      BY <2>1, <2>2
  <1> QED
    BY <1>1, <1>2 DEF IInv, JobsOK

\* A step that only moves one process.
LEMMA MoveOK ==
  ASSUME IInv, NEW w \in Processes, NEW l \in Labels, NEW j \in Job,
         Go(w, l, j), UNCHANGED rows, JobOK(w)'
  PROVE  IInv'
  <1>1. /\ pc' \in [Processes -> Labels] /\ job' \in [Processes -> Job]
        /\ \A u \in Processes \ {w} : pc'[u] = pc[u] /\ job'[u] = job[u]
    BY GoType DEF IInv
  <1>2. rows' \in Seq(Row) /\ Len(rows) <= Len(rows') /\ Len(rows') <= MaxVersions
    BY VersionAssumption DEF IInv, TypeOK
  <1>3. PublishedOK'
    BY DEF IInv, PublishedOK, Versions
  <1>4. {w} \in SUBSET Processes /\ \A u \in {w} : JobOK(u)'
    OBVIOUS
  <1>5. \A u \in Processes \ {w} : pc[u] = "locked" =>
            (rows[job[u].target].snapshot # Null => rows'[job[u].target].snapshot # Null)
    OBVIOUS
  <1> QED
    BY <1>1, <1>2, <1>3, <1>4, <1>5, StepOK

LEMMA DoneOK ==
  ASSUME IInv, NEW w \in Processes, Done(w), UNCHANGED rows
  PROVE  IInv'
  <1>1. "idle" \in Labels /\ NoJob \in Job /\ Go(w, "idle", NoJob)
    BY NoJobType DEF Labels, Done
  <1>2. pc'[w] = "idle"
    BY <1>1, GoType DEF IInv
  <1>3. JobOK(w)'
    BY <1>2 DEF JobOK
  <1> QED
    BY <1>1, <1>3, MoveOK

\* A version appended after compaction j, by a process that then rests.
LEMMA AppendOK ==
  ASSUME IInv, NEW j, Unblocked(j), Len(rows) < MaxVersions,
         NEW r \in Row, ~r.published,
         rows' = Append(Nulled(j), r),
         NEW W \in SUBSET Processes, \A u \in W : pc[u] # "locked",
         pc' \in [Processes -> Labels], job' \in [Processes -> Job],
         \A u \in Processes \ W : pc'[u] = pc[u] /\ job'[u] = job[u],
         \A u \in W : JobOK(u)'
  PROVE  IInv'
  <1>1. rows \in Seq(Row) /\ Len(rows) \in Nat
    BY DEF IInv, TypeOK
  <1>2. /\ Nulled(j) \in Seq(Row) /\ Len(Nulled(j)) = Len(rows)
    BY <1>1, NulledRows
  <1> DEFINE N == Nulled(j)
  <1> HIDE DEF N
  <1>0. rows' = Append(N, r)
    BY DEF N
  <1>3. rows' \in Seq(Row) /\ Len(rows') = Len(rows) + 1
    BY <1>0, <1>1, <1>2 DEF N
  <1>4. \A v \in Versions : rows'[v] = N[v]
    BY <1>0, <1>1, <1>2 DEF Versions, N
  <1>9. /\ rows \in Seq(Row)
        /\ \A v \in Versions :
               /\ N[v].pinned = rows[v].pinned
               /\ N[v].published = rows[v].published
               /\ N[v].snapshot = rows[v].snapshot \/
                     (v = j.target /\ Nullable(j) /\ ~rows[v].pinned)
    BY <1>1, NulledRows DEF N
  <1>5. rows'[Len(rows) + 1] = r
    BY <1>0, <1>1, <1>2 DEF N
  <1>6. PublishedOK'
    <2> SUFFICES ASSUME NEW v \in Versions', rows'[v].published
                 PROVE  rows'[v].pinned /\ rows'[v].snapshot # Null
      BY DEF PublishedOK
    <2>1. v \in Versions
      BY <1>1, <1>3, <1>5 DEF Versions
    <2>2. rows[v].published /\ rows[v].pinned /\ rows[v].snapshot # Null
      BY <1>4, <1>9, <2>1 DEF IInv, PublishedOK
    <2>3. N[v].pinned /\ N[v].snapshot # Null
      BY <1>9, <2>1, <2>2
    <2> QED
      BY <1>4, <2>1, <2>3
  <1>7. ASSUME NEW u \in Processes \ W, pc[u] = "locked",
               rows[job[u].target].snapshot # Null
        PROVE  rows'[job[u].target].snapshot # Null
    <2>1. u \in Publishers /\ job[u].target \in Versions
      BY <1>7 DEF IInv, JobsOK, JobOK
    <2>2. Locked(job[u].target)
      BY <1>7, <2>1 DEF Locked
    <2>3. ~(job[u].target = j.target /\ Nullable(j))
      BY <2>2 DEF Unblocked, Nullable
    <2> QED
      BY <1>4, <1>7, <1>9, <2>1, <2>3
  <1>8. Len(rows) <= Len(rows') /\ Len(rows') <= MaxVersions
    BY <1>1, <1>3, VersionAssumption
  <1> QED
    BY <1>3, <1>6, <1>7, <1>8, StepOK

-----------------------------------------------------------------------------
\* createDocumentVersion.

LEMMA TipVersion ==
  ASSUME IInv
  PROVE  /\ Tip \in Versions /\ Tip \in Nat /\ Tip \in 0 .. MaxVersions /\ rows[Tip] \in Row
         /\ rows \in Seq(Row) /\ Len(rows) \in Nat
         /\ \A v \in Versions : rows[v] \in Row /\ v \in 0 .. MaxVersions
  <1>1. rows \in Seq(Row) /\ Len(rows) \in 1 .. MaxVersions
    BY DEF IInv, TypeOK
  <1> QED
    BY <1>1, VersionAssumption DEF Tip, Versions

\* A job as the code fills it.
LEMMA JobType ==
  ASSUME NEW c \in Contents \cup {Null}, NEW t \in 0 .. MaxVersions,
         NEW p \in Patches \cup {Null}, NEW n \in BOOLEAN
  PROVE  [NoJob EXCEPT !.content = c, !.target = t, !.patch = p, !.nulls = n] \in Job
  BY NoJobType DEF Job

LEMMA CompactableType == ASSUME NEW v, NEW p PROVE Compactable(v, p) \in BOOLEAN
  BY DEF Compactable

LEMMA SaveReadOK ==
  ASSUME IInv, NEW w \in Savers, NEW c \in Contents, SaveRead(w, c)
  PROVE  IInv'
  <1> DEFINE s == rows[Tip].snapshot
             p == IF s = Null THEN Null ELSE Diff(s, c)
             n == Compactable(Tip, p)
             j == [NoJob EXCEPT !.content = c, !.target = Tip, !.patch = p, !.nulls = n]
  <1>1. w \in Processes /\ "read" \in Labels
    BY DEF Processes, Labels
  <1>2. p \in Patches \cup {Null}
    BY TipVersion, DiffType DEF Row
  <1>3. j \in Job
    <2>1. n \in BOOLEAN
      BY CompactableType
    <2>2. c \in Contents \cup {Null} /\ Tip \in 0 .. MaxVersions
      BY TipVersion
    <2> QED
      BY <1>2, <2>1, <2>2, JobType
  <1>4. Go(w, "read", j) /\ UNCHANGED rows
    BY DEF SaveRead
  <1>5. /\ j.target = Tip /\ j.content = c
    BY DEF NoJob
  <1>6. JobOK(w)'
    <2>1. pc'[w] = "read" /\ job'[w] = j
      BY <1>1, <1>3, <1>4, GoType DEF IInv
    <2>2. Versions' = Versions
      BY <1>4 DEF Versions
    <2> QED
      BY <1>5, <2>1, <2>2, TipVersion, NullFresh DEF JobOK
  <1> QED
    BY <1>1, <1>3, <1>4, <1>6, MoveOK

LEMMA RestoreReadOK ==
  ASSUME IInv, NEW w \in Savers, NEW v \in Versions, RestoreRead(w, v)
  PROVE  IInv'
  <1> DEFINE c == Replay[v]
             j == [NoJob EXCEPT !.content = c]
  <1>1. w \in Processes /\ "read" \in Labels
    BY DEF Processes, Labels
  <1>2. c \in Contents /\ Go(w, "read", j) /\ UNCHANGED rows
    BY DEF RestoreRead
  <1> HIDE DEF c
  <1>3. j \in Job
    BY <1>2, NoJobType DEF Job
  <1>4. j.nulls = FALSE /\ j.content = c
    BY DEF NoJob
  <1>5. JobOK(w)'
    <2>1. pc'[w] = "read" /\ job'[w] = j
      BY <1>1, <1>2, <1>3, GoType DEF IInv
    <2> QED
      BY <1>2, <1>4, <2>1, NullFresh DEF JobOK
  <1> QED
    BY <1>1, <1>2, <1>3, <1>5, MoveOK

LEMMA SaveBeginOK ==
  ASSUME IInv, NEW w \in Savers, SaveBegin(w)
  PROVE  IInv'
  <1> DEFINE b == job[w].nulls /\ rows[job[w].target].published
             j == [job[w] EXCEPT !.version = Tip + 1, !.wasPublished = b]
  <1>1. w \in Processes /\ "insert" \in Labels
    BY DEF Processes, Labels
  <1>2. job[w] \in Job /\ JobOK(w) /\ pc[w] = "read" /\ Tip < MaxVersions
    BY <1>1 DEF IInv, TypeOK, JobsOK, SaveBegin
  <1>3. Go(w, "insert", j) /\ UNCHANGED rows
    BY DEF SaveBegin
  <1>4. j \in Job
    <2>1. Tip + 1 \in 0 .. MaxVersions
      BY <1>2, TipVersion, VersionAssumption
    <2>2. b \in BOOLEAN
      OBVIOUS
    <2> HIDE DEF b
    <2> QED
      BY <1>2, <2>1, <2>2 DEF Job
  <1>5. /\ j.version = Tip + 1 /\ j.content = job[w].content
        /\ j.nulls = job[w].nulls /\ j.target = job[w].target
    BY <1>2 DEF Job
  <1>6. JobOK(w)'
    <2>1. pc'[w] = "insert" /\ job'[w] = j
      BY <1>1, <1>3, <1>4, GoType DEF IInv
    <2>2. Versions' = Versions /\ Tip' = Tip
      BY <1>3 DEF Versions, Tip
    <2>3. j.version \in 2 .. Tip + 1 /\ j.content # Null
      BY <1>2, <1>5, TipVersion DEF JobOK, Versions, Tip
    <2>4. j.nulls => j.target \in Versions /\ j.target < j.version
      BY <1>2, <1>5, TipVersion DEF JobOK, Versions, Tip
    <2> QED
      BY <2>1, <2>2, <2>3, <2>4 DEF JobOK
  <1> QED
    BY <1>1, <1>3, <1>4, <1>6, MoveOK

\* An append by one process, which then rests.
LEMMA RestsOK ==
  ASSUME IInv, NEW w \in Processes, Done(w)
  PROVE  /\ pc' \in [Processes -> Labels] /\ job' \in [Processes -> Job]
         /\ \A u \in Processes \ {w} : pc'[u] = pc[u] /\ job'[u] = job[u]
         /\ JobOK(w)'
  <1>1. "idle" \in Labels /\ NoJob \in Job /\ Go(w, "idle", NoJob)
    BY NoJobType DEF Labels, Done
  <1>2. /\ pc' \in [Processes -> Labels] /\ job' \in [Processes -> Job]
        /\ pc'[w] = "idle"
        /\ \A u \in Processes \ {w} : pc'[u] = pc[u] /\ job'[u] = job[u]
    BY <1>1, GoType DEF IInv
  <1>3. JobOK(w)'
    BY <1>2 DEF JobOK
  <1> QED
    BY <1>2, <1>3

LEMMA SaveInsertOK ==
  ASSUME IInv, NEW w \in Savers, SaveInsert(w)
  PROVE  IInv'
  <1> DEFINE j == job[w]
             r == [FullRow(j.content) EXCEPT !.patch = j.patch, !.from = j.target]
  <1>1. w \in Processes
    BY DEF Processes
  <1>2. j \in Job /\ JobOK(w) /\ pc[w] = "insert"
    BY <1>1 DEF IInv, TypeOK, JobsOK, SaveInsert
  <1>3. /\ j.content \in Contents /\ j.patch \in Patches \cup {Null}
        /\ j.target \in 0 .. MaxVersions
    BY <1>2 DEF JobOK, Job
  <1>4. r \in Row /\ ~r.published
    <2>1. FullRow(j.content) \in Row
      BY <1>3, FullRowType
    <2>2. FullRow(j.content).published = FALSE
      BY DEF FullRow
    <2> HIDE DEF j
    <2> QED
      BY <1>3, <2>1, <2>2 DEF Row
  <1>5. Len(rows) < MaxVersions
    BY <1>2, TipVersion, VersionAssumption DEF SaveInsert, Tip, Job
  <1>6. Unblocked(j) /\ rows' = Append(Nulled(j), r) /\ Done(w)
    BY DEF SaveInsert
  <1>7. {w} \in SUBSET Processes /\ \A u \in {w} : pc[u] # "locked"
    BY <1>1, <1>2
  <1> HIDE DEF j, r
  <1> QED
    BY <1>1, <1>4, <1>5, <1>6, <1>7, RestsOK, AppendOK

-----------------------------------------------------------------------------
\* Plain inserts: the table grows by a row and no snapshot is nulled.

LEMMA NothingNulled ==
  ASSUME rows \in Seq(Row)
  PROVE  Nulled(NoJob) = rows /\ Unblocked(NoJob)
  <1>1. ~NoJob.nulls
    BY DEF NoJob
  <1>2. ~Nullable(NoJob) /\ Unblocked(NoJob)
    BY <1>1 DEF Nullable, Unblocked
  <1>3. Nulled(NoJob) = [v \in Versions |-> rows[v]]
    BY <1>2 DEF Nulled
  <1> QED
    BY <1>2, <1>3 DEF Versions

LEMMA DirectSyncOK ==
  ASSUME IInv, NEW c \in Contents, DirectSync(c)
  PROVE  IInv'
  <1>1. FullRow(c) \in Row /\ ~FullRow(c).published
    BY FullRowType DEF FullRow
  <1>2. rows' = Append(Nulled(NoJob), FullRow(c)) /\ Len(rows) < MaxVersions
    BY NothingNulled DEF DirectSync, Tip, IInv, TypeOK
  <1>3. /\ pc' \in [Processes -> Labels] /\ job' \in [Processes -> Job]
        /\ \A u \in Processes : pc'[u] = pc[u] /\ job'[u] = job[u]
    BY DEF DirectSync, IInv, TypeOK, Labels
  <1>4. Unblocked(NoJob)
    BY NothingNulled DEF IInv, TypeOK
  <1>5. {} \in SUBSET Processes
    OBVIOUS
  <1> QED
    BY <1>1, <1>2, <1>3, <1>4, <1>5, AppendOK

\* The row a bulk revert to v appends.
Copied(v) == IF rows[v].snapshot # Null THEN FullRow(rows[v].snapshot)
             ELSE [FullRow(rows[v].content) EXCEPT !.snapshot = Null]

LEMMA CopiedType ==
  ASSUME IInv, NEW v \in Versions
  PROVE  /\ Copied(v) \in Row /\ Copied(v).published = FALSE
         /\ Copied(v).patch = Null /\ Copied(v).snapshot \in {Null, Copied(v).content}
  <1> DEFINE r == rows[v]
             f == FullRow(r.content)
  <1>1. r.content \in Contents /\ r.snapshot \in Contents \cup {Null}
    BY TipVersion DEF Row
  <1> HIDE DEF r
  <1>2. CASE r.snapshot # Null
    <2>1. FullRow(r.snapshot) \in Row
      BY <1>1, <1>2, FullRowType
    <2> QED
      BY <1>2, <2>1 DEF Copied, FullRow, r
  <1>3. CASE r.snapshot = Null
    <2>1. f \in Row /\ f.published = FALSE /\ f.patch = Null
      BY <1>1, FullRowType DEF FullRow
    <2>2. Copied(v) = [f EXCEPT !.snapshot = Null]
      BY <1>3 DEF Copied, r
    <2> HIDE DEF f
    <2> QED
      BY <2>1, <2>2 DEF Row
  <1> QED
    BY <1>2, <1>3

LEMMA RevertOK ==
  ASSUME IInv, NEW v \in Versions, RevertToCheckpoint(v)
  PROVE  IInv'
  <1> DEFINE r == Copied(v)
  <1>1. r \in Row /\ ~r.published
    BY CopiedType
  <1>2. rows' = Append(Nulled(NoJob), r) /\ Len(rows) < MaxVersions
    BY NothingNulled DEF RevertToCheckpoint, Copied, Tip, IInv, TypeOK
  <1>3. /\ pc' \in [Processes -> Labels] /\ job' \in [Processes -> Job]
        /\ \A u \in Processes : pc'[u] = pc[u] /\ job'[u] = job[u]
    BY DEF RevertToCheckpoint, IInv, TypeOK, Labels
  <1>4. Unblocked(NoJob)
    BY NothingNulled DEF IInv, TypeOK
  <1>5. {} \in SUBSET Processes
    OBVIOUS
  <1> HIDE DEF r
  <1> QED
    BY <1>1, <1>2, <1>3, <1>4, <1>5, AppendOK

-----------------------------------------------------------------------------
\* batchSyncToPostgres.

LEMMA BatchInsertOK ==
  ASSUME IInv, NEW w \in Batchers, NEW c \in Contents, BatchInsert(w, c)
  PROVE  IInv'
  <1> DEFINE j == [NoJob EXCEPT !.content = c, !.version = Tip + 1]
  <1>1. w \in Processes /\ "inserted" \in Labels
    BY DEF Processes, Labels
  <1>2. FullRow(c) \in Row /\ ~FullRow(c).published
    BY FullRowType DEF FullRow
  <1>3. rows' = Append(Nulled(NoJob), FullRow(c)) /\ Len(rows) < MaxVersions
    BY NothingNulled DEF BatchInsert, Tip, IInv, TypeOK
  <1>4. Unblocked(NoJob)
    BY NothingNulled DEF IInv, TypeOK
  <1>5. j \in Job
    <2>1. Tip + 1 \in 0 .. MaxVersions
      BY TipVersion, VersionAssumption DEF BatchInsert
    <2> QED
      BY <2>1, NoJobType DEF Job
  <1>6. Go(w, "inserted", j)
    BY DEF BatchInsert
  <1>7. j.version = Tip + 1 /\ j.content = c
    BY DEF NoJob
  <1>8. JobOK(w)'
    <2>1. pc'[w] = "inserted" /\ job'[w] = j
      BY <1>1, <1>5, <1>6, GoType DEF IInv
    <2>2. Tip' = Tip + 1
      BY TipVersion DEF BatchInsert, Tip
    <2>3. j.version \in 2 .. Tip'
      BY <1>7, <2>2, TipVersion DEF Versions
    <2> QED
      BY <1>7, <2>1, <2>3, NullFresh DEF JobOK
  <1>9. /\ pc' \in [Processes -> Labels] /\ job' \in [Processes -> Job]
        /\ \A u \in Processes \ {w} : pc'[u] = pc[u] /\ job'[u] = job[u]
    BY <1>1, <1>5, <1>6, GoType DEF IInv
  <1>10. {w} \in SUBSET Processes /\ \A u \in {w} : pc[u] # "locked"
    BY <1>1 DEF BatchInsert
  <1> HIDE DEF j
  <1> QED
    BY <1>2, <1>3, <1>4, <1>8, <1>9, <1>10, AppendOK

LEMMA BatchFetchOK ==
  ASSUME IInv, NEW w \in Batchers, BatchFetch(w)
  PROVE  IInv'
  <1> DEFINE i == job[w]
             d == Diff(rows[i.version - 1].snapshot, i.content)
             n == Compactable(i.version - 1, d)
             j == [i EXCEPT !.target = i.version - 1, !.patch = d, !.nulls = n]
  <1>1. w \in Processes /\ "fetched" \in Labels
    BY DEF Processes, Labels
  <1>2. i \in Job /\ i.version \in 2 .. Tip /\ i.content # Null
    BY <1>1 DEF IInv, TypeOK, JobsOK, JobOK, BatchFetch
  <1>3. i.version - 1 \in Versions
    BY <1>2, TipVersion DEF Tip, Versions
  <1>4. d \in Patches
    <2>1. rows[i.version - 1] \in Row
      BY <1>3, TipVersion
    <2>2. rows[i.version - 1].snapshot \in Contents
      BY <2>1 DEF Row, BatchFetch
    <2>3. i.content \in Contents
      BY <1>2 DEF Job
    <2> QED
      BY <2>2, <2>3, DiffType
  <1>5. j \in Job
    <2>1. i.version - 1 \in 0 .. MaxVersions
      BY <1>3, TipVersion
    <2>2. n \in BOOLEAN
      BY CompactableType
    <2> HIDE DEF i, d, n
    <2> QED
      BY <1>2, <1>4, <2>1, <2>2 DEF Job
  <1>6. Go(w, "fetched", j) /\ UNCHANGED rows
    BY DEF BatchFetch
  <1>7. j.version = i.version /\ j.target = i.version - 1
    BY <1>2 DEF Job
  <1>8. JobOK(w)'
    <2>1. pc'[w] = "fetched" /\ job'[w] = j
      BY <1>1, <1>5, <1>6, GoType DEF IInv
    <2>2. Tip' = Tip
      BY <1>6 DEF Tip
    <2> HIDE DEF i, j
    <2> QED
      BY <1>2, <1>7, <2>1, <2>2 DEF JobOK
  <1> HIDE DEF j
  <1> QED
    BY <1>1, <1>5, <1>6, <1>8, MoveOK

LEMMA BatchBeginOK ==
  ASSUME IInv, NEW w \in Batchers, BatchBegin(w)
  PROVE  IInv'
  <1> DEFINE i == job[w]
             b == rows[i.target].published
             j == [i EXCEPT !.wasPublished = b]
  <1>1. w \in Processes /\ "compact" \in Labels
    BY DEF Processes, Labels
  <1>2. i \in Job /\ i.version \in 2 .. Tip /\ i.target = i.version - 1
    BY <1>1 DEF IInv, TypeOK, JobsOK, JobOK, BatchBegin
  <1>3. b \in BOOLEAN
    <2>1. i.target \in Versions
      BY <1>2, TipVersion DEF Tip, Versions
    <2>2. rows[i.target] \in Row
      BY <2>1, TipVersion
    <2> QED
      BY <2>2 DEF Row
  <1>4. j \in Job
    <2> HIDE DEF i, b
    <2> QED
      BY <1>2, <1>3 DEF Job
  <1>5. Go(w, "compact", j) /\ UNCHANGED rows
    BY DEF BatchBegin
  <1>6. j.version = i.version /\ j.target = i.target
    BY <1>2 DEF Job
  <1>7. JobOK(w)'
    <2>1. pc'[w] = "compact" /\ job'[w] = j
      BY <1>1, <1>4, <1>5, GoType DEF IInv
    <2>2. Tip' = Tip
      BY <1>5 DEF Tip
    <2> HIDE DEF i, j
    <2> QED
      BY <1>2, <1>6, <2>1, <2>2 DEF JobOK
  <1> HIDE DEF j
  <1> QED
    BY <1>1, <1>4, <1>5, <1>7, MoveOK

LEMMA BatchCompactOK ==
  ASSUME IInv, NEW w \in Batchers, BatchCompact(w)
  PROVE  IInv'
  <1> DEFINE j == job[w]
             N == Nulled(j)
             x == j.version
  <1>1. w \in Processes /\ Unblocked(j) /\ Done(w)
    BY DEF Processes, BatchCompact
  <1>2. j \in Job /\ x \in Versions /\ pc[w] = "compact"
    <2>1. j \in Job /\ x \in 2 .. Tip /\ pc[w] = "compact"
      BY <1>1 DEF IInv, TypeOK, JobsOK, JobOK, BatchCompact
    <2> QED
      BY <2>1, TipVersion DEF Tip, Versions
  <1>3. j.patch \in Patches \cup {Null} /\ j.target \in 0 .. MaxVersions
    BY <1>2 DEF Job
  <1>4. /\ N \in Seq(Row) /\ Len(N) = Len(rows)
        /\ \A v \in Versions :
               /\ N[v].pinned = rows[v].pinned
               /\ N[v].published = rows[v].published
               /\ N[v].snapshot = rows[v].snapshot \/
                     (v = j.target /\ Nullable(j) /\ ~rows[v].pinned)
    BY TipVersion, NulledRows
  <1>5. rows' = [N EXCEPT ![x] = [@ EXCEPT !.patch = j.patch, !.from = j.target]]
    BY DEF BatchCompact
  <1> HIDE DEF j, N, x
  <1>6. \A v \in Versions : N[v] \in Row
    BY <1>4 DEF Versions
  <1>7. [N[x] EXCEPT !.patch = j.patch, !.from = j.target] \in Row
    BY <1>2, <1>3, <1>6 DEF Row
  <1>8. rows' \in Seq(Row) /\ Len(rows') = Len(rows)
    BY <1>2, <1>4, <1>5, <1>7 DEF Versions
  <1>9. ASSUME NEW v \in Versions
        PROVE  /\ rows'[v].pinned = N[v].pinned /\ rows'[v].published = N[v].published
               /\ rows'[v].snapshot = N[v].snapshot
    <2>1. rows'[v] = IF v = x THEN [N[x] EXCEPT !.patch = j.patch, !.from = j.target]
                             ELSE N[v]
      BY <1>4, <1>5 DEF Versions
    <2> QED
      BY <1>6, <2>1 DEF Row
  <1>10. PublishedOK'
    <2> SUFFICES ASSUME NEW v \in Versions', rows'[v].published
                 PROVE  rows'[v].pinned /\ rows'[v].snapshot # Null
      BY DEF PublishedOK
    <2>1. v \in Versions
      BY <1>8 DEF Versions
    <2>2. rows[v].published /\ rows[v].pinned /\ rows[v].snapshot # Null
      BY <1>4, <1>9, <2>1 DEF IInv, PublishedOK
    <2> QED
      BY <1>4, <1>9, <2>1, <2>2
  <1>11. ASSUME NEW u \in Processes \ {w}, pc[u] = "locked",
                rows[job[u].target].snapshot # Null
         PROVE  rows'[job[u].target].snapshot # Null
    <2>1. u \in Publishers /\ job[u].target \in Versions
      BY <1>11 DEF IInv, JobsOK, JobOK
    <2>2. Locked(job[u].target)
      BY <1>11, <2>1 DEF Locked
    <2>3. ~(job[u].target = j.target /\ Nullable(j))
      BY <1>1, <2>2 DEF Unblocked, Nullable
    <2> QED
      BY <1>4, <1>9, <1>11, <2>1, <2>3
  <1>12. Len(rows) <= Len(rows') /\ Len(rows') <= MaxVersions
    BY <1>8, VersionAssumption DEF IInv, TypeOK
  <1>13. {w} \in SUBSET Processes /\ \A u \in {w} : JobOK(u)'
    BY <1>1, RestsOK
  <1> QED
    BY <1>1, <1>8, <1>10, <1>11, <1>12, <1>13, RestsOK, StepOK

-----------------------------------------------------------------------------
\* publishDocument.

LEMMA PublishSelectOK ==
  ASSUME IInv, NEW p \in Publishers, PublishSelect(p)
  PROVE  IInv'
  <1> DEFINE j == [NoJob EXCEPT !.target = Tip]
  <1>1. p \in Processes /\ "selected" \in Labels
    BY DEF Processes, Labels
  <1>2. Go(p, "selected", j) /\ UNCHANGED rows
    BY DEF PublishSelect
  <1>3. j \in Job
    BY NoJobType, TipVersion DEF Job
  <1>4. JobOK(p)'
    <2>1. pc'[p] = "selected" /\ job'[p] = j
      BY <1>1, <1>2, <1>3, GoType DEF IInv
    <2>2. Versions' = Versions /\ j.target = Tip
      BY <1>2 DEF Versions, NoJob
    <2> QED
      BY <2>1, <2>2, TipVersion DEF JobOK
  <1> HIDE DEF j
  <1> QED
    BY <1>1, <1>2, <1>3, <1>4, MoveOK

LEMMA PublishLockOK ==
  ASSUME IInv, NEW p \in Publishers, PublishLock(p)
  PROVE  IInv'
  <1> DEFINE i == job[p]
             s == rows[i.target].snapshot
             j == [i EXCEPT !.content = s]
  <1>1. p \in Processes /\ "locked" \in Labels
    BY DEF Processes, Labels
  <1>2. i \in Job /\ i.target \in Versions
    BY <1>1 DEF IInv, TypeOK, JobsOK, JobOK, PublishLock
  <1>3. s \in Contents \cup {Null}
    <2>1. rows[i.target] \in Row
      BY <1>2, TipVersion
    <2> QED
      BY <2>1 DEF Row
  <1>4. j \in Job
    <2> HIDE DEF i, s
    <2> QED
      BY <1>2, <1>3 DEF Job
  <1>5. Go(p, "locked", j) /\ UNCHANGED rows
    BY DEF PublishLock
  <1>6. j.target = i.target /\ j.content = s
    BY <1>2 DEF Job
  <1>7. JobOK(p)'
    <2>1. pc'[p] = "locked" /\ job'[p] = j
      BY <1>1, <1>4, <1>5, GoType DEF IInv
    <2>2. Versions' = Versions
      BY <1>5 DEF Versions
    <2>3. rows'[j.target].snapshot = s
      BY <1>5, <1>6
    <2> HIDE DEF i, j, s
    <2> QED
      BY <1>2, <1>6, <2>1, <2>2, <2>3 DEF JobOK
  <1> HIDE DEF j
  <1> QED
    BY <1>1, <1>4, <1>5, <1>7, MoveOK

\* The commit: if the publish read a snapshot its lock has kept it there, and if
\* it read none the one it rebuilt is written.
LEMMA PublishCommitOK ==
  ASSUME IInv, NEW p \in Publishers, PublishCommit(p)
  PROVE  IInv'
  <1> DEFINE j == job[p]
             v == j.target
             filled == IF j.content = Null THEN Replay[v] ELSE rows[v].snapshot
             r == [rows[v] EXCEPT !.snapshot = filled, !.pinned = TRUE, !.published = TRUE]
  <1>1. p \in Processes /\ Done(p) /\ pc[p] = "locked"
    BY DEF Processes, PublishCommit
  <1>2. v \in Versions /\ JobOK(p)
    BY <1>1 DEF IInv, JobsOK, JobOK
  <1>3. rows[v] \in Row
    BY <1>2, TipVersion
  <1>4. filled \in Contents
    <2>1. CASE j.content = Null
      BY <2>1 DEF PublishCommit
    <2>2. CASE j.content # Null
      <3>1. rows[v].snapshot # Null
        BY <1>1, <1>2, <2>2 DEF JobOK
      <3> QED
        BY <1>3, <2>2, <3>1 DEF Row
    <2> QED
      BY <2>1, <2>2
  <1>5. rows' = [rows EXCEPT ![v] = r]
    BY DEF PublishCommit
  <1>6. r \in Row /\ r.pinned /\ r.snapshot = filled
    <2> HIDE DEF filled, v
    <2>1. r.pinned = TRUE /\ r.snapshot = filled
      BY <1>3 DEF Row
    <2>2. r \in Row
      BY <1>3, <1>4 DEF Row
    <2> QED
      BY <2>1, <2>2
  <1>7. filled # Null
    BY <1>4, NullFresh
  <1> HIDE DEF r, filled, v, j
  <1>8. rows' \in Seq(Row) /\ Len(rows') = Len(rows)
    BY <1>2, <1>5, <1>6, TipVersion DEF Versions
  <1>9. rows'[v] = r /\ \A u \in Versions \ {v} : rows'[u] = rows[u]
    BY <1>2, <1>5, TipVersion DEF Versions
  <1>10. PublishedOK'
    <2> SUFFICES ASSUME NEW u \in Versions', rows'[u].published
                 PROVE  rows'[u].pinned /\ rows'[u].snapshot # Null
      BY DEF PublishedOK
    <2>1. u \in Versions
      BY <1>8 DEF Versions
    <2> QED
      BY <1>6, <1>7, <1>9, <2>1 DEF IInv, PublishedOK
  <1>11. ASSUME NEW u \in Processes \ {p}, pc[u] = "locked",
                rows[job[u].target].snapshot # Null
         PROVE  rows'[job[u].target].snapshot # Null
    <2>1. job[u].target \in Versions
      BY <1>11 DEF IInv, JobsOK, JobOK
    <2> QED
      BY <1>6, <1>7, <1>9, <1>11, <2>1
  <1>12. Len(rows) <= Len(rows') /\ Len(rows') <= MaxVersions
    BY <1>8, VersionAssumption DEF IInv, TypeOK
  <1>13. {p} \in SUBSET Processes /\ \A u \in {p} : JobOK(u)'
    BY <1>1, RestsOK
  <1> QED
    BY <1>1, <1>8, <1>10, <1>11, <1>12, <1>13, RestsOK, StepOK

-----------------------------------------------------------------------------

LEMMA InitOK == Init => IInv
  <1> SUFFICES ASSUME Init PROVE IInv
    OBVIOUS
  <1>1. PICK c \in Contents : rows = <<FullRow(c)>>
    BY DEF Init
  <1>2. rows \in Seq(Row) /\ Len(rows) = 1 /\ rows[1] = FullRow(c)
    BY <1>1, FullRowType
  <1>3. TypeOK
    <2>1. pc \in [Processes -> Labels] /\ job \in [Processes -> Job]
      BY NoJobType DEF Init, Labels
    <2> QED
      BY <1>2, <2>1, VersionAssumption DEF TypeOK, Labels
  <1>4. JobsOK
    BY DEF Init, JobsOK, JobOK
  <1>5. PublishedOK
    BY <1>2 DEF PublishedOK, Versions, FullRow
  <1> QED
    BY <1>3, <1>4, <1>5 DEF IInv

LEMMA NextOK == IInv /\ [Next]_vars => IInv'
  <1> SUFFICES ASSUME IInv, [Next]_vars PROVE IInv'
    OBVIOUS
  <1>1. ASSUME NEW w \in Processes, GiveUp(w) PROVE IInv'
    BY <1>1, DoneOK DEF GiveUp
  <1>2. ASSUME NEW w \in Savers, Save(w) PROVE IInv'
    <2>1. ASSUME SaveConflict(w) PROVE IInv'
      BY <2>1, DoneOK DEF SaveConflict, Processes
    <2> QED
      BY <1>2, <2>1, SaveReadOK, RestoreReadOK, SaveBeginOK, SaveInsertOK DEF Save
  <1>3. ASSUME NEW w \in Batchers, Batch(w) PROVE IInv'
    BY <1>3, BatchInsertOK, BatchFetchOK, BatchBeginOK, BatchCompactOK DEF Batch
  <1>4. ASSUME NEW p \in Publishers, Publish(p) PROVE IInv'
    <2>1. ASSUME PublishAbort(p) PROVE IInv'
      BY <2>1, DoneOK DEF PublishAbort, Processes
    <2> QED
      BY <1>4, <2>1, PublishSelectOK, PublishLockOK, PublishCommitOK DEF Publish
  <1>5. CASE Next
    BY <1>1, <1>2, <1>3, <1>4, <1>5, DirectSyncOK, RevertOK DEF Next, Processes
  <1>6. CASE UNCHANGED vars
    BY <1>6 DEF vars, IInv, TypeOK, JobsOK, JobOK, PublishedOK, Versions, Tip
  <1> QED
    BY <1>5, <1>6

\* Everything the invariant says, at every moment.
THEOREM Invariance == Spec => []IInv
  BY InitOK, NextOK, PTL DEF Spec

\* The table and what the writers hold are well formed, however many writers of
\* each kind interleave.
THEOREM TypeCorrect == Spec => []TypeOK
  <1>1. IInv => TypeOK
    BY DEF IInv
  <1> QED
    BY <1>1, Invariance, PTL

\* No compaction, whatever it read and whenever it began, nulls the snapshot of
\* a published version: the row lock and the stamp it rechecks are enough.
THEOREM PublishedIsServable == Spec => []PublishedServable
  <1>1. IInv => PublishedServable
    BY DEF IInv, PublishedOK, PublishedServable
  <1> QED
    BY <1>1, Invariance, PTL

-----------------------------------------------------------------------------
\* The newest version.

\* An appended row that holds its snapshot is a materialized tip.
LEMMA AppendedTip ==
  ASSUME IInv, NEW j, NEW r, r.snapshot # Null, rows' = Append(Nulled(j), r)
  PROVE  TipMaterialized'
  <1> DEFINE N == Nulled(j)
  <1>1. N \in Seq(Row)
    BY TipVersion, NulledRows
  <1> HIDE DEF N
  <1>2. rows' = Append(N, r)
    BY DEF N
  <1> QED
    BY <1>1, <1>2 DEF TipMaterialized, Tip

LEMMA TipStep ==
  ASSUME Reverters = {}
  PROVE  IInv /\ TipMaterialized /\ [Next]_vars => TipMaterialized'
  <1> SUFFICES ASSUME IInv, TipMaterialized, [Next]_vars PROVE TipMaterialized'
    OBVIOUS
  <1>1. ASSUME UNCHANGED rows PROVE TipMaterialized'
    BY <1>1 DEF TipMaterialized, Tip
  <1>2. ASSUME NEW w \in Savers, SaveInsert(w) PROVE TipMaterialized'
    <2>1. job[w].content # Null
      BY <1>2 DEF SaveInsert, IInv, JobsOK, JobOK, Processes
    <2>2. [FullRow(job[w].content) EXCEPT !.patch = job[w].patch,
                                          !.from = job[w].target].snapshot # Null
      BY <2>1 DEF FullRow
    <2> QED
      BY <1>2, <2>2, AppendedTip DEF SaveInsert
  <1>3. ASSUME NEW c \in Contents, rows' = Append(rows, FullRow(c)) PROVE TipMaterialized'
    <2>1. FullRow(c).snapshot # Null
      BY NullFresh DEF FullRow
    <2>2. Nulled(NoJob) = rows
      BY TipVersion, NothingNulled
    <2> QED
      BY <1>3, <2>1, <2>2, AppendedTip
  <1>4. ASSUME NEW w \in Batchers, BatchCompact(w) PROVE TipMaterialized'
    <2> DEFINE j == job[w]
               N == Nulled(j)
    <2>1. /\ j.version \in 2 .. Tip /\ j.target = j.version - 1
          /\ rows' = [N EXCEPT ![j.version] = [@ EXCEPT !.patch = j.patch,
                                                        !.from = j.target]]
      BY <1>4 DEF BatchCompact, IInv, JobsOK, JobOK, Processes
    <2>2. Tip # j.target
      BY <2>1, TipVersion
    <2>3. N \in Seq(Row) /\ Len(N) = Len(rows) /\ N[Tip].snapshot = rows[Tip].snapshot
      BY <2>2, TipVersion, NulledRows
    <2> HIDE DEF N, j
    <2>4. N[Tip] \in Row
      BY <2>3, TipVersion DEF Versions
    <2>5. /\ Tip' = Tip
          /\ rows'[Tip] = IF j.version = Tip
                          THEN [N[Tip] EXCEPT !.patch = j.patch, !.from = j.target]
                          ELSE N[Tip]
      <3> DEFINE r == [N[j.version] EXCEPT !.patch = j.patch, !.from = j.target]
      <3>1. rows' = [N EXCEPT ![j.version] = r]
        BY <2>1
      <3>2. Tip \in 1 .. Len(N) /\ j.version \in 1 .. Len(N) /\ Tip = Len(N)
        BY <2>1, <2>3, TipVersion DEF Tip, Versions
      <3> HIDE DEF r
      <3>3. Len(rows') = Len(N) /\ rows'[Tip] = IF j.version = Tip THEN r ELSE N[Tip]
        BY <2>3, <3>1, <3>2
      <3> QED
        BY <2>3, <3>2, <3>3 DEF r, Tip
    <2>6. rows'[Tip].snapshot = N[Tip].snapshot
      BY <2>4, <2>5 DEF Row
    <2> QED
      BY <2>3, <2>5, <2>6 DEF TipMaterialized
  <1>5. ASSUME NEW p \in Publishers, PublishCommit(p) PROVE TipMaterialized'
    <2> DEFINE v == job[p].target
               filled == IF job[p].content = Null THEN Replay[v] ELSE rows[v].snapshot
               r == [rows[v] EXCEPT !.snapshot = filled, !.pinned = TRUE, !.published = TRUE]
    <2>1. rows' = [rows EXCEPT ![v] = r]
      BY <1>5 DEF PublishCommit
    <2>2. v \in Versions
      BY <1>5 DEF PublishCommit, IInv, JobsOK, JobOK, Processes
    <2>3. Tip' = Tip
      BY <2>1, <2>2, TipVersion DEF Tip, Versions
    <2>4. CASE v = Tip
      <3>1. filled # Null
        BY <1>5, <2>4, NullFresh DEF PublishCommit, TipMaterialized
      <3>2. r.snapshot = filled
        BY <2>2, TipVersion DEF Row
      <3> HIDE DEF r, filled
      <3>3. rows'[Tip] = r
        BY <2>1, <2>4, TipVersion DEF Versions
      <3> QED
        BY <2>3, <3>1, <3>2, <3>3 DEF TipMaterialized
    <2>5. CASE v # Tip
      <3> HIDE DEF r
      <3>1. rows'[Tip] = rows[Tip]
        BY <2>1, <2>2, <2>5, TipVersion DEF Versions
      <3> QED
        BY <2>3, <3>1 DEF TipMaterialized
    <2> QED
      BY <2>4, <2>5
  <1>6. ASSUME NEW w \in Savers, Save(w) PROVE TipMaterialized'
    BY <1>1, <1>2, <1>6 DEF Save, SaveRead, RestoreRead, SaveBegin, SaveConflict
  <1>7. ASSUME NEW w \in Batchers, Batch(w) PROVE TipMaterialized'
    BY <1>1, <1>3, <1>4, <1>7 DEF Batch, BatchInsert, BatchFetch, BatchBegin
  <1>8. ASSUME NEW p \in Publishers, Publish(p) PROVE TipMaterialized'
    BY <1>1, <1>5, <1>8 DEF Publish, PublishSelect, PublishLock, PublishAbort
  <1>9. ASSUME NEW w, GiveUp(w) PROVE TipMaterialized'
    BY <1>1, <1>9 DEF GiveUp
  <1>10. ASSUME NEW c \in Contents, DirectSync(c) PROVE TipMaterialized'
    BY <1>3, <1>10 DEF DirectSync
  <1>11. CASE Next
    BY <1>6, <1>7, <1>8, <1>9, <1>10, <1>11 DEF Next
  <1>12. CASE UNCHANGED vars
    BY <1>1, <1>12 DEF vars
  <1> QED
    BY <1>11, <1>12

\* Where no bulk checkpoint revert runs, the version a session loads, and the
\* next forward patch is computed from, always holds its snapshot: only versions
\* another already stands above are compacted.
THEOREM TipIsMaterialized ==
  ASSUME Reverters = {}
  PROVE  Spec => []TipMaterialized
  <1>1. Init => TipMaterialized
    BY NullFresh DEF Init, TipMaterialized, Tip, FullRow
  <1>2. IInv /\ TipMaterialized /\ [Next]_vars => TipMaterialized'
    BY TipStep
  <1> QED
    BY <1>1, <1>2, Invariance, PTL DEF Spec

-----------------------------------------------------------------------------
\* Induction over the natural numbers.

\* What is minimal for a relation that holds of every smaller number is least.
LEMMA Minimal ==
  ASSUME NEW T \in SUBSET Nat, NEW R, \A x, y \in Nat : x < y => <<x, y>> \in R,
         NEW n \in T, \A m \in T : ~ (<<m, n>> \in R)
  PROVE  \A m \in T : n <= m
  <1> SUFFICES ASSUME NEW m \in T, m < n PROVE FALSE
    OBVIOUS
  <1>1. m \in Nat /\ n \in Nat
    OBVIOUS
  <1>2. <<m, n>> \in R
    BY <1>1, Zenon
  <1> QED
    BY <1>2

\* A set of numbers that is not empty has a least element: induction stated of
\* sets, so that it takes no operator.
LEMMA LeastNumber ==
  ASSUME NEW T \in SUBSET Nat, T # {}
  PROVE  \E n \in T : \A m \in T : n <= m
  <1>1. \A x, y \in Nat : x < y => <<x, y>> \in OpToRel(<, Nat)
    BY DEF OpToRel
  <1>2. \E n \in T : \A m \in T : ~ (<<m, n>> \in OpToRel(<, Nat))
    BY NatLessThanWellFounded, WFMin
  <1> QED
    BY <1>1, <1>2, Minimal

LEMMA NaturalInduction ==
  ASSUME NEW S, 0 \in S, \A n \in Nat : n \in S => n + 1 \in S
  PROVE  Nat \subseteq S
  <1> SUFFICES ASSUME Nat \ S # {} PROVE FALSE
    OBVIOUS
  <1>1. PICK n \in Nat \ S : \A m \in Nat \ S : n <= m
    BY LeastNumber
  <1>2. n # 0 /\ n - 1 \in Nat /\ n - 1 \notin Nat \ S
    BY <1>1
  <1> QED
    BY <1>2

-----------------------------------------------------------------------------
\* Replay is a recursive function. One step of it, what it is a solution of, and
\* the same function of any table.

Link(t, v, below) ==
    IF v = 0 THEN Null
    ELSE IF t[v].snapshot # Null THEN t[v].snapshot
    ELSE IF t[v].patch = Null \/ below = Null THEN Null
    ELSE ApplyPatch(below, t[v].patch)

Replays(t, n, g) == g = [v \in 0 .. n |-> Link(t, v, g[v - 1])]

ReplayOf(t) == LET at[v \in 0 .. Len(t)] == Link(t, v, at[v - 1]) IN at

LEMMA ReplayIs == Replay = ReplayOf(rows)
  BY DEF Replay, ReplayOf, Tip, Link

\* The recursion has a solution on every table, by induction on how far it goes.
LEMMA ReplayExists ==
  ASSUME NEW t, NEW n \in Nat
  PROVE  \E g : Replays(t, n, g)
  <1> DEFINE S == {m \in Nat : \E g : Replays(t, m, g)}
  <1>1. 0 \in S
    <2> DEFINE g == [v \in 0 .. 0 |-> Null]
    <2>1. Replays(t, 0, g)
      BY DEF Replays, Link
    <2> QED
      BY <2>1
  <1>2. ASSUME NEW m \in S PROVE m + 1 \in S
    <2>1. PICK g : Replays(t, m, g)
      OBVIOUS
    <2> DEFINE h == [v \in 0 .. m + 1 |-> IF v <= m THEN g[v] ELSE Link(t, v, g[m])]
    <2>2. ASSUME NEW v \in 0 .. m + 1 PROVE h[v] = Link(t, v, h[v - 1])
      <3>1. CASE v = 0
        BY <2>1, <3>1 DEF Replays, Link
      <3>2. CASE v \in 1 .. m
        <4>1. g[v] = Link(t, v, g[v - 1])
          BY <2>1, <3>2 DEF Replays
        <4>2. h[v] = g[v] /\ h[v - 1] = g[v - 1]
          BY <3>2
        <4> QED
          BY <4>1, <4>2
      <3>3. CASE v = m + 1
        <4>2. h[v] = Link(t, v, g[m]) /\ h[v - 1] = g[m]
          BY <3>3
        <4> QED
          BY <4>2
      <3> QED
        BY <3>1, <3>2, <3>3
    <2>3. h = [v \in 0 .. m + 1 |-> h[v]]
      OBVIOUS
    <2> HIDE DEF h
    <2>4. Replays(t, m + 1, h)
      BY <2>2, <2>3 DEF Replays
    <2> QED
      BY <2>4
  <1> HIDE DEF S
  <1>3. Nat \subseteq S
    BY <1>1, <1>2, NaturalInduction
  <1> QED
    BY <1>3 DEF S

LEMMA ReplayUnfolds ==
  ASSUME NEW t, Len(t) \in Nat
  PROVE  Replays(t, Len(t), ReplayOf(t))
  <1>1. \E g : Replays(t, Len(t), g)
    BY ReplayExists
  <1>2. ReplayOf(t) = CHOOSE g : Replays(t, Len(t), g)
    BY DEF ReplayOf, Replays
  <1> QED
    BY <1>1, <1>2
-----------------------------------------------------------------------------
\* The invariants.

\* A row without a snapshot has a patch, and the first row never has one.
Chained(v) ==
    /\ rows[v].snapshot = Null => rows[v].patch # Null
    /\ v = 1 => rows[v].patch = Null

\* A patch about to be stored is one.
PatchHeld(w) == pc[w] \in {"fetched", "compact"} => job[w].patch # Null

ChainInv == (\A v \in Versions : Chained(v)) /\ (\A w \in Processes : PatchHeld(w))

\* A row that does not break the chain.
Good(v) == Full(v) \/ Direct(v)

\* What a row holds leads to what was written, where its chain is straight: its
\* snapshot is that content, and a direct patch turns the content below into it.
Faithful(v) ==
    /\ rows[v].snapshot # Null /\ Straight(v) => rows[v].snapshot = rows[v].content
    /\ Direct(v) /\ Straight(v - 1) =>
          ApplyPatch(rows[v - 1].content, rows[v].patch) = rows[v].content

\* So does what a consumer has inserted and what it is about to store.
HeldByBatch(w) ==
    \A x \in Versions : x = job[w].version =>
        /\ pc[w] = "inserted" => job[w].content = rows[x].content
        /\ pc[w] \in {"fetched", "compact"} /\ Straight(x - 1) =>
              ApplyPatch(rows[x - 1].content, job[w].patch) = rows[x].content
        /\ pc[w] \in {"inserted", "fetched", "compact"} => Good(x)

\* And what a saver is about to insert, measured against the version it read.
Saves(w) == pc[w] \in {"read", "insert"} /\ job[w].patch # Null

HeldBySave(w) ==
    Saves(w) => /\ job[w].target \in Versions
                /\ \A t \in Versions : t = job[w].target /\ Straight(t) =>
                      ApplyPatch(rows[t].content, job[w].patch) = job[w].content

HeldOK(w) == PatchHeld(w) /\ HeldByBatch(w) /\ HeldBySave(w)

FaithInv == (\A v \in Versions : Faithful(v)) /\ (\A w \in Processes : HeldOK(w))

LEMMA ReplayStep ==
  ASSUME NEW t, Len(t) \in Nat, NEW v \in 0 .. Len(t)
  PROVE  ReplayOf(t)[v] = Link(t, v, ReplayOf(t)[v - 1])
  BY ReplayUnfolds DEF Replays

LEMMA ApplyPatchType ==
  ASSUME NEW c \in Contents, NEW p \in Patches
  PROVE  ApplyPatch(c, p) \in Contents
  <1>1. PICK D \in SUBSET Fields : p \in [D -> Values]
    BY DEF Patches
  <1> QED
    BY <1>1 DEF ApplyPatch, Contents

LEMMA DiffApplies ==
  ASSUME NEW a \in Contents, NEW b \in Contents
  PROVE  ApplyPatch(a, Diff(a, b)) = b
  BY DEF ApplyPatch, Diff, Contents

\* Where every nulled row has a patch and the first row has none, every chain
\* ends at a snapshot.
LEMMA ChainsEnd ==
  ASSUME TypeOK, \A v \in Versions : Chained(v)
  PROVE  \A v \in Versions : Replay[v] \in Contents
  <1> DEFINE S == {n \in Nat : n + 1 \in Versions => Replay[n + 1] \in Contents}
  <1>1. Len(rows) \in Nat /\ \A v \in Versions : rows[v] \in Row
    BY DEF TypeOK, Versions
  <1>2. ASSUME NEW v \in Versions
        PROVE  Replay[v] = Link(rows, v, Replay[v - 1])
    <2>1. v \in 0 .. Len(rows)
      BY <1>1 DEF Versions
    <2> QED
      BY <1>1, <2>1, ReplayStep, ReplayIs
  <1>3. ASSUME NEW v \in Versions, v = 1 \/ Replay[v - 1] \in Contents
        PROVE  Replay[v] \in Contents
    <2>1. rows[v].snapshot \in Contents \cup {Null} /\ rows[v].patch \in Patches \cup {Null}
      BY <1>1 DEF Row
    <2>2. CASE rows[v].snapshot # Null
      BY <1>2, <2>1, <2>2 DEF Link, Versions
    <2>3. CASE rows[v].snapshot = Null
      <3>1. rows[v].patch # Null /\ Replay[v - 1] \in Contents
        BY <1>3, <2>3 DEF Chained
      <3>2. Replay[v - 1] # Null /\ v # 0
        BY <3>1, NullFresh DEF Versions
      <3>3. Replay[v] = ApplyPatch(Replay[v - 1], rows[v].patch)
        BY <1>2, <2>3, <3>1, <3>2 DEF Link
      <3> QED
        BY <2>1, <3>1, <3>3, ApplyPatchType
    <2> QED
      BY <2>2, <2>3
  <1>4. 0 \in S
    <2>1. 0 + 1 = 1
      OBVIOUS
    <2> QED
      BY <1>3, <2>1
  <1>5. ASSUME NEW n \in S PROVE n + 1 \in S
    <2> SUFFICES ASSUME n + 2 \in Versions PROVE Replay[n + 2] \in Contents
      BY n + 1 + 1 = n + 2
    <2>1. n + 1 \in Versions /\ n + 1 = (n + 2) - 1
      BY <1>1 DEF Versions
    <2>2. Replay[n + 1] \in Contents
      BY <2>1
    <2> QED
      BY <1>3, <2>1, <2>2
  <1> HIDE DEF S
  <1>6. Nat \subseteq S
    BY <1>4, <1>5, NaturalInduction
  <1>7. ASSUME NEW v \in Versions PROVE Replay[v] \in Contents
    <2>1. v - 1 \in S /\ v = (v - 1) + 1
      BY <1>1, <1>6 DEF Versions
    <2> QED
      BY <2>1 DEF S
  <1> QED
    BY <1>7

\* A straight chain ends at a full row or goes down by one direct patch.
LEMMA StraightDown ==
  ASSUME NEW v \in Nat \ {0}
  PROVE  /\ Full(v) => Straight(v)
         /\ Direct(v) /\ Straight(v - 1) => Straight(v)
         /\ Straight(v) /\ ~Full(v) => Direct(v) /\ Straight(v - 1)
  <1>1. ASSUME Full(v) PROVE Straight(v)
    BY <1>1 DEF Straight
  <1>2. ASSUME Direct(v), Straight(v - 1) PROVE Straight(v)
    <2> SUFFICES ASSUME NEW u \in 1 .. v, ~Direct(u) PROVE \E x \in u .. v : Full(x)
      BY DEF Straight
    <2>1. u \in 1 .. (v - 1)
      BY <1>2
    <2>2. PICK x \in u .. (v - 1) : Full(x)
      BY <1>2, <2>1 DEF Straight
    <2> QED
      BY <2>2
  <1>3. ASSUME Straight(v), ~Full(v) PROVE Direct(v) /\ Straight(v - 1)
    <2>1. Direct(v)
      <3>1. v \in 1 .. v /\ \A x \in v .. v : x = v
        OBVIOUS
      <3> QED
        BY <1>3, <3>1 DEF Straight
    <2>2. ASSUME NEW u \in 1 .. (v - 1), ~Direct(u) PROVE \E x \in u .. (v - 1) : Full(x)
      <3>1. PICK x \in u .. v : Full(x)
        BY <1>3, <2>2 DEF Straight
      <3>2. x # v
        BY <1>3, <3>1
      <3> QED
        BY <3>1, <3>2
    <2> QED
      BY <2>1, <2>2 DEF Straight
  <1> QED
    BY <1>1, <1>2, <1>3

\* Where the straight patches lead to the contents, so does every straight chain.
LEMMA ChainsFaithful ==
  ASSUME TypeOK, \A v \in Versions : Faithful(v)
  PROVE  \A v \in Versions : Straight(v) => Replay[v] = rows[v].content
  <1> DEFINE S == {n \in Nat : n + 1 \in Versions /\ Straight(n + 1) =>
                                    Replay[n + 1] = rows[n + 1].content}
  <1>1. Len(rows) \in Nat /\ \A v \in Versions : rows[v] \in Row
    BY DEF TypeOK, Versions
  <1>2. ASSUME NEW v \in Versions
        PROVE  Replay[v] = Link(rows, v, Replay[v - 1])
    <2>1. v \in 0 .. Len(rows)
      BY <1>1 DEF Versions
    <2> QED
      BY <1>1, <2>1, ReplayStep, ReplayIs
  <1>3. ASSUME NEW v \in Versions, Straight(v),
               v = 1 \/ (Straight(v - 1) => Replay[v - 1] = rows[v - 1].content)
        PROVE  Replay[v] = rows[v].content
    <2>1. v # 0 /\ v \in Nat \ {0}
      BY <1>1 DEF Versions
    <2>2. CASE rows[v].snapshot # Null
      <3>1. Replay[v] = rows[v].snapshot
        BY <1>2, <2>1, <2>2 DEF Link
      <3> QED
        BY <1>3, <2>2, <3>1 DEF Faithful
    <2>3. CASE rows[v].snapshot = Null
      <3>1. Direct(v) /\ Straight(v - 1)
        BY <1>3, <2>1, <2>3, StraightDown DEF Full
      <3>2. v > 1 /\ v - 1 \in Versions /\ rows[v].patch # Null
        BY <1>1, <2>1, <3>1 DEF Versions, Direct
      <3>3. Replay[v - 1] = rows[v - 1].content /\ Replay[v - 1] # Null
        BY <1>1, <1>3, <3>1, <3>2, NullFresh DEF Row
      <3>4. Replay[v] = ApplyPatch(Replay[v - 1], rows[v].patch)
        BY <1>2, <2>1, <2>3, <3>2, <3>3 DEF Link
      <3> QED
        BY <3>1, <3>3, <3>4 DEF Faithful
    <2> QED
      BY <2>2, <2>3
  <1>4. 0 \in S
    <2>1. 0 + 1 = 1
      OBVIOUS
    <2> QED
      BY <1>3, <2>1
  <1>5. ASSUME NEW n \in S PROVE n + 1 \in S
    <2> SUFFICES ASSUME n + 2 \in Versions, Straight(n + 2)
                 PROVE  Replay[n + 2] = rows[n + 2].content
      BY n + 1 + 1 = n + 2
    <2>1. n + 1 \in Versions /\ n + 1 = (n + 2) - 1
      BY <1>1 DEF Versions
    <2>2. Straight(n + 1) => Replay[n + 1] = rows[n + 1].content
      BY <2>1
    <2> QED
      BY <1>3, <2>1, <2>2
  <1> HIDE DEF S
  <1>6. Nat \subseteq S
    BY <1>4, <1>5, NaturalInduction
  <1>7. ASSUME NEW v \in Versions, Straight(v) PROVE Replay[v] = rows[v].content
    <2>1. v - 1 \in S /\ v = (v - 1) + 1
      BY <1>1, <1>6 DEF Versions
    <2> QED
      BY <1>7, <2>1 DEF S
  <1> QED
    BY <1>7

\* A new row holds what was written, in its snapshot unless a bulk revert copied
\* it; it has a patch only if a saver brought one.
NewRow(r) ==
    /\ r.content \in Contents /\ r.snapshot \in {Null, r.content}
    /\ Reverters = {} => r.snapshot # Null
    /\ r.patch = Null \/ \E w \in Savers : /\ pc[w] = "insert" /\ r.content = job[w].content
                                          /\ r.patch = job[w].patch /\ r.from = job[w].target

\* What a step does to the table: contents stay, a patch is one a consumer held,
\* a snapshot goes only where there is a patch or comes from a replay.
Grown ==
    /\ Len(rows') \in {Len(rows), Len(rows) + 1}
    /\ \A v \in Versions :
          /\ rows'[v].content = rows[v].content
          /\ \/ rows'[v].patch = rows[v].patch /\ rows'[v].from = rows[v].from
             \/ \E w \in Batchers :
                   /\ pc[w] = "compact" /\ v = job[w].version
                   /\ rows'[v].patch = job[w].patch /\ rows'[v].from = job[w].target
          /\ \/ rows'[v].snapshot = rows[v].snapshot
             \/ rows'[v].snapshot = Null /\ rows[v].patch # Null
             \/ rows'[v].snapshot = Replay[v] /\ Replay[v] \in Contents
    /\ \A v \in Versions' \ Versions : NewRow(rows'[v])

LEMMA AppendGrows ==
  ASSUME IInv, NEW j, NEW r \in Row, rows' = Append(Nulled(j), r), NewRow(r)
  PROVE  Grown
  <1> DEFINE N == Nulled(j)
  <1>1. /\ N \in Seq(Row) /\ Len(N) = Len(rows)
        /\ \A v \in Versions :
               /\ N[v].content = rows[v].content /\ N[v].patch = rows[v].patch
               /\ N[v].from = rows[v].from
               /\ N[v].snapshot = rows[v].snapshot \/ (v = j.target /\ Nullable(j))
    BY TipVersion, NulledRows
  <1>2. ASSUME NEW v \in Versions, v = j.target, Nullable(j)
        PROVE  N[v].snapshot = Null /\ rows[v].patch # Null
    <2>1. N[v] = [rows[v] EXCEPT !.snapshot = Null]
      BY <1>2 DEF Nulled
    <2>2. rows[v] \in Row
      BY TipVersion
    <2> QED
      BY <1>2, <2>1, <2>2 DEF Nullable, Row
  <1>3. rows' = Append(N, r)
    OBVIOUS
  <1> HIDE DEF N
  <1>4. /\ Len(rows') = Len(rows) + 1 /\ rows'[Len(rows) + 1] = r
        /\ \A v \in Versions : rows'[v] = N[v]
    <2>1. /\ Len(rows') = Len(N) + 1 /\ rows'[Len(N) + 1] = r
          /\ \A v \in 1 .. Len(N) : rows'[v] = N[v]
      BY <1>1, <1>3
    <2> QED
      BY <1>1, <2>1 DEF Versions
  <1>5. Versions' \ Versions = {Len(rows) + 1}
    BY <1>4, TipVersion DEF Versions
  <1> QED
    BY <1>1, <1>2, <1>4, <1>5 DEF Grown

LEMMA SameRowsGrow ==
  ASSUME IInv, UNCHANGED rows
  PROVE  Grown
  BY TipVersion DEF Grown, Versions

LEMMA SaveInsertGrows ==
  ASSUME IInv, NEW w \in Savers, SaveInsert(w)
  PROVE  Grown
  <1> DEFINE j == job[w]
             r == [FullRow(j.content) EXCEPT !.patch = j.patch, !.from = j.target]
  <1>1. j \in Job /\ j.content # Null /\ pc[w] = "insert"
    BY DEF IInv, TypeOK, JobsOK, JobOK, SaveInsert, Processes
  <1>2. /\ j.content \in Contents /\ j.patch \in Patches \cup {Null}
        /\ j.target \in 0 .. MaxVersions
    BY <1>1 DEF Job
  <1>3. FullRow(j.content) \in Row
    BY <1>2, FullRowType
  <1>4. rows' = Append(Nulled(j), r)
    BY DEF SaveInsert
  <1>5. FullRow(j.content).snapshot = j.content /\ FullRow(j.content).content = j.content
    BY DEF FullRow
  <1> HIDE DEF j
  <1>6. /\ r \in Row /\ r.snapshot = j.content /\ r.content = j.content
        /\ r.patch = j.patch /\ r.from = j.target
    BY <1>2, <1>3, <1>5 DEF Row
  <1> HIDE DEF r
  <1>7. NewRow(r)
    BY <1>1, <1>2, <1>6 DEF NewRow, j
  <1> QED
    BY <1>4, <1>6, <1>7, AppendGrows

LEMMA FullRowGrows ==
  ASSUME IInv, NEW c \in Contents, rows' = Append(rows, FullRow(c))
  PROVE  Grown
  <1>1. rows' = Append(Nulled(NoJob), FullRow(c))
    BY TipVersion, NothingNulled
  <1>2. FullRow(c) \in Row
    BY FullRowType
  <1>3. NewRow(FullRow(c))
    BY NullFresh DEF FullRow, NewRow
  <1> QED
    BY <1>1, <1>2, <1>3, AppendGrows

LEMMA RevertGrows ==
  ASSUME IInv, NEW v \in Versions, RevertToCheckpoint(v), Reverters # {}
  PROVE  Grown
  <1>1. rows' = Append(Nulled(NoJob), Copied(v))
    BY TipVersion, NothingNulled DEF RevertToCheckpoint, Copied
  <1>2. Copied(v).content \in Contents
    BY CopiedType DEF Row
  <1>3. NewRow(Copied(v))
    BY <1>2, CopiedType DEF NewRow
  <1> QED
    BY <1>1, <1>3, CopiedType, AppendGrows

LEMMA BatchCompactGrows ==
  ASSUME IInv, NEW w \in Batchers, BatchCompact(w)
  PROVE  Grown
  <1> DEFINE j == job[w]
             N == Nulled(j)
             x == j.version
  <1>1. /\ j \in Job /\ x \in Versions /\ pc[w] = "compact"
        /\ rows' = [N EXCEPT ![x] = [@ EXCEPT !.patch = j.patch, !.from = j.target]]
    <2>1. j \in Job /\ x \in 2 .. Tip /\ pc[w] = "compact"
      BY DEF IInv, TypeOK, JobsOK, JobOK, BatchCompact, Processes
    <2> QED
      BY <2>1, TipVersion DEF Tip, Versions, BatchCompact
  <1>2. j.patch \in Patches \cup {Null} /\ j.target \in 0 .. MaxVersions
    BY <1>1 DEF Job
  <1>3. /\ N \in Seq(Row) /\ Len(N) = Len(rows)
        /\ \A v \in Versions :
               /\ N[v].content = rows[v].content /\ N[v].patch = rows[v].patch
               /\ N[v].from = rows[v].from
               /\ N[v].snapshot = rows[v].snapshot \/ (v = j.target /\ Nullable(j))
    BY TipVersion, NulledRows
  <1>4. ASSUME NEW v \in Versions, v = j.target, Nullable(j)
        PROVE  N[v].snapshot = Null /\ rows[v].patch # Null
    <2>1. N[v] = [rows[v] EXCEPT !.snapshot = Null]
      BY <1>4 DEF Nulled
    <2>2. rows[v] \in Row
      BY TipVersion
    <2> QED
      BY <1>4, <2>1, <2>2 DEF Nullable, Row
  <1> HIDE DEF N
  <1>5. \A v \in Versions : N[v] \in Row
    BY <1>3 DEF Versions
  <1>6. /\ Len(rows') = Len(rows)
        /\ \A v \in Versions :
              rows'[v] = IF v = x THEN [N[x] EXCEPT !.patch = j.patch, !.from = j.target]
                         ELSE N[v]
    BY <1>1, <1>3 DEF Versions
  <1>7. \A v \in Versions :
           /\ rows'[v].content = N[v].content /\ rows'[v].snapshot = N[v].snapshot
           /\ rows'[v].patch = IF v = x THEN j.patch ELSE N[v].patch
           /\ rows'[v].from = IF v = x THEN j.target ELSE N[v].from
    <2> HIDE DEF j, x
    <2> SUFFICES ASSUME NEW v \in Versions
                 PROVE  /\ rows'[v].content = N[v].content /\ rows'[v].snapshot = N[v].snapshot
                        /\ rows'[v].patch = IF v = x THEN j.patch ELSE N[v].patch
                        /\ rows'[v].from = IF v = x THEN j.target ELSE N[v].from
      OBVIOUS
    <2>1. N[v] \in Row
      BY <1>5
    <2>2. CASE v = x
      <3>1. rows'[v] = [N[v] EXCEPT !.patch = j.patch, !.from = j.target]
        BY <1>6, <2>2
      <3> QED
        BY <2>1, <2>2, <3>1 DEF Row
    <2>3. CASE v # x
      BY <1>6, <2>3
    <2> QED
      BY <2>2, <2>3
  <1>8. Versions' \ Versions = {}
    BY <1>6 DEF Versions
  <1> HIDE DEF j, x
  <1>9. ASSUME NEW v \in Versions
        PROVE  \/ rows'[v].patch = rows[v].patch /\ rows'[v].from = rows[v].from
               \/ \E u \in Batchers :
                     /\ pc[u] = "compact" /\ v = job[u].version
                     /\ rows'[v].patch = job[u].patch /\ rows'[v].from = job[u].target
    BY <1>1, <1>3, <1>7 DEF x, j
  <1> QED
    BY <1>3, <1>4, <1>6, <1>7, <1>8, <1>9 DEF Grown

LEMMA PublishCommitGrows ==
  ASSUME IInv, NEW p \in Publishers, PublishCommit(p)
  PROVE  Grown
  <1> DEFINE v == job[p].target
             filled == IF job[p].content = Null THEN Replay[v] ELSE rows[v].snapshot
             r == [rows[v] EXCEPT !.snapshot = filled, !.pinned = TRUE, !.published = TRUE]
  <1>1. rows' = [rows EXCEPT ![v] = r] /\ v \in Versions
    BY DEF PublishCommit, IInv, JobsOK, JobOK, Processes
  <1>2. rows[v] \in Row
    BY <1>1, TipVersion
  <1>3. \/ filled = rows[v].snapshot
        \/ filled = Replay[v] /\ Replay[v] \in Contents
    BY DEF PublishCommit
  <1> HIDE DEF filled
  <1>4. /\ r.content = rows[v].content /\ r.patch = rows[v].patch
        /\ r.from = rows[v].from /\ r.snapshot = filled
    BY <1>2 DEF Row
  <1> HIDE DEF r, v
  <1>5. Len(rows') = Len(rows) /\ rows'[v] = r /\ \A u \in Versions \ {v} : rows'[u] = rows[u]
    BY <1>1, TipVersion DEF Versions
  <1>6. Versions' \ Versions = {}
    BY <1>5 DEF Versions
  <1> QED
    BY <1>3, <1>4, <1>5, <1>6 DEF Grown

LEMMA NextGrows ==
  ASSUME IInv, [Next]_vars
  PROVE  Grown
  <1>1. CASE UNCHANGED rows
    BY <1>1, SameRowsGrow
  <1>2. ASSUME NEW w \in Savers, Save(w) PROVE Grown
    BY <1>1, <1>2, SaveInsertGrows DEF Save, SaveRead, RestoreRead, SaveBegin, SaveConflict
  <1>3. ASSUME NEW w \in Batchers, Batch(w) PROVE Grown
    BY <1>1, <1>3, FullRowGrows, BatchCompactGrows DEF Batch, BatchInsert, BatchFetch, BatchBegin
  <1>4. ASSUME NEW p \in Publishers, Publish(p) PROVE Grown
    BY <1>1, <1>4, PublishCommitGrows DEF Publish, PublishSelect, PublishLock, PublishAbort
  <1>5. ASSUME NEW w, GiveUp(w) PROVE Grown
    BY <1>1, <1>5 DEF GiveUp
  <1>6. ASSUME NEW c \in Contents, DirectSync(c) PROVE Grown
    BY <1>6, FullRowGrows DEF DirectSync
  <1>7. ASSUME NEW r \in Reverters, NEW v \in Versions, RevertToCheckpoint(v) PROVE Grown
    BY <1>7, RevertGrows
  <1>8. CASE Next
    BY <1>2, <1>3, <1>4, <1>5, <1>6, <1>7, <1>8 DEF Next
  <1>9. CASE UNCHANGED vars
    BY <1>1, <1>9 DEF vars
  <1> QED
    BY <1>8, <1>9

\* What a step does to the patch a consumer is about to store.
Holds(w) == pc[w] \in {"inserted", "fetched", "compact"}

HeldStep(w) ==
    \/ ~Holds(w)'
    \/ pc'[w] = pc[w] /\ job'[w] = job[w]
    \/ /\ pc'[w] = "inserted" /\ job'[w].version = Tip + 1
       /\ job'[w].content \in Contents /\ rows' = Append(rows, FullRow(job'[w].content))
    \/ /\ pc[w] = "inserted" /\ rows[job[w].version - 1].snapshot # Null
       /\ job'[w].patch = Diff(rows[job[w].version - 1].snapshot, job[w].content)
       /\ pc'[w] = "fetched" /\ job'[w].version = job[w].version /\ rows' = rows
    \/ /\ pc[w] = "fetched" /\ pc'[w] = "compact" /\ rows' = rows
       /\ job'[w].version = job[w].version /\ job'[w].patch = job[w].patch

LEMMA GoEffect ==
  ASSUME IInv, NEW u \in Processes, NEW l, NEW j, Go(u, l, j)
  PROVE  /\ pc'[u] = l /\ job'[u] = j
         /\ \A w \in Processes \ {u} : pc'[w] = pc[w] /\ job'[w] = job[w]
  BY DEF Go, IInv, TypeOK

\* A step that leaves its process with nothing to store.
LEMMA GoElsewhere ==
  ASSUME IInv, NEW w \in Processes, NEW u \in Processes, NEW l, NEW j, Go(u, l, j),
         l \notin {"inserted", "fetched", "compact"}
  PROVE  HeldStep(w)
  BY GoEffect DEF HeldStep, Holds

LEMMA BatchHeldStep ==
  ASSUME IInv, NEW w \in Processes, NEW u \in Batchers, Batch(u)
  PROVE  HeldStep(w)
  <1> USE DEF Processes
  <1>1. \A l, j : Go(u, l, j) => /\ pc'[u] = l /\ job'[u] = j
                                 /\ w # u => pc'[w] = pc[w] /\ job'[w] = job[w]
    BY GoEffect
  <1>2. CASE w # u
    <2>1. \E l, j : Go(u, l, j)
      BY DEF Batch, BatchInsert, BatchFetch, BatchBegin, BatchCompact, Done
    <2> QED
      BY <1>1, <1>2, <2>1 DEF HeldStep
  <1>3. ASSUME w = u, NEW c \in Contents, BatchInsert(u, c) PROVE HeldStep(w)
    <2> DEFINE j == [NoJob EXCEPT !.content = c, !.version = Tip + 1]
    <2>1. pc'[u] = "inserted" /\ job'[u] = j /\ rows' = Append(rows, FullRow(c))
      BY <1>1, <1>3 DEF BatchInsert
    <2>2. j.version = Tip + 1 /\ j.content = c
      BY DEF NoJob
    <2> QED
      BY <1>3, <2>1, <2>2 DEF HeldStep
  <1>4. ASSUME w = u, BatchFetch(u) PROVE HeldStep(w)
    <2> DEFINE i == job[u]
               d == Diff(rows[i.version - 1].snapshot, i.content)
               n == Compactable(i.version - 1, d)
               j == [i EXCEPT !.target = i.version - 1, !.patch = d, !.nulls = n]
    <2>1. pc'[u] = "fetched" /\ job'[u] = j /\ rows' = rows /\ pc[u] = "inserted"
      BY <1>1, <1>4 DEF BatchFetch
    <2>2. rows[i.version - 1].snapshot # Null
      BY <1>4 DEF BatchFetch
    <2>3. i \in Job
      BY DEF IInv, TypeOK
    <2> HIDE DEF i, d, n
    <2>4. j.version = i.version /\ j.patch = d
      BY <2>3 DEF Job
    <2> HIDE DEF j
    <2> QED
      BY <1>4, <2>1, <2>2, <2>4 DEF HeldStep, i, d
  <1>5. ASSUME w = u, BatchBegin(u) PROVE HeldStep(w)
    <2> DEFINE i == job[u]
               b == rows[i.target].published
               j == [i EXCEPT !.wasPublished = b]
    <2>1. pc'[u] = "compact" /\ job'[u] = j /\ rows' = rows /\ pc[u] = "fetched"
      BY <1>1, <1>5 DEF BatchBegin
    <2>2. i \in Job
      BY DEF IInv, TypeOK
    <2> HIDE DEF i, b
    <2>3. j.version = i.version /\ j.patch = i.patch
      BY <2>2 DEF Job
    <2> HIDE DEF j
    <2> QED
      BY <1>5, <2>1, <2>3 DEF HeldStep, i
  <1>6. ASSUME BatchCompact(u) PROVE HeldStep(w)
    BY <1>6, GoElsewhere DEF BatchCompact, Done
  <1> QED
    BY <1>2, <1>3, <1>4, <1>5, <1>6 DEF Batch

LEMMA HeldSteps ==
  ASSUME IInv, [Next]_vars, NEW w \in Processes
  PROVE  HeldStep(w)
  <1>1. ASSUME NEW u \in Processes, NEW l, NEW j, Go(u, l, j),
               l \in {"idle", "read", "insert", "selected", "locked"}
        PROVE  HeldStep(w)
    BY <1>1, GoElsewhere
  <1>2. ASSUME UNCHANGED <<pc, job>> PROVE HeldStep(w)
    BY <1>2 DEF HeldStep
  <1>3. ASSUME NEW u \in Savers, Save(u) PROVE HeldStep(w)
    BY <1>1, <1>3 DEF Save, SaveRead, RestoreRead, SaveBegin, SaveInsert, SaveConflict,
                      Done, Processes
  <1>4. ASSUME NEW u \in Processes, GiveUp(u) PROVE HeldStep(w)
    BY <1>1, <1>4 DEF GiveUp, Done
  <1>5. ASSUME NEW u \in Publishers, Publish(u) PROVE HeldStep(w)
    BY <1>1, <1>5 DEF Publish, PublishSelect, PublishLock, PublishCommit, PublishAbort,
                      Done, Processes
  <1>6. ASSUME NEW c \in Contents, DirectSync(c) PROVE HeldStep(w)
    BY <1>2, <1>6 DEF DirectSync
  <1>9. ASSUME NEW v, RevertToCheckpoint(v) PROVE HeldStep(w)
    BY <1>2, <1>9 DEF RevertToCheckpoint
  <1>7. CASE Next
    BY <1>3, <1>4, <1>5, <1>6, <1>7, <1>9, BatchHeldStep DEF Next, Processes
  <1>8. CASE UNCHANGED vars
    BY <1>2, <1>8 DEF vars
  <1> QED
    BY <1>7, <1>8

\* What a step does to what a saver is about to insert: it keeps it, drops it, or
\* computes it from the newest version.
SaveStep(w) ==
    \/ ~Saves(w)'
    \/ /\ Saves(w) /\ job'[w].target = job[w].target
       /\ job'[w].patch = job[w].patch /\ job'[w].content = job[w].content
    \/ /\ rows' = rows /\ rows[Tip].snapshot # Null
       /\ job'[w].target = Tip /\ job'[w].content \in Contents
       /\ job'[w].patch = Diff(rows[Tip].snapshot, job'[w].content)

\* A step that leaves its process with nothing to insert.
LEMMA GoSilent ==
  ASSUME IInv, NEW w \in Processes, NEW u \in Processes, NEW l, NEW j, Go(u, l, j),
         l \notin {"read", "insert"} \/ j.patch = Null
  PROVE  SaveStep(w)
  <1>1. CASE w = u
    BY <1>1, GoEffect DEF SaveStep, Saves
  <1>2. CASE w # u
    <2>1. pc'[w] = pc[w] /\ job'[w] = job[w]
      BY <1>2, GoEffect
    <2> QED
      BY <2>1 DEF SaveStep, Saves
  <1> QED
    BY <1>1, <1>2

LEMMA SaveSaveStep ==
  ASSUME IInv, NEW w \in Processes, NEW u \in Savers, Save(u)
  PROVE  SaveStep(w)
  <1> USE DEF Processes
  <1>1. \A l, j : Go(u, l, j) => /\ pc'[u] = l /\ job'[u] = j
                                 /\ w # u => pc'[w] = pc[w] /\ job'[w] = job[w]
    BY GoEffect
  <1>2. CASE w # u
    <2>1. \E l, j : Go(u, l, j)
      BY DEF Save, SaveRead, RestoreRead, SaveBegin, SaveInsert, SaveConflict, Done
    <2> QED
      BY <1>1, <1>2, <2>1 DEF SaveStep, Saves
  <1>3. ASSUME w = u, NEW c \in Contents, SaveRead(u, c) PROVE SaveStep(w)
    <2> DEFINE s == rows[Tip].snapshot
               q == IF s = Null THEN Null ELSE Diff(s, c)
               n == Compactable(Tip, q)
               j == [NoJob EXCEPT !.content = c, !.target = Tip, !.patch = q, !.nulls = n]
    <2>1. pc'[u] = "read" /\ job'[u] = j /\ rows' = rows
      BY <1>1, <1>3 DEF SaveRead
    <2>2. j.content = c /\ j.target = Tip /\ j.patch = q
      BY DEF NoJob
    <2> HIDE DEF j
    <2> QED
      BY <1>3, <2>1, <2>2 DEF SaveStep, Saves
  <1>4. ASSUME w = u, NEW v, RestoreRead(u, v) PROVE SaveStep(w)
    <2> DEFINE j == [NoJob EXCEPT !.content = Replay[v]]
    <2>1. Go(u, "read", j)
      BY <1>4 DEF RestoreRead
    <2>2. j.patch = Null
      BY DEF NoJob
    <2> HIDE DEF j
    <2> QED
      BY <2>1, <2>2, GoSilent
  <1>5. ASSUME w = u, SaveBegin(u) PROVE SaveStep(w)
    <2> DEFINE i == job[u]
               b == i.nulls /\ rows[i.target].published
               j == [i EXCEPT !.version = Tip + 1, !.wasPublished = b]
    <2>1. pc'[u] = "insert" /\ job'[u] = j /\ pc[u] = "read"
      BY <1>1, <1>5 DEF SaveBegin
    <2>2. i \in Job
      BY DEF IInv, TypeOK
    <2> HIDE DEF i, b
    <2>3. j.target = i.target /\ j.patch = i.patch /\ j.content = i.content
      BY <2>2 DEF Job
    <2> HIDE DEF j
    <2> QED
      BY <1>5, <2>1, <2>3 DEF SaveStep, Saves, i
  <1>6. ASSUME SaveInsert(u) \/ SaveConflict(u) PROVE SaveStep(w)
    BY <1>6, GoSilent DEF SaveInsert, SaveConflict, Done
  <1> QED
    BY <1>2, <1>3, <1>4, <1>5, <1>6 DEF Save

LEMMA SaveSteps ==
  ASSUME IInv, [Next]_vars, NEW w \in Processes
  PROVE  SaveStep(w)
  <1>1. ASSUME NEW u \in Processes, NEW l, NEW j, Go(u, l, j), l \notin {"read", "insert"}
        PROVE  SaveStep(w)
    BY <1>1, GoSilent
  <1>2. ASSUME UNCHANGED <<pc, job>> PROVE SaveStep(w)
    BY <1>2 DEF SaveStep, Saves
  <1>3. ASSUME NEW u \in Batchers, Batch(u) PROVE SaveStep(w)
    <2> u \in Processes
      BY DEF Processes
    <2>1. ASSUME NEW c \in Contents, BatchInsert(u, c) PROVE SaveStep(w)
      BY <1>1, <2>1 DEF BatchInsert
    <2>2. ASSUME BatchFetch(u) PROVE SaveStep(w)
      BY <1>1, <2>2 DEF BatchFetch
    <2>3. ASSUME BatchBegin(u) PROVE SaveStep(w)
      BY <1>1, <2>3 DEF BatchBegin
    <2>4. ASSUME BatchCompact(u) PROVE SaveStep(w)
      BY <1>1, <2>4 DEF BatchCompact, Done
    <2> QED
      BY <1>3, <2>1, <2>2, <2>3, <2>4 DEF Batch
  <1>4. ASSUME NEW u \in Processes, GiveUp(u) PROVE SaveStep(w)
    BY <1>1, <1>4 DEF GiveUp, Done
  <1>5. ASSUME NEW u \in Publishers, Publish(u) PROVE SaveStep(w)
    BY <1>1, <1>5 DEF Publish, PublishSelect, PublishLock, PublishCommit, PublishAbort,
                      Done, Processes
  <1>6. ASSUME NEW c \in Contents, DirectSync(c) PROVE SaveStep(w)
    BY <1>2, <1>6 DEF DirectSync
  <1>7. ASSUME NEW v, RevertToCheckpoint(v) PROVE SaveStep(w)
    BY <1>2, <1>7 DEF RevertToCheckpoint
  <1>8. CASE Next
    BY <1>3, <1>4, <1>5, <1>6, <1>7, <1>8, SaveSaveStep DEF Next, Processes
  <1>9. CASE UNCHANGED vars
    BY <1>2, <1>9 DEF vars
  <1> QED
    BY <1>8, <1>9

-----------------------------------------------------------------------------
\* The chains.

\* A patch a consumer computes is one, and stays one until it is stored.
LEMMA PatchHeldStep ==
  ASSUME IInv, NEW w \in Processes, PatchHeld(w), HeldStep(w)
  PROVE  PatchHeld(w)'
  <1>1. ASSUME pc[w] = "inserted", rows[job[w].version - 1].snapshot # Null
        PROVE  Diff(rows[job[w].version - 1].snapshot, job[w].content) # Null
    <2>1. job[w].content \in Contents /\ job[w].version \in 2 .. Tip
      BY <1>1 DEF IInv, TypeOK, JobsOK, JobOK, Job
    <2>2. job[w].version - 1 \in Versions
      BY <2>1, TipVersion DEF Tip, Versions
    <2>3. rows[job[w].version - 1].snapshot \in Contents
      BY <1>1, <2>2, TipVersion DEF Row
    <2> QED
      BY <2>1, <2>3, DiffType, NullFresh
  <1> QED
    BY <1>1 DEF HeldStep, PatchHeld, Holds

LEMMA ChainStep ==
  ASSUME Reverters = {}, IInv, Grown, ChainInv, \A w \in Processes : HeldStep(w)
  PROVE  ChainInv'
  <1>1. Len(rows) \in Nat /\ Len(rows) >= 1 /\ \A v \in Versions : rows[v] \in Row
    BY TipVersion DEF IInv, TypeOK
  <1>2. Versions \subseteq Versions'
    BY <1>1 DEF Grown, Versions
  <1>3. \A w \in Processes : Holds(w) => job[w].version \in 2 .. Len(rows)
    BY DEF Holds, IInv, JobsOK, JobOK, Tip
  <1>4. \A w \in Processes : job[w] \in Job
    BY DEF IInv, TypeOK
  <1>5. ASSUME NEW v \in Versions' PROVE Chained(v)'
    <2>1. CASE v \in Versions
      <3>1. \/ rows'[v].patch = rows[v].patch
            \/ v # 1 /\ rows'[v].patch # Null
        <4>1. ASSUME NEW w \in Batchers, pc[w] = "compact", v = job[w].version,
                     rows'[v].patch = job[w].patch
              PROVE  v # 1 /\ rows'[v].patch # Null
          <5>1. w \in Processes
            BY DEF Processes
          <5>2. v \in 2 .. Len(rows) /\ job[w].patch # Null
            BY <1>3, <4>1, <5>1 DEF ChainInv, PatchHeld, Holds
          <5> QED
            BY <4>1, <5>2
        <4> QED
          BY <2>1, <4>1 DEF Grown
      <3>2. rows'[v].snapshot = Null => rows[v].patch # Null
        BY <2>1, NullFresh DEF Grown, ChainInv, Chained
      <3> QED
        BY <2>1, <3>1, <3>2 DEF ChainInv, Chained
    <2>2. CASE v \notin Versions
      <3>1. rows'[v].snapshot # Null
        BY <2>2 DEF Grown, NewRow
      <3>2. v # 1
        BY <1>1, <2>2 DEF Versions
      <3> QED
        BY <3>1, <3>2 DEF Chained
    <2> QED
      BY <2>1, <2>2
  <1>6. \A w \in Processes : PatchHeld(w)'
    BY PatchHeldStep DEF ChainInv
  <1> QED
    BY <1>5, <1>6 DEF ChainInv

\* At every moment each nulled row has a patch, and each patch that a consumer
\* carries to its UPDATE is one: compaction of saves and batches never cuts a chain.
THEOREM ChainsAreWhole ==
  ASSUME Reverters = {}
  PROVE  Spec => []ChainInv
  <1>1. Init => ChainInv
    BY NullFresh DEF Init, ChainInv, Chained, PatchHeld, Versions, FullRow
  <1>2. IInv /\ ChainInv /\ [Next]_vars => ChainInv'
    BY NextGrows, HeldSteps, ChainStep
  <1> QED
    BY <1>1, <1>2, Invariance, PTL DEF Spec

\* Where no bulk checkpoint revert runs, replayVersionChain rebuilds every version,
\* whatever savers, consumers, sessions and publishers do and however many they are.
THEOREM VersionsAreRebuildable ==
  ASSUME Reverters = {}
  PROVE  Spec => []Rebuildable
  <1>1. IInv /\ ChainInv => Rebuildable
    BY ChainsEnd, NullFresh DEF IInv, ChainInv, Rebuildable
  <1> QED
    BY <1>1, ChainsAreWhole, Invariance, PTL

-----------------------------------------------------------------------------
\* What the chains lead to.

\* A version that replay reads has a snapshot or a patch.
LEMMA ReplayNeeds ==
  ASSUME IInv, NEW v \in Versions, Replay[v] \in Contents
  PROVE  rows[v].snapshot # Null \/ rows[v].patch # Null
  <1>1. v \in 0 .. Len(rows) /\ v # 0 /\ Len(rows) \in Nat
    BY TipVersion DEF Versions
  <1>2. Replay[v] = Link(rows, v, Replay[v - 1])
    BY <1>1, ReplayStep, ReplayIs
  <1> QED
    BY <1>1, <1>2, NullFresh DEF Link

\* A row breaks the chain now if it did before, and no row becomes full again.
LEMMA RowsKeepShape ==
  ASSUME IInv, Grown, \A w \in Processes : HeldOK(w), NEW v \in Versions
  PROVE  (Good(v)' <=> Good(v)) /\ (Full(v)' => Full(v))
  <1>1. rows[v] \in Row
    BY TipVersion
  <1>2. ASSUME NEW w \in Batchers, pc[w] = "compact", v = job[w].version,
               rows'[v].patch = job[w].patch, rows'[v].from = job[w].target
        PROVE  Good(v) /\ Direct(v)' /\ rows'[v].patch # Null
    <2>1. w \in Processes
      BY DEF Processes
    <2>2. v \in 2 .. Tip /\ job[w].target = v - 1
      BY <1>2, <2>1 DEF IInv, JobsOK, JobOK
    <2>3. job[w].patch # Null /\ Good(v)
      BY <1>2, <2>1 DEF HeldOK, PatchHeld, HeldByBatch
    <2>4. v > 1
      BY <2>2, TipVersion
    <2> QED
      BY <1>2, <2>2, <2>3, <2>4 DEF Direct
  <1>3. ASSUME rows'[v].patch = rows[v].patch, rows'[v].from = rows[v].from
        PROVE  (Full(v)' <=> Full(v)) /\ (Direct(v)' <=> Direct(v))
    <2>1. Direct(v)' <=> Direct(v)
      BY <1>3 DEF Direct
    <2>2. Full(v)' <=> Full(v)
      <3>1. CASE rows'[v].snapshot = rows[v].snapshot
        BY <1>3, <3>1 DEF Full
      <3>2. CASE rows'[v].snapshot = Null /\ rows[v].patch # Null
        BY <1>3, <3>2 DEF Full
      <3>3. CASE rows'[v].snapshot = Replay[v] /\ Replay[v] \in Contents
        BY <1>3, <3>3, ReplayNeeds, NullFresh DEF Full
      <3> QED
        BY <3>1, <3>2, <3>3 DEF Grown
    <2> QED
      BY <2>1, <2>2
  <1>4. CASE rows'[v].patch = rows[v].patch /\ rows'[v].from = rows[v].from
    BY <1>3, <1>4 DEF Good
  <1>5. CASE ~(rows'[v].patch = rows[v].patch /\ rows'[v].from = rows[v].from)
    <2>1. Good(v) /\ Direct(v)' /\ rows'[v].patch # Null
      BY <1>2, <1>5 DEF Grown
    <2>2. ~Full(v)'
      BY <2>1 DEF Full
    <2> QED
      BY <2>1, <2>2 DEF Good
  <1> QED
    BY <1>4, <1>5

\* So no chain becomes straight that was not.
LEMMA StraightKept ==
  ASSUME IInv, Grown, \A w \in Processes : HeldOK(w), NEW v \in Versions, Straight(v)'
  PROVE  Straight(v)
  <1>1. \A u \in Versions : (Good(u)' => Good(u)) /\ (Full(u)' => Full(u))
    BY RowsKeepShape
  <1>2. \A u \in 1 .. v : u \in Versions /\ u \in u .. v /\ \A x \in u .. v : x \in Versions
    BY TipVersion DEF Versions
  <1> SUFFICES ASSUME NEW u \in 1 .. v, ~Direct(u) PROVE \E x \in u .. v : Full(x)
    BY DEF Straight
  <1>3. CASE Direct(u)'
    BY <1>1, <1>2, <1>3 DEF Good
  <1>4. CASE ~Direct(u)'
    <2>1. \E x \in u .. v : Full(x)'
      BY <1>4 DEF Straight
    <2> QED
      BY <1>1, <1>2, <2>1
  <1> QED
    BY <1>3, <1>4

\* The rows.
LEMMA FaithfulKept ==
  ASSUME IInv, Grown, FaithInv, NEW v \in Versions
  PROVE  Faithful(v)'
  <1>1. /\ v \in Nat /\ (v > 1 => v - 1 \in Versions)
        /\ \A u \in Versions : rows'[u].content = rows[u].content
    BY TipVersion DEF Versions, Grown
  <1>2. \A u \in Versions : Straight(u)' => Straight(u)
    BY StraightKept DEF FaithInv
  <1>3. ASSUME rows'[v].snapshot # Null, Straight(v)'
        PROVE  rows'[v].snapshot = rows'[v].content
    <2>1. Straight(v) /\ rows'[v].content = rows[v].content
      BY <1>1, <1>2, <1>3
    <2>2. Replay[v] = rows[v].content
      BY <2>1, ChainsFaithful DEF IInv, FaithInv
    <2>3. rows[v].snapshot # Null => rows[v].snapshot = rows[v].content
      BY <2>1 DEF FaithInv, Faithful
    <2> QED
      BY <1>3, <2>1, <2>2, <2>3 DEF Grown
  <1>4. ASSUME Direct(v)', Straight(v - 1)'
        PROVE  ApplyPatch(rows'[v - 1].content, rows'[v].patch) = rows'[v].content
    <2>1. v > 1
      BY <1>4 DEF Direct
    <2>2. /\ Straight(v - 1) /\ rows'[v - 1].content = rows[v - 1].content
          /\ rows'[v].content = rows[v].content
      BY <1>1, <1>2, <1>4, <2>1
    <2>3. CASE rows'[v].patch = rows[v].patch /\ rows'[v].from = rows[v].from
      <3>1. Direct(v)
        BY <1>4, <2>3 DEF Direct
      <3> QED
        BY <2>2, <2>3, <3>1 DEF FaithInv, Faithful
    <2>4. ASSUME NEW w \in Batchers, pc[w] = "compact", v = job[w].version,
                 rows'[v].patch = job[w].patch
          PROVE  ApplyPatch(rows'[v - 1].content, rows'[v].patch) = rows'[v].content
      <3>1. HeldByBatch(w)
        BY DEF FaithInv, HeldOK, Processes
      <3>2. ApplyPatch(rows[v - 1].content, job[w].patch) = rows[v].content
        BY <2>2, <2>4, <3>1 DEF HeldByBatch
      <3> QED
        BY <2>2, <2>4, <3>2
    <2> QED
      BY <2>3, <2>4 DEF Grown
  <1> QED
    BY <1>3, <1>4 DEF Faithful

LEMMA FaithfulNew ==
  ASSUME IInv, Grown, FaithInv, NEW v \in Versions', v \notin Versions
  PROVE  Faithful(v)'
  <1>1. NewRow(rows'[v])
    BY DEF Grown
  <1>2. ASSUME Direct(v)', Straight(v - 1)'
        PROVE  ApplyPatch(rows'[v - 1].content, rows'[v].patch) = rows'[v].content
    <2>1. v > 1 /\ rows'[v].patch # Null /\ rows'[v].from = v - 1
      BY <1>2 DEF Direct
    <2>2. PICK w \in Savers : /\ pc[w] = "insert" /\ rows'[v].content = job[w].content
                              /\ rows'[v].patch = job[w].patch /\ job[w].target = v - 1
      BY <1>1, <2>1 DEF NewRow
    <2>3. HeldBySave(w) /\ Saves(w)
      BY <2>1, <2>2 DEF FaithInv, HeldOK, Processes, Saves
    <2>4. v - 1 \in Versions
      BY <2>2, <2>3 DEF HeldBySave
    <2>5. Straight(v - 1)
      BY <1>2, <2>4, StraightKept DEF FaithInv
    <2>6. ApplyPatch(rows[v - 1].content, job[w].patch) = job[w].content
      BY <2>2, <2>3, <2>5 DEF HeldBySave
    <2> QED
      BY <2>2, <2>4, <2>6 DEF Grown
  <1>3. rows'[v].snapshot # Null => rows'[v].snapshot = rows'[v].content
    BY <1>1 DEF NewRow
  <1> QED
    BY <1>2, <1>3 DEF Faithful

\* What a consumer holds.
LEMMA HeldByBatchStep ==
  ASSUME IInv, Grown, FaithInv, NEW w \in Processes, HeldStep(w)
  PROVE  HeldByBatch(w)'
  <1> SUFFICES ASSUME NEW x \in Versions', x = job'[w].version, Holds(w)'
               PROVE  /\ pc'[w] = "inserted" => job'[w].content = rows'[x].content
                      /\ pc'[w] \in {"fetched", "compact"} /\ Straight(x - 1)' =>
                            ApplyPatch(rows'[x - 1].content, job'[w].patch) = rows'[x].content
                      /\ Good(x)'
    BY DEF HeldByBatch, Holds
  <1>1. Len(rows) \in Nat /\ Len(rows) >= 1 /\ \A v \in Versions : rows[v] \in Row
    BY TipVersion DEF IInv, TypeOK
  <1>2. HeldByBatch(w)
    BY DEF FaithInv, HeldOK
  <1>3. ASSUME Holds(w), x = job[w].version
        PROVE  /\ x \in Versions /\ x - 1 \in Versions
               /\ rows'[x].content = rows[x].content
               /\ rows'[x - 1].content = rows[x - 1].content
               /\ Good(x)' /\ (Straight(x - 1)' => Straight(x - 1))
    <2>1. x \in 2 .. Len(rows)
      BY <1>3 DEF Holds, IInv, TypeOK, JobsOK, JobOK, Tip
    <2>2. x \in Versions /\ x - 1 \in Versions
      BY <1>1, <2>1 DEF Versions
    <2>3. Good(x)
      BY <1>2, <1>3, <2>2 DEF HeldByBatch, Holds
    <2>4. Good(x)'
      BY <2>2, <2>3, RowsKeepShape DEF FaithInv
    <2>5. Straight(x - 1)' => Straight(x - 1)
      BY <2>2, StraightKept DEF FaithInv
    <2> QED
      BY <2>2, <2>4, <2>5 DEF Grown
  <1>4. CASE pc'[w] = pc[w] /\ job'[w] = job[w]
    <2>1. Holds(w) /\ x = job[w].version
      BY <1>4 DEF Holds
    <2> QED
      BY <1>2, <1>3, <1>4, <2>1 DEF HeldByBatch
  <1>5. CASE /\ pc'[w] = "inserted" /\ job'[w].version = Tip + 1
             /\ job'[w].content \in Contents
             /\ rows' = Append(rows, FullRow(job'[w].content))
    <2> DEFINE c == job'[w].content
    <2>1. rows \in Seq(Row) /\ Len(rows) \in Nat
      BY TipVersion
    <2>2. rows'[x] = FullRow(c)
      BY <1>5, <2>1 DEF Tip
    <2>3. FullRow(c).content = c /\ FullRow(c).snapshot = c /\ FullRow(c).patch = Null
      BY DEF FullRow
    <2>4. c # Null
      BY <1>5, NullFresh
    <2> HIDE DEF c
    <2>5. rows'[x].content = c /\ rows'[x].patch = Null /\ rows'[x].snapshot # Null
      BY <2>2, <2>3, <2>4
    <2>6. Good(x)'
      BY <2>5 DEF Good, Full
    <2> QED
      BY <1>5, <2>5, <2>6 DEF c
  <1>6. CASE /\ pc[w] = "inserted" /\ rows[job[w].version - 1].snapshot # Null
             /\ job'[w].patch = Diff(rows[job[w].version - 1].snapshot, job[w].content)
             /\ pc'[w] = "fetched" /\ job'[w].version = job[w].version /\ rows' = rows
    <2>1. x = job[w].version /\ Holds(w)
      BY <1>6 DEF Holds
    <2>2. /\ x \in Versions /\ x - 1 \in Versions /\ Good(x)'
          /\ Straight(x - 1)' => Straight(x - 1)
      BY <1>3, <2>1
    <2>3. ASSUME Straight(x - 1)
          PROVE  ApplyPatch(rows[x - 1].content, job'[w].patch) = rows[x].content
      <3>1. rows[x - 1].snapshot = rows[x - 1].content
        BY <1>6, <2>1, <2>2, <2>3 DEF FaithInv, Faithful
      <3>2. job[w].content = rows[x].content
        BY <1>2, <1>6, <2>1, <2>2 DEF HeldByBatch
      <3>3. rows[x - 1].content \in Contents /\ rows[x].content \in Contents
        BY <1>1, <2>2 DEF Row
      <3> QED
        BY <1>6, <2>1, <3>1, <3>2, <3>3, DiffApplies
    <2> QED
      BY <1>6, <2>2, <2>3
  <1>7. CASE /\ pc[w] = "fetched" /\ pc'[w] = "compact" /\ rows' = rows
             /\ job'[w].version = job[w].version /\ job'[w].patch = job[w].patch
    <2>1. x = job[w].version /\ Holds(w)
      BY <1>7 DEF Holds
    <2> QED
      BY <1>2, <1>3, <1>7, <2>1 DEF HeldByBatch
  <1> QED
    BY <1>4, <1>5, <1>6, <1>7 DEF HeldStep

\* What a saver holds.
LEMMA HeldBySaveStep ==
  ASSUME IInv, Grown, FaithInv, NEW w \in Processes, SaveStep(w)
  PROVE  HeldBySave(w)'
  <1> SUFFICES ASSUME Saves(w)'
               PROVE  /\ job'[w].target \in Versions'
                      /\ \A t \in Versions' : t = job'[w].target /\ Straight(t)' =>
                            ApplyPatch(rows'[t].content, job'[w].patch) = job'[w].content
    BY DEF HeldBySave
  <1>1. HeldBySave(w)
    BY DEF FaithInv, HeldOK
  <1>2. \A v \in Versions : /\ v \in Versions' /\ rows'[v].content = rows[v].content
                            /\ Straight(v)' => Straight(v)
    <2>1. Versions \subseteq Versions'
      BY TipVersion DEF Versions, Grown
    <2> QED
      BY <2>1, StraightKept DEF FaithInv, Grown
  <1>3. CASE /\ Saves(w) /\ job'[w].target = job[w].target
             /\ job'[w].patch = job[w].patch /\ job'[w].content = job[w].content
    <2>1. /\ job[w].target \in Versions
          /\ \A t \in Versions : t = job[w].target /\ Straight(t) =>
                ApplyPatch(rows[t].content, job[w].patch) = job[w].content
      BY <1>1, <1>3 DEF HeldBySave
    <2> QED
      BY <1>2, <1>3, <2>1
  <1>4. CASE /\ rows' = rows /\ rows[Tip].snapshot # Null
             /\ job'[w].target = Tip /\ job'[w].content \in Contents
             /\ job'[w].patch = Diff(rows[Tip].snapshot, job'[w].content)
    <2>1. Tip \in Versions
      BY TipVersion
    <2>2. ASSUME NEW t \in Versions, t = Tip, Straight(t)
          PROVE  ApplyPatch(rows[t].content, job'[w].patch) = job'[w].content
      <3>1. rows[t].snapshot = rows[t].content
        BY <1>4, <2>2 DEF FaithInv, Faithful
      <3>2. rows[t].content \in Contents
        BY TipVersion DEF Row
      <3> QED
        BY <1>4, <2>2, <3>1, <3>2, DiffApplies
    <2> QED
      BY <1>2, <1>4, <2>1, <2>2
  <1> QED
    BY <1>3, <1>4 DEF SaveStep

LEMMA FaithStep ==
  ASSUME IInv, [Next]_vars, FaithInv
  PROVE  FaithInv'
  <1>1. Grown
    BY NextGrows
  <1>2. ASSUME NEW v \in Versions' PROVE Faithful(v)'
    BY <1>1, FaithfulKept, FaithfulNew
  <1>3. ASSUME NEW w \in Processes PROVE HeldOK(w)'
    <2>1. HeldStep(w) /\ SaveStep(w)
      BY HeldSteps, SaveSteps
    <2>2. PatchHeld(w)'
      BY <2>1, PatchHeldStep DEF FaithInv, HeldOK
    <2> QED
      BY <1>1, <2>1, <2>2, HeldByBatchStep, HeldBySaveStep DEF HeldOK
  <1> QED
    BY <1>2, <1>3 DEF FaithInv

\* Where the chain is straight, what the table holds leads to what was written, and
\* so do the patch a consumer computed from the predecessor by number, whatever was
\* inserted since, and the patch a saver computed from the version it read.
THEOREM ChainsAreFaithful == Spec => []FaithInv
  <1>1. Init => FaithInv
    <2> SUFFICES ASSUME Init PROVE FaithInv
      OBVIOUS
    <2>1. PICK c \in Contents : rows = <<FullRow(c)>>
      BY DEF Init
    <2>2. Versions = {1} /\ rows[1].snapshot = rows[1].content
      BY <2>1 DEF Versions, FullRow
    <2>3. ~Direct(1)
      BY DEF Direct
    <2>4. \A v \in Versions : Faithful(v)
      BY <2>2, <2>3 DEF Faithful
    <2>5. \A w \in Processes : HeldOK(w)
      BY DEF Init, HeldOK, PatchHeld, HeldByBatch, HeldBySave, Saves
    <2> QED
      BY <2>4, <2>5 DEF FaithInv
  <1>2. IInv /\ FaithInv /\ [Next]_vars => FaithInv'
    BY FaithStep
  <1> QED
    BY <1>1, <1>2, Invariance, PTL DEF Spec

\* Replaying a version gives the content that was written as that version, with
\* any number of savers, consumers, sessions, publishers and reverters, unless on
\* the way up to it a patch was computed from another version than the one below.
THEOREM ReplayIsFaithful == Spec => []ReplayFaithful
  <1>1. IInv /\ FaithInv => ReplayFaithful
    BY ChainsFaithful DEF IInv, FaithInv, ReplayFaithful
  <1> QED
    BY <1>1, ChainsAreFaithful, Invariance, PTL

-----------------------------------------------------------------------------
\* The history. The contents as they were written are what replay gives of the
\* readable versions, so a step of the table appends one of them or leaves the
\* history alone.

Written(V) == [v \in V |-> rows[v].content]

LEMMA AppendIs ==
  ASSUME NEW S, NEW s \in Seq(S), NEW e \in S
  PROVE  Append(s, e) = [i \in 1 .. Len(s) + 1 |-> IF i = Len(s) + 1 THEN e ELSE s[i]]
  <1> DEFINE t == [i \in 1 .. Len(s) + 1 |-> IF i = Len(s) + 1 THEN e ELSE s[i]]
  <1>1. Len(s) \in Nat
    OBVIOUS
  <1>2. t \in Seq(S) /\ Len(t) = Len(s) + 1
    BY <1>1
  <1>3. Append(s, e) \in Seq(S) /\ Len(Append(s, e)) = Len(s) + 1
    OBVIOUS
  <1>4. \A i \in 1 .. Len(s) + 1 : Append(s, e)[i] = t[i]
    BY <1>1
  <1> HIDE DEF t
  <1>5. Append(s, e) = t
    BY <1>2, <1>3, <1>4, SeqEqual
  <1> QED
    BY <1>5 DEF t

\* Where no row breaks the chain, it is straight.
ReadsWritten == \A v \in Readable : Replay[v] = rows[v].content

LEMMA ReadableIsStraight ==
  ASSUME IInv, ReplayFaithful
  PROVE  ReadsWritten
  <1> SUFFICES ASSUME NEW v \in Readable PROVE Replay[v] = rows[v].content
    BY DEF ReadsWritten
  <1>1. v \in Versions /\ \A u \in 1 .. v : Full(u) \/ Direct(u)
    BY DEF Readable
  <1>2. \A u \in 1 .. v : u \in u .. v
    BY <1>1, TipVersion DEF Versions
  <1>3. Straight(v)
    BY <1>1, <1>2 DEF Straight
  <1> QED
    BY <1>1, <1>3 DEF ReplayFaithful

\* Up to the first row that breaks the chain, replay gives what was written.
THEOREM ReadableReadsWritten == Spec => []ReadsWritten
  <1>1. IInv /\ ReplayFaithful => ReadsWritten
    BY ReadableIsStraight
  <1> QED
    BY <1>1, Invariance, ReplayIsFaithful, PTL

LEMMA HistoryStep ==
  ASSUME IInv, [Next]_vars, FaithInv, ReadsWritten, ReadsWritten'
  PROVE  [History!Next]_([v \in Readable |-> Replay[v]])
  <1> DEFINE h == [v \in Readable |-> Replay[v]]
  <1>1. h = Written(Readable) /\ h' = Written(Readable)'
    BY DEF Written, ReadsWritten
  <1>3. Grown /\ Len(rows) \in Nat /\ Len(rows) >= 1 /\ \A v \in Versions : rows[v] \in Row
    BY NextGrows, TipVersion DEF IInv, TypeOK
  <1>4. \A v \in Versions : Good(v)' <=> Good(v)
    BY <1>3, RowsKeepShape DEF FaithInv
  <1>5. /\ Readable = {v \in Versions : \A u \in 1 .. v : Good(u)}
        /\ Readable' = {v \in Versions' : \A u \in 1 .. v : Good(u)'}
    BY DEF Readable, Good
  <1> DEFINE n == Len(rows) + 1
             c == rows'[n].content
  <1>6. Versions' = Versions \/ (Versions' = Versions \cup {n} /\ n \notin Versions)
    BY <1>3 DEF Grown, Versions
  <1>7. \A v \in Versions : \A u \in 1 .. v : u \in Versions
    BY <1>3 DEF Versions
  <1>8. CASE Readable' = Readable
    <2>1. \A v \in Readable : rows'[v].content = rows[v].content
      BY <1>3 DEF Readable, Grown
    <2> QED
      BY <1>1, <1>8, <2>1 DEF Written
  <1>9. CASE Readable' # Readable
    <2>1. \A v \in Versions : v \in Readable' <=> v \in Readable
      BY <1>4, <1>5, <1>6, <1>7
    <2>2. Versions' = Versions \cup {n} /\ n \notin Versions /\ n \in Readable'
      BY <1>5, <1>6, <1>9, <2>1
    <2>3. Readable = Versions /\ Readable' = Versions'
      <3>1. \A v \in Versions : v \in 1 .. n /\ \A u \in 1 .. v : u \in 1 .. n
        BY <1>3 DEF Versions
      <3>2. \A u \in 1 .. n : Good(u)'
        BY <1>5, <2>2
      <3>3. \A v \in Versions : v \in Readable'
        BY <1>5, <2>2, <3>1, <3>2
      <3> QED
        BY <1>5, <2>1, <2>2, <3>3
    <2>4. Len(rows') = n
      BY <1>3, <2>2 DEF Grown, Versions
    <2>5. c \in Contents
      BY <1>3, <2>2 DEF Grown, NewRow
    <2> HIDE DEF c
    <2>6. Written(Versions) \in Seq(Contents) /\ Len(Written(Versions)) = Len(rows)
      <3>1. \A v \in Versions : rows[v].content \in Contents
        BY <1>3 DEF Row
      <3> QED
        BY <1>3, <3>1 DEF Written, Versions
    <2>7. Written(Versions)' = [v \in 1 .. n |-> IF v = n THEN c ELSE Written(Versions)[v]]
      <3>1. Versions' = 1 .. n /\ Versions = 1 .. Len(rows)
        BY <2>4 DEF Versions
      <3>2. \A v \in 1 .. n : rows'[v].content = IF v = n THEN c ELSE rows[v].content
        BY <1>3, <3>1 DEF Grown, c
      <3> QED
        BY <1>3, <3>1, <3>2 DEF Written
    <2>8. Written(Versions)' = Append(Written(Versions), c)
      BY <2>5, <2>6, <2>7, AppendIs
    <2>9. h' = Append(h, c)
      BY <1>1, <2>3, <2>8
    <2> HIDE DEF h
    <2>10. \E d \in Contents : h' = Append(h, d)
      BY <2>5, <2>9
    <2> QED
      BY <2>10 DEF h, History!Next, History!Write
  <1> QED
    BY <1>8, <1>9

\* The table, whoever writes it, implements an append-only history of contents up to
\* the first row that breaks the chain: compaction and publishing are invisible to
\* the readers of what is below that row, and later writes never change it.
THEOREM HistoryIsImplemented == Spec => Refinement
  <1>1. Init /\ ReadsWritten => History!Init
    <2> SUFFICES ASSUME Init, ReadsWritten PROVE History!Init
      OBVIOUS
    <2>1. PICK c \in Contents : rows = <<FullRow(c)>>
      BY DEF Init
    <2>2. Versions = 1 .. 1 /\ rows[1].content = c /\ Full(1)
      BY <2>1, NullFresh DEF Versions, FullRow, Full
    <2>3. Readable = 1 .. 1
      BY <2>2 DEF Readable
    <2>4. [v \in Readable |-> Replay[v]] = [v \in 1 .. 1 |-> c]
      BY <2>2, <2>3 DEF ReadsWritten
    <2>5. [v \in Readable |-> Replay[v]] = <<c>>
      BY <2>4
    <2> QED
      BY <2>5 DEF History!Init
  <1>2. IInv /\ [Next]_vars /\ FaithInv /\ ReadsWritten /\ ReadsWritten'
           => [History!Next]_([v \in Readable |-> Replay[v]])
    BY HistoryStep
  <1> QED
    BY <1>1, <1>2, Invariance, ChainsAreFaithful, ReadableReadsWritten, PTL
       DEF Spec, Refinement, History!Spec

=============================================================================
