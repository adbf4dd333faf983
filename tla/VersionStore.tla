----------------------------- MODULE VersionStore -----------------------------
(***************************************************************************)
(* app.document_versions for one document on one branch.  A version is     *)
(* written with its full snapshot; compaction later nulls the snapshot of  *)
(* a version that holds a patch, and a reader rebuilds it by replaying     *)
(* patches from the nearest version below that still has a snapshot.       *)
(*                                                                         *)
(* The writers run in Worker isolates against Postgres at READ COMMITTED:  *)
(* between two statements of one writer any other may run, and a statement *)
(* that waits for a row lock keeps the view of the other tables it took    *)
(* when it began.                                                          *)
(*   Savers      createDocumentVersion (API saves, restores, HTTP sync)    *)
(*   Batchers    batchSyncToPostgres (the sync queue's consumer)           *)
(*   Sessions    PostgresSyncManager.executeDirectSync (Durable Objects)   *)
(*   Publishers  publishDocument's transaction                             *)
(*   Reverters   revertToCheckpoint, for three documents or more           *)
(***************************************************************************)
EXTENDS Integers, Sequences, FiniteSets

CONSTANTS
    Fields, Values,       \* a content gives each field a value
    Savers, Batchers, Sessions, Publishers, Reverters,
    RebaselineInterval,   \* every so many versions keep their snapshot
    MaxVersions,          \* bound: versions written
    Null

ASSUME VersionAssumption ==
    /\ RebaselineInterval \in Nat \ {0}
    /\ MaxVersions \in Nat \ {0}
    /\ Null \notin [Fields -> Values]
    /\ Null \notin UNION {[D -> Values] : D \in SUBSET Fields}
    /\ Savers \cap Batchers = {} /\ Savers \cap Publishers = {}
    /\ Batchers \cap Publishers = {}

Processes == Savers \cup Batchers \cup Publishers

Contents == [Fields -> Values]

\* A JSON patch: the fields it replaces, with their new values.
Patches == UNION {[D -> Values] : D \in SUBSET Fields}

Diff(a, b) == [f \in {g \in Fields : a[g] # b[g]} |-> b[f]]

ApplyPatch(c, p) == [f \in Fields |-> IF f \in DOMAIN p THEN p[f] ELSE c[f]]

VARIABLES
    rows,  \* the table, by version number
    pc,    \* where each process is between its statements
    job    \* what each process read and has not written yet

vars == <<rows, pc, job>>

\* Two fields are not columns: content is what the writer wrote, whatever the
\* columns say today, and from is the version its patch was computed from.
Row == [content : Contents, snapshot : Contents \cup {Null},
        patch : Patches \cup {Null}, from : 0 .. MaxVersions,
        pinned : BOOLEAN, published : BOOLEAN]

\* content     what is being written, or the snapshot a publish read
\* target      the version the patch was computed from, whose snapshot may be
\*             nulled, or that is published
\* version     the number the statement will insert or has inserted
\* patch       the forward patch
\* nulls       the code decided to null target
\* wasPublished  target had a publish checkpoint when the statement began
Job == [content : Contents \cup {Null}, target : 0 .. MaxVersions,
        version : 0 .. MaxVersions, patch : Patches \cup {Null},
        nulls : BOOLEAN, wasPublished : BOOLEAN]

NoJob == [content |-> Null, target |-> 0, version |-> 0, patch |-> Null,
          nulls |-> FALSE, wasPublished |-> FALSE]

TypeOK ==
    /\ rows \in Seq(Row) /\ Len(rows) \in 1 .. MaxVersions
    /\ pc \in [Processes -> {"idle", "read", "insert", "inserted", "fetched",
                             "compact", "selected", "locked"}]
    /\ job \in [Processes -> Job]

-----------------------------------------------------------------------------

Versions == 1 .. Len(rows)
Tip == Len(rows)

\* Mutant: the snapshot is encoded twice.
FullRowEncoded(c) == [content |-> c, snapshot |-> <<c>>, patch |-> Null, from |-> 0,
                      pinned |-> FALSE, published |-> FALSE]

\* A row inserted by plain SQL: full snapshot, no patch.
FullRow(c) == [content |-> c, snapshot |-> c, patch |-> Null, from |-> 0,
               pinned |-> FALSE, published |-> FALSE]

Init ==
    /\ \E c \in Contents : rows = <<FullRow(c)>>
    /\ pc = [w \in Processes |-> "idle"]
    /\ job = [w \in Processes |-> NoJob]

\* replayVersionChain: the nearest snapshot at or below v, then the patches up
\* to v. Null when the chain is broken.
Replay ==
    LET at[v \in 0 .. Tip] ==
            IF v = 0 THEN Null
            ELSE IF rows[v].snapshot # Null THEN rows[v].snapshot
            ELSE IF rows[v].patch = Null \/ at[v - 1] = Null THEN Null
            ELSE ApplyPatch(at[v - 1], rows[v].patch)
    IN  at

\* A publish transaction holds the row it selected FOR UPDATE.
Locked(v) == \E p \in Publishers : pc[p] = "locked" /\ job[p].target = v

IsRebaselineVersion(v) == v % RebaselineInterval = 0

\* The test the code makes before it asks Postgres to null version v.
Compactable(v, patch) ==
    v > 1 /\ ~IsRebaselineVersion(v) /\ rows[v].patch # Null /\ patch # Null

\* Mutant: the statement trusts the checkpoint test it made when it began.
NullableStale(j) == j.nulls /\ rows[j.target].patch # Null /\ ~j.wasPublished

\* The WHERE clause of the nulling UPDATE. The row's own columns are rechecked
\* when a lock is released; the checkpoint tables are as the statement began.
Nullable(j) ==
    j.nulls /\ rows[j.target].patch # Null /\ ~rows[j.target].pinned /\ ~j.wasPublished

\* Mutant: the row is emptied, its patch included.
NulledWhole(j) ==
    [v \in Versions |-> IF Nullable(j) /\ v = j.target
                        THEN [rows[v] EXCEPT !.snapshot = Null, !.patch = Null] ELSE rows[v]]

\* The table after nulling.
Nulled(j) ==
    [v \in Versions |-> IF Nullable(j) /\ v = j.target
                        THEN [rows[v] EXCEPT !.snapshot = Null] ELSE rows[v]]

Go(w, label, j) == pc' = [pc EXCEPT ![w] = label] /\ job' = [job EXCEPT ![w] = j]

Done(w) == Go(w, "idle", NoJob)

-----------------------------------------------------------------------------
\* createDocumentVersion.

\* The read: the latest version, the duplicate check and the forward patch.
SaveRead(w, c) ==
    LET latest == rows[Tip]
        patch == IF latest.snapshot = Null THEN Null ELSE Diff(latest.snapshot, c)
    IN  /\ pc[w] = "idle"
        /\ latest.snapshot # c
        /\ Go(w, "read", [NoJob EXCEPT !.content = c, !.target = Tip, !.patch = patch,
                                       !.nulls = Compactable(Tip, patch)])
        /\ UNCHANGED rows

\* restoreDocumentVersion skips the duplicate check and compaction.
RestoreRead(w, v) ==
    /\ pc[w] = "idle"
    /\ Replay[v] \in Contents
    /\ Go(w, "read", [NoJob EXCEPT !.content = Replay[v]])
    /\ UNCHANGED rows

\* Mutant: the nulling is a statement of its own, ahead of the insert.
SaveBeginNulls(w) ==
    /\ pc[w] = "read"
    /\ Tip < MaxVersions
    /\ rows' = Nulled(job[w])
    /\ Go(w, "insert", [job[w] EXCEPT !.version = Tip + 1])

\* The statement begins: MAX(version_number) and the checkpoint test are read.
SaveBegin(w) ==
    /\ pc[w] = "read"
    /\ Tip < MaxVersions
    /\ Go(w, "insert", [job[w] EXCEPT
          !.version = Tip + 1,
          !.wasPublished = job[w].nulls /\ rows[job[w].target].published])
    /\ UNCHANGED rows

Unblocked(j) == j.nulls /\ ~j.wasPublished => ~Locked(j.target)

\* The statement completes, once the row it nulls is not locked.
SaveInsert(w) ==
    /\ pc[w] = "insert"
    /\ Unblocked(job[w])
    /\ job[w].version = Tip + 1
    /\ rows' = Append(Nulled(job[w]),
                      [FullRow(job[w].content) EXCEPT !.patch = job[w].patch,
                                                      !.from = job[w].target])
    /\ Done(w)

\* Another writer took the number: the statement rolls back and the caller is
\* given the latest version.
SaveConflict(w) ==
    /\ pc[w] = "insert"
    /\ job[w].version <= Tip
    /\ Done(w)
    /\ UNCHANGED rows

-----------------------------------------------------------------------------
\* batchSyncToPostgres.

\* The insert. A batch that loses its number is retried as a whole.
BatchInsert(w, c) ==
    /\ pc[w] = "idle"
    /\ Tip < MaxVersions
    /\ rows[Tip].snapshot # c
    /\ rows' = Append(rows, FullRow(c))
    /\ Go(w, "inserted", [NoJob EXCEPT !.content = c, !.version = Tip + 1])

\* Mutant: the predecessor is taken to be the latest other version.
BatchFetchLatest(w) ==
    LET j == job[w]
        prev == rows[IF Tip = j.version THEN Tip - 1 ELSE Tip]
    IN  /\ pc[w] = "inserted"
        /\ prev.snapshot # Null
        /\ prev.snapshot # j.content
        /\ LET patch == Diff(prev.snapshot, j.content)
           IN  Go(w, "fetched", [j EXCEPT !.target = j.version - 1, !.patch = patch,
                                          !.nulls = Compactable(j.version - 1, patch)])
        /\ UNCHANGED rows

\* The predecessor's row is read and the forward patch computed.
BatchFetch(w) ==
    LET j == job[w]
        prev == rows[j.version - 1]
    IN  /\ pc[w] = "inserted"
        /\ prev.snapshot # Null
        /\ prev.snapshot # j.content
        /\ LET patch == Diff(prev.snapshot, j.content)
           IN  Go(w, "fetched", [j EXCEPT !.target = j.version - 1, !.patch = patch,
                                          !.nulls = Compactable(j.version - 1, patch)])
        /\ UNCHANGED rows

BatchBegin(w) ==
    /\ pc[w] = "fetched"
    /\ Go(w, "compact", [job[w] EXCEPT !.wasPublished = rows[job[w].target].published])
    /\ UNCHANGED rows

\* One statement stores the patch on the new version and nulls its predecessor.
BatchCompact(w) ==
    /\ pc[w] = "compact"
    /\ Unblocked(job[w]) /\ ~Locked(job[w].version)
    /\ rows' = [Nulled(job[w]) EXCEPT
                    ![job[w].version] = [@ EXCEPT !.patch = job[w].patch,
                                                  !.from = job[w].target]]
    /\ Done(w)

\* The writer stops between statements: the request or the isolate dies, the
\* diff fails, or there is nothing to compact.
GiveUp(w) ==
    /\ pc[w] \in {"read", "inserted", "fetched"}
    /\ Done(w)
    /\ UNCHANGED rows

-----------------------------------------------------------------------------
\* executeDirectSync and revertToCheckpoint: single statements.

DirectSync(c) ==
    /\ Tip < MaxVersions
    /\ rows[Tip].snapshot # c
    /\ rows' = Append(rows, FullRow(c))
    /\ UNCHANGED <<pc, job>>

\* The bulk INSERT ... SELECT copies the snapshot column of the version the
\* checkpoint names, nulled or not.
RevertToCheckpoint(v) ==
    /\ Tip < MaxVersions
    /\ rows' = Append(rows, IF rows[v].snapshot # Null THEN FullRow(rows[v].snapshot)
                            ELSE [FullRow(rows[v].content) EXCEPT !.snapshot = Null])
    /\ UNCHANGED <<pc, job>>

-----------------------------------------------------------------------------
\* publishDocument, on main.

\* SELECT ... ORDER BY version_number DESC LIMIT 1 FOR UPDATE picks the tip of
\* its own view, then waits for the row; the row it gets is the current one.
PublishSelect(p) ==
    /\ pc[p] = "idle"
    /\ Go(p, "selected", [NoJob EXCEPT !.target = Tip])
    /\ UNCHANGED rows

PublishLock(p) ==
    /\ pc[p] = "selected"
    /\ ~Locked(job[p].target)
    /\ Go(p, "locked", [job[p] EXCEPT !.content = rows[job[p].target].snapshot])
    /\ UNCHANGED rows

\* COMMIT: a null snapshot is rebuilt and filled in, the row is stamped and the
\* checkpoint names it. Content that cannot be rebuilt is not published.
PublishCommit(p) ==
    LET v == job[p].target
        filled == IF job[p].content = Null THEN Replay[v] ELSE rows[v].snapshot
    IN  /\ pc[p] = "locked"
        /\ job[p].content = Null => Replay[v] \in Contents
        /\ rows' = [rows EXCEPT ![v] = [@ EXCEPT
                        !.snapshot = filled, !.pinned = TRUE, !.published = TRUE]]
        /\ Done(p)

PublishAbort(p) ==
    /\ pc[p] \in {"selected", "locked"}
    /\ Done(p)
    /\ UNCHANGED rows

-----------------------------------------------------------------------------

Save(w) ==
    \/ \E c \in Contents : SaveRead(w, c)
    \/ \E v \in Versions : RestoreRead(w, v)
    \/ SaveBegin(w) \/ SaveInsert(w) \/ SaveConflict(w)

Batch(w) ==
    \/ \E c \in Contents : BatchInsert(w, c)
    \/ BatchFetch(w) \/ BatchBegin(w) \/ BatchCompact(w)

Publish(p) ==
    PublishSelect(p) \/ PublishLock(p) \/ PublishCommit(p) \/ PublishAbort(p)

Next ==
    \/ \E w \in Savers : Save(w) \/ GiveUp(w)
    \/ \E w \in Batchers : Batch(w) \/ GiveUp(w)
    \/ \E s \in Sessions, c \in Contents : DirectSync(c)
    \/ \E p \in Publishers : Publish(p)
    \/ \E r \in Reverters, v \in Versions : RevertToCheckpoint(v)

Spec == Init /\ [][Next]_vars

-----------------------------------------------------------------------------
\* Properties.

\* Every version can be rebuilt, however writers, compaction and publishing
\* interleave: no nulled row is left without a chain of patches below it.
Rebuildable == \A v \in Versions : Replay[v] # Null

\* A full row, which no patch is needed to read; and a row whose patch was
\* computed from the version below it.
Full(v) == rows[v].patch = Null /\ rows[v].snapshot # Null
Direct(v) == v > 1 /\ rows[v].patch # Null /\ rows[v].from = v - 1

\* From the last full row up to v, every patch is direct.
Straight(v) == \A u \in 1 .. v : (\E x \in u .. v : Full(x)) \/ Direct(u)

\* Replaying a version gives what was written as that version, whoever compacts
\* or publishes meanwhile, unless a patch on the way up to it was computed from
\* another version than the one below: a save that another writer overtook
\* between its read and its insert, or the copy of a nulled row.
ReplayFaithful == \A v \in Versions : Straight(v) => Replay[v] = rows[v].content

\* Without that exception. The run that checks it shows the overtaken save.
ReplayAlwaysFaithful == \A v \in Versions : Replay[v] = rows[v].content

\* Published content is served from its own row, never through patches: no
\* compaction that raced the publish may null it afterwards.
PublishedServable == \A v \in Versions : rows[v].published => rows[v].snapshot # Null

\* The newest version always holds its snapshot: what sessions load on start
\* and what the next forward patch is computed from.
TipMaterialized == rows[Tip].snapshot # Null

\* When createDocumentVersion answers, the content it was given is in the
\* table: the caller marks its edits as saved on the strength of that answer.
SavedIsStored ==
    [][\A w \in Savers : pc[w] = "insert" /\ pc'[w] = "idle" =>
          \E v \in DOMAIN rows' : rows'[v].content = job[w].content]_vars

\* The table implements an append-only history of contents, compaction and
\* publishing being invisible to its readers, up to the first row that is neither
\* full nor direct; what is below that row still reads as it was written.
Readable == {v \in Versions : \A u \in 1 .. v : Full(u) \/ Direct(u)}

History == INSTANCE VersionHistory WITH history <- [v \in Readable |-> Replay[v]]
Refinement == History!Spec

=============================================================================
