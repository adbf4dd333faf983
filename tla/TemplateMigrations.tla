-------------------------- MODULE TemplateMigrations --------------------------
(***************************************************************************)
(* Pages are made from a template, a document with versions of its own,    *)
(* and remember in synced_version which version they carry.  A migration   *)
(* job takes the difference between two versions of the template to every  *)
(* page behind the later one: in batches, one transaction per page, while  *)
(* authors go on saving.  What it cannot merge it leaves for an operator,  *)
(* as a row of migration_conflicts; and a job can be rolled back to the    *)
(* checkpoint it began with.                                               *)
(*                                                                         *)
(* A snapshot gives each slot id its component, or none.  Where a slot     *)
(* sits in its list is left out, and with it the moves of a delta; so are  *)
(* pages without a synced_version and branches other than main, where the  *)
(* shared edge is written and no page is inherited.                        *)
(***************************************************************************)
EXTENDS Integers, Sequences, FiniteSets

CONSTANTS
    Pages,         \* document ids: numbers, for the order they are listed in
    Slots, Values, \* slot ids, and what a slot's component can be
    Absent,        \* a slot the snapshot does not have
    Tombstone,     \* the snapshot of a deleted page
    Unreadable,    \* the newest row has neither a snapshot nor a patch
    None,
    Jobs,
    BatchSize,
    RevertThreshold, \* documents from which revertToCheckpoint copies rows
    Overlapping,   \* whether, while a job runs, operators act and pages leave its listing
    MaxVersions,   \* bound: versions of the template
    MaxEvents      \* bound: what authors do, and what fails

Contents == [Slots -> Values \cup {Absent}]
Snapshots == Contents \cup {Tombstone, Unreadable}

ASSUME MigrationAssumption ==
    /\ Pages \subseteq Nat /\ IsFiniteSet(Pages)
    /\ Absent \notin Values /\ None \notin Snapshots
    /\ Tombstone \notin Contents /\ Unreadable \notin Contents \cup {Tombstone}
    /\ BatchSize \in Nat \ {0} /\ MaxVersions \in Nat \ {0}
    /\ RevertThreshold \in Nat /\ MaxEvents \in Nat
    /\ Overlapping \in BOOLEAN

VARIABLES
    template,   \* the versions of the template
    pages,      \* the newest version of each page, and its edge to the template
    jobs,       \* migration_jobs
    conflicts,  \* migration_conflicts, by job and page
    run,        \* processMigration, between its awaits
    rolling,    \* rollbackMigration, between its awaits
    events,     \* bound spent
    authored    \* history: the slots of a page that may differ from its template

vars == <<template, pages, jobs, conflicts, run, rolling, events, authored>>

VersionNumbers == 1 .. MaxVersions

\* base is the version a page's own edits are measured from.
Page == [status : {"none", "live", "archived"}, tip : Snapshots, base : Contents,
         synced : VersionNumbers]

\* before and authored are history: as they were when the checkpoint was taken.
Checkpoint == [template : VersionNumbers,
               tips : [Pages -> Contents \cup {Unreadable, None}],
               before : [Pages -> VersionNumbers], authored : [Pages -> SUBSET Slots]]

Job == [status : {"pending", "in_progress", "completed", "completed_with_conflicts", "failed"},
        from : VersionNumbers, to : VersionNumbers, checkpoint : Checkpoint]

\* read is what a resolution under way found as the page's newest version.
Conflict == [kind : {"structural", "prop"}, props : SUBSET Slots,
             resolution : {"open", "apply", "skip"}, read : Snapshots \cup {None}]

\* seen: the pages of the batch still to do, with the snapshots listed; unclean: those
\* of the batch left behind; read: what the transaction found as the newest version;
\* found: history, what was the newest version then; misled: history, whether a
\* commit's answer was lost.
Run == [at : {"off", "queued", "list", "pages", "apply"}, offset : Nat, unclean : Nat,
        conflicted : BOOLEAN, misled : BOOLEAN, seen : UNION {[D -> Snapshots] : D \in SUBSET Pages},
        read : Snapshots \cup {None}, found : Snapshots \cup {None}]

NoSeen == [d \in {} |-> Tombstone]

NoRun == [at |-> "off", offset |-> 0, unclean |-> 0, conflicted |-> FALSE,
          misled |-> FALSE, seen |-> NoSeen, read |-> None, found |-> None]

ASSUME NoneAssumption == None \notin Job \cup Conflict

\* Bookkeeping keeps to its types: a page's synced_version names a version of the
\* template, jobs count forward, and a run holds what its stage has read.
TypeOK ==
    /\ template \in Seq(Contents) /\ Len(template) \in VersionNumbers
    /\ pages \in [Pages -> Page]
    /\ jobs \in [Jobs -> Job \cup {None}]
    /\ conflicts \in [Jobs -> [Pages -> Conflict \cup {None}]]
    /\ run \in [Jobs -> Run]
    /\ rolling \in [Jobs -> {"no", "reverted", "done"}]
    /\ events \in 0 .. MaxEvents
    /\ authored \in [Pages -> SUBSET Slots]

-----------------------------------------------------------------------------
\* Snapshots and deltas.

Latest == Len(template)

Empty == [s \in Slots |-> Absent]

\* A tombstone has no slot, nor has what cannot be read.
Of(snapshot) == IF snapshot \in Contents THEN snapshot ELSE Empty

Added(from, to) == {s \in Slots : from[s] = Absent /\ to[s] # Absent}
Removed(from, to) == {s \in Slots : from[s] # Absent /\ to[s] = Absent}
Patched(from, to) == {s \in Slots : from[s] # Absent /\ to[s] # Absent /\ from[s] # to[s]}
Touched(from, to) == Added(from, to) \cup Removed(from, to)

\* A slot removed by the template goes, one it adds comes unless the page has it, and
\* one it changed is changed where the page still has the old component.
ApplyDelta(c, from, to) ==
    [s \in Slots |->
        IF \/ s \in Removed(from, to)
           \/ s \in Added(from, to) /\ c[s] = Absent
           \/ s \in Patched(from, to) /\ c[s] = from[s]
        THEN to[s] ELSE c[s]]

\* What a migration makes of a snapshot. A tombstone nothing is added to stays one.
Migrated(snapshot, from, to) ==
    LET c == ApplyDelta(Of(snapshot), from, to)
    IN IF c = Of(snapshot) THEN snapshot ELSE c

\* Mutant: the page is compared with the version patched to.
DivergedFromTarget(c, from, to) ==
    {s \in Patched(from, to) : c[s] = to[s] /\ c[s] # from[s]}

\* The patched slots on which a page disagrees with the version patched from.
Diverged(c, from, to) == {s \in Patched(from, to) : c[s] \notin {Absent, from[s]}}

\* The page's own structural edits and the template's touch the same slot.
Structural(c, base, from, to) == Touched(base, c) \cap Touched(from, to) # {}

\* createDocumentVersion with source 'migration': nothing is written when the
\* newest version says the same, and a version written is the next baseline.
WithMigration(page, snapshot) ==
    IF snapshot = page.tip THEN page
    ELSE [page EXCEPT !.tip = snapshot, !.base = Of(snapshot)]

From(j) == template[jobs[j].from]
To(j) == template[jobs[j].to]

-----------------------------------------------------------------------------
\* Authors.

Made(d) == pages[d].status = "live" /\ pages[d].tip # Tombstone
Readable(d) == pages[d].tip # Unreadable

Init ==
    \E c \in Contents, D \in SUBSET Pages :
        /\ template = <<c>>
        /\ pages = [d \in Pages |-> [status |-> IF d \in D THEN "live" ELSE "none",
                                     tip |-> c, base |-> c, synced |-> 1]]
        /\ jobs = [j \in Jobs |-> None]
        /\ conflicts = [j \in Jobs |-> [d \in Pages |-> None]]
        /\ run = [j \in Jobs |-> NoRun]
        /\ rolling = [j \in Jobs |-> "no"]
        /\ events = 0
        /\ authored = [d \in Pages |-> {}]

Event == events < MaxEvents /\ events' = events + 1

\* A save of the template.
EditTemplate(s, v) ==
    /\ Latest < MaxVersions /\ template[Latest][s] # v
    /\ Event
    /\ template' = Append(template, [template[Latest] EXCEPT ![s] = v])
    /\ UNCHANGED <<pages, jobs, conflicts, run, rolling, authored>>

Live(j) == run[j].at # "off"

\* No job runs and no resolution or rollback is under way.
Quiet ==
    \A j \in Jobs : /\ ~Live(j) /\ rolling[j] # "reverted"
                    /\ \A d \in Pages : conflicts[j][d] # None => conflicts[j][d].read = None

\* A page made from the template.
Create(d) ==
    /\ pages[d].status = "none"
    /\ Event
    /\ pages' = [pages EXCEPT ![d] = [status |-> "live", tip |-> template[Latest],
                                      base |-> template[Latest], synced |-> Latest]]
    /\ authored' = [authored EXCEPT ![d] = {}]
    /\ UNCHANGED <<template, jobs, conflicts, run, rolling>>

\* A page made at the path of a deleted one continues its versions, and its baseline
\* stays where it was.
Recreate(d) ==
    /\ pages[d].status = "live" /\ pages[d].tip = Tombstone /\ (Quiet \/ Overlapping)
    /\ Event
    /\ pages' = [pages EXCEPT ![d] = [@ EXCEPT !.tip = template[Latest], !.synced = Latest]]
    /\ authored' = [authored EXCEPT ![d] = {}]
    /\ UNCHANGED <<template, jobs, conflicts, run, rolling>>

Edit(d, s, v) ==
    /\ Made(d) /\ Readable(d) /\ pages[d].tip[s] # v
    /\ Event
    /\ pages' = [pages EXCEPT ![d].tip[s] = v]
    /\ authored' = [authored EXCEPT ![d] = @ \cup {s}]
    /\ UNCHANGED <<template, jobs, conflicts, run, rolling>>

\* A save through the API sends the whole content, and needs nothing of what was.
Rewrite(d, c) ==
    /\ Made(d) /\ ~Readable(d)
    /\ Event
    /\ pages' = [pages EXCEPT ![d].tip = c]
    /\ authored' = [authored EXCEPT ![d] = Slots]
    /\ UNCHANGED <<template, jobs, conflicts, run, rolling>>

\* A tombstone becomes the newest version. The edge to the template stays.
Delete(d) ==
    /\ Made(d)
    /\ Event
    /\ pages' = [pages EXCEPT ![d].tip = Tombstone]
    /\ authored' = [authored EXCEPT ![d] = Slots]
    /\ UNCHANGED <<template, jobs, conflicts, run, rolling>>

Archive(d) ==
    /\ pages[d].status = "live" /\ (Quiet \/ Overlapping)
    /\ Event
    /\ pages' = [pages EXCEPT ![d].status = "archived"]
    /\ UNCHANGED <<template, jobs, conflicts, run, rolling, authored>>

-----------------------------------------------------------------------------
\* triggerMigration and processMigration.

\* The checkpoint, in full, and the row of the job. A deleted page has no entry.
Trigger(j, from, to) ==
    /\ jobs[j] = None /\ (Quiet \/ Overlapping)
    /\ from < to /\ to <= Latest
    /\ jobs' = [jobs EXCEPT ![j] =
          [status |-> "pending", from |-> from, to |-> to,
           checkpoint |->
             [template |-> Latest,
              tips |-> [d \in Pages |-> IF pages[d].status = "none" \/ pages[d].tip = Tombstone
                                        THEN None ELSE pages[d].tip],
              before |-> [d \in Pages |-> pages[d].synced], authored |-> authored]]]
    /\ run' = [run EXCEPT ![j].at = "queued"]
    /\ UNCHANGED <<template, pages, conflicts, rolling, events, authored>>

Claim(j) ==
    /\ run[j].at = "queued" /\ jobs[j].status = "pending"
    /\ jobs' = [jobs EXCEPT ![j].status = "in_progress"]
    /\ run' = [run EXCEPT ![j].at = "list"]
    /\ UNCHANGED <<template, pages, conflicts, rolling, events, authored>>

\* findAffectedDocuments, before LIMIT and OFFSET. Deleted pages are among them.
Affected(to) == {d \in Pages : pages[d].status = "live" /\ pages[d].synced < to}

Listed(j) ==
    LET rank(d) == Cardinality({e \in Affected(jobs[j].to) : e < d})
    IN {d \in Affected(jobs[j].to) :
            run[j].offset <= rank(d) /\ rank(d) < run[j].offset + BatchSize}

List(j) ==
    /\ run[j].at = "list" /\ Listed(j) # {}
    /\ run' = [run EXCEPT ![j] = [@ EXCEPT !.at = "pages",
                                           !.seen = [d \in Listed(j) |-> pages[d].tip]]]
    /\ UNCHANGED <<template, pages, jobs, conflicts, rolling, events, authored>>

Finish(j) ==
    /\ run[j].at = "list" /\ Listed(j) = {}
    /\ jobs' = [jobs EXCEPT ![j].status =
          IF run[j].conflicted THEN "completed_with_conflicts" ELSE "completed"]
    /\ run' = [run EXCEPT ![j] = NoRun]
    /\ UNCHANGED <<template, pages, conflicts, rolling, events, authored>>

Left(j) == DOMAIN run[j].seen

Next1(j) == CHOOSE d \in Left(j) : \A e \in Left(j) : d <= e

Seen(j) == Of(run[j].seen[Next1(j)])

\* The next page of the batch, whose snapshot can be compared.
Comparable(j) == run[j].at = "pages" /\ Left(j) # {} /\ run[j].seen[Next1(j)] # Unreadable

WithoutFirst(j) == [d \in Left(j) \ {Next1(j)} |-> run[j].seen[d]]

Row(kind, props) == [kind |-> kind, props |-> props, resolution |-> "open", read |-> None]

\* Mutant: the page counts as migrated all the same.
LeaveBehindAdvanced(j) ==
    /\ conflicts' = [conflicts EXCEPT ![j][Next1(j)] = Row("structural", {})]
    /\ pages' = [pages EXCEPT ![Next1(j)].synced = jobs[j].to]
    /\ run' = [run EXCEPT ![j] = [@ EXCEPT !.at = "pages", !.seen = WithoutFirst(j), !.read = None,
                                           !.conflicted = TRUE]]
    /\ UNCHANGED <<template, jobs, rolling, authored>>

\* The page is left behind, with a structural row.
LeaveBehind(j) ==
    /\ conflicts' = [conflicts EXCEPT ![j][Next1(j)] = Row("structural", {})]
    /\ run' = [run EXCEPT ![j] = [@ EXCEPT !.at = "pages", !.seen = WithoutFirst(j),
          !.read = None, !.found = None, !.unclean = run[j].unclean + 1, !.conflicted = TRUE]]
    /\ UNCHANGED <<template, pages, jobs, rolling, authored>>

Clashes(j) == Structural(Seen(j), pages[Next1(j)].base, From(j), To(j))

\* A page that clashes is reported. So is one the transaction finds unreadable: it throws.
Report(j) ==
    /\ Comparable(j) /\ (Clashes(j) \/ ~Readable(Next1(j)))
    /\ LeaveBehind(j)
    /\ UNCHANGED events

\* A page listed without a snapshot throws, and ends the job.
ListedUnreadable(j) ==
    /\ run[j].at = "pages" /\ Left(j) # {} /\ run[j].seen[Next1(j)] = Unreadable
    /\ run' = [run EXCEPT ![j] = NoRun]
    /\ jobs' = [jobs EXCEPT ![j].status = "failed"]
    /\ UNCHANGED <<template, pages, conflicts, rolling, events, authored>>

\* Mutant: the delta goes to the snapshot that was listed.
ApplyReadListed(j) ==
    /\ Comparable(j) /\ ~Clashes(j) /\ Readable(Next1(j))
    /\ run' = [run EXCEPT ![j] = [@ EXCEPT !.at = "apply", !.read = run[j].seen[Next1(j)],
                                           !.found = pages[Next1(j)].tip]]
    /\ UNCHANGED <<template, pages, jobs, conflicts, rolling, events, authored>>

\* The transaction reads the newest version.
ApplyRead(j) ==
    /\ Comparable(j) /\ ~Clashes(j) /\ Readable(Next1(j))
    /\ run' = [run EXCEPT ![j] = [@ EXCEPT !.at = "apply", !.read = pages[Next1(j)].tip,
                                           !.found = pages[Next1(j)].tip]]
    /\ UNCHANGED <<template, pages, jobs, conflicts, rolling, events, authored>>

\* The slots that may differ from version w, where those of S may differ from version v:
\* and those that the template changed between the two.
Since(S, v, w) == S \cup {s \in Slots : template[v][s] # template[w][s]}

\* Of a delta that does not begin at the page's synced_version, the page never gets
\* what the template changed between the two.
StillAuthored(d, from) == Since(authored[d], pages[d].synced, from)

\* The transaction writes the merged version and the synced_version.
Writes(j) ==
    LET d == Next1(j)
    IN /\ pages' = [pages EXCEPT ![d] =
             [WithMigration(@, Migrated(run[j].read, From(j), To(j))) EXCEPT !.synced = jobs[j].to]]
       /\ authored' = [authored EXCEPT ![d] = StillAuthored(d, jobs[j].from)]

\* And the row of the props that had diverged when the page was listed.
DivergedSeen(j) == Diverged(Seen(j), From(j), To(j))

ApplyCommit(j) ==
    /\ run[j].at = "apply"
    /\ Writes(j)
    /\ conflicts' = [conflicts EXCEPT ![j][Next1(j)] =
          IF DivergedSeen(j) = {} THEN @ ELSE Row("prop", DivergedSeen(j))]
    /\ run' = [run EXCEPT ![j] = [@ EXCEPT !.at = "pages", !.seen = WithoutFirst(j),
          !.read = None, !.found = None, !.conflicted = run[j].conflicted \/ DivergedSeen(j) # {}]]
    /\ UNCHANGED <<template, jobs, rolling, events>>

\* It rolls back, on any failure or because a save took the version number.
ApplyFails(j) == run[j].at = "apply" /\ Event /\ LeaveBehind(j)

\* It commits and the answer is lost: the page is migrated, and reported as left behind.
\* (Of the page's two rows the model has one, with the props of the other.)
AnswerLost(j) ==
    /\ run[j].at = "apply"
    /\ Event
    /\ Writes(j)
    /\ conflicts' = [conflicts EXCEPT ![j][Next1(j)] = Row("structural", DivergedSeen(j))]
    /\ run' = [run EXCEPT ![j] = [@ EXCEPT !.at = "pages", !.seen = WithoutFirst(j),
          !.read = None, !.found = None, !.unclean = run[j].unclean + 1,
          !.conflicted = TRUE, !.misled = TRUE]]
    /\ UNCHANGED <<template, jobs, rolling>>

\* Mutants: the offset passes the whole batch; or stays where it is.
NextOffsetBatch(j) == run[j].offset + BatchSize
NextOffsetStays(j) == run[j].offset

\* Of the pages listed, those migrated have left the listing.
NextOffset(j) == run[j].offset + run[j].unclean

EndBatch(j) ==
    /\ run[j].at = "pages" /\ Left(j) = {}
    /\ run' = [run EXCEPT ![j] = [@ EXCEPT !.at = "list", !.offset = NextOffset(j), !.unclean = 0]]
    /\ UNCHANGED <<template, pages, jobs, conflicts, rolling, events, authored>>

\* Anything else that fails ends the job; the route then writes 'failed'.
ProcessFails(j) ==
    /\ Live(j) /\ Event
    /\ run' = [run EXCEPT ![j] = NoRun]
    /\ jobs' = [jobs EXCEPT ![j].status = "failed"]
    /\ UNCHANGED <<template, pages, conflicts, rolling, authored>>

\* The isolate dies, or a merge stops waiting for the job: its row stays as it is.
Dies(j) ==
    /\ Live(j) /\ Event
    /\ run' = [run EXCEPT ![j] = NoRun]
    /\ UNCHANGED <<template, pages, jobs, conflicts, rolling, authored>>

-----------------------------------------------------------------------------
\* rollbackMigration: a job is rolled back at most once (a bound).

Recorded(j) == {d \in Pages : jobs[j].checkpoint.tips[d] # None}

\* Three documents or more, the template among them, are reverted by copying what their
\* rows hold. A row written over since may hold nothing; fewer are rebuilt first.
MayBeLost(j) ==
    IF Cardinality(Recorded(j)) + 1 < RevertThreshold THEN {}
    ELSE {d \in Recorded(j) : pages[d].tip # jobs[j].checkpoint.tips[d]}

\* What the pages are reverted to, where those of lost become unreadable.
Reverted(j, lost) ==
    /\ pages' = [d \in Pages |->
          IF d \in lost THEN [pages[d] EXCEPT !.tip = Unreadable]
          ELSE IF d \in Recorded(j) THEN [pages[d] EXCEPT !.tip = jobs[j].checkpoint.tips[d]]
          ELSE pages[d]]
    /\ authored' = [d \in Pages |->
          IF d \in lost THEN Slots
          ELSE IF d \in Recorded(j)
          THEN Since(jobs[j].checkpoint.authored[d], jobs[j].checkpoint.before[d], pages[d].synced)
          ELSE authored[d]]

\* revertToCheckpoint, in one transaction: the pages and the template, whose own row is
\* taken to have kept its snapshot.
RollbackRevert(j) ==
    /\ jobs[j] # None /\ rolling[j] = "no" /\ (Quiet \/ Overlapping)
    /\ Latest < MaxVersions
    /\ template' = Append(template, template[jobs[j].checkpoint.template])
    /\ \E lost \in SUBSET MayBeLost(j) : Reverted(j, lost)
    /\ rolling' = [rolling EXCEPT ![j] = "reverted"]
    /\ UNCHANGED <<jobs, conflicts, run, events>>

\* Every page at the job's later version is set to its earlier one.
AtTarget(j) == {d \in Pages : pages[d].status = "live" /\ pages[d].synced = jobs[j].to}

\* Mutant: to the version before the job's earlier one.
RollbackResetBelow(j) ==
    /\ rolling[j] = "reverted"
    /\ pages' = [d \in Pages |-> IF d \in AtTarget(j)
                                 THEN [pages[d] EXCEPT !.synced = jobs[j].from - 1] ELSE pages[d]]
    /\ jobs' = [jobs EXCEPT ![j].status = "failed"]
    /\ rolling' = [rolling EXCEPT ![j] = "done"]
    /\ authored' = [d \in Pages |-> IF d \in AtTarget(j) THEN Slots ELSE authored[d]]
    /\ UNCHANGED <<template, conflicts, run, events>>

RollbackReset(j) ==
    /\ rolling[j] = "reverted"
    /\ pages' = [d \in Pages |-> IF d \in AtTarget(j)
                                 THEN [pages[d] EXCEPT !.synced = jobs[j].from] ELSE pages[d]]
    /\ jobs' = [jobs EXCEPT ![j].status = "failed"]
    /\ rolling' = [rolling EXCEPT ![j] = "done"]
    /\ authored' = [d \in Pages |->
          IF d \in AtTarget(j) THEN StillAuthored(d, jobs[j].from) ELSE authored[d]]
    /\ UNCHANGED <<template, conflicts, run, events>>

-----------------------------------------------------------------------------
\* resolveMigrationConflict.

Open(j, d) ==
    conflicts[j][d] # None /\ conflicts[j][d].resolution = "open" /\ conflicts[j][d].read = None

\* Resolutions 'skip' and 'manual' change nothing else.
ResolveSkip(j, d) ==
    /\ Open(j, d) /\ (Quiet \/ Overlapping)
    /\ conflicts' = [conflicts EXCEPT ![j][d].resolution = "skip"]
    /\ UNCHANGED <<template, pages, jobs, run, rolling, events, authored>>

\* 'apply' locks the row and reads the page's newest version.
ResolveRead(j, d) ==
    /\ Open(j, d) /\ Readable(d) /\ (Quiet \/ Overlapping)
    /\ conflicts' = [conflicts EXCEPT ![j][d].read = pages[d].tip]
    /\ UNCHANGED <<template, pages, jobs, run, rolling, events, authored>>

\* A prop conflict sets the diverged slots the page has to the template's value.
Taken(j, snapshot, props) ==
    IF snapshot \notin Contents THEN snapshot
    ELSE [s \in Slots |-> IF s \in props /\ snapshot[s] # Absent THEN To(j)[s] ELSE snapshot[s]]

ResolveCommit(j, d) ==
    LET row == conflicts[j][d]
    IN /\ row # None /\ row.read # None
       /\ \/ /\ row.kind = "prop"
             /\ pages' = [pages EXCEPT ![d] = WithMigration(@, Taken(j, row.read, row.props))]
             /\ authored' = [authored EXCEPT ![d] = @ \cup row.props]
          \/ /\ row.kind = "structural"
             /\ pages' = [pages EXCEPT ![d] =
                   [WithMigration(@, Migrated(row.read, From(j), To(j))) EXCEPT !.synced = jobs[j].to]]
             /\ authored' = [authored EXCEPT ![d] = StillAuthored(d, jobs[j].from)]
       /\ conflicts' = [conflicts EXCEPT ![j][d] = [@ EXCEPT !.resolution = "apply", !.read = None]]
       /\ UNCHANGED <<template, jobs, run, rolling, events>>

-----------------------------------------------------------------------------
JobStep(j) ==
    \/ Claim(j) \/ List(j) \/ Report(j) \/ ListedUnreadable(j)
    \/ ApplyRead(j) \/ ApplyCommit(j) \/ EndBatch(j) \/ Finish(j)

Next ==
    \/ \E s \in Slots, v \in Values \cup {Absent} :
          EditTemplate(s, v) \/ \E d \in Pages : Edit(d, s, v)
    \/ \E d \in Pages : \/ Create(d) \/ Recreate(d) \/ Delete(d) \/ Archive(d)
                       \/ \E c \in Contents : Rewrite(d, c)
    \/ \E j \in Jobs :
          \/ \E from, to \in VersionNumbers : Trigger(j, from, to)
          \/ JobStep(j) \/ ApplyFails(j) \/ AnswerLost(j) \/ ProcessFails(j) \/ Dies(j)
          \/ RollbackRevert(j) \/ RollbackReset(j)
          \/ \E d \in Pages : ResolveSkip(j, d) \/ ResolveRead(j, d) \/ ResolveCommit(j, d)

\* Once claimed, processMigration goes on until it settles or is killed.
Spec == Init /\ [][Next]_vars /\ \A j \in Jobs : WF_vars(JobStep(j))

-----------------------------------------------------------------------------
\* Properties.

\* Whatever differs between a page and the template version it is said to carry was
\* changed by an author or chosen by an operator, or by the template in versions that no
\* delta took to the page: a delta begins where its job says (to - 1, template-api.ts:674)
\* and a rollback ends there, whatever the page's synced_version. It says nothing of a
\* page that a rollback has left unreadable.
DriftIsAuthored ==
    \A d \in Pages : pages[d].status = "live" =>
        \A s \in Slots \ authored[d] : Of(pages[d].tip)[s] = template[pages[d].synced][s]

\* A job that ends, and lost no commit's answer, has a conflict for every page it leaves
\* behind its target, so the offset has skipped none, and says whether there is one.
JobAccountsForAll ==
    [][\A j \in Jobs : run[j].at = "list" /\ run'[j].at = "off" /\ jobs'[j].status # "failed"
            /\ jobs'[j] # jobs[j] /\ ~run[j].misled =>
          \A d \in Affected(jobs[j].to) :
             conflicts[j][d] # None /\ jobs'[j].status = "completed_with_conflicts"]_vars

\* The transaction of job j takes its delta to page d, and nobody has saved the page
\* since the transaction read it.
Applies(j, d) ==
    /\ run[j].at = "apply" /\ run'[j].at = "pages" /\ d = Next1(j) /\ pages'[d] # pages[d]
    /\ pages[d].tip = run[j].found

\* Nor since it was listed.
AsListed(j, d) == pages[d].tip = run[j].seen[d]

\* A migration never changes a slot the author changed, even while the job was at other
\* pages: only one that the template removed goes. And where the author removed a slot
\* before the page was listed, it never brings it back.
LocalEditsSurvive ==
    [][\A j \in Jobs, d \in Pages : Applies(j, d) => \A s \in Slots :
          LET mine == Of(pages[d].tip)[s]
              after == Of(pages'[d].tip)[s]
          IN /\ mine \notin {Absent, From(j)[s]} /\ To(j)[s] # Absent => after = mine
             /\ AsListed(j, d) /\ mine = Absent /\ pages[d].base[s] # Absent => after = Absent]_vars

\* A slot the template changed is changed on the page too, unless the page has it no
\* more or the operator is told of it; of a page as it was when it was listed, for that
\* is what the row is made from.
DivergenceIsReported ==
    [][\A j \in Jobs, d \in Pages : Applies(j, d) /\ AsListed(j, d) =>
       \A s \in Patched(From(j), To(j)) :
          \/ Of(pages'[d].tip)[s] \in {Absent, To(j)[s]}
          \/ conflicts'[j][d] # None /\ s \in conflicts'[j][d].props]_vars

\* A job that was started settles or dies: the listing is exhausted, though authors
\* save, create and delete pages and pages that conflict stay in it.
JobsEnd == \A j \in Jobs : Live(j) ~> ~Live(j)

\* Refuted by MigrationOverwrites.cfg: nor one changed since the transaction read it.
LocalEditsAlwaysSurvive ==
    [][\A j \in Jobs : run[j].at = "apply" /\ run'[j].at = "pages" => \A s \in Slots :
          LET mine == Of(pages[Next1(j)].tip)[s]
          IN mine \notin {Absent, From(j)[s]} /\ To(j)[s] # Absent =>
                Of(pages'[Next1(j)].tip)[s] = mine]_vars

\* Refuted by MigrationSkipsVersion.cfg: what no author touched is as the target has it.
TargetIsReached ==
    [][\A j \in Jobs : run[j].at = "apply" /\ pages'[Next1(j)].synced # pages[Next1(j)].synced =>
          \A s \in Slots \ authored[Next1(j)] : Of(pages'[Next1(j)].tip)[s] = To(j)[s]]_vars

\* Refuted by MigrationLostAnswer.cfg: no page is passed over.
JobAlwaysAccountsForAll ==
    [][\A j \in Jobs : run[j].at = "list" /\ run'[j].at = "off" /\ jobs'[j].status # "failed"
            /\ jobs'[j] # jobs[j] =>
          \A d \in Affected(jobs[j].to) : conflicts[j][d] # None]_vars

\* Refuted by MigrationRollbackLoses.cfg: a rollback leaves pages that can be read.
RollbackIsReadable ==
    [][\A j \in Jobs : rolling[j] = "no" /\ rolling'[j] = "reverted" =>
          \A d \in Recorded(j) : jobs[j].checkpoint.tips[d] # Unreadable =>
             pages'[d].tip # Unreadable]_vars

\* Refuted by MigrationRevives.cfg: a page that was deleted stays deleted.
DeletedStaysDeleted ==
    [][\A j \in Jobs : run[j].at = "apply" /\ pages[Next1(j)].tip = Tombstone =>
          pages'[Next1(j)].tip = Tombstone]_vars

\* Refuted by MigrationRollback.cfg: a page returns to its synced_version of before.
RolledBackReturn ==
    [][\A j \in Jobs : rolling[j] = "reverted" /\ rolling'[j] = "done" =>
          \A d \in Recorded(j) : pages'[d].synced = jobs[j].checkpoint.before[d]]_vars

\* Refuted by MigrationBackwards.cfg: only a rollback takes synced_version back.
SyncedOnlyRises ==
    [][rolling' = rolling => \A d \in Pages : pages'[d].synced >= pages[d].synced]_vars
=============================================================================
