---------------------- MODULE TemplateMigrationsProofs ----------------------
(***************************************************************************)
(* What is proved of TemplateMigrations, for any pages, slots, values and   *)
(* jobs, any size of a batch, and any number of saves and failures.         *)
(***************************************************************************)
EXTENDS TemplateMigrations, FiniteSetTheorems, WellFoundedInduction, TLAPS

USE MigrationAssumption, NoneAssumption

\* What a job refers to is there: its row, two versions of the template in order, and,
\* while a transaction is open, the page it is for and what was read.
Shape ==
    /\ \A j \in Jobs :
          /\ Live(j) \/ rolling[j] = "reverted" => jobs[j] # None
          /\ \A d \in Pages : conflicts[j][d] # None => jobs[j] # None
          /\ run[j].at = "apply" => /\ Left(j) # {} /\ run[j].read # None
                                    /\ run[j].found = run[j].read
          /\ jobs[j] # None => /\ jobs[j].from < jobs[j].to /\ jobs[j].to <= Latest
                               /\ jobs[j].checkpoint.template <= Latest
    /\ \A d \in Pages : pages[d].synced <= Latest

TypeInv == TypeOK /\ Shape

-----------------------------------------------------------------------------
\* Snapshots and deltas.

LEMMA OfType == \A c \in Snapshots : Of(c) \in Contents
  BY DEF Of, Snapshots, Contents, Empty

LEMMA ContentsAreSnapshots == Contents \subseteq Snapshots /\ {Tombstone, Unreadable} \subseteq Snapshots
  BY DEF Snapshots

\* What a delta makes of a slot.
LEMMA DeltaBySlot ==
  ASSUME NEW c \in Contents, NEW from \in Contents, NEW to \in Contents
  PROVE /\ ApplyDelta(c, from, to) \in Contents
        /\ \A s \in Slots :
              /\ c[s] = from[s] => ApplyDelta(c, from, to)[s] = to[s]
              /\ ApplyDelta(c, from, to)[s] \in {c[s], to[s]}
  BY DEF ApplyDelta, Contents, Removed, Added, Patched

LEMMA MigratedType ==
  ASSUME NEW c \in Snapshots, NEW from \in Contents, NEW to \in Contents
  PROVE /\ Migrated(c, from, to) \in Snapshots
        /\ Of(Migrated(c, from, to)) = ApplyDelta(Of(c), from, to)
<1>1. Of(c) \in Contents
  BY OfType
<1>2. ApplyDelta(Of(c), from, to) \in Contents
  BY <1>1, DeltaBySlot
<1>3. \A x \in Contents : Of(x) = x
  BY DEF Of
<1>. QED
  BY <1>1, <1>2, <1>3, ContentsAreSnapshots DEF Migrated

LEMMA WithMigrationType ==
  ASSUME NEW page \in Page, NEW c \in Snapshots
  PROVE /\ WithMigration(page, c) \in Page
        /\ WithMigration(page, c).tip = c
        /\ WithMigration(page, c).synced = page.synced
        /\ WithMigration(page, c).status = page.status
  BY OfType DEF WithMigration, Page

-----------------------------------------------------------------------------
\* Every nonempty set of pages has a first one.

LEMMA HasLeast ==
  ASSUME NEW S \in SUBSET Pages, S # {}
  PROVE \E x \in S : \A y \in S : x <= y
<1> DEFINE Below(x) == {y \in S : y < x}
<1> DEFINE T == {Below(x) : x \in S}
<1>0. S \subseteq Nat /\ IsFiniteSet(S)
  BY FS_Subset
<1>1. IsWellFoundedOn(StrictSubsetOrdering(S), FiniteSubsetsOf(S))
  BY FS_StrictSubsetOrderingWellFounded
<1>2. T \subseteq SUBSET S /\ T # {}
  OBVIOUS
<1>3. FiniteSubsetsOf(S) = SUBSET S
  BY <1>0, FS_FiniteSubsetsOfFinite
<1>4. PICK b \in T : \A c \in T : <<c, b>> \notin StrictSubsetOrdering(S)
  <2>1. T \subseteq FiniteSubsetsOf(S) /\ T # {}
    BY <1>2, <1>3
  <2> HIDE DEF T
  <2>. QED
    BY <1>1, <2>1, WFMin
<1>5. PICK x \in S : b = Below(x)
  OBVIOUS
<1>6. ASSUME NEW y \in S, y < x PROVE FALSE
  <2>1. y \in Below(x) /\ y \notin Below(y)
    BY <1>6, <1>0
  <2>2. \A z \in S : z < y => z < x
    BY <1>6, <1>0
  <2>3. Below(y) \subseteq Below(x)
    BY <2>2
  <2>4. Below(y) \in SUBSET S /\ Below(x) \in SUBSET S /\ Below(y) # Below(x)
    BY <2>1
  <2>5. <<Below(y), Below(x)>> \in StrictSubsetOrdering(S)
    BY <2>3, <2>4 DEF StrictSubsetOrdering
  <2>. QED
    BY <2>5, <1>4, <1>5
<1>. QED
  BY <1>6, <1>0

LEMMA SeenType ==
  ASSUME TypeOK, NEW j \in Jobs
  PROVE /\ Left(j) \in SUBSET Pages
        /\ run[j].seen \in [Left(j) -> Snapshots]
  BY DEF TypeOK, Run, Left

\* A job goes through its batch in the order it was listed.
LEMMA FirstOfBatch ==
  ASSUME TypeOK, NEW j \in Jobs, Left(j) # {}
  PROVE /\ Next1(j) \in Left(j) /\ Next1(j) \in Pages
        /\ \A d \in Left(j) : Next1(j) <= d
        /\ run[j].seen[Next1(j)] \in Snapshots /\ Seen(j) \in Contents
<1>1. Left(j) \in SUBSET Pages /\ run[j].seen \in [Left(j) -> Snapshots]
  BY SeenType
<1>2. \E d \in Left(j) : \A e \in Left(j) : d <= e
  BY <1>1, HasLeast
<1>3. Next1(j) \in Left(j) /\ \A d \in Left(j) : Next1(j) <= d
  BY <1>2 DEF Next1
<1>. QED
  BY <1>1, <1>3, OfType DEF Seen

LEMMA WithoutFirstType ==
  ASSUME TypeOK, NEW j \in Jobs
  PROVE WithoutFirst(j) \in UNION {[D -> Snapshots] : D \in SUBSET Pages}
<1>1. Left(j) \in SUBSET Pages /\ run[j].seen \in [Left(j) -> Snapshots]
  BY SeenType
<1>2. WithoutFirst(j) \in [Left(j) \ {Next1(j)} -> Snapshots]
  BY <1>1 DEF WithoutFirst
<1>. QED
  BY <1>1, <1>2

LEMMA DeltaVersions ==
  ASSUME TypeInv, NEW j \in Jobs, jobs[j] # None
  PROVE /\ jobs[j] \in Job
        /\ From(j) \in Contents /\ To(j) \in Contents
        /\ jobs[j].from \in 1 .. Latest /\ jobs[j].to \in 1 .. Latest
        /\ template[jobs[j].checkpoint.template] \in Contents
  BY DEF TypeInv, TypeOK, Shape, Job, Checkpoint, From, To, Latest, VersionNumbers
-----------------------------------------------------------------------------
\* Type correctness.

LEMMA RunFields ==
  /\ NoRun \in Run
  /\ \A r \in Run : /\ r.at \in {"off", "queued", "list", "pages", "apply"}
                    /\ r.offset \in Nat /\ r.unclean \in Nat /\ r.conflicted \in BOOLEAN
                    /\ r.seen \in UNION {[D -> Snapshots] : D \in SUBSET Pages}
                    /\ r.read \in Snapshots \cup {None} /\ r.found \in Snapshots \cup {None}
                    /\ r.misled \in BOOLEAN
<1>1. NoSeen \in [{} -> Snapshots] /\ {} \in SUBSET Pages
  BY DEF NoSeen
<1>2. NoSeen \in UNION {[D -> Snapshots] : D \in SUBSET Pages}
  BY <1>1
<1>. QED
  BY <1>2 DEF Run, NoRun

LEMMA InitType == Init => TypeInv
<1> SUFFICES ASSUME Init PROVE TypeInv
  OBVIOUS
<1>0. PICK c \in Contents, D \in SUBSET Pages :
          /\ template = <<c>>
          /\ pages = [d \in Pages |-> [status |-> IF d \in D THEN "live" ELSE "none",
                                       tip |-> c, base |-> c, synced |-> 1]]
  BY DEF Init
<1>1. template \in Seq(Contents) /\ Len(template) = 1 /\ 1 \in VersionNumbers
  BY <1>0 DEF VersionNumbers
<1>2. pages \in [Pages -> Page] /\ \A d \in Pages : pages[d].synced = 1
  BY <1>0, <1>1, ContentsAreSnapshots DEF Page
<1>3. run \in [Jobs -> Run] /\ \A j \in Jobs : run[j].at = "off"
  BY RunFields DEF Init, NoRun
<1>4. /\ jobs \in [Jobs -> Job \cup {None}] /\ \A j \in Jobs : jobs[j] = None
      /\ conflicts \in [Jobs -> [Pages -> Conflict \cup {None}]]
      /\ \A j \in Jobs, d \in Pages : conflicts[j][d] = None
      /\ rolling \in [Jobs -> {"no", "reverted", "done"}] /\ \A j \in Jobs : rolling[j] = "no"
      /\ events \in 0 .. MaxEvents /\ authored \in [Pages -> SUBSET Slots]
  BY DEF Init
<1>. QED
  BY <1>1, <1>2, <1>3, <1>4 DEF TypeInv, TypeOK, Shape, Live, Latest

LEMMA EventType ==
  ASSUME TypeOK, Event
  PROVE events' \in 0 .. MaxEvents
  BY DEF TypeOK, Event

\* The template grows by a version.
LEMMA GrowthType ==
  ASSUME TypeInv, NEW c \in Contents, Latest < MaxVersions, template' = Append(template, c)
  PROVE /\ template' \in Seq(Contents) /\ Len(template') \in VersionNumbers
        /\ Latest' = Latest + 1 /\ Latest \in Nat
        /\ \A v \in 1 .. Latest : template'[v] = template[v]
  BY DEF TypeInv, TypeOK, Latest, VersionNumbers

\* What authors do leaves jobs alone.
LEMMA AuthorType ==
  ASSUME TypeInv, template' \in Seq(Contents), Len(template') \in VersionNumbers,
         Latest <= Latest', Latest \in Nat, Latest' \in Nat,
         pages' \in [Pages -> Page], \A d \in Pages : pages'[d].synced <= Latest',
         authored' \in [Pages -> SUBSET Slots], events' \in 0 .. MaxEvents,
         UNCHANGED <<jobs, conflicts, run, rolling>>
  PROVE TypeInv'
<1>1. TypeOK'
  BY DEF TypeInv, TypeOK
<1>2. \A j \in Jobs : jobs[j] # None => /\ jobs[j].to \in Int /\ jobs[j].checkpoint.template \in Int
  BY DEF TypeInv, TypeOK, Job, Checkpoint, VersionNumbers
<1>3. Shape'
  BY <1>2 DEF TypeInv, Shape, Live, Left
<1>. QED
  BY <1>1, <1>3 DEF TypeInv

LEMMA LatestType ==
  ASSUME TypeInv
  PROVE /\ Latest \in VersionNumbers /\ Latest \in Nat /\ Latest >= 1 /\ template[Latest] \in Contents
        /\ \A d \in Pages : pages[d] \in Page /\ pages[d].synced \in Nat /\ pages[d].synced <= Latest
  BY DEF TypeInv, TypeOK, Shape, Latest, VersionNumbers, Page

LEMMA AuthorsType ==
  ASSUME TypeInv,
         \/ \E s \in Slots, v \in Values \cup {Absent} :
               EditTemplate(s, v) \/ \E d \in Pages : Edit(d, s, v)
         \/ \E d \in Pages : \/ Create(d) \/ Recreate(d) \/ Delete(d) \/ Archive(d)
                            \/ \E c \in Contents : Rewrite(d, c)
  PROVE TypeInv'
<1>t. /\ TypeOK /\ Latest \in VersionNumbers /\ Latest \in Nat /\ template[Latest] \in Contents
      /\ pages \in [Pages -> Page]
      /\ \A d \in Pages : pages[d] \in Page /\ pages[d].synced \in Nat /\ pages[d].synced <= Latest
  BY LatestType DEF TypeInv, TypeOK
<1>e. ASSUME Event PROVE events' \in 0 .. MaxEvents
  BY <1>e, <1>t, EventType
<1>1. ASSUME NEW s \in Slots, NEW v \in Values \cup {Absent}, EditTemplate(s, v) PROVE TypeInv'
  <2>1. [template[Latest] EXCEPT ![s] = v] \in Contents
    BY <1>t DEF Contents
  <2>2. /\ template' \in Seq(Contents) /\ Len(template') \in VersionNumbers
        /\ Latest' = Latest + 1
    BY <1>1, <2>1, GrowthType DEF EditTemplate
  <2>3. events' \in 0 .. MaxEvents
    BY <1>1, <1>e DEF EditTemplate
  <2>4. UNCHANGED <<pages, jobs, conflicts, run, rolling, authored>>
    BY <1>1 DEF EditTemplate
  <2>5. authored' \in [Pages -> SUBSET Slots]
    BY <2>4, <1>t DEF TypeOK
  <2>. QED
    BY <2>2, <2>3, <2>4, <2>5, <1>t, AuthorType
<1>2. ASSUME NEW d \in Pages, Create(d) \/ Recreate(d) \/ Delete(d) \/ Archive(d)
             \/ (\E s \in Slots, v \in Values \cup {Absent} : Edit(d, s, v))
             \/ (\E c \in Contents : Rewrite(d, c))
      PROVE TypeInv'
  <2>1. UNCHANGED <<template, jobs, conflicts, run, rolling>> /\ events' \in 0 .. MaxEvents
    BY <1>2, <1>e DEF Create, Recreate, Delete, Archive, Edit, Rewrite
  <2>2. authored' \in [Pages -> SUBSET Slots]
    <3>1. authored \in [Pages -> SUBSET Slots]
      BY <1>t DEF TypeOK
    <3>2. CASE Create(d) \/ Recreate(d) \/ Delete(d) \/ Archive(d)
      BY <3>1, <3>2 DEF Create, Recreate, Delete, Archive
    <3>3. ASSUME NEW s \in Slots, NEW v \in Values \cup {Absent}, Edit(d, s, v)
          PROVE authored' \in [Pages -> SUBSET Slots]
      BY <3>1, <3>3 DEF Edit
    <3>4. ASSUME NEW c \in Contents, Rewrite(d, c) PROVE authored' \in [Pages -> SUBSET Slots]
      BY <3>1, <3>4 DEF Rewrite
    <3>. QED
      BY <1>2, <3>2, <3>3, <3>4
  <2>3. /\ pages' \in [Pages -> Page]
        /\ \A e \in Pages : pages'[e].synced <= Latest
    <3>1. ASSUME NEW p \in Page, p.synced <= Latest, pages' = [pages EXCEPT ![d] = p]
          PROVE /\ pages' \in [Pages -> Page]
                /\ \A e \in Pages : pages'[e].synced <= Latest
      BY <3>1, <1>t
    <3>2. CASE Create(d)
      BY <3>2, <3>1, <1>t, ContentsAreSnapshots DEF Create, Page
    <3>3. CASE Recreate(d)
      <4>1. pages' = [pages EXCEPT ![d] = [@ EXCEPT !.tip = template[Latest], !.synced = Latest]]
        BY <3>3 DEF Recreate
      <4>2. [pages[d] EXCEPT !.tip = template[Latest], !.synced = Latest] \in Page
        BY <1>t, ContentsAreSnapshots DEF Page
      <4>3. [pages[d] EXCEPT !.tip = template[Latest], !.synced = Latest].synced = Latest
        BY <1>t DEF Page
      <4>. QED
        BY <4>1, <4>2, <4>3, <3>1, <1>t
    <3>4. CASE Delete(d)
      <4>1. pages' = [pages EXCEPT ![d] = [@ EXCEPT !.tip = Tombstone]]
        BY <3>4, <1>t DEF Delete
      <4>2. [pages[d] EXCEPT !.tip = Tombstone] \in Page
        BY <1>t, ContentsAreSnapshots DEF Page
      <4>3. [pages[d] EXCEPT !.tip = Tombstone].synced = pages[d].synced
        BY <1>t DEF Page
      <4>. QED
        BY <4>1, <4>2, <4>3, <3>1, <1>t
    <3>5. CASE Archive(d)
      <4>1. pages' = [pages EXCEPT ![d] = [@ EXCEPT !.status = "archived"]]
        BY <3>5, <1>t DEF Archive
      <4>2. [pages[d] EXCEPT !.status = "archived"] \in Page
        BY <1>t DEF Page
      <4>3. [pages[d] EXCEPT !.status = "archived"].synced = pages[d].synced
        BY <1>t DEF Page
      <4>. QED
        BY <4>1, <4>2, <4>3, <3>1, <1>t
    <3>6. ASSUME NEW s \in Slots, NEW v \in Values \cup {Absent}, Edit(d, s, v)
          PROVE /\ pages' \in [Pages -> Page]
                /\ \A e \in Pages : pages'[e].synced <= Latest
      <4>0. pages[d].tip \in Contents
        BY <3>6, <1>t DEF Edit, Made, Readable, Page, Snapshots
      <4>1. pages' = [pages EXCEPT ![d] = [@ EXCEPT !.tip = [pages[d].tip EXCEPT ![s] = v]]]
        BY <3>6, <1>t DEF Edit, Page
      <4>2. [pages[d].tip EXCEPT ![s] = v] \in Snapshots
        BY <4>0, ContentsAreSnapshots DEF Contents
      <4>3. [pages[d] EXCEPT !.tip = [pages[d].tip EXCEPT ![s] = v]] \in Page
        BY <1>t, <4>2 DEF Page
      <4>4. [pages[d] EXCEPT !.tip = [pages[d].tip EXCEPT ![s] = v]].synced = pages[d].synced
        BY <1>t DEF Page
      <4>. QED
        BY <4>1, <4>3, <4>4, <3>1, <1>t
    <3>7. ASSUME NEW c \in Contents, Rewrite(d, c)
          PROVE /\ pages' \in [Pages -> Page]
                /\ \A e \in Pages : pages'[e].synced <= Latest
      <4>1. pages' = [pages EXCEPT ![d] = [@ EXCEPT !.tip = c]]
        BY <3>7, <1>t DEF Rewrite
      <4>2. [pages[d] EXCEPT !.tip = c] \in Page
        BY <1>t, ContentsAreSnapshots DEF Page
      <4>3. [pages[d] EXCEPT !.tip = c].synced = pages[d].synced
        BY <1>t DEF Page
      <4>. QED
        BY <4>1, <4>2, <4>3, <3>1, <1>t
    <3>. QED
      BY <1>2, <3>2, <3>3, <3>4, <3>5, <3>6, <3>7
  <2>4. template' \in Seq(Contents) /\ Len(template') \in VersionNumbers /\ Latest' = Latest
    BY <2>1, <1>t DEF TypeOK, Latest
  <2>. QED
    BY <2>1, <2>2, <2>3, <2>4, <1>t, AuthorType
<1>. QED
  BY <1>1, <1>2

\* Only job j gets conflicts.
OnlyConflictsOf(j) ==
    \A k \in Jobs, d \in Pages : conflicts'[k][d] # None => conflicts[k][d] # None \/ k = j

\* A step of one job: its row, its run and its rollback change, in keeping with each
\* other; the template and the pages it may change are given.
LEMMA JobType ==
  ASSUME TypeInv, NEW j \in Jobs,
         NEW r \in Run, run' = [run EXCEPT ![j] = r],
         NEW b \in Job \cup {None}, b # None, jobs' = [jobs EXCEPT ![j] = b],
         r.at = "apply" => DOMAIN r.seen # {} /\ r.read # None /\ r.found = r.read,
         b.from < b.to, b.to <= Latest, b.checkpoint.template <= Latest,
         conflicts' \in [Jobs -> [Pages -> Conflict \cup {None}]],
         OnlyConflictsOf(j),
         pages' \in [Pages -> Page], \A d \in Pages : pages'[d].synced <= Latest,
         authored' \in [Pages -> SUBSET Slots], events' \in 0 .. MaxEvents,
         UNCHANGED <<template, rolling>>
  PROVE TypeInv'
<1>t. TypeOK /\ Shape
  BY DEF TypeInv
<1>1. TypeOK'
  BY <1>t DEF TypeOK
<1>2. Latest' = Latest
  BY DEF Latest
<1>3. \A k \in Jobs : /\ k # j => run'[k] = run[k] /\ jobs'[k] = jobs[k]
                      /\ run'[j] = r /\ jobs'[j] = b
  BY <1>t DEF TypeOK
<1>4. ASSUME NEW k \in Jobs
      PROVE /\ Live(k)' \/ rolling'[k] = "reverted" => jobs'[k] # None
            /\ \A d \in Pages : conflicts'[k][d] # None => jobs'[k] # None
            /\ run'[k].at = "apply" => Left(k)' # {} /\ run'[k].read # None /\ run'[k].found = run'[k].read
            /\ jobs'[k] # None => /\ jobs'[k].from < jobs'[k].to /\ jobs'[k].to <= Latest'
                                  /\ jobs'[k].checkpoint.template <= Latest'
  <2>1. CASE k # j
    BY <2>1, <1>2, <1>3, <1>t DEF Shape, Live, Left, OnlyConflictsOf
  <2>2. CASE k = j
    BY <2>2, <1>2, <1>3, <1>t DEF Shape, Live, Left, OnlyConflictsOf
  <2>. QED
    BY <2>1, <2>2
<1>5. Shape'
  BY <1>2, <1>4 DEF Shape
<1>. QED
  BY <1>1, <1>5 DEF TypeInv

\* The same, of a step that leaves the rows and pages alone.
LEMMA RunType ==
  ASSUME TypeInv, NEW j \in Jobs, Live(j),
         NEW r \in Run, run' = [run EXCEPT ![j] = r],
         r.at = "apply" => DOMAIN r.seen # {} /\ r.read # None /\ r.found = r.read,
         events' \in 0 .. MaxEvents,
         UNCHANGED <<template, pages, jobs, conflicts, rolling, authored>>
  PROVE TypeInv'
<1>t. TypeOK /\ Shape
  BY DEF TypeInv
<1>1. jobs[j] # None /\ jobs[j] \in Job \cup {None} /\ jobs' = [jobs EXCEPT ![j] = jobs[j]]
  BY <1>t DEF TypeOK, Shape
<1>2. jobs[j].from < jobs[j].to /\ jobs[j].to <= Latest /\ jobs[j].checkpoint.template <= Latest
  BY <1>1, <1>t DEF Shape
<1>3. /\ pages' \in [Pages -> Page] /\ \A d \in Pages : pages'[d].synced <= Latest
      /\ authored' \in [Pages -> SUBSET Slots]
      /\ conflicts' \in [Jobs -> [Pages -> Conflict \cup {None}]] /\ OnlyConflictsOf(j)
  BY <1>t DEF TypeOK, Shape, OnlyConflictsOf
<1>. QED
  BY <1>1, <1>2, <1>3, JobType

LEMMA RowType == 
  /\ Row("structural", {}) \in Conflict
  /\ \A S \in SUBSET Slots : Row("prop", S) \in Conflict /\ Row("structural", S) \in Conflict
  BY DEF Row, Conflict

LEMMA TriggerType ==
  ASSUME TypeInv, NEW j \in Jobs, NEW from \in VersionNumbers, NEW to \in VersionNumbers,
         Trigger(j, from, to)
  PROVE TypeInv'
<1>t. TypeOK /\ Shape
  BY DEF TypeInv
<1> DEFINE tips == [d \in Pages |-> IF pages[d].status = "none" \/ pages[d].tip = Tombstone
                                    THEN None ELSE pages[d].tip]
           before == [d \in Pages |-> pages[d].synced]
           checkpoint == [template |-> Latest, tips |-> tips, before |-> before,
                          authored |-> authored]
           job == [status |-> "pending", from |-> from, to |-> to, checkpoint |-> checkpoint]
<1>0. \A d \in Pages : pages[d] \in Page
  BY <1>t DEF TypeOK
<1>1. tips \in [Pages -> Contents \cup {Unreadable, None}] /\ before \in [Pages -> VersionNumbers]
      /\ authored \in [Pages -> SUBSET Slots]
  BY <1>0, <1>t DEF Page, Snapshots, TypeOK
<1>2. checkpoint \in Checkpoint
  BY <1>1, LatestType DEF Checkpoint
<1>3. job \in Job
  BY <1>2 DEF Job
<1>4. /\ jobs' = [jobs EXCEPT ![j] = job] /\ run' = [run EXCEPT ![j] = [@ EXCEPT !.at = "queued"]]
      /\ job.from < job.to /\ job.to <= Latest /\ job.checkpoint.template = Latest
      /\ jobs[j] = None
      /\ UNCHANGED <<template, pages, conflicts, rolling, events, authored>>
  BY DEF Trigger
<1>5. run[j] \in Run /\ [run[j] EXCEPT !.at = "queued"] \in Run
      /\ [run[j] EXCEPT !.at = "queued"].at = "queued"
  BY <1>t DEF TypeOK, Run
<1>6. /\ pages' \in [Pages -> Page] /\ \A d \in Pages : pages'[d].synced <= Latest
      /\ authored' \in [Pages -> SUBSET Slots] /\ events' \in 0 .. MaxEvents
      /\ conflicts' \in [Jobs -> [Pages -> Conflict \cup {None}]] /\ OnlyConflictsOf(j)
      /\ run' = [run EXCEPT ![j] = [run[j] EXCEPT !.at = "queued"]]
  BY <1>4, <1>t DEF TypeOK, Shape, OnlyConflictsOf
<1>7. job.checkpoint.template <= Latest
  BY <1>4, LatestType
<1>8. job # None /\ job \in Job \cup {None}
  BY <1>3
<1> HIDE DEF job
<1>. QED
  BY <1>4, <1>5, <1>6, <1>7, <1>8, JobType

LEMMA ListType ==
  ASSUME TypeInv, NEW j \in Jobs, Claim(j) \/ List(j) \/ Finish(j) \/ EndBatch(j) \/ ApplyRead(j)
  PROVE TypeInv'
<1>t. TypeOK /\ Shape
  BY DEF TypeInv
<1>r. run[j] \in Run /\ events \in 0 .. MaxEvents /\ run \in [Jobs -> Run]
  BY <1>t DEF TypeOK
<1>1. CASE Claim(j)
  <2>1. jobs[j] \in Job /\ jobs[j] # None /\ Live(j)
    BY <1>1, <1>t DEF Claim, TypeOK, Shape, Live
  <2> DEFINE b == [jobs[j] EXCEPT !.status = "in_progress"]
             r == [run[j] EXCEPT !.at = "list"]
  <2>2. b \in Job /\ b.from = jobs[j].from /\ b.to = jobs[j].to /\ b.checkpoint = jobs[j].checkpoint
    BY <2>1 DEF Job
  <2>3. r \in Run /\ r.at = "list"
    BY <1>r DEF Run
  <2>4. /\ jobs' = [jobs EXCEPT ![j] = b] /\ run' = [run EXCEPT ![j] = r]
        /\ UNCHANGED <<template, pages, conflicts, rolling, events, authored>>
    BY <1>1 DEF Claim
  <2>5. b # None /\ b.from < b.to /\ b.to <= Latest /\ b.checkpoint.template <= Latest
    BY <2>1, <2>2, <1>t DEF Shape
  <2>6. /\ pages' \in [Pages -> Page] /\ \A d \in Pages : pages'[d].synced <= Latest
        /\ authored' \in [Pages -> SUBSET Slots] /\ events' \in 0 .. MaxEvents
        /\ conflicts' \in [Jobs -> [Pages -> Conflict \cup {None}]] /\ OnlyConflictsOf(j)
    BY <2>4, <1>t DEF TypeOK, Shape, OnlyConflictsOf
  <2>7. b \in Job \cup {None}
    BY <2>2
  <2> HIDE DEF b, r
  <2>. QED
    BY <2>3, <2>4, <2>5, <2>6, <2>7, JobType
<1>2. CASE Finish(j)
  <2>1. jobs[j] \in Job /\ jobs[j] # None /\ Live(j)
    BY <1>2, <1>t DEF Finish, TypeOK, Shape, Live
  <2> DEFINE b == [jobs[j] EXCEPT !.status =
                     IF run[j].conflicted THEN "completed_with_conflicts" ELSE "completed"]
  <2>2. b \in Job /\ b.from = jobs[j].from /\ b.to = jobs[j].to /\ b.checkpoint = jobs[j].checkpoint
    BY <2>1 DEF Job
  <2>3. NoRun \in Run /\ NoRun.at = "off"
    BY RunFields DEF NoRun
  <2>4. /\ jobs' = [jobs EXCEPT ![j] = b] /\ run' = [run EXCEPT ![j] = NoRun]
        /\ UNCHANGED <<template, pages, conflicts, rolling, events, authored>>
    BY <1>2 DEF Finish
  <2>5. b # None /\ b.from < b.to /\ b.to <= Latest /\ b.checkpoint.template <= Latest
    BY <2>1, <2>2, <1>t DEF Shape
  <2>6. /\ pages' \in [Pages -> Page] /\ \A d \in Pages : pages'[d].synced <= Latest
        /\ authored' \in [Pages -> SUBSET Slots] /\ events' \in 0 .. MaxEvents
        /\ conflicts' \in [Jobs -> [Pages -> Conflict \cup {None}]] /\ OnlyConflictsOf(j)
    BY <2>4, <1>t DEF TypeOK, Shape, OnlyConflictsOf
  <2>7. b \in Job \cup {None}
    BY <2>2
  <2> HIDE DEF b
  <2>. QED
    BY <2>3, <2>4, <2>5, <2>6, <2>7, JobType
<1>3. CASE List(j)
  <2> DEFINE seen == [d \in Listed(j) |-> pages[d].tip]
             r == [run[j] EXCEPT !.at = "pages", !.seen = seen]
  <2>1. Listed(j) \in SUBSET Pages
    BY DEF Listed, Affected
  <2>2. \A d \in Pages : pages[d].tip \in Snapshots
    BY <1>t DEF TypeOK, Page
  <2>3. seen \in [Listed(j) -> Snapshots]
    BY <2>1, <2>2
  <2>4. seen \in UNION {[D -> Snapshots] : D \in SUBSET Pages}
    BY <2>1, <2>3
  <2> HIDE DEF seen
  <2>5. r \in Run /\ r.at = "pages"
    BY <1>r, <2>4 DEF Run
  <2>6. /\ Live(j) /\ run' = [run EXCEPT ![j] = r]
        /\ UNCHANGED <<template, pages, jobs, conflicts, rolling, events, authored>>
    BY <1>3 DEF List, Live, seen
  <2> HIDE DEF r
  <2>. QED
    BY <2>5, <2>6, <1>r, RunType
<1>4. CASE EndBatch(j)
  <2> DEFINE r == [run[j] EXCEPT !.at = "list", !.offset = NextOffset(j), !.unclean = 0]
  <2>1. NextOffset(j) \in Nat
    BY <1>r, RunFields DEF NextOffset
  <2>2. r \in Run /\ r.at = "list"
    BY <1>r, <2>1 DEF Run
  <2>3. /\ Live(j) /\ run' = [run EXCEPT ![j] = r]
        /\ UNCHANGED <<template, pages, jobs, conflicts, rolling, events, authored>>
    BY <1>4 DEF EndBatch, Live
  <2> HIDE DEF r
  <2>. QED
    BY <2>2, <2>3, <1>r, RunType
<1>5. CASE ApplyRead(j)
  <2> DEFINE r == [run[j] EXCEPT !.at = "apply", !.read = pages[Next1(j)].tip,
                                 !.found = pages[Next1(j)].tip]
  <2>1. Left(j) # {} /\ Next1(j) \in Pages
    BY <1>5, <1>t, FirstOfBatch DEF ApplyRead, Comparable
  <2>2. pages[Next1(j)].tip \in Snapshots
    BY <2>1, <1>t DEF TypeOK, Page
  <2>3. r \in Run /\ r.at = "apply" /\ r.seen = run[j].seen /\ r.read # None /\ r.found = r.read
    BY <1>r, <2>2 DEF Run
  <2>4. DOMAIN r.seen # {}
    BY <2>1, <2>3 DEF Left
  <2>5. /\ Live(j) /\ run' = [run EXCEPT ![j] = r]
        /\ UNCHANGED <<template, pages, jobs, conflicts, rolling, events, authored>>
    BY <1>5 DEF ApplyRead, Comparable, Live
  <2> HIDE DEF r
  <2>. QED
    BY <2>3, <2>4, <2>5, <1>r, RunType
<1>. QED
  BY <1>1, <1>2, <1>3, <1>4, <1>5

\* What a transaction or a resolution puts on a page.
LEMMA PutType ==
  ASSUME TypeInv, NEW d \in Pages, NEW c \in Snapshots, NEW v \in VersionNumbers, v <= Latest,
         pages' = [pages EXCEPT ![d] = [WithMigration(@, c) EXCEPT !.synced = v]]
  PROVE /\ pages' \in [Pages -> Page] /\ \A e \in Pages : pages'[e].synced <= Latest
        /\ pages'[d].tip = c /\ pages'[d].synced = v /\ pages'[d].status = pages[d].status
        /\ \A e \in Pages \ {d} : pages'[e] = pages[e]
<1>t. TypeOK /\ Shape
  BY DEF TypeInv
<1>1. pages \in [Pages -> Page] /\ pages[d] \in Page
  BY <1>t DEF TypeOK
<1>2. /\ WithMigration(pages[d], c) \in Page /\ WithMigration(pages[d], c).tip = c
      /\ WithMigration(pages[d], c).status = pages[d].status
  BY <1>1, WithMigrationType
<1> DEFINE p == [WithMigration(pages[d], c) EXCEPT !.synced = v]
<1>3. p \in Page /\ p.tip = c /\ p.synced = v /\ p.status = pages[d].status
  BY <1>2 DEF Page
<1>4. pages' = [pages EXCEPT ![d] = p]
  OBVIOUS
<1> HIDE DEF p
<1>. QED
  BY <1>1, <1>3, <1>4, <1>t DEF Shape

LEMMA StillAuthoredType ==
  ASSUME TypeOK, NEW d \in Pages, NEW v
  PROVE StillAuthored(d, v) \in SUBSET Slots
  BY DEF StillAuthored, Since, TypeOK

LEMMA LeaveBehindType ==
  ASSUME TypeInv, NEW j \in Jobs, LeaveBehind(j), Live(j), Left(j) # {}, events' \in 0 .. MaxEvents
  PROVE TypeInv'
<1>t. TypeOK /\ Shape
  BY DEF TypeInv
<1>r. run[j] \in Run /\ run \in [Jobs -> Run] /\ conflicts \in [Jobs -> [Pages -> Conflict \cup {None}]]
  BY <1>t DEF TypeOK
<1> DEFINE r == [run[j] EXCEPT !.at = "pages", !.seen = WithoutFirst(j), !.read = None,
                               !.found = None, !.unclean = run[j].unclean + 1, !.conflicted = TRUE]
           row == Row("structural", {})
<1>1. WithoutFirst(j) \in UNION {[D -> Snapshots] : D \in SUBSET Pages}
  BY <1>t, WithoutFirstType
<1>2. run[j].unclean + 1 \in Nat
  BY <1>r, RunFields
<1>3. r \in Run /\ r.at = "pages"
  BY <1>1, <1>2, <1>r DEF Run
<1>4. /\ run' = [run EXCEPT ![j] = r]
      /\ conflicts' = [conflicts EXCEPT ![j][Next1(j)] = row]
      /\ UNCHANGED <<template, pages, jobs, rolling, authored>>
  <2>1. run' = [run EXCEPT ![j] = r]
    BY <1>r DEF LeaveBehind, Run
  <2>2. conflicts' = [conflicts EXCEPT ![j][Next1(j)] = row]
    BY DEF LeaveBehind
  <2>3. UNCHANGED <<template, pages, jobs, rolling, authored>>
    BY DEF LeaveBehind
  <2>. QED
    BY <2>1, <2>2, <2>3
<1>5. row \in Conflict /\ Next1(j) \in Pages
  BY <1>t, RowType, FirstOfBatch
<1>6. jobs[j] # None /\ jobs[j] \in Job \cup {None} /\ jobs' = [jobs EXCEPT ![j] = jobs[j]]
  BY <1>4, <1>t DEF TypeOK, Shape
<1> HIDE DEF r, row
<1>7. /\ conflicts' \in [Jobs -> [Pages -> Conflict \cup {None}]]
      /\ \A k \in Jobs, d \in Pages : k # j => conflicts'[k][d] = conflicts[k][d]
  BY <1>4, <1>5, <1>r
<1>10. OnlyConflictsOf(j)
  BY <1>7 DEF OnlyConflictsOf
<1>8. jobs[j].from < jobs[j].to /\ jobs[j].to <= Latest /\ jobs[j].checkpoint.template <= Latest
  BY <1>6, <1>t DEF Shape
<1>9. /\ pages' \in [Pages -> Page] /\ \A d \in Pages : pages'[d].synced <= Latest
      /\ authored' \in [Pages -> SUBSET Slots]
  BY <1>4, <1>t DEF TypeOK, Shape
<1> DEFINE b == jobs[j]
<1>11. /\ run' = [run EXCEPT ![j] = r] /\ jobs' = [jobs EXCEPT ![j] = b]
       /\ UNCHANGED <<template, rolling>>
  BY <1>4, <1>6
<1>12. /\ b \in Job \cup {None} /\ b # None
       /\ b.from < b.to /\ b.to <= Latest /\ b.checkpoint.template <= Latest
  BY <1>6, <1>8
<1> HIDE DEF b
<1>14. r.at = "apply" => DOMAIN r.seen # {} /\ r.read # None /\ r.found = r.read
  BY <1>3
<1>. QED
  BY <1>3, <1>7, <1>9, <1>10, <1>11, <1>12, <1>14, JobType

\* The transaction of a page commits, whether or not its answer arrives.
Commits(j) == ApplyCommit(j) \/ AnswerLost(j)

LEMMA CommitType ==
  ASSUME TypeInv, NEW j \in Jobs, Commits(j)
  PROVE TypeInv'
<1>t. TypeOK /\ Shape
  BY DEF TypeInv
<1>r. run[j] \in Run /\ run \in [Jobs -> Run] /\ conflicts \in [Jobs -> [Pages -> Conflict \cup {None}]]
  BY <1>t DEF TypeOK
<1> DEFINE d == Next1(j)
           diverged == DivergedSeen(j)
           c == Migrated(run[j].read, From(j), To(j))
<1>1. run[j].at = "apply" /\ Live(j) /\ Left(j) # {} /\ run[j].read # None
  BY <1>t DEF Commits, ApplyCommit, AnswerLost, Live, Shape
<1>2. d \in Pages
  BY <1>1, <1>t, FirstOfBatch
<1>3. jobs[j] # None
  BY <1>1, <1>t DEF Shape
<1>4. run[j].read \in Snapshots
  BY <1>1, <1>r, RunFields
<1>5. From(j) \in Contents /\ To(j) \in Contents /\ jobs[j] \in Job
      /\ jobs[j].to \in VersionNumbers /\ jobs[j].to <= Latest
  BY <1>3, DeltaVersions, <1>t DEF Job, Shape
<1>6. c \in Snapshots
  BY <1>4, <1>5, MigratedType
<1>7. /\ pages' = [pages EXCEPT ![d] = [WithMigration(@, c) EXCEPT !.synced = jobs[j].to]]
      /\ authored' = [authored EXCEPT ![d] = StillAuthored(d, jobs[j].from)]
      /\ UNCHANGED <<template, jobs, rolling>>
  <2>1. Writes(j) /\ UNCHANGED <<template, jobs, rolling>>
    BY DEF Commits, ApplyCommit, AnswerLost
  <2>. QED
    BY <2>1, Zenon DEF Writes
<1>8. pages' \in [Pages -> Page] /\ \A e \in Pages : pages'[e].synced <= Latest
  <2> HIDE DEF c, d
  <2>. QED
    BY <1>2, <1>5, <1>6, <1>7, PutType
<1>9. PICK r \in Run : run' = [run EXCEPT ![j] = r] /\ r.at = "pages"
  <2>1. WithoutFirst(j) \in UNION {[D -> Snapshots] : D \in SUBSET Pages}
    BY <1>t, WithoutFirstType
  <2>2. CASE ApplyCommit(j)
    <3> DEFINE b == run[j].conflicted \/ diverged # {}
               r == [run[j] EXCEPT !.at = "pages", !.seen = WithoutFirst(j), !.read = None,
                                   !.found = None, !.conflicted = b]
    <3>1. run' = [run EXCEPT ![j] = r]
      BY <2>2, <1>r DEF ApplyCommit, Run
    <3>2. b \in BOOLEAN
      BY <1>r, RunFields
    <3> HIDE DEF b
    <3>3. r \in Run /\ r.at = "pages"
      BY <2>1, <3>2, <1>r DEF Run
    <3>. QED
      BY <3>1, <3>3
  <2>3. CASE AnswerLost(j)
    <3> DEFINE r == [run[j] EXCEPT !.at = "pages", !.seen = WithoutFirst(j), !.read = None,
                      !.found = None, !.unclean = run[j].unclean + 1, !.conflicted = TRUE,
                      !.misled = TRUE]
    <3>1. run' = [run EXCEPT ![j] = r]
      BY <2>3, <1>r DEF AnswerLost, Run
    <3>2. run[j].unclean + 1 \in Nat
      BY <1>r, RunFields
    <3>3. r \in Run /\ r.at = "pages"
      BY <2>1, <3>2, <1>r DEF Run
    <3>. QED
      BY <3>1, <3>3
  <2>. QED
    BY <2>2, <2>3 DEF Commits
<1>10. PICK row \in Conflict \cup {None} : conflicts' = [conflicts EXCEPT ![j][d] = row]
  <2>1. diverged \in SUBSET Slots
    BY DEF DivergedSeen, Diverged, Patched
  <2>2. conflicts[j][d] \in Conflict \cup {None}
    BY <1>2, <1>r
  <2>3. CASE ApplyCommit(j)
    BY <2>1, <2>2, <2>3, RowType DEF ApplyCommit
  <2>4. CASE AnswerLost(j)
    BY <2>1, <2>4, RowType DEF AnswerLost
  <2>. QED
    BY <2>3, <2>4 DEF Commits
<1>11. authored' \in [Pages -> SUBSET Slots]
  BY <1>2, <1>7, <1>t, StillAuthoredType DEF TypeOK
<1>12. jobs[j].from < jobs[j].to /\ jobs[j].checkpoint.template <= Latest
  BY <1>3, <1>t DEF Shape
<1>14. events' \in 0 .. MaxEvents
  BY <1>t, EventType DEF Commits, ApplyCommit, AnswerLost, TypeOK
<1> HIDE DEF d, diverged, c
<1>13. /\ conflicts' \in [Jobs -> [Pages -> Conflict \cup {None}]]
       /\ \A k \in Jobs, e \in Pages : k # j => conflicts'[k][e] = conflicts[k][e]
  BY <1>2, <1>10, <1>r
<1> DEFINE b0 == jobs[j]
<1>16. /\ run' = [run EXCEPT ![j] = r] /\ jobs' = [jobs EXCEPT ![j] = b0]
       /\ UNCHANGED <<template, rolling>>
  BY <1>7, <1>9, <1>t DEF TypeOK
<1>17. /\ b0 \in Job \cup {None} /\ b0 # None
       /\ b0.from < b0.to /\ b0.to <= Latest /\ b0.checkpoint.template <= Latest
  BY <1>3, <1>5, <1>12
<1>18. OnlyConflictsOf(j)
  BY <1>13 DEF OnlyConflictsOf
<1> HIDE DEF b0
<1>19. r.at = "apply" => DOMAIN r.seen # {} /\ r.read # None /\ r.found = r.read
  BY <1>9
<1>. QED
  BY <1>8, <1>9, <1>11, <1>13, <1>14, <1>16, <1>17, <1>18, <1>19, JobType

LEMMA JobStepType ==
  ASSUME TypeInv, NEW j \in Jobs,
         JobStep(j) \/ ApplyFails(j) \/ AnswerLost(j) \/ ProcessFails(j) \/ Dies(j)
  PROVE TypeInv'
<1>t. TypeOK /\ Shape
  BY DEF TypeInv
<1>n. NoRun \in Run /\ NoRun.at = "off"
  BY RunFields DEF NoRun
<1>1. CASE Claim(j) \/ List(j) \/ Finish(j) \/ EndBatch(j) \/ ApplyRead(j)
  BY <1>1, ListType
<1>2. CASE Report(j)
  <2>1. Live(j) /\ Left(j) # {} /\ LeaveBehind(j) /\ events' = events
    BY <1>2 DEF Report, Comparable, Live
  <2>. QED
    BY <2>1, <1>t, LeaveBehindType DEF TypeOK
<1>3. CASE ApplyFails(j)
  <2>1. Live(j) /\ Left(j) # {} /\ LeaveBehind(j) /\ Event
    BY <1>3, <1>t DEF ApplyFails, Live, Shape
  <2>. QED
    BY <2>1, <1>t, EventType, LeaveBehindType
<1>4. CASE ApplyCommit(j) \/ AnswerLost(j)
  BY <1>4, CommitType DEF Commits
<1>5. CASE Dies(j)
  <2>1. /\ Live(j) /\ Event /\ run' = [run EXCEPT ![j] = NoRun]
        /\ UNCHANGED <<template, pages, jobs, conflicts, rolling, authored>>
    BY <1>5 DEF Dies
  <2>. QED
    BY <2>1, <1>n, <1>t, EventType, RunType
<1>6. CASE ProcessFails(j) \/ ListedUnreadable(j)
  <2> DEFINE b == [jobs[j] EXCEPT !.status = "failed"]
  <2>1. Live(j) /\ jobs[j] \in Job /\ jobs[j] # None
    BY <1>6, <1>t DEF ProcessFails, ListedUnreadable, Live, TypeOK, Shape
  <2>2. b \in Job /\ b.from = jobs[j].from /\ b.to = jobs[j].to /\ b.checkpoint = jobs[j].checkpoint
    BY <2>1 DEF Job
  <2>3. /\ jobs' = [jobs EXCEPT ![j] = b] /\ run' = [run EXCEPT ![j] = NoRun]
        /\ Event \/ UNCHANGED events
        /\ UNCHANGED <<template, pages, conflicts, rolling, authored>>
    BY <1>6 DEF ProcessFails, ListedUnreadable
  <2>4. b # None /\ b.from < b.to /\ b.to <= Latest /\ b.checkpoint.template <= Latest
    BY <2>1, <2>2, <1>t DEF Shape
  <2>5. /\ pages' \in [Pages -> Page] /\ \A d \in Pages : pages'[d].synced <= Latest
        /\ authored' \in [Pages -> SUBSET Slots] /\ events' \in 0 .. MaxEvents
        /\ conflicts' \in [Jobs -> [Pages -> Conflict \cup {None}]] /\ OnlyConflictsOf(j)
    BY <2>3, <1>t, EventType DEF TypeOK, Shape, OnlyConflictsOf
  <2>6. b \in Job \cup {None}
    BY <2>2
  <2> HIDE DEF b
  <2>. QED
    BY <2>3, <2>4, <2>5, <2>6, <1>n, JobType
<1>. QED
  BY <1>1, <1>2, <1>3, <1>4, <1>5, <1>6 DEF JobStep

LEMMA RollbackType ==
  ASSUME TypeInv, NEW j \in Jobs, RollbackRevert(j) \/ RollbackReset(j)
  PROVE TypeInv'
<1>t. TypeOK /\ Shape
  BY DEF TypeInv
<1>p. \A d \in Pages : pages[d] \in Page /\ pages[d].synced \in Nat /\ pages[d].synced <= Latest
  BY LatestType
<1>1. CASE RollbackRevert(j)
  <2>1. jobs[j] # None /\ jobs[j] \in Job
    BY <1>1, <1>t DEF RollbackRevert, TypeOK
  <2>2. template[jobs[j].checkpoint.template] \in Contents
    BY <2>1, DeltaVersions
  <2>3. /\ template' \in Seq(Contents) /\ Len(template') \in VersionNumbers
        /\ Latest' = Latest + 1 /\ Latest \in Nat
    BY <1>1, <2>2, GrowthType DEF RollbackRevert
  <2>4. \A d \in Recorded(j) : jobs[j].checkpoint.tips[d] \in Snapshots
    BY <2>1, ContentsAreSnapshots DEF Recorded, Job, Checkpoint
  <2>0. PICK lost \in SUBSET MayBeLost(j) : Reverted(j, lost)
    BY <1>1 DEF RollbackRevert
  <2>5. ASSUME NEW d \in Pages PROVE pages'[d] \in Page /\ pages'[d].synced = pages[d].synced
    <3>1. pages'[d] = IF d \in lost THEN [pages[d] EXCEPT !.tip = Unreadable]
                      ELSE IF d \in Recorded(j)
                      THEN [pages[d] EXCEPT !.tip = jobs[j].checkpoint.tips[d]] ELSE pages[d]
      BY <2>0 DEF Reverted
    <3>. QED
      BY <3>1, <2>4, <1>p, ContentsAreSnapshots DEF Page
  <2>6. pages' \in [Pages -> Page]
    BY <2>5, <2>0 DEF Reverted
  <2>12. authored' \in [Pages -> SUBSET Slots]
    <3>1. \A S \in SUBSET Slots : \A v, w : Since(S, v, w) \in SUBSET Slots
      BY DEF Since
    <3>2. \A d \in Pages : jobs[j].checkpoint.authored[d] \in SUBSET Slots
      BY <2>1 DEF Job, Checkpoint
    <3>3. \A d \in Pages : authored[d] \in SUBSET Slots
      BY <1>t DEF TypeOK
    <3>. QED
      BY <2>0, <3>1, <3>2, <3>3 DEF Reverted
  <2>7. rolling' \in [Jobs -> {"no", "reverted", "done"}]
        /\ UNCHANGED <<jobs, conflicts, run, events>>
    BY <1>1, <1>t DEF RollbackRevert, TypeOK
  <2>8. TypeOK'
    BY <2>3, <2>6, <2>7, <2>12, <1>t DEF TypeOK
  <2>9. \A k \in Jobs : jobs[k] # None => jobs[k].to \in Nat /\ jobs[k].checkpoint.template \in Nat
    BY <1>t DEF TypeOK, Job, Checkpoint, VersionNumbers
  <2>10. \A k \in Jobs : rolling'[k] = "reverted" => rolling[k] = "reverted" \/ k = j
    BY <1>1, <1>t DEF RollbackRevert, TypeOK
  <2>11. Shape'
    BY <2>1, <2>3, <2>5, <2>7, <2>9, <2>10, <1>p, <1>t DEF Shape, Live, Left
  <2>. QED
    BY <2>8, <2>11 DEF TypeInv
<1>2. CASE RollbackReset(j)
  <2>1. jobs[j] # None /\ jobs[j] \in Job
    BY <1>2, <1>t DEF RollbackReset, TypeOK, Shape
  <2>2. jobs[j].from \in VersionNumbers /\ jobs[j].from <= Latest
    BY <2>1, DeltaVersions DEF Job
  <2> DEFINE b == [jobs[j] EXCEPT !.status = "failed"]
  <2>3. b \in Job /\ b.from = jobs[j].from /\ b.to = jobs[j].to /\ b.checkpoint = jobs[j].checkpoint
    BY <2>1 DEF Job
  <2>4. ASSUME NEW d \in Pages PROVE pages'[d] \in Page /\ pages'[d].synced <= Latest
    <3>1. pages'[d] = IF d \in AtTarget(j) THEN [pages[d] EXCEPT !.synced = jobs[j].from]
                      ELSE pages[d]
      BY <1>2 DEF RollbackReset
    <3>. QED
      BY <3>1, <2>2, <1>p DEF Page
  <2>5. pages' \in [Pages -> Page]
    BY <2>4, <1>2 DEF RollbackReset
  <2>13. \A d \in Pages : StillAuthored(d, jobs[j].from) \in SUBSET Slots /\ authored[d] \in SUBSET Slots
    BY <1>t, StillAuthoredType DEF TypeOK
  <2>6. /\ jobs' = [jobs EXCEPT ![j] = b]
        /\ authored' \in [Pages -> SUBSET Slots] /\ rolling' \in [Jobs -> {"no", "reverted", "done"}]
        /\ UNCHANGED <<template, conflicts, run, events>>
    BY <1>2, <2>13, <1>t DEF RollbackReset, TypeOK
  <2> HIDE DEF b
  <2>7. TypeOK'
    BY <2>3, <2>5, <2>6, <1>t DEF TypeOK
  <2>8. \A k \in Jobs : rolling'[k] = "reverted" => rolling[k] = "reverted"
    BY <1>2, <1>t DEF RollbackReset, TypeOK
  <2>9. \A k \in Jobs : jobs'[k] = IF k = j THEN b ELSE jobs[k]
    BY <2>6, <1>t DEF TypeOK
  <2>10. b # None
    BY <2>3
  <2>11. Latest' = Latest
    BY <2>6 DEF Latest
  <2>12. Shape'
    BY <2>1, <2>3, <2>4, <2>6, <2>8, <2>9, <2>10, <2>11, <1>t DEF Shape, Live, Left
  <2>. QED
    BY <2>7, <2>12 DEF TypeInv
<1>. QED
  BY <1>1, <1>2

\* A resolution changes its row and perhaps its page.
LEMMA RowOfType ==
  ASSUME TypeInv, NEW j \in Jobs, NEW d \in Pages, conflicts[j][d] # None,
         NEW row \in Conflict, conflicts' = [conflicts EXCEPT ![j][d] = row],
         pages' \in [Pages -> Page], \A e \in Pages : pages'[e].synced <= Latest,
         authored' \in [Pages -> SUBSET Slots],
         UNCHANGED <<template, jobs, run, rolling, events>>
  PROVE TypeInv'
<1>t. TypeOK /\ Shape
  BY DEF TypeInv
<1> DEFINE r == run[j]
           b == jobs[j]
<1>1. b # None /\ b \in Job \cup {None} /\ r \in Run
  BY <1>t DEF TypeOK, Shape
<1>2. b.from < b.to /\ b.to <= Latest /\ b.checkpoint.template <= Latest
  BY <1>1, <1>t DEF Shape
<1>3. r.at = "apply" => DOMAIN r.seen # {} /\ r.read # None /\ r.found = r.read
  BY <1>t DEF Shape, Left
<1>4. jobs' = [jobs EXCEPT ![j] = b] /\ run' = [run EXCEPT ![j] = r] /\ events' \in 0 .. MaxEvents
  BY <1>t DEF TypeOK
<1>5. conflicts' \in [Jobs -> [Pages -> Conflict \cup {None}]] /\ OnlyConflictsOf(j)
  BY <1>t DEF TypeOK, OnlyConflictsOf
<1> HIDE DEF r, b
<1>. QED
  BY <1>1, <1>2, <1>3, <1>4, <1>5, JobType

LEMMA TipType ==
  ASSUME TypeInv, NEW d \in Pages
  PROVE pages[d].tip \in Snapshots
  BY DEF TypeInv, TypeOK, Page

LEMMA ConflictFields ==
  ASSUME TypeInv, NEW j \in Jobs, NEW d \in Pages, conflicts[j][d] # None
  PROVE /\ conflicts[j][d] \in Conflict /\ conflicts[j][d].read \in Snapshots \cup {None}
        /\ conflicts[j][d].kind \in {"structural", "prop"}
        /\ conflicts[j][d].props \in SUBSET Slots
        /\ \A x \in {"apply", "skip"} : [conflicts[j][d] EXCEPT !.resolution = x] \in Conflict
        /\ \A c \in Snapshots \cup {None} : [conflicts[j][d] EXCEPT !.read = c] \in Conflict
        /\ [conflicts[j][d] EXCEPT !.resolution = "apply", !.read = None] \in Conflict
<1>1. conflicts[j][d] \in Conflict
  BY DEF TypeInv, TypeOK
<1>. QED
  BY <1>1 DEF Conflict

LEMMA TakenType ==
  ASSUME NEW j, NEW c \in Snapshots, NEW S, To(j) \in Contents
  PROVE Taken(j, c, S) \in Snapshots
  BY DEF Taken, Snapshots, Contents

LEMMA ResolveType ==
  ASSUME TypeInv, NEW j \in Jobs, NEW d \in Pages,
         ResolveSkip(j, d) \/ ResolveRead(j, d) \/ ResolveCommit(j, d)
  PROVE TypeInv'
<1>t. TypeOK /\ Shape
  BY DEF TypeInv
<1>p. pages \in [Pages -> Page] /\ (\A e \in Pages : pages[e].synced <= Latest)
      /\ authored \in [Pages -> SUBSET Slots] /\ conflicts \in [Jobs -> [Pages -> Conflict \cup {None}]]
  BY <1>t DEF TypeOK, Shape
<1>c. conflicts[j][d] # None
  BY DEF ResolveSkip, ResolveRead, ResolveCommit, Open
<1>1. CASE ResolveSkip(j, d)
  <2> DEFINE row == [conflicts[j][d] EXCEPT !.resolution = "skip"]
  <2>1. row \in Conflict
    BY <1>c, ConflictFields
  <2>2. conflicts' = [conflicts EXCEPT ![j][d] = row]
        /\ UNCHANGED <<template, pages, jobs, run, rolling, events, authored>>
    BY <1>1, <1>p DEF ResolveSkip
  <2> HIDE DEF row
  <2>. QED
    BY <2>1, <2>2, <1>c, <1>p, RowOfType
<1>2. CASE ResolveRead(j, d)
  <2> DEFINE row == [conflicts[j][d] EXCEPT !.read = pages[d].tip]
  <2>1. pages[d].tip \in Snapshots
    BY <1>p DEF Page
  <2>2. row \in Conflict
    BY <1>c, <2>1, ConflictFields
  <2>3. conflicts' = [conflicts EXCEPT ![j][d] = row]
        /\ UNCHANGED <<template, pages, jobs, run, rolling, events, authored>>
    BY <1>2, <1>p DEF ResolveRead
  <2> HIDE DEF row
  <2>. QED
    BY <2>2, <2>3, <1>c, <1>p, RowOfType
<1>3. CASE ResolveCommit(j, d)
  <2> DEFINE row == [conflicts[j][d] EXCEPT !.resolution = "apply", !.read = None]
  <2>1. row \in Conflict
    BY <1>c, ConflictFields
  <2>2. /\ conflicts' = [conflicts EXCEPT ![j][d] = row]
        /\ UNCHANGED <<template, jobs, run, rolling, events>>
        /\ conflicts[j][d].read # None
    BY <1>3, <1>p DEF ResolveCommit
  <2>3. conflicts[j][d].read \in Snapshots /\ conflicts[j][d].props \in SUBSET Slots
    BY <2>2, <1>c, ConflictFields
  <2>4. jobs[j] # None
    BY <1>c, <1>t DEF Shape
  <2>5. From(j) \in Contents /\ To(j) \in Contents
        /\ jobs[j].to \in VersionNumbers /\ jobs[j].to <= Latest
    BY <2>4, DeltaVersions, <1>t DEF Job, Shape
  <2>6. /\ pages' \in [Pages -> Page] /\ \A e \in Pages : pages'[e].synced <= Latest
        /\ authored' \in [Pages -> SUBSET Slots]
    <3>1. CASE conflicts[j][d].kind = "prop"
      <4> DEFINE c == Taken(j, conflicts[j][d].read, conflicts[j][d].props)
      <4>1. c \in Snapshots
        BY <2>3, <2>5, TakenType
      <4>2. /\ pages' = [pages EXCEPT ![d] = WithMigration(pages[d], c)]
            /\ authored' = [authored EXCEPT ![d] = authored[d] \cup conflicts[j][d].props]
        BY <1>3, <3>1 DEF ResolveCommit
      <4> HIDE DEF c
      <4>3. WithMigration(pages[d], c) \in Page /\ WithMigration(pages[d], c).synced = pages[d].synced
        BY <4>1, <1>p, WithMigrationType
      <4>4. pages' \in [Pages -> Page] /\ \A e \in Pages : pages'[e].synced <= Latest
        BY <4>2, <4>3, <1>p
      <4>. QED
        BY <4>2, <4>4, <2>3, <1>p
    <3>2. CASE conflicts[j][d].kind = "structural"
      <4> DEFINE c == Migrated(conflicts[j][d].read, From(j), To(j))
      <4>1. c \in Snapshots
        BY <2>3, <2>5, MigratedType
      <4>2. /\ pages' = [pages EXCEPT ![d] = [WithMigration(@, c) EXCEPT !.synced = jobs[j].to]]
            /\ authored' = [authored EXCEPT ![d] = StillAuthored(d, jobs[j].from)]
        BY <1>3, <3>2, Zenon DEF ResolveCommit
      <4> HIDE DEF c
      <4>3. pages' \in [Pages -> Page] /\ \A e \in Pages : pages'[e].synced <= Latest
        BY <4>1, <4>2, <2>5, PutType
      <4>. QED
        BY <4>2, <4>3, <1>t, <1>p, StillAuthoredType
    <3>. QED
      BY <3>1, <3>2, <1>c, ConflictFields
  <2> HIDE DEF row
  <2>. QED
    BY <2>1, <2>2, <2>6, <1>c, RowOfType
<1>. QED
  BY <1>1, <1>2, <1>3

LEMMA StepType == TypeInv /\ [Next]_vars => TypeInv'
<1> SUFFICES ASSUME TypeInv, [Next]_vars PROVE TypeInv'
  OBVIOUS
<1>1. CASE UNCHANGED vars
  BY <1>1 DEF vars, TypeInv, TypeOK, Shape, Latest, Live, Left
<1>2. CASE Next
  BY <1>2, AuthorsType, TriggerType, JobStepType, RollbackType, ResolveType DEF Next
<1>. QED
  BY <1>1, <1>2

\* Whatever authors, jobs and operators do, and wherever they fail, a job's versions
\* stay versions of the template, and a page's synced_version one of them.
THEOREM MigrationTypeOK == Spec => []TypeOK
<1>1. TypeInv => TypeOK
  BY DEF TypeInv
<1>. QED
  BY <1>1, InitType, StepType, PTL DEF Spec

-----------------------------------------------------------------------------
\* What a transaction does to its page.

LEMMA ApplyStep ==
  ASSUME TypeInv, Next, NEW j \in Jobs, run[j].at = "apply", run'[j].at = "pages"
  PROVE Commits(j) \/ ApplyFails(j)
<1>t. run \in [Jobs -> Run] /\ run[j].at # "pages" /\ NoRun.at = "off"
  BY DEF TypeInv, TypeOK, NoRun
<1>1. ASSUME UNCHANGED run PROVE FALSE
  BY <1>1, <1>t
<1>2. ASSUME NEW k \in Jobs, NEW r, run' = [run EXCEPT ![k] = r] PROVE k = j /\ r.at = "pages"
  BY <1>2, <1>t
<1>3. ~(\E s \in Slots, v \in Values \cup {Absent} :
           EditTemplate(s, v) \/ \E d \in Pages : Edit(d, s, v))
  BY <1>1 DEF EditTemplate, Edit
<1>4. ~(\E d \in Pages : \/ Create(d) \/ Recreate(d) \/ Delete(d) \/ Archive(d)
                        \/ \E c \in Contents : Rewrite(d, c))
  BY <1>1 DEF Create, Recreate, Delete, Archive, Rewrite
<1>5. PICK k \in Jobs :
          \/ \E from, to \in VersionNumbers : Trigger(k, from, to)
          \/ JobStep(k) \/ ApplyFails(k) \/ AnswerLost(k) \/ ProcessFails(k) \/ Dies(k)
          \/ RollbackRevert(k) \/ RollbackReset(k)
          \/ \E d \in Pages : ResolveSkip(k, d) \/ ResolveRead(k, d) \/ ResolveCommit(k, d)
  BY <1>3, <1>4 DEF Next
<1>6. ~(RollbackRevert(k) \/ RollbackReset(k)
        \/ \E d \in Pages : ResolveSkip(k, d) \/ ResolveRead(k, d) \/ ResolveCommit(k, d))
  BY <1>1 DEF RollbackRevert, RollbackReset, ResolveSkip, ResolveRead, ResolveCommit
<1>7. ~(ProcessFails(k) \/ ListedUnreadable(k) \/ Dies(k) \/ Finish(k))
  BY <1>2, <1>t DEF ProcessFails, ListedUnreadable, Dies, Finish
<1>8. ASSUME NEW from \in VersionNumbers, NEW to \in VersionNumbers, Trigger(k, from, to) PROVE FALSE
  <2>1. run' = [run EXCEPT ![k] = [run[k] EXCEPT !.at = "queued"]]
    BY <1>8 DEF Trigger
  <2>2. [run[k] EXCEPT !.at = "queued"].at = "queued"
    BY <1>t DEF Run
  <2>. QED
    BY <2>1, <2>2, <1>2
<1>9. ASSUME Claim(k) \/ EndBatch(k) PROVE FALSE
  <2>1. PICK r \in Run : run' = [run EXCEPT ![k] = r] /\ r.at = "list"
    <3>1. CASE Claim(k)
      BY <3>1, <1>t DEF Claim, Run
    <3>2. CASE EndBatch(k)
      <4>1. NextOffset(k) \in Nat
        BY <1>t, RunFields DEF NextOffset
      <4>. QED
        BY <3>2, <4>1, <1>t DEF EndBatch, Run
    <3>. QED
      BY <1>9, <3>1, <3>2
  <2>. QED
    BY <2>1, <1>2
<1>10. ASSUME List(k) \/ Report(k) \/ ApplyRead(k) PROVE FALSE
  <2>1. run[k].at # "apply"
    BY <1>10 DEF List, Report, ApplyRead, Comparable
  <2>2. \E r : run' = [run EXCEPT ![k] = r]
    BY <1>10 DEF List, Report, ApplyRead, LeaveBehind
  <2>. QED
    BY <2>1, <2>2, <1>2
<1>11. ASSUME ApplyCommit(k) \/ AnswerLost(k) \/ ApplyFails(k) PROVE k = j
  BY <1>11, <1>2 DEF ApplyCommit, AnswerLost, ApplyFails, LeaveBehind
<1>. QED
  BY <1>5, <1>6, <1>7, <1>8, <1>9, <1>10, <1>11 DEF JobStep, Commits

LEMMA CommitPuts ==
  ASSUME TypeInv, NEW j \in Jobs, Commits(j), NEW d, d = Next1(j)
  PROVE /\ run[j].at = "apply" /\ jobs[j] # None /\ d \in Left(j) /\ d \in Pages
        /\ From(j) \in Contents /\ To(j) \in Contents
        /\ jobs[j].to \in VersionNumbers /\ jobs[j].to <= Latest
        /\ run[j].read \in Snapshots /\ Seen(j) \in Contents
        /\ pages'[d].tip = Migrated(run[j].read, From(j), To(j))
        /\ Of(pages'[d].tip) = ApplyDelta(Of(run[j].read), From(j), To(j))
        /\ pages'[d].synced = jobs[j].to /\ pages'[d].status = pages[d].status
        /\ \A e \in Pages \ {d} : pages'[e] = pages[e]
        /\ Diverged(Seen(j), From(j), To(j)) # {} =>
              /\ conflicts'[j][d] # None
              /\ conflicts'[j][d].props = Diverged(Seen(j), From(j), To(j))
<1>t. TypeOK /\ Shape
  BY DEF TypeInv
<1>1. run[j].at = "apply" /\ Live(j) /\ Left(j) # {} /\ run[j].read # None
  BY <1>t DEF Commits, ApplyCommit, AnswerLost, Live, Shape
<1>2. d \in Pages /\ d \in Left(j) /\ Seen(j) \in Contents
  BY <1>1, <1>t, FirstOfBatch
<1>3. jobs[j] # None
  BY <1>1, <1>t DEF Shape
<1>4. run[j].read \in Snapshots
  BY <1>1, <1>t, RunFields DEF TypeOK
<1>5. From(j) \in Contents /\ To(j) \in Contents
      /\ jobs[j].to \in VersionNumbers /\ jobs[j].to <= Latest
  BY <1>3, DeltaVersions, <1>t DEF Job, Shape
<1> DEFINE c == Migrated(run[j].read, From(j), To(j))
           diverged == Diverged(Seen(j), From(j), To(j))
<1>6. c \in Snapshots /\ Of(c) = ApplyDelta(Of(run[j].read), From(j), To(j))
  BY <1>4, <1>5, MigratedType
<1>7. pages' = [pages EXCEPT ![d] = [WithMigration(@, c) EXCEPT !.synced = jobs[j].to]]
  <2>1. Writes(j)
    BY DEF Commits, ApplyCommit, AnswerLost
  <2>. QED
    BY <2>1, Zenon DEF Writes
<1>8. diverged \in SUBSET Slots
  BY DEF Diverged, Patched
<1>9. ASSUME diverged # {} PROVE conflicts'[j][d] # None /\ conflicts'[j][d].props = diverged
  <2> HIDE DEF diverged
  <2>1. PICK kind \in {"prop", "structural"} :
            conflicts' = [conflicts EXCEPT ![j][d] = Row(kind, diverged)]
    BY <1>9 DEF Commits, ApplyCommit, AnswerLost, DivergedSeen, diverged
  <2>2. conflicts'[j][d] = Row(kind, diverged)
    BY <2>1, <1>2, <1>t DEF TypeOK
  <2>3. Row(kind, diverged) \in Conflict
    BY <1>8, RowType
  <2>. QED
    BY <2>2, <2>3 DEF Row
<1>10. /\ pages'[d].tip = c /\ pages'[d].synced = jobs[j].to /\ pages'[d].status = pages[d].status
       /\ \A e \in Pages \ {d} : pages'[e] = pages[e]
  <2> DEFINE v == jobs[j].to
  <2>1. pages' = [pages EXCEPT ![d] = [WithMigration(@, c) EXCEPT !.synced = v]]
        /\ v \in VersionNumbers /\ v <= Latest /\ c \in Snapshots /\ d \in Pages
    BY <1>2, <1>5, <1>6, <1>7
  <2> HIDE DEF c, v
  <2>2. pages'[d].tip = c /\ pages'[d].synced = v /\ pages'[d].status = pages[d].status
    BY <2>1, PutType
  <2>3. ASSUME NEW e \in Pages \ {d} PROVE pages'[e] = pages[e]
    BY <2>1, PutType
  <2>. QED
    BY <2>2, <2>3 DEF v
<1>. QED
  BY <1>1, <1>2, <1>3, <1>4, <1>5, <1>6, <1>9, <1>10

\* A step that applies a delta is the commit of the transaction.
LEMMA AppliesCommits ==
  ASSUME TypeInv, [Next]_vars, NEW j \in Jobs, NEW d \in Pages, Applies(j, d)
  PROVE /\ Commits(j) /\ Of(pages[d].tip) = Of(run[j].read)
        /\ AsListed(j, d) => Seen(j) = Of(run[j].read)
<1>1. Next
  BY DEF Applies, vars
<1>2. Commits(j) \/ ApplyFails(j)
  BY <1>1, ApplyStep DEF Applies
<1>3. ~ApplyFails(j)
  BY DEF Applies, ApplyFails, LeaveBehind
<1>4. pages[d].tip = run[j].read
  BY DEF Applies, TypeInv, Shape
<1>. QED
  BY <1>2, <1>3, <1>4 DEF Applies, AsListed, Seen

\* A slot the template changed is changed on the page, gone from it, or reported.
THEOREM MigrationReportsDivergence == Spec => DivergenceIsReported
<1>1. ASSUME TypeInv, [Next]_vars, NEW j \in Jobs, NEW d \in Pages, Applies(j, d), AsListed(j, d),
             NEW s \in Patched(From(j), To(j))
      PROVE \/ Of(pages'[d].tip)[s] \in {Absent, To(j)[s]}
            \/ conflicts'[j][d] # None /\ s \in conflicts'[j][d].props
  <2> DEFINE c == Of(run[j].read)
  <2>1. Commits(j) /\ Seen(j) = c /\ d = Next1(j)
    BY <1>1, AppliesCommits DEF Applies
  <2>2. /\ From(j) \in Contents /\ To(j) \in Contents /\ c \in Contents
        /\ Of(pages'[d].tip) = ApplyDelta(c, From(j), To(j))
        /\ Diverged(c, From(j), To(j)) # {} =>
              conflicts'[j][d] # None /\ conflicts'[j][d].props = Diverged(c, From(j), To(j))
    BY <1>1, <2>1, CommitPuts
  <2>3. s \in Slots
    BY DEF Patched
  <2>4. CASE c[s] = From(j)[s]
    BY <2>2, <2>3, <2>4, DeltaBySlot
  <2>5. CASE c[s] = Absent
    BY <2>2, <2>3, <2>5, DeltaBySlot
  <2>6. CASE c[s] \notin {Absent, From(j)[s]}
    <3>1. s \in Diverged(c, From(j), To(j))
      BY <2>6, <1>1 DEF Diverged
    <3>. QED
      BY <2>2, <3>1
  <2>. QED
    BY <2>4, <2>5, <2>6
<1>2. TypeInv /\ [Next]_vars => [\A j \in Jobs, d \in Pages : Applies(j, d) /\ AsListed(j, d) =>
          \A s \in Patched(From(j), To(j)) :
             \/ Of(pages'[d].tip)[s] \in {Absent, To(j)[s]}
             \/ conflicts'[j][d] # None /\ s \in conflicts'[j][d].props]_vars
  BY <1>1
<1>. QED
  BY <1>2, InitType, StepType, PTL DEF Spec, DivergenceIsReported

-----------------------------------------------------------------------------
\* What any step does to a job, to a row and to a rollback.

Working(j) == run[j].at \in {"pages", "apply"}

LEMMA RunStep ==
  ASSUME TypeInv, Next, NEW j \in Jobs
  PROVE \/ run'[j] = run[j]
        \/ run'[j].at = "queued" /\ \E from, to \in VersionNumbers : Trigger(j, from, to)
        \/ /\ run'[j].at = "off" /\ Live(j)
           /\ Finish(j) \/ ListedUnreadable(j) \/ ProcessFails(j) \/ Dies(j)
        \/ run'[j].at = "list" /\ Live(j) /\ (Claim(j) \/ EndBatch(j))
        \/ List(j) /\ run'[j].at = "pages" /\ Left(j)' = Listed(j)
        \/ ApplyRead(j) /\ run'[j].at = "apply" /\ run'[j].seen = run[j].seen
           /\ run'[j].read = pages[Next1(j)].tip
        \/ /\ Commits(j) \/ LeaveBehind(j)
           /\ Working(j) /\ Left(j) # {}
           /\ run'[j].at = "pages" /\ Left(j)' \subseteq Left(j)
<1>t. run \in [Jobs -> Run] /\ run[j] \in Run /\ NoRun.at = "off" /\ TypeOK
  BY DEF TypeInv, TypeOK, NoRun
<1>1. CASE \E s \in Slots, v \in Values \cup {Absent} :
              EditTemplate(s, v) \/ \E d \in Pages : Edit(d, s, v)
  BY <1>1 DEF EditTemplate, Edit
<1>2. CASE \E d \in Pages : \/ Create(d) \/ Recreate(d) \/ Delete(d) \/ Archive(d)
                            \/ \E c \in Contents : Rewrite(d, c)
  BY <1>2 DEF Create, Recreate, Delete, Archive, Rewrite
<1>3. ASSUME NEW k \in Jobs,
             RollbackRevert(k) \/ RollbackReset(k)
             \/ \E d \in Pages : ResolveSkip(k, d) \/ ResolveRead(k, d) \/ ResolveCommit(k, d)
      PROVE run'[j] = run[j]
  BY <1>3 DEF RollbackRevert, RollbackReset, ResolveSkip, ResolveRead, ResolveCommit
<1>4. ASSUME NEW k \in Jobs, NEW from \in VersionNumbers, NEW to \in VersionNumbers, Trigger(k, from, to)
      PROVE run'[j] = run[j] \/ (k = j /\ run'[j].at = "queued")
  BY <1>4, <1>t DEF Trigger, Run
<1>5. ASSUME NEW k \in Jobs, k # j, JobStep(k) \/ ApplyFails(k) \/ AnswerLost(k) \/ ProcessFails(k) \/ Dies(k)
      PROVE run'[j] = run[j]
  BY <1>5, <1>t DEF JobStep, ApplyFails, AnswerLost, ProcessFails, Dies, Claim, List, Report,
                    ListedUnreadable, ApplyRead, ApplyCommit, EndBatch, Finish, LeaveBehind
<1>6. CASE Claim(j)
  BY <1>6, <1>t DEF Claim, Run, Live
<1>7. CASE ListedUnreadable(j) \/ ProcessFails(j) \/ Dies(j) \/ Finish(j)
  BY <1>7, <1>t DEF ListedUnreadable, ProcessFails, Dies, Finish, Live
<1>8. CASE EndBatch(j)
  <2>1. run'[j] = [run[j] EXCEPT !.at = "list", !.offset = NextOffset(j), !.unclean = 0]
    BY <1>8, <1>t DEF EndBatch
  <2>. QED
    BY <2>1, <1>8, <1>t DEF Run, Live, EndBatch
<1>9. CASE List(j)
  <2> DEFINE seen == [d \in Listed(j) |-> pages[d].tip]
  <2>1. run'[j] = [run[j] EXCEPT !.at = "pages", !.seen = seen]
    BY <1>9, <1>t DEF List
  <2>2. DOMAIN seen = Listed(j)
    OBVIOUS
  <2> HIDE DEF seen
  <2>3. run'[j].at = "pages" /\ run'[j].seen = seen
    BY <2>1, <1>t DEF Run
  <2>. QED
    BY <1>9, <2>2, <2>3 DEF Left
<1>10. CASE ApplyRead(j)
  <2>1. run'[j] = [run[j] EXCEPT !.at = "apply", !.read = pages[Next1(j)].tip,
                                 !.found = pages[Next1(j)].tip]
    BY <1>10, <1>t DEF ApplyRead
  <2>. QED
    BY <2>1, <1>10, <1>t DEF Run
<1>11. CASE Commits(j) \/ Report(j) \/ ApplyFails(j)
  <2>1. (Commits(j) \/ LeaveBehind(j)) /\ Working(j) /\ Left(j) # {}
    BY <1>11 DEF Commits, ApplyCommit, AnswerLost, Report, Comparable, ApplyFails, Working, TypeInv,
                 Shape
  <2>2. DOMAIN WithoutFirst(j) \subseteq Left(j)
    BY DEF WithoutFirst
  <2>3. run'[j].at = "pages" /\ run'[j].seen = WithoutFirst(j)
    <3>1. CASE ApplyCommit(j)
      BY <3>1, <1>t DEF ApplyCommit, Run
    <3>2. CASE AnswerLost(j)
      <4>1. run'[j] = [run[j] EXCEPT !.at = "pages", !.seen = WithoutFirst(j), !.read = None,
                !.found = None, !.unclean = run[j].unclean + 1, !.conflicted = TRUE, !.misled = TRUE]
        BY <3>2, <1>t, Zenon DEF AnswerLost
      <4>. QED
        BY <4>1, <1>t DEF Run
    <3>3. CASE LeaveBehind(j)
      BY <3>3, <1>t DEF LeaveBehind, Run
    <3>. QED
      BY <2>1, <3>1, <3>2, <3>3 DEF Commits
  <2>. QED
    BY <2>1, <2>2, <2>3 DEF Left
<1>12. CASE \E k \in Jobs : JobStep(k) \/ ApplyFails(k) \/ AnswerLost(k) \/ ProcessFails(k) \/ Dies(k)
  BY <1>5, <1>6, <1>7, <1>8, <1>9, <1>10, <1>11, <1>12 DEF JobStep, Commits
<1>. QED
  BY <1>1, <1>2, <1>3, <1>4, <1>12 DEF Next

LEMMA CommitPhase ==
  ASSUME TypeInv, NEW j \in Jobs, Commits(j)
  PROVE run[j].at = "apply" /\ run'[j].at = "pages"
<1>t. run \in [Jobs -> Run] /\ run[j] \in Run
  BY DEF TypeInv, TypeOK
<1>1. CASE ApplyCommit(j)
  BY <1>1, <1>t DEF ApplyCommit, Run
<1>2. CASE AnswerLost(j)
  <2>1. run'[j] = [run[j] EXCEPT !.at = "pages", !.seen = WithoutFirst(j), !.read = None,
            !.found = None, !.unclean = run[j].unclean + 1, !.conflicted = TRUE, !.misled = TRUE]
    BY <1>2, <1>t, Zenon DEF AnswerLost
  <2>. QED
    BY <2>1, <1>2, <1>t DEF AnswerLost, Run
<1>. QED
  BY <1>1, <1>2 DEF Commits

LEMMA RowStep ==
  ASSUME TypeInv, Next, NEW j \in Jobs, NEW d \in Pages
  PROVE \/ conflicts'[j][d] = conflicts[j][d]
        \/ /\ conflicts'[j][d] # None /\ conflicts'[j][d].read = None
           /\ \/ conflicts[j][d] # None
              \/ /\ Commits(j) \/ LeaveBehind(j)
                 /\ Working(j) /\ d \in Left(j) /\ d = Next1(j)
        \/ /\ ResolveRead(j, d) /\ conflicts'[j][d].read = pages[d].tip
           /\ conflicts'[j][d] # None
<1>t. conflicts \in [Jobs -> [Pages -> Conflict \cup {None}]] /\ TypeOK /\ Shape
  BY DEF TypeInv, TypeOK
<1>1. ASSUME UNCHANGED conflicts PROVE conflicts'[j][d] = conflicts[j][d]
  BY <1>1
<1>2. CASE \E s \in Slots, v \in Values \cup {Absent} :
              EditTemplate(s, v) \/ \E e \in Pages : Edit(e, s, v)
  BY <1>1, <1>2 DEF EditTemplate, Edit
<1>3. CASE \E e \in Pages : \/ Create(e) \/ Recreate(e) \/ Delete(e) \/ Archive(e)
                            \/ \E c \in Contents : Rewrite(e, c)
  BY <1>1, <1>3 DEF Create, Recreate, Delete, Archive, Rewrite
<1>4. ASSUME NEW k \in Jobs,
             \/ RollbackRevert(k) \/ RollbackReset(k) \/ ProcessFails(k) \/ Dies(k)
             \/ Claim(k) \/ List(k) \/ ListedUnreadable(k) \/ ApplyRead(k) \/ EndBatch(k) \/ Finish(k)
             \/ \E from, to \in VersionNumbers : Trigger(k, from, to)
      PROVE conflicts'[j][d] = conflicts[j][d]
  BY <1>1, <1>4 DEF RollbackRevert, RollbackReset, ProcessFails, Dies, Claim, List,
                    ListedUnreadable, ApplyRead, EndBatch, Finish, Trigger
<1>5. ASSUME NEW k \in Jobs, NEW e \in Pages, NEW row, conflicts' = [conflicts EXCEPT ![k][e] = row]
      PROVE conflicts'[j][d] = IF k = j /\ e = d THEN row ELSE conflicts[j][d]
  BY <1>5, <1>t
<1>6. ASSUME NEW k \in Jobs, Commits(k) \/ Report(k) \/ ApplyFails(k)
      PROVE \/ conflicts'[j][d] = conflicts[j][d]
            \/ /\ conflicts'[j][d] # None /\ conflicts'[j][d].read = None
               /\ Commits(j) \/ LeaveBehind(j)
               /\ Working(j) /\ d \in Left(j) /\ d = Next1(j)
  <2>1. Left(k) # {} /\ Working(k)
    BY <1>6, <1>t DEF Commits, ApplyCommit, AnswerLost, Report, Comparable, ApplyFails, Working, Shape
  <2>2. Next1(k) \in Pages /\ Next1(k) \in Left(k)
    BY <2>1, <1>t, FirstOfBatch
  <2>3. \A kind, props : Row(kind, props).read = None
    BY DEF Row
  <2>6. Row("structural", {}) # None
    BY RowType
  <2>4. CASE LeaveBehind(k)
    <3>1. conflicts' = [conflicts EXCEPT ![k][Next1(k)] = Row("structural", {})]
      BY <2>4 DEF LeaveBehind
    <3>. QED
      BY <3>1, <2>1, <2>2, <2>3, <2>4, <2>6, <1>5
  <2>5. CASE Commits(k)
    <3> DEFINE e == Next1(k)
    <3>0. DivergedSeen(k) \in SUBSET Slots
      BY DEF DivergedSeen, Diverged, Patched
    <3>2. PICK row : conflicts' = [conflicts EXCEPT ![k][e] = row]
                     /\ \/ row = conflicts[k][e]
                        \/ row # None /\ row.read = None
      BY <2>3, <2>5, <3>0, RowType DEF Commits, ApplyCommit, AnswerLost
    <3> HIDE DEF e
    <3>3. e \in Pages /\ e \in Left(k) /\ e = Next1(k)
      BY <2>2 DEF e
    <3>. QED
      BY <3>2, <3>3, <2>1, <2>5, <1>5
  <2>. QED
    BY <1>6, <2>4, <2>5 DEF Report, ApplyFails
<1>7. ASSUME NEW k \in Jobs, NEW e \in Pages, ResolveSkip(k, e) \/ ResolveRead(k, e) \/ ResolveCommit(k, e)
      PROVE \/ conflicts'[j][d] = conflicts[j][d]
            \/ /\ conflicts'[j][d] # None /\ conflicts'[j][d].read = None
               /\ conflicts[j][d] # None
            \/ /\ ResolveRead(j, d) /\ conflicts'[j][d].read = pages[d].tip
               /\ conflicts'[j][d] # None
  <2>1. conflicts[k][e] # None /\ conflicts[k][e] \in Conflict
    BY <1>7, <1>t DEF ResolveSkip, ResolveRead, ResolveCommit, Open
  <2>2. CASE ResolveSkip(k, e)
    <3>1. conflicts' = [conflicts EXCEPT ![k][e] = [conflicts[k][e] EXCEPT !.resolution = "skip"]]
          /\ conflicts[k][e].read = None
      BY <2>2, <1>t DEF ResolveSkip, Open
    <3>2. [conflicts[k][e] EXCEPT !.resolution = "skip"].read = None
      BY <2>1, <3>1 DEF Conflict
    <3>3. [conflicts[k][e] EXCEPT !.resolution = "skip"] \in Conflict
      BY <2>1 DEF Conflict
    <3>. QED
      BY <2>1, <3>1, <3>2, <3>3, <1>5
  <2>3. CASE ResolveRead(k, e)
    <3>1. conflicts' = [conflicts EXCEPT ![k][e] = [conflicts[k][e] EXCEPT !.read = pages[e].tip]]
      BY <2>3, <1>t DEF ResolveRead
    <3>2. [conflicts[k][e] EXCEPT !.read = pages[e].tip].read = pages[e].tip
      BY <2>1 DEF Conflict
    <3>3. [conflicts[k][e] EXCEPT !.read = pages[e].tip] \in Conflict
      BY <2>1, TipType DEF Conflict
    <3>. QED
      BY <2>3, <3>1, <3>2, <3>3, <1>5
  <2>4. CASE ResolveCommit(k, e)
    <3>1. conflicts' = [conflicts EXCEPT ![k][e] =
                           [conflicts[k][e] EXCEPT !.resolution = "apply", !.read = None]]
      BY <2>4, <1>t DEF ResolveCommit
    <3>2. [conflicts[k][e] EXCEPT !.resolution = "apply", !.read = None].read = None
      BY <2>1 DEF Conflict
    <3>3. [conflicts[k][e] EXCEPT !.resolution = "apply", !.read = None] \in Conflict
      BY <2>1 DEF Conflict
    <3>. QED
      BY <2>1, <3>1, <3>2, <3>3, <1>5
  <2>. QED
    BY <1>7, <2>2, <2>3, <2>4
<1>. QED
  BY <1>2, <1>3, <1>4, <1>6, <1>7 DEF Next, JobStep, Commits

LEMMA RollStep ==
  ASSUME TypeInv, Next, NEW j \in Jobs
  PROVE rolling'[j] = rolling[j] \/ rolling'[j] = "done" \/ RollbackRevert(j)
<1>t. rolling \in [Jobs -> {"no", "reverted", "done"}]
  BY DEF TypeInv, TypeOK
<1>1. CASE \E s \in Slots, v \in Values \cup {Absent} :
              EditTemplate(s, v) \/ \E e \in Pages : Edit(e, s, v)
  BY <1>1 DEF EditTemplate, Edit
<1>2. CASE \E e \in Pages : \/ Create(e) \/ Recreate(e) \/ Delete(e) \/ Archive(e)
                            \/ \E c \in Contents : Rewrite(e, c)
  BY <1>2 DEF Create, Recreate, Delete, Archive, Rewrite
<1>3. ASSUME NEW k \in Jobs,
             \/ JobStep(k) \/ ApplyFails(k) \/ AnswerLost(k) \/ ProcessFails(k) \/ Dies(k)
             \/ \E from, to \in VersionNumbers : Trigger(k, from, to)
             \/ \E e \in Pages : ResolveSkip(k, e) \/ ResolveRead(k, e) \/ ResolveCommit(k, e)
      PROVE rolling'[j] = rolling[j]
  BY <1>3 DEF JobStep, ApplyFails, AnswerLost, ProcessFails, Dies, Claim, List, Report,
              ListedUnreadable, ApplyRead, ApplyCommit, EndBatch, Finish, LeaveBehind, Trigger,
              ResolveSkip, ResolveRead, ResolveCommit
<1>4. ASSUME NEW k \in Jobs, RollbackRevert(k) \/ RollbackReset(k)
      PROVE rolling'[j] = rolling[j] \/ rolling'[j] = "done" \/ RollbackRevert(j)
  BY <1>4, <1>t DEF RollbackRevert, RollbackReset
<1>. QED
  BY <1>1, <1>2, <1>3, <1>4 DEF Next

-----------------------------------------------------------------------------
\* One thing at a time: a job, a rollback between its steps, or a resolution.

Pending(j, d) == conflicts[j][d] # None /\ conflicts[j][d].read # None

Alone ==
    \A j, k \in Jobs :
        /\ Live(j) => /\ Live(k) => k = j
                      /\ rolling[k] # "reverted"
                      /\ \A d \in Pages : ~Pending(k, d)
        /\ rolling[j] = "reverted" => /\ rolling[k] = "reverted" => k = j
                                      /\ \A d \in Pages : ~Pending(k, d)
        /\ \A d, e \in Pages : Pending(j, d) /\ Pending(k, e) => k = j /\ d = e

LEMMA LiveStep ==
  ASSUME TypeInv, ~Overlapping, Next, NEW j \in Jobs, Live(j)', ~Live(j)
  PROVE Quiet /\ UNCHANGED <<conflicts, rolling>> /\ \A k \in Jobs : Live(k)' /\ ~Live(k) => k = j
<1>1. ASSUME NEW k \in Jobs, Live(k)', ~Live(k)
      PROVE \E from, to \in VersionNumbers : Trigger(k, from, to)
  <2>1. run'[k] # run[k] /\ ~(run'[k].at \in {"off"})
    BY <1>1 DEF Live
  <2>2. ~List(k) /\ ~ApplyRead(k) /\ ~Working(k)
    BY <1>1 DEF List, ApplyRead, Comparable, Working, Live
  <2>. QED
    BY <2>1, <2>2, <1>1, RunStep
<1>2. PICK from \in VersionNumbers, to \in VersionNumbers : Trigger(j, from, to)
  BY <1>1
<1>3. run' = [run EXCEPT ![j].at = "queued"] /\ Quiet /\ UNCHANGED <<conflicts, rolling>>
  BY <1>2 DEF Trigger
<1>4. \A k \in Jobs : k # j => run'[k] = run[k]
  BY <1>3 DEF TypeInv, TypeOK
<1>. QED
  BY <1>3, <1>4 DEF Live

LEMMA PendingStep ==
  ASSUME TypeInv, ~Overlapping, Next, NEW j \in Jobs, NEW d \in Pages, Pending(j, d)', ~Pending(j, d)
  PROVE /\ Quiet /\ UNCHANGED <<pages, authored, run, rolling>>
        /\ conflicts'[j][d].read = pages[d].tip
        /\ \A k \in Jobs, e \in Pages : Pending(k, e)' => k = j /\ e = d
<1>1. ASSUME NEW k \in Jobs, NEW e \in Pages, Pending(k, e)', ~Pending(k, e)
      PROVE ResolveRead(k, e) /\ conflicts'[k][e].read = pages[e].tip
  BY <1>1, RowStep DEF Pending
<1>2. ResolveRead(j, d) /\ conflicts'[j][d].read = pages[d].tip
  BY <1>1
<1>3. Quiet /\ UNCHANGED <<pages, authored, run, rolling>>
      /\ conflicts' = [conflicts EXCEPT ![j][d] = [conflicts[j][d] EXCEPT !.read = pages[d].tip]]
  BY <1>2 DEF ResolveRead, TypeInv, TypeOK
<1>4. ASSUME NEW k \in Jobs, NEW e \in Pages, Pending(k, e)' PROVE k = j /\ e = d
  <2>1. ~Pending(k, e)
    BY <1>3 DEF Quiet, Pending
  <2>2. conflicts'[k][e] # conflicts[k][e]
    BY <1>4, <2>1 DEF Pending
  <2>3. conflicts \in [Jobs -> [Pages -> Conflict \cup {None}]]
    BY DEF TypeInv, TypeOK
  <2> HIDE DEF TypeInv
  <2>. QED
    BY <1>3, <2>2, <2>3
<1>. QED
  BY <1>2, <1>3, <1>4

LEMMA RevertStep ==
  ASSUME TypeInv, ~Overlapping, Next, NEW j \in Jobs, rolling'[j] = "reverted", rolling[j] # "reverted"
  PROVE /\ Quiet /\ UNCHANGED <<run, conflicts>>
        /\ \A k \in Jobs : rolling'[k] = "reverted" => k = j
<1>1. RollbackRevert(j)
  BY RollStep
<1>2. Quiet /\ UNCHANGED <<run, conflicts>> /\ rolling' = [rolling EXCEPT ![j] = "reverted"]
  BY <1>1 DEF RollbackRevert
<1>. QED
  BY <1>2 DEF Quiet, TypeInv, TypeOK

LEMMA QuietIsIdle ==
  Quiet <=> \A k \in Jobs : ~Live(k) /\ rolling[k] # "reverted" /\ \A d \in Pages : ~Pending(k, d)
  BY DEF Quiet, Pending

LEMMA AloneStep ==
  ASSUME TypeInv, Alone, ~Overlapping, [Next]_vars
  PROVE Alone'
<1>1. CASE UNCHANGED vars
  BY <1>1 DEF vars, Alone, Live, Pending
<1>2. CASE Next
  <2>1. CASE \E j \in Jobs : Live(j)' /\ ~Live(j)
    <3>1. PICK j \in Jobs : Live(j)' /\ ~Live(j)
      BY <2>1
    <3>2. Quiet /\ UNCHANGED <<conflicts, rolling>> /\ \A k \in Jobs : Live(k)' /\ ~Live(k) => k = j
      BY <3>1, <1>2, LiveStep
    <3>3. \A k \in Jobs : /\ Live(k)' => k = j
                          /\ rolling'[k] # "reverted" /\ \A d \in Pages : ~Pending(k, d)'
      BY <3>2, QuietIsIdle DEF Pending
    <3>. QED
      BY <3>3 DEF Alone
  <2>2. CASE \E j \in Jobs : rolling'[j] = "reverted" /\ rolling[j] # "reverted"
    <3>1. PICK j \in Jobs : rolling'[j] = "reverted" /\ rolling[j] # "reverted"
      BY <2>2
    <3>2. Quiet /\ UNCHANGED <<run, conflicts>> /\ \A k \in Jobs : rolling'[k] = "reverted" => k = j
      BY <3>1, <1>2, RevertStep
    <3>3. \A k \in Jobs : /\ rolling'[k] = "reverted" => k = j
                          /\ ~Live(k)' /\ \A d \in Pages : ~Pending(k, d)'
      BY <3>2, QuietIsIdle DEF Pending, Live
    <3>. QED
      BY <3>3 DEF Alone
  <2>3. CASE \E j \in Jobs, d \in Pages : Pending(j, d)' /\ ~Pending(j, d)
    <3>1. PICK j \in Jobs, d \in Pages : Pending(j, d)' /\ ~Pending(j, d)
      BY <2>3
    <3>2. /\ Quiet /\ UNCHANGED <<run, rolling>>
          /\ \A k \in Jobs, e \in Pages : Pending(k, e)' => k = j /\ e = d
      BY <3>1, <1>2, PendingStep
    <3>3. \A k \in Jobs : /\ ~Live(k)' /\ rolling'[k] # "reverted"
                          /\ \A e \in Pages : Pending(k, e)' => k = j /\ e = d
      BY <3>2, QuietIsIdle DEF Live
    <3>. QED
      BY <3>3 DEF Alone
  <2>4. CASE /\ \A j \in Jobs : Live(j)' => Live(j)
             /\ \A j \in Jobs : rolling'[j] = "reverted" => rolling[j] = "reverted"
             /\ \A j \in Jobs, d \in Pages : Pending(j, d)' => Pending(j, d)
    BY <2>4 DEF Alone
  <2>. QED
    BY <2>1, <2>2, <2>3, <2>4
<1>. QED
  BY <1>1, <1>2

LEMMA InitAlone == Init => Alone
  BY DEF Init, Alone, Live, Pending, NoRun

\* The same of a resolution.
LEMMA ResolvePuts ==
  ASSUME TypeInv, NEW j \in Jobs, NEW d \in Pages, ResolveCommit(j, d)
  PROVE /\ conflicts[j][d] # None /\ jobs[j] # None /\ Pending(j, d)
        /\ conflicts[j][d].read \in Snapshots
        /\ conflicts'[j][d].read = None
        /\ pages'[d].status = pages[d].status /\ UNCHANGED template
        /\ \/ /\ conflicts[j][d].kind = "prop"
              /\ pages'[d].tip = Taken(j, conflicts[j][d].read, conflicts[j][d].props)
              /\ pages'[d].synced = pages[d].synced
              /\ authored'[d] = authored[d] \cup conflicts[j][d].props
           \/ /\ Of(pages'[d].tip) = ApplyDelta(Of(conflicts[j][d].read), From(j), To(j))
              /\ pages'[d].synced = jobs[j].to
              /\ authored'[d] = StillAuthored(d, jobs[j].from)
<1>t. TypeOK /\ Shape
  BY DEF TypeInv
<1>p. pages \in [Pages -> Page] /\ pages[d] \in Page /\ authored \in [Pages -> SUBSET Slots]
  BY <1>t DEF TypeOK
<1> DEFINE old == conflicts[j][d]
           row == [old EXCEPT !.resolution = "apply", !.read = None]
<1>1. old # None /\ old.read # None /\ old \in Conflict /\ UNCHANGED template
      /\ conflicts' = [conflicts EXCEPT ![j][d] = row]
  BY <1>t DEF ResolveCommit, TypeOK
<1>2. jobs[j] # None /\ old.read \in Snapshots
  BY <1>1, <1>t, ConflictFields DEF Shape
<1>3. From(j) \in Contents /\ To(j) \in Contents /\ jobs[j].to \in VersionNumbers /\ jobs[j].to <= Latest
  BY <1>2, DeltaVersions, <1>t DEF Job, Shape
<1>4. conflicts'[j][d].read = None
  <2>1. row.read = None
    BY <1>1 DEF Conflict
  <2> HIDE DEF row
  <2>2. conflicts'[j][d] = row
    BY <1>1, <1>t DEF TypeOK
  <2>. QED
    BY <2>1, <2>2
<1>5. CASE old.kind = "prop"
  <2> DEFINE c == Taken(j, old.read, old.props)
  <2>1. c \in Snapshots
    BY <1>2, <1>3, TakenType
  <2>2. /\ pages' = [pages EXCEPT ![d] = WithMigration(pages[d], c)]
        /\ authored' = [authored EXCEPT ![d] = authored[d] \cup old.props]
    BY <1>5 DEF ResolveCommit
  <2> HIDE DEF c
  <2>3. /\ pages'[d].tip = c /\ pages'[d].synced = pages[d].synced
        /\ pages'[d].status = pages[d].status
    BY <2>1, <2>2, <1>p, WithMigrationType
  <2>4. authored'[d] = authored[d] \cup old.props
    BY <2>2, <1>p
  <2>. QED
    BY <1>1, <1>2, <1>4, <1>5, <2>3, <2>4 DEF Pending, c
<1>6. CASE old.kind = "structural"
  <2> DEFINE c == Migrated(old.read, From(j), To(j))
             v == jobs[j].to
  <2>1. c \in Snapshots /\ Of(c) = ApplyDelta(Of(old.read), From(j), To(j))
    BY <1>2, <1>3, MigratedType
  <2>2. /\ pages' = [pages EXCEPT ![d] = [WithMigration(@, c) EXCEPT !.synced = v]]
        /\ authored' = [authored EXCEPT ![d] = StillAuthored(d, jobs[j].from)]
    BY <1>6, Zenon DEF ResolveCommit
  <2>3. v \in VersionNumbers /\ v <= Latest
    BY <1>3
  <2> HIDE DEF c, v
  <2>4. pages'[d].tip = c /\ pages'[d].synced = v /\ pages'[d].status = pages[d].status
    BY <2>1, <2>2, <2>3, PutType
  <2>5. authored'[d] = StillAuthored(d, jobs[j].from)
    BY <2>2, <1>p
  <2>. QED
    BY <1>1, <1>2, <1>4, <2>1, <2>4, <2>5 DEF Pending, v
<1>. QED
  BY <1>1, <1>5, <1>6 DEF ResolveCommit

-----------------------------------------------------------------------------
\* What any step does to a page, to the template and to the delta of a job.

\* The page changes where its author may have changed it.
Keeps(d) ==
    /\ pages'[d].status = pages[d].status /\ pages'[d].base = pages[d].base
    /\ \/ pages'[d].synced = pages[d].synced
       \/ \E j \in Jobs : /\ rolling[j] = "reverted" /\ jobs[j] # None
                          /\ pages'[d].synced = jobs[j].from
                          /\ authored'[d] = StillAuthored(d, jobs[j].from)
                          /\ UNCHANGED template
    /\ authored[d] \subseteq authored'[d]
    /\ \A s \in Slots \ authored'[d] : Of(pages'[d].tip)[s] = Of(pages[d].tip)[s]

LEMMA PageStep ==
  ASSUME TypeInv, ~Overlapping, Next, NEW d \in Pages
  PROVE \/ Keeps(d)
        \/ Create(d) \/ (Quiet /\ (Recreate(d) \/ Archive(d)))
        \/ Quiet /\ \E j \in Jobs : RollbackRevert(j)
        \/ \E j \in Jobs : Commits(j) /\ d = Next1(j)
        \/ \E j \in Jobs : ResolveCommit(j, d)
<1>t. pages \in [Pages -> Page] /\ pages[d] \in Page /\ authored \in [Pages -> SUBSET Slots]
  BY DEF TypeInv, TypeOK
<1>u. ASSUME pages'[d] = pages[d], authored'[d] = authored[d] PROVE Keeps(d)
  BY <1>u DEF Keeps
<1>1. ASSUME NEW s \in Slots, NEW v \in Values \cup {Absent}, EditTemplate(s, v) PROVE Keeps(d)
  BY <1>1, <1>u DEF EditTemplate
<1>2. ASSUME NEW s \in Slots, NEW v \in Values \cup {Absent}, NEW e \in Pages, Edit(e, s, v)
      PROVE Keeps(d)
  <2>0. /\ pages' = [pages EXCEPT ![e] = [pages[e] EXCEPT !.tip = [pages[e].tip EXCEPT ![s] = v]]]
        /\ authored' = [authored EXCEPT ![e] = authored[e] \cup {s}]
    BY <1>2, <1>t DEF Edit, Page
  <2>1. CASE e # d
    BY <2>0, <2>1, <1>t, <1>u
  <2>2. CASE e = d
    <3>1. pages[d].tip \in Contents
      BY <1>2, <2>2, <1>t DEF Edit, Made, Readable, Page, Snapshots
    <3> DEFINE c == [pages[d].tip EXCEPT ![s] = v]
    <3>2. c \in Contents /\ \A x \in Slots \ {s} : c[x] = pages[d].tip[x]
      BY <3>1 DEF Contents
    <3>3. pages'[d] = [pages[d] EXCEPT !.tip = c] /\ authored'[d] = authored[d] \cup {s}
      BY <2>0, <2>2, <1>t
    <3> HIDE DEF c
    <3>4. /\ pages'[d].tip = c /\ pages'[d].status = pages[d].status
          /\ pages'[d].base = pages[d].base /\ pages'[d].synced = pages[d].synced
      BY <3>3, <1>t DEF Page
    <3>5. Of(c) = c /\ Of(pages[d].tip) = pages[d].tip
      BY <3>1, <3>2 DEF Of
    <3>. QED
      BY <3>2, <3>3, <3>4, <3>5 DEF Keeps
  <2>. QED
    BY <2>1, <2>2
<1>3. ASSUME NEW e \in Pages, Create(e) \/ Recreate(e) \/ Archive(e)
      PROVE Keeps(d) \/ Create(d) \/ (Quiet /\ (Recreate(d) \/ Archive(d)))
  <2>1. CASE e # d
    BY <1>3, <2>1, <1>t, <1>u DEF Create, Recreate, Archive
  <2>2. CASE e = d
    BY <1>3, <2>2 DEF Recreate, Archive
  <2>. QED
    BY <2>1, <2>2
<1>4. ASSUME NEW e \in Pages, Delete(e) \/ \E c \in Contents : Rewrite(e, c) PROVE Keeps(d)
  <2>0. PICK c : /\ pages' = [pages EXCEPT ![e] = [pages[e] EXCEPT !.tip = c]]
                 /\ authored' = [authored EXCEPT ![e] = Slots]
    BY <1>4, <1>t DEF Delete, Rewrite
  <2>1. CASE e # d
    BY <2>0, <2>1, <1>t, <1>u
  <2>2. CASE e = d
    <3>1. pages'[d] = [pages[d] EXCEPT !.tip = c] /\ authored'[d] = Slots
      BY <2>0, <2>2, <1>t
    <3>2. /\ pages'[d].status = pages[d].status /\ pages'[d].base = pages[d].base
          /\ pages'[d].synced = pages[d].synced
      BY <3>1, <1>t DEF Page
    <3>. QED
      BY <3>1, <3>2, <1>t DEF Keeps
  <2>. QED
    BY <2>1, <2>2
<1>5. ASSUME NEW j \in Jobs,
             \/ Claim(j) \/ List(j) \/ Report(j) \/ ListedUnreadable(j) \/ ApplyRead(j)
             \/ EndBatch(j) \/ Finish(j) \/ ApplyFails(j) \/ ProcessFails(j) \/ Dies(j)
             \/ \E from, to \in VersionNumbers : Trigger(j, from, to)
             \/ \E e \in Pages : ResolveSkip(j, e) \/ ResolveRead(j, e)
      PROVE Keeps(d)
  <2>1. UNCHANGED <<pages, authored>>
    BY <1>5 DEF Claim, List, Report, ListedUnreadable, ApplyRead, EndBatch, Finish, ApplyFails, ProcessFails, Dies,
                LeaveBehind, Trigger, ResolveSkip, ResolveRead
  <2>. QED
    BY <2>1, <1>u
<1>6. ASSUME NEW j \in Jobs, Commits(j) PROVE Keeps(d) \/ d = Next1(j)
  <2>1. d # Next1(j) => pages'[d] = pages[d]
    BY <1>6, CommitPuts
  <2>2. d # Next1(j) => authored'[d] = authored[d]
    BY <1>6, <1>t DEF Commits, ApplyCommit, AnswerLost, Writes
  <2>. QED
    BY <2>1, <2>2, <1>u
<1>7. ASSUME NEW j \in Jobs, NEW e \in Pages, ResolveCommit(j, e) PROVE Keeps(d) \/ ResolveCommit(j, d)
  <2>1. CASE e # d
    <3>1. \E p, a : pages' = [pages EXCEPT ![e] = p] /\ authored' = [authored EXCEPT ![e] = a]
      BY <1>7 DEF ResolveCommit
    <3>2. pages'[d] = pages[d] /\ authored'[d] = authored[d]
      BY <2>1, <3>1, <1>t
    <3>. QED
      BY <3>2, <1>u
  <2>2. CASE e = d
    BY <1>7, <2>2
  <2>. QED
    BY <2>1, <2>2
<1>8. ASSUME NEW j \in Jobs, RollbackRevert(j) PROVE Quiet
  BY <1>8 DEF RollbackRevert
<1>9. ASSUME NEW j \in Jobs, RollbackReset(j) PROVE Keeps(d)
  <2>1. CASE d \notin AtTarget(j)
    BY <1>9, <2>1, <1>t, <1>u DEF RollbackReset
  <2>2. CASE d \in AtTarget(j)
    <3>1. /\ pages'[d] = [pages[d] EXCEPT !.synced = jobs[j].from]
          /\ authored'[d] = StillAuthored(d, jobs[j].from)
      BY <1>9, <2>2, <1>t DEF RollbackReset
    <3>2. /\ pages'[d].status = pages[d].status /\ pages'[d].base = pages[d].base
          /\ pages'[d].tip = pages[d].tip /\ pages'[d].synced = jobs[j].from
      BY <3>1, <1>t DEF Page
    <3>3. rolling[j] = "reverted" /\ jobs[j] # None /\ UNCHANGED template
      BY <1>9 DEF RollbackReset, TypeInv, Shape
    <3>4. authored[d] \subseteq authored'[d]
      BY <3>1 DEF StillAuthored, Since
    <3>. QED
      BY <3>1, <3>2, <3>3, <3>4 DEF Keeps
  <2>. QED
    BY <2>1, <2>2
<1>. QED
  BY <1>1, <1>2, <1>3, <1>4, <1>5, <1>6, <1>7, <1>8, <1>9 DEF Next, JobStep, Commits

\* A rollback reverts each page to its checkpoint, or leaves it unreadable.
LEMMA RevertPuts ==
  ASSUME TypeInv, NEW j \in Jobs, RollbackRevert(j), NEW d \in Pages
  PROVE /\ jobs[j] # None
        /\ pages'[d].status = pages[d].status /\ pages'[d].synced = pages[d].synced
        /\ \/ pages'[d] = pages[d] /\ authored'[d] = authored[d]
           \/ authored'[d] = Slots
           \/ /\ d \in Recorded(j) /\ pages'[d].tip = jobs[j].checkpoint.tips[d]
              /\ authored'[d] = Since(jobs[j].checkpoint.authored[d],
                                      jobs[j].checkpoint.before[d], pages[d].synced)
<1>t. pages \in [Pages -> Page] /\ pages[d] \in Page /\ authored \in [Pages -> SUBSET Slots]
  BY DEF TypeInv, TypeOK
<1>1. PICK lost \in SUBSET MayBeLost(j) : Reverted(j, lost)
  BY DEF RollbackRevert
<1> DEFINE tip == jobs[j].checkpoint.tips[d]
           since == Since(jobs[j].checkpoint.authored[d], jobs[j].checkpoint.before[d], pages[d].synced)
<1>2. /\ pages'[d] = IF d \in lost THEN [pages[d] EXCEPT !.tip = Unreadable]
                     ELSE IF d \in Recorded(j) THEN [pages[d] EXCEPT !.tip = tip] ELSE pages[d]
      /\ authored'[d] = IF d \in lost THEN Slots
                        ELSE IF d \in Recorded(j) THEN since ELSE authored[d]
  BY <1>1, Zenon DEF Reverted
<1> HIDE DEF tip, since
<1>3. CASE d \in lost
  BY <1>2, <1>3, <1>t DEF RollbackRevert, Page
<1>4. CASE d \notin lost /\ d \in Recorded(j)
  BY <1>2, <1>4, <1>t DEF RollbackRevert, Page, tip, since
<1>5. CASE d \notin lost /\ d \notin Recorded(j)
  BY <1>2, <1>5 DEF RollbackRevert
<1>. QED
  BY <1>3, <1>4, <1>5

\* A page that exists goes on existing, and none but a new one becomes live.
LEMMA PageStatus ==
  ASSUME TypeInv, ~Overlapping, Next, NEW d \in Pages
  PROVE /\ pages[d].status # "none" => pages'[d].status # "none"
        /\ pages[d].status # "none" /\ pages'[d].status = "live" => pages[d].status = "live"
<1>t. pages \in [Pages -> Page] /\ pages[d] \in Page
  BY DEF TypeInv, TypeOK
<1>1. CASE Keeps(d)
  BY <1>1 DEF Keeps
<1>2. CASE Recreate(d)
  <2>1. pages'[d] = [pages[d] EXCEPT !.tip = template[Latest], !.synced = Latest]
    BY <1>2, <1>t DEF Recreate
  <2>. QED
    BY <2>1, <1>t DEF Page
<1>3. CASE Archive(d)
  <2>1. pages'[d] = [pages[d] EXCEPT !.status = "archived"]
    BY <1>3, <1>t DEF Archive
  <2>. QED
    BY <2>1, <1>t DEF Page
<1>4. ASSUME NEW j \in Jobs, RollbackRevert(j) PROVE pages'[d].status = pages[d].status
  BY <1>4, RevertPuts
<1>5. ASSUME NEW j \in Jobs, Commits(j), d = Next1(j) PROVE pages'[d].status = pages[d].status
  BY <1>5, CommitPuts
<1>6. ASSUME NEW j \in Jobs, ResolveCommit(j, d) PROVE pages'[d].status = pages[d].status
  BY <1>6, ResolvePuts
<1>7. CASE Create(d)
  BY <1>7 DEF Create
<1>. QED
  BY <1>1, <1>2, <1>3, <1>4, <1>5, <1>6, <1>7, PageStep

\* Versions of the template stay as they are.
LEMMA TemplateStep ==
  ASSUME TypeInv, Next
  PROVE /\ \A v \in VersionNumbers : v <= Latest => template'[v] = template[v]
        /\ Latest \in VersionNumbers /\ Latest <= Latest' /\ Latest' \in Nat
<1>l. Latest \in VersionNumbers /\ Latest \in Nat
  BY LatestType
<1>1. ASSUME NEW c \in Contents, Latest < MaxVersions, template' = Append(template, c)
      PROVE /\ \A v \in VersionNumbers : v <= Latest => template'[v] = template[v]
            /\ Latest <= Latest' /\ Latest' \in Nat
  <2>1. /\ \A v \in 1 .. Latest : template'[v] = template[v]
        /\ Latest' = Latest + 1
    BY <1>1, GrowthType
  <2>2. \A v \in VersionNumbers : v <= Latest => v \in 1 .. Latest
    BY <1>l DEF VersionNumbers
  <2>. QED
    BY <2>1, <2>2, <1>l
<1>2. ASSUME NEW s \in Slots, NEW v \in Values \cup {Absent}, EditTemplate(s, v)
      PROVE /\ \A x \in VersionNumbers : x <= Latest => template'[x] = template[x]
            /\ Latest <= Latest' /\ Latest' \in Nat
  <2>1. [template[Latest] EXCEPT ![s] = v] \in Contents
    BY LatestType DEF Contents
  <2>. QED
    BY <2>1, <1>1, <1>2 DEF EditTemplate
<1>3. ASSUME NEW j \in Jobs, RollbackRevert(j)
      PROVE /\ \A x \in VersionNumbers : x <= Latest => template'[x] = template[x]
            /\ Latest <= Latest' /\ Latest' \in Nat
  <2>1. template[jobs[j].checkpoint.template] \in Contents
    BY <1>3, DeltaVersions DEF RollbackRevert
  <2>. QED
    BY <2>1, <1>1, <1>3 DEF RollbackRevert
<1>4. ASSUME \/ \E d \in Pages : \/ Create(d) \/ Recreate(d) \/ Delete(d) \/ Archive(d)
                                 \/ \E s \in Slots, v \in Values \cup {Absent} : Edit(d, s, v)
                                 \/ \E c \in Contents : Rewrite(d, c)
             \/ \E j \in Jobs :
                   \/ JobStep(j) \/ ApplyFails(j) \/ AnswerLost(j) \/ ProcessFails(j) \/ Dies(j) \/ RollbackReset(j)
                   \/ \E from, to \in VersionNumbers : Trigger(j, from, to)
                   \/ \E d \in Pages : ResolveSkip(j, d) \/ ResolveRead(j, d) \/ ResolveCommit(j, d)
      PROVE template' = template
  <2>1. CASE \E d \in Pages : \/ Create(d) \/ Recreate(d) \/ Delete(d) \/ Archive(d)
                              \/ \E s \in Slots, v \in Values \cup {Absent} : Edit(d, s, v)
                              \/ \E c \in Contents : Rewrite(d, c)
    BY <2>1 DEF Create, Recreate, Delete, Archive, Edit, Rewrite
  <2>2. CASE \E j \in Jobs : JobStep(j) \/ ApplyFails(j) \/ AnswerLost(j) \/ ProcessFails(j) \/ Dies(j)
    BY <2>2 DEF JobStep, Claim, List, Report, ListedUnreadable, ApplyRead, ApplyCommit, AnswerLost,
                EndBatch, Finish, ApplyFails, ProcessFails, Dies, LeaveBehind
  <2>3. CASE \E j \in Jobs :
                \/ RollbackReset(j) \/ \E from, to \in VersionNumbers : Trigger(j, from, to)
                \/ \E d \in Pages : ResolveSkip(j, d) \/ ResolveRead(j, d) \/ ResolveCommit(j, d)
    BY <2>3 DEF RollbackReset, Trigger, ResolveSkip, ResolveRead, ResolveCommit
  <2>. QED
    BY <1>4, <2>1, <2>2, <2>3
<1>5. template' = template => Latest' = Latest
  BY DEF Latest
<1>. QED
  BY <1>2, <1>3, <1>4, <1>5, <1>l DEF Next

LEMMA DeltaStep ==
  ASSUME TypeInv, Next, NEW j \in Jobs, jobs[j] # None
  PROVE /\ From(j)' = From(j) /\ To(j)' = To(j)
        /\ jobs'[j] # None /\ jobs'[j].to = jobs[j].to
<1>t. jobs \in [Jobs -> Job \cup {None}] /\ jobs[j] \in Job
      /\ jobs[j].from \in VersionNumbers /\ jobs[j].to \in VersionNumbers
      /\ jobs[j].from <= Latest /\ jobs[j].to <= Latest
  <2>1. jobs \in [Jobs -> Job \cup {None}] /\ jobs[j] \in Job /\ jobs[j].from <= Latest /\ jobs[j].to <= Latest
    BY DeltaVersions DEF TypeInv, TypeOK
  <2>. QED
    BY <2>1 DEF Job
<1>1. jobs'[j].from = jobs[j].from /\ jobs'[j].to = jobs[j].to /\ jobs'[j] # None
  <2>1. ASSUME NEW k \in Jobs, NEW x \in {"in_progress", "completed", "completed_with_conflicts", "failed"},
               jobs' = [jobs EXCEPT ![k] = [jobs[k] EXCEPT !.status = x]]
        PROVE jobs'[j].from = jobs[j].from /\ jobs'[j].to = jobs[j].to /\ jobs'[j] # None
    BY <2>1, <1>t DEF Job
  <2>2. ASSUME NEW k \in Jobs, \/ Claim(k) \/ Finish(k) \/ ProcessFails(k) \/ RollbackReset(k)
                              \/ ListedUnreadable(k)
        PROVE jobs'[j].from = jobs[j].from /\ jobs'[j].to = jobs[j].to /\ jobs'[j] # None
    BY <2>1, <2>2 DEF Claim, Finish, ListedUnreadable, ProcessFails, RollbackReset
  <2>3. ASSUME NEW k \in Jobs, NEW from, NEW to, Trigger(k, from, to) PROVE jobs'[j] = jobs[j]
    BY <2>3, <1>t DEF Trigger
  <2>4. ASSUME \E d \in Pages : \/ Create(d) \/ Recreate(d) \/ Delete(d) \/ Archive(d)
                                \/ \E s \in Slots, v \in Values \cup {Absent} : Edit(d, s, v)
                                \/ \E c \in Contents : Rewrite(d, c)
        PROVE jobs'[j] = jobs[j]
    BY <2>4 DEF Create, Recreate, Delete, Archive, Edit, Rewrite
  <2>5. ASSUME NEW k \in Jobs,
               \/ List(k) \/ Report(k) \/ ApplyRead(k) \/ Commits(k) \/ EndBatch(k)
               \/ ApplyFails(k) \/ Dies(k) \/ RollbackRevert(k)
               \/ \E d \in Pages : ResolveSkip(k, d) \/ ResolveRead(k, d) \/ ResolveCommit(k, d)
        PROVE jobs'[j] = jobs[j]
    BY <2>5 DEF List, Report, ApplyRead, Commits, ApplyCommit, AnswerLost, EndBatch, ApplyFails, Dies,
                RollbackRevert, LeaveBehind, ResolveSkip, ResolveRead, ResolveCommit
  <2>6. ASSUME NEW s \in Slots, NEW v \in Values \cup {Absent}, EditTemplate(s, v)
        PROVE jobs'[j] = jobs[j]
    BY <2>6 DEF EditTemplate
  <2>. QED
    BY <2>2, <2>3, <2>4, <2>5, <2>6 DEF Next, JobStep, Commits
<1>. QED
  BY <1>1, <1>t, TemplateStep DEF From, To

-----------------------------------------------------------------------------
\* A page drifts from its template only where its author changed it.

Drifts(d) ==
    pages[d].status = "live" =>
        \A s \in Slots \ authored[d] : Of(pages[d].tip)[s] = template[pages[d].synced][s]

\* What was read of a page and the page differ only where its author changed it since.
Agrees(d, c) == \A s \in Slots \ authored[d] : Of(c)[s] = Of(pages[d].tip)[s]

AgreesAfter(d, c) == \A s \in Slots \ authored'[d] : Of(c)[s] = Of(pages'[d].tip)[s]

\* A job works on live pages; one it is about to write has its edits away from the
\* slots the template touched.
WorkInv ==
    \A j \in Jobs :
        /\ Working(j) => \A d \in Left(j) : pages[d].status = "live"
        /\ run[j].at = "apply" => Agrees(Next1(j), run[j].read) /\ ~Clashes(j)

\* A conflict is of a page that exists.
RowInv ==
    \A j \in Jobs, d \in Pages :
        /\ conflicts[j][d] # None => pages[d].status # "none"
        /\ Pending(j, d) => Agrees(d, conflicts[j][d].read)

\* A page of a checkpoint exists, and what the checkpoint holds of it differs from the
\* template where authors had changed it.
Kept(j, d) ==
    LET checkpoint == jobs[j].checkpoint
    IN /\ pages[d].status # "none" /\ checkpoint.before[d] <= Latest
       /\ pages[d].status = "live" => \A s \in Slots \ checkpoint.authored[d] :
             Of(checkpoint.tips[d])[s] = template[checkpoint.before[d]][s]

CheckpointInv == \A j \in Jobs : jobs[j] # None => \A d \in Recorded(j) : Kept(j, d)

DriftInv == Alone /\ WorkInv /\ RowInv /\ CheckpointInv /\ DriftIsAuthored

LEMMA KeepsAgrees ==
  ASSUME NEW d \in Pages, Keeps(d), NEW c, Agrees(d, c)
  PROVE AgreesAfter(d, c)
  BY DEF Keeps, Agrees, AgreesAfter

LEMMA WorkStep ==
  ASSUME TypeInv, DriftInv, ~Overlapping, Next
  PROVE WorkInv'
<1>t. Alone /\ WorkInv /\ RowInv /\ TypeOK /\ Shape
  BY DEF DriftInv, TypeInv
<1>s. ASSUME NEW j \in Jobs PROVE Left(j) \in SUBSET Pages
  BY <1>t, SeenType
\* A page at work keeps its status, and changes only by the job's own commit.
<1>k. ASSUME NEW j \in Jobs, Working(j), NEW d \in Left(j)
      PROVE Keeps(d) \/ (Commits(j) /\ d = Next1(j) /\ pages'[d].status = "live")
  <2>1. d \in Pages /\ pages[d].status = "live" /\ Live(j)
    BY <1>k, <1>s, <1>t DEF WorkInv, Working, Live
  <2>2. ~Create(d) /\ ~Quiet
    BY <2>1 DEF Create, Quiet
  <2>3. ASSUME NEW k \in Jobs, Commits(k), d = Next1(k)
        PROVE Commits(j) /\ d = Next1(j) /\ pages'[d].status = "live"
    <3>1. Live(k)
      BY <2>3 DEF Commits, ApplyCommit, AnswerLost, Live
    <3>2. k = j
      BY <2>1, <3>1, <1>t DEF Alone
    <3>3. pages'[d].status = pages[d].status
      BY <2>3, CommitPuts
    <3>. QED
      BY <2>1, <2>3, <3>2, <3>3
  <2>4. ASSUME NEW k \in Jobs PROVE ~ResolveCommit(k, d)
    BY <2>1, <1>t DEF Alone, ResolveCommit, Pending
  <2>. QED
    BY <2>1, <2>2, <2>3, <2>4, PageStep
<1>1. ASSUME NEW j \in Jobs, Working(j)', NEW d \in Left(j)'
      PROVE pages'[d].status = "live"
  <2>1. CASE Working(j) /\ d \in Left(j)
    BY <2>1, <1>k, <1>t DEF Keeps, WorkInv
  <2>2. CASE List(j) /\ Left(j)' = Listed(j)
    <3>1. pages[d].status = "live" /\ pages' = pages
      BY <2>2, <1>1 DEF List, Listed, Affected
    <3>. QED
      BY <3>1
  <2>3. CASE run'[j] = run[j]
    BY <2>1, <2>3, <1>1 DEF Working, Left
  <2>4. CASE ApplyRead(j) /\ run'[j].seen = run[j].seen
    BY <2>1, <2>4, <1>1 DEF Working, Left, ApplyRead, Comparable
  <2>5. CASE Working(j) /\ Left(j)' \subseteq Left(j)
    BY <2>1, <2>5, <1>1
  <2>. QED
    BY <1>1, <2>2, <2>3, <2>4, <2>5, RunStep DEF Working
<1>2. ASSUME NEW j \in Jobs, run'[j].at = "apply"
      PROVE Agrees(Next1(j), run[j].read)' /\ ~Clashes(j)'
  <2>1. CASE ApplyRead(j) /\ run'[j].seen = run[j].seen /\ run'[j].read = pages[Next1(j)].tip
    <3>1. Left(j)' = Left(j) /\ Next1(j)' = Next1(j) /\ Seen(j)' = Seen(j)
      BY <2>1 DEF Left, Next1, Seen
    <3>2. UNCHANGED <<pages, authored, template, jobs>> /\ ~Clashes(j)
      BY <2>1 DEF ApplyRead
    <3>3. ~Clashes(j)'
      BY <3>1, <3>2 DEF Clashes, From, To
    <3>4. Agrees(Next1(j), run[j].read)'
      BY <2>1, <3>1, <3>2 DEF Agrees
    <3>. QED
      BY <3>3, <3>4
  <2>2. CASE run'[j] = run[j]
    <3> DEFINE d == Next1(j)
    <3>1. run[j].at = "apply" /\ Working(j) /\ jobs[j] # None /\ Left(j) # {}
      BY <2>2, <1>2, <1>t DEF Working, Shape, Live
    <3>2. d \in Left(j) /\ d \in Pages
      BY <3>1, <1>t, FirstOfBatch
    <3>3. Left(j)' = Left(j) /\ Next1(j)' = d /\ Seen(j)' = Seen(j)
      BY <2>2 DEF Left, Next1, Seen
    <3>4. ~Commits(j)
      <4>1. Commits(j) => run'[j].at = "pages"
        BY CommitPhase
      <4>. QED
        BY <4>1, <1>2
    <3>5. Keeps(d)
      BY <3>1, <3>2, <3>4, <1>k
    <3>6. Agrees(d, run[j].read) /\ ~Clashes(j)
      BY <3>1, <1>t DEF WorkInv
    <3>7. From(j)' = From(j) /\ To(j)' = To(j) /\ pages'[d].base = pages[d].base
      BY <3>1, <3>5, DeltaStep DEF Keeps
    <3>8. ~Clashes(j)'
      BY <3>3, <3>6, <3>7 DEF Clashes
    <3>9. AgreesAfter(d, run[j].read)
      BY <3>2, <3>5, <3>6, KeepsAgrees
    <3>10. Agrees(Next1(j), run[j].read)'
      BY <2>2, <3>3, <3>9 DEF Agrees, AgreesAfter
    <3>. QED
      BY <3>8, <3>10
  <2>. QED
    BY <1>2, <2>1, <2>2, RunStep
<1>. QED
  BY <1>1, <1>2 DEF WorkInv

LEMMA RowsStep ==
  ASSUME TypeInv, DriftInv, ~Overlapping, Next
  PROVE RowInv'
<1>t. Alone /\ WorkInv /\ RowInv /\ TypeOK /\ Shape
  BY DEF DriftInv, TypeInv
<1>e. \A d \in Pages : pages[d].status # "none" => pages'[d].status # "none"
  BY PageStatus
<1>1. ASSUME NEW j \in Jobs, NEW d \in Pages, conflicts'[j][d] # None
      PROVE pages'[d].status # "none"
  <2>1. CASE conflicts[j][d] # None
    BY <2>1, <1>e, <1>t DEF RowInv
  <2>2. CASE Working(j) /\ d \in Left(j)
    BY <2>2, <1>e, <1>t DEF WorkInv
  <2>3. ResolveRead(j, d) => conflicts[j][d] # None
    BY DEF ResolveRead, Open
  <2>. QED
    BY <1>1, <2>1, <2>2, <2>3, RowStep
<1>2. ASSUME NEW j \in Jobs, NEW d \in Pages, Pending(j, d)'
      PROVE Agrees(d, conflicts[j][d].read)'
  <2>1. CASE ~Pending(j, d)
    <3>1. UNCHANGED <<pages, authored>> /\ conflicts'[j][d].read = pages[d].tip
      BY <1>2, <2>1, PendingStep
    <3>. QED
      BY <3>1 DEF Agrees
  <2>2. CASE Pending(j, d)
    <3>1. ~ResolveRead(j, d)
      BY <2>2 DEF ResolveRead, Open, Pending
    <3>2. conflicts'[j][d] = conflicts[j][d]
      BY <1>2, <3>1, RowStep DEF Pending
    <3>3. pages[d].status # "none" /\ Agrees(d, conflicts[j][d].read)
      BY <2>2, <1>t DEF RowInv, Pending
    <3>4. ~Create(d) /\ ~Quiet
      BY <2>2, <3>3 DEF Create, Quiet, Pending
    <3>5. ASSUME NEW k \in Jobs PROVE ~Commits(k)
      BY <2>2, <1>t DEF Alone, Commits, ApplyCommit, AnswerLost, Live
    <3>6. ASSUME NEW k \in Jobs, ResolveCommit(k, d) PROVE FALSE
      <4>1. Pending(k, d)
        BY <3>6 DEF ResolveCommit, Pending
      <4>2. k = j
        BY <2>2, <4>1, <1>t DEF Alone
      <4>3. conflicts'[j][d].read = None
        BY <3>6, <4>2, ResolvePuts
      <4>. QED
        BY <4>3, <3>2, <2>2 DEF Pending
    <3>7. Keeps(d)
      BY <3>4, <3>5, <3>6, PageStep
    <3>8. AgreesAfter(d, conflicts[j][d].read)
      BY <3>3, <3>7, KeepsAgrees
    <3>. QED
      BY <3>2, <3>8 DEF Agrees, AgreesAfter
  <2>. QED
    BY <2>1, <2>2
<1>. QED
  BY <1>1, <1>2 DEF RowInv, Pending

\* A delta applied to what was read of a page: the slots that the page has as its
\* synced_version has them, and that version as the delta begins, it has as it ends.
LEMMA DeltaKeepsDrift ==
  ASSUME TypeInv, NEW j \in Jobs, jobs[j] # None, NEW d \in Pages, NEW c \in Snapshots,
         pages[d].status = "live", Drifts(d), Agrees(d, c),
         NEW s \in Slots \ StillAuthored(d, jobs[j].from)
  PROVE ApplyDelta(Of(c), From(j), To(j))[s] = To(j)[s]
<1>1. From(j) \in Contents /\ To(j) \in Contents /\ Of(c) \in Contents
  BY DeltaVersions, OfType
<1>2. s \in Slots \ authored[d] /\ template[pages[d].synced][s] = From(j)[s]
  BY DEF StillAuthored, Since, From
<1>3. Of(c)[s] = From(j)[s]
  BY <1>2 DEF Agrees, Drifts
<1>. QED
  BY <1>1, <1>3, DeltaBySlot

LEMMA DriftStep ==
  ASSUME TypeInv, DriftInv, ~Overlapping, Next
  PROVE DriftIsAuthored'
<1>t. Alone /\ WorkInv /\ RowInv /\ CheckpointInv /\ TypeOK /\ Shape /\ \A d \in Pages : Drifts(d)
  BY DEF DriftInv, TypeInv, DriftIsAuthored, Drifts
<1>l. Latest \in VersionNumbers /\ Latest \in Nat /\ (\A d \in Pages : pages[d].synced <= Latest)
      /\ \A d \in Pages : pages[d] \in Page /\ pages[d].synced \in VersionNumbers
  BY LatestType, <1>t DEF TypeOK, Page
<1>v. \A v \in VersionNumbers : v <= Latest => template'[v] = template[v]
  BY TemplateStep
<1>1. ASSUME NEW d \in Pages, Keeps(d) PROVE Drifts(d)'
  <2>1. ASSUME NEW j \in Jobs, jobs[j] # None, pages'[d].synced = jobs[j].from,
               authored'[d] = StillAuthored(d, jobs[j].from), UNCHANGED template
        PROVE Drifts(d)'
    <3>1. ASSUME pages'[d].status = "live", NEW s \in Slots \ authored'[d]
          PROVE Of(pages'[d].tip)[s] = template'[pages'[d].synced][s]
      <4>1. /\ pages[d].status = "live" /\ s \in Slots \ authored[d]
            /\ Of(pages'[d].tip)[s] = Of(pages[d].tip)[s]
            /\ template[pages[d].synced][s] = template[jobs[j].from][s]
        BY <1>1, <2>1, <3>1 DEF Keeps, StillAuthored, Since
      <4>. QED
        BY <2>1, <4>1, <1>t DEF Drifts
    <3>. QED
      BY <3>1 DEF Drifts
  <2>2. CASE pages'[d].synced = pages[d].synced
    <3>1. template'[pages[d].synced] = template[pages[d].synced]
      BY <1>l, <1>v
    <3>2. ASSUME pages'[d].status = "live", NEW s \in Slots \ authored'[d]
          PROVE Of(pages'[d].tip)[s] = template'[pages'[d].synced][s]
      <4>1. pages[d].status = "live" /\ s \in Slots \ authored[d]
            /\ Of(pages'[d].tip)[s] = Of(pages[d].tip)[s]
        BY <1>1, <3>2 DEF Keeps
      <4>2. Of(pages[d].tip)[s] = template[pages[d].synced][s]
        BY <4>1, <1>t DEF Drifts
      <4>. QED
        BY <2>2, <3>1, <4>1, <4>2
    <3>. QED
      BY <3>2 DEF Drifts
  <2>. QED
    BY <1>1, <2>1, <2>2 DEF Keeps
<1>2. ASSUME NEW d \in Pages, Create(d) PROVE Drifts(d)'
  <2>1. pages'[d].tip = template[Latest] /\ pages'[d].synced = Latest /\ UNCHANGED template
    BY <1>2, <1>t DEF Create, TypeOK
  <2>2. Of(template[Latest]) = template[Latest]
    BY LatestType DEF Of
  <2>. QED
    BY <2>1, <2>2 DEF Drifts
<1>3. ASSUME NEW d \in Pages, Recreate(d) PROVE Drifts(d)'
  <2>1. pages'[d] = [pages[d] EXCEPT !.tip = template[Latest], !.synced = Latest] /\ UNCHANGED template
    BY <1>3, <1>t DEF Recreate, TypeOK
  <2>2. pages'[d].tip = template[Latest] /\ pages'[d].synced = Latest
    BY <2>1, <1>l DEF Page
  <2>3. Of(template[Latest]) = template[Latest]
    BY LatestType DEF Of
  <2>. QED
    BY <2>1, <2>2, <2>3 DEF Drifts
<1>4. ASSUME NEW d \in Pages, Archive(d) PROVE Drifts(d)'
  <2>1. pages'[d] = [pages[d] EXCEPT !.status = "archived"]
    BY <1>4, <1>t DEF Archive, TypeOK
  <2>2. pages'[d].status = "archived"
    BY <2>1, <1>l DEF Page
  <2>. QED
    BY <2>2 DEF Drifts
<1>5. ASSUME NEW j \in Jobs, NEW d \in Pages, Commits(j), d = Next1(j) PROVE Drifts(d)'
  <2>1. /\ run[j].at = "apply" /\ jobs[j] # None /\ d \in Left(j)
        /\ run[j].read \in Snapshots
        /\ Of(pages'[d].tip) = ApplyDelta(Of(run[j].read), From(j), To(j))
        /\ pages'[d].synced = jobs[j].to /\ UNCHANGED template
    <3>1. UNCHANGED template
      BY <1>5 DEF Commits, ApplyCommit, AnswerLost
    <3>. QED
      BY <1>5, <3>1, CommitPuts
  <2>2. pages[d].status = "live" /\ Agrees(d, run[j].read)
    BY <1>5, <2>1, <1>t DEF WorkInv, Working
  <2>3. authored'[d] = StillAuthored(d, jobs[j].from)
    BY <1>5, <1>t DEF Commits, ApplyCommit, AnswerLost, Writes, TypeOK
  <2>4. ASSUME NEW s \in Slots \ StillAuthored(d, jobs[j].from)
        PROVE Of(pages'[d].tip)[s] = To(j)[s]
    BY <2>1, <2>2, <1>t, DeltaKeepsDrift
  <2>. QED
    BY <2>1, <2>3, <2>4 DEF Drifts, To
<1>6. ASSUME NEW j \in Jobs, NEW d \in Pages, ResolveCommit(j, d) PROVE Drifts(d)'
  <2>1. /\ conflicts[j][d] # None /\ jobs[j] # None /\ Pending(j, d)
        /\ pages'[d].status = pages[d].status /\ UNCHANGED template
        /\ conflicts[j][d].read \in Snapshots
    BY <1>6, ResolvePuts
  <2>2. Agrees(d, conflicts[j][d].read)
    BY <2>1, <1>t DEF RowInv
  <2>3. CASE /\ conflicts[j][d].kind = "prop"
             /\ pages'[d].tip = Taken(j, conflicts[j][d].read, conflicts[j][d].props)
             /\ pages'[d].synced = pages[d].synced
             /\ authored'[d] = authored[d] \cup conflicts[j][d].props
    <3>1. ASSUME NEW s \in Slots \ conflicts[j][d].props
          PROVE Of(pages'[d].tip)[s] = Of(conflicts[j][d].read)[s]
      <4> DEFINE c == conflicts[j][d].read
                 x == Taken(j, c, conflicts[j][d].props)
      <4>1. CASE c \notin Contents
        BY <2>3, <4>1 DEF Taken
      <4>2. CASE c \in Contents
        <5>1. x[s] = c[s] /\ To(j) \in Contents
          BY <2>1, <4>2, DeltaVersions DEF Taken
        <5>2. x \in Contents
          BY <4>2, <5>1 DEF Taken, Contents
        <5>. QED
          BY <2>3, <4>2, <5>1, <5>2 DEF Of
      <4>. QED
        BY <4>1, <4>2
    <3>2. ASSUME pages'[d].status = "live", NEW s \in Slots \ authored'[d]
          PROVE Of(pages'[d].tip)[s] = template'[pages'[d].synced][s]
      <4>1. s \in Slots \ conflicts[j][d].props /\ s \in Slots \ authored[d]
        BY <2>3, <3>2
      <4>2. Of(pages'[d].tip)[s] = Of(pages[d].tip)[s]
        BY <2>2, <3>1, <4>1 DEF Agrees
      <4>3. Of(pages[d].tip)[s] = template[pages[d].synced][s]
        BY <2>1, <3>2, <4>1, <1>t DEF Drifts
      <4>4. UNCHANGED template /\ pages'[d].synced = pages[d].synced
        BY <2>1, <2>3
      <4>. QED
        BY <4>2, <4>3, <4>4
    <3>. QED
      BY <3>2 DEF Drifts
  <2>4. CASE /\ Of(pages'[d].tip) = ApplyDelta(Of(conflicts[j][d].read), From(j), To(j))
             /\ pages'[d].synced = jobs[j].to
             /\ authored'[d] = StillAuthored(d, jobs[j].from)
    <3>1. CASE pages[d].status = "live"
      <4>1. ASSUME NEW s \in Slots \ StillAuthored(d, jobs[j].from)
            PROVE Of(pages'[d].tip)[s] = To(j)[s]
        BY <2>1, <2>2, <2>4, <3>1, <1>t, DeltaKeepsDrift
      <4>. QED
        BY <2>1, <2>4, <4>1 DEF Drifts, To
    <3>2. CASE pages[d].status # "live"
      BY <2>1, <3>2 DEF Drifts
    <3>. QED
      BY <3>1, <3>2
  <2>. QED
    BY <1>6, <2>3, <2>4, ResolvePuts
<1>7. ASSUME NEW j \in Jobs, NEW d \in Pages, RollbackRevert(j) PROVE Drifts(d)'
  <2>1. jobs[j] # None /\ pages'[d].status = pages[d].status /\ pages'[d].synced = pages[d].synced
    BY <1>7, RevertPuts
  <2>2. template'[pages[d].synced] = template[pages[d].synced]
    BY <1>l, <1>v
  <2>3. CASE pages'[d] = pages[d] /\ authored'[d] = authored[d]
    BY <2>2, <2>3, <1>t DEF Drifts
  <2>4. CASE authored'[d] = Slots
    BY <2>4 DEF Drifts
  <2>5. CASE /\ d \in Recorded(j) /\ pages'[d].tip = jobs[j].checkpoint.tips[d]
             /\ authored'[d] = Since(jobs[j].checkpoint.authored[d],
                                     jobs[j].checkpoint.before[d], pages[d].synced)
    <3>1. Kept(j, d)
      BY <2>1, <2>5, <1>t DEF CheckpointInv
    <3>2. ASSUME pages[d].status = "live", NEW s \in Slots \ authored'[d]
          PROVE Of(pages'[d].tip)[s] = template[pages[d].synced][s]
      BY <2>5, <3>1, <3>2 DEF Kept, Since
    <3>. QED
      BY <2>1, <2>2, <3>2 DEF Drifts
  <2>. QED
    BY <1>7, <2>3, <2>4, <2>5, RevertPuts
<1>. QED
  BY <1>1, <1>2, <1>3, <1>4, <1>5, <1>6, <1>7, PageStep DEF DriftIsAuthored, Drifts

\* What a checkpoint holds stays as it is.
LEMMA CheckpointStep ==
  ASSUME TypeInv, Next, NEW j \in Jobs, jobs[j] # None
  PROVE jobs'[j].checkpoint = jobs[j].checkpoint
<1>t. jobs \in [Jobs -> Job \cup {None}] /\ jobs[j] \in Job
  BY DEF TypeInv, TypeOK
<1>1. ASSUME NEW k \in Jobs, NEW x, jobs' = [jobs EXCEPT ![k] = [jobs[k] EXCEPT !.status = x]]
      PROVE jobs'[j].checkpoint = jobs[j].checkpoint
  BY <1>1, <1>t DEF Job
<1>2. ASSUME NEW k \in Jobs, \/ Claim(k) \/ Finish(k) \/ ProcessFails(k) \/ RollbackReset(k)
                            \/ ListedUnreadable(k)
      PROVE jobs'[j].checkpoint = jobs[j].checkpoint
  BY <1>1, <1>2 DEF Claim, Finish, ListedUnreadable, ProcessFails, RollbackReset
<1>3. ASSUME NEW k \in Jobs, NEW from, NEW to, Trigger(k, from, to) PROVE jobs'[j] = jobs[j]
  BY <1>3, <1>t DEF Trigger
<1>4. ASSUME \E d \in Pages : \/ Create(d) \/ Recreate(d) \/ Delete(d) \/ Archive(d)
                              \/ \E c \in Contents : Rewrite(d, c)
                              \/ \E s \in Slots, v \in Values \cup {Absent} : Edit(d, s, v)
      PROVE jobs'[j] = jobs[j]
  BY <1>4 DEF Create, Recreate, Delete, Archive, Edit, Rewrite
<1>5. ASSUME NEW k \in Jobs,
             \/ List(k) \/ Report(k) \/ ApplyRead(k) \/ Commits(k) \/ EndBatch(k)
             \/ ApplyFails(k) \/ Dies(k) \/ RollbackRevert(k)
             \/ \E d \in Pages : ResolveSkip(k, d) \/ ResolveRead(k, d) \/ ResolveCommit(k, d)
      PROVE jobs'[j] = jobs[j]
  BY <1>5 DEF List, Report, ApplyRead, Commits, ApplyCommit, AnswerLost, EndBatch, ApplyFails, Dies,
              RollbackRevert, LeaveBehind, ResolveSkip, ResolveRead, ResolveCommit
<1>6. ASSUME NEW s \in Slots, NEW v \in Values \cup {Absent}, EditTemplate(s, v)
      PROVE jobs'[j] = jobs[j]
  BY <1>6 DEF EditTemplate
<1>. QED
  BY <1>2, <1>3, <1>4, <1>5, <1>6 DEF Next, JobStep, Commits

\* A job appears with its checkpoint.
LEMMA JobAppears ==
  ASSUME TypeInv, Next, NEW j \in Jobs, jobs[j] = None, jobs'[j] # None
  PROVE \E from, to \in VersionNumbers : Trigger(j, from, to)
<1>t. jobs \in [Jobs -> Job \cup {None}]
  BY DEF TypeInv, TypeOK
<1>1. ASSUME NEW k \in Jobs, \/ Claim(k) \/ Finish(k) \/ ProcessFails(k) \/ RollbackReset(k)
                            \/ ListedUnreadable(k)
      PROVE FALSE
  <2>1. Live(k) \/ rolling[k] = "reverted"
    BY <1>1 DEF Claim, Finish, ProcessFails, RollbackReset, ListedUnreadable, Live
  <2>2. k # j
    BY <2>1 DEF TypeInv, Shape
  <2>3. jobs'[j] = jobs[j]
    BY <1>1, <2>2, <1>t DEF Claim, Finish, ProcessFails, RollbackReset, ListedUnreadable
  <2>. QED
    BY <2>3
<1>2. ASSUME NEW k \in Jobs, NEW from \in VersionNumbers, NEW to \in VersionNumbers,
             Trigger(k, from, to)
      PROVE k = j
  BY <1>2, <1>t DEF Trigger
<1>3. ASSUME \E d \in Pages : \/ Create(d) \/ Recreate(d) \/ Delete(d) \/ Archive(d)
                              \/ \E c \in Contents : Rewrite(d, c)
                              \/ \E s \in Slots, v \in Values \cup {Absent} : Edit(d, s, v)
      PROVE jobs' = jobs
  BY <1>3 DEF Create, Recreate, Delete, Archive, Edit, Rewrite
<1>4. ASSUME NEW k \in Jobs,
             \/ List(k) \/ Report(k) \/ ApplyRead(k) \/ Commits(k) \/ EndBatch(k)
             \/ ApplyFails(k) \/ Dies(k) \/ RollbackRevert(k)
             \/ \E d \in Pages : ResolveSkip(k, d) \/ ResolveRead(k, d) \/ ResolveCommit(k, d)
      PROVE jobs' = jobs
  BY <1>4 DEF List, Report, ApplyRead, Commits, ApplyCommit, AnswerLost, EndBatch, ApplyFails, Dies,
              RollbackRevert, LeaveBehind, ResolveSkip, ResolveRead, ResolveCommit
<1>5. ASSUME NEW s \in Slots, NEW v \in Values \cup {Absent}, EditTemplate(s, v)
      PROVE jobs' = jobs
  BY <1>5 DEF EditTemplate
<1>. QED
  BY <1>1, <1>2, <1>3, <1>4, <1>5 DEF Next, JobStep, Commits

LEMMA CheckpointsStep ==
  ASSUME TypeInv, DriftInv, ~Overlapping, Next
  PROVE CheckpointInv'
<1>t. CheckpointInv /\ \A d \in Pages : Drifts(d)
  BY DEF DriftInv, DriftIsAuthored, Drifts
<1>l. /\ Latest \in VersionNumbers /\ Latest \in Nat
      /\ \A v \in VersionNumbers : v <= Latest => template'[v] = template[v]
  BY LatestType, TemplateStep
<1>m. Latest' \in Nat /\ Latest <= Latest'
  BY TemplateStep
<1>1. ASSUME NEW j \in Jobs, jobs[j] # None, NEW d \in Pages, d \in Recorded(j)' PROVE Kept(j, d)'
  <2>1. jobs'[j].checkpoint = jobs[j].checkpoint
    BY <1>1, CheckpointStep
  <2>2. Kept(j, d)
    BY <1>1, <2>1, <1>t DEF CheckpointInv, Recorded
  <2>3. /\ pages'[d].status # "none"
        /\ pages'[d].status = "live" => pages[d].status = "live"
    BY <2>2, PageStatus DEF Kept
  <2> DEFINE v == jobs[j].checkpoint.before[d]
  <2>4. v \in VersionNumbers /\ v <= Latest
    BY <1>1, <2>2 DEF Kept, TypeInv, TypeOK, Job, Checkpoint
  <2>5. v <= Latest' /\ template'[v] = template[v]
    BY <2>4, <1>l, <1>m DEF VersionNumbers
  <2>. QED
    BY <2>1, <2>2, <2>3, <2>5 DEF Kept
<1>2. ASSUME NEW j \in Jobs, jobs[j] = None, jobs'[j] # None, NEW d \in Pages, d \in Recorded(j)'
      PROVE Kept(j, d)'
  <2>1. PICK from \in VersionNumbers, to \in VersionNumbers : Trigger(j, from, to)
    BY <1>2, JobAppears
  <2>2. /\ jobs'[j].checkpoint.tips[d] =
              IF pages[d].status = "none" \/ pages[d].tip = Tombstone THEN None ELSE pages[d].tip
        /\ jobs'[j].checkpoint.before[d] = pages[d].synced
        /\ jobs'[j].checkpoint.authored[d] = authored[d]
        /\ UNCHANGED <<template, pages, authored>>
    BY <2>1 DEF Trigger, TypeInv, TypeOK
  <2>3. pages[d].status # "none" /\ jobs'[j].checkpoint.tips[d] = pages[d].tip
    BY <1>2, <2>2 DEF Recorded
  <2>4. pages[d].synced <= Latest
    BY DEF TypeInv, Shape
  <2>. QED
    BY <2>2, <2>3, <2>4, <1>t DEF Kept, Drifts, Latest
<1>. QED
  BY <1>1, <1>2 DEF CheckpointInv, Recorded

LEMMA DriftInvStep ==
  ASSUME TypeInv, DriftInv, ~Overlapping, [Next]_vars
  PROVE DriftInv'
<1>1. CASE UNCHANGED vars
  <2>1. UNCHANGED <<template, pages, jobs, conflicts, run, rolling, authored>>
    BY <1>1 DEF vars
  <2>2. Alone'
    BY <2>1 DEF DriftInv, Alone, Live, Pending
  <2>3. WorkInv'
    <3>1. ASSUME NEW j \in Jobs
          PROVE /\ Working(j)' = Working(j) /\ Left(j)' = Left(j) /\ Next1(j)' = Next1(j)
                /\ Clashes(j)' = Clashes(j)
      BY <2>1 DEF Working, Left, Next1, Clashes, Seen, From, To
    <3>2. WorkInv
      BY DEF DriftInv
    <3>3. ASSUME NEW j \in Jobs, run[j].at = "apply" PROVE Agrees(Next1(j), run[j].read)'
      <4>1. Agrees(Next1(j), run[j].read)
        BY <3>2, <3>3 DEF WorkInv
      <4>. QED
        BY <2>1, <3>1, <4>1 DEF Agrees
    <3>. QED
      BY <2>1, <3>1, <3>2, <3>3 DEF WorkInv
  <2>4. RowInv'
    BY <2>1 DEF DriftInv, RowInv, Pending, Agrees
  <2>5. DriftIsAuthored' /\ CheckpointInv'
    BY <2>1 DEF DriftInv, DriftIsAuthored, CheckpointInv, Kept, Recorded, Latest
  <2>. QED
    BY <2>2, <2>3, <2>4, <2>5 DEF DriftInv
<1>2. CASE Next
  BY <1>2, AloneStep, WorkStep, RowsStep, CheckpointsStep, DriftStep DEF DriftInv
<1>. QED
  BY <1>1, <1>2

LEMMA InitDrift == Init => DriftInv
<1> SUFFICES ASSUME Init PROVE DriftInv
  OBVIOUS
<1>1. PICK c \in Contents, D \in SUBSET Pages :
          /\ template = <<c>>
          /\ pages = [d \in Pages |-> [status |-> IF d \in D THEN "live" ELSE "none",
                                       tip |-> c, base |-> c, synced |-> 1]]
  BY DEF Init
<1>2. Of(c) = c /\ template[1] = c
  BY <1>1 DEF Of
<1>3. DriftIsAuthored
  BY <1>1, <1>2 DEF DriftIsAuthored
<1>4. WorkInv /\ RowInv /\ CheckpointInv
  BY DEF Init, WorkInv, RowInv, CheckpointInv, Working, Pending, NoRun
<1>. QED
  BY <1>3, <1>4, InitAlone DEF DriftInv

\* While jobs, rollbacks and resolutions take turns, whatever differs between a page and
\* the version of the template it is said to carry was changed by an author, chosen by an
\* operator, or changed by the template in versions that no delta took to the page: where
\* a delta, or the version a rollback gave, did not begin at the page's synced_version.
\* Of a page that a rollback left unreadable it says nothing.
THEOREM MigrationDriftIsAuthored ==
  ASSUME ~Overlapping
  PROVE Spec => []DriftIsAuthored
<1>1. TypeInv /\ DriftInv /\ [Next]_vars => DriftInv'
  BY DriftInvStep
<1>2. DriftInv => DriftIsAuthored
  BY DEF DriftInv
<1>. QED
  BY <1>1, <1>2, InitType, InitDrift, StepType, PTL DEF Spec

\* Of a page that nobody saved between the transaction's read and its insert, a migration
\* changes no slot that the author changed, though saves came before; and it brings back
\* none that the author removed before the page was listed, if none came after.
THEOREM MigrationKeepsLocalEdits ==
  ASSUME ~Overlapping
  PROVE Spec => LocalEditsSurvive
<1> DEFINE Survives(j, d) ==
      \A s \in Slots :
          LET mine == Of(pages[d].tip)[s]
              after == Of(pages'[d].tip)[s]
          IN /\ mine \notin {Absent, From(j)[s]} /\ To(j)[s] # Absent => after = mine
             /\ AsListed(j, d) /\ mine = Absent /\ pages[d].base[s] # Absent => after = Absent
<1>1. ASSUME TypeInv, DriftInv, [Next]_vars, NEW j \in Jobs, NEW d \in Pages, Applies(j, d)
      PROVE Survives(j, d)
  <2> SUFFICES ASSUME NEW s \in Slots
               PROVE /\ /\ Of(pages[d].tip)[s] \notin {Absent, From(j)[s]} /\ To(j)[s] # Absent
                        => Of(pages'[d].tip)[s] = Of(pages[d].tip)[s]
                     /\ AsListed(j, d) /\ Of(pages[d].tip)[s] = Absent /\ pages[d].base[s] # Absent
                        => Of(pages'[d].tip)[s] = Absent
    OBVIOUS
  <2> DEFINE c == Of(run[j].read)
  <2>1. /\ Commits(j) /\ Of(pages[d].tip) = c /\ d = Next1(j) /\ run[j].at = "apply"
        /\ AsListed(j, d) => Seen(j) = c
    BY <1>1, AppliesCommits DEF Applies
  <2>2. /\ From(j) \in Contents /\ To(j) \in Contents /\ c \in Contents
        /\ Of(pages'[d].tip) = ApplyDelta(c, From(j), To(j))
    BY <1>1, <2>1, CommitPuts, OfType
  <2>3. AsListed(j, d) => ~Structural(c, pages[d].base, From(j), To(j))
    BY <1>1, <2>1 DEF DriftInv, WorkInv, Clashes
  <2> HIDE DEF c
  <2>4. ASSUME AsListed(j, d), c[s] = Absent, pages[d].base[s] # Absent
        PROVE Of(pages'[d].tip)[s] = Absent
    <3>1. s \in Touched(pages[d].base, c)
      BY <2>4 DEF Touched, Removed
    <3>2. s \notin Touched(From(j), To(j))
      BY <2>3, <2>4, <3>1 DEF Structural
    <3>. QED
      BY <2>2, <2>4, <3>2 DEF ApplyDelta, Touched, Added, Removed, Patched
  <2>5. ASSUME c[s] \notin {Absent, From(j)[s]}, To(j)[s] # Absent PROVE Of(pages'[d].tip)[s] = c[s]
    BY <2>2, <2>5 DEF ApplyDelta, Added, Removed, Patched
  <2>. QED
    BY <2>1, <2>4, <2>5
<1>2. TypeInv /\ DriftInv /\ [Next]_vars =>
        [\A j \in Jobs, d \in Pages : Applies(j, d) => Survives(j, d)]_vars
  BY <1>1
<1>3. TypeInv /\ DriftInv /\ [Next]_vars => DriftInv'
  BY DriftInvStep
<1>. QED
  BY <1>2, <1>3, InitType, InitDrift, StepType, PTL DEF Spec, LocalEditsSurvive

-----------------------------------------------------------------------------
\* The offset of a job counts the pages it has left behind.

\* The pages of the listing that the job has reported.
Behind(j) == {d \in Affected(jobs[j].to) : conflicts[j][d] # None}

Rest(j) == Affected(jobs[j].to) \ Behind(j)

Before(S, T) == \A x \in S, y \in T : x < y

\* In the order of the listing come the pages left behind, those of the batch, and
\* those of batches to come: while no commit's answer was lost.
Account(j) ==
    /\ jobs[j] = None => run[j] = NoRun
    /\ run[j].at = "queued" => /\ run[j].offset = 0 /\ run[j].unclean = 0
                               /\ \A d \in Pages : conflicts[j][d] = None
    /\ run[j].at \in {"list", "pages", "apply"} /\ ~run[j].misled =>
          /\ Cardinality(Behind(j)) = run[j].offset + run[j].unclean
          /\ Behind(j) # {} => run[j].conflicted
          /\ Before(Behind(j), Rest(j))
    /\ run[j].at = "list" => run[j].unclean = 0
    /\ Working(j) /\ ~run[j].misled =>
          Left(j) \subseteq Rest(j) /\ Before(Left(j), Rest(j) \ Left(j))

AccountInv == \A j \in Jobs : Account(j)

LEMMA BehindType ==
  ASSUME NEW j \in Jobs
  PROVE /\ Affected(jobs[j].to) \in SUBSET Pages /\ IsFiniteSet(Affected(jobs[j].to))
        /\ Behind(j) \subseteq Affected(jobs[j].to) /\ IsFiniteSet(Behind(j))
        /\ Rest(j) \subseteq Affected(jobs[j].to)
        /\ Affected(jobs[j].to) = Behind(j) \cup Rest(j) /\ Behind(j) \cap Rest(j) = {}
<1>1. Affected(jobs[j].to) \in SUBSET Pages
  BY DEF Affected
<1>2. IsFiniteSet(Affected(jobs[j].to))
  BY <1>1, FS_Subset
<1>3. Behind(j) \subseteq Affected(jobs[j].to)
  BY DEF Behind
<1>4. IsFiniteSet(Behind(j))
  BY <1>2, <1>3, FS_Subset
<1>. QED
  BY <1>1, <1>2, <1>3, <1>4 DEF Rest

Rank(j, d) == Cardinality({e \in Affected(jobs[j].to) : e < d})

\* Those left behind have the first ranks, and the next one has the rank of the offset.
LEMMA Ranks ==
  ASSUME TypeInv, NEW j \in Jobs, Before(Behind(j), Rest(j)), Cardinality(Behind(j)) = run[j].offset
  PROVE /\ Listed(j) = {d \in Affected(jobs[j].to) :
                          run[j].offset <= Rank(j, d) /\ Rank(j, d) < run[j].offset + BatchSize}
        /\ \A d \in Affected(jobs[j].to) : Rank(j, d) \in Nat
        /\ \A d \in Behind(j) : Rank(j, d) < run[j].offset
        /\ \A d, e \in Affected(jobs[j].to) : d <= e => Rank(j, d) <= Rank(j, e)
        /\ \A d \in Rest(j) : run[j].offset <= Rank(j, d)
        /\ Rest(j) # {} => \E d \in Rest(j) : Rank(j, d) = run[j].offset
<1> DEFINE A == Affected(jobs[j].to)
           B == Behind(j)
           R == Rest(j)
           Below(d) == {e \in A : e < d}
<1>a. /\ A \in SUBSET Pages /\ IsFiniteSet(A) /\ A \subseteq Nat /\ R \subseteq A /\ B \subseteq A
      /\ IsFiniteSet(B) /\ A = B \cup R
  BY BehindType
<1>b. Before(B, R) /\ Cardinality(B) = run[j].offset
  OBVIOUS
<1>1. Listed(j) = {d \in A : run[j].offset <= Rank(j, d) /\ Rank(j, d) < run[j].offset + BatchSize}
  BY DEF Listed, Rank
<1> HIDE DEF A, B, R
<1>2. ASSUME NEW d \in A
      PROVE IsFiniteSet(Below(d)) /\ Cardinality(Below(d)) \in Nat /\ Rank(j, d) = Cardinality(Below(d))
  <2>1. Below(d) \in SUBSET A
    OBVIOUS
  <2>2. Rank(j, d) = Cardinality(Below(d))
    BY DEF Rank, A
  <2>. QED
    BY <2>1, <2>2, <1>a, FS_Subset, FS_CardinalityType
<1>3. ASSUME NEW d \in B PROVE Rank(j, d) < run[j].offset
  <2>1. d \in A /\ Below(d) \subseteq B \ {d}
    <3>1. ASSUME NEW e \in Below(d) PROVE e \in B \ {d}
      <4>1. e \in A /\ e < d /\ e \in Nat /\ d \in Nat
        BY <1>a
      <4>2. e \in R => d < e
        BY <1>b DEF Before
      <4>3. e \notin R /\ e # d
        BY <4>1, <4>2
      <4>. QED
        BY <4>1, <4>3, <1>a
    <3>2. d \in A
      BY <1>a
    <3> HIDE DEF Below
    <3>. QED
      BY <3>1, <3>2
  <2>2. IsFiniteSet(B \ {d}) /\ Cardinality(B \ {d}) = Cardinality(B) - 1
    BY <1>a, FS_RemoveElement
  <2>3. Cardinality(Below(d)) <= Cardinality(B \ {d})
    BY <2>1, <2>2, FS_Subset
  <2>4. Cardinality(B) \in Nat
    BY <1>a, FS_CardinalityType
  <2> HIDE DEF Below
  <2>. QED
    BY <2>1, <2>2, <2>3, <2>4, <1>2, <1>b
<1>4. ASSUME NEW d \in A, NEW e \in A, d <= e PROVE Rank(j, d) <= Rank(j, e)
  <2>1. Below(d) \subseteq Below(e)
    <3>1. ASSUME NEW x \in Below(d) PROVE x \in Below(e)
      <4>1. x \in A /\ x < d /\ x \in Nat /\ d \in Nat /\ e \in Nat
        BY <1>a
      <4>2. x < e
        BY <4>1, <1>4
      <4>. QED
        BY <4>1, <4>2
    <3> HIDE DEF Below
    <3>. QED
      BY <3>1
  <2> HIDE DEF Below
  <2>. QED
    BY <2>1, <1>2, FS_Subset
<1>5. ASSUME R # {}
      PROVE \E d \in R : Rank(j, d) = run[j].offset /\ \A e \in R : d <= e
  <2>1. R \in SUBSET Pages
    BY <1>a
  <2>2. PICK d \in R : \A e \in R : d <= e
    BY <1>5, <2>1, HasLeast
  <2>3. Below(d) = B
    <3>0. d \in A /\ d \in Nat
      BY <1>a
    <3>1. ASSUME NEW x \in A PROVE x \in Below(d) <=> x \in B
      <4>1. x \in Nat /\ (x < d => ~(d <= x))
        BY <1>a, <3>0
      <4>2. x \in B => x < d
        BY <1>b DEF Before
      <4>3. x < d => x \notin R
        BY <2>2, <4>1
      <4>. QED
        BY <4>2, <4>3, <1>a
    <3>2. Below(d) \subseteq A
      OBVIOUS
    <3> HIDE DEF Below
    <3>. QED
      BY <3>1, <3>2, <1>a
  <2>4. d \in A
    BY <1>a
  <2> HIDE DEF Below
  <2>. QED
    BY <2>2, <2>3, <2>4, <1>2, <1>b
<1>7. ASSUME NEW d \in R PROVE run[j].offset <= Rank(j, d)
  <2>1. PICK e \in R : Rank(j, e) = run[j].offset /\ e <= d
    BY <1>5
  <2>. QED
    BY <2>1, <1>4, <1>a
<1>6. \A d \in A : Rank(j, d) \in Nat
  <2> HIDE DEF Below
  <2>. QED
    BY <1>2
<1> HIDE DEF Below
<1>. QED
  BY <1>1, <1>3, <1>4, <1>5, <1>6, <1>7 DEF A, B, R

\* A job's listing changes by its own commits alone.
LEMMA AffectedStep ==
  ASSUME TypeInv, Alone, WorkInv, ~Overlapping, Next, NEW j \in Jobs, Live(j)
  PROVE /\ ~Commits(j) => Affected(jobs[j].to)' = Affected(jobs[j].to)
        /\ Commits(j) => Affected(jobs[j].to)' = Affected(jobs[j].to) \ {Next1(j)}
<1>t. TypeOK /\ Shape /\ jobs[j] # None /\ jobs[j] \in Job
  BY DEF TypeInv, TypeOK, Shape
<1>1. jobs'[j].to = jobs[j].to /\ jobs[j].to \in Nat /\ jobs[j].to <= Latest /\ Latest \in Nat
  <2>1. jobs'[j].to = jobs[j].to
    BY <1>t, DeltaStep
  <2>. QED
    BY <2>1, <1>t, LatestType DEF Shape, Job, VersionNumbers
<1>2. ASSUME NEW d \in Pages, ~(Commits(j) /\ d = Next1(j))
      PROVE d \in Affected(jobs[j].to)' <=> d \in Affected(jobs[j].to)
  <2>1. ~Quiet /\ \A k \in Jobs : rolling[k] # "reverted" /\ ~Pending(k, d)
    BY DEF Alone, Quiet
  <2>2. ASSUME NEW k \in Jobs PROVE ~ResolveCommit(k, d)
    BY <2>1 DEF ResolveCommit, Pending
  <2>3. ASSUME NEW k \in Jobs, Commits(k) PROVE k = j
    BY <2>3, CommitPhase DEF Alone, Live
  <2>4. CASE Keeps(d)
    BY <2>1, <2>4, <1>1 DEF Keeps, Affected
  <2>5. CASE Create(d)
    <3>1. pages[d].status = "none" /\ pages'[d].synced = Latest
      BY <2>5, <1>t DEF Create, TypeOK
    <3>. QED
      BY <3>1, <1>1 DEF Affected
  <2>. QED
    BY <1>2, <2>1, <2>2, <2>3, <2>4, <2>5, PageStep
<1>3. Affected(jobs[j].to)' \subseteq Pages /\ Affected(jobs[j].to) \subseteq Pages
  BY DEF Affected
<1>4. ASSUME Commits(j) PROVE Next1(j) \notin Affected(jobs[j].to)'
  <2>1. pages'[Next1(j)].synced = jobs[j].to
    BY <1>4, CommitPuts
  <2>. QED
    BY <2>1, <1>1 DEF Affected
<1>. QED
  BY <1>2, <1>3, <1>4

LEMMA RowsKeep ==
  ASSUME TypeInv, Alone, WorkInv, ~Overlapping, Next, NEW j \in Jobs, Live(j),
         ~Commits(j), ~LeaveBehind(j)
  PROVE /\ Behind(j)' = Behind(j) /\ Rest(j)' = Rest(j)
        /\ \A d \in Pages : conflicts'[j][d] # None <=> conflicts[j][d] # None
<1>1. Affected(jobs[j].to)' = Affected(jobs[j].to)
  BY AffectedStep
<1>2. \A d \in Pages : conflicts'[j][d] # None <=> conflicts[j][d] # None
  BY RowStep DEF ResolveRead, Open
<1>3. Affected(jobs[j].to) \subseteq Pages
  BY DEF Affected
<1>4. Behind(j)' = Behind(j)
  BY <1>1, <1>2, <1>3 DEF Behind
<1>. QED
  BY <1>1, <1>2, <1>4 DEF Rest

LEMMA LeaveRun ==
  ASSUME TypeInv, NEW j \in Jobs, LeaveBehind(j)
  PROVE /\ run'[j].at = "pages" /\ run'[j].offset = run[j].offset
        /\ run'[j].unclean = run[j].unclean + 1 /\ run'[j].conflicted = TRUE
        /\ run'[j].misled = run[j].misled
        /\ Left(j)' = Left(j) \ {Next1(j)} /\ run'[j] # run[j]
        /\ UNCHANGED <<pages, jobs>>
        /\ Next1(j) \in Pages => /\ conflicts'[j][Next1(j)] # None
                                 /\ \A d \in Pages \ {Next1(j)} : conflicts'[j][d] = conflicts[j][d]
<1>t. run \in [Jobs -> Run] /\ run[j] \in Run /\ conflicts \in [Jobs -> [Pages -> Conflict \cup {None}]]
  BY DEF TypeInv, TypeOK
<1>1. run' = [run EXCEPT ![j] = [run[j] EXCEPT !.at = "pages", !.seen = WithoutFirst(j),
                 !.read = None, !.found = None, !.unclean = run[j].unclean + 1,
                 !.conflicted = TRUE]]
  BY DEF LeaveBehind
<1>2. /\ run'[j].misled = run[j].misled /\ run'[j].at = "pages" /\ run'[j].offset = run[j].offset
      /\ run'[j].unclean = run[j].unclean + 1 /\ run'[j].conflicted = TRUE
      /\ run'[j].seen = WithoutFirst(j)
  BY <1>1, <1>t DEF Run
<1>3. run[j].unclean \in Nat
  BY <1>t, RunFields
<1>4. DOMAIN WithoutFirst(j) = Left(j) \ {Next1(j)}
  BY DEF WithoutFirst
<1>5. conflicts' = [conflicts EXCEPT ![j][Next1(j)] = Row("structural", {})] /\ UNCHANGED <<pages, jobs>>
  BY DEF LeaveBehind
<1>6. Row("structural", {}) # None
  BY RowType
<1>7. Next1(j) \in Pages => /\ conflicts'[j][Next1(j)] # None
                            /\ \A d \in Pages \ {Next1(j)} : conflicts'[j][d] = conflicts[j][d]
  <2> DEFINE e == Next1(j)
             row == Row("structural", {})
  <2>1. conflicts' = [conflicts EXCEPT ![j][e] = row] /\ row # None
    BY <1>5, <1>6
  <2> HIDE DEF e, row
  <2>2. e \in Pages => conflicts'[j][e] # None /\ \A d \in Pages \ {e} : conflicts'[j][d] = conflicts[j][d]
    BY <2>1, <1>t
  <2>. QED
    BY <2>2 DEF e
<1>. QED
  BY <1>2, <1>3, <1>4, <1>5, <1>7 DEF Left

LEMMA CommitRun ==
  ASSUME TypeInv, NEW j \in Jobs, Commits(j)
  PROVE /\ run'[j].at = "pages" /\ run'[j].offset = run[j].offset
        /\ ApplyCommit(j) => /\ run'[j].unclean = run[j].unclean /\ run'[j].misled = run[j].misled
                             /\ run[j].conflicted => run'[j].conflicted
        /\ AnswerLost(j) => run'[j].misled
        /\ Left(j)' = Left(j) \ {Next1(j)} /\ run'[j] # run[j] /\ UNCHANGED jobs
        /\ \A d \in Pages \ {Next1(j)} : conflicts'[j][d] = conflicts[j][d]
<1>t. run \in [Jobs -> Run] /\ run[j] \in Run /\ conflicts \in [Jobs -> [Pages -> Conflict \cup {None}]]
  BY DEF TypeInv, TypeOK
<1> DEFINE b == run[j].conflicted \/ DivergedSeen(j) # {}
           Moved == run'[j].at = "pages" /\ run'[j].offset = run[j].offset
                    /\ run'[j].seen = WithoutFirst(j)
<1>1. ASSUME ApplyCommit(j)
      PROVE /\ Moved /\ run'[j].unclean = run[j].unclean /\ run'[j].misled = run[j].misled
            /\ run'[j].conflicted = b
  <2> HIDE DEF b
  <2>1. run'[j] = [run[j] EXCEPT !.at = "pages", !.seen = WithoutFirst(j),
                      !.read = None, !.found = None, !.conflicted = b]
    BY <1>1, <1>t DEF ApplyCommit, b
  <2>. QED
    BY <2>1, <1>t DEF Run
<1>2. ASSUME AnswerLost(j) PROVE Moved /\ run'[j].misled
  <2>1. run'[j] = [run[j] EXCEPT !.at = "pages", !.seen = WithoutFirst(j), !.read = None,
            !.found = None, !.unclean = run[j].unclean + 1, !.conflicted = TRUE, !.misled = TRUE]
    BY <1>2, <1>t, Zenon DEF AnswerLost
  <2>. QED
    BY <2>1, <1>t DEF Run
<1>3. Moved
  BY <1>1, <1>2 DEF Commits
<1>4. DOMAIN WithoutFirst(j) = Left(j) \ {Next1(j)}
  BY DEF WithoutFirst
<1>5. run[j].at = "apply" /\ UNCHANGED jobs
      /\ \E row : conflicts' = [conflicts EXCEPT ![j][Next1(j)] = row]
  BY DEF Commits, ApplyCommit, AnswerLost
<1>6. \A d \in Pages \ {Next1(j)} : conflicts'[j][d] = conflicts[j][d]
  <2> DEFINE e == Next1(j)
  <2>1. PICK row : conflicts' = [conflicts EXCEPT ![j][e] = row]
    BY <1>5
  <2> HIDE DEF e
  <2>2. \A d \in Pages \ {e} : conflicts'[j][d] = conflicts[j][d]
    BY <2>1, <1>t
  <2>. QED
    BY <2>2 DEF e
<1>. QED
  BY <1>1, <1>2, <1>3, <1>4, <1>5, <1>6 DEF Left

\* A job that has not begun.
LEMMA AccountTrigger ==
  ASSUME TypeInv, NEW j \in Jobs, Account(j), jobs[j] = None, Next
  PROVE Account(j)'
<1>t. TypeOK /\ Shape /\ run[j] = NoRun /\ NoRun.at = "off" /\ NoRun.offset = 0 /\ NoRun.unclean = 0
  BY DEF TypeInv, Account, NoRun
<1>1. ~Live(j) /\ \A d \in Pages : conflicts[j][d] = None
  BY <1>t DEF Live, Shape
<1>2. CASE run'[j] = run[j]
  BY <1>2, <1>t DEF Account, Working
<1>3. CASE run'[j].at = "queued" /\ \E from, to \in VersionNumbers : Trigger(j, from, to)
  <2>1. run' = [run EXCEPT ![j].at = "queued"] /\ UNCHANGED conflicts
    BY <1>3 DEF Trigger
  <2>2. run'[j].offset = 0 /\ run'[j].unclean = 0
    BY <2>1, <1>t DEF TypeOK, NoRun
  <2>3. jobs'[j] # None
    <3>1. TypeInv'
      BY StepType
    <3>. QED
      BY <1>3, <3>1 DEF TypeInv, Shape, Live
  <2>. QED
    BY <1>3, <2>1, <2>2, <2>3, <1>1 DEF Account, Working
<1>. QED
  BY <1>1, <1>2, <1>3, RunStep DEF Live, List, ApplyRead, Comparable, Working

LEMMA AccountList ==
  ASSUME TypeInv, Alone, WorkInv, ~Overlapping, Next, NEW j \in Jobs, Account(j), jobs[j] # None,
         List(j), run'[j].at = "pages", Left(j)' = Listed(j), ~run[j].misled
  PROVE Account(j)'
<1>t. run \in [Jobs -> Run] /\ run[j] \in Run /\ run[j].at = "list" /\ Live(j) /\ jobs'[j] # None
  BY DeltaStep DEF TypeInv, TypeOK, List, Live
<1>1. ~Commits(j) /\ ~LeaveBehind(j)
  <2>1. ~Commits(j)
    BY <1>t, CommitPhase
  <2>2. ~LeaveBehind(j)
    <3>1. run'[j].unclean = run[j].unclean
      BY <1>t DEF List, Run
    <3>2. run[j].unclean \in Nat
      BY <1>t, RunFields
    <3>3. LeaveBehind(j) => run'[j].unclean = run[j].unclean + 1
      BY LeaveRun
    <3>. QED
      BY <3>1, <3>2, <3>3
  <2>. QED
    BY <2>1, <2>2
<1>2. Behind(j)' = Behind(j) /\ Rest(j)' = Rest(j)
  BY <1>1, <1>t, RowsKeep
<1>3. run'[j].offset = run[j].offset /\ run'[j].unclean = run[j].unclean
      /\ run'[j].conflicted = run[j].conflicted
  BY <1>t DEF List, Run
<1>4. /\ Cardinality(Behind(j)) = run[j].offset + run[j].unclean /\ run[j].unclean = 0
      /\ Behind(j) # {} => run[j].conflicted
      /\ Before(Behind(j), Rest(j))
  BY <1>t DEF Account
<1>5. run[j].offset \in Nat
  BY <1>t, RunFields
<1>6. Cardinality(Behind(j)) = run[j].offset
  BY <1>4, <1>5
<1>a. Rest(j) \subseteq Affected(jobs[j].to) /\ Affected(jobs[j].to) = Behind(j) \cup Rest(j)
      /\ Affected(jobs[j].to) \subseteq Nat
  BY BehindType
<1>7. ASSUME NEW d \in Listed(j) PROVE d \in Rest(j)
  <2>1. d \in Affected(jobs[j].to) /\ run[j].offset <= Rank(j, d) /\ Rank(j, d) \in Nat
    BY <1>4, <1>6, Ranks
  <2>2. d \notin Behind(j)
    BY <2>1, <1>4, <1>5, <1>6, Ranks
  <2>. QED
    BY <2>1, <2>2, <1>a
<1>8. ASSUME NEW d \in Listed(j), NEW e \in Rest(j) \ Listed(j) PROVE d < e
  <2>1. d \in Affected(jobs[j].to) /\ e \in Affected(jobs[j].to) /\ d \in Nat /\ e \in Nat
    BY <1>7, <1>a
  <2>2. Rank(j, d) < run[j].offset + BatchSize /\ Rank(j, d) \in Nat /\ Rank(j, e) \in Nat
    BY <2>1, <1>4, <1>6, Ranks
  <2>3. run[j].offset <= Rank(j, e)
    BY <1>4, <1>6, Ranks
  <2>4. ~(Rank(j, e) < run[j].offset + BatchSize)
    BY <2>1, <2>3, <1>4, <1>6, Ranks
  <2>5. e <= d => Rank(j, e) <= Rank(j, d)
    BY <2>1, <1>4, <1>6, Ranks
  <2>6. ~(e <= d)
    BY <2>2, <2>4, <2>5, <1>5
  <2>. QED
    BY <2>1, <2>6
<1>9. Before(Left(j)', Rest(j)' \ Left(j)') /\ Left(j)' \subseteq Rest(j)'
  BY <1>2, <1>7, <1>8 DEF Before
<1>. QED
  BY <1>t, <1>2, <1>3, <1>4, <1>9 DEF Account, Working, Before

LEMMA AccountPages ==
  ASSUME TypeInv, Alone, WorkInv, ~Overlapping, Next, NEW j \in Jobs, Account(j), jobs[j] # None,
         ApplyCommit(j) \/ LeaveBehind(j), Working(j), Left(j) # {}, ~run[j].misled
  PROVE Account(j)'
<1>t. /\ run[j] \in Run /\ Live(j) /\ jobs'[j] # None /\ run[j].offset \in Nat /\ run[j].unclean \in Nat
  BY DeltaStep, RunFields DEF TypeInv, TypeOK, Working, Live
<1>4. /\ Cardinality(Behind(j)) = run[j].offset + run[j].unclean
      /\ Behind(j) # {} => run[j].conflicted
      /\ Before(Behind(j), Rest(j))
      /\ Left(j) \subseteq Rest(j) /\ Before(Left(j), Rest(j) \ Left(j))
  BY DEF Account, Working
<1>a. Rest(j) \subseteq Affected(jobs[j].to) /\ Affected(jobs[j].to) = Behind(j) \cup Rest(j)
      /\ Affected(jobs[j].to) \in SUBSET Pages /\ Behind(j) \cap Rest(j) = {} /\ IsFiniteSet(Behind(j))
  BY BehindType
<1> DEFINE f == Next1(j)
<1>5. run'[j].at = "pages" /\ Left(j)' = Left(j) \ {f} /\ run'[j].offset = run[j].offset
  BY LeaveRun, CommitRun DEF Commits
<1>6. f \in Left(j) /\ f \in Pages /\ \A d \in Left(j) : f <= d
  BY FirstOfBatch DEF TypeInv
<1>7. f \in Rest(j) /\ f \notin Behind(j) /\ f \in Nat /\ Left(j) \subseteq Nat
  BY <1>4, <1>6, <1>a
<1>8. ASSUME NEW d \in Rest(j) \ {f} PROVE f < d
  <2>1. CASE d \in Left(j)
    BY <2>1, <1>6, <1>7, <1>8
  <2>2. CASE d \notin Left(j)
    BY <2>2, <1>4, <1>6 DEF Before
  <2>. QED
    BY <2>1, <2>2
<1>9. Rest(j)' = Rest(j) \ {f} => /\ Left(j)' \subseteq Rest(j)'
                                  /\ Before(Left(j)', Rest(j)' \ Left(j)')
  BY <1>4, <1>5, <1>6 DEF Before
<1>10. CASE LeaveBehind(j)
  <2>1. Affected(jobs[j].to)' = Affected(jobs[j].to)
    BY <1>10, LeaveRun DEF Affected
  <2>2. conflicts'[j][f] # None /\ \A d \in Pages \ {f} : conflicts'[j][d] = conflicts[j][d]
    BY <1>6, <1>10, LeaveRun
  <2>3. Behind(j)' = Behind(j) \cup {f}
    BY <2>1, <2>2, <1>7, <1>a DEF Behind
  <2>4. Rest(j)' = Rest(j) \ {f}
    BY <2>1, <2>3 DEF Rest
  <2>5. Cardinality(Behind(j)') = Cardinality(Behind(j)) + 1
    <3>1. Cardinality(Behind(j) \cup {f}) = Cardinality(Behind(j)) + 1
      BY <1>7, <1>a, FS_AddElement
    <3>. QED
      BY <2>3, <3>1
  <2>6. Cardinality(Behind(j)') = run'[j].offset + run'[j].unclean
    <3>1. run'[j].unclean = run[j].unclean + 1
      BY <1>10, LeaveRun
    <3>. QED
      BY <2>5, <3>1, <1>4, <1>5, <1>t
  <2>7. Before(Behind(j)', Rest(j)')
    BY <2>3, <2>4, <1>4, <1>8 DEF Before
  <2>8. run'[j].conflicted
    BY <1>10, LeaveRun
  <2>. QED
    BY <2>4, <2>6, <2>7, <2>8, <1>5, <1>9, <1>t DEF Account, Working, Before
<1>11. CASE ApplyCommit(j)
  <2>0. Commits(j)
    BY <1>11 DEF Commits
  <2>1. Affected(jobs[j].to)' = Affected(jobs[j].to) \ {f}
    BY <2>0, <1>t, AffectedStep
  <2>2. \A d \in Pages \ {f} : conflicts'[j][d] = conflicts[j][d]
    BY <2>0, CommitRun
  <2>3. Behind(j)' = Behind(j)
    BY <2>1, <2>2, <1>7, <1>a DEF Behind
  <2>4. Rest(j)' = Rest(j) \ {f}
    BY <2>1, <2>3, <1>7 DEF Rest
  <2>5. run'[j].unclean = run[j].unclean /\ (run[j].conflicted => run'[j].conflicted)
    BY <1>11, <2>0, CommitRun
  <2>6. Before(Behind(j)', Rest(j)')
    BY <2>3, <2>4, <1>4 DEF Before
  <2>. QED
    BY <2>3, <2>4, <2>5, <2>6, <1>4, <1>5, <1>9, <1>t DEF Account, Working, Before
<1>. QED
  BY <1>10, <1>11

LEMMA AccountStep ==
  ASSUME TypeInv, Alone, WorkInv, AccountInv, ~Overlapping, Next
  PROVE AccountInv'
<1> SUFFICES ASSUME NEW j \in Jobs PROVE Account(j)'
  BY DEF AccountInv
<1>t. run \in [Jobs -> Run] /\ run[j] \in Run /\ Account(j) /\ TypeOK /\ Shape
  BY DEF TypeInv, TypeOK, AccountInv
<1>1. CASE jobs[j] = None
  BY <1>1, <1>t, AccountTrigger
<1>2. CASE jobs[j] # None
  <2>0. jobs'[j] # None
    BY <1>2, DeltaStep
  <2>1. CASE run'[j].at = "off"
    BY <2>0, <2>1 DEF Account, Working
  <2>2. CASE Live(j) /\ run'[j] = run[j]
    <3>1. ~Commits(j) /\ ~LeaveBehind(j)
      BY <2>2, CommitRun, LeaveRun
    <3>2. /\ Behind(j)' = Behind(j) /\ Rest(j)' = Rest(j) /\ Left(j)' = Left(j)
          /\ \A d \in Pages : conflicts'[j][d] # None <=> conflicts[j][d] # None
      BY <2>2, <3>1, RowsKeep DEF Left
    <3>. QED
      BY <2>0, <2>2, <3>2, <1>t DEF Account, Working, Before
  <2>3. CASE ~Live(j) /\ run'[j] = run[j]
    BY <2>0, <2>3 DEF Account, Working, Live
  <2>4. CASE run'[j].at = "list" /\ Live(j) /\ (Claim(j) \/ EndBatch(j))
    <3>1. ~Commits(j) /\ ~LeaveBehind(j)
      BY <2>4, CommitRun, LeaveRun
    <3>2. Behind(j)' = Behind(j) /\ Rest(j)' = Rest(j)
      BY <2>4, <3>1, RowsKeep
    <3>3. run[j].offset \in Nat /\ run[j].unclean \in Nat
      BY <1>t, RunFields
    <3>4. CASE Claim(j)
      <4>1. run[j].at = "queued" /\ run'[j].offset = run[j].offset /\ run'[j].unclean = run[j].unclean
        BY <3>4, <1>t DEF Claim, Run
      <4>2. Behind(j) = {} /\ run'[j].offset = 0 /\ run'[j].unclean = 0
        BY <4>1, <1>t DEF Account, Behind, Affected
      <4>3. Cardinality(Behind(j)') = 0
        BY <4>2, <3>2, FS_EmptySet
      <4>. QED
        BY <2>0, <2>4, <3>2, <4>2, <4>3 DEF Account, Working, Before
    <3>5. CASE EndBatch(j)
      <4>1. run'[j] = [run[j] EXCEPT !.at = "list", !.offset = NextOffset(j), !.unclean = 0]
            /\ run[j].at = "pages"
        BY <3>5, <1>t DEF EndBatch
      <4>2. run'[j].offset = run[j].offset + run[j].unclean /\ run'[j].unclean = 0
            /\ run'[j].conflicted = run[j].conflicted /\ run'[j].misled = run[j].misled
        BY <4>1, <1>t DEF Run, NextOffset
      <4>3. run'[j].offset + run'[j].unclean = run[j].offset + run[j].unclean
        BY <4>2, <3>3
      <4>. QED
        BY <2>0, <2>4, <3>2, <4>1, <4>2, <4>3, <1>t DEF Account, Working, Before
    <3>. QED
      BY <2>4, <3>4, <3>5
  <2>5. CASE ApplyRead(j) /\ run'[j].at = "apply" /\ run'[j].seen = run[j].seen
    <3>1. ~Commits(j) /\ ~LeaveBehind(j) /\ Live(j) /\ Working(j)
      BY <2>5, CommitRun, LeaveRun DEF ApplyRead, Comparable, Live, Working
    <3>2. Behind(j)' = Behind(j) /\ Rest(j)' = Rest(j) /\ Left(j)' = Left(j)
      BY <2>5, <3>1, RowsKeep DEF Left
    <3>3. run'[j].offset = run[j].offset /\ run'[j].unclean = run[j].unclean
          /\ run'[j].conflicted = run[j].conflicted /\ run'[j].misled = run[j].misled
      BY <2>5, <1>t DEF ApplyRead, Run
    <3>. QED
      BY <2>0, <2>5, <3>1, <3>2, <3>3, <1>t DEF Account, Working, Before
  <2>6. CASE List(j) /\ run'[j].at = "pages" /\ Left(j)' = Listed(j)
    <3>1. run[j].misled => run'[j].misled
      BY <2>6, <1>t DEF List, Run
    <3>2. CASE run[j].misled
      BY <2>0, <2>6, <3>1, <3>2 DEF Account, Working
    <3>. QED
      BY <1>2, <2>6, <3>2, <1>t, AccountList
  <2>7. CASE (Commits(j) \/ LeaveBehind(j)) /\ Working(j) /\ Left(j) # {}
    <3>1. run'[j].at = "pages" /\ (run[j].misled \/ AnswerLost(j) => run'[j].misled)
      BY <2>7, CommitRun, LeaveRun DEF Commits
    <3>2. CASE run[j].misled \/ AnswerLost(j)
      BY <2>0, <3>1, <3>2 DEF Account, Working
    <3>. QED
      BY <1>2, <2>7, <3>2, <1>t, AccountPages DEF Commits
  <2>8. ~(\E from, to \in VersionNumbers : Trigger(j, from, to))
    BY <1>2 DEF Trigger
  <2>. QED
    BY <2>1, <2>2, <2>3, <2>4, <2>5, <2>6, <2>7, <2>8, RunStep
<1>. QED
  BY <1>1, <1>2

\* A job that ends, and lost no commit's answer, has a conflict for every page it leaves
\* behind its target, and says whether there is one: pages that stay in the listing make
\* the offset skip none.
THEOREM MigrationAccountsForAll ==
  ASSUME ~Overlapping
  PROVE Spec => JobAccountsForAll
<1>1. ASSUME TypeInv, AccountInv, [Next]_vars, NEW j \in Jobs, run[j].at = "list",
             run'[j].at = "off", jobs'[j].status # "failed", jobs'[j] # jobs[j], ~run[j].misled,
             NEW d \in Affected(jobs[j].to)
      PROVE conflicts[j][d] # None /\ jobs'[j].status = "completed_with_conflicts"
  <2>t. Account(j) /\ Live(j) /\ jobs \in [Jobs -> Job \cup {None}] /\ jobs[j] \in Job /\ run[j] \in Run
    BY <1>1 DEF AccountInv, Live, TypeInv, TypeOK, Shape
  <2>1. Next
    BY <1>1 DEF vars
  <2>2. run'[j] # run[j] /\ ~Working(j)
    BY <1>1 DEF Working
  <2>3. Finish(j) \/ ListedUnreadable(j) \/ ProcessFails(j) \/ Dies(j)
    BY <1>1, <2>1, <2>2, RunStep
  <2>4. Finish(j)
    <3>1. ProcessFails(j) \/ ListedUnreadable(j) => jobs'[j].status = "failed"
      BY <2>t DEF ProcessFails, ListedUnreadable, Job
    <3>2. Dies(j) => jobs'[j] = jobs[j]
      BY DEF Dies
    <3>. QED
      BY <1>1, <2>3, <3>1, <3>2
  <2>5. /\ Listed(j) = {} /\ UNCHANGED conflicts
        /\ run[j].conflicted => jobs'[j].status = "completed_with_conflicts"
    BY <2>4, <2>t DEF Finish, Job
  <2>6. /\ Behind(j) # {} => run[j].conflicted
        /\ Before(Behind(j), Rest(j)) /\ Cardinality(Behind(j)) = run[j].offset
        /\ run[j].offset \in Nat
    <3>1. run[j].offset \in Nat
      BY <2>t, RunFields
    <3>. QED
      BY <3>1, <1>1, <2>t DEF Account
  <2>7. Rest(j) = {}
    <3>1. SUFFICES ASSUME Rest(j) # {} PROVE FALSE
      OBVIOUS
    <3>2. PICK e \in Rest(j) : Rank(j, e) = run[j].offset
      BY <1>1, <2>6, <3>1, Ranks
    <3>3. e \in Affected(jobs[j].to)
      BY BehindType
    <3>4. e \in Listed(j)
      BY <1>1, <2>6, <3>2, <3>3, Ranks
    <3>. QED
      BY <2>5, <3>4
  <2>8. d \in Behind(j) /\ conflicts[j][d] # None
    BY <2>7 DEF Rest, Behind
  <2>. QED
    BY <2>5, <2>6, <2>8
<1>2. TypeInv /\ AccountInv /\ [Next]_vars =>
        [\A j \in Jobs : run[j].at = "list" /\ run'[j].at = "off" /\ jobs'[j].status # "failed"
              /\ jobs'[j] # jobs[j] /\ ~run[j].misled =>
            \A d \in Affected(jobs[j].to) :
               conflicts[j][d] # None /\ jobs'[j].status = "completed_with_conflicts"]_vars
  BY <1>1
<1>3. TypeInv /\ DriftInv /\ AccountInv /\ [Next]_vars => DriftInv' /\ AccountInv'
  <2>1. SUFFICES ASSUME TypeInv, DriftInv, AccountInv, [Next]_vars PROVE DriftInv' /\ AccountInv'
    OBVIOUS
  <2>2. CASE Next
    BY <2>1, <2>2, DriftInvStep, AccountStep DEF DriftInv
  <2>3. CASE UNCHANGED vars
    <3>1. UNCHANGED <<pages, jobs, conflicts, run>>
      BY <2>3 DEF vars
    <3>2. ASSUME NEW j \in Jobs PROVE Account(j)'
      <4>1. Behind(j)' = Behind(j) /\ Rest(j)' = Rest(j) /\ Left(j)' = Left(j)
            /\ Working(j)' = Working(j)
        BY <3>1 DEF Behind, Rest, Affected, Left, Working
      <4>. QED
        BY <2>1, <3>1, <4>1 DEF AccountInv, Account, Before
    <3>. QED
      BY <2>1, <3>2, DriftInvStep DEF AccountInv
  <2>. QED
    BY <2>1, <2>2, <2>3
<1>4. Init => AccountInv
  BY DEF Init, AccountInv, Account, NoRun, Working
<1>. QED
  BY <1>2, <1>3, <1>4, InitType, InitDrift, StepType, PTL DEF Spec, JobAccountsForAll
=============================================================================
