------------------------------- MODULE MergeJobs -------------------------------
(***************************************************************************)
(* The merge of one merge request, driven by the job runner.  A route      *)
(* claims the request by moving it to 'merging', inserts a job and creates *)
(* the workflow instance of the same id; the instance runs the steps plan, *)
(* apply-chunk, finalize-*, each a sequence of database statements between *)
(* which it may die.  The engine then runs the step again from its start,  *)
(* a bounded number of times, and otherwise the fail-job step.             *)
(*                                                                         *)
(* A step's result is stored by the engine after its last statement, so a  *)
(* step whose statements have all committed may still be run again.  Users *)
(* edit the target branch, the source branch moves on, and the status of   *)
(* the request may be patched.  The target is the main branch: a merge     *)
(* request has no other.                                                   *)
(***************************************************************************)
EXTENDS Integers, Sequences, FiniteSets

CONSTANTS
    Docs,               \* documents of the source branch, in the order of their paths
    Contested,          \* those the target has published a change to
    Jobs,               \* job ids, in the order they are minted: one per execute
    None,
    ChunkSize,          \* MERGE_CHUNK_SIZE
    Asked,              \* per execute: the strategies it may bring, None for none
    MaxDeaths,          \* bound: deaths of a step or of a route
    Events,             \* what else may happen besides the merge, of EventKinds
    MaxEvents           \* bound: how many of those

EventKinds == {"refusal", "launchError", "cancel", "patch", "edit", "move"}

ASSUME MergeAssumption ==
    /\ Docs \subseteq Nat /\ IsFiniteSet(Docs) /\ Contested \subseteq Docs
    /\ Jobs \subseteq Nat /\ None \notin Jobs
    /\ ChunkSize \in Nat \ {0}
    /\ Asked \in [Jobs -> SUBSET {"take-source", "take-target", "manual", None}]
    /\ MaxDeaths \in Nat /\ Events \subseteq EventKinds /\ MaxEvents \in Nat

VARIABLES
    request,       \* the merge request
    jobs, rows,    \* app.merge_jobs and app.merge_job_documents
    steps,         \* where each job's workflow instance stands
    routes,        \* where the execute that minted each job id stands
    source,        \* the newest version of each document on the source branch
    compacted,     \* <<document, version>>: those there that have lost their snapshot
    target,        \* the versions of each document on the target branch
    posted, live,  \* per job: what its post_merge and its publish checkpoint captured
    overtaken,     \* history, per job: the documents where its insert came too late
    spent          \* deaths and other events so far

branches == <<source, compacted, target>>
checkpoints == <<posted, live>>
vars == <<request, jobs, rows, steps, routes, branches, checkpoints, overtaken, spent>>

Active == {"queued", "planning", "running", "finalizing"}
Terminal == {"completed", "completed_with_errors", "blocked_on_conflicts",
             "failed", "cancelled"}
RequestStatus == {"open", "approved", "merging", "conflicted", "merged", "closed"}

\* by: the job that moved the request to merged.  patch: the status that a PATCH,
\* which has seen the request not 'merging', is about to set.
Request == [status : RequestStatus, hasConflicts : BOOLEAN, by : Jobs \cup {None},
            patch : RequestStatus \cup {None}]

Job == [status : {"none"} \cup Active \cup Terminal, started : BOOLEAN,
        prior : {"approved", "conflicted"}, strategy : {"take-source", "take-target", "manual", None},
        cancelRequested : BOOLEAN, posted : BOOLEAN, published : BOOLEAN]

\* from: the source version the row was planned for, 0 when it carries none.
\* result: the target version the row ended with.
Row == [kind : {"none", "copy", "conflict"}, from : Nat,
        status : {"pending", "done", "skipped_noop", "failed"}, result : Nat]

\* by: the job that wrote it, None for an editor.  from: its source_version_id.
\* content: the source version whose content it has, 0 for any other.
Version == [by : Jobs \cup {None}, from : Nat, content : Nat]

PlanStep == {"plan", "detect", "block", "run"}
ChunkStep == {"chunk", "row", "write", "mark"}
CheckpointStep == {"checkpoint", "post", "stampPost"}
PublishStep == {"publish", "release", "stampPublish"}
CancelStep == {"cancel", "restoreCancelled", "cancelled"}
FailStep == {"fail", "restoreFailed", "failed"}
Running == PlanStep \cup ChunkStep \cup CheckpointStep \cup PublishStep
             \cup CancelStep \cup FailStep \cup {"status", "finish"}

\* todo: the rows this chunk claimed; seen, outcome, result: about its first.
Instance == [at : {"none", "ended"} \cup Running, todo : SUBSET Docs, seen : Nat,
             outcome : {"pending", "done", "skipped_noop", "failed"}, result : Nat]

Handler == [at : {"idle", "claimed", "release", "inserted", "undo", "restoreUndone"},
            prior : {"approved", "conflicted"}]

TypeOK ==
    /\ request \in Request
    /\ jobs \in [Jobs -> Job]
    /\ rows \in [Jobs -> [Docs -> Row]]
    /\ steps \in [Jobs -> Instance]
    /\ routes \in [Jobs -> Handler]
    /\ source \in [Docs -> Nat] /\ compacted \subseteq Docs \X Nat
    /\ target \in [Docs -> Seq(Version)]
    /\ posted \in [Jobs -> SUBSET (Docs \X Nat)]
    /\ live \in [Jobs -> SUBSET (Docs \X Nat)]
    /\ overtaken \in [Jobs -> SUBSET Docs]
    /\ spent \in [deaths : 0..MaxDeaths, events : 0..MaxEvents]

NoRow == [kind |-> "none", from |-> 0, status |-> "pending", result |-> 0]
NoJob == [status |-> "none", started |-> FALSE, prior |-> "approved", strategy |-> None,
          cancelRequested |-> FALSE, posted |-> FALSE, published |-> FALSE]
At(pc) == [at |-> pc, todo |-> {}, seen |-> 0, outcome |-> "pending", result |-> 0]
Idle == [at |-> "idle", prior |-> "approved"]
EditOf(content) == [by |-> None, from |-> 0, content |-> content]

Init ==
    /\ request = [status |-> "approved", hasConflicts |-> FALSE, by |-> None,
                  patch |-> None]
    /\ jobs = [j \in Jobs |-> NoJob]
    /\ rows = [j \in Jobs |-> [d \in Docs |-> NoRow]]
    /\ steps = [j \in Jobs |-> At("none")]
    /\ routes = [j \in Jobs |-> Idle]
    /\ source \in {s \in [Docs -> {0, 1}] : \A d \in Contested : s[d] = 1}
    /\ compacted = {}
    /\ target = [d \in Docs |-> IF d \in Contested THEN <<EditOf(0)>> ELSE <<>>]
    /\ posted = [j \in Jobs |-> {}] /\ live = [j \in Jobs |-> {}]
    /\ overtaken = [j \in Jobs |-> {}]
    /\ spent = [deaths |-> 0, events |-> 0]

(***************************************************************************)
(* The ledger and the request                                              *)
(***************************************************************************)
IsActive(j) == jobs[j].status \in Active
Pending(j) == {d \in Docs : rows[j][d].kind # "none" /\ rows[j][d].status = "pending"}
Failed(j) == {d \in Docs : rows[j][d].kind # "none" /\ rows[j][d].status = "failed"}
Planned(j) == {d \in Docs : rows[j][d].kind # "none"}

\* Mutant of IsFinalizable: failed documents are not counted.
IsDrained(j) == Pending(j) = {}

IsFinalizable(j) == Pending(j) = {} /\ Failed(j) = {}
DoneEntries(j) == {<<d, rows[j][d].result>> :
                     d \in {e \in Planned(j) : rows[j][e].status = "done"}}

Latest(d) == IF target[d] = <<>> THEN EditOf(0) ELSE target[d][Len(target[d])]

\* The partial unique index on (merge_request_id) over active jobs.
IndexAllows(j) == \A i \in Jobs \ {j} : ~IsActive(i)

SetStatus(j, status) == jobs' = [jobs EXCEPT ![j].status = status]
Goto(j, pc) == steps' = [steps EXCEPT ![j] = At(pc)]

\* restoreMergeRequestClaim: the request, not the job, is what its guard reads.
RestoreClaim(prior) ==
    request' = IF request.status = "merging" THEN [request EXCEPT !.status = prior]
               ELSE request

Death == spent.deaths < MaxDeaths /\ spent' = [spent EXCEPT !.deaths = @ + 1]
Event(kind) ==
    kind \in Events /\ spent.events < MaxEvents /\ spent' = [spent EXCEPT !.events = @ + 1]

(***************************************************************************)
(* plan                                                                    *)
(***************************************************************************)
\* Mutant of PlanStart: a plan that is run again detects again.
PlanStartUnfenced(j) ==
    /\ steps[j].at = "plan"
    /\ jobs[j].status \in {"queued", "planning", "running"} /\ request.status = "merging"
    /\ jobs' = [jobs EXCEPT ![j].started = TRUE, ![j].status = "planning"]
    /\ Goto(j, "detect")
    /\ UNCHANGED <<request, rows, routes, branches, checkpoints, overtaken, spent>>

\* The job's status, the claim, and the rows a previous attempt has frozen.
PlanStart(j) ==
    /\ steps[j].at = "plan"
    /\ \/ /\ jobs[j].status \notin {"queued", "planning", "running"}
          /\ Goto(j, "ended") /\ UNCHANGED jobs
       \/ /\ jobs[j].status \in {"queued", "planning", "running"}
          /\ request.status # "merging"
          /\ jobs' = [jobs EXCEPT ![j].status = "failed", ![j].started = TRUE]
          /\ Goto(j, "ended")
       \/ /\ jobs[j].status \in {"queued", "planning", "running"}
          /\ request.status = "merging"
          /\ jobs' = [jobs EXCEPT ![j].started = TRUE,
                         ![j].status = IF Planned(j) # {} THEN "running"
                                       ELSE IF @ = "queued" THEN "planning" ELSE @]
          /\ Goto(j, IF Planned(j) # {} THEN "chunk" ELSE "detect")
    /\ UNCHANGED <<request, rows, routes, branches, checkpoints, overtaken, spent>>

Conflicts == {d \in Contested : source[d] > 0}

\* A take-target or manual row carries no source version.
PlannedRow(j, d) ==
    IF source[d] = 0 THEN NoRow
    ELSE IF d \in Conflicts
         THEN [NoRow EXCEPT !.kind = "conflict",
                            !.from = IF jobs[j].strategy = "take-source" THEN source[d] ELSE 0]
         ELSE [NoRow EXCEPT !.kind = "copy", !.from = source[d]]

\* Conflicts the request brought no resolution for block the job.
PlanBlocked(j) ==
    /\ steps[j].at = "detect" /\ Conflicts # {} /\ jobs[j].strategy = None
    /\ request' = [request EXCEPT !.hasConflicts = TRUE,
                                  !.status = IF @ = "merging" THEN "conflicted" ELSE @]
    /\ Goto(j, "block")
    /\ UNCHANGED <<jobs, rows, routes, branches, checkpoints, overtaken, spent>>

PlanBlock(j) ==
    /\ steps[j].at = "block"
    /\ SetStatus(j, "blocked_on_conflicts")
    /\ Goto(j, "ended")
    /\ UNCHANGED <<request, rows, routes, branches, checkpoints, overtaken, spent>>

\* INSERT ... ON CONFLICT DO NOTHING freezes the source versions of the merge.
PlanFreeze(j) ==
    /\ steps[j].at = "detect" /\ (Conflicts = {} \/ jobs[j].strategy # None)
    /\ rows' = [rows EXCEPT ![j] =
                  [d \in Docs |-> IF @[d].kind # "none" THEN @[d] ELSE PlannedRow(j, d)]]
    /\ Goto(j, "run")
    /\ UNCHANGED <<request, jobs, routes, branches, checkpoints, overtaken, spent>>

\* Sets the status whatever it is by now; the index refuses a second active job.
PlanRun(j) ==
    /\ steps[j].at = "run"
    /\ IF IndexAllows(j) THEN SetStatus(j, "running") /\ Goto(j, "chunk")
                         ELSE UNCHANGED jobs /\ Goto(j, "plan")
    /\ UNCHANGED <<request, rows, routes, branches, checkpoints, overtaken, spent>>

(***************************************************************************)
(* apply-chunk                                                             *)
(***************************************************************************)
FirstOf(S) == {d \in S : \A e \in S : d <= e}

\* The cancel flag is read here and nowhere later in the chunk.
ChunkStart(j) ==
    /\ steps[j].at = "chunk"
    /\ \/ jobs[j].cancelRequested /\ Goto(j, "cancel")
       \/ /\ ~jobs[j].cancelRequested /\ Pending(j) = {} /\ Goto(j, "checkpoint")
       \/ /\ ~jobs[j].cancelRequested /\ Pending(j) # {}
          /\ \E claim \in SUBSET Pending(j) :
                /\ Cardinality(claim) =
                     IF Cardinality(Pending(j)) < ChunkSize THEN Cardinality(Pending(j))
                     ELSE ChunkSize
                /\ \A d \in claim : \A e \in Pending(j) \ claim : d < e
                /\ steps' = [steps EXCEPT ![j] = [At("row") EXCEPT !.todo = claim]]
    /\ UNCHANGED <<request, jobs, rows, routes, branches, checkpoints, overtaken, spent>>

Settle(j, outcome, result) ==
    steps' = [steps EXCEPT ![j].at = "mark", ![j].outcome = outcome, ![j].result = result]

IsTakeSource(j, d) == rows[j][d].kind = "conflict" /\ jobs[j].strategy = "take-source"
IsTakeTarget(j, d) == rows[j][d].kind = "conflict" /\ jobs[j].strategy = "take-target"

\* Mutant of Probe: no row is recognised as written already.
ProbeNothing(j, d) == FALSE

\* The latest target version already is this planned write.
Probe(j, d) ==
    /\ rows[j][d].from # 0
    /\ Latest(d).by # None /\ Latest(d).from = rows[j][d].from

\* Reads the target's latest version; keeping the target writes nothing.
RowRead(j) ==
    /\ steps[j].at = "row"
    /\ \E d \in FirstOf(steps[j].todo) :
       \/ Probe(j, d) /\ Settle(j, "done", Len(target[d]))
       \/ IsTakeTarget(j, d) /\ Settle(j, "skipped_noop", Len(target[d]))
       \/ /\ ~Probe(j, d) /\ ~IsTakeTarget(j, d)
          /\ steps' = [steps EXCEPT ![j].at = "write", ![j].seen = Len(target[d])]
    /\ UNCHANGED <<request, jobs, rows, routes, branches, checkpoints, overtaken, spent>>

\* getDocumentVersion does not rebuild a snapshot: of a compacted version the merge
\* has {}.
Fetched(j, d) == IF <<d, rows[j][d].from>> \in compacted THEN 0 ELSE rows[j][d].from

\* createDocumentVersion: only take-source asks whether the latest is equal already.
EqualAlready(j, d) ==
    IsTakeSource(j, d) /\ target[d] # <<>> /\ Latest(d).content = Fetched(j, d) /\ Fetched(j, d) # 0

RowWrite(j) ==
    /\ steps[j].at = "write"
    /\ \E d \in FirstOf(steps[j].todo) :
       LET n == Len(target[d])
           version == [by |-> j, from |-> rows[j][d].from, content |-> Fetched(j, d)] IN
       \/ /\ EqualAlready(j, d)
          /\ Settle(j, IF n = steps[j].seen THEN "skipped_noop" ELSE "done", n)
          /\ UNCHANGED target
       \/ /\ ~EqualAlready(j, d)
          /\ target' = [target EXCEPT ![d] = Append(@, version)]
          /\ Settle(j, "done", n + 1)
    /\ UNCHANGED <<request, jobs, rows, routes, source, compacted, checkpoints, overtaken, spent>>

\* An insert since the row was read, an editor's or another job's, takes the version
\* number.  The unique violation is answered with the version that is latest now.
RowCollides(j) ==
    /\ steps[j].at = "write"
    /\ \E d \in FirstOf(steps[j].todo) :
       /\ Len(target[d]) > steps[j].seen
       /\ Settle(j, "done", Len(target[d]))
       /\ overtaken' = [overtaken EXCEPT ![j] = @ \cup {d}]
    /\ UNCHANGED <<request, jobs, rows, routes, branches, checkpoints, spent>>

\* The document cannot be written; a lost connection too, when it is inside
\* resolveAllConflicts.
RowFails(j) ==
    /\ steps[j].at = "write"
    /\ Settle(j, "failed", 0)
    /\ Event("refusal")
    /\ UNCHANGED <<request, jobs, rows, routes, branches, checkpoints, overtaken>>

\* The wall-clock guard may end the chunk before its claim is used up.
RowMark(j) ==
    /\ steps[j].at = "mark"
    /\ \E d \in FirstOf(steps[j].todo) :
       LET rest == steps[j].todo \ {d} IN
       /\ rows' = [rows EXCEPT ![j][d] =
                      [@ EXCEPT !.status = steps[j].outcome, !.result = steps[j].result]]
       /\ \/ rest # {} /\ steps' = [steps EXCEPT ![j] = [At("row") EXCEPT !.todo = rest]]
          \/ Goto(j, IF Pending(j) = {d} THEN "checkpoint" ELSE "chunk")
    /\ UNCHANGED <<request, jobs, routes, branches, checkpoints, overtaken, spent>>

(***************************************************************************)
(* cancel-job and fail-job                                                 *)
(***************************************************************************)
CancelJob(j) ==
    /\ steps[j].at = "cancel"
    /\ SetStatus(j, "cancelled") /\ Goto(j, "restoreCancelled")
    /\ UNCHANGED <<request, rows, routes, branches, checkpoints, overtaken, spent>>

FailJob(j) ==
    /\ steps[j].at = "fail"
    /\ SetStatus(j, "failed") /\ Goto(j, "restoreFailed")
    /\ UNCHANGED <<request, rows, routes, branches, checkpoints, overtaken, spent>>

RestoreRequest(j) ==
    /\ steps[j].at \in {"restoreCancelled", "restoreFailed"}
    /\ RestoreClaim(jobs[j].prior)
    /\ Goto(j, IF steps[j].at = "restoreCancelled" THEN "cancelled" ELSE "failed")
    /\ UNCHANGED <<jobs, rows, routes, branches, checkpoints, overtaken, spent>>

EpilogueDone(j) ==
    /\ steps[j].at \in {"cancelled", "failed"} /\ Goto(j, "ended")
    /\ UNCHANGED <<request, jobs, rows, routes, branches, checkpoints, overtaken, spent>>

(***************************************************************************)
(* finalize-*                                                              *)
(***************************************************************************)
CheckpointStart(j) ==
    /\ steps[j].at = "checkpoint"
    /\ \/ (jobs[j].posted \/ ~IsFinalizable(j)) /\ Goto(j, "status") /\ UNCHANGED jobs
       \/ /\ ~jobs[j].posted /\ IsFinalizable(j)
          /\ IF IndexAllows(j)
             THEN /\ SetStatus(j, "finalizing")
                  /\ Goto(j, IF DoneEntries(j) = {} THEN "status" ELSE "post")
             ELSE UNCHANGED jobs /\ Goto(j, "fail")
    /\ UNCHANGED <<request, rows, routes, branches, checkpoints, overtaken, spent>>

\* createCheckpoint commits on its own, before the stamp.
CheckpointPost(j) ==
    /\ steps[j].at = "post"
    /\ posted' = [posted EXCEPT ![j] = DoneEntries(j)]
    /\ Goto(j, "stampPost")
    /\ UNCHANGED <<request, jobs, rows, routes, branches, live, overtaken, spent>>

CheckpointStamp(j) ==
    /\ steps[j].at = "stampPost"
    /\ jobs' = [jobs EXCEPT ![j].posted = TRUE] /\ Goto(j, "status")
    /\ UNCHANGED <<request, rows, routes, branches, checkpoints, overtaken, spent>>

\* merging -> merged, or back to what it was when a document failed.
FinalizeStatus(j) ==
    /\ steps[j].at = "status"
    /\ IF IsFinalizable(j)
       THEN request' = IF request.status = "merging"
                       THEN [request EXCEPT !.status = "merged", !.by = j] ELSE request
       ELSE RestoreClaim(jobs[j].prior)
    /\ Goto(j, IF IsFinalizable(j) THEN "publish" ELSE "finish")
    /\ UNCHANGED <<jobs, rows, routes, branches, checkpoints, overtaken, spent>>

PublishStart(j) ==
    /\ steps[j].at = "publish"
    /\ Goto(j, IF DoneEntries(j) = {} \/ jobs[j].published THEN "finish" ELSE "release")
    /\ UNCHANGED <<request, jobs, rows, routes, branches, checkpoints, overtaken, spent>>

\* Mutant of Publish: documents that were left as they are, are published too.
PublishPlanned(j) ==
    /\ steps[j].at = "release"
    /\ live' = [live EXCEPT ![j] = {<<d, rows[j][d].result>> : d \in Planned(j)}]
    /\ Goto(j, "stampPublish")
    /\ UNCHANGED <<request, jobs, rows, routes, branches, posted, overtaken, spent>>

\* The publish checkpoint; a failure is recorded on the job and never thrown, be it of
\* the checkpoint or, once that has committed, of the provenance or the stamp.
Publish(j) ==
    /\ steps[j].at = "release"
    /\ \/ live' = [live EXCEPT ![j] = DoneEntries(j)] /\ (Goto(j, "stampPublish") \/ Goto(j, "finish"))
       \/ UNCHANGED live /\ Goto(j, "finish")
    /\ UNCHANGED <<request, jobs, rows, routes, branches, posted, overtaken, spent>>

PublishStamp(j) ==
    /\ steps[j].at = "stampPublish"
    /\ jobs' = [jobs EXCEPT ![j].published = TRUE] /\ Goto(j, "finish")
    /\ UNCHANGED <<request, rows, routes, branches, checkpoints, overtaken, spent>>

FinalizeJob(j) ==
    /\ steps[j].at = "finish"
    /\ SetStatus(j, IF IsFinalizable(j) THEN "completed" ELSE "completed_with_errors")
    /\ Goto(j, "ended")
    /\ UNCHANGED <<request, rows, routes, branches, checkpoints, overtaken, spent>>

(***************************************************************************)
(* Faults of a step: the attempt dies and is run again, or was the last    *)
(***************************************************************************)
\* Where the engine resumes: the step of this statement from its start or, when it
\* has run none, the step before, whose result was not stored.
StepBefore(j) ==
    CASE steps[j].at = "chunk" -> IF Pending(j) = Planned(j) THEN "plan" ELSE "chunk"
      [] steps[j].at = "checkpoint" -> "chunk"
      [] steps[j].at = "status" -> "checkpoint"
      [] steps[j].at = "finish" -> IF IsFinalizable(j) THEN "publish" ELSE "status"
      [] steps[j].at = "publish" -> "status"
      [] OTHER -> steps[j].at

StartOf(j) ==
    LET pc == steps[j].at IN
    CASE pc \in PlanStep -> "plan"
      [] pc \in ChunkStep \ {"chunk"} -> "chunk"
      [] pc \in CheckpointStep \ {"checkpoint"} -> "checkpoint"
      [] pc \in PublishStep \ {"publish"} -> "publish"
      [] pc \in CancelStep -> "cancel"
      [] pc \in FailStep -> "fail"
      [] OTHER -> StepBefore(j)

StepDies(j) ==
    /\ steps[j].at \in Running /\ StartOf(j) # steps[j].at
    /\ Goto(j, StartOf(j))
    /\ Death
    /\ UNCHANGED <<request, jobs, rows, routes, branches, checkpoints, overtaken>>

\* The epilogue itself is taken to succeed within its retries.
StepGivesUp(j) ==
    /\ steps[j].at \in Running \ FailStep
    /\ Goto(j, "fail")
    /\ Death
    /\ UNCHANGED <<request, jobs, rows, routes, branches, checkpoints, overtaken>>

Step(j) ==
    \/ PlanStart(j) \/ PlanBlocked(j) \/ PlanBlock(j) \/ PlanFreeze(j) \/ PlanRun(j)
    \/ ChunkStart(j) \/ RowRead(j) \/ RowWrite(j) \/ RowMark(j)
    \/ CancelJob(j) \/ FailJob(j) \/ RestoreRequest(j) \/ EpilogueDone(j)
    \/ CheckpointStart(j) \/ CheckpointPost(j) \/ CheckpointStamp(j) \/ FinalizeStatus(j)
    \/ PublishStart(j) \/ Publish(j) \/ PublishStamp(j) \/ FinalizeJob(j)

Fault(j) == RowCollides(j) \/ RowFails(j) \/ StepDies(j) \/ StepGivesUp(j)

(***************************************************************************)
(* The routes                                                              *)
(***************************************************************************)
\* crypto.randomUUID(): ids no execute and no row has.  A bound on how many insert.
FreshJobs == {j \in Jobs : jobs[j].status = "none" /\ routes[j].at = "idle"}
IsNext(j) == j \in FreshJobs /\ \A i \in FreshJobs : j <= i

\* create() with an id in use throws, and is then as good as done.
Launch(j) == steps' = IF steps[j].at = "none" THEN [steps EXCEPT ![j] = At("plan")] ELSE steps

\* A queued job nobody has started may have lost its driver: give it one.
Driverless == {j \in Jobs : jobs[j].status = "queued" /\ ~jobs[j].started}
Redrive == IF Driverless = {} THEN UNCHANGED steps ELSE \E j \in Driverless : Launch(j)

\* POST .../execute: the claim, the 409 with the active job, or the adoption of
\* a claim that no job stands behind.
Claim(j) ==
    /\ IsNext(j) /\ request.status \in {"approved", "conflicted"}
    /\ request' = [request EXCEPT !.status = "merging"]
    /\ routes' = [routes EXCEPT ![j] = [at |-> "claimed", prior |-> request.status]]
    /\ UNCHANGED <<jobs, rows, steps, branches, checkpoints, overtaken, spent>>

AnswerBusy ==
    /\ request.status = "merging" /\ \E j \in Jobs : IsActive(j)
    /\ Redrive
    /\ UNCHANGED <<request, jobs, rows, routes, branches, checkpoints, overtaken, spent>>

\* Mutants of Adopt: the status is put back as it was found; a claim is adopted only
\* from a request with conflicts.
AdoptAsFound(j) ==
    /\ IsNext(j) /\ request.status = "merging" /\ ~ \E i \in Jobs : IsActive(i)
    /\ routes' = [routes EXCEPT ![j] = [at |-> "claimed", prior |-> request.status]]
    /\ UNCHANGED <<request, jobs, rows, steps, branches, checkpoints, overtaken, spent>>

AdoptConflicted(j) ==
    /\ IsNext(j) /\ request.status = "merging" /\ ~ \E i \in Jobs : IsActive(i)
    /\ request.hasConflicts
    /\ routes' = [routes EXCEPT ![j] = [at |-> "claimed", prior |-> "conflicted"]]
    /\ UNCHANGED <<request, jobs, rows, steps, branches, checkpoints, overtaken, spent>>

Adopt(j) ==
    /\ IsNext(j) /\ request.status = "merging" /\ ~ \E i \in Jobs : IsActive(i)
    /\ routes' = [routes EXCEPT ![j] =
          [at |-> "claimed", prior |-> IF request.hasConflicts THEN "conflicted" ELSE "approved"]]
    /\ UNCHANGED <<request, jobs, rows, steps, branches, checkpoints, overtaken, spent>>

CreateJob(j) ==
    /\ routes[j].at = "claimed"
    /\ IF \E i \in Jobs : IsActive(i)
       THEN Redrive /\ routes' = [routes EXCEPT ![j].at = "release"] /\ UNCHANGED jobs
       ELSE /\ \E strategy \in Asked[j] :
                 jobs' = [jobs EXCEPT ![j] = [NoJob EXCEPT !.status = "queued",
                                   !.prior = routes[j].prior, !.strategy = strategy]]
            /\ routes' = [routes EXCEPT ![j].at = "inserted"]
            /\ UNCHANGED steps
    /\ UNCHANGED <<request, rows, branches, checkpoints, overtaken, spent>>

\* releaseClaimBestEffort
ReleaseClaim(j) ==
    /\ routes[j].at = "release"
    /\ RestoreClaim(routes[j].prior)
    /\ routes' = [routes EXCEPT ![j] = Idle]
    /\ UNCHANGED <<jobs, rows, steps, branches, checkpoints, overtaken, spent>>

\* What follows is a wait on the job's row, which changes nothing.
CreateWorkflow(j) ==
    /\ routes[j].at = "inserted"
    /\ Launch(j)
    /\ routes' = [routes EXCEPT ![j] = Idle]
    /\ UNCHANGED <<request, jobs, rows, branches, checkpoints, overtaken, spent>>

CreateWorkflowFails(j) ==
    /\ routes[j].at = "inserted"
    /\ routes' = [routes EXCEPT ![j].at = "undo"]
    /\ Event("launchError")
    /\ UNCHANGED <<request, jobs, rows, steps, branches, checkpoints, overtaken>>

\* failMergeJob, from the route.
UndoJob(j) ==
    /\ routes[j].at = "undo"
    /\ SetStatus(j, "failed")
    /\ routes' = [routes EXCEPT ![j].at = "restoreUndone"]
    /\ UNCHANGED <<request, rows, steps, branches, checkpoints, overtaken, spent>>

UndoClaim(j) ==
    /\ routes[j].at = "restoreUndone"
    /\ RestoreClaim(jobs[j].prior)
    /\ routes' = [routes EXCEPT ![j] = Idle]
    /\ UNCHANGED <<jobs, rows, steps, branches, checkpoints, overtaken, spent>>

RouteDies(j) ==
    /\ routes[j].at # "idle"
    /\ routes' = [routes EXCEPT ![j] = Idle]
    /\ Death
    /\ UNCHANGED <<request, jobs, rows, steps, branches, checkpoints, overtaken>>

\* 'finalizing' is not cancellable.
RequestCancel(j) ==
    /\ jobs[j].status \in {"queued", "planning", "running"} /\ ~jobs[j].cancelRequested
    /\ jobs' = [jobs EXCEPT ![j].cancelRequested = TRUE]
    /\ Event("cancel")
    /\ UNCHANGED <<request, rows, steps, routes, branches, checkpoints, overtaken>>

\* VALID_STATUS_TRANSITIONS
NextStatus(status) ==
    CASE status = "open" -> {"approved", "closed", "conflicted"}
      [] status = "approved" -> {"merging", "merged", "closed", "open", "conflicted"}
      [] status = "conflicted" -> {"merging", "open", "closed", "merged"}
      [] status = "merging" -> {"merged", "approved", "conflicted"}
      [] status = "merged" -> {}
      [] status = "closed" -> {"open"}

\* PATCH of the status: refused while a merge is being executed, by the route.
PatchCheck ==
    /\ request.patch = None /\ request.status # "merging"
    /\ \E status \in RequestStatus \ {"merging"} : request' = [request EXCEPT !.patch = status]
    /\ Event("patch")
    /\ UNCHANGED <<jobs, rows, steps, routes, branches, checkpoints, overtaken>>

\* updateMergeRequestStatus reads the request again, and asks only for a valid
\* transition.
PatchStatus ==
    /\ request.patch # None
    /\ request' = [request EXCEPT !.patch = None,
                      !.status = IF request.patch \in NextStatus(@) THEN request.patch ELSE @]
    /\ UNCHANGED <<jobs, rows, steps, routes, branches, checkpoints, overtaken, spent>>

(***************************************************************************)
(* The branches                                                            *)
(***************************************************************************)
\* A save on the source branch; it may compact the version before, as VersionStore
\* has it.
SourceMoves(d) ==
    /\ source' = [source EXCEPT ![d] = @ + 1]
    /\ \/ UNCHANGED compacted
       \/ source[d] > 0 /\ compacted' = compacted \cup {<<d, source[d]>>}
    /\ Event("move")
    /\ UNCHANGED <<request, jobs, rows, steps, routes, target, checkpoints, overtaken>>

\* An editor may write what the source branch has, too.
TargetEdit(d) ==
    /\ \E content \in {0, source[d]} : target' = [target EXCEPT ![d] = Append(@, EditOf(content))]
    /\ Event("edit")
    /\ UNCHANGED <<request, jobs, rows, steps, routes, source, compacted, checkpoints, overtaken>>

Execute(j) == Claim(j) \/ Adopt(j)
Handle(j) ==
    \/ CreateJob(j) \/ ReleaseClaim(j) \/ CreateWorkflow(j)
    \/ UndoJob(j) \/ UndoClaim(j)

Next ==
    \/ \E j \in Jobs : Step(j) \/ Fault(j) \/ RequestCancel(j)
    \/ \E j \in Jobs : Execute(j) \/ Handle(j) \/ CreateWorkflowFails(j) \/ RouteDies(j)
    \/ AnswerBusy
    \/ \E d \in Docs : SourceMoves(d) \/ TargetEdit(d)
    \/ PatchCheck \/ PatchStatus

Spec == Init /\ [][Next]_vars

\* The engine runs every instance on, a route that does not die finishes, and
\* somebody executes again a request that is stuck in 'merging'.
Fairness ==
    /\ \A j \in Jobs : WF_vars(Step(j))
    /\ \A j \in Jobs : WF_vars(Handle(j)) /\ WF_vars(Adopt(j))
    /\ WF_vars(AnswerBusy)

FairSpec == Spec /\ Fairness

(***************************************************************************)
(* Properties                                                              *)
(***************************************************************************)
\* A step that is run again does not write again what its first run wrote: two
\* neighbouring versions never are one job's merges of one source version.  (A
\* manual resolution names no source version.)
NoReplayedMerge ==
    \A d \in Docs : \A n \in 2..Len(target[d]) :
        ~ /\ target[d][n].by # None /\ target[d][n].by = target[d][n - 1].by
          /\ target[d][n].from = target[d][n - 1].from /\ target[d][n].from # 0

\* The same of two jobs: a job that is executed after another finds its merges.
NoDuplicateMerge ==
    \A d \in Docs : \A n \in 2..Len(target[d]) :
        ~ /\ target[d][n].by # None /\ target[d][n - 1].by # None
          /\ target[d][n].from = target[d][n - 1].from /\ target[d][n].from # 0

\* A request that a job moved to merged is merged whole, however often the job's
\* steps were run, died between two statements or found earlier jobs' versions:
\* each row has succeeded with a version of the target that is a merge of the
\* planned source version, or says the same, unless an insert came before the job's
\* own; and the post_merge checkpoint has each that is done.
MergedIsWhole ==
    request.by # None =>
        LET j == request.by IN
        \A d \in {e \in Docs : rows[j][e].from # 0} :
            LET r == rows[j][d] IN
            /\ r.result \in 1..Len(target[d])
            /\ \/ d \in overtaken[j]
               \/ target[d][r.result].from = r.from
               \/ target[d][r.result].content = r.from
            /\ \/ r.status = "skipped_noop"
               \/ r.status = "done" /\ <<d, r.result>> \in posted[j]

\* The merge is a snapshot of the source branch as planned: what a merged request
\* recorded for a document has the content of the planned version.
MergedIsFaithful ==
    request.by # None =>
        LET j == request.by IN
        \A d \in {e \in Docs : rows[j][e].from # 0} :
            target[d][rows[j][d].result].content = rows[j][d].from

\* What is published is what was checkpointed, and every document of it succeeded.
PublishedIsCheckpointed ==
    \A j \in Jobs : live[j] # {} => IsFinalizable(j) /\ live[j] = posted[j]

\* The work list is frozen once, and a row's outcome is recorded once: a plan that
\* is run again after the source has moved does not mix two snapshots, and a chunk
\* that is run again does not revisit what is done.
LedgerIsFinal ==
    [][\A j \in Jobs : \A d \in Docs :
         /\ Planned(j) # {} => /\ rows'[j][d].kind = rows[j][d].kind
                               /\ rows'[j][d].from = rows[j][d].from
         /\ rows[j][d].status # "pending" => rows'[j][d] = rows[j][d]]_vars

\* A document that is published by a merge belongs to a request that is merged.
PublishedIsMerged == \A j \in Jobs : live[j] # {} => request.status = "merged"

\* A cancellation that was accepted is not followed by a completed merge.
CancelIsHonoured == \A j \in Jobs : jobs[j].cancelRequested => jobs[j].status # "completed"

\* A request does not stay in 'merging', whoever died while holding its claim, as
\* long as somebody executes it again and the bound on executes is not used up.
ClaimIsReleased ==
    request.status = "merging" ~> request.status # "merging" \/ FreshJobs = {}
================================================================================
