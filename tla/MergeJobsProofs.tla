---------------------------- MODULE MergeJobsProofs ----------------------------
(***************************************************************************)
(* That the ledger of a merge job is final, that a step which is run again *)
(* writes nothing again, that what is published is what was checkpointed   *)
(* and that a merged request is merged whole: for any documents, jobs,     *)
(* chunk size, deaths and events.                                          *)
(***************************************************************************)
EXTENDS MergeJobs, SequenceTheorems, TLAPS

USE DEF branches, checkpoints

Pcs == {"none", "ended"} \cup Running
HandlerPcs == {"idle", "claimed", "release", "inserted", "undo", "restoreUndone"}
Spent == [deaths : 0..MaxDeaths, events : 0..MaxEvents]

-----------------------------------------------------------------------------
\* What the actions write has its type.

LEMMA JobFields ==
  ASSUME NEW job \in Job, NEW status \in Active \cup Terminal
  PROVE  /\ [job EXCEPT !.status = status] \in Job
         /\ [job EXCEPT !.started = TRUE, !.status = status] \in Job
         /\ [job EXCEPT !.status = status, !.started = TRUE] \in Job
         /\ [job EXCEPT !.cancelRequested = TRUE] \in Job
         /\ [job EXCEPT !.posted = TRUE] \in Job
         /\ [job EXCEPT !.published = TRUE] \in Job
  BY DEF Job

LEMMA InstanceFields ==
  ASSUME NEW instance \in Instance, NEW n \in Nat,
         NEW outcome \in {"done", "skipped_noop", "failed"}
  PROVE  /\ [instance EXCEPT !.at = "mark", !.outcome = outcome, !.result = n] \in Instance
         /\ [instance EXCEPT !.at = "write", !.seen = n] \in Instance
  BY DEF Instance, Running, ChunkStep

LEMMA AtType ==
  ASSUME NEW pc \in Pcs PROVE At(pc) \in Instance /\ At(pc).at = pc
  BY DEF At, Instance, Pcs

LEMMA ClaimType ==
  ASSUME NEW todo \in SUBSET Docs PROVE [At("row") EXCEPT !.todo = todo] \in Instance
  BY DEF At, Instance, Running, ChunkStep

LEMMA HandlerFields ==
  ASSUME NEW handler \in Handler, NEW pc \in HandlerPcs
  PROVE  [handler EXCEPT !.at = pc] \in Handler /\ Idle \in Handler
  BY DEF Handler, HandlerPcs, Idle

LEMMA RowFields ==
  ASSUME NEW row \in Row, NEW n \in Nat,
         NEW outcome \in {"pending", "done", "skipped_noop", "failed"}
  PROVE  [row EXCEPT !.status = outcome, !.result = n] \in Row
  BY DEF Row

LEMMA SpentFields ==
  ASSUME MaxDeaths \in Nat, MaxEvents \in Nat, spent \in Spent,
         Death \/ \E kind \in EventKinds : Event(kind)
  PROVE  spent' \in Spent
  <1>1. CASE Death
    BY <1>1 DEF Death, Spent
  <1>2. CASE \E kind \in EventKinds : Event(kind)
    BY <1>2 DEF Event, Spent
  <1> QED
    BY <1>1, <1>2

LEMMA RequestFields ==
  ASSUME NEW r \in Request, NEW status \in RequestStatus, NEW j \in Jobs
  PROVE  /\ [r EXCEPT !.status = status] \in Request
         /\ [r EXCEPT !.hasConflicts = TRUE, !.status = status] \in Request
         /\ [r EXCEPT !.status = "merged", !.by = j] \in Request
         /\ [r EXCEPT !.patch = status] \in Request
         /\ [r EXCEPT !.patch = None, !.status = status] \in Request
  BY DEF Request, RequestStatus

LEMMA EntriesType ==
  ASSUME rows \in [Jobs -> [Docs -> Row]], NEW j \in Jobs
  PROVE  DoneEntries(j) \in SUBSET (Docs \X Nat)
  BY DEF DoneEntries, Planned, Row

LEMMA LatestType ==
  ASSUME target \in [Docs -> Seq(Version)], NEW d \in Docs PROVE Latest(d) \in Version
  <1>1. target[d] \in Seq(Version)
    OBVIOUS
  <1>2. target[d] # <<>> => Len(target[d]) \in 1..Len(target[d])
    BY <1>1
  <1>3. EditOf(0) \in Version
    BY DEF EditOf, Version
  <1> QED
    BY <1>1, <1>2, <1>3, ElementOfSeq DEF Latest

LEMMA AppendType ==
  ASSUME target \in [Docs -> Seq(Version)], NEW d \in Docs, NEW version \in Version
  PROVE  /\ [target EXCEPT ![d] = Append(target[d], version)] \in [Docs -> Seq(Version)]
         /\ Len(target[d]) \in Nat /\ Len(Append(target[d], version)) = Len(target[d]) + 1
         /\ \A n \in 1..Len(target[d]) : Append(target[d], version)[n] = target[d][n]
         /\ Append(target[d], version)[Len(target[d]) + 1] = version
  <1>1. target[d] \in Seq(Version)
    OBVIOUS
  <1>2. Append(target[d], version) \in Seq(Version)
    BY <1>1, AppendProperties
  <1> QED
    BY <1>1, <1>2, AppendProperties, LenProperties

-----------------------------------------------------------------------------
\* The types, one variable at a time.

LEMMA Types ==
  ASSUME TypeOK
  PROVE  /\ request \in Request
         /\ jobs \in [Jobs -> Job]
         /\ rows \in [Jobs -> [Docs -> Row]]
         /\ steps \in [Jobs -> Instance]
         /\ routes \in [Jobs -> Handler]
         /\ source \in [Docs -> Nat] /\ compacted \subseteq Docs \X Nat
         /\ target \in [Docs -> Seq(Version)]
         /\ posted \in [Jobs -> SUBSET (Docs \X Nat)]
         /\ live \in [Jobs -> SUBSET (Docs \X Nat)]
         /\ overtaken \in [Jobs -> SUBSET Docs]
         /\ spent \in Spent
  BY DEF TypeOK, Spent

LEMMA GotoType ==
  ASSUME steps \in [Jobs -> Instance], NEW j \in Jobs, NEW pc \in Pcs, Goto(j, pc)
  PROVE  steps' \in [Jobs -> Instance]
  BY AtType DEF Goto

LEMMA SettleType ==
  ASSUME steps \in [Jobs -> Instance], NEW j \in Jobs, NEW n \in Nat,
         NEW outcome \in {"done", "skipped_noop", "failed"}, Settle(j, outcome, n)
  PROVE  steps' \in [Jobs -> Instance]
  <1>1. steps' = [steps EXCEPT ![j] = [steps[j] EXCEPT !.at = "mark", !.outcome = outcome,
                                                       !.result = n]]
    BY DEF Settle
  <1> QED
    BY <1>1, InstanceFields

LEMMA SetStatusType ==
  ASSUME jobs \in [Jobs -> Job], NEW j \in Jobs, NEW status \in Active \cup Terminal,
         SetStatus(j, status)
  PROVE  jobs' \in [Jobs -> Job]
  BY JobFields DEF SetStatus

LEMMA RestoreType ==
  ASSUME request \in Request, NEW prior \in {"approved", "conflicted"}, RestoreClaim(prior),
         NEW j \in Jobs
  PROVE  request' \in Request
  <1>1. prior \in RequestStatus
    BY DEF RequestStatus
  <1> QED
    BY <1>1, RequestFields DEF RestoreClaim

LEMMA PlanTypes ==
  ASSUME TypeOK, NEW j \in Jobs,
         PlanStart(j) \/ PlanBlocked(j) \/ PlanBlock(j) \/ PlanFreeze(j) \/ PlanRun(j)
  PROVE  TypeOK'
  <1>1. {"ended", "chunk", "detect", "block", "run", "plan"} \subseteq Pcs
    BY DEF Pcs, Running, PlanStep, ChunkStep
  <1>2. /\ {"failed", "planning", "running", "queued", "blocked_on_conflicts"}
             \subseteq Active \cup Terminal
        /\ "conflicted" \in RequestStatus
    BY DEF Active, Terminal, RequestStatus
  <1>3. CASE PlanStart(j)
    <2>1. jobs' \in [Jobs -> Job]
      <3>1. jobs \in [Jobs -> Job] /\ jobs[j] \in Job
        BY Types
      <3>2. \A status \in Active \cup Terminal :
              [jobs EXCEPT ![j].started = TRUE, ![j].status = status] \in [Jobs -> Job]
        BY <3>1 DEF Job
      <3>3. [jobs EXCEPT ![j].status = "failed", ![j].started = TRUE] \in [Jobs -> Job]
        BY <3>1 DEF Job, Terminal
      <3> DEFINE next == IF Planned(j) # {} THEN "running"
                         ELSE IF jobs[j].status = "queued" THEN "planning"
                         ELSE jobs[j].status
      <3>4. jobs[j].status \in {"queued", "planning", "running"}
              => next \in Active \cup Terminal
        BY DEF Active
      <3>5. \/ jobs' = jobs
            \/ jobs' = [jobs EXCEPT ![j].status = "failed", ![j].started = TRUE]
            \/ /\ jobs[j].status \in {"queued", "planning", "running"}
               /\ jobs' = [jobs EXCEPT ![j].started = TRUE, ![j].status = next]
        BY <1>3 DEF PlanStart
      <3> HIDE DEF next
      <3> QED
        BY <3>1, <3>2, <3>3, <3>4, <3>5
    <2>2. steps' \in [Jobs -> Instance]
      BY <1>1, <1>3, Types, GotoType DEF PlanStart
    <2> QED
      BY <1>3, <2>1, <2>2 DEF PlanStart, TypeOK
  <1>4. CASE PlanBlocked(j)
    <2>1. request' \in Request
      <3>1. request.status \in RequestStatus
        BY Types DEF Request
      <3> QED
        BY <1>2, <1>4, <3>1, Types, RequestFields DEF PlanBlocked
    <2>2. steps' \in [Jobs -> Instance]
      BY <1>1, <1>4, Types, GotoType DEF PlanBlocked
    <2> QED
      BY <1>4, <2>1, <2>2 DEF PlanBlocked, TypeOK
  <1>5. CASE PlanBlock(j)
    <2>1. jobs' \in [Jobs -> Job] /\ steps' \in [Jobs -> Instance]
      BY <1>1, <1>2, <1>5, Types, GotoType, SetStatusType DEF PlanBlock
    <2> QED
      BY <1>5, <2>1 DEF PlanBlock, TypeOK
  <1>6. CASE PlanFreeze(j)
    <2>1. \A d \in Docs : PlannedRow(j, d) \in Row
      BY Types DEF PlannedRow, NoRow, Row
    <2>2. [d \in Docs |-> IF rows[j][d].kind # "none" THEN rows[j][d]
                          ELSE PlannedRow(j, d)] \in [Docs -> Row]
      BY <2>1, Types
    <2>3. rows' \in [Jobs -> [Docs -> Row]]
      BY <1>6, <2>2, Types DEF PlanFreeze
    <2>4. steps' \in [Jobs -> Instance]
      BY <1>1, <1>6, Types, GotoType DEF PlanFreeze
    <2> QED
      BY <1>6, <2>3, <2>4 DEF PlanFreeze, TypeOK
  <1>7. CASE PlanRun(j)
    <2>1. jobs' \in [Jobs -> Job] /\ steps' \in [Jobs -> Instance]
      BY <1>1, <1>2, <1>7, Types, GotoType, SetStatusType DEF PlanRun
    <2> QED
      BY <1>7, <2>1 DEF PlanRun, TypeOK
  <1> QED
    BY <1>3, <1>4, <1>5, <1>6, <1>7

LEMMA ChunkTypes ==
  ASSUME TypeOK, NEW j \in Jobs, ChunkStart(j) \/ RowRead(j) \/ RowMark(j)
  PROVE  TypeOK'
  <1>1. {"cancel", "checkpoint", "chunk"} \subseteq Pcs
    BY DEF Pcs, Running, ChunkStep, CheckpointStep, CancelStep
  <1>2. steps \in [Jobs -> Instance] /\ steps[j] \in Instance /\ steps[j].todo \subseteq Docs
    BY Types DEF Instance
  <1>3. CASE ChunkStart(j)
    <2>1. Pending(j) \subseteq Docs
      BY DEF Pending
    <2>2. steps' \in [Jobs -> Instance]
      BY <1>1, <1>2, <1>3, <2>1, GotoType, ClaimType DEF ChunkStart
    <2> QED
      BY <1>3, <2>2 DEF ChunkStart, TypeOK
  <1>4. CASE RowRead(j)
    <2>1. \A d \in Docs : Len(target[d]) \in Nat
      BY Types
    <2>2. PICK d \in FirstOf(steps[j].todo) :
            \/ Settle(j, "done", Len(target[d])) \/ Settle(j, "skipped_noop", Len(target[d]))
            \/ steps' = [steps EXCEPT ![j].at = "write", ![j].seen = Len(target[d])]
      BY <1>4 DEF RowRead
    <2>3. Len(target[d]) \in Nat
      BY <1>2, <2>1, <2>2 DEF FirstOf
    <2>4. Settle(j, "done", Len(target[d])) \/ Settle(j, "skipped_noop", Len(target[d]))
            => steps' \in [Jobs -> Instance]
      BY <1>2, <2>3, SettleType
    <2>5. [steps EXCEPT ![j].at = "write", ![j].seen = Len(target[d])] \in [Jobs -> Instance]
      <3>1. [steps[j] EXCEPT !.at = "write", !.seen = Len(target[d])] \in Instance
        BY <1>2, <2>3, InstanceFields
      <3> QED
        BY <1>2, <3>1
    <2>6. steps' \in [Jobs -> Instance]
      BY <2>2, <2>4, <2>5
    <2> QED
      BY <1>4, <2>6 DEF RowRead, TypeOK
  <1>5. CASE RowMark(j)
    <2>1. PICK d \in FirstOf(steps[j].todo) :
            /\ rows' = [rows EXCEPT ![j][d] = [rows[j][d] EXCEPT
                            !.status = steps[j].outcome, !.result = steps[j].result]]
            /\ \/ steps' = [steps EXCEPT ![j] = [At("row") EXCEPT !.todo = steps[j].todo \ {d}]]
               \/ Goto(j, "checkpoint") \/ Goto(j, "chunk")
      BY <1>5 DEF RowMark
    <2>2. steps' \in [Jobs -> Instance]
      BY <1>1, <1>2, <2>1, GotoType, ClaimType
    <2>3. d \in Docs
      BY <1>2 DEF FirstOf
    <2>4. steps[j].outcome \in {"pending", "done", "skipped_noop", "failed"}
          /\ steps[j].result \in Nat
      BY <1>2 DEF Instance
    <2>5. rows' \in [Jobs -> [Docs -> Row]]
      BY <2>1, <2>3, <2>4, Types, RowFields
    <2> QED
      BY <1>5, <2>2, <2>5 DEF RowMark, TypeOK
  <1> QED
    BY <1>3, <1>4, <1>5

LEMMA WriteTypes ==
  ASSUME TypeOK, MergeAssumption, NEW j \in Jobs, RowWrite(j) \/ RowCollides(j) \/ RowFails(j)
  PROVE  TypeOK'
  <1>1. steps \in [Jobs -> Instance] /\ steps[j] \in Instance /\ steps[j].todo \subseteq Docs
    BY Types DEF Instance
  <1>2. \A d \in Docs : target[d] \in Seq(Version) /\ Len(target[d]) \in Nat
                        /\ rows[j][d].from \in Nat
    BY Types DEF Row
  <1>3. CASE RowWrite(j)
    <2>1. PICK d \in FirstOf(steps[j].todo) :
            \/ (\/ Settle(j, "skipped_noop", Len(target[d])) \/ Settle(j, "done", Len(target[d])))
               /\ target' = target
            \/ /\ target' = [target EXCEPT ![d] = Append(target[d],
                    [by |-> j, from |-> rows[j][d].from, content |-> Fetched(j, d)])]
               /\ Settle(j, "done", Len(target[d]) + 1)
      BY <1>3 DEF RowWrite
    <2>2. d \in Docs
      BY <1>1 DEF FirstOf
    <2>3. Fetched(j, d) \in Nat
      BY <1>2, <2>2 DEF Fetched
    <2>4. [by |-> j, from |-> rows[j][d].from, content |-> Fetched(j, d)] \in Version
      BY <1>2, <2>2, <2>3 DEF Version
    <2> DEFINE version == [by |-> j, from |-> rows[j][d].from, content |-> Fetched(j, d)]
    <2>5. target' \in [Docs -> Seq(Version)]
      <3>1. version \in Version /\ target \in [Docs -> Seq(Version)]
        BY <2>4, Types
      <3>2. target' = target \/ target' = [target EXCEPT ![d] = Append(target[d], version)]
        BY <2>1
      <3> HIDE DEF version
      <3>3. [target EXCEPT ![d] = Append(target[d], version)] \in [Docs -> Seq(Version)]
        BY <2>2, <3>1, AppendType
      <3> QED
        BY <3>1, <3>2, <3>3
    <2>6. Len(target[d]) \in Nat /\ Len(target[d]) + 1 \in Nat
      BY <1>2, <2>2
    <2>7. steps' \in [Jobs -> Instance]
      <3>1. \E n \in Nat : \E outcome \in {"done", "skipped_noop"} : Settle(j, outcome, n)
        BY <2>1, <2>6
      <3> QED
        BY <1>1, <3>1, SettleType
    <2> QED
      BY <1>3, <2>5, <2>7 DEF RowWrite, TypeOK
  <1>4. CASE RowCollides(j)
    <2>1. PICK d \in FirstOf(steps[j].todo) :
            /\ Settle(j, "done", Len(target[d]))
            /\ overtaken' = [overtaken EXCEPT ![j] = @ \cup {d}]
      BY <1>4 DEF RowCollides
    <2>2. d \in Docs
      BY <1>1 DEF FirstOf
    <2>3. overtaken' \in [Jobs -> SUBSET Docs]
      BY <2>1, <2>2, Types
    <2>4. Len(target[d]) \in Nat
      BY <1>2, <2>2
    <2>5. steps' \in [Jobs -> Instance]
      BY <1>1, <2>1, <2>4, SettleType
    <2> QED
      BY <1>4, <2>3, <2>5 DEF RowCollides, TypeOK
  <1>5. CASE RowFails(j)
    <2>1. steps' \in [Jobs -> Instance]
      BY <1>1, <1>5, SettleType DEF RowFails
    <2>2. spent' \in Spent
      BY <1>5, Types, SpentFields DEF RowFails, MergeAssumption, EventKinds
    <2> QED
      BY <1>5, <2>1, <2>2 DEF RowFails, TypeOK, Spent
  <1> QED
    BY <1>3, <1>4, <1>5

LEMMA EpilogueTypes ==
  ASSUME TypeOK, NEW j \in Jobs,
         CancelJob(j) \/ FailJob(j) \/ RestoreRequest(j) \/ EpilogueDone(j) \/ FinalizeJob(j)
  PROVE  TypeOK'
  <1>1. {"restoreCancelled", "restoreFailed", "cancelled", "failed", "ended"} \subseteq Pcs
    BY DEF Pcs, Running, CancelStep, FailStep
  <1>2. {"cancelled", "failed", "completed", "completed_with_errors"} \subseteq Active \cup Terminal
    BY DEF Terminal
  <1>3. CASE CancelJob(j) \/ FailJob(j) \/ FinalizeJob(j)
    <2>1. jobs' \in [Jobs -> Job] /\ steps' \in [Jobs -> Instance]
      BY <1>1, <1>2, <1>3, Types, GotoType, SetStatusType DEF CancelJob, FailJob, FinalizeJob
    <2> QED
      BY <1>3, <2>1 DEF CancelJob, FailJob, FinalizeJob, TypeOK
  <1>4. CASE RestoreRequest(j)
    <2>1. jobs[j].prior \in {"approved", "conflicted"}
      BY Types DEF Job
    <2>2. request' \in Request
      BY <1>4, <2>1, Types, RestoreType DEF RestoreRequest
    <2>3. steps' \in [Jobs -> Instance]
      BY <1>1, <1>4, Types, GotoType DEF RestoreRequest
    <2> QED
      BY <1>4, <2>2, <2>3 DEF RestoreRequest, TypeOK
  <1>5. CASE EpilogueDone(j)
    <2>1. steps' \in [Jobs -> Instance]
      BY <1>1, <1>5, Types, GotoType DEF EpilogueDone
    <2> QED
      BY <1>5, <2>1 DEF EpilogueDone, TypeOK
  <1> QED
    BY <1>3, <1>4, <1>5

LEMMA CheckpointTypes ==
  ASSUME TypeOK, NEW j \in Jobs,
         CheckpointStart(j) \/ CheckpointPost(j) \/ CheckpointStamp(j) \/ FinalizeStatus(j)
  PROVE  TypeOK'
  <1>1. {"post", "status", "fail", "stampPost", "publish", "finish"} \subseteq Pcs
    BY DEF Pcs, Running, CheckpointStep, FailStep, PublishStep
  <1>2. CASE CheckpointStart(j)
    <2>1. jobs' \in [Jobs -> Job]
      BY <1>2, Types, SetStatusType DEF CheckpointStart, Active
    <2>2. steps' \in [Jobs -> Instance]
      BY <1>1, <1>2, Types, GotoType DEF CheckpointStart
    <2> QED
      BY <1>2, <2>1, <2>2 DEF CheckpointStart, TypeOK
  <1>3. CASE CheckpointPost(j)
    <2>1. posted' \in [Jobs -> SUBSET (Docs \X Nat)]
      BY <1>3, Types, EntriesType DEF CheckpointPost
    <2>2. steps' \in [Jobs -> Instance]
      BY <1>1, <1>3, Types, GotoType DEF CheckpointPost
    <2> QED
      BY <1>3, <2>1, <2>2 DEF CheckpointPost, TypeOK
  <1>4. CASE CheckpointStamp(j)
    <2>1. [jobs[j] EXCEPT !.posted = TRUE] \in Job
      <3>1. jobs[j] \in Job /\ "completed" \in Terminal
        BY Types DEF Terminal
      <3> QED
        BY <3>1, JobFields
    <2>2. jobs' \in [Jobs -> Job]
      BY <1>4, <2>1, Types DEF CheckpointStamp
    <2>3. steps' \in [Jobs -> Instance]
      BY <1>1, <1>4, Types, GotoType DEF CheckpointStamp
    <2> QED
      BY <1>4, <2>2, <2>3 DEF CheckpointStamp, TypeOK
  <1>5. CASE FinalizeStatus(j)
    <2>1. jobs[j].prior \in {"approved", "conflicted"}
      BY Types DEF Job
    <2>2. \/ RestoreClaim(jobs[j].prior) \/ request' = request
          \/ request' = [request EXCEPT !.status = "merged", !.by = j]
      BY <1>5 DEF FinalizeStatus
    <2>3. request' \in Request
      <3>1. request \in Request /\ [request EXCEPT !.status = "merged", !.by = j] \in Request
        BY Types DEF Request, RequestStatus
      <3> QED
        BY <2>1, <2>2, <3>1, RestoreType
    <2>4. steps' \in [Jobs -> Instance]
      BY <1>1, <1>5, Types, GotoType DEF FinalizeStatus
    <2> QED
      BY <1>5, <2>3, <2>4 DEF FinalizeStatus, TypeOK
  <1> QED
    BY <1>2, <1>3, <1>4, <1>5

LEMMA PublishTypes ==
  ASSUME TypeOK, NEW j \in Jobs, PublishStart(j) \/ Publish(j) \/ PublishStamp(j)
  PROVE  TypeOK'
  <1>1. {"finish", "release", "stampPublish"} \subseteq Pcs
    BY DEF Pcs, Running, PublishStep
  <1>2. steps' \in [Jobs -> Instance]
    BY <1>1, Types, GotoType DEF PublishStart, Publish, PublishStamp
  <1>3. CASE PublishStart(j)
    BY <1>2, <1>3 DEF PublishStart, TypeOK
  <1>4. CASE Publish(j)
    <2>1. live' \in [Jobs -> SUBSET (Docs \X Nat)]
      <3>1. live' = live \/ live' = [live EXCEPT ![j] = DoneEntries(j)]
        BY <1>4 DEF Publish
      <3>2. live \in [Jobs -> SUBSET (Docs \X Nat)] /\ DoneEntries(j) \in SUBSET (Docs \X Nat)
        BY Types, EntriesType
      <3> QED
        BY <3>1, <3>2
    <2> QED
      BY <1>2, <1>4, <2>1 DEF Publish, TypeOK
  <1>5. CASE PublishStamp(j)
    <2>1. [jobs[j] EXCEPT !.published = TRUE] \in Job
      <3>1. jobs[j] \in Job /\ "completed" \in Terminal
        BY Types DEF Terminal
      <3> QED
        BY <3>1, JobFields
    <2>2. jobs' \in [Jobs -> Job]
      BY <1>5, <2>1, Types DEF PublishStamp
    <2> QED
      BY <1>2, <1>5, <2>2 DEF PublishStamp, TypeOK
  <1> QED
    BY <1>3, <1>4, <1>5

\* The engine resumes at the start of a step.
LEMMA StartOfType ==
  ASSUME NEW j \in Jobs, steps[j].at \in Running PROVE StartOf(j) \in Running
  BY DEF StartOf, StepBefore, Running, PlanStep, ChunkStep, CheckpointStep, PublishStep,
         CancelStep, FailStep

LEMMA DeathTypes ==
  ASSUME TypeOK, MergeAssumption, NEW j \in Jobs, StepDies(j) \/ StepGivesUp(j) \/ RouteDies(j)
  PROVE  TypeOK'
  <1>1. spent' \in Spent
    BY Types, SpentFields DEF StepDies, StepGivesUp, RouteDies, MergeAssumption
  <1>2. CASE StepDies(j)
    <2>1. StartOf(j) \in Pcs
      BY <1>2, StartOfType DEF StepDies, Pcs
    <2>2. steps' \in [Jobs -> Instance]
      BY <1>2, <2>1, Types, GotoType DEF StepDies
    <2> QED
      BY <1>1, <1>2, <2>2 DEF StepDies, TypeOK, Spent
  <1>3. CASE StepGivesUp(j)
    <2>1. "fail" \in Pcs
      BY DEF Pcs, Running, FailStep
    <2>2. steps' \in [Jobs -> Instance]
      BY <1>3, <2>1, Types, GotoType DEF StepGivesUp
    <2> QED
      BY <1>1, <1>3, <2>2 DEF StepGivesUp, TypeOK, Spent
  <1>4. CASE RouteDies(j)
    <2>1. routes' \in [Jobs -> Handler]
      BY <1>4, Types DEF RouteDies, Idle, Handler
    <2> QED
      BY <1>1, <1>4, <2>1 DEF RouteDies, TypeOK, Spent
  <1> QED
    BY <1>2, <1>3, <1>4

LEMMA LaunchType ==
  ASSUME steps \in [Jobs -> Instance], NEW j \in Jobs, Launch(j)
  PROVE  steps' \in [Jobs -> Instance]
  <1>1. "plan" \in Pcs
    BY DEF Pcs, Running, PlanStep
  <1> QED
    BY <1>1, AtType DEF Launch

LEMMA RedriveType ==
  ASSUME steps \in [Jobs -> Instance], Redrive PROVE steps' \in [Jobs -> Instance]
  <1>1. Driverless \subseteq Jobs
    BY DEF Driverless
  <1> QED
    BY <1>1, LaunchType DEF Redrive

LEMMA RouteTypes ==
  ASSUME TypeOK, NEW j \in Jobs,
         Claim(j) \/ Adopt(j) \/ ReleaseClaim(j) \/ CreateWorkflow(j)
           \/ UndoJob(j) \/ UndoClaim(j)
  PROVE  TypeOK'
  <1>1. routes \in [Jobs -> Handler] /\ Idle \in Handler
    BY Types DEF Idle, Handler
  <1>2. CASE Claim(j)
    <2>1. request.status \in {"approved", "conflicted"} /\ request \in Request
      BY <1>2, Types DEF Claim
    <2>2. [at |-> "claimed", prior |-> request.status] \in Handler
      BY <2>1 DEF Handler
    <2>3. routes' \in [Jobs -> Handler]
      BY <1>1, <1>2, <2>2 DEF Claim
    <2>4. request' \in Request
      BY <1>2, <2>1 DEF Claim, Request, RequestStatus
    <2> QED
      BY <1>2, <2>3, <2>4 DEF Claim, TypeOK
  <1>3. CASE Adopt(j)
    <2>1. [at |-> "claimed", prior |-> IF request.hasConflicts THEN "conflicted"
                                       ELSE "approved"] \in Handler
      BY DEF Handler
    <2>2. routes' \in [Jobs -> Handler]
      BY <1>1, <1>3, <2>1 DEF Adopt
    <2> QED
      BY <1>3, <2>2 DEF Adopt, TypeOK
  <1>4. CASE ReleaseClaim(j)
    <2>1. routes[j].prior \in {"approved", "conflicted"}
      BY <1>1 DEF Handler
    <2>2. request' \in Request /\ routes' \in [Jobs -> Handler]
      BY <1>1, <1>4, <2>1, Types, RestoreType DEF ReleaseClaim
    <2> QED
      BY <1>4, <2>2 DEF ReleaseClaim, TypeOK
  <1>5. CASE CreateWorkflow(j)
    <2>1. steps' \in [Jobs -> Instance] /\ routes' \in [Jobs -> Handler]
      BY <1>1, <1>5, Types, LaunchType DEF CreateWorkflow
    <2> QED
      BY <1>5, <2>1 DEF CreateWorkflow, TypeOK
  <1>6. CASE UndoJob(j)
    <2>1. jobs' \in [Jobs -> Job]
      BY <1>6, Types, SetStatusType DEF UndoJob, Terminal
    <2>2. routes' \in [Jobs -> Handler]
      BY <1>1, <1>6 DEF UndoJob, Handler
    <2> QED
      BY <1>6, <2>1, <2>2 DEF UndoJob, TypeOK
  <1>7. CASE UndoClaim(j)
    <2>1. jobs[j].prior \in {"approved", "conflicted"}
      BY Types DEF Job
    <2>2. request' \in Request /\ routes' \in [Jobs -> Handler]
      BY <1>1, <1>7, <2>1, Types, RestoreType DEF UndoClaim
    <2> QED
      BY <1>7, <2>2 DEF UndoClaim, TypeOK
  <1> QED
    BY <1>2, <1>3, <1>4, <1>5, <1>6, <1>7

LEMMA ExecuteTypes ==
  ASSUME TypeOK, MergeAssumption,
         AnswerBusy \/ \E j \in Jobs : CreateJob(j) \/ CreateWorkflowFails(j) \/ RequestCancel(j)
  PROVE  TypeOK'
  <1>1. routes \in [Jobs -> Handler] /\ jobs \in [Jobs -> Job]
    BY Types
  <1>2. CASE AnswerBusy
    <2>1. steps' \in [Jobs -> Instance]
      BY <1>2, Types, RedriveType DEF AnswerBusy
    <2> QED
      BY <1>2, <2>1 DEF AnswerBusy, TypeOK
  <1>3. ASSUME NEW j \in Jobs, CreateJob(j) PROVE TypeOK'
    <2>1. routes' \in [Jobs -> Handler]
      <3>1. routes' = [routes EXCEPT ![j].at = "release"]
              \/ routes' = [routes EXCEPT ![j].at = "inserted"]
        BY <1>3 DEF CreateJob
      <3> QED
        BY <1>1, <3>1 DEF Handler
    <2>2. jobs' \in [Jobs -> Job]
      <3>1. jobs' = jobs \/ \E strategy \in Asked[j] :
                 jobs' = [jobs EXCEPT ![j] = [NoJob EXCEPT !.status = "queued",
                                   !.prior = routes[j].prior, !.strategy = strategy]]
        BY <1>3 DEF CreateJob
      <3>2. routes[j].prior \in {"approved", "conflicted"}
        BY <1>1 DEF Handler
      <3>3. \A strategy \in Asked[j] :
              [NoJob EXCEPT !.status = "queued", !.prior = routes[j].prior,
                            !.strategy = strategy] \in Job
        <4>1. Asked[j] \subseteq {"take-source", "take-target", "manual", None}
          BY DEF MergeAssumption
        <4> QED
          BY <3>2, <4>1 DEF NoJob, Job, Active
      <3> QED
        BY <1>1, <3>1, <3>3
    <2>3. steps' \in [Jobs -> Instance]
      BY <1>3, Types, RedriveType DEF CreateJob
    <2> QED
      BY <1>3, <2>1, <2>2, <2>3 DEF CreateJob, TypeOK
  <1>4. ASSUME NEW j \in Jobs, CreateWorkflowFails(j) PROVE TypeOK'
    <2>1. routes' \in [Jobs -> Handler]
      BY <1>1, <1>4 DEF CreateWorkflowFails, Handler
    <2>2. spent' \in Spent
      BY <1>4, Types, SpentFields DEF CreateWorkflowFails, MergeAssumption, EventKinds
    <2> QED
      BY <1>4, <2>1, <2>2 DEF CreateWorkflowFails, TypeOK, Spent
  <1>5. ASSUME NEW j \in Jobs, RequestCancel(j) PROVE TypeOK'
    <2>1. jobs' \in [Jobs -> Job]
      <3>1. [jobs[j] EXCEPT !.cancelRequested = TRUE] \in Job
        BY <1>1 DEF Job
      <3> QED
        BY <1>1, <1>5, <3>1 DEF RequestCancel
    <2>2. spent' \in Spent
      BY <1>5, Types, SpentFields DEF RequestCancel, MergeAssumption, EventKinds
    <2> QED
      BY <1>5, <2>1, <2>2 DEF RequestCancel, TypeOK, Spent
  <1> QED
    BY <1>2, <1>3, <1>4, <1>5

LEMMA OutsideTypes ==
  ASSUME TypeOK, MergeAssumption,
         PatchCheck \/ PatchStatus \/ \E d \in Docs : SourceMoves(d) \/ TargetEdit(d)
  PROVE  TypeOK'
  <1>1. CASE PatchCheck
    <2>1. request' \in Request
      BY <1>1, Types DEF PatchCheck, Request
    <2>2. spent' \in Spent
      BY <1>1, Types, SpentFields DEF PatchCheck, MergeAssumption, EventKinds
    <2> QED
      BY <1>1, <2>1, <2>2 DEF PatchCheck, TypeOK, Spent
  <1>2. CASE PatchStatus
    <2>1. request \in Request
      BY Types
    <2>2. request' \in Request
      BY <1>2, <2>1 DEF PatchStatus, Request
    <2> QED
      BY <1>2, <2>2 DEF PatchStatus, TypeOK
  <1>3. ASSUME NEW d \in Docs, SourceMoves(d) PROVE TypeOK'
    <2>1. source \in [Docs -> Nat] /\ compacted \subseteq Docs \X Nat
      BY Types
    <2>2. source' \in [Docs -> Nat]
      <3>1. source[d] \in Nat
        BY <2>1
      <3>2. source[d] + 1 \in Nat
        BY <3>1
      <3>3. source' = [source EXCEPT ![d] = source[d] + 1]
        BY <1>3 DEF SourceMoves
      <3> QED
        BY <2>1, <3>2, <3>3
    <2>3. compacted' \subseteq Docs \X Nat
      <3>1. <<d, source[d]>> \in Docs \X Nat
        BY <2>1
      <3> QED
        BY <1>3, <2>1, <3>1 DEF SourceMoves
    <2>4. spent' \in Spent
      BY <1>3, Types, SpentFields DEF SourceMoves, MergeAssumption, EventKinds
    <2> QED
      BY <1>3, <2>2, <2>3, <2>4 DEF SourceMoves, TypeOK, Spent
  <1>4. ASSUME NEW d \in Docs, TargetEdit(d) PROVE TypeOK'
    <2>1. PICK content \in {0, source[d]} :
            target' = [target EXCEPT ![d] = Append(target[d], EditOf(content))]
      BY <1>4 DEF TargetEdit
    <2>2. EditOf(content) \in Version
      BY Types DEF EditOf, Version
    <2>3. target' \in [Docs -> Seq(Version)]
      BY <2>1, <2>2, Types, AppendType
    <2>4. spent' \in Spent
      BY <1>4, Types, SpentFields DEF TargetEdit, MergeAssumption, EventKinds
    <2> QED
      BY <1>4, <2>3, <2>4 DEF TargetEdit, TypeOK, Spent
  <1> QED
    BY <1>1, <1>2, <1>3, <1>4

LEMMA InitTypes == MergeAssumption /\ Init => TypeOK
  <1> SUFFICES ASSUME MergeAssumption, Init PROVE TypeOK
    OBVIOUS
  <1>1. request \in Request
    BY DEF Init, Request, RequestStatus
  <1>2. jobs \in [Jobs -> Job] /\ rows \in [Jobs -> [Docs -> Row]] /\ routes \in [Jobs -> Handler]
    BY DEF Init, Job, NoJob, Row, NoRow, Handler, Idle
  <1>3. steps \in [Jobs -> Instance]
    BY AtType DEF Init, Pcs
  <1>4. source \in [Docs -> Nat] /\ compacted \subseteq Docs \X Nat
    BY DEF Init
  <1>5. target \in [Docs -> Seq(Version)]
    <2>1. EditOf(0) \in Version
      BY DEF EditOf, Version
    <2>2. <<EditOf(0)>> \in Seq(Version) /\ <<>> \in Seq(Version)
      BY <2>1
    <2> QED
      BY <2>2 DEF Init
  <1>6. posted \in [Jobs -> SUBSET (Docs \X Nat)] /\ live \in [Jobs -> SUBSET (Docs \X Nat)]
        /\ spent \in [deaths : 0..MaxDeaths, events : 0..MaxEvents]
        /\ overtaken \in [Jobs -> SUBSET Docs]
    BY DEF Init, MergeAssumption
  <1> QED
    BY <1>1, <1>2, <1>3, <1>4, <1>5, <1>6 DEF TypeOK

\* Every variable keeps to its type, in every step of the merge and of its
\* surroundings.
THEOREM MergeTypeOK == Spec => []TypeOK
  <1>1. Init => TypeOK
    BY MergeAssumption, InitTypes
  <1>2. TypeOK /\ [Next]_vars => TypeOK'
    <2> SUFFICES ASSUME TypeOK, [Next]_vars PROVE TypeOK'
      OBVIOUS
    <2>1. CASE UNCHANGED vars
      BY <2>1 DEF vars, TypeOK
    <2>2. CASE Next
      BY <2>2, MergeAssumption, PlanTypes, ChunkTypes, WriteTypes, EpilogueTypes, CheckpointTypes,
         PublishTypes, DeathTypes, RouteTypes, ExecuteTypes, OutsideTypes
         DEF Next, Step, Fault, Execute, Handle
    <2> QED
      BY <2>1, <2>2
  <1> QED
    BY <1>1, <1>2, PTL DEF Spec

-----------------------------------------------------------------------------
\* The ledger.  Only the plan and the chunk of a job touch its rows.

Unplanned(j) ==
  /\ \A d \in Docs : rows[j][d].kind = "none" => rows[j][d].status = "pending"
  /\ steps[j].at = "detect" => Planned(j) = {}

Claimed(j) == steps[j].at \in {"row", "write", "mark"} => steps[j].todo \subseteq Pending(j)

Fresh(j) == \A d \in Docs : rows'[j][d] = IF rows[j][d].kind # "none" THEN rows[j][d]
                                          ELSE PlannedRow(j, d)

Marked(j) == \E d \in FirstOf(steps[j].todo) :
  /\ rows'[j] = [rows[j] EXCEPT ![d] =
                   [@ EXCEPT !.status = steps[j].outcome, !.result = steps[j].result]]
  /\ \/ steps'[j] = [At("row") EXCEPT !.todo = steps[j].todo \ {d}]
     \/ steps'[j] = At("checkpoint") \/ steps'[j] = At("chunk")

\* Every step, as one job's instance and rows see it.
Moves(j) ==
  \/ /\ rows'[j] = rows[j]
     /\ steps'[j] = steps[j] \/ \E pc \in Pcs \ {"detect", "row", "write", "mark"} : steps'[j] = At(pc)
  \/ rows'[j] = rows[j] /\ Planned(j) = {} /\ request.status = "merging" /\ steps'[j] = At("detect")
  \/ steps[j].at = "detect" /\ Fresh(j) /\ steps'[j] = At("run")
  \/ /\ rows'[j] = rows[j]
     /\ \E claim \in SUBSET Pending(j) : steps'[j] = [At("row") EXCEPT !.todo = claim]
  \/ /\ rows'[j] = rows[j] /\ steps[j].at \in {"row", "write"}
     /\ steps'[j].at \in {"write", "mark"} /\ steps'[j].todo = steps[j].todo
  \/ steps[j].at = "mark" /\ Marked(j)

LEMMA GotoMoves ==
  ASSUME TypeOK, NEW i \in Jobs, NEW j \in Jobs,
         NEW pc \in Pcs \ {"detect", "row", "write", "mark"}, Goto(i, pc)
  PROVE  steps'[j] = steps[j] \/ \E p \in Pcs \ {"detect", "row", "write", "mark"} : steps'[j] = At(p)
  BY Types DEF Goto

LEMMA SettleMoves ==
  ASSUME steps \in [Jobs -> Instance], NEW i \in Jobs, NEW j \in Jobs, NEW outcome, NEW n,
         Settle(i, outcome, n)
  PROVE  \/ steps'[j] = steps[j]
         \/ /\ i = j /\ steps'[j].at = "mark" /\ steps'[j].todo = steps[j].todo
            /\ steps'[j].outcome = outcome /\ steps'[j].result = n
  BY DEF Settle, Instance

LEMMA WriteMoves ==
  ASSUME steps \in [Jobs -> Instance], NEW i \in Jobs, NEW j \in Jobs, NEW n,
         steps' = [steps EXCEPT ![i].at = "write", ![i].seen = n]
  PROVE  \/ steps'[j] = steps[j]
         \/ i = j /\ steps'[j].at = "write" /\ steps'[j].todo = steps[j].todo
  BY DEF Instance

LEMMA StepMoves ==
  ASSUME TypeOK, MergeAssumption, NEW i \in Jobs, NEW j \in Jobs, Step(i) PROVE Moves(j)
  <1> DEFINE Calm == Pcs \ {"detect", "row", "write", "mark"}
  <1>1. {"plan", "run", "chunk", "cancel", "checkpoint", "ended", "block", "restoreCancelled",
         "restoreFailed", "cancelled", "failed", "post", "stampPost", "status", "publish",
         "finish", "release", "stampPublish", "fail"} \subseteq Calm
    BY DEF Pcs, Running, PlanStep, ChunkStep, CheckpointStep, PublishStep, CancelStep, FailStep
  <1>2. /\ steps \in [Jobs -> Instance] /\ steps[i] \in Instance /\ steps[i].todo \subseteq Docs
        /\ rows \in [Jobs -> [Docs -> Row]]
    BY Types DEF Instance
  <1>3. ASSUME NEW pc \in Calm, Goto(i, pc), rows' = rows PROVE Moves(j)
    BY <1>3, GotoMoves DEF Moves
  <1>4. CASE PlanStart(i)
    <2>1. rows' = rows
      BY <1>4 DEF PlanStart
    <2>2. CASE Goto(i, "detect") /\ Planned(i) = {} /\ request.status = "merging"
      BY <1>2, <2>1, <2>2 DEF Goto, Moves
    <2>3. CASE Goto(i, "ended") \/ Goto(i, "chunk")
      BY <1>1, <1>3, <2>1, <2>3
    <2> QED
      BY <1>4, <2>2, <2>3 DEF PlanStart
  <1>5. CASE PlanBlocked(i) \/ PlanBlock(i) \/ PlanRun(i)
    BY <1>1, <1>3, <1>5 DEF PlanBlocked, PlanBlock, PlanRun
  <1>6. CASE PlanFreeze(i)
    <2>1. CASE i = j
      BY <1>2, <1>6, <2>1 DEF PlanFreeze, Goto, Fresh, Moves
    <2>2. CASE i # j
      BY <1>2, <1>6, <2>2 DEF PlanFreeze, Goto, Moves
    <2> QED
      BY <2>1, <2>2
  <1>7. CASE ChunkStart(i)
    <2>1. rows' = rows
      BY <1>7 DEF ChunkStart
    <2>2. CASE Goto(i, "cancel") \/ Goto(i, "checkpoint")
      BY <1>1, <1>3, <2>1, <2>2
    <2>3. CASE \E claim \in SUBSET Pending(i) :
                 steps' = [steps EXCEPT ![i] = [At("row") EXCEPT !.todo = claim]]
      BY <1>2, <2>1, <2>3 DEF Moves
    <2> QED
      BY <1>7, <2>2, <2>3 DEF ChunkStart
  <1>8. CASE RowRead(i) \/ RowWrite(i)
    <2>1. rows' = rows /\ steps[i].at \in {"row", "write"}
      BY <1>8 DEF RowRead, RowWrite
    <2>2. (\E outcome \in {"done", "skipped_noop", "failed"}, n \in Nat : Settle(i, outcome, n))
          \/ \E n \in Nat : steps' = [steps EXCEPT ![i].at = "write", ![i].seen = n]
      <3>1. \A d \in FirstOf(steps[i].todo) : Len(target[d]) \in Nat /\ Len(target[d]) + 1 \in Nat
        <4>1. \A d \in Docs : Len(target[d]) \in Nat
          BY Types
        <4> QED
          BY <1>2, <4>1 DEF FirstOf
      <3>2. CASE RowRead(i)
        <4>1. PICK d \in FirstOf(steps[i].todo) :
                \/ Settle(i, "done", Len(target[d])) \/ Settle(i, "skipped_noop", Len(target[d]))
                \/ steps' = [steps EXCEPT ![i].at = "write", ![i].seen = Len(target[d])]
          BY <3>2 DEF RowRead
        <4> QED
          BY <3>1, <4>1
      <3>3. CASE RowWrite(i)
        <4>1. PICK d \in FirstOf(steps[i].todo) :
                \/ Settle(i, "done", Len(target[d])) \/ Settle(i, "skipped_noop", Len(target[d]))
                \/ Settle(i, "done", Len(target[d]) + 1)
          BY <3>3 DEF RowWrite
        <4> QED
          BY <3>1, <4>1
      <3> QED
        BY <1>8, <3>2, <3>3
    <2>3. \/ steps'[j] = steps[j]
          \/ i = j /\ steps'[j].at \in {"write", "mark"} /\ steps'[j].todo = steps[j].todo
      <3>1. ASSUME NEW outcome, NEW n, Settle(i, outcome, n)
            PROVE  \/ steps'[j] = steps[j]
                   \/ i = j /\ steps'[j].at = "mark" /\ steps'[j].todo = steps[j].todo
        BY <1>2, <3>1, SettleMoves
      <3>2. ASSUME NEW n, steps' = [steps EXCEPT ![i].at = "write", ![i].seen = n]
            PROVE  \/ steps'[j] = steps[j]
                   \/ i = j /\ steps'[j].at = "write" /\ steps'[j].todo = steps[j].todo
        BY <1>2, <3>2, WriteMoves
      <3> QED
        BY <2>2, <3>1, <3>2
    <2> QED
      BY <2>1, <2>3 DEF Moves
  <1>9. CASE RowMark(i)
    <2>1. PICK d \in FirstOf(steps[i].todo) :
            /\ rows' = [rows EXCEPT ![i][d] = [rows[i][d] EXCEPT
                            !.status = steps[i].outcome, !.result = steps[i].result]]
            /\ \/ steps' = [steps EXCEPT ![i] = [At("row") EXCEPT !.todo = steps[i].todo \ {d}]]
               \/ Goto(i, "checkpoint") \/ Goto(i, "chunk")
      BY <1>9 DEF RowMark
    <2>2. d \in steps[i].todo /\ steps[i].at = "mark"
      BY <1>9 DEF FirstOf, RowMark
    <2>3. CASE i # j
      BY <1>2, <2>1, <2>3 DEF Goto, Moves
    <2>4. CASE i = j
      BY <1>2, <2>1, <2>2, <2>4 DEF Goto, Marked, Moves
    <2> QED
      BY <2>3, <2>4
  <1>10. CASE CancelJob(i) \/ FailJob(i) \/ RestoreRequest(i) \/ EpilogueDone(i)
    BY <1>1, <1>3, <1>10 DEF CancelJob, FailJob, RestoreRequest, EpilogueDone
  <1>11. CASE CheckpointStart(i) \/ CheckpointPost(i) \/ CheckpointStamp(i) \/ FinalizeStatus(i)
    BY <1>1, <1>3, <1>11 DEF CheckpointStart, CheckpointPost, CheckpointStamp, FinalizeStatus
  <1>12. CASE PublishStart(i) \/ Publish(i) \/ PublishStamp(i) \/ FinalizeJob(i)
    BY <1>1, <1>3, <1>12 DEF PublishStart, Publish, PublishStamp, FinalizeJob
  <1> QED
    BY <1>4, <1>5, <1>6, <1>7, <1>8, <1>9, <1>10, <1>11, <1>12 DEF Step

LEMMA OtherMoves ==
  ASSUME TypeOK, NEW j \in Jobs, Next, \A i \in Jobs : ~Step(i) PROVE Moves(j)
  <1> DEFINE Calm == Pcs \ {"detect", "row", "write", "mark"}
  <1>1. steps \in [Jobs -> Instance]
    BY Types
  <1>2. "plan" \in Calm /\ "fail" \in Calm
    BY DEF Pcs, Running, PlanStep, FailStep
  <1>3. ASSUME NEW i \in Jobs, NEW pc \in Calm, Goto(i, pc), rows' = rows PROVE Moves(j)
    BY <1>3, GotoMoves DEF Moves
  <1>4. ASSUME NEW i \in Jobs, Launch(i), rows' = rows PROVE Moves(j)
    BY <1>1, <1>2, <1>4 DEF Launch, Moves
  <1>5. CASE rows' = rows /\ steps' = steps
    BY <1>5 DEF Moves
  <1>6. CASE Redrive /\ rows' = rows
    <2>1. CASE Driverless = {}
      BY <1>5, <1>6, <2>1 DEF Redrive
    <2>2. CASE Driverless # {}
      BY <1>4, <1>6, <2>2 DEF Redrive, Driverless
    <2> QED
      BY <2>1, <2>2
  <1>7. ASSUME NEW i \in Jobs, Fault(i) PROVE Moves(j)
    <2>1. CASE RowCollides(i) \/ RowFails(i)
      <3>1. rows' = rows /\ steps[i].at = "write"
        BY <2>1 DEF RowCollides, RowFails
      <3>2. PICK outcome, n : Settle(i, outcome, n)
        BY <2>1 DEF RowCollides, RowFails
      <3> QED
        BY <1>1, <3>1, <3>2, SettleMoves DEF Moves
    <2>2. CASE StepDies(i)
      <3>1. StartOf(i) \in Calm
        BY <2>2 DEF StepDies, StartOf, StepBefore, Pcs, Running, PlanStep, ChunkStep,
                    CheckpointStep, PublishStep, CancelStep, FailStep
      <3> QED
        BY <1>3, <2>2, <3>1 DEF StepDies
    <2>3. CASE StepGivesUp(i)
      BY <1>2, <1>3, <2>3 DEF StepGivesUp
    <2> QED
      BY <1>7, <2>1, <2>2, <2>3 DEF Fault
  <1>8. ASSUME NEW i \in Jobs, Execute(i) \/ Handle(i) \/ CreateWorkflowFails(i) \/ RouteDies(i)
                                \/ RequestCancel(i)
        PROVE  Moves(j)
    <2>1. rows' = rows /\ (steps' = steps \/ Redrive \/ Launch(i))
      BY <1>8 DEF Execute, Handle, Claim, Adopt, CreateJob, ReleaseClaim, CreateWorkflow, UndoJob,
         UndoClaim, CreateWorkflowFails, RouteDies, RequestCancel
    <2> QED
      BY <1>4, <1>5, <1>6, <2>1
  <1>9. CASE AnswerBusy \/ PatchCheck \/ PatchStatus \/ \E d \in Docs : SourceMoves(d) \/ TargetEdit(d)
    <2>1. rows' = rows /\ (steps' = steps \/ Redrive)
      BY <1>9 DEF AnswerBusy, PatchCheck, PatchStatus, SourceMoves, TargetEdit
    <2> QED
      BY <1>5, <1>6, <2>1
  <1> QED
    BY <1>7, <1>8, <1>9 DEF Next

LEMMA NextMoves ==
  ASSUME TypeOK, MergeAssumption, NEW j \in Jobs, [Next]_vars PROVE Moves(j)
  <1>1. CASE UNCHANGED vars
    BY <1>1 DEF vars, Moves
  <1>2. CASE Next
    BY <1>2, StepMoves, OtherMoves
  <1> QED
    BY <1>1, <1>2

\* The inductive invariant of the ledger.
LedgerInv == TypeOK /\ \A j \in Jobs : Unplanned(j) /\ Claimed(j)

LedgerStep(j) == \A d \in Docs :
  /\ Planned(j) # {} => /\ rows'[j][d].kind = rows[j][d].kind
                        /\ rows'[j][d].from = rows[j][d].from
  /\ rows[j][d].status # "pending" => rows'[j][d] = rows[j][d]

LEMMA MovesKeepLedger ==
  ASSUME TypeOK, NEW j \in Jobs, Unplanned(j), Claimed(j), Moves(j)
  PROVE  Unplanned(j)' /\ Claimed(j)' /\ LedgerStep(j)
  <1>1. /\ steps[j] \in Instance /\ steps[j].todo \subseteq Docs
        /\ \A d \in Docs : rows[j][d] \in Row
        /\ rows \in [Jobs -> [Docs -> Row]] /\ rows[j] \in [Docs -> Row]
    BY Types DEF Instance
  <1>2. CASE rows'[j] = rows[j]
              /\ (steps'[j] = steps[j]
                   \/ \E pc \in Pcs \ {"detect", "row", "write", "mark"} : steps'[j] = At(pc))
    <2>1. Planned(j)' = Planned(j) /\ Pending(j)' = Pending(j)
      BY <1>2 DEF Planned, Pending
    <2>2. steps'[j] = steps[j] \/ steps'[j].at \notin {"detect", "row", "write", "mark"}
      BY <1>2, AtType
    <2> QED
      BY <1>2, <2>1, <2>2 DEF Unplanned, Claimed, LedgerStep
  <1>3. CASE /\ rows'[j] = rows[j] /\ Planned(j) = {} /\ request.status = "merging"
             /\ steps'[j] = At("detect")
    BY <1>3 DEF Unplanned, Claimed, LedgerStep, Planned, At
  <1>4. CASE steps[j].at = "detect" /\ Fresh(j) /\ steps'[j] = At("run")
    <2>1. \A d \in Docs : PlannedRow(j, d).status = "pending"
      BY DEF PlannedRow, NoRow
    <2>2. steps'[j].at = "run"
      BY <1>4 DEF At
    <2> QED
      BY <1>4, <2>1, <2>2 DEF Unplanned, Claimed, LedgerStep, Fresh, Planned
  <1>5. CASE /\ rows'[j] = rows[j]
             /\ \E claim \in SUBSET Pending(j) : steps'[j] = [At("row") EXCEPT !.todo = claim]
    BY <1>5 DEF Unplanned, Claimed, LedgerStep, Planned, Pending, At
  <1>6. CASE /\ rows'[j] = rows[j] /\ steps[j].at \in {"row", "write"}
             /\ steps'[j].at \in {"write", "mark"} /\ steps'[j].todo = steps[j].todo
    BY <1>6 DEF Unplanned, Claimed, LedgerStep, Planned, Pending
  <1>7. CASE steps[j].at = "mark" /\ Marked(j)
    <2>1. PICK d \in FirstOf(steps[j].todo) :
            /\ rows'[j] = [rows[j] EXCEPT ![d] =
                   [rows[j][d] EXCEPT !.status = steps[j].outcome, !.result = steps[j].result]]
            /\ \/ steps'[j] = [At("row") EXCEPT !.todo = steps[j].todo \ {d}]
               \/ steps'[j] = At("checkpoint") \/ steps'[j] = At("chunk")
      BY <1>7 DEF Marked
    <2>2. d \in Docs /\ rows[j][d].kind # "none" /\ rows[j][d].status = "pending"
      BY <1>7, <2>1 DEF Claimed, Pending, FirstOf
    <2>3. /\ rows'[j][d].kind = rows[j][d].kind /\ rows'[j][d].from = rows[j][d].from
          /\ \A e \in Docs \ {d} : rows'[j][e] = rows[j][e]
      BY <1>1, <2>1, <2>2 DEF Row
    <2>4. LedgerStep(j)
      BY <2>2, <2>3 DEF LedgerStep
    <2>5. Unplanned(j)'
      BY <2>1, <2>2, <2>3 DEF Unplanned, At
    <2>6. Claimed(j)'
      BY <1>7, <2>1, <2>3 DEF Claimed, Pending, At
    <2> QED
      BY <2>4, <2>5, <2>6
  <1> QED
    BY <1>2, <1>3, <1>4, <1>5, <1>6, <1>7 DEF Moves

LEMMA LedgerInvHolds == Spec => []LedgerInv
  <1>1. Init => \A j \in Jobs : Unplanned(j) /\ Claimed(j)
    BY DEF Init, Unplanned, Claimed, NoRow, At, Planned
  <1>2. LedgerInv /\ [Next]_vars /\ TypeOK' => LedgerInv'
    <2> SUFFICES ASSUME LedgerInv, [Next]_vars, TypeOK' PROVE LedgerInv'
      OBVIOUS
    <2>1. ASSUME NEW j \in Jobs PROVE Unplanned(j)' /\ Claimed(j)'
      BY MergeAssumption, NextMoves, MovesKeepLedger DEF LedgerInv
    <2> QED
      BY <2>1 DEF LedgerInv
  <1>3. TypeOK /\ (\A j \in Jobs : Unplanned(j) /\ Claimed(j)) => LedgerInv
    BY DEF LedgerInv
  <1> QED
    BY <1>1, <1>2, <1>3, MergeTypeOK, PTL DEF Spec

\* What a job has frozen and what it has recorded stays, however often its steps
\* are run again, whatever moves and whoever else executes the request.
THEOREM MergeLedgerIsFinal == Spec => LedgerIsFinal
  <1>1. LedgerInv /\ [Next]_vars =>
          [\A j \in Jobs : \A d \in Docs :
             /\ Planned(j) # {} => /\ rows'[j][d].kind = rows[j][d].kind
                                   /\ rows'[j][d].from = rows[j][d].from
             /\ rows[j][d].status # "pending" => rows'[j][d] = rows[j][d]]_vars
    <2> SUFFICES ASSUME LedgerInv, [Next]_vars PROVE \A j \in Jobs : LedgerStep(j)
      BY DEF LedgerStep
    <2> QED
      BY MergeAssumption, NextMoves, MovesKeepLedger DEF LedgerInv
  <1> QED
    BY <1>1, LedgerInvHolds, PTL DEF Spec, LedgerIsFinal

-----------------------------------------------------------------------------
\* The target.  A row that is about to be written is not what is latest there as
\* this job's write of the same source version.

Unrepeated(j) ==
  steps[j].at = "write" =>
    \A d \in FirstOf(steps[j].todo) :
       rows[j][d].from # 0 => ~(Latest(d).by = j /\ Latest(d).from = rows[j][d].from)

ReplayInv == TypeOK /\ NoReplayedMerge /\ \A j \in Jobs : Unrepeated(j)

\* Versions are appended, one at a time, by editors and by jobs that write a row.
Grows(d) ==
  \/ target'[d] = target[d]
  \/ \E version \in Version : version.by = None /\ target'[d] = Append(target[d], version)
  \/ \E i \in Jobs : \E version \in Version :
       /\ steps[i].at = "write" /\ d \in FirstOf(steps[i].todo) /\ steps'[i].at = "mark"
       /\ version.by = i /\ version.from = rows[i][d].from /\ version.content \in {0, version.from}
       /\ target'[d] = Append(target[d], version)

LEMMA GrowsBy ==
  ASSUME TypeOK, NEW d \in Docs, NEW e \in Docs, NEW version \in Version, version.by = None,
         target' = [target EXCEPT ![e] = Append(@, version)]
  PROVE  Grows(d)
  <1>1. target \in [Docs -> Seq(Version)]
    BY Types
  <1> QED
    BY <1>1 DEF Grows

LEMMA RowWriteGrows ==
  ASSUME TypeOK, NEW d \in Docs, NEW i \in Jobs, RowWrite(i) PROVE Grows(d)
  <1>1. /\ target \in [Docs -> Seq(Version)] /\ steps \in [Jobs -> Instance]
        /\ rows \in [Jobs -> [Docs -> Row]] /\ steps[i].todo \subseteq Docs
    BY Types DEF Instance
  <1>2. PICK e \in FirstOf(steps[i].todo) :
          \/ target' = target
          \/ /\ target' = [target EXCEPT ![e] = Append(target[e],
                  [by |-> i, from |-> rows[i][e].from, content |-> Fetched(i, e)])]
             /\ Settle(i, "done", Len(target[e]) + 1)
    BY DEF RowWrite
  <1>3. steps[i].at = "write"
    BY DEF RowWrite
  <1>4. e \in Docs
    BY <1>1 DEF FirstOf
  <1> DEFINE version == [by |-> i, from |-> rows[i][e].from, content |-> Fetched(i, e)]
  <1>5. /\ version \in Version /\ version.by = i /\ version.from = rows[i][e].from
        /\ version.content \in {0, version.from}
    <2>1. rows[i][e] \in Row
      BY <1>1, <1>4
    <2>2. rows[i][e].from \in Nat
      BY <2>1 DEF Row
    <2>3. Fetched(i, e) \in Nat /\ Fetched(i, e) \in {0, rows[i][e].from}
      BY <2>2 DEF Fetched
    <2> QED
      BY <2>2, <2>3 DEF Version
  <1>6. CASE target' = target
    BY <1>6 DEF Grows
  <1>7. CASE target' = [target EXCEPT ![e] = Append(target[e], version)]
             /\ Settle(i, "done", Len(target[e]) + 1)
    <2>1. steps'[i].at = "mark"
      BY <1>1, <1>7 DEF Settle, Instance
    <2> HIDE DEF version
    <2>2. CASE d = e
      BY <1>1, <1>2, <1>3, <1>4, <1>5, <1>7, <2>1, <2>2 DEF Grows
    <2>3. CASE d # e
      BY <1>1, <1>4, <1>7, <2>3 DEF Grows
    <2> QED
      BY <2>2, <2>3
  <1> QED
    BY <1>2, <1>6, <1>7

LEMMA NextGrows ==
  ASSUME TypeOK, NEW d \in Docs, [Next]_vars PROVE Grows(d)
  <1>1. CASE target' = target
    BY <1>1 DEF Grows
  <1>2. \A content \in Nat : EditOf(content) \in Version /\ EditOf(content).by = None
    BY DEF EditOf, Version
  <1>3. ASSUME NEW i \in Jobs, Step(i) PROVE Grows(d)
    <2>1. CASE RowWrite(i)
      BY <2>1, RowWriteGrows
    <2>2. target' = target \/ RowWrite(i)
      BY <1>3 DEF Step, PlanStart, PlanBlocked, PlanBlock, PlanFreeze, PlanRun, ChunkStart,
         RowRead, RowMark, CancelJob, FailJob, RestoreRequest, EpilogueDone, CheckpointStart,
         CheckpointPost, CheckpointStamp, FinalizeStatus, PublishStart, Publish, PublishStamp,
         FinalizeJob
    <2> QED
      BY <1>1, <2>1, <2>2
  <1>4. ASSUME NEW i \in Jobs, Fault(i) PROVE Grows(d)
    <2>1. target' = target
      BY <1>4 DEF Fault, RowCollides, RowFails, StepDies, StepGivesUp
    <2> QED
      BY <1>1, <2>1
  <1>5. ASSUME NEW e \in Docs, TargetEdit(e) PROVE Grows(d)
    <2>1. PICK content \in {0, source[e]} :
            target' = [target EXCEPT ![e] = Append(target[e], EditOf(content))]
      BY <1>5 DEF TargetEdit
    <2>2. content \in Nat
      BY Types
    <2> QED
      BY <1>2, <2>1, <2>2, GrowsBy
  <1>6. ASSUME NEW i \in Jobs, Execute(i) \/ Handle(i) \/ CreateWorkflowFails(i) \/ RouteDies(i)
                                \/ RequestCancel(i)
        PROVE  target' = target
    BY <1>6 DEF Execute, Handle, Claim, Adopt, CreateJob, ReleaseClaim, CreateWorkflow, UndoJob,
       UndoClaim, CreateWorkflowFails, RouteDies, RequestCancel
  <1>7. CASE AnswerBusy \/ PatchCheck \/ PatchStatus \/ (\E e \in Docs : SourceMoves(e)) \/ UNCHANGED vars
    BY <1>1, <1>7 DEF AnswerBusy, PatchCheck, PatchStatus, SourceMoves, vars
  <1> QED
    BY <1>1, <1>3, <1>4, <1>5, <1>6, <1>7 DEF Next

\* A row is written or marked only by the steps of its job that do so.
RowStep(j) == RowRead(j) \/ RowWrite(j) \/ RowCollides(j) \/ RowFails(j)

LEMMA RowsAreStepped ==
  ASSUME TypeOK, MergeAssumption, NEW j \in Jobs, [Next]_vars, steps'[j].at \in {"write", "mark"}
  PROVE  RowStep(j) \/ (steps'[j] = steps[j] /\ rows'[j] = rows[j])
  <1>1. steps \in [Jobs -> Instance]
    BY Types
  <1>2. \A pc : At(pc).at = pc /\ \A todo : [At("row") EXCEPT !.todo = todo].at = "row"
    BY DEF At
  <1>3. ASSUME NEW pc, pc \notin {"write", "mark"}, NEW i \in Jobs, Goto(i, pc) PROVE steps'[j] = steps[j]
    BY <1>1, <1>2, <1>3 DEF Goto
  <1>4. ASSUME NEW i \in Jobs, Launch(i) PROVE steps'[j] = steps[j]
    BY <1>1, <1>2, <1>4 DEF Launch
  <1>5. ASSUME Redrive PROVE steps'[j] = steps[j]
    <2>1. Driverless \subseteq Jobs
      BY DEF Driverless
    <2> QED
      BY <1>4, <1>5, <2>1 DEF Redrive
  <1>6. ASSUME NEW i \in Jobs, NEW outcome, NEW n, Settle(i, outcome, n), i # j
        PROVE  steps'[j] = steps[j]
    BY <1>1, <1>6, SettleMoves
  <1>7. ASSUME NEW i \in Jobs, RowRead(i), i # j PROVE steps'[j] = steps[j]
    BY <1>1, <1>7 DEF RowRead, Settle
  <1>8. ASSUME NEW i \in Jobs, NEW todo, steps' = [steps EXCEPT ![i] = [At("row") EXCEPT !.todo = todo]]
        PROVE  steps'[j] = steps[j]
    BY <1>1, <1>2, <1>8
  <1>9. ASSUME NEW i \in Jobs, Step(i) PROVE RowStep(j) \/ steps'[j] = steps[j]
    <2>1. CASE PlanStart(i) \/ PlanBlocked(i) \/ PlanBlock(i) \/ PlanFreeze(i) \/ PlanRun(i)
      BY <1>3, <2>1 DEF PlanStart, PlanBlocked, PlanBlock, PlanFreeze, PlanRun
    <2>2. CASE ChunkStart(i)
      BY <1>3, <1>8, <2>2 DEF ChunkStart
    <2>3. CASE RowRead(i)
      BY <1>7, <2>3 DEF RowStep
    <2>4. CASE RowWrite(i)
      BY <1>6, <2>4 DEF RowWrite, RowStep
    <2>5. CASE RowMark(i)
      <3>1. PICK d \in FirstOf(steps[i].todo) :
              \/ steps' = [steps EXCEPT ![i] = [At("row") EXCEPT !.todo = steps[i].todo \ {d}]]
              \/ Goto(i, "checkpoint") \/ Goto(i, "chunk")
        BY <2>5 DEF RowMark
      <3> QED
        BY <1>3, <1>8, <3>1
    <2>6. CASE CancelJob(i) \/ FailJob(i) \/ RestoreRequest(i) \/ EpilogueDone(i)
      BY <1>3, <2>6 DEF CancelJob, FailJob, RestoreRequest, EpilogueDone
    <2>7. CASE CheckpointStart(i) \/ CheckpointPost(i) \/ CheckpointStamp(i) \/ FinalizeStatus(i)
      BY <1>3, <2>7 DEF CheckpointStart, CheckpointPost, CheckpointStamp, FinalizeStatus
    <2>8. CASE PublishStart(i) \/ Publish(i) \/ PublishStamp(i) \/ FinalizeJob(i)
      BY <1>3, <2>8 DEF PublishStart, Publish, PublishStamp, FinalizeJob
    <2> QED
      BY <1>9, <2>1, <2>2, <2>3, <2>4, <2>5, <2>6, <2>7, <2>8 DEF Step
  <1>10. ASSUME NEW i \in Jobs, Fault(i) PROVE RowStep(j) \/ steps'[j] = steps[j]
    <2>1. CASE RowCollides(i) \/ RowFails(i)
      BY <1>6, <2>1 DEF RowCollides, RowFails, RowStep
    <2>2. CASE StepDies(i)
      <3>1. StartOf(i) \notin {"write", "mark"}
        BY <2>2 DEF StepDies, StartOf, StepBefore, Running, PlanStep, ChunkStep,
                    CheckpointStep, PublishStep, CancelStep, FailStep
      <3> QED
        BY <1>3, <2>2, <3>1 DEF StepDies
    <2>3. CASE StepGivesUp(i)
      BY <1>3, <2>3 DEF StepGivesUp
    <2> QED
      BY <1>10, <2>1, <2>2, <2>3 DEF Fault
  <1>11. ASSUME NEW i \in Jobs, Execute(i) \/ Handle(i) \/ CreateWorkflowFails(i) \/ RouteDies(i)
                                \/ RequestCancel(i)
        PROVE  steps'[j] = steps[j]
    <2>1. steps' = steps \/ Redrive \/ Launch(i)
      BY <1>11 DEF Execute, Handle, Claim, Adopt, CreateJob, ReleaseClaim, CreateWorkflow, UndoJob,
         UndoClaim, CreateWorkflowFails, RouteDies, RequestCancel
    <2> QED
      BY <1>4, <1>5, <2>1
  <1>12. ASSUME \/ AnswerBusy \/ PatchCheck \/ PatchStatus \/ UNCHANGED vars
                \/ \E d \in Docs : SourceMoves(d) \/ TargetEdit(d)
         PROVE  steps'[j] = steps[j]
    <2>1. steps' = steps \/ Redrive
      BY <1>12 DEF AnswerBusy, PatchCheck, PatchStatus, SourceMoves, TargetEdit, vars
    <2> QED
      BY <1>5, <2>1
  <1>13. RowStep(j) \/ steps'[j] = steps[j]
    BY <1>9, <1>10, <1>11, <1>12 DEF Next
  <1>14. CASE steps'[j] = steps[j]
    <2>1. Moves(j)
      BY NextMoves
    <2>2. CASE steps'[j].at = "write"
      BY <1>14, <2>1, <2>2 DEF Moves
    <2>3. CASE steps'[j].at = "mark" /\ ~Marked(j)
      BY <1>14, <2>1, <2>3 DEF Moves
    <2>4. CASE steps'[j].at = "mark" /\ Marked(j)
      <3>1. steps'[j].at # "mark"
        BY <1>2, <2>4 DEF Marked
      <3> QED
        BY <2>4, <3>1
    <2> QED
      BY <2>2, <2>3, <2>4
  <1> QED
    BY <1>13, <1>14

\* A row is about to be written only when it has just been read.
LEMMA WritesAfterRead ==
  ASSUME TypeOK, MergeAssumption, NEW j \in Jobs, [Next]_vars, steps'[j].at = "write"
  PROVE  RowRead(j) \/ (steps'[j] = steps[j] /\ rows'[j] = rows[j])
  <1>1. CASE RowWrite(j) \/ RowCollides(j) \/ RowFails(j)
    <2>1. steps \in [Jobs -> Instance] /\ steps[j].at = "write"
      BY <1>1, Types DEF RowWrite, RowCollides, RowFails
    <2>2. PICK outcome, n : Settle(j, outcome, n)
      BY <1>1 DEF RowWrite, RowCollides, RowFails
    <2>3. steps'[j].at = "mark"
      BY <2>1, <2>2 DEF Settle, Instance
    <2> QED
      BY <2>3
  <1> QED
    BY <1>1, RowsAreStepped DEF RowStep

LEMMA FirstIsOne ==
  ASSUME MergeAssumption, NEW S \in SUBSET Docs, NEW d \in FirstOf(S), NEW e \in FirstOf(S)
  PROVE  d = e
  <1>1. d <= e /\ e <= d /\ d \in Nat /\ e \in Nat
    BY DEF FirstOf, MergeAssumption
  <1> QED
    BY <1>1

LEMMA UnrepeatedStep ==
  ASSUME TypeOK, MergeAssumption, NEW j \in Jobs, Unrepeated(j), [Next]_vars
  PROVE  Unrepeated(j)'
  <1> SUFFICES ASSUME steps'[j].at = "write", NEW d \in FirstOf(steps'[j].todo),
                      rows'[j][d].from # 0, Latest(d)'.by = j, Latest(d)'.from = rows'[j][d].from
               PROVE  FALSE
    BY DEF Unrepeated, FirstOf
  <1>1. /\ steps \in [Jobs -> Instance] /\ target \in [Docs -> Seq(Version)]
        /\ steps[j].todo \subseteq Docs /\ None \notin Jobs
    BY Types DEF Instance, MergeAssumption
  <1>2. CASE RowRead(j)
    <2>1. PICK e \in FirstOf(steps[j].todo) :
            \/ \E outcome, n : Settle(j, outcome, n)
            \/ /\ ~Probe(j, e)
               /\ steps' = [steps EXCEPT ![j].at = "write", ![j].seen = Len(target[e])]
      BY <1>2 DEF RowRead
    <2>2. ~ \E outcome, n : Settle(j, outcome, n)
      <3>1. steps[j].at = "row"
        BY <1>2 DEF RowRead
      <3>2. ASSUME NEW outcome, NEW n, Settle(j, outcome, n) PROVE FALSE
        BY <1>1, <3>1, <3>2, SettleMoves
      <3> QED
        BY <3>2
    <2>3. /\ ~Probe(j, e)
          /\ steps' = [steps EXCEPT ![j].at = "write", ![j].seen = Len(target[e])]
      BY <2>1, <2>2
    <2>4. steps'[j].todo = steps[j].todo /\ rows' = rows /\ target' = target
      BY <1>1, <1>2, <2>3 DEF RowRead, Instance
    <2>5. d = e
      BY <1>1, <2>1, <2>4, FirstIsOne
    <2>6. Latest(d)' = Latest(d)
      BY <2>4 DEF Latest, EditOf
    <2> QED
      BY <1>1, <2>3, <2>4, <2>5, <2>6 DEF Probe
  <1>3. CASE steps'[j] = steps[j] /\ rows'[j] = rows[j]
    <2>1. d \in Docs /\ d \in FirstOf(steps[j].todo) /\ Grows(d)
      BY <1>1, <1>3, NextGrows DEF FirstOf
    <2>2. CASE target'[d] = target[d]
      <3>1. Latest(d)' = Latest(d)
        BY <2>2 DEF Latest, EditOf
      <3> QED
        BY <1>3, <2>1, <3>1 DEF Unrepeated
    <2>3. ASSUME NEW version \in Version, target'[d] = Append(target[d], version)
          PROVE  Latest(d)' = version
      <3>1. target'[d] # <<>> /\ target'[d][Len(target'[d])] = version
        BY <1>1, <2>1, <2>3, AppendProperties
      <3> QED
        BY <3>1 DEF Latest
    <2> QED
      BY <1>1, <1>3, <2>1, <2>2, <2>3 DEF Grows
  <1> QED
    BY <1>2, <1>3, WritesAfterRead

LEMMA ReplayStep ==
  ASSUME ReplayInv, MergeAssumption, [Next]_vars PROVE NoReplayedMerge'
  <1> SUFFICES ASSUME NEW d \in Docs, NEW n \in 2..Len(target'[d]),
                      target'[d][n].by # None, target'[d][n].by = target'[d][n - 1].by,
                      target'[d][n].from = target'[d][n - 1].from, target'[d][n].from # 0
               PROVE  FALSE
    BY DEF NoReplayedMerge
  <1>1. target[d] \in Seq(Version) /\ Grows(d)
    BY Types, NextGrows DEF ReplayInv
  <1>2. CASE target'[d] = target[d]
    BY <1>2 DEF ReplayInv, NoReplayedMerge
  <1>3. ASSUME NEW version \in Version, target'[d] = Append(target[d], version)
        PROVE  n = Len(target[d]) + 1 /\ version.by # None /\ version.from # 0
               /\ Latest(d).by = version.by /\ Latest(d).from = version.from
    <2>1. /\ Len(target'[d]) = Len(target[d]) + 1 /\ Len(target[d]) \in Nat
          /\ \A k \in 1..Len(target[d]) : target'[d][k] = target[d][k]
          /\ target'[d][Len(target[d]) + 1] = version
      BY <1>1, <1>3, AppendProperties
    <2>2. CASE n \in 2..Len(target[d])
      <3>1. n - 1 \in 1..Len(target[d]) /\ n \in 1..Len(target[d])
        BY <2>1, <2>2
      <3> QED
        BY <2>1, <2>2, <3>1 DEF ReplayInv, NoReplayedMerge
    <2>3. CASE n = Len(target[d]) + 1
      <3>1. Len(target[d]) \in 1..Len(target[d]) /\ n - 1 = Len(target[d])
        BY <2>1, <2>3
      <3>2. target[d] # <<>>
        BY <1>1, <3>1
      <3>3. Latest(d) = target'[d][n - 1]
        BY <2>1, <3>1, <3>2 DEF Latest
      <3> QED
        BY <2>1, <2>3, <3>3
    <2> QED
      BY <2>1, <2>2, <2>3
  <1>4. ASSUME NEW i \in Jobs, NEW version \in Version, steps[i].at = "write",
               d \in FirstOf(steps[i].todo), version.by = i, version.from = rows[i][d].from,
               target'[d] = Append(target[d], version)
        PROVE  FALSE
    BY <1>3, <1>4 DEF ReplayInv, Unrepeated
  <1> QED
    BY <1>1, <1>2, <1>3, <1>4 DEF Grows

\* A job whose steps are run again, as often as they may be, does not write one
\* source version twice in a row: for any documents, jobs, chunk size and deaths.
THEOREM MergeIsNotReplayed == Spec => []NoReplayedMerge
  <1>1. Init => NoReplayedMerge /\ \A j \in Jobs : Unrepeated(j)
    <2>1. Init => \A d \in Docs : Len(target[d]) <= 1
      BY DEF Init
    <2>2. Init => \A j \in Jobs : steps[j].at = "none"
      BY DEF Init, At
    <2> QED
      BY <2>1, <2>2 DEF NoReplayedMerge, Unrepeated
  <1>2. ReplayInv /\ [Next]_vars /\ TypeOK' => ReplayInv'
    <2> SUFFICES ASSUME ReplayInv, [Next]_vars, TypeOK' PROVE ReplayInv'
      OBVIOUS
    <2>1. \A j \in Jobs : Unrepeated(j)'
      BY MergeAssumption, UnrepeatedStep DEF ReplayInv
    <2> QED
      BY <2>1, MergeAssumption, ReplayStep DEF ReplayInv
  <1>3. TypeOK /\ NoReplayedMerge /\ (\A j \in Jobs : Unrepeated(j)) => ReplayInv
    BY DEF ReplayInv
  <1>4. ReplayInv => NoReplayedMerge
    BY DEF ReplayInv
  <1> QED
    BY <1>1, <1>2, <1>3, <1>4, MergeTypeOK, PTL DEF Spec

-----------------------------------------------------------------------------
\* What a job has checkpointed and published.  Once no row is pending or has failed,
\* no row changes any more, so both checkpoints capture the same versions.

Captured(j) ==
  /\ posted[j] # {} => IsFinalizable(j) /\ posted[j] = DoneEntries(j)
  /\ jobs[j].posted => posted[j] # {}
  /\ live[j] # {} => live[j] = posted[j]
  /\ steps[j].at \in {"post", "stampPost"} => IsFinalizable(j) /\ DoneEntries(j) # {}
  /\ steps[j].at = "stampPost" => posted[j] = DoneEntries(j)
  /\ steps[j].at \in {"status", "publish", "release", "stampPublish", "finish"} /\ IsFinalizable(j)
       => DoneEntries(j) = {} \/ posted[j] = DoneEntries(j)
  /\ steps[j].at \in {"publish", "release", "stampPublish"} => IsFinalizable(j)

CaptureInv == LedgerInv /\ \A j \in Jobs : Captured(j)

Late == {"post", "stampPost", "status", "publish", "release", "stampPublish", "finish"}

\* Everything but a finalize step leaves a job's captures and stamps alone.
Quiet(j) ==
  /\ posted'[j] = posted[j] /\ live'[j] = live[j]
  /\ jobs'[j].posted => jobs[j].posted
  /\ steps'[j] = steps[j] \/ steps'[j].at \notin Late

Finalizes(j) ==
  \/ CheckpointStart(j) \/ CheckpointPost(j) \/ CheckpointStamp(j) \/ FinalizeStatus(j)
  \/ PublishStart(j) \/ Publish(j) \/ PublishStamp(j) \/ StepDies(j)

LEMMA StatusQuiet ==
  ASSUME TypeOK, NEW i \in Jobs, NEW j \in Jobs, NEW status,
         SetStatus(i, status) \/ jobs' = jobs
         \/ jobs' = [jobs EXCEPT ![i].started = TRUE, ![i].status = status]
         \/ jobs' = [jobs EXCEPT ![i].status = status, ![i].started = TRUE]
         \/ jobs' = [jobs EXCEPT ![i].cancelRequested = TRUE]
         \/ jobs' = [jobs EXCEPT ![i].published = TRUE]
  PROVE  /\ jobs'[j].posted = jobs[j].posted /\ jobs'[j].strategy = jobs[j].strategy
         /\ jobs'[j].prior = jobs[j].prior
         /\ jobs'[j].status = jobs[j].status \/ jobs'[j].status = status
  <1>1. jobs \in [Jobs -> Job] /\ jobs[j] \in Job
    BY Types
  <1> QED
    BY <1>1 DEF SetStatus, Job

LEMMA FinalizesOnlyOwn ==
  ASSUME TypeOK, NEW i \in Jobs, NEW j \in Jobs, i # j, Finalizes(i) PROVE Quiet(j)
  <1>1. /\ jobs \in [Jobs -> Job] /\ steps \in [Jobs -> Instance]
        /\ posted \in [Jobs -> SUBSET (Docs \X Nat)] /\ live \in [Jobs -> SUBSET (Docs \X Nat)]
    BY Types
  <1>2. steps'[j] = steps[j]
    BY <1>1 DEF Finalizes, CheckpointStart, CheckpointPost, CheckpointStamp, FinalizeStatus,
       PublishStart, Publish, PublishStamp, StepDies, Goto
  <1>3. posted'[j] = posted[j] /\ live'[j] = live[j]
    BY <1>1 DEF Finalizes, CheckpointStart, CheckpointPost, CheckpointStamp, FinalizeStatus,
       PublishStart, Publish, PublishStamp, StepDies
  <1>4. jobs'[j] = jobs[j]
    BY <1>1 DEF Finalizes, CheckpointStart, CheckpointPost, CheckpointStamp, FinalizeStatus,
       PublishStart, Publish, PublishStamp, StepDies, SetStatus
  <1> QED
    BY <1>2, <1>3, <1>4 DEF Quiet

LEMMA GotoQuiet ==
  ASSUME TypeOK, NEW i \in Jobs, NEW j \in Jobs, NEW pc, pc \notin Late, Goto(i, pc)
  PROVE  steps'[j] = steps[j] \/ steps'[j].at \notin Late
  BY Types DEF Goto, At

LEMMA LaunchQuiet ==
  ASSUME TypeOK, NEW i \in Jobs, NEW j \in Jobs, Launch(i)
  PROVE  steps'[j] = steps[j] \/ steps'[j].at \notin Late
  BY Types DEF Launch, At, Late

LEMMA RedriveQuiet ==
  ASSUME TypeOK, NEW j \in Jobs, Redrive
  PROVE  steps'[j] = steps[j] \/ steps'[j].at \notin Late
  BY LaunchQuiet DEF Redrive, Driverless

LEMMA StepQuiet ==
  ASSUME TypeOK, NEW i \in Jobs, NEW j \in Jobs, Step(i), ~Finalizes(i) PROVE Quiet(j)
  <1>1. posted' = posted /\ live' = live
    BY DEF Step, Finalizes, PlanStart, PlanBlocked, PlanBlock, PlanFreeze, PlanRun, ChunkStart,
       RowRead, RowWrite, RowMark, CancelJob, FailJob, RestoreRequest, EpilogueDone, FinalizeJob
  <1>2. jobs'[j].posted = jobs[j].posted
    <2>1. \/ jobs' = jobs \/ \E status : SetStatus(i, status)
          \/ \E status : jobs' = [jobs EXCEPT ![i].started = TRUE, ![i].status = status]
          \/ \E status : jobs' = [jobs EXCEPT ![i].status = status, ![i].started = TRUE]
      BY DEF Step, Finalizes, PlanStart, PlanBlocked, PlanBlock, PlanFreeze, PlanRun, ChunkStart,
         RowRead, RowWrite, RowMark, CancelJob, FailJob, RestoreRequest, EpilogueDone, FinalizeJob
    <2>2. ASSUME NEW status,
                 \/ SetStatus(i, status)
                 \/ jobs' = [jobs EXCEPT ![i].started = TRUE, ![i].status = status]
                 \/ jobs' = [jobs EXCEPT ![i].status = status, ![i].started = TRUE]
          PROVE  jobs'[j].posted = jobs[j].posted
      BY <2>2, StatusQuiet
    <2> QED
      BY <2>1, <2>2
  <1>3. steps'[j] = steps[j] \/ steps'[j].at \notin Late
    <2>1. ASSUME NEW outcome, NEW n, Settle(i, outcome, n)
          PROVE  steps'[j] = steps[j] \/ steps'[j].at \notin Late
      BY <2>1, Types, SettleMoves DEF Late
    <2>2. ASSUME NEW todo, steps' = [steps EXCEPT ![i] = [At("row") EXCEPT !.todo = todo]]
          PROVE  steps'[j] = steps[j] \/ steps'[j].at \notin Late
      BY <2>2, Types DEF Late, At
    <2>3. ASSUME NEW n, steps' = [steps EXCEPT ![i].at = "write", ![i].seen = n]
          PROVE  steps'[j] = steps[j] \/ steps'[j].at \notin Late
      BY <2>3, Types, WriteMoves DEF Late
    <2>4. {"ended", "chunk", "detect", "block", "run", "plan", "cancel", "checkpoint",
           "restoreCancelled", "restoreFailed", "cancelled", "failed"} \cap Late = {}
      BY DEF Late
    <2>5. CASE PlanStart(i) \/ PlanBlocked(i) \/ PlanBlock(i) \/ PlanFreeze(i) \/ PlanRun(i)
      BY <2>4, <2>5, GotoQuiet DEF PlanStart, PlanBlocked, PlanBlock, PlanFreeze, PlanRun
    <2>6. CASE ChunkStart(i)
      BY <2>2, <2>4, <2>6, GotoQuiet DEF ChunkStart
    <2>7. CASE RowRead(i)
      BY <2>1, <2>3, <2>7 DEF RowRead
    <2>8. CASE RowWrite(i)
      BY <2>1, <2>8 DEF RowWrite
    <2>9. CASE RowMark(i)
      <3>1. PICK d \in FirstOf(steps[i].todo) :
              \/ steps' = [steps EXCEPT ![i] = [At("row") EXCEPT !.todo = steps[i].todo \ {d}]]
              \/ Goto(i, "checkpoint") \/ Goto(i, "chunk")
        BY <2>9 DEF RowMark
      <3> QED
        BY <2>2, <2>4, <3>1, GotoQuiet
    <2>10. CASE CancelJob(i) \/ FailJob(i) \/ RestoreRequest(i) \/ EpilogueDone(i) \/ FinalizeJob(i)
      BY <2>4, <2>10, GotoQuiet DEF CancelJob, FailJob, RestoreRequest, EpilogueDone, FinalizeJob
    <2> QED
      BY <2>5, <2>6, <2>7, <2>8, <2>9, <2>10 DEF Step, Finalizes
  <1> QED
    BY <1>1, <1>2, <1>3 DEF Quiet

LEMMA OtherQuiet ==
  ASSUME TypeOK, NEW j \in Jobs, [Next]_vars, \A i \in Jobs : ~Step(i) /\ ~Finalizes(i)
  PROVE  Quiet(j)
  <1>1. posted' = posted /\ live' = live
    BY DEF Next, Fault, Finalizes, RowCollides, RowFails, StepGivesUp, RequestCancel, Execute, Handle,
       Claim, Adopt, CreateJob, ReleaseClaim, CreateWorkflow, UndoJob, UndoClaim,
       CreateWorkflowFails, RouteDies, AnswerBusy, SourceMoves, TargetEdit, PatchCheck,
       PatchStatus, vars
  <1>2. jobs'[j].posted => jobs[j].posted
    <2>1. ASSUME NEW i \in Jobs, CreateJob(i) PROVE jobs'[j].posted => jobs[j].posted
      BY <2>1, Types DEF CreateJob, NoJob
    <2>2. \/ jobs' = jobs
          \/ \E i \in Jobs : \/ CreateJob(i) \/ SetStatus(i, "failed")
                            \/ jobs' = [jobs EXCEPT ![i].cancelRequested = TRUE]
      BY DEF Next, Fault, Finalizes, RowCollides, RowFails, StepGivesUp, RequestCancel, Execute, Handle,
         Claim, Adopt, ReleaseClaim, CreateWorkflow, UndoJob, UndoClaim,
         CreateWorkflowFails, RouteDies, AnswerBusy, SourceMoves, TargetEdit, PatchCheck,
         PatchStatus, vars
    <2> QED
      BY <2>1, <2>2, StatusQuiet
  <1>3. steps'[j] = steps[j] \/ steps'[j].at \notin Late
    <2>1. "fail" \notin Late
      BY DEF Late
    <2>2. ASSUME NEW i \in Jobs, NEW outcome, NEW n, Settle(i, outcome, n)
          PROVE  steps'[j] = steps[j] \/ steps'[j].at \notin Late
      BY <2>2, Types, SettleMoves DEF Late
    <2>3. \/ steps' = steps \/ Redrive
          \/ \E i \in Jobs : \/ Launch(i) \/ Goto(i, "fail")
                            \/ \E outcome, n : Settle(i, outcome, n)
      BY DEF Next, Fault, Finalizes, RowCollides, RowFails, StepGivesUp, RequestCancel, Execute, Handle,
         Claim, Adopt, CreateJob, ReleaseClaim, CreateWorkflow, UndoJob, UndoClaim,
         CreateWorkflowFails, RouteDies, AnswerBusy, SourceMoves, TargetEdit, PatchCheck,
         PatchStatus, vars
    <2> QED
      BY <2>1, <2>2, <2>3, GotoQuiet, LaunchQuiet, RedriveQuiet
  <1> QED
    BY <1>1, <1>2, <1>3 DEF Quiet

LEMMA NextCaptures ==
  ASSUME TypeOK, NEW j \in Jobs, [Next]_vars PROVE Quiet(j) \/ Finalizes(j)
  <1>1. ASSUME NEW i \in Jobs, Finalizes(i) PROVE Quiet(j) \/ Finalizes(j)
    BY <1>1, FinalizesOnlyOwn
  <1>2. ASSUME NEW i \in Jobs, Step(i), ~Finalizes(i) PROVE Quiet(j)
    BY <1>2, StepQuiet
  <1> QED
    BY <1>1, <1>2, OtherQuiet

LEMMA RowsOf ==
  ASSUME NEW j \in Jobs, rows'[j] = rows[j]
  PROVE  /\ Planned(j)' = Planned(j) /\ Pending(j)' = Pending(j) /\ Failed(j)' = Failed(j)
         /\ DoneEntries(j)' = DoneEntries(j) /\ IsFinalizable(j)' = IsFinalizable(j)
  <1>1. /\ Planned(j)' = Planned(j) /\ Pending(j)' = Pending(j) /\ Failed(j)' = Failed(j)
    BY DEF Planned, Pending, Failed
  <1> QED
    BY <1>1 DEF DoneEntries, IsFinalizable

\* A work list that can be finalized is frozen for good; an empty one, until it is
\* planned.
LEMMA Frozen ==
  ASSUME TypeOK, NEW j \in Jobs, Unplanned(j), Claimed(j), Moves(j), IsFinalizable(j)
  PROVE  rows'[j] = rows[j] \/ (Planned(j) = {} /\ steps[j].at = "detect" /\ steps'[j].at = "run")
  <1>1. CASE steps[j].at = "detect" /\ Fresh(j) /\ steps'[j] = At("run")
    BY <1>1 DEF Unplanned, At
  <1>2. CASE steps[j].at = "mark" /\ Marked(j)
    BY <1>2 DEF Claimed, Marked, IsFinalizable, FirstOf
  <1> QED
    BY <1>1, <1>2 DEF Moves

LEMMA Unfinished ==
  ASSUME NEW j \in Jobs, Planned(j) = {} PROVE DoneEntries(j) = {}
  BY DEF DoneEntries

LEMMA QuietCaptures ==
  ASSUME TypeOK, NEW j \in Jobs, Unplanned(j), Claimed(j), Moves(j), Quiet(j), Captured(j)
  PROVE  Captured(j)'
  <1>1. CASE rows'[j] = rows[j]
    BY <1>1, RowsOf DEF Quiet, Captured, Late
  <1>2. CASE rows'[j] # rows[j]
    <2>1. posted[j] = {}
      BY <1>2, Frozen, Unfinished DEF Captured
    <2>2. steps'[j].at \notin Late
      <3>1. steps[j].at \in {"detect", "mark"}
        BY <1>2 DEF Moves
      <3> QED
        BY <3>1 DEF Quiet, Late
    <2> QED
      BY <2>1, <2>2 DEF Quiet, Captured, Late
  <1> QED
    BY <1>1, <1>2

LEMMA FinalizeCaptures ==
  ASSUME TypeOK, NEW j \in Jobs, Finalizes(j), Captured(j) PROVE Captured(j)'
  <1>1. /\ jobs \in [Jobs -> Job] /\ steps \in [Jobs -> Instance]
        /\ posted \in [Jobs -> SUBSET (Docs \X Nat)] /\ live \in [Jobs -> SUBSET (Docs \X Nat)]
    BY Types
  <1>2. rows' = rows
    BY DEF Finalizes, CheckpointStart, CheckpointPost, CheckpointStamp, FinalizeStatus,
       PublishStart, Publish, PublishStamp, StepDies
  <1>3. /\ DoneEntries(j)' = DoneEntries(j) /\ IsFinalizable(j)' = IsFinalizable(j)
    BY <1>2, RowsOf
  <1>4. ASSUME NEW pc, Goto(j, pc) PROVE steps'[j].at = pc
    BY <1>1, <1>4 DEF Goto, At
  <1>5. CASE CheckpointStart(j)
    <2>1. posted' = posted /\ live' = live /\ jobs'[j].posted = jobs[j].posted
      BY <1>5, StatusQuiet DEF CheckpointStart
    <2>2. \/ steps'[j].at = "status" /\ (jobs[j].posted \/ ~IsFinalizable(j) \/ DoneEntries(j) = {})
          \/ steps'[j].at = "post" /\ IsFinalizable(j) /\ DoneEntries(j) # {}
          \/ steps'[j].at = "fail"
      BY <1>4, <1>5 DEF CheckpointStart
    <2> QED
      BY <1>3, <2>1, <2>2 DEF Captured
  <1>6. CASE CheckpointPost(j)
    <2>1. /\ posted'[j] = DoneEntries(j) /\ live' = live /\ jobs' = jobs
          /\ steps[j].at = "post" /\ steps'[j].at = "stampPost"
      BY <1>1, <1>4, <1>6 DEF CheckpointPost
    <2> QED
      BY <1>3, <2>1 DEF Captured
  <1>7. CASE CheckpointStamp(j)
    <2>1. /\ posted' = posted /\ live' = live
          /\ steps[j].at = "stampPost" /\ steps'[j].at = "status"
      BY <1>1, <1>4, <1>7 DEF CheckpointStamp
    <2> QED
      BY <1>3, <2>1 DEF Captured
  <1>8. CASE FinalizeStatus(j)
    <2>1. /\ posted' = posted /\ live' = live /\ jobs' = jobs /\ steps[j].at = "status"
          /\ steps'[j].at = IF IsFinalizable(j) THEN "publish" ELSE "finish"
      BY <1>1, <1>4, <1>8 DEF FinalizeStatus
    <2> QED
      BY <1>3, <2>1 DEF Captured
  <1>9. CASE PublishStart(j)
    <2>1. /\ posted' = posted /\ live' = live /\ jobs' = jobs /\ steps[j].at = "publish"
          /\ steps'[j].at \in {"finish", "release"}
      BY <1>1, <1>4, <1>9 DEF PublishStart
    <2> QED
      BY <1>3, <2>1 DEF Captured
  <1>10. CASE Publish(j)
    <2>1. /\ posted' = posted /\ jobs' = jobs /\ steps[j].at = "release"
          /\ \/ live'[j] = DoneEntries(j) /\ steps'[j].at \in {"stampPublish", "finish"}
             \/ live' = live /\ steps'[j].at = "finish"
      BY <1>1, <1>4, <1>10 DEF Publish
    <2> QED
      BY <1>3, <2>1 DEF Captured
  <1>11. CASE PublishStamp(j)
    <2>1. /\ posted' = posted /\ live' = live /\ jobs'[j].posted = jobs[j].posted
          /\ steps[j].at = "stampPublish" /\ steps'[j].at = "finish"
      BY <1>1, <1>4, <1>11, StatusQuiet DEF PublishStamp
    <2> QED
      BY <1>3, <2>1 DEF Captured
  <1>12. CASE StepDies(j)
    <2>1. posted' = posted /\ live' = live /\ jobs' = jobs /\ steps'[j].at = StartOf(j)
      BY <1>4, <1>12 DEF StepDies
    <2>2. /\ StartOf(j) \notin {"post", "stampPost", "release", "stampPublish", "finish"}
          /\ StartOf(j) = "status" => steps[j].at \in {"publish", "finish"}
          /\ StartOf(j) = "publish" => \/ steps[j].at \in {"release", "stampPublish"}
                                       \/ steps[j].at = "finish" /\ IsFinalizable(j)
      BY <1>12 DEF StepDies, StartOf, StepBefore, Running, PlanStep, ChunkStep, CheckpointStep,
                   PublishStep, CancelStep, FailStep
    <2> QED
      BY <1>3, <2>1, <2>2 DEF Captured
  <1> QED
    BY <1>5, <1>6, <1>7, <1>8, <1>9, <1>10, <1>11, <1>12 DEF Finalizes

LEMMA CaptureInvHolds == Spec => []CaptureInv
  <1>1. Init => \A j \in Jobs : Captured(j)
    BY DEF Init, Captured, NoJob, At
  <1>2. CaptureInv /\ [Next]_vars /\ LedgerInv' => CaptureInv'
    <2> SUFFICES ASSUME CaptureInv, [Next]_vars, LedgerInv' PROVE CaptureInv'
      OBVIOUS
    <2>1. ASSUME NEW j \in Jobs PROVE Captured(j)'
      BY MergeAssumption, NextMoves, NextCaptures, QuietCaptures, FinalizeCaptures
         DEF CaptureInv, LedgerInv
    <2> QED
      BY <2>1 DEF CaptureInv
  <1>3. LedgerInv /\ (\A j \in Jobs : Captured(j)) => CaptureInv
    BY DEF CaptureInv
  <1> QED
    BY <1>1, <1>2, <1>3, LedgerInvHolds, PTL DEF Spec

\* A job publishes nothing but what its post_merge checkpoint has, and only when
\* every document succeeded: dead steps, stamps that were lost and lists that a
\* later step reads again do not come between the two checkpoints.
THEOREM MergePublishesItsCheckpoint == Spec => []PublishedIsCheckpointed
  <1>1. CaptureInv => PublishedIsCheckpointed
    BY DEF CaptureInv, Captured, PublishedIsCheckpointed
  <1> QED
    BY <1>1, CaptureInvHolds, PTL

-----------------------------------------------------------------------------
\* What a job asks for is settled before its instance exists.

Asks(j) ==
  /\ \A d \in Docs : rows[j][d].from # 0 => rows[j][d].kind # "none"
  /\ \A d \in Docs : rows[j][d].from # 0 /\ rows[j][d].kind = "conflict"
                       => jobs[j].strategy = "take-source"
  /\ jobs[j].status = "none" => Planned(j) = {} /\ steps[j].at = "none"
  /\ routes[j].at = "claimed" => jobs[j].status = "none"
  /\ routes[j].at \in {"inserted", "undo", "restoreUndone"} => jobs[j].status # "none"

\* Who changes a job, whether it is created aside.
JobMoves(j) ==
  /\ jobs'[j].strategy = jobs[j].strategy
  /\ \/ jobs'[j].status = jobs[j].status
     \/ jobs'[j].status # "none" /\ (steps[j].at # "none" \/ routes[j].at = "undo")

LEMMA NextJobs ==
  ASSUME TypeOK, NEW j \in Jobs, [Next]_vars PROVE CreateJob(j) \/ JobMoves(j)
  <1>1. jobs \in [Jobs -> Job]
    BY Types
  <1>2. ASSUME jobs' = jobs PROVE JobMoves(j)
    BY <1>2 DEF JobMoves
  <1>3. ASSUME NEW i \in Jobs, NEW status \in Active \cup Terminal,
               steps[i].at # "none" \/ routes[i].at = "undo",
               \/ SetStatus(i, status)
               \/ jobs' = [jobs EXCEPT ![i].started = TRUE, ![i].status = status]
               \/ jobs' = [jobs EXCEPT ![i].status = status, ![i].started = TRUE]
        PROVE  JobMoves(j)
    BY <1>1, <1>3 DEF SetStatus, JobMoves, Active, Terminal, Job
  <1>4. ASSUME NEW i \in Jobs, \/ jobs' = [jobs EXCEPT ![i].posted = TRUE]
                              \/ jobs' = [jobs EXCEPT ![i].published = TRUE]
                              \/ jobs' = [jobs EXCEPT ![i].cancelRequested = TRUE]
        PROVE  JobMoves(j)
    BY <1>1, <1>4 DEF JobMoves, Job
  <1>5. ASSUME NEW i \in Jobs, Step(i) PROVE JobMoves(j)
    <2>1. CASE PlanStart(i)
      <3>1. \/ jobs' = jobs
            \/ \E status \in Active \cup Terminal :
                  \/ jobs' = [jobs EXCEPT ![i].status = status, ![i].started = TRUE]
                  \/ jobs' = [jobs EXCEPT ![i].started = TRUE, ![i].status = status]
        BY <1>1, <2>1 DEF PlanStart, Active, Terminal
      <3>2. steps[i].at # "none"
        BY <2>1 DEF PlanStart
      <3>3. ASSUME NEW status \in Active \cup Terminal,
                   \/ jobs' = [jobs EXCEPT ![i].status = status, ![i].started = TRUE]
                   \/ jobs' = [jobs EXCEPT ![i].started = TRUE, ![i].status = status]
            PROVE  JobMoves(j)
        BY <1>3, <3>2, <3>3
      <3> QED
        BY <1>2, <3>1, <3>3
    <2>2. CASE PlanBlock(i) \/ PlanRun(i) \/ CancelJob(i) \/ FailJob(i) \/ CheckpointStart(i)
      <3>1. jobs' = jobs \/ SetStatus(i, "blocked_on_conflicts") \/ SetStatus(i, "running")
            \/ SetStatus(i, "cancelled") \/ SetStatus(i, "failed") \/ SetStatus(i, "finalizing")
        BY <2>2 DEF PlanBlock, PlanRun, CancelJob, FailJob, CheckpointStart
      <3>2. steps[i].at # "none"
        BY <2>2 DEF PlanBlock, PlanRun, CancelJob, FailJob, CheckpointStart
      <3> QED
        BY <1>2, <1>3, <3>1, <3>2 DEF Active, Terminal
    <2>3. CASE FinalizeJob(i)
      <3>1. SetStatus(i, "completed") \/ SetStatus(i, "completed_with_errors")
        BY <2>3 DEF FinalizeJob
      <3>2. steps[i].at # "none"
        BY <2>3 DEF FinalizeJob
      <3> QED
        BY <1>3, <3>1, <3>2 DEF Terminal
    <2>4. CASE CheckpointStamp(i) \/ PublishStamp(i)
      BY <1>4, <2>4 DEF CheckpointStamp, PublishStamp
    <2>5. CASE jobs' # jobs
      BY <1>5, <2>1, <2>2, <2>3, <2>4, <2>5 DEF Step, PlanBlocked, PlanFreeze, ChunkStart, RowRead, RowWrite,
         RowMark, RestoreRequest, EpilogueDone, CheckpointPost, FinalizeStatus, PublishStart, Publish
    <2> QED
      BY <1>2, <2>5
  <1>6. ASSUME NEW i \in Jobs, UndoJob(i) PROVE JobMoves(j)
    <2>1. SetStatus(i, "failed") /\ routes[i].at = "undo"
      BY <1>6 DEF UndoJob
    <2> QED
      BY <1>3, <2>1 DEF Terminal
  <1>7. ASSUME NEW i \in Jobs, RequestCancel(i) PROVE JobMoves(j)
    BY <1>4, <1>7 DEF RequestCancel
  <1>8. ASSUME NEW i \in Jobs, CreateJob(i), i # j PROVE JobMoves(j)
    BY <1>1, <1>8 DEF CreateJob, JobMoves
  <1>9. CASE jobs' # jobs
    BY <1>5, <1>6, <1>7, <1>8, <1>9 DEF Next, Fault, RowCollides, RowFails, StepDies, StepGivesUp, Execute,
       Handle, Claim, Adopt, ReleaseClaim, CreateWorkflow, UndoClaim, CreateWorkflowFails,
       RouteDies, AnswerBusy, SourceMoves, TargetEdit, PatchCheck, PatchStatus, vars
  <1> QED
    BY <1>2, <1>9

\* An instance is created only for a job whose row is there.
LEMMA NextLaunches ==
  ASSUME TypeOK, NEW j \in Jobs, [Next]_vars, steps[j].at = "none", steps'[j] # steps[j]
  PROVE  jobs[j].status # "none" \/ routes[j].at = "inserted"
  <1>1. steps \in [Jobs -> Instance]
    BY Types
  <1>2. ASSUME NEW i \in Jobs, steps[i].at # "none" PROVE i # j
    BY <1>2
  <1>3. ASSUME NEW i \in Jobs, NEW instance, steps' = [steps EXCEPT ![i] = instance] PROVE i = j
    BY <1>1, <1>3
  <1>4. ASSUME NEW i \in Jobs, Launch(i) PROVE i = j
    BY <1>1, <1>4 DEF Launch
  <1>5. ASSUME Redrive PROVE jobs[j].status # "none"
    BY <1>4, <1>5 DEF Redrive, Driverless
  <1>6. ASSUME NEW i \in Jobs, Step(i) \/ Fault(i) PROVE FALSE
    <2>1. steps[i].at # "none"
      BY <1>6 DEF Step, Fault, PlanStart, PlanBlocked, PlanBlock, PlanFreeze, PlanRun, ChunkStart,
         RowRead, RowWrite, RowMark, CancelJob, FailJob, RestoreRequest, EpilogueDone,
         CheckpointStart, CheckpointPost, CheckpointStamp, FinalizeStatus, PublishStart, Publish,
         PublishStamp, FinalizeJob, RowCollides, RowFails, StepDies, StepGivesUp, Running,
         PlanStep, ChunkStep, CheckpointStep, PublishStep, CancelStep, FailStep
    <2>2. PICK instance : steps' = [steps EXCEPT ![i] = instance]
      BY <1>6 DEF Step, Fault, PlanStart, PlanBlocked, PlanBlock, PlanFreeze, PlanRun, ChunkStart,
         RowRead, RowWrite, RowMark, CancelJob, FailJob, RestoreRequest, EpilogueDone,
         CheckpointStart, CheckpointPost, CheckpointStamp, FinalizeStatus, PublishStart, Publish,
         PublishStamp, FinalizeJob, RowCollides, RowFails, StepDies, StepGivesUp, Goto, Settle
    <2> QED
      BY <1>2, <1>3, <2>1, <2>2
  <1>7. ASSUME NEW i \in Jobs, CreateWorkflow(i) PROVE routes[j].at = "inserted"
    BY <1>4, <1>7 DEF CreateWorkflow
  <1>8. steps' = steps \/ Redrive \/ \E i \in Jobs : Step(i) \/ Fault(i) \/ CreateWorkflow(i)
    BY DEF Next, RequestCancel, Execute,
       Handle, Claim, Adopt, CreateJob, ReleaseClaim, UndoJob, UndoClaim, CreateWorkflowFails,
       RouteDies, AnswerBusy, SourceMoves, TargetEdit, PatchCheck, PatchStatus, vars
  <1> QED
    BY <1>5, <1>6, <1>7, <1>8

LEMMA NextRoutes ==
  ASSUME TypeOK, NEW j \in Jobs, [Next]_vars
  PROVE  \/ routes'[j] = routes[j] /\ ~CreateJob(j)
         \/ routes'[j].at \in {"idle", "release"} /\ jobs' = jobs
         \/ routes'[j].at = "claimed" /\ jobs' = jobs /\ jobs[j].status = "none"
         \/ routes'[j].at = "restoreUndone" /\ routes[j].at = "undo"
         \/ routes'[j].at = "undo" /\ routes[j].at = "inserted" /\ jobs' = jobs
         \/ routes'[j].at = "inserted" /\ CreateJob(j) /\ jobs'[j].status = "queued"
  <1>1. routes \in [Jobs -> Handler] /\ jobs \in [Jobs -> Job] /\ Idle.at = "idle"
    BY Types DEF Idle
  <1>2. ASSUME NEW i \in Jobs, Execute(i)
        PROVE  \/ routes'[j] = routes[j] /\ i # j
               \/ routes'[j].at = "claimed" /\ jobs' = jobs /\ jobs[j].status = "none"
    BY <1>1, <1>2 DEF Execute, Claim, Adopt, IsNext, FreshJobs
  <1>3. ASSUME NEW i \in Jobs, i # j, Handle(i) \/ CreateWorkflowFails(i) \/ RouteDies(i)
        PROVE  routes'[j] = routes[j]
    BY <1>1, <1>3 DEF Handle, CreateJob, ReleaseClaim, CreateWorkflow, UndoJob, UndoClaim,
       CreateWorkflowFails, RouteDies
  <1>4. CASE CreateJob(j)
    <2>1. \/ routes' = [routes EXCEPT ![j].at = "release"] /\ jobs' = jobs
          \/ /\ routes' = [routes EXCEPT ![j].at = "inserted"]
             /\ \E strategy : jobs' = [jobs EXCEPT ![j] = [NoJob EXCEPT !.status = "queued",
                                 !.prior = routes[j].prior, !.strategy = strategy]]
      BY <1>4 DEF CreateJob
    <2> QED
      BY <1>1, <1>4, <2>1 DEF NoJob, Handler
  <1>5. CASE ReleaseClaim(j) \/ CreateWorkflow(j) \/ UndoClaim(j) \/ RouteDies(j)
    BY <1>1, <1>5 DEF ReleaseClaim, CreateWorkflow, UndoClaim, RouteDies
  <1>6. CASE CreateWorkflowFails(j) \/ UndoJob(j)
    BY <1>1, <1>6 DEF CreateWorkflowFails, UndoJob, Handler
  <1>7. CreateJob(j) => routes'[j] # routes[j]
    BY <1>1 DEF CreateJob, Handler
  <1>8. CASE routes' = routes
    BY <1>7, <1>8
  <1>9. CASE routes' # routes
    <2>1. \E i \in Jobs : Execute(i) \/ Handle(i) \/ CreateWorkflowFails(i) \/ RouteDies(i)
      BY <1>9 DEF Next, Step, Fault, PlanStart, PlanBlocked, PlanBlock, PlanFreeze, PlanRun, ChunkStart,
         RowRead, RowWrite, RowMark, CancelJob, FailJob, RestoreRequest, EpilogueDone,
         CheckpointStart, CheckpointPost, CheckpointStamp, FinalizeStatus, PublishStart, Publish,
         PublishStamp, FinalizeJob, RowCollides, RowFails, StepDies, StepGivesUp, RequestCancel,
         AnswerBusy, SourceMoves, TargetEdit, PatchCheck, PatchStatus, vars
    <2> QED
      BY <1>2, <1>3, <1>4, <1>5, <1>6, <1>7, <2>1 DEF Handle
  <1> QED
    BY <1>8, <1>9

LEMMA AsksStep ==
  ASSUME TypeOK, MergeAssumption, NEW j \in Jobs, Asks(j), [Next]_vars PROVE Asks(j)'
  <1>1. Moves(j) /\ (CreateJob(j) \/ JobMoves(j)) /\ steps[j] \in Instance
    BY NextMoves, NextJobs, Types
  <1>2. CreateJob(j) => jobs[j].status = "none" /\ routes[j].at = "claimed"
    BY DEF CreateJob, Asks
  <1>3. jobs[j].status = "none" => rows'[j] = rows[j]
    BY <1>1 DEF Moves, Asks
  <1>4. CASE rows'[j] = rows[j]
    <2>1. /\ \A d \in Docs : rows[j][d].from # 0 => rows[j][d].kind # "none"
          /\ Planned(j)' = Planned(j)
      BY <1>4, RowsOf DEF Asks
    <2>2. CreateJob(j) => \A d \in Docs : rows[j][d].from = 0
      BY <1>2 DEF Asks, Planned
    <2>3. \A d \in Docs : rows'[j][d].from # 0 /\ rows'[j][d].kind = "conflict"
                            => jobs'[j].strategy = "take-source"
      BY <1>1, <1>4, <2>2 DEF Asks, JobMoves
    <2>4. jobs'[j].status = "none" => jobs[j].status = "none"
      BY <1>1, <1>2 DEF JobMoves
    <2>5. jobs'[j].status = "none" => steps'[j].at = "none"
      BY <2>4, NextLaunches DEF Asks
    <2>6. routes'[j].at = "claimed" => jobs'[j].status = "none"
      BY <1>1, NextRoutes DEF Asks, JobMoves
    <2>7. routes'[j].at \in {"inserted", "undo", "restoreUndone"} => jobs'[j].status # "none"
      BY <1>1, <2>4, NextRoutes DEF Asks
    <2> QED
      BY <1>4, <2>1, <2>3, <2>4, <2>5, <2>6, <2>7 DEF Asks
  <1>5. CASE steps[j].at = "detect" /\ Fresh(j) /\ steps'[j] = At("run")
    <2>1. jobs[j].status # "none" /\ JobMoves(j)
      BY <1>1, <1>2, <1>5 DEF Asks
    <2>2. \A d \in Docs : /\ PlannedRow(j, d).from # 0 => PlannedRow(j, d).kind # "none"
                          /\ PlannedRow(j, d).from # 0 /\ PlannedRow(j, d).kind = "conflict"
                               => jobs[j].strategy = "take-source"
      BY DEF PlannedRow, NoRow
    <2>3. /\ \A d \in Docs : rows'[j][d].from # 0 => rows'[j][d].kind # "none"
          /\ \A d \in Docs : rows'[j][d].from # 0 /\ rows'[j][d].kind = "conflict"
                               => jobs'[j].strategy = "take-source"
      BY <1>5, <2>1, <2>2 DEF Fresh, Asks, JobMoves
    <2>4. jobs'[j].status # "none" /\ routes'[j].at # "claimed"
      BY <2>1, NextRoutes DEF JobMoves, Asks
    <2> QED
      BY <2>3, <2>4 DEF Asks
  <1>6. CASE steps[j].at = "mark" /\ Marked(j)
    <2>1. jobs[j].status # "none" /\ JobMoves(j)
      BY <1>1, <1>2, <1>6 DEF Asks
    <2>2. \A d \in Docs : rows'[j][d].from = rows[j][d].from /\ rows'[j][d].kind = rows[j][d].kind
      <3>1. rows[j] \in [Docs -> Row]
        BY Types
      <3>2. PICK d \in FirstOf(steps[j].todo) : rows'[j] = [rows[j] EXCEPT ![d] =
                   [rows[j][d] EXCEPT !.status = steps[j].outcome, !.result = steps[j].result]]
        BY <1>6 DEF Marked
      <3> QED
        BY <3>1, <3>2 DEF Row
    <2>3. jobs'[j].status # "none" /\ routes'[j].at # "claimed"
      BY <2>1, NextRoutes DEF JobMoves, Asks
    <2> QED
      BY <2>1, <2>2, <2>3 DEF Asks, JobMoves
  <1> QED
    BY <1>1, <1>4, <1>5, <1>6 DEF Moves

-----------------------------------------------------------------------------
\* What a job has recorded: for a row with a source version, a version of the target
\* which is a merge of that source version, or says the same, or came before its own.

Stands(versions, late, d, from, n) ==
  /\ n \in 1..Len(versions)
  /\ d \in late \/ versions[n].from = from \/ versions[n].content = from

Recorded(j) ==
  /\ \A d \in Docs : rows[j][d].from # 0 /\ rows[j][d].status \in {"done", "skipped_noop"}
                       => Stands(target[d], overtaken[j], d, rows[j][d].from, rows[j][d].result)
  /\ steps[j].at = "mark" /\ steps[j].outcome \in {"done", "skipped_noop"} =>
       \A d \in FirstOf(steps[j].todo) :
          rows[j][d].from # 0 => Stands(target[d], overtaken[j], d, rows[j][d].from, steps[j].result)

LEMMA AppendStands ==
  ASSUME NEW versions \in Seq(Version), NEW version \in Version, NEW late, NEW d, NEW from, NEW n
  PROVE  /\ Stands(versions, late, d, from, n) => Stands(Append(versions, version), late, d, from, n)
         /\ version.from = from
              => Stands(Append(versions, version), late, d, from, Len(versions) + 1)
  <1>1. /\ Len(Append(versions, version)) = Len(versions) + 1 /\ Len(versions) \in Nat
        /\ \A k \in 1..Len(versions) : Append(versions, version)[k] = versions[k]
        /\ Append(versions, version)[Len(versions) + 1] = version
    BY AppendProperties
  <1> QED
    BY <1>1 DEF Stands

LEMMA NextOvertakes ==
  ASSUME TypeOK, NEW j \in Jobs, [Next]_vars PROVE overtaken[j] \subseteq overtaken'[j]
  <1>1. CASE overtaken' = overtaken
    BY <1>1
  <1>2. ASSUME NEW i \in Jobs, RowCollides(i) PROVE overtaken[j] \subseteq overtaken'[j]
    <2>1. PICK d : overtaken' = [overtaken EXCEPT ![i] = @ \cup {d}]
      BY <1>2 DEF RowCollides
    <2> QED
      BY <2>1, Types
  <1>3. CASE overtaken' # overtaken
    BY <1>2, <1>3 DEF Next, Step, Fault, PlanStart, PlanBlocked, PlanBlock, PlanFreeze, PlanRun,
       ChunkStart, RowRead, RowWrite, RowMark, CancelJob, FailJob, RestoreRequest, EpilogueDone,
       CheckpointStart, CheckpointPost, CheckpointStamp, FinalizeStatus, PublishStart, Publish,
       PublishStamp, FinalizeJob, RowFails, StepDies, StepGivesUp, Execute, Handle, Claim,
       Adopt, CreateJob, CreateWorkflow, UndoJob, UndoClaim, ReleaseClaim, CreateWorkflowFails,
       RouteDies, RequestCancel, AnswerBusy, PatchCheck, PatchStatus, SourceMoves, TargetEdit, vars
  <1> QED
    BY <1>1, <1>3

LEMMA NextStands ==
  ASSUME TypeOK, NEW j \in Jobs, NEW d \in Docs, NEW from, NEW n, [Next]_vars,
         Stands(target[d], overtaken[j], d, from, n)
  PROVE  Stands(target'[d], overtaken'[j], d, from, n)
  <1>1. target[d] \in Seq(Version) /\ Grows(d) /\ overtaken[j] \subseteq overtaken'[j]
    BY Types, NextGrows, NextOvertakes
  <1>2. Stands(target'[d], overtaken[j], d, from, n)
    BY <1>1, AppendStands DEF Grows
  <1> QED
    BY <1>1, <1>2 DEF Stands

\* What a row is settled with.
LEMMA SettleRecorded ==
  ASSUME TypeOK, MergeAssumption, NEW j \in Jobs, Asks(j), RowStep(j),
         steps'[j].at = "mark", steps'[j].outcome \in {"done", "skipped_noop"},
         NEW d \in FirstOf(steps'[j].todo), rows[j][d].from # 0
  PROVE  Stands(target'[d], overtaken'[j], d, rows[j][d].from, steps'[j].result)
  <1>1. /\ steps \in [Jobs -> Instance] /\ target \in [Docs -> Seq(Version)]
        /\ rows[j] \in [Docs -> Row] /\ steps[j].todo \subseteq Docs
    BY Types DEF Instance
  <1>2. ASSUME NEW outcome, NEW n, Settle(j, outcome, n)
        PROVE  /\ steps'[j].todo = steps[j].todo
               /\ steps'[j].outcome = outcome /\ steps'[j].result = n
    BY <1>1, <1>2 DEF Settle, Instance
  <1>3. ASSUME NEW e \in Docs, target[e] # <<>>
        PROVE  Latest(e) = target[e][Len(target[e])] /\ Len(target[e]) \in 1..Len(target[e])
    <2>1. target[e] \in Seq(Version)
      BY <1>1
    <2> QED
      BY <1>3, <2>1 DEF Latest
  <1>4. CASE RowRead(j)
    <2>1. PICK e \in FirstOf(steps[j].todo) :
            \/ Probe(j, e) /\ Settle(j, "done", Len(target[e]))
            \/ IsTakeTarget(j, e) /\ Settle(j, "skipped_noop", Len(target[e]))
            \/ steps' = [steps EXCEPT ![j].at = "write", ![j].seen = Len(target[e])]
      BY <1>4 DEF RowRead
    <2>2. ~(steps' = [steps EXCEPT ![j].at = "write", ![j].seen = Len(target[e])])
      BY <1>1 DEF Instance
    <2>3. steps'[j].todo = steps[j].todo /\ steps'[j].result = Len(target[e]) /\ target' = target
      BY <1>2, <1>4, <2>1, <2>2 DEF RowRead
    <2>4. e = d /\ d \in Docs
      BY <1>1, <2>1, <2>3, FirstIsOne DEF FirstOf
    <2>5. CASE Probe(j, d)
      <3>1. target[d] # <<>> /\ Latest(d).from = rows[j][d].from
        BY <2>5 DEF Probe, Latest, EditOf
      <3> QED
        BY <1>3, <2>3, <2>4, <3>1 DEF Stands
    <2>6. CASE IsTakeTarget(j, d)
      BY <2>4, <2>6 DEF IsTakeTarget, Asks
    <2> QED
      BY <2>1, <2>2, <2>4, <2>5, <2>6
  <1>5. CASE RowWrite(j)
    <2> DEFINE version(e) == [by |-> j, from |-> rows[j][e].from, content |-> Fetched(j, e)]
    <2>1. PICK e \in FirstOf(steps[j].todo) :
            \/ /\ EqualAlready(j, e) /\ target' = target
               /\ \E outcome : Settle(j, outcome, Len(target[e]))
            \/ /\ target' = [target EXCEPT ![e] = Append(target[e], version(e))]
               /\ Settle(j, "done", Len(target[e]) + 1)
      BY <1>5 DEF RowWrite
    <2>2. steps'[j].todo = steps[j].todo
      BY <1>2, <2>1
    <2>3. e = d /\ d \in Docs
      BY <1>1, <2>1, <2>2, FirstIsOne DEF FirstOf
    <2>4. rows[j][d].from \in Nat /\ Fetched(j, d) \in {0, rows[j][d].from}
      BY <1>1, <2>3 DEF Row, Fetched
    <2>5. CASE /\ EqualAlready(j, d) /\ target' = target
               /\ \E outcome : Settle(j, outcome, Len(target[d]))
      <3>1. target[d] # <<>> /\ Latest(d).content = rows[j][d].from
        BY <2>4, <2>5 DEF EqualAlready
      <3>2. steps'[j].result = Len(target[d])
        BY <1>2, <2>5
      <3> QED
        BY <1>3, <2>3, <2>5, <3>1, <3>2 DEF Stands
    <2>6. CASE /\ target' = [target EXCEPT ![d] = Append(target[d], version(d))]
               /\ Settle(j, "done", Len(target[d]) + 1)
      <3>1. version(d) \in Version /\ version(d).from = rows[j][d].from
        BY <2>4 DEF Version
      <3>2. steps'[j].result = Len(target[d]) + 1
        BY <1>2, <2>6
      <3> HIDE DEF version
      <3>3. target'[d] = Append(target[d], version(d)) /\ target[d] \in Seq(Version)
        BY <1>1, <2>3, <2>6
      <3> QED
        BY <3>1, <3>2, <3>3, AppendStands
    <2> QED
      BY <2>1, <2>3, <2>5, <2>6
  <1>6. CASE RowCollides(j)
    <2>1. PICK e \in FirstOf(steps[j].todo) :
            /\ Len(target[e]) > steps[j].seen /\ Settle(j, "done", Len(target[e]))
            /\ overtaken' = [overtaken EXCEPT ![j] = @ \cup {e}]
      BY <1>6 DEF RowCollides
    <2>2. steps'[j].todo = steps[j].todo /\ steps'[j].result = Len(target[e])
      BY <1>2, <2>1
    <2>3. e = d /\ d \in Docs
      BY <1>1, <2>1, <2>2, FirstIsOne DEF FirstOf
    <2>4. d \in overtaken'[j]
      BY <2>1, <2>3, Types
    <2>5. target' = target /\ Len(target[d]) \in Nat /\ steps[j].seen \in Nat
      BY <1>1, <1>6, <2>3 DEF RowCollides, Instance
    <2> QED
      BY <2>1, <2>2, <2>3, <2>4, <2>5 DEF Stands
  <1>7. CASE RowFails(j)
    BY <1>2, <1>7 DEF RowFails
  <1> QED
    BY <1>4, <1>5, <1>6, <1>7 DEF RowStep

LEMMA RecordedStep ==
  ASSUME TypeOK, MergeAssumption, NEW j \in Jobs, Asks(j), Recorded(j), [Next]_vars
  PROVE  Recorded(j)'
  <1>1. Moves(j) /\ rows[j] \in [Docs -> Row] /\ steps[j] \in Instance /\ steps[j].todo \subseteq Docs
    BY NextMoves, Types DEF Instance
  <1>2. ASSUME NEW d \in Docs, rows'[j][d].from # 0, rows'[j][d].status \in {"done", "skipped_noop"}
        PROVE  Stands(target'[d], overtaken'[j], d, rows'[j][d].from, rows'[j][d].result)
    <2>1. CASE rows'[j][d] = rows[j][d]
      BY <1>2, <2>1, NextStands DEF Recorded
    <2>2. CASE Fresh(j)
      <3>1. PlannedRow(j, d).status = "pending"
        BY DEF PlannedRow, NoRow
      <3> QED
        BY <1>2, <2>1, <2>2, <3>1 DEF Fresh
    <2>3. CASE steps[j].at = "mark" /\ Marked(j)
      <3>1. PICK e \in FirstOf(steps[j].todo) : rows'[j] = [rows[j] EXCEPT ![e] =
                   [rows[j][e] EXCEPT !.status = steps[j].outcome, !.result = steps[j].result]]
        BY <2>3 DEF Marked
      <3>2. CASE e = d
        <4>1. /\ rows'[j][d].from = rows[j][d].from /\ rows'[j][d].status = steps[j].outcome
              /\ rows'[j][d].result = steps[j].result
          BY <1>1, <3>1, <3>2 DEF Row
        <4>2. Stands(target[d], overtaken[j], d, rows[j][d].from, steps[j].result)
          BY <1>2, <2>3, <3>2, <4>1 DEF Recorded
        <4> QED
          BY <4>1, <4>2, NextStands
      <3>3. CASE e # d
        BY <1>1, <2>1, <3>1, <3>3
      <3> QED
        BY <3>2, <3>3
    <2> QED
      BY <1>1, <2>1, <2>2, <2>3 DEF Moves
  <1>3. ASSUME steps'[j].at = "mark", steps'[j].outcome \in {"done", "skipped_noop"},
               NEW d \in FirstOf(steps'[j].todo), rows'[j][d].from # 0
        PROVE  Stands(target'[d], overtaken'[j], d, rows'[j][d].from, steps'[j].result)
    <2>1. CASE steps'[j] = steps[j] /\ rows'[j] = rows[j]
      <3>1. d \in Docs /\ Stands(target[d], overtaken[j], d, rows[j][d].from, steps[j].result)
        BY <1>1, <1>3, <2>1 DEF Recorded, FirstOf
      <3> QED
        BY <2>1, <3>1, NextStands
    <2>2. CASE RowStep(j)
      <3>1. rows' = rows
        BY <2>2 DEF RowStep, RowRead, RowWrite, RowCollides, RowFails
      <3> QED
        BY <1>3, <2>2, <3>1, SettleRecorded
    <2> QED
      BY <1>3, <2>1, <2>2, RowsAreStepped
  <1> QED
    BY <1>2, <1>3 DEF Recorded

-----------------------------------------------------------------------------
\* A merged request stays merged, and its job's list stays what it was.

Merged(j) == request.by = j =>
  /\ request.status = "merged" /\ IsFinalizable(j) /\ steps[j].at # "detect"
  /\ DoneEntries(j) = {} \/ posted[j] = DoneEntries(j)

MergedInv ==
  /\ CaptureInv
  /\ \A j \in Jobs : Asks(j) /\ Recorded(j) /\ Merged(j)

LEMMA NextRequest ==
  ASSUME TypeOK, [Next]_vars
  PROVE  \/ /\ request'.by = request.by
            /\ request.status = "merged" => request'.status = "merged"
         \/ \E i \in Jobs : /\ FinalizeStatus(i) /\ IsFinalizable(i)
                            /\ request'.by = i /\ request'.status = "merged"
  <1>1. request \in Request
    BY Types
  <1>2. ASSUME NEW prior, RestoreClaim(prior)
        PROVE  /\ request'.by = request.by
               /\ request.status = "merged" => request'.status = "merged"
    BY <1>1, <1>2 DEF RestoreClaim, Request
  <1>3. ASSUME NEW i \in Jobs, FinalizeStatus(i)
        PROVE  \/ /\ request'.by = request.by
                  /\ request.status = "merged" => request'.status = "merged"
               \/ IsFinalizable(i) /\ request'.by = i /\ request'.status = "merged"
    BY <1>1, <1>2, <1>3 DEF FinalizeStatus, Request
  <1>4. ASSUME NEW i \in Jobs, RestoreRequest(i) \/ ReleaseClaim(i) \/ UndoClaim(i)
        PROVE  \E prior : RestoreClaim(prior)
    BY <1>4 DEF RestoreRequest, ReleaseClaim, UndoClaim
  <1>5. ASSUME NEW i \in Jobs, PlanBlocked(i) \/ Claim(i)
        PROVE  /\ request'.by = request.by
               /\ request.status = "merged" => request'.status = "merged"
    BY <1>1, <1>5 DEF PlanBlocked, Claim, Request
  <1>6. CASE PatchCheck \/ PatchStatus
    BY <1>1, <1>6 DEF PatchCheck, PatchStatus, NextStatus, Request
  <1>7. CASE request' = request
    BY <1>7
  <1>8. CASE request' # request
    BY <1>2, <1>3, <1>4, <1>5, <1>6, <1>8 DEF Next, Step, Fault, PlanStart, PlanBlock, PlanFreeze, PlanRun,
       ChunkStart, RowRead, RowWrite, RowMark, CancelJob, FailJob, EpilogueDone,
       CheckpointStart, CheckpointPost, CheckpointStamp, PublishStart, Publish,
       PublishStamp, FinalizeJob, RowCollides, RowFails, StepDies, StepGivesUp, Execute, Handle,
       Adopt, CreateJob, CreateWorkflow, UndoJob, CreateWorkflowFails, RouteDies, RequestCancel,
       AnswerBusy, SourceMoves, TargetEdit, vars
  <1> QED
    BY <1>7, <1>8

LEMMA MergedStep ==
  ASSUME TypeOK, MergeAssumption, NEW j \in Jobs, Unplanned(j), Claimed(j), Captured(j), Merged(j),
         [Next]_vars
  PROVE  Merged(j)'
  <1>1. /\ steps \in [Jobs -> Instance] /\ posted \in [Jobs -> SUBSET (Docs \X Nat)]
        /\ Moves(j)
    BY Types, NextMoves
  <1>2. CASE FinalizeStatus(j) /\ IsFinalizable(j) /\ request'.status = "merged"
    <2>1. /\ rows' = rows /\ posted' = posted /\ steps[j].at = "status"
          /\ steps'[j].at = "publish"
      BY <1>1, <1>2 DEF FinalizeStatus, Goto, At
    <2> QED
      BY <1>2, <2>1, RowsOf DEF Merged, Captured
  <1>3. CASE request'.by = j /\ request.by = j /\ request'.status = "merged"
    <2>1. rows'[j] = rows[j]
      BY <1>1, <1>3, Frozen DEF Merged
    <2>2. steps'[j].at # "detect"
      <3>1. steps[j].at # "detect" /\ request.status = "merged"
        BY <1>3 DEF Merged
      <3>2. \A pc : At(pc).at = pc /\ \A todo : [At("row") EXCEPT !.todo = todo].at = "row"
        BY DEF At
      <3>3. Marked(j) => steps'[j].at # "detect"
        BY <3>2 DEF Marked
      <3> QED
        BY <1>1, <3>1, <3>2, <3>3 DEF Moves
    <2>3. posted'[j] = posted[j] \/ posted'[j] = DoneEntries(j)
      BY <1>1, NextCaptures DEF Quiet, Finalizes, CheckpointStart, CheckpointPost, CheckpointStamp,
         FinalizeStatus, PublishStart, Publish, PublishStamp, StepDies
    <2> QED
      BY <1>3, <2>1, <2>2, <2>3, RowsOf DEF Merged
  <1>4. CASE request'.by # j
    BY <1>4 DEF Merged
  <1> QED
    BY <1>2, <1>3, <1>4, NextRequest DEF Merged

LEMMA MergedInvHolds == Spec => []MergedInv
  <1>1. MergeAssumption /\ Init => \A j \in Jobs : Asks(j) /\ Recorded(j) /\ Merged(j)
    <2> SUFFICES ASSUME MergeAssumption, Init
                 PROVE  \A j \in Jobs : Asks(j) /\ Recorded(j) /\ Merged(j)
      OBVIOUS
    <2>1. \A j \in Jobs : /\ \A d \in Docs : rows[j][d].from = 0 /\ rows[j][d].kind = "none"
                          /\ steps[j].at = "none" /\ routes[j].at = "idle"
      BY DEF Init, NoRow, At, Idle
    <2>2. request.by \notin Jobs
      BY DEF Init, MergeAssumption
    <2> QED
      BY <2>1, <2>2 DEF Asks, Recorded, Merged, Planned
  <1>2. MergedInv /\ [Next]_vars /\ CaptureInv' => MergedInv'
    <2> SUFFICES ASSUME MergedInv, [Next]_vars, CaptureInv' PROVE MergedInv'
      OBVIOUS
    <2>1. TypeOK /\ \A j \in Jobs : Unplanned(j) /\ Claimed(j) /\ Captured(j)
      BY DEF MergedInv, CaptureInv, LedgerInv
    <2>2. ASSUME NEW j \in Jobs PROVE Asks(j)' /\ Recorded(j)' /\ Merged(j)'
      BY <2>1, MergeAssumption, AsksStep, RecordedStep, MergedStep DEF MergedInv
    <2> QED
      BY <2>1, <2>2 DEF MergedInv
  <1>3. CaptureInv /\ (\A j \in Jobs : Asks(j) /\ Recorded(j) /\ Merged(j)) => MergedInv
    BY DEF MergedInv
  <1> QED
    BY <1>1, <1>2, <1>3, MergeAssumption, CaptureInvHolds, PTL DEF Spec

\* A request that a job moved to merged is merged whole, for any documents, chunks,
\* deaths and events, editors and other jobs in between.
THEOREM MergeIsWhole == Spec => []MergedIsWhole
  <1>1. MergedInv => MergedIsWhole
    <2> SUFFICES ASSUME MergedInv, request.by # None,
                        NEW d \in Docs, rows[request.by][d].from # 0
                 PROVE  LET j == request.by
                            r == rows[j][d] IN
                        /\ r.result \in 1..Len(target[d])
                        /\ \/ d \in overtaken[j]
                           \/ target[d][r.result].from = r.from
                           \/ target[d][r.result].content = r.from
                        /\ \/ r.status = "skipped_noop"
                           \/ r.status = "done" /\ <<d, r.result>> \in posted[j]
      BY DEF MergedIsWhole
    <2> DEFINE j == request.by
    <2>1. j \in Jobs /\ rows[j] \in [Docs -> Row]
      BY Types DEF MergedInv, CaptureInv, LedgerInv, Request
    <2>2. IsFinalizable(j) /\ (DoneEntries(j) = {} \/ posted[j] = DoneEntries(j))
      BY <2>1 DEF MergedInv, Merged
    <2>3. rows[j][d].kind # "none"
      BY <2>1 DEF MergedInv, Asks
    <2>4. rows[j][d].status \in {"done", "skipped_noop"}
      BY <2>1, <2>2, <2>3 DEF IsFinalizable, Pending, Failed, Row
    <2>5. Stands(target[d], overtaken[j], d, rows[j][d].from, rows[j][d].result)
      BY <2>1, <2>4 DEF MergedInv, Recorded
    <2>6. rows[j][d].status = "done" => <<d, rows[j][d].result>> \in DoneEntries(j)
      BY <2>3 DEF DoneEntries, Planned
    <2> QED
      BY <2>2, <2>4, <2>5, <2>6 DEF Stands
  <1> QED
    BY <1>1, MergedInvHolds, PTL
================================================================================
