------------------------------ MODULE MediaStore ------------------------------
(***************************************************************************)
(* The media worker: assets and their versions are rows of D1, the bytes   *)
(* of a version are an object of R2 under a key of its own, and the edge   *)
(* caches what /image/* served.  The three are written one call at a time, *)
(* without a transaction over them, by                                     *)
(*   - clients that presign, PUT, and finalize an upload, perhaps days     *)
(*     later and perhaps twice;                                            *)
(*   - the hourly trigger: the sweep of chat attachments that expired or   *)
(*     whose conversation was cleared, then the reconcile of the bucket;   *)
(*   - operators who purge an asset for good.                              *)
(*                                                                         *)
(* A key is named by its upload.  Sites, metadata and types are left out:  *)
(* a refusal on their account changes nothing.  The jobs are modelled as   *)
(* armed (RECONCILE_DRY_RUN = "false"); in a dry run they write nothing.   *)
(***************************************************************************)
EXTENDS Integers, FiniteSets

CONSTANTS
    Assets, Uploads,
    AssetOf,        \* the asset of an upload
    Creating,       \* the uploads whose presign minted their asset
    Chat,           \* those of them presigned with origin "chat"
    Calls, UploadOf,\* requests to finalize, and what each finalizes
    Purges,         \* requests to purge
    Viewed,         \* uploads that /image/* is asked for
    Overlapping,    \* whether a finalize may overlap the deletion of its own key
    MaxFaults,      \* bound: failures and deaths of the jobs and the purges
    None

ASSUME MediaAssumption ==
    /\ AssetOf \in [Uploads -> Assets] /\ UploadOf \in [Calls -> Uploads]
    /\ Chat \subseteq Creating /\ Creating \subseteq Uploads
    /\ Viewed \subseteq Uploads
    /\ \A u, v \in Creating : AssetOf[u] = AssetOf[v] => u = v
    /\ Overlapping \in BOOLEAN /\ MaxFaults \in Nat

VARIABLES
    assets, versions,   \* D1: the rows of assets and of asset_versions
    audit,              \* D1: purge_audit
    bucket,             \* R2: the object of each key
    cached, fetching,   \* the edge cache; responses on their way to it
    presigned,          \* what became of each presigned URL
    finalizing,         \* each finalize request, between its awaits
    cron,               \* the scheduled invocation, between its awaits
    purging,            \* each purge request, between its awaits
    faults              \* bound spent

database == <<assets, versions, audit>>
edge == <<cached, fetching>>
clients == <<presigned, finalizing>>
vars == <<database, bucket, edge, clients, cron, purging, faults>>

Keys(a) == {u \in Uploads : AssetOf[u] = a}

Asset == [origin : {"library", "chat"}, from_chat : BOOLEAN, deleted : BOOLEAN,
          expiry : {"never", "later", "past"}, current_version : Uploads]

NewAsset(u) ==
    [origin |-> IF u \in Chat THEN "chat" ELSE "library", from_chat |-> u \in Chat,
     deleted |-> FALSE, expiry |-> IF u \in Chat THEN "later" ELSE "never",
     current_version |-> u]

\* The sweep has read `due` and its `keys`, and erases `erasing`; the reconcile has
\* the `keys` referenced when it began, and has yet to list `left`.
Cron == [at : {"idle", "sweep", "bytes", "reconcile", "delete"}, due : SUBSET Assets,
         keys : SUBSET Uploads, erasing : SUBSET Uploads, left : SUBSET Uploads]

NoCron == [at |-> "idle", due |-> {}, keys |-> {}, erasing |-> {}, left |-> {}]

Purging == [at : {"idle", "resolved", "recorded", "erased", "dropped", "purged",
                  "partial", "done"}, asset : Assets \cup {None}, keys : SUBSET Uploads]

NotPurging(at) == [at |-> at, asset |-> None, keys |-> {}]

Audit == [asset : Assets, keys : SUBSET Uploads, status : {"intent", "partial", "completed"}]

ASSUME NoneAssumption == None \notin Asset \cup Audit

TypeOK ==
    /\ assets \in [Assets -> Asset \cup {None}] /\ versions \subseteq Uploads
    /\ audit \in [Purges -> Audit \cup {None}]
    /\ bucket \in [Uploads -> {"none", "young", "old"}]
    /\ cached \subseteq Viewed /\ fetching \subseteq Viewed
    /\ presigned \in [Uploads -> {"none", "signed", "sent", "oversized"}]
    /\ finalizing \in [Calls -> {"idle", "confirmed", "owned", "done"}]
    /\ cron \in Cron /\ purging \in [Purges -> Purging] /\ faults \in 0 .. MaxFaults

Init ==
    /\ assets = [a \in Assets |-> None] /\ versions = {}
    /\ audit = [p \in Purges |-> None]
    /\ bucket = [u \in Uploads |-> "none"]
    /\ cached = {} /\ fetching = {}
    /\ presigned = [u \in Uploads |-> "none"]
    /\ finalizing = [c \in Calls |-> "idle"]
    /\ cron = NoCron
    /\ purging = [p \in Purges |-> NotPurging("idle")]
    /\ faults = 0

Exists(a) == assets[a] # None
Owned(a) == Exists(a) /\ ~assets[a].deleted
IsChat(a) == Exists(a) /\ assets[a].origin = "chat"

Fault == faults < MaxFaults /\ faults' = faults + 1
NoFault == UNCHANGED faults

Without(S) == [u \in Uploads |-> IF u \in S THEN "none" ELSE bucket[u]]

-----------------------------------------------------------------------------
\* Uploads.

\* The URL of a new asset, or of a new version of an asset that is there.
Presign(u) ==
    /\ presigned[u] = "none" /\ (u \in Creating \/ Owned(AssetOf[u]))
    /\ presigned' = [presigned EXCEPT ![u] = "signed"]
    /\ UNCHANGED <<database, bucket, edge, finalizing, cron, purging, faults>>

\* The client uses its URL at most once, for an object R2 does not limit in size.
Put(u) ==
    /\ presigned[u] = "signed"
    /\ \E size \in {"sent", "oversized"} : presigned' = [presigned EXCEPT ![u] = size]
    /\ bucket' = [bucket EXCEPT ![u] = "young"]
    /\ UNCHANGED <<database, edge, finalizing, cron, purging, faults>>

\* ORPHAN_AGE_MS passes.
Age(u) ==
    /\ bucket[u] = "young" /\ bucket' = [bucket EXCEPT ![u] = "old"]
    /\ UNCHANGED <<database, edge, clients, cron, purging, faults>>

Answer(c) == finalizing' = [finalizing EXCEPT ![c] = "done"]

InFlight(u) == \E c \in Calls : UploadOf[c] = u /\ finalizing[c] \in {"confirmed", "owned"}

\* A key some job has decided to delete.
Erasing(u) == u \in cron.erasing

\* confirmUploadedObject: no object, one that is too large, or one to be recorded.
Confirm(c) ==
    LET u == UploadOf[c]
    IN /\ finalizing[c] = "idle" /\ presigned[u] \in {"sent", "oversized"}
       /\ Overlapping \/ ~Erasing(u)
       /\ \/ bucket[u] = "none" /\ Answer(c) /\ UNCHANGED bucket
          \/ /\ bucket[u] # "none" /\ presigned[u] = "oversized"
             /\ Answer(c) /\ bucket' = Without({u})
          \/ /\ bucket[u] # "none" /\ presigned[u] = "sent"
             /\ finalizing' = [finalizing EXCEPT ![c] = "confirmed"] /\ UNCHANGED bucket
       /\ UNCHANGED <<database, edge, presigned, cron, purging, faults>>

\* finalizeAssetCreation: both inserts are OR IGNORE.  An asset that is there has
\* the row of this version, so that returning it early is inserting nothing.
CreateAsset(c) ==
    LET u == UploadOf[c]
        a == AssetOf[u]
    IN /\ finalizing[c] = "confirmed" /\ u \in Creating
       /\ assets' = [assets EXCEPT ![a] = IF Exists(a) THEN @ ELSE NewAsset(u)]
       /\ versions' = versions \cup {u}
       /\ Answer(c)
       /\ UNCHANGED <<audit, bucket, edge, presigned, cron, purging, faults>>

\* finalizeVersionAdd reads the asset: 404, already current, or to be written.
ReadOwner(c) ==
    LET u == UploadOf[c]
        a == AssetOf[u]
    IN /\ finalizing[c] = "confirmed" /\ u \notin Creating
       /\ IF Owned(a) /\ assets[a].current_version # u
          THEN finalizing' = [finalizing EXCEPT ![c] = "owned"]
          ELSE Answer(c)
       /\ UNCHANGED <<database, bucket, edge, presigned, cron, purging, faults>>

\* Its batch: the insert, whose foreign key fails when the asset is gone, and the
\* update of the current version.
AddVersion(c) ==
    LET u == UploadOf[c]
        a == AssetOf[u]
    IN /\ finalizing[c] = "owned" /\ Answer(c)
       /\ \/ /\ Exists(a)
             /\ assets' = [assets EXCEPT ![a].current_version = u]
             /\ versions' = versions \cup {u}
          \/ ~Exists(a) /\ UNCHANGED <<assets, versions>>
       /\ UNCHANGED <<audit, bucket, edge, presigned, cron, purging, faults>>

\* D1 fails, or the invocation dies.
FailFinalize(c) ==
    /\ finalizing[c] \in {"confirmed", "owned"} /\ Answer(c)
    /\ UNCHANGED <<database, bucket, edge, presigned, cron, purging, faults>>

-----------------------------------------------------------------------------
\* What people do with an asset.

UpdateAsset(a, row) ==
    /\ assets' = [assets EXCEPT ![a] = row]
    /\ UNCHANGED <<versions, audit, bucket, edge, clients, cron, purging, faults>>

\* promoteAsset: into the library, and back into it if it came from a chat.
Promote(a) ==
    /\ Exists(a) /\ (assets[a].deleted => assets[a].from_chat)
    /\ UpdateAsset(a, [assets[a] EXCEPT !.origin = "library", !.expiry = "never",
                                        !.deleted = FALSE])

\* softDeleteAsset, and softDeleteChatAsset when a conversation is cleared.
Delete(a, chatOnly) ==
    /\ Owned(a) /\ (chatOnly => IsChat(a))
    /\ UpdateAsset(a, [assets[a] EXCEPT !.deleted = TRUE])

\* CHAT_RETENTION_DAYS pass.
Expire(a) ==
    /\ Exists(a) /\ assets[a].expiry = "later"
    /\ UpdateAsset(a, [assets[a] EXCEPT !.expiry = "past"])

\* handleImage reads the object, whatever D1 says of it; the edge stores the answer.
Fetch(u) ==
    /\ bucket[u] # "none" /\ u \notin cached /\ fetching' = fetching \cup {u}
    /\ UNCHANGED <<database, bucket, cached, clients, cron, purging, faults>>

StoreResponse(u) ==
    /\ u \in fetching /\ fetching' = fetching \ {u} /\ cached' = cached \cup {u}
    /\ UNCHANGED <<database, bucket, clients, cron, purging, faults>>

-----------------------------------------------------------------------------
\* scheduled: sweepExpiredChatAssets, then handleReconcile, once an hour.

UnchangedByCron == UNCHANGED <<audit, edge, clients, purging>>

\* Mutant of Expired: as the other queries, it passes over deleted rows.
ExpiredAndListed(a) == IsChat(a) /\ ~assets[a].deleted /\ assets[a].expiry = "past"

\* EXPIRED_CHAT_PREDICATE
Expired(a) == IsChat(a) /\ (assets[a].expiry = "past" \/ assets[a].deleted)

\* findExpiredChatAssets; when it fails the reconcile still runs.
StartSweep ==
    LET due == {a \in Assets : Expired(a) /\ Keys(a) \cap versions # {}}
    IN /\ cron.at = "idle"
       /\ \/ /\ cron' = [NoCron EXCEPT !.at = "sweep", !.due = due,
                             !.keys = {u \in versions : AssetOf[u] \in due}]
             /\ NoFault
          \/ cron' = [NoCron EXCEPT !.at = "sweep"] /\ Fault
       /\ UNCHANGED <<assets, versions, bucket>> /\ UnchangedByCron

\* Mutant of SweepRows: the delete of the versions does not ask again.
SweepRowsHalfGuarded(a) ==
    LET rest == [cron EXCEPT !.due = @ \ {a}]
    IN /\ cron.at = "sweep" /\ a \in cron.due
       /\ Overlapping \/ \A u \in cron.keys \cap Keys(a) : ~InFlight(u)
       /\ versions' = versions \ Keys(a)
       /\ \/ /\ IsChat(a) /\ assets' = [assets EXCEPT ![a] = None]
             /\ cron' = [rest EXCEPT !.at = "bytes", !.erasing = cron.keys \cap Keys(a)]
          \/ ~IsChat(a) /\ cron' = rest /\ UNCHANGED assets
       /\ NoFault /\ UNCHANGED bucket /\ UnchangedByCron

\* Mutant of SweepRows: the rows it found are deleted without asking again.
SweepRowsFound(a) ==
    /\ cron.at = "sweep" /\ a \in cron.due
    /\ Overlapping \/ \A u \in cron.keys \cap Keys(a) : ~InFlight(u)
    /\ assets' = [assets EXCEPT ![a] = None] /\ versions' = versions \ Keys(a)
    /\ cron' = [cron EXCEPT !.at = "bytes", !.due = @ \ {a}, !.erasing = cron.keys \cap Keys(a)]
    /\ NoFault /\ UNCHANGED bucket /\ UnchangedByCron

\* hardDeleteChatAsset: both deletes ask again whether it is a chat upload.
SweepRows(a) ==
    LET rest == [cron EXCEPT !.due = @ \ {a}]
    IN /\ cron.at = "sweep" /\ a \in cron.due
       /\ Overlapping \/ \A u \in cron.keys \cap Keys(a) : ~InFlight(u)
       /\ \/ /\ IsChat(a)
             /\ assets' = [assets EXCEPT ![a] = None] /\ versions' = versions \ Keys(a)
             /\ cron' = [rest EXCEPT !.at = "bytes", !.erasing = cron.keys \cap Keys(a)]
             /\ NoFault
          \/ ~IsChat(a) /\ cron' = rest /\ NoFault /\ UNCHANGED <<assets, versions>>
          \/ cron' = rest /\ Fault /\ UNCHANGED <<assets, versions>>
       /\ UNCHANGED bucket /\ UnchangedByCron

\* One R2 delete per key; a failure leaves the keys that remain.
SweepBytes(u) ==
    LET rest == cron.erasing \ {u}
    IN /\ cron.at = "bytes" /\ u \in cron.erasing
       /\ \/ /\ bucket' = Without({u})
             /\ cron' = [cron EXCEPT !.erasing = rest,
                                     !.at = IF rest = {} THEN "sweep" ELSE "bytes"]
             /\ NoFault
          \/ cron' = [cron EXCEPT !.erasing = {}, !.at = "sweep"] /\ Fault /\ UNCHANGED bucket
       /\ UNCHANGED <<assets, versions>> /\ UnchangedByCron

\* handleReconcile reads the keys that are referenced.
StartReconcile ==
    /\ cron.at = "sweep" /\ cron.due = {}
    /\ cron' = [NoCron EXCEPT !.at = "reconcile", !.keys = versions, !.left = Uploads]
    /\ UNCHANGED <<assets, versions, bucket, faults>> /\ UnchangedByCron

\* Mutant of Orphan: trusts the keys it read first.
OrphanAtFirst(u) == bucket[u] = "old" /\ u \notin cron.keys

\* Old, not referenced at first, and not referenced when asked again.
Orphan(u) == bucket[u] = "old" /\ u \notin cron.keys /\ u \notin versions

Visit(u) ==
    /\ cron.at = "reconcile" /\ u \in cron.left
    /\ \/ /\ Orphan(u) /\ (Overlapping \/ ~InFlight(u))
          /\ cron' = [cron EXCEPT !.at = "delete", !.left = @ \ {u}, !.erasing = {u}]
       \/ ~Orphan(u) /\ cron' = [cron EXCEPT !.left = @ \ {u}]
    /\ UNCHANGED <<assets, versions, bucket, faults>> /\ UnchangedByCron

\* A delete that fails ends the job.
DeleteOrphan ==
    /\ cron.at = "delete"
    /\ \/ /\ bucket' = Without(cron.erasing) /\ NoFault
          /\ cron' = [cron EXCEPT !.at = "reconcile", !.erasing = {}]
       \/ cron' = NoCron /\ Fault /\ UNCHANGED bucket
    /\ UNCHANGED <<assets, versions>> /\ UnchangedByCron

EndReconcile ==
    /\ cron.at = "reconcile" /\ cron.left = {} /\ cron' = NoCron
    /\ UNCHANGED <<assets, versions, bucket, faults>> /\ UnchangedByCron

CronDies ==
    /\ cron.at # "idle" /\ cron' = NoCron /\ Fault
    /\ UNCHANGED <<assets, versions, bucket>> /\ UnchangedByCron

-----------------------------------------------------------------------------
\* handlePurge.

UnchangedByPurge == UNCHANGED <<clients, cron, fetching>>

Continue(p, at) == purging' = [purging EXCEPT ![p].at = at]

Stop(p) == purging' = [purging EXCEPT ![p] = NotPurging("done")]

\* purgeAssetCache reports a failure and goes on.
PurgeCache(a) ==
    \/ cached' = cached \ Keys(a) /\ NoFault
    \/ Fault /\ UNCHANGED cached

\* resolveTarget: every version that has a row, or a purge already completed.
\* An asset it does not know is a 404.
Resolve(p, a) ==
    LET keys == versions \cap Keys(a)
        known == Exists(a) \/ keys # {}
    IN /\ purging[p].at = "idle"
       /\ \/ /\ known /\ NoFault /\ UNCHANGED cached
             /\ purging' = [purging EXCEPT ![p] = [at |-> "resolved", asset |-> a, keys |-> keys]]
          \/ /\ ~known /\ PurgeCache(a)
             /\ \E q \in Purges : audit[q] # None /\ audit[q].asset = a
                                  /\ audit[q].status = "completed"
             /\ Stop(p)
       /\ UNCHANGED <<database, bucket>> /\ UnchangedByPurge

\* insertPurgeIntent; when it fails nothing is destroyed.
RecordIntent(p) ==
    LET job == purging[p]
    IN /\ job.at = "resolved"
       /\ \/ /\ audit' = [audit EXCEPT ![p] =
                             [asset |-> job.asset, keys |-> job.keys, status |-> "intent"]]
             /\ Continue(p, "recorded") /\ NoFault
          \/ Stop(p) /\ Fault /\ UNCHANGED audit
       /\ UNCHANGED <<assets, versions, bucket, cached>> /\ UnchangedByPurge

\* Mutant of EraseBytes: chunks that failed are counted and passed over.
EraseSomeBytes(p) ==
    /\ purging[p].at = "recorded" /\ Continue(p, "erased")
    /\ \/ bucket' = Without(purging[p].keys) /\ NoFault
       \/ \E erased \in SUBSET purging[p].keys : bucket' = Without(erased) /\ Fault
    /\ UNCHANGED <<database, cached>> /\ UnchangedByPurge

\* deleteR2Keys: a chunk that fails, at whatever key, makes the purge partial.
EraseBytes(p) ==
    /\ purging[p].at = "recorded"
    /\ \/ bucket' = Without(purging[p].keys) /\ Continue(p, "erased") /\ NoFault
       \/ \E erased \in SUBSET purging[p].keys :
             bucket' = Without(erased) /\ Continue(p, "partial") /\ Fault
    /\ UNCHANGED <<database, cached>> /\ UnchangedByPurge

\* hardDeleteAssetRows: the rows of all the versions there are by now.
DropRows(p) ==
    LET a == purging[p].asset
    IN /\ purging[p].at = "erased"
       /\ \/ /\ assets' = [assets EXCEPT ![a] = None] /\ versions' = versions \ Keys(a)
             /\ Continue(p, "dropped") /\ NoFault
          \/ Continue(p, "partial") /\ Fault /\ UNCHANGED <<assets, versions>>
       /\ UNCHANGED <<audit, bucket, cached>> /\ UnchangedByPurge

PurgeEdge(p) ==
    /\ purging[p].at = "dropped" /\ PurgeCache(purging[p].asset)
    /\ Continue(p, "purged")
    /\ UNCHANGED <<database, bucket>> /\ UnchangedByPurge

\* Mutant of Settle: the step reached is written for the status.
SettleAsReached(p) ==
    /\ purging[p].at \in {"purged", "partial"} /\ Stop(p)
    /\ \/ audit' = [audit EXCEPT ![p].status = purging[p].at] /\ NoFault
       \/ Fault /\ UNCHANGED audit
    /\ UNCHANGED <<assets, versions, bucket, cached>> /\ UnchangedByPurge

\* completePurgeAudit, whose failure is only logged.
Settle(p) ==
    /\ purging[p].at \in {"purged", "partial"} /\ Stop(p)
    /\ \/ /\ audit' = [audit EXCEPT ![p].status =
                          IF purging[p].at = "partial" THEN "partial" ELSE "completed"]
          /\ NoFault
       \/ Fault /\ UNCHANGED audit
    /\ UNCHANGED <<assets, versions, bucket, cached>> /\ UnchangedByPurge

PurgeDies(p) ==
    /\ purging[p].at \notin {"idle", "done"} /\ Stop(p) /\ Fault
    /\ UNCHANGED <<database, bucket, cached>> /\ UnchangedByPurge

-----------------------------------------------------------------------------
UploadStep(u) == Presign(u) \/ Put(u) \/ Age(u)

FinalizeStep(c) ==
    Confirm(c) \/ CreateAsset(c) \/ ReadOwner(c) \/ AddVersion(c) \/ FailFinalize(c)

AssetStep(a) == Promote(a) \/ Delete(a, TRUE) \/ Delete(a, FALSE) \/ Expire(a)

ServeStep(u) == Fetch(u) \/ StoreResponse(u)

CronStep ==
    \/ StartSweep \/ StartReconcile \/ DeleteOrphan \/ EndReconcile
    \/ \E a \in Assets : SweepRows(a)
    \/ \E u \in Uploads : SweepBytes(u) \/ Visit(u)

PurgeStep(p) ==
    \/ \E a \in Assets : Resolve(p, a)
    \/ RecordIntent(p) \/ EraseBytes(p) \/ DropRows(p) \/ PurgeEdge(p) \/ Settle(p)
    \/ PurgeDies(p)

Next ==
    \/ \E u \in Uploads : UploadStep(u)
    \/ \E c \in Calls : FinalizeStep(c)
    \/ \E a \in Assets : AssetStep(a)
    \/ \E u \in Viewed : ServeStep(u)
    \/ CronStep \/ CronDies
    \/ \E p \in Purges : PurgeStep(p)

Spec == Init /\ [][Next]_vars

TimePasses == (\E u \in Uploads : Age(u)) \/ \E a \in Assets : Expire(a)

RequestEnds == \E c \in Calls : CreateAsset(c) \/ ReadOwner(c) \/ AddVersion(c)

\* The trigger fires every hour and its calls return; time passes; a finalize
\* request ends.  Nobody has to upload, promote or purge anything.
Fairness == WF_vars(CronStep) /\ WF_vars(TimePasses) /\ WF_vars(RequestEnds)

FairSpec == Spec /\ Fairness

-----------------------------------------------------------------------------
\* Properties.

\* An asset that has a row has the row of its current version: every read of an
\* asset joins the two, so that one without the other is an asset nobody can list,
\* get, promote or give a version, and that the sweep never finds.
AssetsAreReadable ==
    \A a \in Assets : Exists(a) =>
        assets[a].current_version \in versions /\ AssetOf[assets[a].current_version] = a

\* No version has a row without bytes, unless a purge was recorded over its key:
\* not through a sweep or a reconcile whose reads are stale, a late or repeated
\* finalize, nor a purge that fails or dies midway.  This is the safety argument of
\* handleReconcile and of insertPurgeIntent together.
VersionsHaveBytes ==
    \A u \in versions :
        bucket[u] # "none" \/ \E p \in Purges : audit[p] # None /\ u \in audit[p].keys

\* The bytes of every key a purge recorded are gone for good once it is completed.
PurgedKeysAreGone ==
    \A p \in Purges :
        audit[p] # None /\ audit[p].status = "completed" =>
            \A u \in audit[p].keys : bucket[u] = "none"

\* An asset of the library loses its row to a purge alone: a sweep that found it as a
\* chat upload spares what was promoted since, and clearing a conversation hides it.
LibraryIsOnlyPurged ==
    [][\A a \in Assets :
         Exists(a) /\ assets[a].origin = "library" /\ assets'[a] = None =>
            \E p \in Purges : purging[p].asset = a /\ purging[p].at = "erased"]_vars

\* A purge never removes the row of a version whose bytes remain: "row present,
\* bytes gone" is its worst state, "never bytes present, rows gone".
PurgeLeavesNoBytes ==
    [][\A p \in Purges :
         purging[p].at = "erased" /\ purging'[p].at = "dropped" =>
            \A u \in versions \ versions' : bucket'[u] = "none"]_vars

\* Bytes that are there although nothing references them, or only a chat attachment
\* whose conversation was cleared or that has expired.
Unwanted(u) ==
    LET a == AssetOf[u]
    IN /\ bucket[u] # "none"
       /\ \/ u \notin versions
          \/ IsChat(a) /\ (assets[a].deleted \/ assets[a].expiry = "past")

\* Unwanted bytes do not stay: an upload nobody finalized, what a cleared conversation
\* uploaded, keys the sweep failed to delete after it had deleted their rows, a
\* version finalized under a purge, a row a repeated finalize brought back.
UnwantedBytesGo == \A u \in Uploads : []<>~Unwanted(u)

=============================================================================
