---------------------------- MODULE MediaStoreProofs ----------------------------
(***************************************************************************)
(* What is proved of MediaStore, for any assets, uploads and requests, any  *)
(* number of purges at once and any number of failures.                     *)
(***************************************************************************)
EXTENDS MediaStore, TLAPS

USE MediaAssumption, NoneAssumption

\* What a purge remembers: an asset once it is resolved, and from then on a row of
\* purge_audit over the same asset and keys.
PurgeShape ==
    \A p \in Purges :
        LET job == purging[p]
        IN /\ job.at \notin {"idle", "done"} => job.asset \in Assets
           /\ job.at \in {"idle", "resolved"} => audit[p] = None
           /\ job.at \in {"recorded", "erased", "dropped", "purged", "partial"} =>
                 /\ audit[p] \in Audit
                 /\ audit[p].asset = job.asset /\ audit[p].keys = job.keys

TypeInv == TypeOK /\ PurgeShape

LEMMA NewAssetType == \A u \in Uploads : NewAsset(u) \in Asset
  BY DEF NewAsset, Asset

LEMMA WithoutType ==
  ASSUME TypeOK, NEW S
  PROVE /\ Without(S) \in [Uploads -> {"none", "young", "old"}]
        /\ \A u \in Uploads : Without(S)[u] = IF u \in S THEN "none" ELSE bucket[u]
  BY DEF Without, TypeOK

LEMMA FaultType ==
  ASSUME TypeOK, Fault \/ NoFault
  PROVE faults' \in 0 .. MaxFaults
  BY DEF Fault, NoFault, TypeOK

LEMMA InitType == Init => TypeInv
  BY DEF Init, TypeInv, TypeOK, PurgeShape, Cron, NoCron, Purging, NotPurging

-----------------------------------------------------------------------------
\* Type correctness, one lemma per kind of step.

LEMMA UploadType ==
  ASSUME TypeInv, NEW u \in Uploads, UploadStep(u)
  PROVE TypeInv'
<1> USE DEF TypeInv, TypeOK, PurgeShape, database, edge, clients
<1>1. CASE Presign(u)
  BY <1>1 DEF Presign
<1>2. CASE Put(u)
  BY <1>2 DEF Put
<1>3. CASE Age(u)
  BY <1>3 DEF Age
<1>. QED
  BY <1>1, <1>2, <1>3 DEF UploadStep

LEMMA FinalizeType ==
  ASSUME TypeInv, NEW c \in Calls, FinalizeStep(c)
  PROVE TypeInv'
<1> USE DEF database, edge, clients
<1>t. TypeOK /\ PurgeShape
  BY DEF TypeInv
<1>a. ASSUME Answer(c) PROVE finalizing' \in [Calls -> {"idle", "confirmed", "owned", "done"}]
  BY <1>t, <1>a DEF TypeOK, Answer
<1>u. UploadOf[c] \in Uploads /\ AssetOf[UploadOf[c]] \in Assets
  OBVIOUS
<1>1. CASE Confirm(c)
  <2>1. bucket' \in [Uploads -> {"none", "young", "old"}]
    BY <1>1, <1>t, WithoutType DEF Confirm, TypeOK
  <2>2. finalizing' \in [Calls -> {"idle", "confirmed", "owned", "done"}]
    BY <1>1, <1>t, <1>a DEF Confirm, TypeOK
  <2>3. UNCHANGED <<assets, versions, audit, cached, fetching, presigned, cron, purging, faults>>
    BY <1>1 DEF Confirm
  <2>. QED
    BY <2>1, <2>2, <2>3, <1>t DEF TypeInv, TypeOK, PurgeShape
<1>2. CASE CreateAsset(c)
  <2>1. assets' \in [Assets -> Asset \cup {None}]
    BY <1>2, <1>t, <1>u, NewAssetType DEF CreateAsset, TypeOK
  <2>2. versions' \subseteq Uploads
    BY <1>2, <1>t, <1>u DEF CreateAsset, TypeOK
  <2>3. finalizing' \in [Calls -> {"idle", "confirmed", "owned", "done"}]
    BY <1>2, <1>a DEF CreateAsset
  <2>4. UNCHANGED <<audit, bucket, cached, fetching, presigned, cron, purging, faults>>
    BY <1>2 DEF CreateAsset
  <2>. QED
    BY <2>1, <2>2, <2>3, <2>4, <1>t DEF TypeInv, TypeOK, PurgeShape
<1>3. CASE ReadOwner(c)
  <2>1. finalizing' \in [Calls -> {"idle", "confirmed", "owned", "done"}]
    BY <1>3, <1>t, <1>a DEF ReadOwner, TypeOK
  <2>. QED
    BY <2>1, <1>3, <1>t DEF ReadOwner, TypeInv, TypeOK, PurgeShape
<1>4. CASE AddVersion(c)
  <2>1. assets' \in [Assets -> Asset \cup {None}]
    BY <1>4, <1>t, <1>u DEF AddVersion, TypeOK, Exists, Asset
  <2>2. versions' \subseteq Uploads
    BY <1>4, <1>t, <1>u DEF AddVersion, TypeOK
  <2>3. finalizing' \in [Calls -> {"idle", "confirmed", "owned", "done"}]
    BY <1>4, <1>a DEF AddVersion
  <2>4. UNCHANGED <<audit, bucket, cached, fetching, presigned, cron, purging, faults>>
    BY <1>4 DEF AddVersion
  <2>. QED
    BY <2>1, <2>2, <2>3, <2>4, <1>t DEF TypeInv, TypeOK, PurgeShape
<1>5. CASE FailFinalize(c)
  BY <1>5, <1>t, <1>a DEF FailFinalize, TypeInv, TypeOK, PurgeShape
<1>. QED
  BY <1>1, <1>2, <1>3, <1>4, <1>5 DEF FinalizeStep

\* An action on an asset writes a row of the right form.
LEMMA RowType ==
  ASSUME TypeOK, NEW a \in Assets, Exists(a), NEW row,
         \/ row = [assets[a] EXCEPT !.origin = "library", !.expiry = "never", !.deleted = FALSE]
         \/ row = [assets[a] EXCEPT !.deleted = TRUE]
         \/ row = [assets[a] EXCEPT !.expiry = "past"]
  PROVE row \in Asset /\ row.current_version = assets[a].current_version
<1>1. assets[a] \in Asset
  BY DEF TypeOK, Exists
<1>. QED
  BY <1>1 DEF Asset

LEMMA AssetStepForm ==
  ASSUME TypeOK, NEW a \in Assets, AssetStep(a)
  PROVE /\ Exists(a)
        /\ \E row \in Asset : row.current_version = assets[a].current_version
                              /\ assets' = [assets EXCEPT ![a] = row]
        /\ UNCHANGED <<versions, audit, bucket, edge, clients, cron, purging, faults>>
<1>1. CASE Promote(a)
  BY <1>1, RowType DEF Promote, UpdateAsset
<1>2. CASE Delete(a, TRUE) \/ Delete(a, FALSE)
  BY <1>2, RowType DEF Delete, Owned, UpdateAsset
<1>3. CASE Expire(a)
  BY <1>3, RowType DEF Expire, UpdateAsset
<1>. QED
  BY <1>1, <1>2, <1>3 DEF AssetStep

LEMMA AssetType ==
  ASSUME TypeInv, NEW a \in Assets, AssetStep(a)
  PROVE TypeInv'
<1>1. assets' \in [Assets -> Asset \cup {None}]
  BY AssetStepForm DEF TypeInv, TypeOK
<1>2. UNCHANGED <<versions, audit, bucket, edge, clients, cron, purging, faults>>
  BY AssetStepForm DEF TypeInv
<1>. QED
  BY <1>1, <1>2 DEF TypeInv, TypeOK, PurgeShape, edge, clients

LEMMA ServeType ==
  ASSUME TypeInv, NEW u \in Viewed, ServeStep(u)
  PROVE TypeInv'
  BY DEF TypeInv, TypeOK, PurgeShape, ServeStep, Fetch, StoreResponse, database, clients

\* The steps of the trigger.  The form of one keeps cron well-typed whatever the case.
CronFrame == UNCHANGED <<audit, edge, clients, purging>>

LEMMA CronStepFrame ==
  ASSUME CronStep \/ CronDies
  PROVE CronFrame /\ (Fault \/ NoFault)
  BY DEF CronStep, CronDies, StartSweep, StartReconcile, DeleteOrphan, EndReconcile,
         SweepRows, SweepBytes, Visit, UnchangedByCron, CronFrame, Fault, NoFault

LEMMA CronType ==
  ASSUME TypeInv, CronStep \/ CronDies
  PROVE TypeInv'
<1>t. TypeOK /\ PurgeShape
  BY DEF TypeInv
<1>f. CronFrame /\ faults' \in 0 .. MaxFaults
  BY <1>t, CronStepFrame, FaultType
<1>n. NoCron \in Cron
  BY DEF NoCron, Cron
<1> SUFFICES /\ assets' \in [Assets -> Asset \cup {None}] /\ versions' \subseteq Uploads
             /\ bucket' \in [Uploads -> {"none", "young", "old"}] /\ cron' \in Cron
  BY <1>t, <1>f DEF CronFrame, TypeInv, TypeOK, PurgeShape, edge, clients
<1>c. /\ cron \in Cron /\ assets \in [Assets -> Asset \cup {None}] /\ versions \subseteq Uploads
      /\ bucket \in [Uploads -> {"none", "young", "old"}]
  BY <1>t DEF TypeOK
<1>1. CASE StartSweep
  <2>1. cron' \in Cron
    <3>1. /\ {a \in Assets : Expired(a) /\ Keys(a) \cap versions # {}} \in SUBSET Assets
          /\ \A due : {u \in versions : AssetOf[u] \in due} \in SUBSET Uploads
      BY <1>c
    <3> DEFINE due == {a \in Assets : Expired(a) /\ Keys(a) \cap versions # {}}
               keys == {u \in versions : AssetOf[u] \in due}
    <3>2. cron' = [NoCron EXCEPT !.at = "sweep", !.due = due, !.keys = keys]
          \/ cron' = [NoCron EXCEPT !.at = "sweep"]
      BY <1>1 DEF StartSweep
    <3>3. due \in SUBSET Assets /\ keys \in SUBSET Uploads
      BY <3>1
    <3> HIDE DEF due, keys
    <3>. QED
      BY <3>2, <3>3 DEF Cron, NoCron
  <2>. QED
    BY <2>1, <1>1, <1>c DEF StartSweep
<1>2. CASE StartReconcile
  <2>1. cron' \in Cron
    BY <1>2, <1>c, <1>n DEF StartReconcile, Cron, NoCron
  <2>. QED
    BY <2>1, <1>2, <1>c DEF StartReconcile
<1>3. CASE DeleteOrphan
  <2>1. cron' \in Cron
    BY <1>3, <1>c, <1>n DEF DeleteOrphan, Cron
  <2>2. bucket' \in [Uploads -> {"none", "young", "old"}]
    BY <1>3, <1>t, WithoutType DEF DeleteOrphan, TypeOK
  <2>. QED
    BY <2>1, <2>2, <1>3, <1>c DEF DeleteOrphan
<1>4. CASE EndReconcile \/ CronDies
  BY <1>4, <1>c, <1>n DEF EndReconcile, CronDies
<1>5. ASSUME NEW a \in Assets, SweepRows(a)
      PROVE /\ assets' \in [Assets -> Asset \cup {None}] /\ versions' \subseteq Uploads
            /\ bucket' = bucket /\ cron' \in Cron
  <2>1. cron' \in Cron
    <3> DEFINE rest == [cron EXCEPT !.due = @ \ {a}]
               k == cron.keys \cap Keys(a)
    <3>1. cron.due \ {a} \in SUBSET Assets /\ k \in SUBSET Uploads
      BY <1>c DEF Cron
    <3>2. rest \in Cron
      BY <3>1, <1>c DEF Cron
    <3> HIDE DEF rest, k
    <3>3. [rest EXCEPT !.at = "bytes", !.erasing = k] \in Cron
      BY <3>1, <3>2 DEF Cron
    <3>4. cron' = rest \/ cron' = [rest EXCEPT !.at = "bytes", !.erasing = k]
      BY <1>5 DEF SweepRows, rest, k
    <3>. QED
      BY <3>2, <3>3, <3>4
  <2>. QED
    BY <2>1, <1>5, <1>c DEF SweepRows
<1>6. ASSUME NEW u \in Uploads, SweepBytes(u) \/ Visit(u)
      PROVE /\ assets' = assets /\ versions' = versions
            /\ bucket' \in [Uploads -> {"none", "young", "old"}] /\ cron' \in Cron
  <2>1. cron' \in Cron
    <3>1. /\ cron.erasing \ {u} \in SUBSET Uploads /\ cron.left \ {u} \in SUBSET Uploads
          /\ {u} \in SUBSET Uploads /\ {} \in SUBSET Uploads
      BY <1>c DEF Cron
    <3>2. CASE SweepBytes(u)
      <4> DEFINE rest == cron.erasing \ {u}
                 at == IF rest = {} THEN "sweep" ELSE "bytes"
      <4>1. /\ [cron EXCEPT !.erasing = rest, !.at = at] \in Cron
            /\ [cron EXCEPT !.erasing = {}, !.at = "sweep"] \in Cron
        <5>1. rest \in SUBSET Uploads /\ at \in {"sweep", "bytes"}
          BY <3>1
        <5> HIDE DEF rest, at
        <5>. QED
          BY <5>1, <1>c DEF Cron
      <4>. QED
        BY <4>1, <3>2 DEF SweepBytes
    <3>3. CASE Visit(u)
      <4> DEFINE rest == cron.left \ {u}
      <4>1. /\ [cron EXCEPT !.at = "delete", !.left = rest, !.erasing = {u}] \in Cron
            /\ [cron EXCEPT !.left = rest] \in Cron
        <5> HIDE DEF rest
        <5>. QED
          BY <3>1, <1>c DEF Cron, rest
      <4>. QED
        BY <4>1, <3>3 DEF Visit
    <3>. QED
      BY <3>2, <3>3, <1>6
  <2>2. bucket' \in [Uploads -> {"none", "young", "old"}]
    BY <1>6, <1>t, WithoutType DEF SweepBytes, Visit, TypeOK
  <2>. QED
    BY <2>1, <2>2, <1>6 DEF SweepBytes, Visit
<1>. QED
  BY <1>1, <1>2, <1>3, <1>4, <1>5, <1>6, <1>c DEF CronStep

\* A purge other than the one that moves keeps its own part of the invariant.
LEMMA PurgeMove ==
  ASSUME TypeInv, NEW p \in Purges, NEW job \in Purging,
         purging' = [purging EXCEPT ![p] = job],
         NEW row \in Audit \cup {None}, audit' = [audit EXCEPT ![p] = row],
         job.at \notin {"idle", "done"} => job.asset \in Assets,
         job.at \in {"idle", "resolved"} => row = None,
         job.at \in {"recorded", "erased", "dropped", "purged", "partial"} =>
            row \in Audit /\ row.asset = job.asset /\ row.keys = job.keys
  PROVE /\ purging' \in [Purges -> Purging] /\ audit' \in [Purges -> Audit \cup {None}]
        /\ PurgeShape'
  BY DEF TypeInv, TypeOK, PurgeShape

\* What every step of a purge leaves alone, and what the steps of one purge are: its own
\* record and its own row of purge_audit.
LEMMA PurgeStepFrame ==
  ASSUME TypeOK, NEW p \in Purges, PurgeStep(p)
  PROVE /\ UNCHANGED <<clients, cron, fetching>> /\ faults' \in 0 .. MaxFaults
        /\ cached' \subseteq cached
<1>1. UNCHANGED <<clients, cron, fetching>> /\ (Fault \/ NoFault) /\ cached' \subseteq cached
  BY DEF PurgeStep, Resolve, RecordIntent, EraseBytes, DropRows, PurgeEdge, Settle, PurgeDies,
         UnchangedByPurge, PurgeCache, database
<1>. QED
  BY <1>1, FaultType

LEMMA PurgeData ==
  ASSUME TypeOK, NEW p \in Purges, PurgeStep(p)
  PROVE /\ assets' \in [Assets -> Asset \cup {None}] /\ versions' \subseteq Uploads
        /\ bucket' \in [Uploads -> {"none", "young", "old"}]
<1>t. /\ assets \in [Assets -> Asset \cup {None}] /\ versions \subseteq Uploads
      /\ bucket \in [Uploads -> {"none", "young", "old"}]
  BY DEF TypeOK
<1>1. CASE EraseBytes(p)
  BY <1>1, <1>t, WithoutType DEF EraseBytes, database
<1>2. CASE DropRows(p)
  BY <1>2, <1>t DEF DropRows
<1>3. ASSUME ~EraseBytes(p), ~DropRows(p) PROVE UNCHANGED <<assets, versions, bucket>>
  BY <1>3 DEF PurgeStep, Resolve, RecordIntent, PurgeEdge, Settle, PurgeDies, database
<1>. QED
  BY <1>1, <1>2, <1>3, <1>t

\* A step of p takes it to a record `job` and its audit to `row`.
Moves(p, job, row) ==
    /\ job \in Purging /\ row \in Audit \cup {None}
    /\ purging' = [purging EXCEPT ![p] = job] /\ audit' = [audit EXCEPT ![p] = row]
    /\ job.at \notin {"idle", "done"} => job.asset \in Assets
    /\ job.at \in {"idle", "resolved"} => row = None
    /\ job.at \in {"recorded", "erased", "dropped", "purged", "partial"} =>
          row \in Audit /\ row.asset = job.asset /\ row.keys = job.keys

LEMMA ContinueMoves ==
  ASSUME TypeInv, NEW p \in Purges, NEW at, NEW row \in Audit,
         purging[p].at \notin {"idle", "done"},
         at \in {"recorded", "erased", "dropped", "purged", "partial"},
         Continue(p, at), audit' = [audit EXCEPT ![p] = row],
         row.asset = purging[p].asset, row.keys = purging[p].keys
  PROVE \E job, r : Moves(p, job, r) /\ job.at = at /\ r = row
<1> DEFINE job == [purging[p] EXCEPT !.at = at]
<1>1. purging[p] \in Purging /\ purging[p].asset \in Assets
  BY DEF TypeInv, TypeOK, PurgeShape
<1>2. job \in Purging /\ job.asset = purging[p].asset /\ job.keys = purging[p].keys /\ job.at = at
  BY <1>1 DEF Purging
<1>3. purging' = [purging EXCEPT ![p] = job]
  BY <1>1 DEF Continue, TypeInv, TypeOK
<1> HIDE DEF job
<1>4. Moves(p, job, row)
  BY <1>1, <1>2, <1>3 DEF Moves
<1>. QED
  BY <1>2, <1>4

LEMMA StopMoves ==
  ASSUME TypeInv, NEW p \in Purges, NEW row \in Audit \cup {None}, Stop(p),
         audit' = [audit EXCEPT ![p] = row]
  PROVE Moves(p, NotPurging("done"), row)
  BY DEF Moves, Stop, NotPurging, Purging

LEMMA PurgeMoves ==
  ASSUME TypeInv, NEW p \in Purges, PurgeStep(p)
  PROVE \E job, row : Moves(p, job, row)
<1>t. /\ TypeOK /\ PurgeShape /\ audit[p] \in Audit \cup {None} /\ purging[p] \in Purging
      /\ audit \in [Purges -> Audit \cup {None}]
  BY DEF TypeInv, TypeOK
<1>u. ASSUME UNCHANGED audit PROVE audit' = [audit EXCEPT ![p] = audit[p]]
  BY <1>t, <1>u
<1>s. ASSUME Stop(p), UNCHANGED audit PROVE \E job, row : Moves(p, job, row)
  BY <1>t, <1>s, <1>u, StopMoves
<1>r. ASSUME purging[p].at \in {"recorded", "erased", "dropped", "purged", "partial"}
      PROVE /\ audit[p] \in Audit /\ audit[p].asset = purging[p].asset
            /\ audit[p].keys = purging[p].keys
  BY <1>t, <1>r DEF PurgeShape
<1>1. ASSUME NEW a \in Assets, Resolve(p, a) PROVE \E job, row : Moves(p, job, row)
  <2> DEFINE job == [at |-> "resolved", asset |-> a, keys |-> versions \cap Keys(a)]
  <2>0. UNCHANGED audit
    BY <1>1 DEF Resolve, database
  <2>1. CASE Stop(p)
    BY <2>0, <2>1, <1>s
  <2>2. CASE purging' = [purging EXCEPT ![p] = job]
    <3>1. job \in Purging /\ job.at = "resolved" /\ job.asset = a
      BY <1>t DEF Purging, Keys, TypeOK
    <3>2. audit[p] = None
      BY <1>1, <1>t DEF Resolve, PurgeShape
    <3> HIDE DEF job
    <3>3. Moves(p, job, None)
      BY <2>0, <2>2, <3>1, <3>2, <1>u DEF Moves
    <3>. QED
      BY <3>3
  <2>. QED
    BY <1>1, <2>1, <2>2 DEF Resolve
<1>2. CASE RecordIntent(p)
  <2> DEFINE row == [asset |-> purging[p].asset, keys |-> purging[p].keys, status |-> "intent"]
  <2>1. CASE Stop(p) /\ UNCHANGED audit
    BY <2>1, <1>s
  <2>2. CASE Continue(p, "recorded") /\ audit' = [audit EXCEPT ![p] = row]
    <3>1. purging[p].asset \in Assets /\ purging[p].keys \in SUBSET Uploads
          /\ purging[p].at \notin {"idle", "done"}
      BY <1>2, <1>t DEF RecordIntent, PurgeShape, Purging
    <3>2. row \in Audit /\ row.asset = purging[p].asset /\ row.keys = purging[p].keys
      BY <3>1 DEF Audit
    <3> HIDE DEF row
    <3>. QED
      BY <2>2, <3>1, <3>2, ContinueMoves
  <2>. QED
    BY <1>2, <2>1, <2>2 DEF RecordIntent
<1>3. CASE EraseBytes(p) \/ DropRows(p) \/ PurgeEdge(p)
  <2>1. PICK at \in {"erased", "dropped", "purged", "partial"} : Continue(p, at)
    BY <1>3 DEF EraseBytes, DropRows, PurgeEdge
  <2>2. UNCHANGED audit /\ purging[p].at \in {"recorded", "erased", "dropped"}
    BY <1>3 DEF EraseBytes, DropRows, PurgeEdge, database
  <2>. QED
    BY <2>1, <2>2, <1>r, <1>u, ContinueMoves
<1>4. CASE Settle(p)
  <2>1. audit[p] \in Audit
    BY <1>4, <1>r DEF Settle
  <2>2. PICK row \in Audit : audit' = [audit EXCEPT ![p] = row]
    <3>1. CASE UNCHANGED audit
      BY <3>1, <2>1, <1>u
    <3>2. ASSUME NEW status \in {"partial", "completed"},
                 audit' = [audit EXCEPT ![p].status = status]
          PROVE \E row \in Audit : audit' = [audit EXCEPT ![p] = row]
      <4>1. [audit[p] EXCEPT !.status = status] \in Audit
        BY <2>1 DEF Audit
      <4>. QED
        BY <4>1, <3>2, <1>t
    <3>. QED
      BY <1>4, <3>1, <3>2 DEF Settle
  <2>. QED
    BY <1>4, <2>2, StopMoves DEF Settle
<1>5. CASE PurgeDies(p)
  BY <1>5, <1>s DEF PurgeDies, database
<1>. QED
  BY <1>1, <1>2, <1>3, <1>4, <1>5 DEF PurgeStep

LEMMA PurgeType ==
  ASSUME TypeInv, NEW p \in Purges, PurgeStep(p)
  PROVE TypeInv'
<1>1. PICK job, row : Moves(p, job, row)
  BY PurgeMoves
<1>2. /\ purging' \in [Purges -> Purging] /\ audit' \in [Purges -> Audit \cup {None}]
      /\ PurgeShape'
  BY <1>1, PurgeMove DEF Moves
<1>. QED
  BY <1>2, PurgeStepFrame, PurgeData DEF TypeInv, TypeOK, clients

LEMMA StepType == TypeInv /\ [Next]_vars => TypeInv'
<1> SUFFICES ASSUME TypeInv, [Next]_vars PROVE TypeInv'
  OBVIOUS
<1>1. CASE UNCHANGED vars
  BY <1>1 DEF vars, database, edge, clients, TypeInv, TypeOK, PurgeShape
<1>. QED
  BY <1>1, UploadType, FinalizeType, AssetType, ServeType, CronType, PurgeType DEF Next

\* Every variable keeps its type, whatever the interleaving.
THEOREM MediaTypeOK == Spec => []TypeOK
<1>1. Spec => []TypeInv
  BY InitType, StepType, PTL DEF Spec
<1>. QED
  BY <1>1, PTL DEF TypeInv

-----------------------------------------------------------------------------
\* Who writes what.

LEMMA UploadFrame ==
  ASSUME NEW u \in Uploads, UploadStep(u)
  PROVE UNCHANGED <<assets, versions, audit, finalizing, cron, purging>>
  BY DEF UploadStep, Presign, Put, Age, database, edge, clients

LEMMA FinalizeFrame ==
  ASSUME NEW c \in Calls, FinalizeStep(c)
  PROVE UNCHANGED <<audit, presigned, cron, purging>>
  BY DEF FinalizeStep, Confirm, CreateAsset, ReadOwner, AddVersion, FailFinalize, database, edge

LEMMA AssetFrame ==
  ASSUME TypeOK, NEW a \in Assets, AssetStep(a)
  PROVE UNCHANGED <<versions, audit, bucket, presigned, finalizing, cron, purging>>
  BY AssetStepForm DEF clients

LEMMA ServeFrame ==
  ASSUME NEW u \in Viewed, ServeStep(u)
  PROVE UNCHANGED <<assets, versions, audit, bucket, presigned, finalizing, cron, purging>>
  BY DEF ServeStep, Fetch, StoreResponse, database, clients

LEMMA CronLeaves ==
  ASSUME CronStep \/ CronDies
  PROVE UNCHANGED <<audit, presigned, finalizing, purging>>
  BY CronStepFrame DEF CronFrame, clients

LEMMA PurgeLeaves ==
  ASSUME TypeOK, NEW p \in Purges, PurgeStep(p)
  PROVE UNCHANGED <<presigned, finalizing, cron>>
  BY PurgeStepFrame DEF clients

\* A step is one of these, and the variables each leaves alone are in its frame.
LEMMA Cases ==
  ASSUME [Next]_vars
  PROVE \/ \E u \in Uploads : UploadStep(u)
        \/ \E c \in Calls : FinalizeStep(c)
        \/ \E a \in Assets : AssetStep(a)
        \/ \E u \in Viewed : ServeStep(u)
        \/ CronStep \/ CronDies
        \/ \E p \in Purges : PurgeStep(p)
        \/ UNCHANGED <<assets, versions, audit, bucket, presigned, finalizing, cron, purging>>
  BY DEF Next, vars, database, clients

\* Rows of versions are added for requests in flight alone.
LEMMA VersionsGrow ==
  ASSUME TypeInv, [Next]_vars, NEW u \in versions', u \notin versions
  PROVE /\ InFlight(u)
        /\ UNCHANGED <<bucket, audit, cron, purging, presigned>>
<1>t. TypeOK
  BY DEF TypeInv
<1>1. ASSUME NEW c \in Calls, FinalizeStep(c) PROVE InFlight(u) /\ UNCHANGED bucket
  <2>1. CreateAsset(c) \/ AddVersion(c)
    BY <1>1 DEF FinalizeStep, Confirm, ReadOwner, FailFinalize, database
  <2>2. UploadOf[c] = u /\ finalizing[c] \in {"confirmed", "owned"}
    BY <2>1 DEF CreateAsset, AddVersion
  <2>. QED
    BY <2>1, <2>2 DEF InFlight, CreateAsset, AddVersion
<1>2. ASSUME CronStep \/ CronDies PROVE FALSE
  BY <1>2 DEF CronStep, CronDies, StartSweep, StartReconcile, DeleteOrphan, EndReconcile,
              SweepRows, SweepBytes, Visit
<1>3. ASSUME NEW p \in Purges, PurgeStep(p) PROVE FALSE
  BY <1>3 DEF PurgeStep, Resolve, RecordIntent, EraseBytes, DropRows, PurgeEdge, Settle,
              PurgeDies, database
<1>. QED
  BY <1>t, <1>1, <1>2, <1>3, Cases, UploadFrame, FinalizeFrame, AssetFrame, ServeFrame

\* A request comes to be in flight over an object that is there, is not too large, and
\* that no job is about to delete.
LEMMA CallsGrow ==
  ASSUME TypeInv, [Next]_vars, NEW c \in Calls,
         finalizing'[c] \in {"confirmed", "owned"},
         finalizing[c] \notin {"confirmed", "owned"}
  PROVE /\ presigned[UploadOf[c]] = "sent" /\ bucket[UploadOf[c]] # "none"
        /\ Overlapping \/ UploadOf[c] \notin cron.erasing
        /\ UNCHANGED <<bucket, versions, audit, cron, purging, presigned>>
<1>t. TypeOK
  BY DEF TypeInv
<1>1. ASSUME NEW d \in Calls, FinalizeStep(d)
      PROVE /\ presigned[UploadOf[c]] = "sent" /\ bucket[UploadOf[c]] # "none"
            /\ Overlapping \/ UploadOf[c] \notin cron.erasing
            /\ UNCHANGED <<bucket, versions>>
  <2>a. ASSUME Answer(d) PROVE FALSE
    BY <1>t, <2>a DEF Answer, TypeOK
  <2>b. ~ReadOwner(d)
    BY <1>t, <2>a DEF ReadOwner, TypeOK
  <2>1. Confirm(d) /\ ~Answer(d)
    BY <1>1, <2>a, <2>b DEF FinalizeStep, CreateAsset, AddVersion, FailFinalize
  <2>2. c = d
    BY <1>t, <2>1 DEF Confirm, TypeOK
  <2>. QED
    BY <2>1, <2>2 DEF Confirm, Erasing, database
<1>. QED
  BY <1>t, <1>1, Cases, UploadFrame, FinalizeFrame, AssetFrame, ServeFrame, CronLeaves, PurgeLeaves

LEMMA CronBytes ==
  ASSUME TypeOK, CronStep \/ CronDies, NEW u \in Uploads
  PROVE bucket'[u] = bucket[u] \/ (u \in cron.erasing /\ bucket'[u] = "none")
<1>1. ASSUME NEW v \in Uploads, SweepBytes(v)
      PROVE bucket'[u] = bucket[u] \/ (u \in cron.erasing /\ bucket'[u] = "none")
  BY <1>1, WithoutType DEF SweepBytes
<1>2. CASE DeleteOrphan
  BY <1>2, WithoutType DEF DeleteOrphan
<1>3. ASSUME ~DeleteOrphan, ~\E v \in Uploads : SweepBytes(v) PROVE UNCHANGED bucket
  BY <1>3 DEF CronStep, CronDies, StartSweep, StartReconcile, EndReconcile, SweepRows, Visit
<1>. QED
  BY <1>1, <1>2, <1>3

\* Bytes are lost to the refusal of what is too large, to a job, or to a purge.
LEMMA BytesAreLost ==
  ASSUME TypeInv, [Next]_vars, NEW u \in Uploads, bucket[u] # "none", bucket'[u] = "none"
  PROVE \/ presigned[u] = "oversized"
        \/ u \in cron.erasing
        \/ \E p \in Purges : purging[p].at = "recorded" /\ u \in purging[p].keys
<1>t. TypeOK
  BY DEF TypeInv
<1>0. ASSUME NEW v \in Uploads, UploadStep(v) PROVE FALSE
  BY <1>0, <1>t DEF UploadStep, Presign, Put, Age, TypeOK
<1>1. ASSUME NEW c \in Calls, FinalizeStep(c) PROVE presigned[u] = "oversized"
  BY <1>1, <1>t, WithoutType
     DEF FinalizeStep, Confirm, CreateAsset, ReadOwner, AddVersion, FailFinalize
<1>2. ASSUME CronStep \/ CronDies PROVE u \in cron.erasing
  BY <1>2, <1>t, CronBytes
<1>3. ASSUME NEW p \in Purges, PurgeStep(p)
      PROVE purging[p].at = "recorded" /\ u \in purging[p].keys
  <2>1. CASE EraseBytes(p)
    BY <2>1, <1>t, WithoutType DEF EraseBytes
  <2>. QED
    BY <1>3, <2>1 DEF PurgeStep, Resolve, RecordIntent, DropRows, PurgeEdge, Settle, PurgeDies
<1>. QED
  BY <1>t, <1>0, <1>1, <1>2, <1>3, Cases, AssetFrame, ServeFrame

\* Bytes come with the one PUT of a URL.
LEMMA BytesAreGained ==
  ASSUME TypeInv, [Next]_vars, NEW u \in Uploads, bucket[u] = "none", bucket'[u] # "none"
  PROVE presigned[u] = "signed" /\ UNCHANGED <<audit, purging>>
<1>t. TypeOK
  BY DEF TypeInv
<1>0. ASSUME NEW v \in Uploads, UploadStep(v) PROVE presigned[u] = "signed"
  BY <1>0, <1>t DEF UploadStep, Presign, Put, Age, TypeOK
<1>1. ASSUME NEW c \in Calls, FinalizeStep(c) PROVE FALSE
  BY <1>1, <1>t, WithoutType
     DEF FinalizeStep, Confirm, CreateAsset, ReadOwner, AddVersion, FailFinalize
<1>2. ASSUME CronStep \/ CronDies PROVE FALSE
  BY <1>2, <1>t, CronBytes
<1>3. ASSUME NEW p \in Purges, PurgeStep(p) PROVE FALSE
  <2>1. CASE EraseBytes(p)
    BY <2>1, <1>t, WithoutType DEF EraseBytes
  <2>. QED
    BY <1>3, <2>1 DEF PurgeStep, Resolve, RecordIntent, DropRows, PurgeEdge, Settle, PurgeDies
<1>. QED
  BY <1>t, <1>0, <1>1, <1>2, <1>3, Cases, UploadFrame, AssetFrame, ServeFrame

LEMMA SentStays ==
  ASSUME TypeInv, [Next]_vars, NEW u \in Uploads, presigned[u] = "sent"
  PROVE presigned'[u] = "sent"
<1>t. TypeOK
  BY DEF TypeInv
<1>0. ASSUME NEW v \in Uploads, UploadStep(v) PROVE presigned'[u] = "sent"
  BY <1>0, <1>t DEF UploadStep, Presign, Put, Age, clients, TypeOK
<1>. QED
  BY <1>t, <1>0, Cases, FinalizeFrame, AssetFrame, ServeFrame, CronLeaves, PurgeLeaves

\* What a job is about to delete, it has found unreferenced and not being finalized.
LEMMA ErasingGrows ==
  ASSUME TypeInv, [Next]_vars, NEW u \in cron'.erasing, u \notin cron.erasing
  PROVE /\ u \notin versions' /\ (Overlapping \/ ~InFlight(u))
        /\ UNCHANGED finalizing
<1>t. TypeOK
  BY DEF TypeInv
<1>1. ASSUME CronStep \/ CronDies PROVE u \notin versions' /\ (Overlapping \/ ~InFlight(u))
  <2>c. cron \in Cron
    BY <1>t DEF TypeOK
  <2>1. ASSUME NEW a \in Assets, SweepRows(a)
        PROVE u \notin versions' /\ (Overlapping \/ ~InFlight(u))
    <3> DEFINE rest == [cron EXCEPT !.due = @ \ {a}]
               k == cron.keys \cap Keys(a)
    <3>1. rest.erasing = cron.erasing
      BY <2>c DEF Cron
    <3>2. cron' # rest
      BY <3>1
    <3>3. versions' = versions \ Keys(a) /\ cron' = [rest EXCEPT !.at = "bytes", !.erasing = k]
      BY <2>1, <3>2 DEF SweepRows
    <3>4. u \in k
      <4>1. rest \in [at : {"idle", "sweep", "bytes", "reconcile", "delete"}, due : SUBSET Assets,
                      keys : SUBSET Uploads, erasing : SUBSET Uploads, left : SUBSET Uploads]
        BY <2>c DEF Cron
      <4> HIDE DEF rest, k
      <4>. QED
        BY <4>1, <3>3
    <3>. QED
      BY <2>1, <3>3, <3>4 DEF SweepRows
  <2>2. ASSUME NEW v \in Uploads, Visit(v)
        PROVE u \notin versions' /\ (Overlapping \/ ~InFlight(u))
    <3>1. CASE Orphan(v) /\ (Overlapping \/ ~InFlight(v))
               /\ cron' = [cron EXCEPT !.at = "delete", !.left = @ \ {v}, !.erasing = {v}]
      <4>1. cron'.erasing = {v}
        BY <3>1, <2>c DEF Cron
      <4>. QED
        BY <3>1, <4>1, <2>2 DEF Visit, Orphan
    <3>2. CASE cron' = [cron EXCEPT !.left = @ \ {v}]
      BY <3>2, <2>c DEF Cron
    <3>. QED
      BY <2>2, <3>1, <3>2 DEF Visit
  <2>3. ASSUME NEW v \in Uploads, SweepBytes(v) PROVE FALSE
    <3>1. cron'.erasing \subseteq cron.erasing
      BY <2>3, <2>c DEF SweepBytes, Cron
    <3>. QED
      BY <3>1
  <2>4. CASE StartSweep
    <3>1. \A due, keys : [NoCron EXCEPT !.at = "sweep", !.due = due, !.keys = keys].erasing = {}
      BY DEF NoCron
    <3>2. [NoCron EXCEPT !.at = "sweep"].erasing = {}
      BY DEF NoCron
    <3>. QED
      BY <2>4, <3>1, <3>2 DEF StartSweep
  <2>5. CASE StartReconcile \/ EndReconcile \/ CronDies
    <3>1. [NoCron EXCEPT !.at = "reconcile", !.keys = versions, !.left = Uploads].erasing = {}
          /\ NoCron.erasing = {}
      BY DEF NoCron
    <3>. QED
      BY <3>1, <2>5 DEF StartReconcile, EndReconcile, CronDies
  <2>6. CASE DeleteOrphan
    <3>1. [cron EXCEPT !.at = "reconcile", !.erasing = {}].erasing = {} /\ NoCron.erasing = {}
      BY <2>c DEF Cron, NoCron
    <3>. QED
      BY <3>1, <2>6 DEF DeleteOrphan
  <2>. QED
    BY <1>1, <2>1, <2>2, <2>3, <2>4, <2>5, <2>6 DEF CronStep
<1>. QED
  BY <1>t, <1>1, Cases, UploadFrame, FinalizeFrame, AssetFrame, ServeFrame, CronLeaves, PurgeLeaves

\* The keys a purge has are keys it read from the rows, and past their deletion they
\* have no bytes.
LEMMA PurgeKeys ==
  ASSUME TypeInv, [Next]_vars, NEW p \in Purges
  PROVE /\ purging'[p].keys \subseteq purging[p].keys \cup versions
        /\ purging'[p].at \in {"erased", "dropped", "purged"} =>
              /\ purging'[p].keys = purging[p].keys
              /\ \/ purging[p].at \in {"erased", "dropped", "purged"}
                 \/ \A u \in purging[p].keys : bucket'[u] = "none"
<1>t. TypeOK
  BY DEF TypeInv
<1>s. ASSUME UNCHANGED purging
      PROVE /\ purging'[p].keys \subseteq purging[p].keys \cup versions
            /\ purging'[p].at \in {"erased", "dropped", "purged"} =>
                  /\ purging'[p].keys = purging[p].keys
                  /\ purging[p].at \in {"erased", "dropped", "purged"}
  BY <1>s
<1>1. ASSUME NEW q \in Purges, PurgeStep(q)
      PROVE /\ purging'[p].keys \subseteq purging[p].keys \cup versions
            /\ purging'[p].at \in {"erased", "dropped", "purged"} =>
                  /\ purging'[p].keys = purging[p].keys
                  /\ \/ purging[p].at \in {"erased", "dropped", "purged"}
                     \/ \A u \in purging[p].keys : bucket'[u] = "none"
  <2>t. purging \in [Purges -> Purging] /\ purging[p] \in Purging
    BY <1>t DEF TypeOK
  <2>1. ASSUME p # q PROVE purging'[p] = purging[p]
    BY <1>1, <2>1, <2>t DEF PurgeStep, Resolve, RecordIntent, EraseBytes, DropRows, PurgeEdge,
                            Settle, PurgeDies, Continue, Stop
  <2>2. ASSUME Stop(p) PROVE purging'[p].keys = {} /\ purging'[p].at = "done"
    BY <2>2, <2>t DEF Stop, NotPurging
  <2>3. ASSUME NEW at, Continue(p, at)
        PROVE purging'[p].keys = purging[p].keys /\ purging'[p].at = at
    BY <2>3, <2>t DEF Continue, Purging
  <2>4. ASSUME NEW a \in Assets, Resolve(p, a), ~Stop(p)
        PROVE purging'[p].keys \subseteq versions /\ purging'[p].at = "resolved"
    BY <2>4, <2>t DEF Resolve
  <2>5. ASSUME p = q, EraseBytes(p), Continue(p, "erased")
        PROVE \A u \in purging[p].keys : bucket'[u] = "none"
    <3>1. bucket' = Without(purging[p].keys)
      <4>1. ~Continue(p, "partial")
        BY <2>5, <2>3
      <4>. QED
        BY <2>5, <4>1 DEF EraseBytes
    <3>. QED
      BY <3>1, <1>t, <2>t, WithoutType DEF Purging
  <2>6. CASE p = q /\ EraseBytes(p)
    <3>1. Continue(p, "erased") \/ Continue(p, "partial")
      BY <2>6 DEF EraseBytes
    <3>. QED
      BY <2>6, <3>1, <2>3, <2>5
  <2>7. CASE p = q /\ (DropRows(p) \/ PurgeEdge(p))
    <3>1. purging[p].at \in {"erased", "dropped"}
          /\ \E at \in {"dropped", "purged", "partial"} : Continue(p, at)
      BY <2>7 DEF DropRows, PurgeEdge
    <3>. QED
      BY <3>1, <2>3
  <2>8. CASE p = q /\ (RecordIntent(p) \/ Settle(p) \/ PurgeDies(p))
    <3>1. Stop(p) \/ Continue(p, "recorded")
      BY <2>8 DEF RecordIntent, Settle, PurgeDies
    <3>. QED
      BY <3>1, <2>2, <2>3
  <2>9. CASE p = q /\ \E a \in Assets : Resolve(p, a)
    BY <2>9, <2>2, <2>4
  <2>. QED
    BY <1>1, <2>1, <2>6, <2>7, <2>8, <2>9 DEF PurgeStep
<1>. QED
  BY <1>t, <1>s, <1>1, Cases, UploadFrame, FinalizeFrame, AssetFrame, ServeFrame, CronLeaves

\* A row of purge_audit keeps its keys; it is written for a purge that has resolved,
\* and completed for one that has gone all the way.
LEMMA AuditRows ==
  ASSUME TypeInv, [Next]_vars, NEW p \in Purges
  PROVE /\ audit[p] # None => audit'[p] # None /\ audit'[p].keys = audit[p].keys
        /\ audit'[p] # None /\ audit[p] = None =>
              audit'[p].keys = purging[p].keys /\ audit'[p].status = "intent"
        /\ audit'[p] # None /\ audit[p] # None /\ audit'[p].status = "completed" =>
              \/ audit[p].status = "completed"
              \/ purging[p].at = "purged" /\ UNCHANGED bucket
<1>t. TypeOK /\ PurgeShape
  BY DEF TypeInv
<1>a. audit \in [Purges -> Audit \cup {None}] /\ None \notin Audit
  BY <1>t DEF TypeOK
<1>1. ASSUME NEW q \in Purges, PurgeStep(q), audit' # audit
      PROVE \/ RecordIntent(q) /\ audit[q] = None /\ audit' = [audit EXCEPT ![q] =
                   [asset |-> purging[q].asset, keys |-> purging[q].keys, status |-> "intent"]]
            \/ /\ Settle(q) /\ audit[q] \in Audit
               /\ audit' = [audit EXCEPT ![q].status =
                              IF purging[q].at = "partial" THEN "partial" ELSE "completed"]
  BY <1>1, <1>t DEF PurgeStep, Resolve, RecordIntent, EraseBytes, DropRows, PurgeEdge, Settle,
                    PurgeDies, database, PurgeShape
<1>2. ASSUME NEW q \in Purges, RecordIntent(q), audit[q] = None,
             audit' = [audit EXCEPT ![q] =
                   [asset |-> purging[q].asset, keys |-> purging[q].keys, status |-> "intent"]]
      PROVE /\ audit[p] # None => audit'[p] = audit[p]
            /\ audit'[p] # None /\ audit[p] = None =>
                  audit'[p].keys = purging[p].keys /\ audit'[p].status = "intent"
  BY <1>2, <1>a
<1>3. ASSUME NEW q \in Purges, Settle(q), audit[q] \in Audit,
             audit' = [audit EXCEPT ![q].status =
                              IF purging[q].at = "partial" THEN "partial" ELSE "completed"]
      PROVE /\ audit[p] # None => audit'[p] # None /\ audit'[p].keys = audit[p].keys
            /\ audit[p] = None => audit'[p] = None
            /\ audit[p] # None /\ audit'[p].status = "completed" =>
                  \/ audit[p].status = "completed"
                  \/ purging[p].at = "purged" /\ UNCHANGED bucket
  <2> DEFINE status == IF purging[q].at = "partial" THEN "partial" ELSE "completed"
             row == [audit[q] EXCEPT !.status = status]
  <2>1. row \in Audit /\ row.keys = audit[q].keys /\ row.status = status
    BY <1>3 DEF Audit
  <2>2. audit' = [audit EXCEPT ![q] = row]
    BY <1>3, <1>a
  <2>3. UNCHANGED bucket /\ (status = "completed" => purging[q].at = "purged")
    BY <1>3 DEF Settle
  <2>4. status \in {"partial", "completed"}
    OBVIOUS
  <2> HIDE DEF status, row
  <2>5. CASE p = q
    BY <2>1, <2>2, <2>3, <2>5, <1>3, <1>a
  <2>6. CASE p # q
    BY <2>2, <2>6, <1>a
  <2>. QED
    BY <2>5, <2>6
<1>. QED
  BY <1>t, <1>1, <1>2, <1>3, <1>a, Cases, UploadFrame, FinalizeFrame, AssetFrame, ServeFrame, CronLeaves

-----------------------------------------------------------------------------
\* Assets and their current versions.

LEMMA ReadableStep ==
  ASSUME TypeInv, AssetsAreReadable, [Next]_vars
  PROVE AssetsAreReadable'
<1>t. TypeOK /\ assets \in [Assets -> Asset \cup {None}]
  BY DEF TypeInv, TypeOK
<1>r. \A b \in Assets : Exists(b) =>
         assets[b].current_version \in versions /\ AssetOf[assets[b].current_version] = b
  BY DEF AssetsAreReadable
<1>s. ASSUME UNCHANGED <<assets, versions>> PROVE AssetsAreReadable'
  BY <1>s, <1>r DEF AssetsAreReadable, Exists
<1>d. ASSUME NEW a \in Assets, assets' = [assets EXCEPT ![a] = None], versions' = versions \ Keys(a)
      PROVE AssetsAreReadable'
  BY <1>d, <1>r, <1>t DEF AssetsAreReadable, Exists, Keys
<1>w. ASSUME NEW a \in Assets, NEW row \in Asset, assets' = [assets EXCEPT ![a] = row],
             versions \subseteq versions',
             row.current_version \in versions' /\ AssetOf[row.current_version] = a
      PROVE AssetsAreReadable'
  BY <1>w, <1>r, <1>t DEF AssetsAreReadable, Exists
<1>1. ASSUME NEW c \in Calls, FinalizeStep(c) PROVE AssetsAreReadable'
  <2> DEFINE u == UploadOf[c]
             a == AssetOf[u]
  <2>1. CASE CreateAsset(c) /\ Exists(a)
    <3>1. assets' = assets /\ versions \subseteq versions'
      BY <2>1, <1>t DEF CreateAsset
    <3>. QED
      BY <3>1, <1>r DEF AssetsAreReadable, Exists
  <2>2. CASE CreateAsset(c) /\ ~Exists(a)
    <3>1. NewAsset(u) \in Asset /\ NewAsset(u).current_version = u
      BY NewAssetType DEF NewAsset
    <3>. QED
      BY <2>2, <3>1, <1>w DEF CreateAsset
  <2>3. CASE AddVersion(c) /\ Exists(a)
    <3> DEFINE row == [assets[a] EXCEPT !.current_version = u]
    <3>1. row \in Asset /\ row.current_version = u
      BY <2>3, <1>t DEF Exists, Asset
    <3>2. assets' = [assets EXCEPT ![a] = row] /\ versions' = versions \cup {u}
      BY <2>3, <1>t DEF AddVersion
    <3> HIDE DEF row
    <3>. QED
      BY <3>1, <3>2, <1>w
  <2>4. CASE AddVersion(c) /\ ~Exists(a)
    BY <2>4, <1>s DEF AddVersion
  <2>5. CASE Confirm(c) \/ ReadOwner(c) \/ FailFinalize(c)
    BY <2>5, <1>s DEF Confirm, ReadOwner, FailFinalize, database
  <2>. QED
    BY <1>1, <2>1, <2>2, <2>3, <2>4, <2>5 DEF FinalizeStep
<1>2. ASSUME NEW a \in Assets, AssetStep(a) PROVE AssetsAreReadable'
  <2>1. PICK row \in Asset : /\ row.current_version = assets[a].current_version
                             /\ assets' = [assets EXCEPT ![a] = row]
    BY <1>2, <1>t, AssetStepForm
  <2>2. Exists(a) /\ versions' = versions
    BY <1>2, <1>t, AssetStepForm
  <2>. QED
    BY <2>1, <2>2, <1>r, <1>w
<1>3. ASSUME CronStep \/ CronDies PROVE AssetsAreReadable'
  <2>1. ASSUME NEW a \in Assets, SweepRows(a) PROVE AssetsAreReadable'
    BY <2>1, <1>s, <1>d DEF SweepRows
  <2>2. ASSUME ~\E a \in Assets : SweepRows(a) PROVE UNCHANGED <<assets, versions>>
    BY <1>3, <2>2 DEF CronStep, CronDies, StartSweep, StartReconcile, DeleteOrphan, EndReconcile,
                      SweepBytes, Visit
  <2>. QED
    BY <2>1, <2>2, <1>s
<1>4. ASSUME NEW p \in Purges, PurgeStep(p) PROVE AssetsAreReadable'
  <2>1. CASE DropRows(p)
    <3>1. purging[p].asset \in Assets
      BY <2>1 DEF DropRows, TypeInv, PurgeShape
    <3>. QED
      BY <2>1, <3>1, <1>s, <1>d DEF DropRows
  <2>2. ASSUME ~DropRows(p) PROVE UNCHANGED <<assets, versions>>
    BY <1>4, <2>2 DEF PurgeStep, Resolve, RecordIntent, EraseBytes, PurgeEdge, Settle, PurgeDies,
                      database
  <2>. QED
    BY <2>1, <2>2, <1>s
<1>. QED
  BY <1>s, <1>1, <1>2, <1>3, <1>4, Cases, UploadFrame, ServeFrame

\* An asset that has a row has the row of its current version.
THEOREM MediaIsReadable == Spec => []AssetsAreReadable
<1>1. Init => AssetsAreReadable
  BY DEF Init, AssetsAreReadable, Exists
<1>2. TypeInv /\ AssetsAreReadable /\ [Next]_vars => AssetsAreReadable'
  BY ReadableStep
<1>. QED
  BY <1>1, <1>2, InitType, StepType, PTL DEF Spec

-----------------------------------------------------------------------------
\* An asset of the library loses its row to a purge alone.

LEMMA LibraryStep ==
  ASSUME TypeInv, [Next]_vars, NEW a \in Assets, Exists(a), assets[a].origin = "library",
         assets'[a] = None
  PROVE \E p \in Purges : purging[p].asset = a /\ purging[p].at = "erased"
<1>t. TypeOK /\ assets \in [Assets -> Asset \cup {None}]
  BY DEF TypeInv, TypeOK
<1>1. ASSUME NEW c \in Calls, FinalizeStep(c) PROVE FALSE
  <2>1. CASE CreateAsset(c)
    BY <2>1, <1>t, NewAssetType DEF CreateAsset, Exists
  <2>2. CASE AddVersion(c)
    <3>1. ASSUME NEW b \in Assets, Exists(b), NEW u \in Uploads
          PROVE [assets[b] EXCEPT !.current_version = u] \in Asset
      BY <3>1, <1>t DEF Exists, Asset
    <3>2. CASE UNCHANGED assets
      BY <3>2 DEF Exists
    <3>3. ASSUME NEW b \in Assets, Exists(b), NEW u \in Uploads,
                 assets' = [assets EXCEPT ![b].current_version = u]
          PROVE assets'[a] # None
      BY <3>1, <3>3, <1>t DEF Exists
    <3>. QED
      BY <2>2, <3>2, <3>3 DEF AddVersion
  <2>3. CASE Confirm(c) \/ ReadOwner(c) \/ FailFinalize(c)
    BY <2>3 DEF Confirm, ReadOwner, FailFinalize, database, Exists
  <2>. QED
    BY <1>1, <2>1, <2>2, <2>3 DEF FinalizeStep
<1>2. ASSUME NEW b \in Assets, AssetStep(b) PROVE FALSE
  <2>1. PICK row \in Asset : assets' = [assets EXCEPT ![b] = row]
    BY <1>2, <1>t, AssetStepForm
  <2>. QED
    BY <2>1, <1>t DEF Exists
<1>3. ASSUME CronStep \/ CronDies PROVE FALSE
  <2>1. ASSUME NEW b \in Assets, SweepRows(b) PROVE assets'[a] = assets[a]
    BY <2>1, <1>t DEF SweepRows, IsChat
  <2>2. ASSUME ~\E b \in Assets : SweepRows(b) PROVE UNCHANGED assets
    BY <1>3, <2>2 DEF CronStep, CronDies, StartSweep, StartReconcile, DeleteOrphan, EndReconcile,
                      SweepBytes, Visit
  <2>. QED
    BY <2>1, <2>2 DEF Exists
<1>4. ASSUME NEW p \in Purges, PurgeStep(p)
      PROVE purging[p].asset = a /\ purging[p].at = "erased"
  <2>1. CASE DropRows(p)
    BY <2>1, <1>t DEF DropRows, Exists
  <2>2. ASSUME ~DropRows(p) PROVE UNCHANGED assets
    BY <1>4, <2>2 DEF PurgeStep, Resolve, RecordIntent, EraseBytes, PurgeEdge, Settle, PurgeDies,
                      database
  <2>. QED
    BY <2>1, <2>2 DEF Exists
<1>. QED
  BY <1>1, <1>2, <1>3, <1>4, Cases, UploadFrame, ServeFrame DEF Exists

\* The sweep spares what was promoted since it looked, and nothing but a purge removes
\* the row of an asset of the library.
THEOREM LibraryIsKept == Spec => LibraryIsOnlyPurged
<1>1. TypeInv /\ [Next]_vars =>
        [\A a \in Assets :
           Exists(a) /\ assets[a].origin = "library" /\ assets'[a] = None =>
              \E p \in Purges : purging[p].asset = a /\ purging[p].at = "erased"]_vars
  BY LibraryStep
<1>. QED
  BY <1>1, InitType, StepType, PTL DEF Spec, LibraryIsOnlyPurged

-----------------------------------------------------------------------------
\* Bytes.

\* Whatever has or had a row, or is being given one, was uploaded within the limit: its
\* URL is spent, so that its bytes cannot come back.
SentInv ==
    /\ \A u \in versions : presigned[u] = "sent"
    /\ \A c \in Calls :
          finalizing[c] \in {"confirmed", "owned"} => presigned[UploadOf[c]] = "sent"
    /\ \A p \in Purges : \A u \in purging[p].keys : presigned[u] = "sent"
    /\ \A p \in Purges : audit[p] # None => \A u \in audit[p].keys : presigned[u] = "sent"

LEMMA SentStep ==
  ASSUME TypeInv, SentInv, [Next]_vars
  PROVE SentInv'
<1>t. /\ versions \subseteq Uploads /\ \A p \in Purges : purging[p].keys \subseteq Uploads
      /\ \A p \in Purges : audit[p] # None => audit[p].keys \subseteq Uploads
  BY DEF TypeInv, TypeOK, Purging, Audit
<1>t2. versions' \subseteq Uploads
  BY StepType DEF TypeInv, TypeOK
<1>1. \A u \in versions' : presigned'[u] = "sent"
  <2> SUFFICES ASSUME NEW u \in versions' PROVE presigned[u] = "sent"
    BY <1>t2, SentStays
  <2>. QED
    BY VersionsGrow DEF SentInv, InFlight
<1>2. \A c \in Calls :
         finalizing'[c] \in {"confirmed", "owned"} => presigned'[UploadOf[c]] = "sent"
  <2> SUFFICES ASSUME NEW c \in Calls, finalizing'[c] \in {"confirmed", "owned"}
               PROVE presigned[UploadOf[c]] = "sent"
    BY SentStays
  <2>. QED
    BY CallsGrow DEF SentInv
<1>3. \A p \in Purges : \A u \in purging'[p].keys : presigned'[u] = "sent"
  BY PurgeKeys, SentStays, <1>t DEF SentInv
<1>4. \A p \in Purges : audit'[p] # None => \A u \in audit'[p].keys : presigned'[u] = "sent"
  BY AuditRows, SentStays, <1>t DEF SentInv
<1>. QED
  BY <1>1, <1>2, <1>3, <1>4 DEF SentInv

\* A purge past the deletion of its keys leaves no bytes under them.
ErasedInv ==
    \A p \in Purges :
        purging[p].at \in {"erased", "dropped", "purged"} =>
            \A u \in purging[p].keys : bucket[u] = "none"

LEMMA ErasedStep ==
  ASSUME TypeInv, SentInv, ErasedInv, [Next]_vars
  PROVE ErasedInv'
<1>1. SUFFICES ASSUME NEW p \in Purges, purging'[p].at \in {"erased", "dropped", "purged"},
                      NEW u \in purging'[p].keys, bucket'[u] # "none"
               PROVE FALSE
  BY DEF ErasedInv
<1>2. u \in purging[p].keys /\ u \in Uploads /\ presigned[u] = "sent"
  BY <1>1, PurgeKeys DEF TypeInv, TypeOK, Purging, SentInv
<1>3. bucket[u] = "none"
  BY <1>1, <1>2, PurgeKeys DEF ErasedInv
<1>. QED
  BY <1>1, <1>2, <1>3, BytesAreGained

LEMMA GoneStep ==
  ASSUME TypeInv, SentInv, ErasedInv, PurgedKeysAreGone, [Next]_vars
  PROVE PurgedKeysAreGone'
<1>1. SUFFICES ASSUME NEW p \in Purges, audit'[p] # None, audit'[p].status = "completed",
                      NEW u \in audit'[p].keys, bucket'[u] # "none"
               PROVE FALSE
  BY DEF PurgedKeysAreGone
<1>2. audit[p] # None /\ u \in audit[p].keys
  BY <1>1, AuditRows
<1>3. u \in Uploads /\ presigned[u] = "sent"
  BY <1>2 DEF TypeInv, TypeOK, Audit, SentInv
<1>4. bucket[u] = "none"
  <2>1. CASE audit[p].status = "completed"
    BY <2>1, <1>2 DEF PurgedKeysAreGone
  <2>2. CASE purging[p].at = "purged"
    BY <2>2, <1>2 DEF ErasedInv, TypeInv, PurgeShape
  <2>. QED
    BY <1>1, <1>2, <2>1, <2>2, AuditRows
<1>. QED
  BY <1>1, <1>3, <1>4, BytesAreGained

\* What a completed purge recorded is gone for good.
THEOREM MediaIsPurged == Spec => []PurgedKeysAreGone
<1>1. Init => SentInv /\ ErasedInv /\ PurgedKeysAreGone
  BY DEF Init, SentInv, ErasedInv, PurgedKeysAreGone, NotPurging
<1>2. TypeInv /\ SentInv /\ ErasedInv /\ PurgedKeysAreGone /\ [Next]_vars =>
        SentInv' /\ ErasedInv' /\ PurgedKeysAreGone'
  BY SentStep, ErasedStep, GoneStep
<1>. QED
  BY <1>1, <1>2, InitType, StepType, PTL DEF Spec

-----------------------------------------------------------------------------
\* Rows have bytes.

Audited(u) == \E p \in Purges : audit[p] # None /\ u \in audit[p].keys

\* What is being finalized has bytes as what has a row does, and the keys a job is
\* about to delete are neither.
BytesInv ==
    /\ \A u \in Uploads : u \in versions \/ InFlight(u) => bucket[u] # "none" \/ Audited(u)
    /\ \A u \in cron.erasing : u \notin versions /\ ~InFlight(u)

LEMMA AuditedStays ==
  ASSUME TypeInv, [Next]_vars, NEW u, Audited(u)
  PROVE Audited(u)'
<1>1. PICK p \in Purges : audit[p] # None /\ u \in audit[p].keys
  BY DEF Audited
<1>2. audit'[p] # None /\ audit'[p].keys = audit[p].keys
  BY <1>1, AuditRows
<1>. QED
  BY <1>1, <1>2 DEF Audited

LEMMA BytesStep ==
  ASSUME TypeInv, SentInv, BytesInv, ~Overlapping, [Next]_vars
  PROVE BytesInv'
<1>t. cron.erasing \subseteq Uploads /\ cron'.erasing \subseteq Uploads
  BY StepType DEF TypeInv, TypeOK, Cron
<1>f. ASSUME NEW u \in Uploads, InFlight(u)', ~InFlight(u)
      PROVE /\ presigned[u] = "sent" /\ bucket[u] # "none" /\ u \notin cron.erasing
            /\ UNCHANGED <<bucket, versions, cron>>
  BY <1>f, CallsGrow DEF InFlight
<1>1. ASSUME NEW u \in Uploads, u \in versions' \/ InFlight(u)', bucket'[u] = "none"
      PROVE Audited(u)'
  <2>1. bucket[u] = "none" => Audited(u)
    BY <1>1, <1>f, VersionsGrow DEF BytesInv
  <2>2. CASE bucket[u] = "none"
    BY <2>1, <2>2, AuditedStays
  <2>3. CASE bucket[u] # "none"
    <3>1. u \in versions \/ InFlight(u)
      BY <1>1, <1>f, <2>3, VersionsGrow
    <3>2. presigned[u] = "sent" /\ u \notin cron.erasing
      BY <3>1 DEF SentInv, BytesInv, InFlight
    <3>3. PICK p \in Purges : purging[p].at = "recorded" /\ u \in purging[p].keys
      BY <1>1, <2>3, <3>2, BytesAreLost
    <3>4. Audited(u)
      BY <3>3 DEF Audited, TypeInv, PurgeShape
    <3>. QED
      BY <3>4, AuditedStays
  <2>. QED
    BY <2>2, <2>3
<1>2. ASSUME NEW u \in cron'.erasing PROVE u \notin versions' /\ ~InFlight(u)'
  <2>1. CASE u \in cron.erasing
    <3>1. u \notin versions /\ ~InFlight(u) /\ u \in Uploads
      BY <2>1, <1>t DEF BytesInv
    <3>. QED
      BY <2>1, <3>1, <1>f, VersionsGrow
  <2>2. CASE u \notin cron.erasing
    <3>1. u \notin versions' /\ ~InFlight(u) /\ UNCHANGED finalizing
      BY <1>2, <2>2, ErasingGrows
    <3>. QED
      BY <3>1 DEF InFlight
  <2>. QED
    BY <2>1, <2>2
<1>. QED
  BY <1>1, <1>2 DEF BytesInv

\* If no finalize overlaps the deletion of its own key, no version has a row without
\* bytes but under a purge on record.
THEOREM MediaHasBytes ==
  ASSUME ~Overlapping
  PROVE Spec => []VersionsHaveBytes
<1>1. Init => SentInv /\ BytesInv
  BY DEF Init, SentInv, BytesInv, NotPurging, NoCron, InFlight
<1>2. TypeInv /\ SentInv /\ BytesInv /\ [Next]_vars => SentInv' /\ BytesInv'
  BY SentStep, BytesStep
<1>3. TypeInv /\ BytesInv => VersionsHaveBytes
  BY DEF TypeInv, TypeOK, BytesInv, VersionsHaveBytes, Audited
<1>. QED
  BY <1>1, <1>2, <1>3, InitType, StepType, PTL DEF Spec

=============================================================================
