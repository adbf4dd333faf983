--------------------------- MODULE DocumentSyncOwed ---------------------------
(***************************************************************************)
(* What a session owes Postgres: the types of DocumentSync, that an edit   *)
(* it holds is written, on its way or scheduled, that a schedule has an    *)
(* alarm, and that a flush covers what it was asked for.                   *)
(***************************************************************************)
EXTENDS DocumentSync, TLAPS, FiniteSetTheorems

USE SyncAssumption, NoneAssumption

-----------------------------------------------------------------------------
\* Types.

UsedType == [edits : SUBSET Edits, actions : 0 .. MaxActions, crashes : 0 .. MaxCrashes,
             reloads : 0 .. MaxReloads, writes : 0 .. MaxWrites, loads : Nat, faults : Nat]

MemoryOK ==
    /\ doc \in Doc /\ lastSynced \in Hash \cup {None}
    /\ actions \in 0 .. MaxActions /\ actions <= used.actions
    /\ initialized \in BOOLEAN /\ failed \in BOOLEAN

WritingOK ==
    /\ active \in PendingWrite \cup {None} /\ waiting \in Seq(Requests)
    /\ asked \in [Requests -> Content \cup {None}]
    /\ step \in {"none", "flagged", "edited", "scheduled"}
    /\ handling \in Requests \cup {"no", "alarm", "close"}

StorageOK ==
    /\ stored \in Doc \cup {None}
    /\ schedule \in BOOLEAN /\ alarm \in BOOLEAN /\ persistPending \in BOOLEAN

QueueOK ==
    /\ messages \in Seq(Content) /\ Len(messages) <= MaxMessages
    /\ tip \in Content /\ versions \subseteq Content /\ lost \subseteq Edits

\* A session loads once when it has nothing stored, and once for every reload: each
\* load that may still come is accounted for.
LoadsOK ==
    /\ used \in UsedType /\ reload \in Reloading
    /\ used.loads + (IF stored = None THEN 1 ELSE 0) + (IF reload = NoReload THEN 0 ELSE 1)
         <= 1 + used.reloads

TypeInv == MemoryOK /\ WritingOK /\ StorageOK /\ QueueOK /\ LoadsOK

LEMMA Bounds == /\ MaxActions \in Nat /\ MaxCrashes \in Nat /\ MaxReloads \in Nat
                /\ MaxWrites \in Nat /\ MaxFaults \in Nat /\ MaxMessages \in Nat
  OBVIOUS

LEMMA TypeInvTypes == TypeInv => TypeOK
  <1> SUFFICES ASSUME TypeInv PROVE TypeOK
    OBVIOUS
  <1>1. {initialized, failed, schedule, alarm, persistPending} \subseteq BOOLEAN
    BY Zenon DEF TypeInv, MemoryOK, StorageOK
  <1> QED
    BY <1>1 DEF TypeInv, MemoryOK, WritingOK, StorageOK, QueueOK, LoadsOK, TypeOK

LEMMA BlankTypes == BlankDoc \in Doc /\ NoReload \in Reloading /\ BlankDoc.content.edits = {}
  BY Bounds DEF BlankDoc, Doc, Content, NoReload, Reloading

LEMMA HashType == ASSUME NEW d \in Doc PROVE HashOf(d) \in Hash
  BY DEF Doc, Content, HashOf, Hash

LEMMA MaxType ==
  ASSUME NEW x \in Int
  PROVE  Max({0, x}) = IF x > 0 THEN x ELSE 0
  <1> DEFINE m == IF x > 0 THEN x ELSE 0
  <1>1. m \in {0, x} /\ \A y \in {0, x} : m >= y
    OBVIOUS
  <1>2. \A n \in {0, x} : (\A y \in {0, x} : n >= y) => n = m
    OBVIOUS
  <1> HIDE DEF m
  <1>3. Max({0, x}) = m
    BY <1>1, <1>2 DEF Max
  <1> QED
    BY <1>3 DEF m

\* A load has a line of its own, within the number of loads there can be.
LEMMA LoadedDoc ==
  ASSUME used \in UsedType, used.loads + 1 <= 1 + used.reloads, NEW c \in Content
  PROVE  Loaded(c) \in Doc /\ Loaded(c).content = c /\ Loaded(c).line = used.loads + 1
  BY Bounds DEF Loaded, Doc, UsedType

LEMMA TakeDoc ==
  ASSUME MemoryOK, NEW who \in Requests \cup {"alarm", "close"}, NEW phase \in {"send", "write"}
  PROVE  Take(who, phase) \in PendingWrite
  BY HashType DEF MemoryOK, Take, PendingWrite, Doc

LEMMA ApplyDoc ==
  ASSUME TypeInv, NEW e \in Edits, Apply(e)
  PROVE  /\ doc' \in Doc /\ doc'.content.edits = doc.content.edits \cup {e}
         /\ doc'.line = doc.line
         /\ used' \in UsedType /\ used'.edits = used.edits \cup {e}
         /\ used'.actions = used.actions /\ used'.loads = used.loads
         /\ used'.reloads = used.reloads /\ used'.writes = used.writes
  <1>1. doc' = [doc EXCEPT !.content = [doc.content EXCEPT !.edits = @ \cup {e}]]
    BY DEF Apply, TypeInv, MemoryOK, Doc
  <1>2. doc.content \in Content /\ doc \in Doc
    BY DEF TypeInv, MemoryOK, Doc
  <1>3. [doc.content EXCEPT !.edits = @ \cup {e}] \in Content
    BY <1>2 DEF Content
  <1>4. doc' \in Doc /\ doc'.content = [doc.content EXCEPT !.edits = @ \cup {e}]
          /\ doc'.line = doc.line
    BY <1>1, <1>2, <1>3 DEF Doc
  <1>5. doc'.content.edits = doc.content.edits \cup {e}
    BY <1>2, <1>4 DEF Content
  <1>6. used \in UsedType /\ used' = [used EXCEPT !.edits = @ \cup {e}]
    BY DEF Apply, TypeInv, LoadsOK
  <1>7. /\ used' \in UsedType /\ used'.edits = used.edits \cup {e}
        /\ used'.actions = used.actions /\ used'.loads = used.loads
        /\ used'.reloads = used.reloads /\ used'.writes = used.writes
    BY <1>6 DEF UsedType
  <1> QED
    BY <1>4, <1>5, <1>7

\* The messages that stay keep their contents, and are no more than there were.
LEMMA AcknowledgedQueue ==
  ASSUME messages \in Seq(Content), NEW batch, Acknowledge(batch)
  PROVE  /\ messages' \in Seq(Content) /\ Len(messages') <= Len(messages)
         /\ \A i \in DOMAIN messages' : \E k \in DOMAIN messages : messages'[i] = messages[k]
  <1> DEFINE kept == DOMAIN messages \ batch
  <1>1. PICK pos \in [1 .. Cardinality(kept) -> kept] :
            messages' = [i \in DOMAIN pos |-> messages[pos[i]]]
    BY DEF Acknowledge
  <1>2. IsFiniteSet(kept) /\ Cardinality(kept) <= Len(messages) /\ Cardinality(kept) \in Nat
    <2>1. DOMAIN messages = 1 .. Len(messages) /\ Len(messages) \in Nat
      OBVIOUS
    <2> DEFINE n == Len(messages)
    <2>3. kept \subseteq 1 .. n
      BY <2>1
    <2> HIDE DEF kept, n
    <2>5. n \in Nat
      BY <2>1 DEF n
    <2>6. IsFiniteSet(1 .. n)
      BY <2>5, FS_Interval
    <2>7. Cardinality(1 .. n) = n
      BY <2>5, FS_Interval
    <2>8. IsFiniteSet(kept) /\ Cardinality(kept) <= Cardinality(1 .. n)
      BY <2>3, <2>6, FS_Subset
    <2>4. IsFiniteSet(kept) /\ Cardinality(kept) <= Len(messages)
      BY <2>7, <2>8 DEF n
    <2> QED
      BY <2>4, FS_CardinalityType
  <1>3. DOMAIN messages' = 1 .. Cardinality(kept)
    BY <1>1
  <1>4. ASSUME NEW i \in DOMAIN messages'
        PROVE  /\ pos[i] \in DOMAIN messages
               /\ messages'[i] = messages[pos[i]]
               /\ messages[pos[i]] \in Content
    <2>1. i \in 1 .. Cardinality(kept)
      BY <1>3, <1>4
    <2>2. pos[i] \in kept
      BY <1>1, <2>1
    <2>3. messages'[i] = messages[pos[i]]
      BY <1>1, <2>1
    <2> QED
      BY <2>2, <2>3
  <1>5. messages' \in [1 .. Cardinality(kept) -> Content]
    BY <1>1, <1>4
  <1>6. messages' \in Seq(Content) /\ Len(messages') = Cardinality(kept)
    <2> DEFINE n == Cardinality(kept)
    <2> HIDE DEF n
    <2>1. n \in Nat /\ messages' \in [1 .. n -> Content]
      BY <1>2, <1>5 DEF n
    <2>2. messages' \in Seq(Content) /\ Len(messages') = n
      BY <2>1
    <2> QED
      BY <2>2 DEF n
  <1> QED
    BY <1>2, <1>4, <1>6

-----------------------------------------------------------------------------
\* Each step keeps the types.

LEMMA InitTypes == Init => TypeInv
  <1> SUFFICES ASSUME Init PROVE TypeInv
    OBVIOUS
  <1>1. MemoryOK
    <2>1. doc \in Doc /\ lastSynced = None /\ actions = 0 /\ used.actions = 0
      BY BlankTypes DEF Init
    <2>2. initialized \in BOOLEAN /\ failed \in BOOLEAN
      BY Zenon DEF Init
    <2> QED
      BY <2>1, <2>2, Bounds DEF MemoryOK
  <1>2. WritingOK
    BY DEF Init, WritingOK
  <1>3. StorageOK
    BY Zenon DEF Init, StorageOK
  <1>4. tip \in Content /\ versions = {tip} /\ messages = <<>> /\ lost = {}
    BY Bounds DEF Init, Content
  <1>5. QueueOK
    BY <1>4, Bounds DEF QueueOK
  <1>6. used = [edits |-> {}, actions |-> 0, crashes |-> 0, reloads |-> 0,
                writes |-> 0, loads |-> 0, faults |-> 0]
        /\ stored = None /\ reload = NoReload
    BY DEF Init
  <1>7. used \in UsedType /\ used.loads = 0 /\ used.reloads = 0
    BY <1>6, Bounds DEF UsedType
  <1>8. LoadsOK
    BY <1>6, <1>7, BlankTypes DEF LoadsOK
  <1> QED
    BY <1>1, <1>2, <1>3, <1>5, <1>8 DEF TypeInv

\* The counters of one bound: what spending it leaves alone.
LEMMA Spent ==
  ASSUME used \in UsedType,
         NEW what \in {"actions", "crashes", "reloads", "writes", "loads", "faults"}, Spend(what),
         what = "actions" => used.actions < MaxActions,
         what = "crashes" => used.crashes < MaxCrashes,
         what = "reloads" => used.reloads < MaxReloads,
         what = "writes" => used.writes < MaxWrites
  PROVE  /\ used' \in UsedType /\ used'.edits = used.edits
         /\ used'.actions = IF what = "actions" THEN used.actions + 1 ELSE used.actions
         /\ used'.loads = IF what = "loads" THEN used.loads + 1 ELSE used.loads
         /\ used'.reloads = IF what = "reloads" THEN used.reloads + 1 ELSE used.reloads
  BY Bounds DEF Spend, UsedType

\* What does not change keeps its type.
LEMMA SameTypes == ASSUME TypeInv, UNCHANGED vars PROVE TypeInv'
  BY DEF TypeInv, MemoryOK, WritingOK, StorageOK, QueueOK, LoadsOK,
         vars, memory, writing, storage, postgres

LEMMA SyncTypes ==
  ASSUME TypeInv, NEW who \in {"alarm", "close"}, SyncToPostgres(who)
  PROVE  active' \in PendingWrite \cup {None}
  BY TakeDoc DEF SyncToPostgres, TypeInv, MemoryOK, WritingOK

LEMMA PersistedTypes ==
  ASSUME TypeInv
  PROVE  Persisted \in Doc \cup {None} /\ (Persisted = None => stored = None)
  BY DEF TypeInv, MemoryOK, StorageOK, Persisted

LEMMA PersistTypes ==
  ASSUME TypeInv, FlushPendingPersist
  PROVE  /\ stored' \in Doc \cup {None} /\ (stored' = None => stored = None)
         /\ persistPending' \in BOOLEAN
  <1>1. CASE stored' = Persisted /\ persistPending' = FALSE
    BY <1>1, PersistedTypes
  <1>2. CASE UNCHANGED <<stored, persistPending>>
    BY <1>2 DEF TypeInv, StorageOK
  <1> QED
    BY <1>1, <1>2 DEF FlushPendingPersist

LEMMA RestoreTypes == ASSUME TypeInv, Restore PROVE TypeInv'
  <1>1. stored \in Doc
    BY DEF Restore, TypeInv, StorageOK
  <1>2. MemoryOK'
    BY <1>1, HashType DEF Restore, TypeInv, MemoryOK
  <1> QED
    BY <1>2 DEF Restore, TypeInv, WritingOK, StorageOK, QueueOK, LoadsOK, writing, storage, postgres

LEMMA LoadTypes == ASSUME TypeInv, LoadFromPostgres PROVE TypeInv'
  <1> USE DEF TypeInv
  <1>1. used \in UsedType /\ used.loads + 1 <= 1 + used.reloads /\ tip \in Content
    BY DEF LoadFromPostgres, LoadsOK, UsedType, QueueOK
  <1>2. doc' \in Doc /\ stored' = doc' /\ lastSynced' = HashOf(doc')
    BY <1>1, LoadedDoc DEF LoadFromPostgres
  <1>3. /\ used' \in UsedType /\ used'.actions = used.actions /\ used'.loads = used.loads + 1
        /\ used'.reloads = used.reloads
    BY <1>1, Spent DEF LoadFromPostgres
  <1>4. MemoryOK'
    BY <1>2, <1>3, HashType DEF LoadFromPostgres, MemoryOK
  <1>5. LoadsOK'
    BY <1>1, <1>2, <1>3 DEF LoadFromPostgres, LoadsOK, UsedType
  <1> QED
    BY <1>2, <1>4, <1>5 DEF LoadFromPostgres, WritingOK, StorageOK, QueueOK, writing, postgres

LEMMA LoadFailsTypes == ASSUME TypeInv, LoadFails PROVE TypeInv'
  <1> USE DEF TypeInv
  <1>1. /\ used' \in UsedType /\ used'.actions = used.actions /\ used'.loads = used.loads
        /\ used'.reloads = used.reloads
    BY Spent DEF LoadFails, LoadsOK
  <1>2. MemoryOK'
    BY <1>1, HashType DEF LoadFails, MemoryOK
  <1> QED
    BY <1>1, <1>2 DEF LoadFails, WritingOK, StorageOK, QueueOK, LoadsOK, writing, storage, postgres

LEMMA EditTypes == ASSUME TypeInv, Edit PROVE TypeInv'
  <1> USE DEF TypeInv
  <1>1. ASSUME NEW e \in Edits, SocketEdit(e) PROVE TypeInv'
    <2>1. /\ doc' \in Doc /\ used' \in UsedType /\ used'.actions = used.actions
          /\ used'.loads = used.loads /\ used'.reloads = used.reloads
      BY <1>1, ApplyDoc DEF SocketEdit
    <2> QED
      BY <1>1, <2>1
      DEF SocketEdit, MemoryOK, WritingOK, StorageOK, QueueOK, LoadsOK, writing, postgres
  <1>2. ASSUME NEW e \in Edits, HttpEdit(e) PROVE TypeInv'
    <2>1. /\ doc' \in Doc /\ used' \in UsedType /\ used'.actions = used.actions
          /\ used'.loads = used.loads /\ used'.reloads = used.reloads
      BY <1>2, ApplyDoc DEF HttpEdit
    <2>2. LoadsOK'
      BY <1>2, <2>1 DEF HttpEdit, LoadsOK, UsedType
    <2> QED
      BY <1>2, <2>1, <2>2
      DEF HttpEdit, MemoryOK, WritingOK, StorageOK, QueueOK, writing, postgres
  <1>3. CASE ArmPersist
    BY <1>3 DEF ArmPersist, MemoryOK, WritingOK, StorageOK, QueueOK, LoadsOK, memory, writing,
                postgres
  <1>4. CASE ScheduleSync
    <2>1. schedule' \in BOOLEAN
      BY <1>4, Zenon DEF ScheduleSync, StorageOK
    <2>2. WritingOK'
      BY <1>4 DEF ScheduleSync, WritingOK, writing
    <2> QED
      BY <1>4, <2>1, <2>2
      DEF ScheduleSync, MemoryOK, StorageOK, QueueOK, LoadsOK, memory, postgres
  <1>5. CASE ArmSync
    BY <1>5 DEF ArmSync, MemoryOK, WritingOK, StorageOK, QueueOK, LoadsOK, memory, writing,
                postgres
  <1>6. CASE ActionMetadata
    <2>1. /\ used' \in UsedType /\ used'.actions = used.actions + 1
          /\ used'.loads = used.loads /\ used'.reloads = used.reloads
      BY <1>6, Spent DEF ActionMetadata, LoadsOK
    <2>2. MemoryOK'
      BY <1>6, <2>1, Bounds DEF ActionMetadata, MemoryOK, LoadsOK, UsedType
    <2> QED
      BY <1>6, <2>1, <2>2
      DEF ActionMetadata, WritingOK, StorageOK, QueueOK, LoadsOK, writing, storage, postgres
  <1> QED
    BY <1>1, <1>2, <1>3, <1>4, <1>5, <1>6 DEF Edit

LEMMA LoadsKept ==
  ASSUME TypeInv, UNCHANGED <<used, reload>>, stored' = None => stored = None
  PROVE  LoadsOK'
  <1>1. used \in UsedType /\ used.loads \in Nat /\ used.reloads \in Nat
    BY DEF TypeInv, LoadsOK, UsedType
  <1> QED
    BY <1>1 DEF TypeInv, LoadsOK

LEMMA AlarmTypes == ASSUME TypeInv, NEW due \in BOOLEAN, AlarmFires(due) PROVE TypeInv'
  <1> USE DEF TypeInv
  <1>1. /\ stored' \in Doc \cup {None} /\ (stored' = None => stored = None)
        /\ persistPending' \in BOOLEAN
    BY PersistTypes DEF AlarmFires
  <1>2. active' \in PendingWrite \cup {None}
    BY SyncTypes DEF AlarmFires, WritingOK
  <1>3. Awaited \in Requests \cup {"no", "alarm", "close"}
    BY DEF Awaited, WritingOK, PendingWrite
  <1>4. handling' \in Requests \cup {"no", "alarm", "close"}
    BY <1>3 DEF AlarmFires, WritingOK
  <1>5. alarm' \in BOOLEAN
    BY Zenon DEF AlarmFires
  <1>6. MemoryOK' /\ QueueOK'
    BY DEF AlarmFires, MemoryOK, QueueOK, memory, postgres
  <1>7. WritingOK' /\ StorageOK'
    BY <1>1, <1>2, <1>4, <1>5 DEF AlarmFires, WritingOK, StorageOK
  <1>8. LoadsOK'
    BY <1>1, LoadsKept DEF AlarmFires
  <1> QED
    BY <1>6, <1>7, <1>8

LEMMA AlarmEndsTypes == ASSUME TypeInv, AlarmEnds PROVE TypeInv'
  <1> USE DEF TypeInv
  <1>1. alarm' \in BOOLEAN
    BY Zenon DEF AlarmEnds
  <1> QED
    BY <1>1 DEF AlarmEnds, MemoryOK, WritingOK, StorageOK, QueueOK, LoadsOK, memory, writing, postgres

LEMMA CloseTypes == ASSUME TypeInv, NEW closing \in BOOLEAN, PersistAndSync(closing) PROVE TypeInv'
  <1> USE DEF TypeInv
  <1>1. stored' \in Doc \cup {None} /\ (stored' = None => stored = None)
    BY PersistedTypes DEF PersistAndSync
  <1>2. active' \in PendingWrite \cup {None}
    BY SyncTypes DEF PersistAndSync
  <1>3. persistPending' \in BOOLEAN
    BY Zenon DEF PersistAndSync
  <1>4. MemoryOK' /\ QueueOK'
    BY DEF PersistAndSync, MemoryOK, QueueOK, memory, postgres
  <1>5. WritingOK' /\ StorageOK'
    BY <1>1, <1>2, <1>3 DEF PersistAndSync, WritingOK, StorageOK
  <1>6. LoadsOK'
    BY <1>1, LoadsKept DEF PersistAndSync
  <1> QED
    BY <1>4, <1>5, <1>6

LEMMA FlushTypes == ASSUME TypeInv, NEW r \in Requests, FlushAndSync(r) PROVE TypeInv'
  <1> USE DEF TypeInv
  <1>1. /\ stored' \in Doc \cup {None} /\ (stored' = None => stored = None)
        /\ persistPending' \in BOOLEAN
    BY PersistTypes DEF FlushAndSync
  <1>2. waiting' \in Seq(Requests)
    BY DEF FlushAndSync, WritingOK
  <1>3. asked' \in [Requests -> Content \cup {None}]
    BY DEF FlushAndSync, WritingOK, MemoryOK, Doc
  <1>4. MemoryOK' /\ QueueOK'
    BY DEF FlushAndSync, MemoryOK, QueueOK, memory, postgres
  <1>5. WritingOK' /\ StorageOK'
    BY <1>1, <1>2, <1>3 DEF FlushAndSync, WritingOK, StorageOK
  <1>6. LoadsOK'
    BY <1>1, LoadsKept DEF FlushAndSync
  <1> QED
    BY <1>4, <1>5, <1>6

LEMMA BeginTypes == ASSUME TypeInv, BeginDirectSync PROVE TypeInv'
  <1> USE DEF TypeInv
  <1>1. waiting' \in Seq(Requests) /\ Head(waiting) \in Requests
    BY DEF BeginDirectSync, WritingOK
  <1>2. active' \in PendingWrite \cup {None}
    BY <1>1, TakeDoc DEF BeginDirectSync
  <1>3. asked' \in [Requests -> Content \cup {None}]
    BY DEF BeginDirectSync, WritingOK
  <1> QED
    BY <1>1, <1>2, <1>3
    DEF BeginDirectSync, MemoryOK, WritingOK, StorageOK, QueueOK, LoadsOK, memory, storage, postgres

LEMMA SendTypes == ASSUME TypeInv, \/ \E ok \in BOOLEAN : SendToQueue(ok)
                                   \/ SendFails
                   PROVE TypeInv'
  <1> USE DEF TypeInv
  <1>1. active # None /\ active \in PendingWrite /\ active.content \in Content
    BY DEF SendToQueue, SendFails, WritingOK, PendingWrite
  <1>2. active' \in PendingWrite
    BY <1>1 DEF SendToQueue, SendFails, PendingWrite
  <1>3. messages' \in Seq(Content) /\ Len(messages') <= MaxMessages
    BY <1>1, Bounds DEF SendToQueue, SendFails, QueueOK
  <1>4. /\ UNCHANGED <<memory, waiting, asked, step, handling, reload, storage, postgres, used>>
    BY DEF SendToQueue, SendFails
  <1> QED
    BY <1>2, <1>3, <1>4
    DEF MemoryOK, WritingOK, StorageOK, QueueOK, LoadsOK, memory, storage, postgres

LEMMA WriteTypes == ASSUME TypeInv, WriteVersion PROVE TypeInv'
  <1> USE DEF TypeInv
  <1>1. active \in PendingWrite /\ active.content \in Content
    BY DEF WriteVersion, WritingOK, PendingWrite
  <1>2. active' \in PendingWrite
    BY <1>1 DEF WriteVersion, PendingWrite
  <1> QED
    BY <1>1, <1>2
    DEF WriteVersion, Insert, MemoryOK, WritingOK, StorageOK, QueueOK, LoadsOK, memory, storage

LEMMA FinishTypes ==
  ASSUME TypeInv, Finish
  PROVE  active' \in PendingWrite \cup {None} /\ asked' \in [Requests -> Content \cup {None}]
  BY DEF Finish, TypeInv, WritingOK

LEMMA StoredEdits == ASSUME StorageOK PROVE EditsOf(stored) \subseteq Edits
  BY DEF StorageOK, EditsOf, Doc, Content

LEMMA SucceedTypes == ASSUME TypeInv, SyncSucceeds PROVE TypeInv'
  <1> USE DEF TypeInv
  <1>1. active \in PendingWrite
    BY DEF SyncSucceeds, WritingOK
  <1>2. active.hash \in Hash /\ active.taken \in 0 .. MaxActions
    BY <1>1 DEF PendingWrite
  <1>3. actions' \in 0 .. MaxActions /\ actions' <= actions
    <2>1. actions - active.taken \in Int /\ actions - active.taken <= actions
          /\ actions \in 0 .. MaxActions
      BY <1>2, Bounds DEF MemoryOK
    <2>2. actions' = IF actions - active.taken > 0 THEN actions - active.taken ELSE 0
      BY <2>1, MaxType DEF SyncSucceeds, RecordSyncSuccess
    <2> QED
      BY <2>1, <2>2, Bounds
  <1>4. schedule' \in BOOLEAN
    BY Zenon DEF SyncSucceeds, RecordSyncSuccess
  <1>5. MemoryOK'
    BY <1>2, <1>3 DEF SyncSucceeds, RecordSyncSuccess, MemoryOK, LoadsOK, UsedType
  <1>6. WritingOK'
    BY FinishTypes DEF SyncSucceeds, WritingOK
  <1>7. lost' \subseteq Edits
    <2>1. active.content.edits \subseteq Edits
      BY <1>1 DEF PendingWrite, Content
    <2>2. lost \subseteq Edits
      BY DEF QueueOK
    <2> QED
      BY <2>1, <2>2, StoredEdits DEF SyncSucceeds, RecordLoss
  <1> QED
    BY <1>4, <1>5, <1>6, <1>7 DEF SyncSucceeds, StorageOK, QueueOK, LoadsOK

LEMMA FailTypes == ASSUME TypeInv, SyncFails PROVE TypeInv'
  BY FinishTypes
  DEF SyncFails, TypeInv, MemoryOK, WritingOK, StorageOK, QueueOK, LoadsOK, memory, storage, postgres

LEMMA SyncTypesKept == ASSUME TypeInv, Sync PROVE TypeInv'
  <1>1. Flushers \subseteq Requests /\ Completers \subseteq Requests
    BY DEF Requests
  <1> QED
    BY <1>1, AlarmTypes, AlarmEndsTypes, CloseTypes, FlushTypes, BeginTypes, SendTypes, WriteTypes,
       SucceedTypes, FailTypes
    DEF Sync, Flush, CompleteEdit

\* A write that is overtaken is the same write.
LEMMA Overtaken ==
  ASSUME TypeInv, MayOvertake
  PROVE  /\ active' \in PendingWrite \cup {None}
         /\ \/ active' = active
            \/ /\ active # None /\ active' # None /\ active.phase = "write"
               /\ active'.phase = "overtaken" /\ active'.who = active.who
               /\ active'.content = active.content /\ active'.hash = active.hash
  BY DEF MayOvertake, TypeInv, WritingOK, PendingWrite

LEMMA ConsumeTypes ==
  ASSUME TypeInv, NEW batch \in SUBSET DOMAIN messages, NEW acked \in BOOLEAN, Consume(batch, acked)
  PROVE  TypeInv'
  <1> USE DEF TypeInv
  <1>1. PICK last \in batch : Insert(messages[last])
    BY DEF Consume
  <1>2. messages[last] \in Content
    BY DEF QueueOK
  <1>3. messages' \in Seq(Content) /\ Len(messages') <= Len(messages)
    <2>1. CASE acked
      BY <2>1, AcknowledgedQueue DEF Consume, QueueOK
    <2>2. CASE ~acked
      BY <2>2 DEF Consume, QueueOK
    <2> QED
      BY <2>1, <2>2
  <1>4. QueueOK'
    BY <1>1, <1>2, <1>3, Bounds DEF Consume, Insert, QueueOK
  <1>5. active' \in PendingWrite \cup {None}
    BY Overtaken DEF Consume
  <1> QED
    BY <1>4, <1>5 DEF Consume, MemoryOK, WritingOK, StorageOK, LoadsOK, memory, storage

LEMMA DiscardTypes ==
  ASSUME TypeInv, NEW batch \in SUBSET DOMAIN messages, Discard(batch)
  PROVE  TypeInv'
  <1> USE DEF TypeInv
  <1>1. PICK last \in batch : lost' = lost \cup messages[last].edits
    BY DEF Discard
  <1>2. messages[last].edits \subseteq Edits
    <2>1. messages \in Seq(Content) /\ last \in DOMAIN messages
      BY DEF QueueOK
    <2>2. messages[last] \in Content
      BY <2>1
    <2> QED
      BY <2>2 DEF Content
  <1>3. messages' \in Seq(Content) /\ Len(messages') <= Len(messages)
    BY AcknowledgedQueue DEF Discard, QueueOK
  <1>4. QueueOK'
    BY <1>1, <1>2, <1>3, Bounds DEF Discard, QueueOK
  <1> QED
    BY <1>4 DEF Discard, MemoryOK, WritingOK, StorageOK, LoadsOK, memory, writing, storage

LEMMA AroundTypes == ASSUME TypeInv, WriteAround PROVE TypeInv'
  <1> USE DEF TypeInv
  <1>1. used \in UsedType /\ used.writes \in Nat /\ used.writes < MaxWrites
    BY Bounds DEF WriteAround, LoadsOK, UsedType
  <1>2. /\ used' \in UsedType /\ used'.actions = used.actions /\ used'.loads = used.loads
        /\ used'.reloads = used.reloads
    BY <1>1, Spent DEF WriteAround
  <1>3. [tip EXCEPT !.base = used.writes + 2] \in Content
    <2>1. used.writes + 2 \in 0 .. MaxWrites + 1
      BY <1>1, Bounds
    <2> QED
      BY <2>1 DEF QueueOK, Content
  <1>4. QueueOK'
    BY <1>3 DEF WriteAround, Insert, QueueOK
  <1>5. active' \in PendingWrite \cup {None}
    BY Overtaken DEF WriteAround
  <1> QED
    BY <1>2, <1>4, <1>5
    DEF WriteAround, MemoryOK, WritingOK, StorageOK, LoadsOK, memory, storage

LEMMA ReloadTypes == ASSUME TypeInv, Reload PROVE TypeInv'
  <1> USE DEF TypeInv
  <1>1. CASE ReloadBegins
    <2>1. /\ used' \in UsedType /\ used'.actions = used.actions /\ used'.loads = used.loads
          /\ used'.reloads = used.reloads + 1
      BY <1>1, Spent DEF ReloadBegins, LoadsOK
    <2>2. reload' \in Reloading
      BY <1>1, BlankTypes DEF ReloadBegins, NoReload, Reloading
    <2>3. LoadsOK'
      BY <1>1, <2>1, <2>2 DEF ReloadBegins, LoadsOK, UsedType, storage
    <2> QED
      BY <1>1, <2>1, <2>3, BlankTypes
      DEF ReloadBegins, MemoryOK, WritingOK, StorageOK, QueueOK, writing, storage, postgres
  <1>2. CASE ReloadReads
    <2>1. reload' \in Reloading /\ reload # NoReload
      BY <1>2 DEF ReloadReads, Reloading, QueueOK, NoReload
    <2>2. LoadsOK'
      BY <1>2, <2>1 DEF ReloadReads, LoadsOK, UsedType, storage
    <2> QED
      BY <1>2, <2>2
      DEF ReloadReads, MemoryOK, WritingOK, StorageOK, QueueOK, memory, writing, storage, postgres
  <1>3. CASE ReloadApplies
    <2>1. reload # NoReload /\ reload.content \in Content
      BY <1>3 DEF ReloadApplies, NoReload, LoadsOK, Reloading
    <2>2. used \in UsedType /\ used.loads + 1 <= 1 + used.reloads
      BY <2>1 DEF LoadsOK, UsedType
    <2>3. doc' \in Doc /\ stored' = doc' /\ lastSynced' = HashOf(doc')
      BY <1>3, <2>1, <2>2, LoadedDoc DEF ReloadApplies
    <2>4. /\ used' \in UsedType /\ used'.actions = used.actions /\ used'.loads = used.loads + 1
          /\ used'.reloads = used.reloads
      BY <1>3, <2>2, Spent DEF ReloadApplies
    <2>5. MemoryOK'
      <3>1. actions' \in 0 .. MaxActions /\ actions' <= used'.actions
        <4>1. used.actions \in 0 .. MaxActions
          BY <2>2 DEF UsedType
        <4> QED
          BY <1>3, <2>4, <4>1, Bounds DEF ReloadApplies
      <3>2. lastSynced' \in Hash
        BY <2>3, HashType
      <3> QED
        BY <1>3, <2>3, <3>1, <3>2 DEF ReloadApplies, MemoryOK
    <2>6. LoadsOK'
      BY <1>3, <2>2, <2>3, <2>4, BlankTypes DEF ReloadApplies, LoadsOK, UsedType
    <2> QED
      BY <1>3, <2>3, <2>5, <2>6 DEF ReloadApplies, WritingOK, StorageOK, QueueOK, writing, postgres
  <1>4. CASE ReloadFails
    <2>1. /\ used' \in UsedType /\ used'.actions = used.actions /\ used'.loads = used.loads
          /\ used'.reloads = used.reloads
      BY <1>4, Spent DEF ReloadFails, LoadsOK
    <2>2. LoadsOK'
      BY <1>4, <2>1, BlankTypes DEF ReloadFails, LoadsOK, UsedType, storage
    <2> QED
      BY <1>4, <2>1, <2>2
      DEF ReloadFails, MemoryOK, WritingOK, StorageOK, QueueOK, writing, storage, postgres
  <1> QED
    BY <1>1, <1>2, <1>3, <1>4 DEF Reload

LEMMA EvictTypes == ASSUME TypeInv, Evict PROVE TypeInv'
  <1> USE DEF TypeInv
  <1>1. /\ used' \in UsedType /\ used'.actions = used.actions /\ used'.loads = used.loads
        /\ used'.reloads = used.reloads
    BY Spent DEF Evict, LoadsOK
  <1>2. MemoryOK'
    <2>1. actions' \in 0 .. MaxActions /\ actions' <= used'.actions
      <3>1. used.actions \in 0 .. MaxActions
        BY DEF LoadsOK, UsedType
      <3> QED
        BY <1>1, <3>1, Bounds DEF Evict
    <2> QED
      BY <2>1, BlankTypes DEF Evict, MemoryOK
  <1>3. WritingOK'
    BY DEF Evict, WritingOK
  <1>4. alarm' \in BOOLEAN
    BY Zenon DEF Evict
  <1>5. LoadsOK'
    BY <1>1, BlankTypes DEF Evict, LoadsOK, UsedType
  <1>6. lost' \subseteq Edits
    BY StoredEdits DEF Evict, QueueOK
  <1>7. QueueOK'
    BY <1>6 DEF Evict, QueueOK
  <1> QED
    BY <1>2, <1>3, <1>4, <1>5, <1>7 DEF Evict, StorageOK

LEMMA NextTypes == TypeInv /\ [Next]_vars => TypeInv'
  <1> SUFFICES ASSUME TypeInv, [Next]_vars PROVE TypeInv'
    OBVIOUS
  <1>1. CASE Initialize
    BY <1>1, RestoreTypes, LoadTypes, LoadFailsTypes DEF Initialize
  <1>2. CASE Edit \/ Sync \/ Reload
    BY <1>2, EditTypes, SyncTypesKept, ReloadTypes
  <1>3. CASE WriteAround \/ Evict
    BY <1>3, AroundTypes, EvictTypes
  <1>4. CASE Deliver
    BY <1>4, ConsumeTypes, DiscardTypes DEF Deliver
  <1> QED
    BY <1>1, <1>2, <1>3, <1>4, SameTypes DEF Next

LEMMA InvariantTypes == Spec => []TypeInv
  BY InitTypes, NextTypes, PTL DEF Spec

\* Every load starts a line of its own, a write carries what a document can hold, and
\* actions counted off never make more than were counted.
THEOREM SyncTypeOK == Spec => []TypeOK
  BY InvariantTypes, TypeInvTypes, PTL

-----------------------------------------------------------------------------
\* A schedule has an alarm.

LEMMA InitArmed == Init => OwedIsArmed
  BY DEF Init, OwedIsArmed

LEMMA EditArmed == ASSUME OwedIsArmed, Edit PROVE OwedIsArmed'
  <1>1. ASSUME NEW e \in Edits, SocketEdit(e) \/ HttpEdit(e) PROVE OwedIsArmed'
    <2>1. step = "none" /\ UNCHANGED <<schedule, handling>> /\ (alarm => alarm')
      BY <1>1 DEF SocketEdit, HttpEdit, Apply, Quiet
    <2> QED
      BY <2>1 DEF OwedIsArmed
  <1>2. CASE ArmPersist \/ ArmSync
    BY <1>2 DEF ArmPersist, ArmSync, OwedIsArmed
  <1>3. CASE ScheduleSync
    BY <1>3, Zenon DEF ScheduleSync, OwedIsArmed
  <1>4. CASE ActionMetadata
    BY <1>4 DEF ActionMetadata, OwedIsArmed, storage
  <1> QED
    BY <1>1, <1>2, <1>3, <1>4 DEF Edit

LEMMA SyncArmed == ASSUME OwedIsArmed, Sync PROVE OwedIsArmed'
  <1>1. ASSUME NEW due \in BOOLEAN, AlarmFires(due) PROVE OwedIsArmed'
    <2>1. schedule' = schedule /\ (alarm' <=> handling' = "no" /\ schedule)
      BY <1>1, Zenon DEF AlarmFires
    <2> QED
      BY <2>1 DEF OwedIsArmed
  <1>2. CASE AlarmEnds
    BY <1>2, Zenon DEF AlarmEnds, OwedIsArmed
  <1>3. CASE \E closing \in BOOLEAN : PersistAndSync(closing)
    BY <1>3 DEF PersistAndSync, OwedIsArmed
  <1>4. CASE \E r \in Requests : FlushAndSync(r)
    BY <1>4 DEF FlushAndSync, OwedIsArmed
  <1>5. CASE SyncSucceeds
    BY <1>5, Zenon DEF SyncSucceeds, RecordSyncSuccess, OwedIsArmed
  <1>6. CASE \/ BeginDirectSync \/ SendFails \/ WriteVersion \/ SyncFails
             \/ \E ok \in BOOLEAN : SendToQueue(ok)
    BY <1>6 DEF BeginDirectSync, SendFails, WriteVersion, SyncFails, SendToQueue, OwedIsArmed,
                storage
  <1> QED
    BY <1>1, <1>2, <1>3, <1>4, <1>5, <1>6 DEF Sync, Flush, CompleteEdit, Requests

LEMMA AroundArmed ==
  ASSUME OwedIsArmed,
         Initialize \/ Reload \/ WriteAround \/ Deliver \/ UNCHANGED vars
  PROVE  OwedIsArmed'
  BY DEF Initialize, Restore, LoadFromPostgres, LoadFails, Reload, ReloadBegins, ReloadReads,
         ReloadApplies, ReloadFails, WriteAround, Deliver, Consume, Discard, vars, storage,
         OwedIsArmed

\* While the session is not evicted between storing the schedule and setting the alarm,
\* a schedule is never left without one: through alarms that fire early, writes that
\* fail, flushes that overtake the alarm, edits during a write and reloads.
THEOREM ScheduleIsArmed ==
  ASSUME MaxCrashes = 0
  PROVE  Spec => []OwedIsArmed
  <1>1. TypeInv /\ OwedIsArmed /\ [Next]_vars => OwedIsArmed'
    <2>1. TypeInv => ~Evict
      BY DEF TypeInv, LoadsOK, UsedType, Evict
    <2> QED
      BY <2>1, EditArmed, SyncArmed, AroundArmed DEF Next
  <1> QED
    BY <1>1, InitArmed, InvariantTypes, PTL DEF Spec

-----------------------------------------------------------------------------
\* A flush covers what it was asked for.

\* A request is behind the lock once, or holds it, from being asked to being answered,
\* and the session keeps what the request found.
AskedHeld ==
    /\ \A r \in Requests : asked[r] # None => asked[r].edits \subseteq doc.content.edits
    /\ ~initialized => doc.content.edits = {}

TurnsApart ==
    /\ \A i \in DOMAIN waiting : /\ asked[waiting[i]] # None
                                 /\ active # None => active.who # waiting[i]
    /\ \A i, j \in DOMAIN waiting : waiting[i] = waiting[j] => i = j

TurnCovers ==
    /\ active # None /\ active.who \in Requests =>
          /\ asked[active.who] # None
          /\ asked[active.who].edits \subseteq active.content.edits
          /\ active.phase \in {"write", "written", "overtaken"}
    /\ active # None /\ active.phase = "written" => active.content \in versions

FlushInv == AskedHeld /\ TurnsApart /\ TurnCovers

LEMMA InitFlush == Init => FlushInv
  BY BlankTypes DEF Init, FlushInv, AskedHeld, TurnsApart, TurnCovers

\* Steps that start, end and advance no write, and let the document only grow.
LEMMA FlushKept ==
  ASSUME FlushInv, UNCHANGED <<active, waiting, asked>>, versions \subseteq versions',
         doc.content.edits \subseteq doc'.content.edits,
         ~initialized' => doc'.content.edits = {}
  PROVE  FlushInv'
  BY DEF FlushInv, AskedHeld, TurnsApart, TurnCovers

LEMMA ApplyFlush ==
  ASSUME TypeInv, FlushInv, NEW e \in Edits, SocketEdit(e) \/ HttpEdit(e)
  PROVE  FlushInv'
  <1>1. Apply(e) /\ initialized' = initialized /\ UNCHANGED <<active, waiting, asked, versions>>
    BY DEF SocketEdit, HttpEdit, writing, postgres
  <1>2. initialized /\ doc.content.edits \subseteq doc'.content.edits
    BY <1>1, ApplyDoc DEF Apply
  <1> QED
    BY <1>1, <1>2, FlushKept

LEMMA TakeFlush ==
  ASSUME TypeInv, FlushInv, NEW who \in {"alarm", "close"}, SyncToPostgres(who),
         UNCHANGED <<waiting, asked, doc, initialized, versions>>
  PROVE  FlushInv'
  <1>1. CASE active' = active
    BY <1>1, FlushKept DEF FlushInv, AskedHeld
  <1>2. CASE active' # active
    <2>1. waiting = <<>> /\ \E phase \in {"send", "write"} : active' = Take(who, phase)
      BY <1>2 DEF SyncToPostgres, LockFree
    <2>2. active'.who = who /\ who \notin Requests /\ active'.phase # "written"
      BY <2>1 DEF Take, Requests
    <2> QED
      BY <2>1, <2>2 DEF FlushInv, AskedHeld, TurnsApart, TurnCovers
  <1> QED
    BY <1>1, <1>2

LEMMA AskFlush ==
  ASSUME TypeInv, FlushInv, NEW r \in Requests, FlushAndSync(r)
  PROVE  FlushInv'
  <1>1. /\ asked \in [Requests -> Content \cup {None}] /\ doc.content \in Content
        /\ waiting \in Seq(Requests) /\ None \notin Content
    BY DEF TypeInv, WritingOK, MemoryOK, Doc
  <1>2. /\ asked[r] = None /\ waiting' = Append(waiting, r)
        /\ asked' = [asked EXCEPT ![r] = doc.content]
        /\ UNCHANGED <<active, doc, initialized, versions>>
    BY DEF FlushAndSync, memory, postgres
  <1>3. AskedHeld'
    BY <1>1, <1>2 DEF FlushInv, AskedHeld
  <1>4. \A i \in DOMAIN waiting : waiting[i] # r /\ waiting[i] \in Requests
    BY <1>1, <1>2 DEF FlushInv, TurnsApart
  <1>5. active # None => active.who # r
    BY <1>2 DEF FlushInv, TurnCovers
  <1>6. /\ DOMAIN waiting' = DOMAIN waiting \cup {Len(waiting) + 1}
        /\ Len(waiting) + 1 \notin DOMAIN waiting
        /\ waiting'[Len(waiting) + 1] = r
        /\ \A i \in DOMAIN waiting : waiting'[i] = waiting[i]
    BY <1>1, <1>2
  <1>7. asked'[r] # None /\ \A q \in Requests \ {r} : asked'[q] = asked[q]
    BY <1>1, <1>2
  <1>8. TurnsApart'
    BY <1>2, <1>4, <1>5, <1>6, <1>7 DEF FlushInv, TurnsApart
  <1>9. TurnCovers'
    BY <1>2, <1>5, <1>7 DEF FlushInv, TurnCovers
  <1> QED
    BY <1>3, <1>8, <1>9 DEF FlushInv

LEMMA BeginFlush ==
  ASSUME TypeInv, FlushInv, BeginDirectSync
  PROVE  FlushInv'
  <1> DEFINE h == Head(waiting)
  <1>1. /\ asked \in [Requests -> Content \cup {None}] /\ waiting \in Seq(Requests)
        /\ waiting # <<>> /\ active = None
        /\ waiting' = Tail(waiting)
        /\ UNCHANGED <<doc, initialized, versions>>
    BY DEF TypeInv, WritingOK, BeginDirectSync, memory, postgres
  <1>2. h \in Requests /\ 1 \in DOMAIN waiting /\ h = waiting[1]
    BY <1>1
  <1>3. asked[h] # None
    BY <1>2 DEF FlushInv, TurnsApart
  <1>4. \A i \in DOMAIN waiting' : i + 1 \in DOMAIN waiting /\ waiting'[i] = waiting[i + 1]
                                   /\ i \in Nat /\ i + 1 # 1
    BY <1>1
  <1>5. \A i \in DOMAIN waiting' : waiting'[i] \in Requests /\ waiting'[i] # h
                                   /\ asked[waiting'[i]] # None
    BY <1>1, <1>2, <1>4 DEF FlushInv, TurnsApart
  <1>6. \A i, j \in DOMAIN waiting' : waiting'[i] = waiting'[j] => i = j
    BY <1>4 DEF FlushInv, TurnsApart
  <1> HIDE DEF h
  <1>7. CASE failed
    <2>1. active' = None /\ asked' = [asked EXCEPT ![h] = None]
      BY <1>7 DEF BeginDirectSync, h
    <2>2. \A q \in Requests : asked'[q] = (IF q = h THEN None ELSE asked[q])
      BY <1>1, <2>1
    <2>3. AskedHeld'
      BY <1>1, <2>2 DEF FlushInv, AskedHeld
    <2> QED
      BY <1>5, <1>6, <2>1, <2>2, <2>3 DEF FlushInv, TurnsApart, TurnCovers
  <1>8. CASE ~failed
    <2>1. active' = Take(h, "write") /\ asked' = asked
      BY <1>8 DEF BeginDirectSync, h
    <2>2. active'.who = h /\ active'.content = doc.content /\ active'.phase = "write"
      BY <2>1 DEF Take
    <2>3. asked[h].edits \subseteq doc.content.edits
      BY <1>2, <1>3 DEF FlushInv, AskedHeld
    <2> QED
      BY <1>1, <1>3, <1>5, <1>6, <2>1, <2>2, <2>3 DEF FlushInv, AskedHeld, TurnsApart, TurnCovers
  <1> QED
    BY <1>7, <1>8

LEMMA SendFlush ==
  ASSUME TypeInv, FlushInv, SendFails \/ \E ok \in BOOLEAN : SendToQueue(ok)
  PROVE  FlushInv'
  <1>1. /\ active # None /\ active.phase = "send" /\ active \in PendingWrite
        /\ UNCHANGED <<waiting, asked, doc, initialized, versions>>
    BY DEF SendFails, SendToQueue, TypeInv, WritingOK, memory, postgres
  <1>2. PICK p \in {"sent", "write"} : active' = [active EXCEPT !.phase = p]
    BY Zenon DEF SendFails, SendToQueue
  <1>3. active' # None /\ active'.who = active.who /\ active'.phase = p
    BY <1>1, <1>2 DEF PendingWrite
  <1>4. active.who \notin Requests
    BY <1>1 DEF FlushInv, TurnCovers
  <1> QED
    BY <1>1, <1>3, <1>4 DEF FlushInv, AskedHeld, TurnsApart, TurnCovers

LEMMA WriteFlush ==
  ASSUME TypeInv, FlushInv, WriteVersion
  PROVE  FlushInv'
  <1>1. /\ active # None /\ active.phase = "write" /\ active \in PendingWrite
        /\ UNCHANGED <<waiting, asked, doc, initialized>>
        /\ versions' = versions \cup {active.content}
        /\ active' = [active EXCEPT !.phase = "written"]
    BY DEF WriteVersion, Insert, TypeInv, WritingOK, memory
  <1>2. /\ active' # None /\ active'.who = active.who /\ active'.phase = "written"
        /\ active'.content = active.content
    BY <1>1 DEF PendingWrite
  <1> QED
    BY <1>1, <1>2 DEF FlushInv, AskedHeld, TurnsApart, TurnCovers

LEMMA FinishFlush ==
  ASSUME TypeInv, FlushInv, active # None, Finish,
         UNCHANGED <<waiting, doc, initialized, versions>>
  PROVE  FlushInv'
  <1>1. active' = None /\ asked' = [r \in Requests |-> IF r = active.who THEN None ELSE asked[r]]
    BY DEF Finish
  <1>2. \A r \in Requests : asked'[r] = IF r = active.who THEN None ELSE asked[r]
    BY <1>1
  <1>3. \A i \in DOMAIN waiting : waiting[i] \in Requests
    BY DEF TypeInv, WritingOK
  <1>4. AskedHeld'
    BY <1>2 DEF FlushInv, AskedHeld
  <1>5. TurnsApart'
    BY <1>1, <1>2, <1>3 DEF FlushInv, TurnsApart
  <1> QED
    BY <1>1, <1>4, <1>5 DEF FlushInv, TurnCovers

LEMMA SyncFlush == ASSUME TypeInv, FlushInv, Sync PROVE FlushInv'
  <1>1. ASSUME NEW due \in BOOLEAN, AlarmFires(due) PROVE FlushInv'
    <2>1. UNCHANGED <<waiting, asked, doc, initialized, versions>>
      BY <1>1 DEF AlarmFires, memory, postgres
    <2>2. SyncToPostgres("alarm") \/ active' = active
      BY <1>1 DEF AlarmFires
    <2> QED
      BY <2>1, <2>2, TakeFlush, FlushKept DEF FlushInv, AskedHeld
  <1>2. CASE AlarmEnds
    BY <1>2, FlushKept DEF AlarmEnds, memory, writing, postgres, FlushInv, AskedHeld
  <1>3. ASSUME NEW closing \in BOOLEAN, PersistAndSync(closing) PROVE FlushInv'
    <2>1. UNCHANGED <<waiting, asked, doc, initialized, versions>> /\ SyncToPostgres("close")
      BY <1>3 DEF PersistAndSync, memory, postgres
    <2> QED
      BY <2>1, TakeFlush
  <1>4. CASE SyncSucceeds
    BY <1>4, FinishFlush DEF SyncSucceeds
  <1>5. CASE SyncFails
    BY <1>5, FinishFlush DEF SyncFails, memory, postgres
  <1> QED
    BY <1>1, <1>2, <1>3, <1>4, <1>5, AskFlush, BeginFlush, SendFlush, WriteFlush
    DEF Sync, Flush, CompleteEdit, Requests

LEMMA InitializeFlush == ASSUME TypeInv, FlushInv, Initialize PROVE FlushInv'
  <1>1. ~initialized => doc.content.edits = {}
    BY DEF FlushInv, AskedHeld
  <1> QED
    BY <1>1, FlushKept
    DEF Initialize, Restore, LoadFromPostgres, LoadFails, writing, postgres

LEMMA EvictFlush == ASSUME Evict PROVE FlushInv'
  BY BlankTypes DEF Evict, FlushInv, AskedHeld, TurnsApart, TurnCovers

\* Somebody else's version may take the number of a flush's: the flush then
\* answers without one of its own.
LEMMA OvertakenFlush ==
  ASSUME TypeInv, FlushInv, MayOvertake, UNCHANGED <<waiting, asked, doc, initialized>>,
         versions \subseteq versions'
  PROVE  FlushInv'
  <1>1. CASE active' = active
    BY <1>1, FlushKept DEF FlushInv, AskedHeld
  <1>2. CASE active' # active
    <2>1. /\ active # None /\ active' # None /\ active'.phase = "overtaken"
          /\ active'.who = active.who /\ active'.content = active.content
      BY <1>2, Overtaken
    <2> QED
      BY <2>1 DEF FlushInv, AskedHeld, TurnsApart, TurnCovers
  <1> QED
    BY <1>1, <1>2

LEMMA OutsideFlush ==
  ASSUME TypeInv, FlushInv, WriteAround \/ Deliver
  PROVE  FlushInv'
  <1>1. CASE WriteAround \/ \E batch \in SUBSET DOMAIN messages, acked \in BOOLEAN : Consume(batch, acked)
    <2>1. /\ MayOvertake /\ UNCHANGED <<waiting, asked, doc, initialized>>
          /\ versions \subseteq versions'
      BY <1>1 DEF WriteAround, Consume, Insert, memory
    <2> QED
      BY <2>1, OvertakenFlush
  <1>2. CASE \E batch \in SUBSET DOMAIN messages : Discard(batch)
    <2>1. UNCHANGED <<active, waiting, asked, doc, initialized, versions>>
      BY <1>2 DEF Discard, memory, writing
    <2> QED
      BY <2>1, FlushKept DEF FlushInv, AskedHeld
  <1> QED
    BY <1>1, <1>2 DEF Deliver

LEMMA AroundFlush ==
  ASSUME TypeInv, FlushInv,
         ArmPersist \/ ScheduleSync \/ ArmSync \/ ActionMetadata \/ UNCHANGED vars
  PROVE  FlushInv'
  <1>1. UNCHANGED <<active, waiting, asked, doc, initialized, versions>>
    BY DEF ArmPersist, ScheduleSync, ArmSync, ActionMetadata, vars, memory, writing, postgres
  <1> QED
    BY <1>1, FlushKept DEF FlushInv, AskedHeld

\* No reload ever begins, so none is under way.
NoReloads == reload = NoReload

LEMMA ReloadsNever ==
  ASSUME MaxReloads = 0
  PROVE  /\ Init => NoReloads
         /\ TypeInv /\ NoReloads /\ [Next]_vars => NoReloads'
         /\ TypeInv /\ NoReloads => ~Reload
  <1>1. TypeInv => ~ReloadBegins
    BY DEF TypeInv, LoadsOK, UsedType, ReloadBegins
  <1>2. TypeInv /\ NoReloads => ~Reload
    BY <1>1 DEF NoReloads, NoReload, Reload, ReloadReads, ReloadApplies, ReloadFails
  <1>3. TypeInv /\ NoReloads /\ [Next]_vars => NoReloads'
    BY <1>2
    DEF NoReloads, Next, vars, Initialize, Restore, LoadFromPostgres, LoadFails, Edit, SocketEdit,
        HttpEdit, ArmPersist, ScheduleSync, ArmSync, ActionMetadata, Sync, AlarmFires, AlarmEnds,
        PersistAndSync, Flush, CompleteEdit, FlushAndSync, BeginDirectSync, SendFails, SendToQueue,
        WriteVersion, SyncSucceeds, SyncFails, WriteAround, Evict, Deliver, Consume, Discard
  <1> QED
    BY <1>2, <1>3 DEF Init, NoReloads

LEMMA NextFlush ==
  ASSUME MaxReloads = 0, TypeInv, NoReloads, FlushInv, [Next]_vars
  PROVE  FlushInv'
  BY ReloadsNever, InitializeFlush, ApplyFlush, SyncFlush, EvictFlush, OutsideFlush, AroundFlush
  DEF Next, Edit

\* A flush that reports success has one version with every edit the session held when it
\* was asked, unless its insert lost its number to another writer and it was answered with
\* that writer's version: through the writes it queued behind, edits and evictions meanwhile,
\* and failed writes, as long as no reload takes the document away under it.
THEOREM FlushIsCovered ==
  ASSUME MaxReloads = 0
  PROVE  Spec => FlushCovers
  <1>1. TypeInv /\ FlushInv /\ [Next]_vars =>
           [\A r \in Requests : SyncSucceeds /\ active.who = r =>
              \/ active.phase = "overtaken"
              \/ \E v \in versions' : asked[r].edits \subseteq v.edits]_vars
    BY DEF FlushInv, TurnCovers, SyncSucceeds
  <1>2. TypeInv /\ NoReloads /\ FlushInv /\ [Next]_vars => FlushInv'
    BY NextFlush
  <1> QED
    BY <1>1, <1>2, InitFlush, InvariantTypes, ReloadsNever, PTL DEF Spec, FlushCovers

-----------------------------------------------------------------------------
\* What the session holds is written, in the queue, or scheduled.

Sending == active # None /\ active.phase = "send"

Written(e) == \E v \in versions : e \in v.edits

\* Nothing is owed for what is lost. Of a batch only the last message is written, so an
\* edit is safe in the queue while it is in the last message and no write is about to
\* send another.
Landed(e) ==
    \/ Written(e) \/ e \in lost
    \/ ~Sending /\ messages # <<>> /\ e \in messages[Len(messages)].edits

Owing(edits) == schedule \/ \A e \in edits \cap Inserts : Landed(e)

\* What is stored and has been scheduled, if it had to be: all but the HTTP edit whose
\* handler is between the two.
Settled == IF step = "edited" THEN EditsOf(stored) \ HttpEdits ELSE EditsOf(stored)

OwedInv ==
    /\ Quiet => Owing(doc.content.edits)
    /\ HashOf(doc) = lastSynced => Owing(doc.content.edits)
    /\ Owing(Settled)
    /\ step = "scheduled" => schedule
    /\ step # "none" => initialized

SessionInv ==
    /\ ~initialized => doc = BlankDoc
    /\ initialized => EditsOf(stored) \subseteq doc.content.edits

WriteInv ==
    /\ active # None => active.hash.inserts = active.content.edits \cap Inserts
    /\ active # None /\ active.phase \in {"sent", "written"} =>
          \A e \in active.content.edits : Landed(e)
    /\ tip \in versions
    /\ reload.phase = "read" => reload.content \in versions

\* No edit is anywhere before it is made.
UsedInv ==
    /\ doc.content.edits \subseteq used.edits
    /\ lastSynced # None => lastSynced.inserts \subseteq used.edits
    /\ stored # None => stored.content.edits \subseteq used.edits
    /\ active # None => active.content.edits \subseteq used.edits
    /\ \A i \in DOMAIN messages : messages[i].edits \subseteq used.edits
    /\ tip.edits \subseteq used.edits
    /\ reload.content.edits \subseteq used.edits

ScheduleInv == SessionInv /\ UsedInv /\ WriteInv /\ OwedInv

LEMMA InitSchedule == Init => ScheduleInv
  <1> SUFFICES ASSUME Init PROVE ScheduleInv
    OBVIOUS
  <1>1. doc.content.edits = {} /\ stored = None /\ active = None /\ lastSynced = None
        /\ messages = <<>> /\ waiting = <<>> /\ step = "none" /\ ~initialized /\ doc = BlankDoc
        /\ tip.edits = {} /\ tip \in versions /\ reload = NoReload /\ reload.phase = "none"
        /\ reload.content.edits = {}
    BY DEF Init, BlankDoc, NoReload
  <1> QED
    BY <1>1 DEF ScheduleInv, SessionInv, UsedInv, WriteInv, OwedInv, Owing, Settled, EditsOf

\* The last message stays last when others are acknowledged.
LEMMA LastStays ==
  ASSUME messages \in Seq(Content), NEW batch, Acknowledge(batch),
         messages # <<>>, Len(messages) \notin batch
  PROVE  messages' # <<>> /\ messages'[Len(messages')] = messages[Len(messages)]
  <1> DEFINE kept == DOMAIN messages \ batch
             n == Len(messages)
             c == Cardinality(kept)
  <1>0. n \in Nat
    OBVIOUS
  <1>1. n \in kept /\ \A i \in kept : i \in Nat /\ i <= n
    OBVIOUS
  <1> HIDE DEF kept, n
  <1>2. IsFiniteSet(1 .. n)
    BY <1>0, FS_Interval
  <1>3. IsFiniteSet(kept)
    <2>1. kept \subseteq 1 .. n
      BY DEF kept, n
    <2> QED
      BY <1>2, <2>1, FS_Subset
  <1>4. c \in Nat /\ IsFiniteSet(kept \ {n}) /\ Cardinality(kept \ {n}) < c
    <2>1. Cardinality(kept) \in Nat
      BY <1>3, FS_CardinalityType
    <2>2. IsFiniteSet(kept \ {n}) /\ Cardinality(kept \ {n}) = Cardinality(kept) - 1
      BY <1>1, <1>3, FS_RemoveElement
    <2> QED
      BY <2>1, <2>2
  <1> HIDE DEF c
  <1>5. PICK pos \in [1 .. c -> kept] :
            /\ \A i, j \in DOMAIN pos : i < j => pos[i] < pos[j]
            /\ messages' = [i \in DOMAIN pos |-> messages[pos[i]]]
    BY DEF Acknowledge, kept, c
  <1>6. PICK k \in 1 .. c : pos[k] = n
    <2> SUFFICES ASSUME \A k \in 1 .. c : pos[k] # n PROVE FALSE
      OBVIOUS
    <2>1. pos \in [1 .. c -> kept \ {n}]
      BY <1>5
    <2>0. c \in Nat
      BY <1>4
    <2>2. IsFiniteSet(1 .. c)
      BY <2>0, FS_Interval
    <2>3. Cardinality(1 .. c) = c
      BY <2>0, FS_Interval
    <2>4. Cardinality(kept \ {n}) < Cardinality(1 .. c)
      BY <1>4, <2>3, Zenon
    <2>9. IsFiniteSet(kept \ {n})
      BY <1>4
    <2>5. PICK x, y \in 1 .. c : x # y /\ pos[x] = pos[y]
      <3> SUFFICES ASSUME \A x, y \in 1 .. c : pos[x] = pos[y] => x = y PROVE FALSE
        OBVIOUS
      <3>1. pos \in Injection(1 .. c, kept \ {n})
        BY <2>1 DEF Injection, IsInjective
      <3>2. Cardinality(1 .. c) <= Cardinality(kept \ {n})
        BY <2>9, <3>1, FS_Injection
      <3>3. Cardinality(kept \ {n}) \in Nat
        BY <2>9, FS_CardinalityType
      <3> QED
        BY <1>4, <2>3, <3>2, <3>3
    <2>6. pos[x] \in Nat /\ pos[y] \in Nat
      <3>1. pos[x] \in kept /\ pos[y] \in kept
        BY <1>5
      <3> QED
        BY <1>1, <3>1
    <2>7. x \in DOMAIN pos /\ y \in DOMAIN pos /\ (x < y \/ y < x)
      BY <1>4, <1>5, <2>5
    <2>8. pos[x] < pos[y] \/ pos[y] < pos[x]
      BY <1>5, <2>7
    <2> QED
      BY <2>5, <2>6, <2>8
  <1>7. k = c
    <2>1. c \in 1 .. c /\ k \in DOMAIN pos /\ c \in DOMAIN pos /\ (k = c \/ k < c)
      BY <1>4, <1>5, <1>6
    <2>2. pos[c] \in kept
      BY <1>5, <2>1
    <2>3. pos[c] \in Nat /\ pos[c] <= n
      BY <1>1, <2>2
    <2>4. k < c => n < pos[c]
      BY <1>5, <1>6, <2>1
    <2> QED
      BY <1>0, <2>1, <2>3, <2>4
  <1>8. messages' = [i \in 1 .. c |-> messages[pos[i]]] /\ c \in 1 .. c
    BY <1>5, <1>6, <1>7
  <1>9. messages' \in Seq(Content) /\ Len(messages') = c
    <2>1. messages' \in Seq(Content)
      BY AcknowledgedQueue
    <2>2. DOMAIN messages' = 1 .. c
      BY <1>8
    <2> QED
      BY <1>4, <2>1, <2>2
  <1>10. messages'[c] = messages[n]
    BY <1>6, <1>7, <1>8
  <1>11. messages' # <<>>
    BY <1>4, <1>8, <1>9
  <1> QED
    BY <1>9, <1>10, <1>11 DEF n

LEMMA LandedStays ==
  ASSUME versions \subseteq versions', lost \subseteq lost', messages' = messages,
         Sending' => Sending
  PROVE  \A e : Landed(e) => Landed(e)'
  BY DEF Landed, Written

LEMMA ConsumeLanded ==
  ASSUME TypeInv, NEW batch \in SUBSET DOMAIN messages, NEW acked \in BOOLEAN, Consume(batch, acked)
  PROVE  \A e : Landed(e) => Landed(e)'
  <1>1. /\ messages \in Seq(Content) /\ lost' = lost /\ (Sending' => Sending)
        /\ \/ UNCHANGED messages
           \/ Acknowledge(batch)
    BY Overtaken DEF Consume, TypeInv, QueueOK, Sending
  <1>2. PICK last \in batch : (\A i \in batch : i <= last) /\ Insert(messages[last])
    BY DEF Consume
  <1>3. versions' = versions \cup {messages[last]}
    BY <1>2 DEF Insert
  <1> SUFFICES ASSUME NEW e, Landed(e), ~Written(e), e \notin lost PROVE Landed(e)'
    BY <1>1, <1>3 DEF Landed, Written
  <1>4. ~Sending /\ messages # <<>> /\ e \in messages[Len(messages)].edits
    BY DEF Landed
  <1>5. CASE Len(messages) \in batch
    <2>1. last = Len(messages)
      BY <1>1, <1>2, <1>5
    <2> QED
      BY <1>3, <1>4, <2>1 DEF Landed, Written
  <1>6. CASE Len(messages) \notin batch
    <2>1. messages' # <<>> /\ messages'[Len(messages')] = messages[Len(messages)]
      BY <1>1, <1>4, <1>6, LastStays
    <2> QED
      BY <1>1, <1>4, <2>1 DEF Landed
  <1> QED
    BY <1>5, <1>6

\* What a discarded batch carried is lost; the rest of the queue stays.
LEMMA DiscardLanded ==
  ASSUME TypeInv, NEW batch \in SUBSET DOMAIN messages, Discard(batch)
  PROVE  \A e : Landed(e) => Landed(e)'
  <1>1. messages \in Seq(Content) /\ UNCHANGED <<active, versions>> /\ Acknowledge(batch)
    BY DEF Discard, TypeInv, QueueOK, writing
  <1>2. PICK last \in batch : /\ \A i \in batch : i <= last
                              /\ lost' = lost \cup messages[last].edits
    BY DEF Discard
  <1> SUFFICES ASSUME NEW e, Landed(e), ~Written(e), e \notin lost PROVE Landed(e)'
    BY <1>1, <1>2 DEF Landed, Written
  <1>3. ~Sending /\ messages # <<>> /\ e \in messages[Len(messages)].edits
    BY DEF Landed
  <1>4. CASE Len(messages) \in batch
    <2>1. last = Len(messages)
      BY <1>1, <1>2, <1>4
    <2> QED
      BY <1>2, <1>3, <2>1 DEF Landed
  <1>5. CASE Len(messages) \notin batch
    <2>1. messages' # <<>> /\ messages'[Len(messages')] = messages[Len(messages)]
      BY <1>1, <1>3, <1>5, LastStays
    <2> QED
      BY <1>1, <1>3, <2>1 DEF Landed, Sending
  <1> QED
    BY <1>4, <1>5

\* Steps that neither start nor end a write, leave the session's content, and lose
\* nothing that has landed.
LEMMA OwedKept ==
  ASSUME OwedInv, UNCHANGED <<doc, lastSynced, initialized, stored>>,
         \A e : Landed(e) => Landed(e)', schedule => schedule',
         step' = step \/ (step = "flagged" /\ step' = "edited")
  PROVE  OwedInv'
  <1>1. HashOf(doc)' = HashOf(doc)
    BY DEF HashOf
  <1>2. Quiet' => Owing(doc.content.edits)'
    BY DEF OwedInv, Owing, Quiet
  <1>3. (HashOf(doc) = lastSynced => Owing(doc.content.edits))'
    BY <1>1 DEF OwedInv, Owing
  <1>4. Owing(Settled)'
    BY DEF OwedInv, Owing, Settled, EditsOf
  <1> QED
    BY <1>2, <1>3, <1>4 DEF OwedInv

LEMMA SessionKept ==
  ASSUME SessionInv, UNCHANGED <<doc, initialized, stored>>
  PROVE  SessionInv'
  BY DEF SessionInv, EditsOf

LEMMA NoneIsNoHash == ASSUME TypeInv PROVE HashOf(doc) # None
  BY HashType DEF TypeInv, MemoryOK

\* A new load is of a version, so all of it is written.
LEMMA WrittenOwed ==
  ASSUME TypeInv, NEW c \in Content, c \in versions, versions' = versions
  PROVE  \A e \in c.edits : Landed(e)'
  BY DEF Landed, Written

LEMMA RestoreSchedule == ASSUME TypeInv, ScheduleInv, Restore PROVE ScheduleInv'
  <1> USE DEF ScheduleInv
  <1>1. /\ stored # None /\ doc' = stored /\ lastSynced' = HashOf(stored) /\ initialized'
        /\ Quiet /\ UNCHANGED <<failed, active, waiting, step, reload, stored, schedule, messages,
                                tip, versions, lost, used>>
    BY DEF Restore, writing, storage, postgres
  <1>2. \A e : Landed(e) => Landed(e)'
    BY <1>1, LandedStays DEF Sending
  <1>3. SessionInv'
    BY <1>1 DEF SessionInv, EditsOf
  <1>4. UsedInv'
    BY <1>1 DEF UsedInv, HashOf
  <1>5. WriteInv'
    BY <1>1, <1>2 DEF WriteInv
  <1>6. Owing(stored.content.edits)'
    BY <1>1, <1>2 DEF OwedInv, Owing, Settled, EditsOf, Quiet
  <1>7. OwedInv'
    BY <1>1, <1>6 DEF OwedInv, Quiet, Owing, Settled, EditsOf
  <1> QED
    BY <1>3, <1>4, <1>5, <1>7

LEMMA LoadSchedule == ASSUME TypeInv, ScheduleInv, LoadFromPostgres PROVE ScheduleInv'
  <1> USE DEF ScheduleInv
  <1>1. /\ stored = None /\ doc' = Loaded(tip) /\ stored' = doc' /\ lastSynced' = HashOf(doc')
        /\ initialized' /\ Quiet /\ Spend("loads")
        /\ UNCHANGED <<failed, active, waiting, step, reload, schedule, messages, tip, versions, lost>>
    BY DEF LoadFromPostgres, writing, postgres
  <1>2. /\ used \in UsedType /\ used.loads \in Nat /\ used.loads + 1 <= 1 + used.reloads
        /\ tip \in Content /\ tip \in versions
    BY <1>1 DEF TypeInv, LoadsOK, UsedType, QueueOK, WriteInv
  <1>3. doc' \in Doc /\ doc'.content = tip /\ doc'.line >= 1
    BY <1>1, <1>2, LoadedDoc
  <1>4. used'.edits = used.edits
    BY <1>1, <1>2, Spent
  <1>5. \A e : Landed(e) => Landed(e)'
    BY <1>1, LandedStays DEF Sending
  <1>6. \A e \in tip.edits : Landed(e)'
    BY <1>1, <1>2, WrittenOwed
  <1>7. SessionInv'
    BY <1>1, <1>3 DEF SessionInv, EditsOf
  <1>8. UsedInv'
    BY <1>1, <1>3, <1>4 DEF UsedInv, HashOf
  <1>9. WriteInv'
    BY <1>1, <1>5 DEF WriteInv
  <1>10. OwedInv'
    BY <1>1, <1>3, <1>6 DEF OwedInv, Owing, Quiet, Settled, EditsOf
  <1> QED
    BY <1>7, <1>8, <1>9, <1>10

LEMMA LoadFailsSchedule == ASSUME TypeInv, ScheduleInv, LoadFails PROVE ScheduleInv'
  <1> USE DEF ScheduleInv
  <1>1. /\ stored = None /\ doc = BlankDoc /\ failed' /\ initialized' /\ Quiet
        /\ lastSynced' = HashOf(doc) \/ lastSynced' = lastSynced
        /\ UNCHANGED <<doc, active, waiting, step, reload, stored, schedule, messages, tip, versions, lost>>
    BY DEF LoadFails, writing, storage, postgres, SessionInv
  <1>2. used'.edits = used.edits
    BY Spent DEF LoadFails, TypeInv, LoadsOK
  <1>3. doc.content.edits = {}
    BY <1>1, BlankTypes
  <1>4. \A e : Landed(e) => Landed(e)'
    BY <1>1, LandedStays DEF Sending
  <1>5. SessionInv'
    BY <1>1 DEF SessionInv, EditsOf
  <1>6. UsedInv'
    BY <1>1, <1>2 DEF UsedInv, HashOf
  <1>7. WriteInv'
    BY <1>1, <1>4 DEF WriteInv
  <1>8. OwedInv'
    BY <1>1, <1>3 DEF OwedInv, Owing, Quiet, Settled, EditsOf
  <1> QED
    BY <1>5, <1>6, <1>7, <1>8

\* An insertion was in nothing that was synchronised before: the session looks clean
\* after an edit only if it did before and the edit is a deletion.
LEMMA ApplyUnsynced ==
  ASSUME TypeInv, UsedInv, NEW e \in Edits, Apply(e), HashOf(doc)' = lastSynced
  PROVE  e \notin Inserts /\ HashOf(doc) = lastSynced
  <1>1. doc'.content.edits = doc.content.edits \cup {e} /\ e \notin used.edits
        /\ doc'.line = doc.line
    BY ApplyDoc DEF Apply
  <1>2. HashOf(doc)' # None
    <2>1. doc' \in Doc
      BY ApplyDoc
    <2> QED
      BY <2>1, HashType DEF HashOf
  <1>3. e \notin Inserts
    <2>1. e \in Inserts => e \in HashOf(doc)'.inserts
      BY <1>1 DEF HashOf
    <2>2. lastSynced # None => e \notin lastSynced.inserts
      BY <1>1 DEF UsedInv
    <2> QED
      BY <1>2, <2>1, <2>2
  <1>4. HashOf(doc)' = HashOf(doc)
    <2>1. doc'.content.edits \cap Inserts = doc.content.edits \cap Inserts
      BY <1>1, <1>3
    <2> QED
      BY <1>1, <2>1 DEF HashOf
  <1> QED
    BY <1>3, <1>4

LEMMA EditSchedule ==
  ASSUME TypeInv, ScheduleInv, NEW e \in Edits, SocketEdit(e) \/ HttpEdit(e)
  PROVE  ScheduleInv'
  <1> USE DEF ScheduleInv
  <1>1. /\ Apply(e) /\ Quiet /\ initialized
        /\ UNCHANGED <<lastSynced, initialized, failed, active, waiting, reload, schedule, messages,
                       tip, versions, lost>>
        /\ \/ stored' = stored
           \/ step' = "edited" /\ e \in HttpEdits /\ stored' = doc'
        /\ step' \in {"flagged", "edited"}
    BY DEF SocketEdit, HttpEdit, Apply, writing, postgres
  <1>2. /\ doc' \in Doc /\ doc'.content.edits = doc.content.edits \cup {e} /\ doc'.line = doc.line
        /\ used'.edits = used.edits \cup {e}
    BY <1>1, ApplyDoc
  <1>3. \A x : Landed(x) => Landed(x)'
    BY <1>1, LandedStays DEF Sending
  <1>4. SessionInv'
    BY <1>1, <1>2 DEF SessionInv, EditsOf
  <1>5. UsedInv'
    BY <1>1, <1>2 DEF UsedInv
  <1>6. WriteInv'
    BY <1>1, <1>3 DEF WriteInv
  <1>7. HashOf(doc)' = lastSynced' => Owing(doc.content.edits)'
    <2>1. SUFFICES ASSUME HashOf(doc)' = lastSynced' PROVE Owing(doc.content.edits)'
      OBVIOUS
    <2>2. e \notin Inserts /\ HashOf(doc) = lastSynced
      BY <1>1, <2>1, ApplyUnsynced
    <2>3. Owing(doc.content.edits)
      BY <2>2 DEF OwedInv
    <2> QED
      BY <1>1, <1>2, <1>3, <2>2, <2>3 DEF Owing
  <1>8. Settled' \subseteq doc.content.edits \/ Settled' \subseteq Settled
    <2>1. CASE stored' = stored
      BY <1>1, <2>1 DEF Settled, EditsOf, Quiet
    <2>2. CASE step' = "edited" /\ e \in HttpEdits /\ stored' = doc'
      BY <1>1, <1>2, <2>2 DEF Settled, EditsOf
    <2> QED
      BY <1>1, <2>1, <2>2
  <1>9. Owing(Settled)'
    BY <1>1, <1>3, <1>8 DEF Owing, OwedInv
  <1>10. OwedInv'
    BY <1>1, <1>7, <1>9 DEF OwedInv, Quiet
  <1> QED
    BY <1>4, <1>5, <1>6, <1>10

\* Steps that change nothing of what is kept but the step and the schedule.
LEMMA StepSchedule ==
  ASSUME ScheduleInv,
         UNCHANGED <<doc, lastSynced, initialized, failed, active, waiting, reload, stored,
                     messages, tip, versions, lost>>,
         used'.edits = used.edits, OwedInv'
  PROVE  ScheduleInv'
  <1> USE DEF ScheduleInv
  <1>1. \A e : Landed(e) => Landed(e)'
    BY LandedStays DEF Sending
  <1>2. WriteInv'
    BY <1>1 DEF WriteInv
  <1>3. UsedInv'
    BY DEF UsedInv
  <1> QED
    BY <1>2, <1>3, SessionKept

LEMMA StepsSchedule ==
  ASSUME TypeInv, ScheduleInv, ArmPersist \/ ScheduleSync \/ ArmSync \/ ActionMetadata \/ AlarmEnds
                               \/ UNCHANGED vars
  PROVE  ScheduleInv'
  <1>1. UNCHANGED <<doc, lastSynced, initialized, failed, active, waiting, reload, stored,
                    messages, tip, versions, lost>>
    BY DEF ArmPersist, ScheduleSync, ArmSync, ActionMetadata, AlarmEnds, vars, memory, writing,
           storage, postgres
  <1>2. used'.edits = used.edits
    <2>1. CASE ActionMetadata
      BY <2>1, Spent DEF ActionMetadata, TypeInv, LoadsOK
    <2>2. CASE UNCHANGED used
      BY <2>2
    <2> QED
      BY <2>1, <2>2 DEF ArmPersist, ScheduleSync, ArmSync, AlarmEnds, vars
  <1>3. \A e : Landed(e) => Landed(e)'
    BY <1>1, LandedStays DEF Sending
  <1>4. HashOf(doc)' = HashOf(doc)
    BY <1>1 DEF HashOf
  <1>5. OwedInv'
    <2>1. CASE ArmPersist
      BY <1>1, <1>3, <2>1, OwedKept DEF ArmPersist, Quiet, ScheduleInv
    <2>2. CASE ScheduleSync /\ HasUnsyncedChanges
      <3>1. schedule' /\ step' = "scheduled" /\ step = "edited"
        BY <2>2, Zenon DEF ScheduleSync
      <3> QED
        BY <1>1, <3>1 DEF OwedInv, Owing, ScheduleInv, Quiet
    <2>3. CASE ScheduleSync /\ ~HasUnsyncedChanges
      <3>1. (schedule' <=> schedule) /\ step' = "none" /\ step = "edited"
        BY <2>3, Zenon DEF ScheduleSync
      <3>2. HashOf(doc) = lastSynced /\ initialized /\ Owing(doc.content.edits)
        BY <2>3, <3>1 DEF HasUnsyncedChanges, ScheduleInv, OwedInv
      <3>3. Owing(doc.content.edits)'
        BY <1>1, <1>3, <3>1, <3>2 DEF Owing
      <3>4. Owing(Settled)'
        BY <1>1, <3>1, <3>2, <3>3 DEF Owing, ScheduleInv, SessionInv, Settled, EditsOf
      <3> QED
        BY <1>1, <3>1, <3>3, <3>4 DEF OwedInv
    <2>4. CASE ArmSync
      <3>1. schedule /\ schedule' = schedule /\ step' = "none"
        BY <2>4 DEF ArmSync, ScheduleInv, OwedInv
      <3> QED
        BY <3>1 DEF OwedInv, Owing
    <2>5. CASE ActionMetadata \/ AlarmEnds \/ UNCHANGED vars
      <3>1. UNCHANGED <<step, schedule>>
        BY <2>5 DEF ActionMetadata, AlarmEnds, vars, storage
      <3> QED
        BY <1>1, <1>3, <3>1, OwedKept DEF ScheduleInv, OwedInv, Quiet
    <2> QED
      BY <2>1, <2>2, <2>3, <2>4, <2>5
  <1> QED
    BY <1>1, <1>2, <1>5, StepSchedule

LEMMA PersistStored ==
  ASSUME FlushPendingPersist
  PROVE  stored' = stored \/ (~failed /\ stored' = doc)
  BY DEF FlushPendingPersist, Persisted

\* Storing the bytes of a document that loaded, when no handler is between two writes.
LEMMA StoreSchedule ==
  ASSUME SessionInv, OwedInv, Quiet,
         UNCHANGED <<doc, lastSynced, initialized, failed, step, schedule>>,
         stored' = stored \/ (~failed /\ stored' = doc),
         schedule \/ \A e : Landed(e) => Landed(e)'
  PROVE  SessionInv' /\ OwedInv'
  <1>1. SessionInv'
    BY DEF SessionInv, EditsOf
  <1>2. Owing(doc.content.edits)'
    BY DEF OwedInv, Owing
  <1>3. Owing(Settled)'
    <2>1. CASE stored' = doc
      BY <1>2, <2>1 DEF Owing, Settled, EditsOf, Quiet
    <2>2. CASE stored' = stored
      BY <2>2 DEF OwedInv, Owing, Settled, EditsOf
    <2> QED
      BY <2>1, <2>2
  <1> QED
    BY <1>1, <1>2, <1>3 DEF OwedInv, Quiet

\* A write taken on the schedule: the schedule stays until the write is recorded.
LEMMA TakeSchedule ==
  ASSUME TypeInv, ScheduleInv, initialized, NEW who \in {"alarm", "close"},
         SyncToPostgres(who) \/ active' = active,
         UNCHANGED <<messages, tip, versions, lost, reload>>
  PROVE  /\ WriteInv'
         /\ schedule \/ \A e : Landed(e) => Landed(e)'
         /\ active' # None => active'.content.edits \subseteq used.edits
  <1> USE DEF ScheduleInv
  <1>1. CASE active' = active
    <2>1. \A e : Landed(e) => Landed(e)'
      BY <1>1, LandedStays DEF Sending
    <2> QED
      BY <1>1, <2>1 DEF WriteInv, UsedInv
  <1>2. CASE active' # active
    <2>1. schedule /\ ~failed /\ \E phase \in {"send", "write"} : active' = Take(who, phase)
      BY <1>2 DEF SyncToPostgres
    <2>2. /\ active'.phase \in {"send", "write"} /\ active'.content = doc.content
          /\ active'.hash = HashOf(doc)
      BY <2>1 DEF Take
    <2>3. active'.hash.inserts = active'.content.edits \cap Inserts
      BY <2>1, <2>2 DEF HashOf
    <2> QED
      BY <2>1, <2>2, <2>3 DEF WriteInv, UsedInv
  <1> QED
    BY <1>1, <1>2

LEMMA SyncStepSchedule ==
  ASSUME TypeInv, ScheduleInv, Quiet, initialized, NEW who \in {"alarm", "close"},
         SyncToPostgres(who) \/ active' = active,
         UNCHANGED <<doc, lastSynced, initialized, failed, waiting, step, schedule, reload,
                     messages, tip, versions, lost, used>>,
         stored' = stored \/ (~failed /\ stored' = doc)
  PROVE  ScheduleInv'
  <1> USE DEF ScheduleInv
  <1>1. /\ WriteInv'
        /\ schedule \/ \A e : Landed(e) => Landed(e)'
        /\ active' # None => active'.content.edits \subseteq used.edits
    BY TakeSchedule
  <1>2. SessionInv' /\ OwedInv'
    BY <1>1, StoreSchedule
  <1>3. UsedInv'
    BY <1>1 DEF UsedInv
  <1> QED
    BY <1>1, <1>2, <1>3

LEMMA CallerSchedule ==
  ASSUME TypeInv, ScheduleInv, \/ \E due \in BOOLEAN : AlarmFires(due)
                               \/ \E closing \in BOOLEAN : PersistAndSync(closing)
  PROVE  ScheduleInv'
  <1>1. ASSUME NEW due \in BOOLEAN, AlarmFires(due) PROVE ScheduleInv'
    <2>1. SyncToPostgres("alarm") \/ active' = active
      BY <1>1 DEF AlarmFires
    <2>2. /\ Quiet /\ initialized /\ FlushPendingPersist
          /\ UNCHANGED <<doc, lastSynced, initialized, failed, waiting, step, schedule, reload,
                         messages, tip, versions, lost, used>>
      BY <1>1 DEF AlarmFires, memory, postgres
    <2> QED
      BY <2>1, <2>2, PersistStored, SyncStepSchedule
  <1>2. ASSUME NEW closing \in BOOLEAN, PersistAndSync(closing) PROVE ScheduleInv'
    <2>1. /\ Quiet /\ initialized /\ SyncToPostgres("close")
          /\ stored' = stored \/ (~failed /\ stored' = doc)
          /\ UNCHANGED <<doc, lastSynced, initialized, failed, waiting, step, schedule, reload,
                         messages, tip, versions, lost, used>>
      BY <1>2 DEF PersistAndSync, Persisted, memory, postgres
    <2> QED
      BY <2>1, SyncStepSchedule
  <1> QED
    BY <1>1, <1>2

LEMMA AskSchedule ==
  ASSUME TypeInv, ScheduleInv, NEW r \in Requests, FlushAndSync(r)
  PROVE  ScheduleInv'
  <1> USE DEF ScheduleInv
  <1>1. /\ Quiet /\ FlushPendingPersist
        /\ UNCHANGED <<doc, lastSynced, initialized, failed, active, step, schedule, reload,
                       messages, tip, versions, lost, used>>
    BY DEF FlushAndSync, memory, postgres
  <1>2. \A e : Landed(e) => Landed(e)'
    BY <1>1, LandedStays DEF Sending
  <1>3. SessionInv' /\ OwedInv'
    BY <1>1, <1>2, PersistStored, StoreSchedule
  <1>4. UsedInv'
    BY <1>1, PersistStored DEF UsedInv
  <1>5. WriteInv'
    BY <1>1, <1>2 DEF WriteInv
  <1> QED
    BY <1>3, <1>4, <1>5

LEMMA BeginSchedule ==
  ASSUME TypeInv, ScheduleInv, BeginDirectSync
  PROVE  ScheduleInv'
  <1> USE DEF ScheduleInv
  <1>1. /\ active = None
        /\ UNCHANGED <<doc, lastSynced, initialized, failed, step, schedule, stored, reload,
                       messages, tip, versions, lost, used>>
        /\ active' = None \/ active' = Take(Head(waiting), "write")
    BY DEF BeginDirectSync, memory, storage, postgres
  <1>2. active' # None => /\ active'.phase = "write" /\ active'.content = doc.content
                          /\ active'.hash = HashOf(doc)
    BY <1>1 DEF Take
  <1>3. active' # None => active'.hash.inserts = active'.content.edits \cap Inserts
    BY <1>1, <1>2 DEF HashOf
  <1>4. \A e : Landed(e) => Landed(e)'
    BY <1>1, <1>2, LandedStays DEF Sending
  <1>5. SessionInv'
    BY <1>1, SessionKept
  <1>6. UsedInv'
    BY <1>1, <1>2 DEF UsedInv
  <1>7. WriteInv'
    BY <1>1, <1>2, <1>3, <1>4 DEF WriteInv
  <1>8. OwedInv'
    BY <1>1, <1>4, OwedKept DEF Quiet, OwedInv
  <1> QED
    BY <1>5, <1>6, <1>7, <1>8

\* The write moves on: what it carries lands, and nothing lands no more.
LEMMA MoveSchedule ==
  ASSUME TypeInv, ScheduleInv,
         WriteVersion \/ SendFails \/ \E ok \in BOOLEAN : SendToQueue(ok)
  PROVE  ScheduleInv'
  <1> USE DEF ScheduleInv
  <1>1. /\ active # None /\ active \in PendingWrite
        /\ UNCHANGED <<doc, lastSynced, initialized, failed, waiting, step, schedule, stored,
                       reload, used>>
        /\ messages \in Seq(Content) /\ active.content \in Content
    BY DEF WriteVersion, SendFails, SendToQueue, TypeInv, WritingOK, QueueOK, PendingWrite, memory,
           storage
  <1>2. PICK p \in {"sent", "write", "written"} : active' = [active EXCEPT !.phase = p]
    BY Zenon DEF WriteVersion, SendFails, SendToQueue
  <1>3. /\ active' # None /\ active'.phase = p /\ active'.content = active.content
        /\ active'.hash = active.hash
    BY <1>1, <1>2 DEF PendingWrite
  <1>4. ~Sending'
    BY <1>3 DEF Sending
  <1>5. /\ \A e : Landed(e) => Landed(e)'
        /\ p \in {"sent", "written"} => \A e \in active.content.edits : Landed(e)'
        /\ tip' \in versions' /\ versions \subseteq versions'
        /\ tip'.edits \subseteq used.edits
        /\ \A i \in DOMAIN messages' : messages'[i].edits \subseteq used.edits
    <2>1. CASE WriteVersion
      <3>1. /\ UNCHANGED <<messages, lost>>
            /\ tip' = active.content /\ versions' = versions \cup {active.content}
        BY <2>1 DEF WriteVersion, Insert
      <3> QED
        BY <1>1, <1>4, <3>1, LandedStays DEF Landed, Written, UsedInv
    <2>2. CASE SendFails
      <3>1. UNCHANGED <<messages, tip, versions, lost>> /\ active'.phase = "write"
        BY <1>1, <2>2 DEF SendFails, postgres, PendingWrite
      <3> QED
        BY <1>3, <1>4, <3>1, LandedStays DEF UsedInv, WriteInv
    <2>3. CASE \E ok \in BOOLEAN : SendToQueue(ok)
      <3>1. /\ UNCHANGED <<tip, versions, lost>> /\ messages' = Append(messages, active.content)
            /\ Sending
        BY <2>3 DEF SendToQueue, postgres, Sending
      <3>2. /\ messages' # <<>> /\ messages'[Len(messages')] = active.content
            /\ \A i \in DOMAIN messages' : messages'[i] = active.content
                                           \/ (i \in DOMAIN messages /\ messages'[i] = messages[i])
        BY <1>1, <3>1
      <3>3. \A e \in active.content.edits : Landed(e)'
        BY <1>4, <3>2 DEF Landed
      <3>4. \A e : Landed(e) => Landed(e)'
        BY <3>1 DEF Landed, Written
      <3>5. \A i \in DOMAIN messages' : messages'[i].edits \subseteq used.edits
        BY <1>1, <3>2 DEF UsedInv
      <3> QED
        BY <3>1, <3>3, <3>4, <3>5 DEF UsedInv, WriteInv
    <2> QED
      BY <2>1, <2>2, <2>3
  <1>6. UsedInv'
    BY <1>1, <1>3, <1>5 DEF UsedInv
  <1>7. WriteInv'
    BY <1>1, <1>3, <1>5 DEF WriteInv
  <1>8. OwedInv'
    BY <1>1, <1>5, OwedKept DEF Quiet, OwedInv
  <1> QED
    BY <1>1, <1>6, <1>7, <1>8, SessionKept

LEMMA SucceedSchedule ==
  ASSUME TypeInv, ScheduleInv, SyncSucceeds
  PROVE  ScheduleInv'
  <1> USE DEF ScheduleInv
  <1>1. /\ active # None /\ active.phase \in {"sent", "written", "overtaken"} /\ Quiet
        /\ active' = None /\ lastSynced' = active.hash
        /\ UNCHANGED <<doc, initialized, failed, waiting, step, reload, stored, messages, tip,
                       versions, used>>
    BY DEF SyncSucceeds, RecordSyncSuccess, Finish
  <1>2. schedule' \/ (HashOf(doc) = active.hash) \/ ~schedule
    BY Zenon DEF SyncSucceeds, RecordSyncSuccess
  <1>3. \A e : Landed(e) => Landed(e)'
    <2>1. lost \subseteq lost'
      BY DEF SyncSucceeds, RecordLoss
    <2> QED
      BY <1>1, <2>1, LandedStays DEF Sending
  <1>4. \A e \in active.content.edits : Landed(e)'
    <2>1. CASE active.phase = "overtaken"
      BY <2>1 DEF SyncSucceeds, RecordLoss, Landed
    <2>2. CASE active.phase # "overtaken"
      BY <1>1, <1>3, <2>2 DEF WriteInv
    <2> QED
      BY <2>1, <2>2
  <1>5. HashOf(doc) = active.hash => \A e \in doc.content.edits \cap Inserts : Landed(e)'
    <2>1. HashOf(doc).inserts = doc.content.edits \cap Inserts
      BY DEF HashOf
    <2> QED
      BY <1>1, <1>4, <2>1 DEF WriteInv
  <1>6. Owing(doc.content.edits)'
    BY <1>1, <1>2, <1>3, <1>5 DEF OwedInv, Owing
  <1>7. Owing(Settled)'
    <2>1. Settled' = Settled /\ Settled = EditsOf(stored)
      BY <1>1 DEF Settled, EditsOf, Quiet
    <2>2. CASE schedule' \/ ~schedule
      BY <1>1, <1>3, <2>1, <2>2 DEF OwedInv, Owing
    <2>3. CASE HashOf(doc) = active.hash /\ initialized
      BY <1>1, <1>5, <2>1, <2>3 DEF Owing, SessionInv
    <2>4. CASE schedule /\ ~schedule' /\ ~initialized
      <3>1. EditsOf(stored) \subseteq lost'
        BY <2>4 DEF SyncSucceeds, RecordLoss
      <3> QED
        BY <2>1, <3>1 DEF Owing, Landed
    <2> QED
      BY <1>2, <2>2, <2>3, <2>4
  <1>8. OwedInv'
    BY <1>1, <1>6, <1>7 DEF OwedInv, Quiet
  <1>9. UsedInv'
    BY <1>1 DEF UsedInv, WriteInv
  <1>10. WriteInv'
    BY <1>1 DEF WriteInv
  <1> QED
    BY <1>1, <1>8, <1>9, <1>10, SessionKept

LEMMA FailSchedule ==
  ASSUME TypeInv, ScheduleInv, SyncFails
  PROVE  ScheduleInv'
  <1> USE DEF ScheduleInv
  <1>1. /\ active' = None
        /\ UNCHANGED <<doc, lastSynced, initialized, failed, waiting, step, schedule, reload,
                       stored, messages, tip, versions, lost, used>>
    BY DEF SyncFails, Finish, memory, storage, postgres
  <1>2. \A e : Landed(e) => Landed(e)'
    BY <1>1, LandedStays DEF Sending
  <1>3. OwedInv'
    BY <1>1, <1>2, OwedKept DEF Quiet, OwedInv
  <1> QED
    BY <1>1, <1>3, SessionKept DEF UsedInv, WriteInv

\* What Postgres and the queue do by themselves; the session's write may be overtaken.
LEMMA OutsideSchedule ==
  ASSUME TypeInv, ScheduleInv, WriteAround \/ Deliver
  PROVE  ScheduleInv'
  <1> USE DEF ScheduleInv
  <1>1. /\ UNCHANGED <<doc, lastSynced, initialized, failed, waiting, step, schedule, reload,
                       stored>>
        /\ UNCHANGED <<tip, versions>> \/ tip' \in versions'
        /\ versions \subseteq versions' /\ lost \subseteq lost'
    BY DEF WriteAround, Deliver, Discard, Consume, Insert, memory, writing, storage
  <1>2. \/ active' = active
        \/ /\ active # None /\ active' # None /\ active.phase = "write"
           /\ active'.phase = "overtaken"
           /\ active'.content = active.content /\ active'.hash = active.hash
    <2>1. MayOvertake \/ active' = active
      BY DEF WriteAround, Deliver, Discard, Consume, writing
    <2> QED
      BY <2>1, Overtaken
  <1>3. Sending' => Sending
    BY <1>2 DEF Sending
  <1>4. /\ \A e : Landed(e) => Landed(e)'
        /\ used'.edits = used.edits /\ tip'.edits \subseteq used.edits
        /\ \A i \in DOMAIN messages' : messages'[i].edits \subseteq used.edits
    <2>1. CASE WriteAround
      <3>1. UNCHANGED messages /\ tip' = [tip EXCEPT !.base = used.writes + 2] /\ Spend("writes")
            /\ used.writes < MaxWrites
        BY <2>1 DEF WriteAround, Insert
      <3>2. used'.edits = used.edits
        BY <3>1, Spent DEF TypeInv, LoadsOK
      <3>3. tip'.edits = tip.edits
        BY <3>1 DEF TypeInv, QueueOK, Content
      <3> QED
        BY <1>1, <1>3, <3>1, <3>2, <3>3, LandedStays DEF UsedInv
    <2>2. ASSUME NEW batch \in SUBSET DOMAIN messages, NEW acked \in BOOLEAN, Consume(batch, acked)
          PROVE  /\ \A e : Landed(e) => Landed(e)'
                 /\ used'.edits = used.edits /\ tip'.edits \subseteq used.edits
                 /\ \A i \in DOMAIN messages' : messages'[i].edits \subseteq used.edits
      <3>1. used' = used /\ \E last \in DOMAIN messages : tip' = messages[last]
        BY <2>2 DEF Consume, Insert
      <3>2. \A i \in DOMAIN messages' : \E k \in DOMAIN messages : messages'[i] = messages[k]
        BY <2>2, AcknowledgedQueue DEF Consume, TypeInv, QueueOK
      <3> QED
        BY <2>2, <3>1, <3>2, ConsumeLanded DEF UsedInv
    <2>3. ASSUME NEW batch \in SUBSET DOMAIN messages, Discard(batch)
          PROVE  /\ \A e : Landed(e) => Landed(e)'
                 /\ used'.edits = used.edits /\ tip'.edits \subseteq used.edits
                 /\ \A i \in DOMAIN messages' : messages'[i].edits \subseteq used.edits
      <3>1. used' = used /\ tip' = tip
        BY <2>3 DEF Discard
      <3>2. \A i \in DOMAIN messages' : \E k \in DOMAIN messages : messages'[i] = messages[k]
        BY <2>3, AcknowledgedQueue DEF Discard, TypeInv, QueueOK
      <3> QED
        BY <2>3, <3>1, <3>2, DiscardLanded DEF UsedInv
    <2> QED
      BY <2>1, <2>2, <2>3 DEF Deliver
  <1>5. OwedInv'
    BY <1>1, <1>4, OwedKept DEF Quiet, OwedInv
  <1>6. WriteInv'
    BY <1>1, <1>2, <1>4 DEF WriteInv
  <1>7. UsedInv'
    BY <1>1, <1>2, <1>4 DEF UsedInv
  <1> QED
    BY <1>1, <1>5, <1>6, <1>7, SessionKept

LEMMA ReloadSchedule ==
  ASSUME TypeInv, ScheduleInv, Reload
  PROVE  ScheduleInv'
  <1> USE DEF ScheduleInv
  <1>1. CASE ReloadBegins
    <2>1. /\ doc' = BlankDoc /\ ~initialized' /\ reload'.phase = "reading"
          /\ reload'.content = NoReload.content /\ Quiet
          /\ UNCHANGED <<lastSynced, failed, active, waiting, step, schedule, stored, messages, tip,
                         versions, lost>>
      BY <1>1 DEF ReloadBegins, NoReload, SessionInv, writing, storage, postgres
    <2>2. used'.edits = used.edits
      BY <1>1, Spent DEF ReloadBegins, TypeInv, LoadsOK
    <2>4. BlankDoc.content.edits = {} /\ NoReload.content.edits = {}
      BY BlankTypes DEF NoReload
    <2>5. \A e : Landed(e) => Landed(e)'
      BY <2>1, LandedStays DEF Sending
    <2>6. SessionInv'
      BY <2>1 DEF SessionInv
    <2>7. UsedInv'
      BY <2>1, <2>2, <2>4 DEF UsedInv
    <2>8. WriteInv'
      BY <2>1, <2>5 DEF WriteInv
    <2>9. OwedInv'
      BY <2>1, <2>4, <2>5 DEF OwedInv, Owing, Quiet, Settled, EditsOf
    <2> QED
      BY <2>6, <2>7, <2>8, <2>9
  <1>2. CASE ReloadReads
    <2>1. /\ reload'.phase = "read" /\ reload'.content = tip
          /\ UNCHANGED <<doc, lastSynced, initialized, failed, active, waiting, step, schedule,
                         stored, messages, tip, versions, lost, used>>
      BY <1>2 DEF ReloadReads, memory, writing, storage, postgres
    <2>2. \A e : Landed(e) => Landed(e)'
      BY <2>1, LandedStays DEF Sending
    <2>3. OwedInv'
      BY <2>1, <2>2, OwedKept DEF Quiet, OwedInv
    <2>4. WriteInv'
      BY <2>1, <2>2 DEF WriteInv
    <2>5. UsedInv'
      BY <2>1 DEF UsedInv
    <2> QED
      BY <2>1, <2>3, <2>4, <2>5, SessionKept
  <1>3. CASE ReloadApplies
    <2>1. /\ doc' = Loaded(reload.content) /\ stored' = doc' /\ lastSynced' = HashOf(doc')
          /\ initialized' /\ Quiet /\ Spend("loads") /\ reload' = NoReload /\ reload.phase = "read"
          /\ UNCHANGED <<active, waiting, step, messages, tip, versions, lost>>
      BY <1>3 DEF ReloadApplies, writing, postgres
    <2>2. reload # NoReload /\ reload.content \in Content /\ reload.content \in versions
      BY <2>1 DEF NoReload, TypeInv, LoadsOK, Reloading, WriteInv
    <2>3. used \in UsedType /\ used.loads \in Nat /\ used.loads + 1 <= 1 + used.reloads
      BY <2>2 DEF TypeInv, LoadsOK, UsedType
    <2>4. doc' \in Doc /\ doc'.content = reload.content /\ doc'.line >= 1
      BY <2>1, <2>2, <2>3, LoadedDoc
    <2>5. used'.edits = used.edits
      BY <2>1, <2>3, Spent
    <2>6. \A e \in reload.content.edits : Landed(e)'
      BY <2>1, <2>2, WrittenOwed
    <2>7. \A e : Landed(e) => Landed(e)'
      BY <2>1, LandedStays DEF Sending
    <2>8. reload'.phase = "none" /\ reload'.content.edits = {}
      BY <2>1, BlankTypes DEF NoReload
    <2>9. SessionInv'
      BY <2>1, <2>4 DEF SessionInv, EditsOf
    <2>10. UsedInv'
      BY <2>1, <2>4, <2>5, <2>8 DEF UsedInv, HashOf
    <2>11. WriteInv'
      BY <2>1, <2>7, <2>8 DEF WriteInv
    <2>12. OwedInv'
      BY <2>1, <2>4, <2>6 DEF OwedInv, Owing, Quiet, Settled, EditsOf
    <2> QED
      BY <2>9, <2>10, <2>11, <2>12
  <1>4. CASE ReloadFails
    <2>1. /\ failed' /\ reload' = NoReload
          /\ UNCHANGED <<doc, lastSynced, initialized, active, waiting, step, schedule, stored,
                         messages, tip, versions, lost>>
      BY <1>4 DEF ReloadFails, writing, storage, postgres
    <2>2. used'.edits = used.edits
      BY <1>4, Spent DEF ReloadFails, TypeInv, LoadsOK
    <2>3. reload'.phase = "none" /\ reload'.content.edits = {}
      BY <2>1, BlankTypes DEF NoReload
    <2>4. \A e : Landed(e) => Landed(e)'
      BY <2>1, LandedStays DEF Sending
    <2>5. SessionInv'
      BY <2>1, SessionKept
    <2>6. OwedInv'
      BY <2>1, <2>4, OwedKept DEF Quiet, OwedInv
    <2>7. WriteInv'
      BY <2>1, <2>3, <2>4 DEF WriteInv
    <2>8. UsedInv'
      BY <2>1, <2>2, <2>3 DEF UsedInv
    <2> QED
      BY <2>5, <2>6, <2>7, <2>8
  <1> QED
    BY <1>1, <1>2, <1>3, <1>4 DEF Reload

\* An eviction finds nothing stored that is neither landed nor scheduled, but for the
\* HTTP edit it loses.
LEMMA EvictSchedule ==
  ASSUME TypeInv, ScheduleInv, Evict
  PROVE  ScheduleInv'
  <1> USE DEF ScheduleInv
  <1>1. /\ lost \subseteq lost'
        /\ step = "edited" /\ ~schedule => EditsOf(stored) \cap HttpEdits \subseteq lost'
    BY DEF Evict
  <1>2. /\ doc' = BlankDoc /\ lastSynced' = None /\ ~initialized' /\ active' = None
        /\ waiting' = <<>> /\ step' = "none" /\ reload' = NoReload
        /\ UNCHANGED <<schedule, stored, messages, tip, versions>>
    BY DEF Evict
  <1>3. used'.edits = used.edits
    BY Spent DEF Evict, TypeInv, LoadsOK
  <1>4. BlankDoc.content.edits = {} /\ NoReload.content.edits = {} /\ NoReload.phase = "none"
    BY BlankTypes DEF NoReload
  <1>5. \A e : Landed(e) => Landed(e)'
    BY <1>1, <1>2, LandedStays DEF Sending
  <1>6. HashOf(doc)' # None
    BY <1>2, BlankTypes, HashType DEF HashOf
  <1>7. SessionInv'
    BY <1>2 DEF SessionInv
  <1>8. UsedInv'
    BY <1>2, <1>3, <1>4 DEF UsedInv
  <1>9. WriteInv'
    BY <1>2, <1>4 DEF WriteInv
  <1>10. Owing(Settled)'
    <2>1. Settled' = EditsOf(stored)
      BY <1>2 DEF Settled, EditsOf
    <2>2. CASE schedule
      BY <1>2, <2>2 DEF Owing
    <2>3. CASE ~schedule
      <3>1. \A e \in Settled \cap Inserts : Landed(e)'
        BY <1>5, <2>3 DEF OwedInv, Owing
      <3>2. \A e \in EditsOf(stored) \ Settled : Landed(e)'
        BY <1>1, <2>3 DEF Settled, Landed
      <3> QED
        BY <2>1, <3>1, <3>2 DEF Owing
    <2> QED
      BY <2>2, <2>3
  <1>11. OwedInv'
    BY <1>2, <1>4, <1>5, <1>10 DEF OwedInv, Owing
  <1> QED
    BY <1>7, <1>8, <1>9, <1>11

LEMMA NextSchedule ==
  ASSUME TypeInv, ScheduleInv, [Next]_vars
  PROVE  ScheduleInv'
  <1>1. CASE Initialize
    BY <1>1, RestoreSchedule, LoadSchedule, LoadFailsSchedule DEF Initialize
  <1>2. CASE Edit
    BY <1>2, EditSchedule, StepsSchedule DEF Edit
  <1>3. CASE Sync
    BY <1>3, CallerSchedule, StepsSchedule, AskSchedule, BeginSchedule, MoveSchedule,
       SucceedSchedule, FailSchedule
    DEF Sync, Flush, CompleteEdit, Requests
  <1>4. CASE Reload
    BY <1>4, ReloadSchedule
  <1>5. CASE Evict
    BY <1>5, EvictSchedule
  <1>6. CASE WriteAround \/ Deliver
    BY <1>6, OutsideSchedule
  <1>7. CASE UNCHANGED vars
    BY <1>7, StepsSchedule
  <1> QED
    BY <1>1, <1>2, <1>3, <1>4, <1>5, <1>6, <1>7 DEF Next

LEMMA OwedFollows == TypeInv /\ ScheduleInv => OwedIsScheduled
  <1> SUFFICES ASSUME TypeInv, ScheduleInv, Quiet, ~schedule,
                      NEW e \in doc.content.edits \cap Inserts
               PROVE  Carried(e) \/ e \in lost
    BY DEF OwedIsScheduled
  <1>1. Landed(e)
    BY DEF ScheduleInv, OwedInv, Owing
  <1>2. messages # <<>> => Len(messages) \in DOMAIN messages
    BY DEF TypeInv, QueueOK
  <1> QED
    BY <1>1, <1>2 DEF Landed, Written, Carried

\* Between handlers every insertion the session holds has been written, queued or taken, or
\* is still scheduled, or one of four events lost it: an answer with another's version, a
\* message discarded by the consumer, the success of a write of a document not in memory, an
\* eviction between the bytes of an HTTP edit and its schedule. So it is for any number of
\* edits, requests, completions, evictions, reloads, failed loads, lost answers, redeliveries
\* and queued messages.
THEOREM EditsAreOwed == Spec => []OwedIsScheduled
  <1>1. TypeInv /\ ScheduleInv /\ [Next]_vars => ScheduleInv'
    BY NextSchedule
  <1> QED
    BY <1>1, InitSchedule, OwedFollows, InvariantTypes, PTL DEF Spec

=============================================================================
