-------------------------- MODULE DocumentSyncProofs --------------------------
(***************************************************************************)
(* LoadedOnly, for any number of edits, flushes, evictions and failures,   *)
(* as long as no /agent-edit-complete and no reload comes in: the two      *)
(* paths on which the runs find it violated.                               *)
(***************************************************************************)
EXTENDS DocumentSync, TLAPS, FiniteSetTheorems

\* What the argument needs of the types, and no more: the records that contents
\* pass through.
Document == [content : Content, line : Nat]

Used == [edits : SUBSET Edits, actions : Nat, crashes : Nat, reloads : Nat,
         writes : Nat, loads : Nat, faults : Nat]

Shape ==
    /\ doc \in Document /\ stored \in Document \cup {None}
    /\ active # None =>
          /\ active = [who |-> active.who, phase |-> active.phase, content |-> active.content,
                       hash |-> active.hash, taken |-> active.taken]
          /\ active.content \in Content
    /\ messages \in Seq(Content)
    /\ tip \in versions /\ versions \subseteq Content
    /\ {initialized, failed} \subseteq BOOLEAN
    /\ used \in Used
    /\ reload = NoReload

\* What may be written was loaded: memory when it may be taken, the write that
\* took it, and a request waits only on a session that went through loading.
TakenLoaded ==
    /\ initialized /\ ~failed => doc.content.base # 0
    /\ active # None => active.content.base # 0
    /\ waiting # <<>> => initialized

IInv == Shape /\ TakenLoaded /\ LoadedOnly

-----------------------------------------------------------------------------

LEMMA BoundNat == MaxWrites \in Nat /\ MaxReloads \in Nat
  BY SyncAssumption

LEMMA BlankType == BlankDoc \in Document /\ BlankDoc.content.base = 0
  BY BoundNat DEF BlankDoc, Document, Content

\* A load starts from what Postgres holds.
LEMMA LoadedType ==
  ASSUME used \in Used, NEW c \in Content
  PROVE  Loaded(c) \in Document /\ Loaded(c).content = c
  BY DEF Loaded, Document, Used

\* An edit leaves the base alone.
LEMMA ApplyType ==
  ASSUME Shape, NEW e \in Edits, Apply(e)
  PROVE  doc' \in Document /\ doc'.content.base = doc.content.base /\ used' \in Used
  <1>1. doc' = [doc EXCEPT !.content = [doc.content EXCEPT !.edits = @ \cup {e}]]
    BY DEF Apply, Shape, Document
  <1>2. [doc.content EXCEPT !.edits = @ \cup {e}] \in Content
    BY DEF Shape, Document, Content
  <1>3. doc' \in Document /\ doc'.content = [doc.content EXCEPT !.edits = @ \cup {e}]
    BY <1>1, <1>2 DEF Shape, Document
  <1>4. doc'.content.base = doc.content.base
    BY <1>3 DEF Shape, Document, Content
  <1>5. used' \in Used
    BY DEF Apply, Shape, Used
  <1> QED
    BY <1>3, <1>4, <1>5

LEMMA SpendType ==
  ASSUME used \in Used, NEW what \in {"actions", "crashes", "reloads", "writes", "loads", "faults"},
         Spend(what)
  PROVE  used' \in Used
  BY DEF Spend, Used

LEMMA TakeType ==
  ASSUME NEW who, NEW phase
  PROVE  LET t == Take(who, phase) IN
         /\ t = [who |-> t.who, phase |-> t.phase, content |-> t.content,
                 hash |-> t.hash, taken |-> t.taken]
         /\ t.content = doc.content
  BY DEF Take

\* A message acknowledged leaves a shorter queue of the same contents.
LEMMA AcknowledgeType ==
  ASSUME messages \in Seq(Content), NEW batch, Acknowledge(batch)
  PROVE  /\ messages' \in Seq(Content)
         /\ \A i \in DOMAIN messages' : \E k \in DOMAIN messages : messages'[i] = messages[k]
  <1> DEFINE kept == DOMAIN messages \ batch
  <1>1. PICK pos \in [1 .. Cardinality(kept) -> kept] :
            messages' = [i \in DOMAIN pos |-> messages[pos[i]]]
    BY DEF Acknowledge
  <1>2. IsFiniteSet(kept)
    <2>1. DOMAIN messages = 1 .. Len(messages) /\ Len(messages) \in Nat
      OBVIOUS
    <2>2. IsFiniteSet(1 .. Len(messages))
      BY <2>1, FS_Interval
    <2> QED
      BY <2>1, <2>2, FS_Subset
  <1>3. Cardinality(kept) \in Nat
    BY <1>2, FS_CardinalityType
  <1>4. DOMAIN messages' = 1 .. Cardinality(kept)
    BY <1>1
  <1>5. ASSUME NEW i \in DOMAIN messages'
        PROVE  /\ pos[i] \in DOMAIN messages
               /\ messages'[i] = messages[pos[i]]
               /\ messages[pos[i]] \in Content
    <2>1. i \in 1 .. Cardinality(kept)
      BY <1>4, <1>5
    <2>2. pos[i] \in kept
      BY <1>1, <2>1
    <2>3. pos[i] \in DOMAIN messages
      BY <2>2
    <2>4. messages'[i] = messages[pos[i]]
      BY <1>1, <2>1
    <2> QED
      BY <2>3, <2>4
  <1>6. messages' = [i \in 1 .. Cardinality(kept) |-> messages'[i]]
    BY <1>1
  <1>7. messages' \in [1 .. Cardinality(kept) -> Content]
    BY <1>5, <1>6
  <1>8. messages' \in Seq(Content)
    <2> DEFINE n == Cardinality(kept)
    <2> HIDE DEF n
    <2>1. n \in Nat /\ messages' \in [1 .. n -> Content]
      BY <1>3, <1>7 DEF n
    <2> QED
      BY <2>1
  <1> QED
    BY <1>5, <1>8

-----------------------------------------------------------------------------

LEMMA InitOK == Init => IInv
  <1> SUFFICES ASSUME Init PROVE IInv
    OBVIOUS
  <1>1. tip \in Content /\ tip.base # 0 /\ versions = {tip}
    BY BoundNat DEF Init, Content
  <1>2. used \in Used
    BY DEF Init, Used
  <1>3. Shape
    <2>1. doc \in Document /\ stored \in Document \cup {None} /\ active = None
      <3>1. doc = BlankDoc /\ stored = None /\ active = None
        BY DEF Init
      <3> QED
        BY <3>1, BlankType
    <2>2. messages \in Seq(Content) /\ {initialized, failed} \subseteq BOOLEAN
      <3>1. messages = <<>> /\ initialized = FALSE /\ failed = FALSE
        BY DEF Init
      <3>2. <<>> \in Seq(Content)
        OBVIOUS
      <3>3. {initialized, failed} \subseteq BOOLEAN
        BY <3>1, Zenon
      <3> QED
        BY <3>1, <3>2, <3>3
    <2>3. tip \in versions /\ versions \subseteq Content /\ reload = NoReload
      BY <1>1 DEF Init
    <2> QED
      BY <1>2, <2>1, <2>2, <2>3 DEF Shape
  <1>4. TakenLoaded
    BY DEF Init, TakenLoaded
  <1>5. LoadedOnly
    BY <1>1 DEF Init, LoadedOnly
  <1> QED
    BY <1>3, <1>4, <1>5 DEF IInv

-----------------------------------------------------------------------------
\* Each step keeps the invariant.  vars is expanded where a step leaves parts of
\* the state alone.

\* A write is taken by a session that may write: the state of the lock is right
\* whatever the caller.
LEMMA SyncToPostgresOK ==
  ASSUME IInv, initialized, NEW who, SyncToPostgres(who)
  PROVE  active' # None =>
            /\ active' = [who |-> active'.who, phase |-> active'.phase,
                          content |-> active'.content, hash |-> active'.hash,
                          taken |-> active'.taken]
            /\ active'.content \in Content /\ active'.content.base # 0
  <1>1. CASE active' = active
    BY <1>1 DEF IInv, Shape, TakenLoaded
  <1>2. CASE ~failed /\ \E phase : active' = Take(who, phase)
    <2>1. PICK phase : active' = Take(who, phase)
      BY <1>2
    <2>2. doc.content \in Content /\ doc.content.base # 0
      BY <1>2 DEF IInv, Shape, TakenLoaded, Document
    <2> QED
      BY <2>1, <2>2, TakeType
  <1> QED
    BY <1>1, <1>2 DEF SyncToPostgres

\* What reaches Durable Object storage was loaded.
LEMMA PersistedOK ==
  ASSUME IInv, initialized
  PROVE  /\ Persisted \in Document \cup {None}
         /\ Persisted # None => Persisted.content.base # 0
  BY DEF IInv, Shape, TakenLoaded, LoadedOnly, Persisted

LEMMA FlushPersistOK ==
  ASSUME IInv, initialized, FlushPendingPersist
  PROVE  /\ stored' \in Document \cup {None}
         /\ stored' # None => stored'.content.base # 0
  BY PersistedOK DEF FlushPendingPersist, IInv, Shape, LoadedOnly

LEMMA InitializeOK == ASSUME IInv, Initialize PROVE IInv'
  <1>1. CASE Restore
    BY <1>1 DEF Restore, IInv, Shape, TakenLoaded, LoadedOnly, writing, storage, postgres
  <1>2. CASE LoadFromPostgres
    <2>1. tip \in Content /\ tip.base # 0
      BY DEF IInv, Shape, LoadedOnly
    <2>2. doc' \in Document /\ doc'.content = tip /\ stored' = doc'
      BY <1>2, <2>1, LoadedType DEF LoadFromPostgres, IInv, Shape
    <2>3. used' \in Used
      BY <1>2, SpendType DEF LoadFromPostgres, IInv, Shape
    <2> QED
      BY <1>2, <2>1, <2>2, <2>3
      DEF LoadFromPostgres, IInv, Shape, TakenLoaded, LoadedOnly, writing, postgres
  <1>3. CASE LoadFails
    <2>1. used' \in Used
      BY <1>3, SpendType DEF LoadFails, IInv, Shape
    <2> QED
      BY <1>3, <2>1
      DEF LoadFails, IInv, Shape, TakenLoaded, LoadedOnly, writing, storage, postgres
  <1> QED
    BY <1>1, <1>2, <1>3 DEF Initialize

LEMMA EditOK == ASSUME IInv, Edit PROVE IInv'
  <1>1. ASSUME NEW e \in Edits, SocketEdit(e) PROVE IInv'
    <2>1. doc' \in Document /\ doc'.content.base = doc.content.base /\ used' \in Used
      BY <1>1, ApplyType DEF SocketEdit, IInv
    <2> QED
      BY <1>1, <2>1
      DEF SocketEdit, IInv, Shape, TakenLoaded, LoadedOnly, writing, postgres
  <1>2. ASSUME NEW e \in Edits, HttpEdit(e) PROVE IInv'
    <2>1. doc' \in Document /\ doc'.content.base = doc.content.base /\ used' \in Used
      BY <1>2, ApplyType DEF HttpEdit, IInv
    <2>2. stored' = doc' /\ initialized /\ ~failed
      BY <1>2 DEF HttpEdit, Apply
    <2> QED
      BY <1>2, <2>1, <2>2
      DEF HttpEdit, IInv, Shape, TakenLoaded, LoadedOnly, writing, postgres
  <1>3. CASE ArmPersist
    BY <1>3 DEF ArmPersist, IInv, Shape, TakenLoaded, LoadedOnly, memory, writing, postgres
  <1>4. CASE ScheduleSync
    BY <1>4 DEF ScheduleSync, IInv, Shape, TakenLoaded, LoadedOnly, memory, writing, postgres
  <1>5. CASE ArmSync
    BY <1>5 DEF ArmSync, IInv, Shape, TakenLoaded, LoadedOnly, memory, writing, postgres
  <1>6. CASE ActionMetadata
    <2>1. used' \in Used
      BY <1>6, SpendType DEF ActionMetadata, IInv, Shape
    <2> QED
      BY <1>6, <2>1
      DEF ActionMetadata, IInv, Shape, TakenLoaded, LoadedOnly, writing, storage, postgres
  <1> QED
    BY <1>1, <1>2, <1>3, <1>4, <1>5, <1>6 DEF Edit

LEMMA SyncOK == ASSUME IInv, Completers = {}, Sync PROVE IInv'
  <1>1. ASSUME NEW due \in BOOLEAN, AlarmFires(due) PROVE IInv'
    <2>1. /\ stored' \in Document \cup {None}
          /\ stored' # None => stored'.content.base # 0
      BY <1>1, FlushPersistOK DEF AlarmFires
    <2>2. active' # None =>
            /\ active' = [who |-> active'.who, phase |-> active'.phase,
                          content |-> active'.content, hash |-> active'.hash,
                          taken |-> active'.taken]
            /\ active'.content \in Content /\ active'.content.base # 0
      <3>1. CASE SyncToPostgres("alarm")
        BY <1>1, <3>1, SyncToPostgresOK DEF AlarmFires
      <3>2. CASE active' = active
        BY <3>2 DEF IInv, Shape, TakenLoaded
      <3> QED
        BY <1>1, <3>1, <3>2 DEF AlarmFires
    <2> QED
      BY <1>1, <2>1, <2>2
      DEF AlarmFires, IInv, Shape, TakenLoaded, LoadedOnly, memory, postgres
  <1>2. ASSUME NEW closing \in BOOLEAN, PersistAndSync(closing) PROVE IInv'
    <2>1. /\ stored' \in Document \cup {None}
          /\ stored' # None => stored'.content.base # 0
      BY <1>2, PersistedOK DEF PersistAndSync
    <2>2. active' # None =>
            /\ active' = [who |-> active'.who, phase |-> active'.phase,
                          content |-> active'.content, hash |-> active'.hash,
                          taken |-> active'.taken]
            /\ active'.content \in Content /\ active'.content.base # 0
      BY <1>2, SyncToPostgresOK DEF PersistAndSync
    <2> QED
      BY <1>2, <2>1, <2>2
      DEF PersistAndSync, IInv, Shape, TakenLoaded, LoadedOnly, memory, postgres
  <1>3. CASE AlarmEnds
    BY <1>3 DEF AlarmEnds, IInv, Shape, TakenLoaded, LoadedOnly, memory, writing, postgres
  <1>4. ASSUME NEW f \in Flushers, Flush(f) PROVE IInv'
    <2>1. /\ stored' \in Document \cup {None}
          /\ stored' # None => stored'.content.base # 0
      BY <1>4, FlushPersistOK DEF Flush, FlushAndSync
    <2> QED
      BY <1>4, <2>1
      DEF Flush, FlushAndSync, IInv, Shape, TakenLoaded, LoadedOnly, memory, postgres
  <1>5. CASE BeginDirectSync
    <2>1. initialized
      BY <1>5 DEF BeginDirectSync, IInv, TakenLoaded
    <2>2. CASE failed
      BY <1>5, <2>1, <2>2
      DEF BeginDirectSync, IInv, Shape, TakenLoaded, LoadedOnly, memory, storage, postgres
    <2>3. CASE ~failed
      <3>1. doc.content \in Content /\ doc.content.base # 0
        BY <2>1, <2>3 DEF IInv, Shape, TakenLoaded, Document
      <3>2. active' = Take(Head(waiting), "write")
        BY <1>5, <2>3 DEF BeginDirectSync
      <3>3. /\ active' = [who |-> active'.who, phase |-> active'.phase,
                          content |-> active'.content, hash |-> active'.hash,
                          taken |-> active'.taken]
            /\ active'.content \in Content /\ active'.content.base # 0
        BY <3>1, <3>2, TakeType
      <3> QED
        BY <1>5, <2>1, <2>3, <3>3
        DEF BeginDirectSync, IInv, Shape, TakenLoaded, LoadedOnly, memory, storage, postgres
    <2> QED
      BY <2>2, <2>3
  <1>6. ASSUME NEW ok \in BOOLEAN, SendToQueue(ok) PROVE IInv'
    BY <1>6
    DEF SendToQueue, IInv, Shape, TakenLoaded, LoadedOnly, memory, storage, postgres
  <1>7. CASE SendFails
    BY <1>7
    DEF SendFails, IInv, Shape, TakenLoaded, LoadedOnly, memory, storage, postgres
  <1>8. CASE WriteVersion
    BY <1>8
    DEF WriteVersion, Insert, IInv, Shape, TakenLoaded, LoadedOnly, memory, storage
  <1>9. CASE SyncSucceeds
    BY <1>9
    DEF SyncSucceeds, Finish, IInv, Shape, TakenLoaded, LoadedOnly
  <1>10. CASE SyncFails
    BY <1>10
    DEF SyncFails, Finish, IInv, Shape, TakenLoaded, LoadedOnly, memory, storage, postgres
  <1> QED
    BY <1>1, <1>2, <1>3, <1>4, <1>5, <1>6, <1>7, <1>8, <1>9, <1>10 DEF Sync

\* A write that is overtaken keeps its content.
LEMMA OvertakeOK ==
  ASSUME IInv, MayOvertake
  PROVE  active' # None =>
            /\ active' = [who |-> active'.who, phase |-> active'.phase,
                          content |-> active'.content, hash |-> active'.hash,
                          taken |-> active'.taken]
            /\ active'.content \in Content /\ active'.content.base # 0
  BY DEF IInv, Shape, TakenLoaded, MayOvertake

LEMMA ConsumeOK ==
  ASSUME IInv, NEW batch \in SUBSET DOMAIN messages, NEW acked \in BOOLEAN,
         Consume(batch, acked)
  PROVE  IInv'
  <1>1. PICK last \in batch : Insert(messages[last])
    BY DEF Consume
  <1>4. messages[last] \in Content /\ messages[last].base # 0
    BY DEF IInv, Shape, LoadedOnly
  <1>2. /\ messages' \in Seq(Content)
        /\ \A i \in DOMAIN messages' : \E k \in DOMAIN messages : messages'[i] = messages[k]
    <2>1. CASE acked
      BY <2>1, AcknowledgeType DEF Consume, IInv, Shape
    <2>2. CASE ~acked
      BY <2>2 DEF Consume, IInv, Shape
    <2> QED
      BY <2>1, <2>2
  <1>3. \A i \in DOMAIN messages' : messages'[i].base # 0
    BY <1>2 DEF IInv, LoadedOnly
  <1>5. active' # None =>
            /\ active' = [who |-> active'.who, phase |-> active'.phase,
                          content |-> active'.content, hash |-> active'.hash,
                          taken |-> active'.taken]
            /\ active'.content \in Content /\ active'.content.base # 0
    BY OvertakeOK DEF Consume
  <1> QED
    BY <1>1, <1>4, <1>2, <1>3, <1>5
    DEF Consume, Insert, IInv, Shape, TakenLoaded, LoadedOnly, memory, storage

LEMMA DiscardOK ==
  ASSUME IInv, NEW batch \in SUBSET DOMAIN messages, Discard(batch)
  PROVE  IInv'
  <1>1. /\ messages' \in Seq(Content)
        /\ \A i \in DOMAIN messages' : \E k \in DOMAIN messages : messages'[i] = messages[k]
    BY AcknowledgeType DEF Discard, IInv, Shape
  <1>2. \A i \in DOMAIN messages' : messages'[i].base # 0
    BY <1>1 DEF IInv, LoadedOnly
  <1> QED
    BY <1>1, <1>2
    DEF Discard, IInv, Shape, TakenLoaded, LoadedOnly, memory, writing, storage

LEMMA EvictOK == ASSUME IInv, Evict PROVE IInv'
  <1>1. used' \in Used
    BY SpendType DEF Evict, IInv, Shape
  <1> QED
    BY <1>1, BlankType DEF Evict, IInv, Shape, TakenLoaded, LoadedOnly, postgres

LEMMA WriteAroundOK == ASSUME IInv, WriteAround PROVE IInv'
  <1>1. used' \in Used
    BY SpendType DEF WriteAround, IInv, Shape
  <1>2. used.writes \in Nat /\ used.writes < MaxWrites
    BY DEF WriteAround, IInv, Shape, Used
  <1>3. tip \in Content
    BY DEF IInv, Shape
  <1> DEFINE new == [tip EXCEPT !.base = used.writes + 2]
  <1>4. new \in Content /\ new.base # 0
    BY <1>2, <1>3, BoundNat DEF Content
  <1>5. tip' = new /\ versions' = versions \cup {new}
    BY DEF WriteAround, Insert
  <1> HIDE DEF new
  <1>6. active' # None =>
            /\ active' = [who |-> active'.who, phase |-> active'.phase,
                          content |-> active'.content, hash |-> active'.hash,
                          taken |-> active'.taken]
            /\ active'.content \in Content /\ active'.content.base # 0
    BY OvertakeOK DEF WriteAround
  <1> QED
    BY <1>1, <1>4, <1>5, <1>6
    DEF WriteAround, IInv, Shape, TakenLoaded, LoadedOnly, memory, storage

\* With no reload allowed, the reload's steps are never enabled.
LEMMA ReloadOK == ASSUME IInv, MaxReloads = 0, Reload PROVE FALSE
  <1>1. used.reloads \in Nat
    BY DEF IInv, Shape, Used
  <1> QED
    BY <1>1 DEF Reload, ReloadBegins, ReloadReads, ReloadApplies, ReloadFails, IInv, Shape,
                NoReload

LEMMA StutterOK == ASSUME IInv, UNCHANGED vars PROVE IInv'
  BY DEF vars, memory, writing, storage, postgres, IInv, Shape, TakenLoaded, LoadedOnly

LEMMA NextOK ==
  ASSUME IInv, Completers = {}, MaxReloads = 0, [Next]_vars
  PROVE  IInv'
  <1>1. CASE Initialize
    BY <1>1, InitializeOK
  <1>2. CASE Edit
    BY <1>2, EditOK
  <1>3. CASE Sync
    BY <1>3, SyncOK
  <1>4. CASE Reload
    BY <1>4, ReloadOK
  <1>5. CASE WriteAround
    BY <1>5, WriteAroundOK
  <1>6. CASE Evict
    BY <1>6, EvictOK
  <1>7. CASE Deliver
    BY <1>7, ConsumeOK, DiscardOK DEF Deliver
  <1>8. CASE UNCHANGED vars
    BY <1>8, StutterOK
  <1> QED
    BY <1>1, <1>2, <1>3, <1>4, <1>5, <1>6, <1>7, <1>8 DEF Next

-----------------------------------------------------------------------------

\* A session that did not load its document never writes: not to Postgres, not
\* to the queue and not to its own storage, whatever evictions, failed loads,
\* failed writes and redeliveries come in between.
THEOREM UnloadedIsNeverWritten ==
  ASSUME Completers = {}, MaxReloads = 0
  PROVE  Spec => []LoadedOnly
  <1>1. IInv /\ [Next]_vars => IInv'
    BY NextOK
  <1>2. IInv => LoadedOnly
    BY DEF IInv
  <1> QED
    BY InitOK, <1>1, <1>2, PTL DEF Spec

=============================================================================
