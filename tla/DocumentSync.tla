----------------------------- MODULE DocumentSync -----------------------------
(***************************************************************************)
(* How edits held by one DocumentSession Durable Object reach Postgres.    *)
(* The session keeps a Y.Doc in memory, stores its bytes in Durable Object *)
(* storage on a debounce, and owes Postgres a write that a stored schedule *)
(* and an alarm bring about: through the sync queue, or directly when      *)
(* somebody is about to publish.  The session may be evicted at any time.  *)
(*                                                                         *)
(* The runtime's input gate keeps every other event out while a handler    *)
(* awaits storage; it opens while a handler awaits the queue or Postgres.  *)
(***************************************************************************)
EXTENDS Integers, Sequences, FiniteSets, FiniteSetsExt

CONSTANTS
    Inserts, Deletes,     \* edits; a deletion does not advance a state vector
    HttpEdits,            \* the edits that arrive at /apply, not on a socket
    Flushers,             \* /flush requests and publish requests on a socket
    Completers,           \* /agent-edit-complete requests
    HasQueue,             \* SYNC_QUEUE is bound
    MaxActions, MaxCrashes, MaxReloads, MaxWrites, MaxFaults, MaxMessages, \* bounds
    None

ASSUME SyncAssumption ==
    /\ Inserts \cap Deletes = {} /\ HttpEdits \subseteq Inserts \cup Deletes
    /\ Flushers \cap Completers = {} /\ "alarm" \notin Flushers \cup Completers
    /\ "close" \notin Flushers \cup Completers /\ "no" \notin Flushers \cup Completers
    /\ HasQueue \in BOOLEAN
    /\ {MaxActions, MaxCrashes, MaxReloads, MaxWrites, MaxFaults, MaxMessages} \subseteq Nat

Edits == Inserts \cup Deletes
Requests == Flushers \cup Completers

VARIABLES
    doc, lastSynced, actions,      \* memory: the Y.Doc, PostgresSyncManager's fields
    initialized, failed,           \*   failed is contentLoadFailed
    active, waiting,               \*   the write holding syncInProgress, those behind it
    step,                          \*   a handler between two storage writes
    handling,                      \*   the write the alarm handler awaits
    reload,                        \*   reloadFromPostgres
    stored, schedule, alarm, persistPending,  \* Durable Object storage
    messages,                      \* the sync queue
    tip, versions,                 \* Postgres: the newest content, all contents
    lost,                          \* history: edits nothing will write any more
    asked,                         \* history: what each request found in memory
    used                           \* bounds spent

memory == <<doc, lastSynced, actions, initialized, failed>>
writing == <<active, waiting, asked>>
storage == <<stored, schedule, alarm, persistPending>>
postgres == <<tip, versions, lost>>
vars == <<memory, writing, step, handling, reload, storage, messages, postgres, used>>

\* base counts the writes made around the session; 0 is a document that was
\* never loaded.
Content == [base : 0 .. MaxWrites + 1, edits : SUBSET Edits]

\* Every load from Postgres starts a new Yjs lineage.
Doc == [content : Content, line : 0 .. 1 + MaxCrashes + MaxReloads]

BlankDoc == [content |-> [base |-> 0, edits |-> {}], line |-> 0]

Reloading == [phase : {"none", "reading", "read"}, content : Content]

NoReload == [phase |-> "none", content |-> BlankDoc.content]

\* computeStateVectorHash
HashOf(d) == [line |-> d.line, inserts |-> d.content.edits \cap Inserts]

Hash == [line : 0 .. 1 + MaxCrashes + MaxReloads, inserts : SUBSET Inserts]

\* takePendingWrite, and how far its write has got.
PendingWrite == [who : Requests \cup {"alarm", "close"},
                 phase : {"send", "sent", "write", "written", "overtaken"},
                 content : Content, hash : Hash, taken : 0 .. MaxActions]

ASSUME NoneAssumption == None \notin Content \cup Doc \cup Hash \cup PendingWrite

TypeOK ==
    /\ doc \in Doc /\ stored \in Doc \cup {None}
    /\ lastSynced \in Hash \cup {None} /\ actions \in 0 .. MaxActions
    /\ {initialized, failed, schedule, alarm, persistPending} \subseteq BOOLEAN
    /\ active \in PendingWrite \cup {None} /\ waiting \in Seq(Requests)
    /\ step \in {"none", "flagged", "edited", "scheduled"}
    /\ handling \in Requests \cup {"no", "alarm", "close"}
    /\ reload \in Reloading
    /\ messages \in Seq(Content) /\ Len(messages) <= MaxMessages
    /\ tip \in Content /\ versions \subseteq Content
    /\ asked \in [Requests -> Content \cup {None}]
    /\ lost \subseteq Edits

Init ==
    /\ doc = BlankDoc /\ lastSynced = None /\ actions = 0
    /\ initialized = FALSE /\ failed = FALSE
    /\ active = None /\ waiting = <<>> /\ step = "none" /\ handling = "no" /\ reload = NoReload
    /\ stored = None /\ schedule = FALSE /\ alarm = FALSE /\ persistPending = FALSE
    /\ messages = <<>>
    /\ tip = [base |-> 1, edits |-> {}] /\ versions = {tip}
    /\ asked = [r \in Requests |-> None] /\ lost = {}
    /\ used = [edits |-> {}, actions |-> 0, crashes |-> 0, reloads |-> 0,
               writes |-> 0, loads |-> 0, faults |-> 0]

Spend(what) == used' = [used EXCEPT ![what] = @ + 1]

\* The input gate is open: another event may be delivered.
Quiet == step = "none"

Loaded(content) == [content |-> content, line |-> used.loads + 1]

-----------------------------------------------------------------------------
\* initializeCrdtIfNeeded, which opens every handler but /agent-edit-complete.

Restore ==
    /\ Quiet /\ ~initialized /\ stored # None
    /\ doc' = stored /\ lastSynced' = HashOf(stored) /\ initialized' = TRUE
    /\ UNCHANGED <<actions, failed, writing, step, handling, reload, storage, messages,
                   postgres, used>>

LoadFromPostgres ==
    /\ Quiet /\ ~initialized /\ stored = None
    /\ doc' = Loaded(tip) /\ stored' = doc' /\ lastSynced' = HashOf(doc')
    /\ initialized' = TRUE
    /\ Spend("loads")
    /\ UNCHANGED <<actions, failed, writing, step, handling, reload, schedule, alarm,
                   persistPending, messages, postgres>>

LoadFails ==
    /\ Quiet /\ ~initialized /\ stored = None
    /\ used.faults < MaxFaults /\ Spend("faults")
    /\ failed' = TRUE /\ initialized' = TRUE
    /\ lastSynced' = IF lastSynced = None THEN HashOf(doc) ELSE lastSynced
    /\ UNCHANGED <<doc, actions, writing, step, handling, reload, storage, messages, postgres>>

-----------------------------------------------------------------------------
\* Edits.

HasUnsyncedChanges == HashOf(doc) # lastSynced \/ actions > 0

Apply(e) ==
    /\ Quiet /\ initialized
    /\ e \notin used.edits /\ used' = [used EXCEPT !.edits = @ \cup {e}]
    /\ doc' = [doc EXCEPT !.content.edits = @ \cup {e}]

\* handleWebSocketMessage, up to markPersistPending's first write.
SocketEdit(e) ==
    /\ e \notin HttpEdits
    /\ Apply(e)
    /\ persistPending' = TRUE
    /\ step' = IF persistPending THEN "edited" ELSE "flagged"
    /\ UNCHANGED <<lastSynced, actions, initialized, failed, writing, handling, reload,
                   stored, schedule, alarm, messages, postgres>>

ArmPersist ==
    /\ step = "flagged"
    /\ alarm' = TRUE /\ step' = "edited"
    /\ UNCHANGED <<memory, writing, handling, reload, stored, schedule, persistPending,
                   messages, postgres, used>>

\* applyOperations without attribution: the bytes are stored at once.
HttpEdit(e) ==
    /\ e \in HttpEdits /\ ~failed
    /\ Apply(e)
    /\ stored' = doc' /\ step' = "edited"
    /\ UNCHANGED <<lastSynced, actions, initialized, failed, writing, handling, reload,
                   schedule, alarm, persistPending, messages, postgres>>

\* scheduleSync stores the schedule, then sees to the alarm.
ScheduleSync ==
    /\ step = "edited"
    /\ schedule' = (schedule \/ HasUnsyncedChanges)
    /\ step' = IF HasUnsyncedChanges THEN "scheduled" ELSE "none"
    /\ UNCHANGED <<memory, writing, handling, reload, stored, alarm, persistPending,
                   messages, postgres, used>>

ArmSync ==
    /\ step = "scheduled"
    /\ alarm' = TRUE /\ step' = "none"
    /\ UNCHANGED <<memory, writing, handling, reload, stored, schedule, persistPending,
                   messages, postgres, used>>

\* An action_metadata message: the editor sends it after the update it explains.
ActionMetadata ==
    /\ Quiet /\ initialized
    /\ used.actions < MaxActions /\ Spend("actions")
    /\ actions' = actions + 1
    /\ UNCHANGED <<doc, lastSynced, initialized, failed, writing, step, handling, reload,
                   storage, messages, postgres>>

-----------------------------------------------------------------------------
\* Writes to Postgres.

Take(who, phase) == [who |-> who, phase |-> phase, content |-> doc.content,
                     hash |-> HashOf(doc), taken |-> actions]

LockFree == active = None /\ waiting = <<>>

\* syncToPostgres: skipped while another write holds the lock, or with nothing
\* scheduled; refused when the content never loaded.
SyncToPostgres(who) ==
    active' = IF LockFree /\ schedule /\ ~failed
              THEN Take(who, IF HasQueue THEN "send" ELSE "write") ELSE active

\* The write a caller of syncToPostgres waits for.
Awaited == IF waiting # <<>> THEN waiting[Len(waiting)]
           ELSE IF active # None THEN active.who ELSE "no"

\* Mutant of Persisted: the bytes are stored whether or not the content loaded.
PersistedAnyway == doc

\* persist, refused when the content never loaded.
Persisted == IF failed THEN stored ELSE doc

\* flushPendingPersist goes by the flag in memory, which a new instance has only
\* once doInitializeCrdt has read the stored one.
FlushPendingPersist ==
    IF persistPending /\ (initialized \/ failed \/ reload # NoReload)
    THEN stored' = Persisted /\ persistPending' = FALSE
    ELSE UNCHANGED <<stored, persistPending>>

\* handleAlarm up to the write it may wait for; due is the schedule's time.
AlarmFires(due) ==
    /\ Quiet /\ initialized /\ alarm /\ handling = "no"
    /\ FlushPendingPersist
    /\ IF due /\ schedule
       THEN /\ SyncToPostgres("alarm")
            /\ handling' = IF active' # active THEN "alarm" ELSE Awaited
       ELSE UNCHANGED <<active, handling>>
    /\ alarm' = (handling' = "no" /\ schedule)
    /\ UNCHANGED <<memory, waiting, asked, step, reload, schedule, messages, postgres, used>>

\* Mutant of AlarmEnds: the next alarm is not computed.
AlarmEndsUnarmed ==
    /\ Quiet /\ handling # "no"
    /\ active # None => active.who # handling
    /\ \A i \in DOMAIN waiting : waiting[i] # handling
    /\ handling' = "no"
    /\ UNCHANGED <<memory, writing, step, reload, storage, messages, postgres, used>>

\* The rest of handleAlarm: the next alarm is for what is still scheduled.
AlarmEnds ==
    /\ Quiet /\ handling # "no"
    /\ active # None => active.who # handling
    /\ \A i \in DOMAIN waiting : waiting[i] # handling
    /\ handling' = "no"
    /\ alarm' = (alarm \/ schedule \/ persistPending)
    /\ UNCHANGED <<memory, writing, step, reload, stored, schedule, persistPending, messages,
                   postgres, used>>

\* The last socket closes, or /sync is called.
PersistAndSync(closing) ==
    /\ Quiet /\ initialized
    /\ stored' = Persisted /\ persistPending' = (persistPending /\ ~closing)
    /\ SyncToPostgres("close")
    /\ UNCHANGED <<memory, waiting, asked, step, handling, reload, schedule, alarm, messages,
                   postgres, used>>

\* flushAndSync: the write queues behind the lock.
FlushAndSync(r) ==
    /\ Quiet
    /\ asked[r] = None
    /\ FlushPendingPersist
    /\ waiting' = Append(waiting, r)
    /\ asked' = [asked EXCEPT ![r] = doc.content]
    /\ UNCHANGED <<memory, active, step, handling, reload, schedule, alarm, messages,
                   postgres, used>>

Flush(f) == initialized /\ FlushAndSync(f)

\* handleAgentEditComplete loads presence and edit sessions only.
CompleteEdit(c) == FlushAndSync(c)

\* runSerialized: the next write's turn. It takes the document as it is now.
BeginDirectSync ==
    /\ Quiet /\ active = None /\ waiting # <<>>
    /\ waiting' = Tail(waiting)
    /\ active' = IF failed THEN None ELSE Take(Head(waiting), "write")
    /\ asked' = IF failed THEN [asked EXCEPT ![Head(waiting)] = None] ELSE asked
    /\ UNCHANGED <<memory, step, handling, reload, storage, messages, postgres, used>>

\* SYNC_QUEUE.send. The queue may accept a message and the call still fail.
SendToQueue(ok) ==
    /\ active # None /\ active.phase = "send" /\ Len(messages) < MaxMessages
    /\ messages' = Append(messages, active.content)
    /\ active' = [active EXCEPT !.phase = IF ok THEN "sent" ELSE "write"]
    /\ UNCHANGED <<memory, waiting, asked, step, handling, reload, storage, postgres, used>>

SendFails ==
    /\ active # None /\ active.phase = "send"
    /\ active' = [active EXCEPT !.phase = "write"]
    /\ UNCHANGED <<memory, waiting, asked, step, handling, reload, storage, messages,
                   postgres, used>>

Insert(content) == tip' = content /\ versions' = versions \cup {content}

\* The row is inserted, over Hyperdrive or by the internal API.
WriteVersion ==
    /\ active # None /\ active.phase = "write"
    /\ Insert(active.content)
    /\ active' = [active EXCEPT !.phase = "written"]
    /\ UNCHANGED <<memory, waiting, asked, step, handling, reload, storage, messages, lost, used>>

\* Another writer's row commits while the session's insert is under way and may
\* take the version number it computed. Then createDocumentVersion catches the
\* unique violation and answers the session with the row that won.
MayOvertake ==
    \/ UNCHANGED active
    \/ /\ active # None /\ active.phase = "write"
       /\ active' = [active EXCEPT !.phase = "overtaken"]

Finish ==
    /\ active' = None
    /\ asked' = [r \in Requests |-> IF r = active.who THEN None ELSE asked[r]]

\* Mutants of RecordSyncSuccess: the schedule goes although edits arrived while
\* the write was under way; actions a reload has discarded are counted off again.
RecordSyncSuccessClean ==
    /\ lastSynced' = active.hash
    /\ actions' = Max({0, actions - active.taken})
    /\ schedule' = FALSE

RecordSyncSuccessTwice ==
    /\ lastSynced' = active.hash
    /\ actions' = actions - active.taken
    /\ schedule' = (schedule /\ ~(HashOf(doc) = active.hash /\ actions' = 0))

\* recordSyncSuccess: clean only as far as the state the write took.
RecordSyncSuccess ==
    /\ lastSynced' = active.hash
    /\ actions' = Max({0, actions - active.taken})
    /\ schedule' = (schedule /\ ~(HashOf(doc) = active.hash /\ actions' = 0))

EditsOf(d) == IF d = None THEN {} ELSE d.content.edits

\* An answer with somebody else's version is recorded as any other; and the success
\* of a write taken from a document not loaded yet, or emptied by a reload, ends the
\* schedule the stored bytes still need.
RecordLoss ==
    lost' = lost \cup (IF active.phase = "overtaken" THEN active.content.edits ELSE {})
                 \cup (IF schedule /\ ~schedule' /\ ~initialized THEN EditsOf(stored) ELSE {})

\* Mutant of SyncSucceeds: the response is not looked at.
SyncSucceedsUnchecked ==
    /\ Quiet /\ active # None /\ active.phase # "send"
    /\ RecordSyncSuccess
    /\ Finish
    /\ RecordLoss
    /\ UNCHANGED <<doc, initialized, failed, waiting, step, handling, reload, stored, alarm,
                   persistPending, messages, tip, versions, used>>

SyncSucceeds ==
    /\ Quiet /\ active # None /\ active.phase \in {"sent", "written", "overtaken"}
    /\ RecordSyncSuccess
    /\ Finish
    /\ RecordLoss
    /\ UNCHANGED <<doc, initialized, failed, waiting, step, handling, reload, stored, alarm,
                   persistPending, messages, tip, versions, used>>

\* Mutant of SyncFails: the schedule is dropped with the write.
SyncFailsForgetting ==
    /\ Quiet /\ active # None /\ active.phase \in {"write", "written", "overtaken"}
    /\ Finish
    /\ schedule' = FALSE
    /\ UNCHANGED <<memory, waiting, step, handling, reload, stored, alarm, persistPending,
                   messages, postgres, used>>

\* No response, or an error: nothing is recorded and the schedule stays.
SyncFails ==
    /\ Quiet /\ active # None /\ active.phase \in {"write", "written", "overtaken"}
    /\ Finish
    /\ UNCHANGED <<memory, waiting, step, handling, reload, storage, messages, postgres, used>>

\* The messages outside batch stay, in their order.
Acknowledge(batch) ==
    LET kept == DOMAIN messages \ batch IN
    \E pos \in [1 .. Cardinality(kept) -> kept] :
        /\ \A i, j \in DOMAIN pos : i < j => pos[i] < pos[j]
        /\ messages' = [i \in DOMAIN pos |-> messages[pos[i]]]

\* handleSyncQueue: of a batch only the latest message is written. A batch that
\* failed, or whose acknowledgement was lost, is delivered again.
Consume(batch, acked) ==
    /\ \E last \in batch : /\ \A i \in batch : i <= last
                           /\ Insert(messages[last])
    /\ MayOvertake
    /\ IF acked THEN Acknowledge(batch) ELSE UNCHANGED messages
    /\ UNCHANGED <<memory, waiting, asked, step, handling, reload, storage, lost, used>>

\* batchSyncToPostgres leaves out a payload whose actor does not resolve, and
\* the batch is acknowledged all the same; or its deliveries are used up and it
\* goes to the dead-letter queue.
Discard(batch) ==
    /\ \E last \in batch : /\ \A i \in batch : i <= last
                           /\ lost' = lost \cup messages[last].edits
    /\ Acknowledge(batch)
    /\ UNCHANGED <<memory, writing, step, handling, reload, storage, tip, versions, used>>

-----------------------------------------------------------------------------
\* Writes made around the session, and the reload that follows them.

\* A migration, a merge or a revert writes a version.
WriteAround ==
    /\ used.writes < MaxWrites /\ Spend("writes")
    /\ Insert([tip EXCEPT !.base = used.writes + 2])
    /\ MayOvertake
    /\ UNCHANGED <<memory, waiting, asked, step, handling, reload, storage, messages, lost>>

\* reloadFromPostgres replaces the Y.Doc before it has anything to put in it.
ReloadBegins ==
    /\ Quiet /\ initialized /\ reload = NoReload
    /\ used.reloads < MaxReloads /\ Spend("reloads")
    /\ reload' = [NoReload EXCEPT !.phase = "reading"]
    /\ doc' = BlankDoc /\ initialized' = FALSE
    /\ UNCHANGED <<lastSynced, actions, failed, writing, step, handling, storage, messages,
                   postgres>>

ReloadReads ==
    /\ reload.phase = "reading"
    /\ reload' = [phase |-> "read", content |-> tip]
    /\ UNCHANGED <<memory, writing, step, handling, storage, messages, postgres, used>>

ReloadApplies ==
    /\ Quiet /\ reload.phase = "read"
    /\ doc' = Loaded(reload.content) /\ stored' = doc' /\ lastSynced' = HashOf(doc')
    /\ initialized' = TRUE /\ failed' = FALSE
    /\ schedule' = FALSE /\ actions' = 0
    /\ reload' = NoReload
    /\ Spend("loads")
    /\ UNCHANGED <<writing, step, handling, alarm, persistPending, messages, postgres>>

ReloadFails ==
    /\ Quiet /\ reload.phase = "reading"
    /\ used.faults < MaxFaults /\ Spend("faults")
    /\ failed' = TRUE /\ reload' = NoReload
    /\ UNCHANGED <<doc, lastSynced, actions, initialized, writing, step, handling, storage,
                   messages, postgres>>

-----------------------------------------------------------------------------

\* The isolate goes away. An alarm whose handler did not return fires again. The
\* bytes of an HTTP edit are stored before its schedule: restored, they count as synced.
Evict ==
    /\ used.crashes < MaxCrashes /\ Spend("crashes")
    /\ doc' = BlankDoc /\ lastSynced' = None /\ actions' = 0
    /\ initialized' = FALSE /\ failed' = FALSE
    /\ active' = None /\ waiting' = <<>> /\ asked' = [r \in Requests |-> None]
    /\ step' = "none" /\ handling' = "no" /\ reload' = NoReload
    /\ alarm' = (alarm \/ handling # "no")
    /\ lost' = IF step = "edited" /\ ~schedule
               THEN lost \cup (EditsOf(stored) \cap HttpEdits) ELSE lost
    /\ UNCHANGED <<stored, schedule, persistPending, messages, tip, versions>>

Initialize == Restore \/ LoadFromPostgres \/ LoadFails

Edit ==
    \/ \E e \in Edits : SocketEdit(e) \/ HttpEdit(e)
    \/ ArmPersist \/ ScheduleSync \/ ArmSync \/ ActionMetadata

Sync ==
    \/ \E due \in BOOLEAN : AlarmFires(due)
    \/ \E closing \in BOOLEAN : PersistAndSync(closing)
    \/ AlarmEnds
    \/ \E f \in Flushers : Flush(f)
    \/ \E c \in Completers : CompleteEdit(c)
    \/ BeginDirectSync \/ SendFails \/ WriteVersion \/ SyncSucceeds \/ SyncFails
    \/ \E ok \in BOOLEAN : SendToQueue(ok)

Reload == ReloadBegins \/ ReloadReads \/ ReloadApplies \/ ReloadFails

Deliver ==
    \E batch \in SUBSET DOMAIN messages :
        Discard(batch) \/ \E acked \in BOOLEAN : Consume(batch, acked)

Next == Initialize \/ Edit \/ Sync \/ Reload \/ WriteAround \/ Deliver \/ Evict

Spec == Init /\ [][Next]_vars

\* The runtime finishes handlers and fires alarms, which come due; the queue
\* delivers; a send or a write tried again and again gets through.
Fairness ==
    /\ WF_vars(Initialize)
    /\ WF_vars(ArmPersist \/ ScheduleSync \/ ArmSync)
    /\ WF_vars(AlarmFires(TRUE)) /\ WF_vars(AlarmEnds)
    /\ WF_vars(BeginDirectSync) /\ WF_vars(SyncSucceeds)
    /\ WF_vars(WriteVersion \/ SyncFails)
    /\ SF_vars(SendToQueue(TRUE)) /\ SF_vars(WriteVersion)
    /\ WF_vars(\E batch \in SUBSET DOMAIN messages : 1 \in batch /\ Consume(batch, TRUE))

FairSpec == Spec /\ Fairness

-----------------------------------------------------------------------------
\* Properties.

\* Edit e is in Postgres, in the queue, or in the write under way.
Carried(e) ==
    \/ \E v \in versions : e \in v.edits
    \/ \E i \in DOMAIN messages : e \in messages[i].edits
    \/ active # None /\ e \in active.content.edits

\* Between handlers, every insertion the session holds has been written, queued
\* or taken, or a stored schedule still owes it: through evictions, sends that
\* fail, edits made while a write is under way and flushes that overtake it.
\* Four things lose it, and nothing else: an answer with the version of somebody
\* who took the number; a message taken off the queue with no version made of it;
\* a write of a document not in memory whose success ends the schedule; and an
\* eviction between the bytes of an HTTP edit and its schedule.
OwedIsScheduled ==
    Quiet => schedule \/ \A e \in doc.content.edits \cap Inserts : Carried(e) \/ e \in lost

\* A flush that reports success has put everything that was in the session
\* when it was asked into one version, whatever write it queued behind, unless
\* that very write was answered with the version of somebody else.
FlushCovers ==
    [][\A r \in Requests : SyncSucceeds /\ active.who = r =>
          \/ active.phase = "overtaken"
          \/ \E v \in versions' : asked[r].edits \subseteq v.edits]_vars

\* What the comment at the unique violation says: the version the session is
\* answered with has its data. The run that checks it finds that it has not.
FlushIsWritten ==
    [][\A r \in Requests : SyncSucceeds /\ active.who = r =>
          \E v \in versions' : asked[r].edits \subseteq v.edits]_vars

\* Neither Postgres, the queue nor Durable Object storage is ever given content
\* of a session that did not load its document.
LoadedOnly ==
    /\ \A v \in versions : v.base # 0
    /\ \A i \in DOMAIN messages : messages[i].base # 0
    /\ stored # None => stored.content.base # 0

\* An edit is owed to Postgres only while an alarm will come for it.
OwedIsArmed == schedule => alarm \/ handling # "no" \/ step = "scheduled"

\* Every edit the session keeps holding is written to Postgres in the end, but
\* for those the losses above took: neither retries nor reports them.
EventuallyWritten ==
    <>[](\A e \in doc.content.edits : e \in lost \/ \E v \in versions : e \in v.edits)

\* What a flush wrote is the newest version when it answers: what is published
\* next is what was in the session.
FlushedIsLatest ==
    [][\A r \in Requests : SyncSucceeds /\ active.who = r =>
          asked[r].edits \subseteq tip'.edits]_vars

\* When hasUnsyncedChanges says no, Postgres is not behind the session.
CleanIsWritten ==
    Quiet /\ initialized /\ ~HasUnsyncedChanges => \A e \in doc.content.edits : Carried(e)

=============================================================================
