----------------------------- MODULE EditSessions -----------------------------
(***************************************************************************)
(* The edit sessions of one document and the turns people have stopped.    *)
(* A session reserves regions for its owner; /apply refuses an agent that  *)
(* holds none, and any request of a stopped turn.  Both are kept in the    *)
(* Durable Object's memory and in its storage, and read back by the first  *)
(* requests after an eviction; an alarm ends the sessions left behind.     *)
(*                                                                         *)
(* The runtime's input gate keeps every other event out while a handler    *)
(* awaits storage; it opens while a handler awaits Postgres, where the     *)
(* checkpoints are taken and rolled back.  What Postgres does with them is *)
(* abstracted: here they are the waits during which others run.            *)
(***************************************************************************)
EXTENDS Integers, Sequences, FiniteSets, SequencesExt

CONSTANTS
    Sessions,           \* what each /agent-edit-start request asks for:
    Owner, Regions,     \*   by whom, and the parts of the page under its targetRegions
    Turn,               \*   the turn it carries, or None
    Checkpointed,       \*   those that take a pre-edit checkpoint
    Agents, Turns,
    Restorers,          \* requests that may find the metadata not yet restored
    MaxStopped,         \* MAX_STOPPED_TURNS
    MaxCrashes,         \* bound
    None

ASSUME EditAssumption ==
    /\ Turn \in [Sessions -> Turns \cup {None}]
    /\ None \notin Turns \cup Sessions
    /\ Checkpointed \subseteq Sessions
    /\ \A s \in Sessions : Owner[s] \notin Agents => s \in Checkpointed
    /\ MaxStopped \in Nat \ {0} /\ MaxCrashes \in Nat

\* since holds None or a set of turns, and tells the two apart.
ASSUME NoneIsNoSet == \A turns \in SUBSET Turns : turns # None

VARIABLES
    editSessions, stoppedTurns,    \* memory: the sessions; the stops, oldest first
    metadataInitialized, cleanupAlarmScheduled,
    starting,                      \* Starts that await their checkpoint
    closing,                       \* requests that await Postgres to close a session
    cleaning,                      \* the alarm handler
    restoring,                     \* initializeMetadataIfNeeded, per request
    step,                          \* a handler between two storage writes
    storedSessions, storedTurns, alarm,  \* Durable Object storage
    aged,                          \* sessions past MAX_EDIT_SESSION_AGE_MS
    opened, settled, ended,        \* history of sessions
    edited,                        \* turns that have edited the page
    since,                         \* history of stops
    crashes                        \* bound spent

memory == <<editSessions, stoppedTurns, metadataInitialized, cleanupAlarmScheduled>>
jobs == <<starting, closing, cleaning, restoring>>
storage == <<storedSessions, storedTurns, alarm>>
reservations == <<editSessions, storedSessions, ended>>
bars == <<stoppedTurns, storedTurns, since>>
vars == <<memory, jobs, step, storage, aged, opened, settled, ended, edited,
          since, crashes>>

Closing == [session : Sessions, by : {"complete", "abort", "stop"}]

\* runCleanup: the aged sessions it has yet to reach, the one it is rolling back.
Cleaning == [phase : {"idle", "fired", "writing", "rollback"}, due : SUBSET Sessions,
             current : SUBSET Sessions, cleared : BOOLEAN]

NotCleaning == [phase |-> "idle", due |-> {}, current |-> {}, cleared |-> FALSE]

\* restoreEditSessions: the stored sessions it has yet to add and to roll back.
Restoring == [phase : {"idle", "settings", "rollback"}, live : SUBSET Sessions,
              due : SUBSET Sessions, expired : BOOLEAN]

NotRestoring == [phase |-> "idle", live |-> {}, due |-> {}, expired |-> FALSE]

Step == [at : {"none", "arm", "close", "bar"}, sessions : SUBSET Sessions]

Between(at, sessions) == [at |-> at, sessions |-> sessions]

NoStep == Between("none", {})

TypeOK ==
    /\ {editSessions, storedSessions, starting, aged, opened, settled, ended}
           \subseteq SUBSET Sessions
    /\ {stoppedTurns, storedTurns} \subseteq Seq(Turns)
    /\ {metadataInitialized, cleanupAlarmScheduled, alarm} \subseteq BOOLEAN
    /\ closing \subseteq Closing /\ cleaning \in Cleaning
    /\ restoring \in [Restorers -> Restoring] /\ step \in Step
    /\ edited \subseteq Turns /\ since \in [Turns -> (SUBSET Turns) \cup {None}]
    /\ crashes \in 0 .. MaxCrashes

Init ==
    /\ editSessions = {} /\ stoppedTurns = <<>>
    /\ metadataInitialized = FALSE /\ cleanupAlarmScheduled = FALSE
    /\ starting = {} /\ closing = {} /\ cleaning = NotCleaning
    /\ restoring = [r \in Restorers |-> NotRestoring] /\ step = NoStep
    /\ storedSessions = {} /\ storedTurns = <<>> /\ alarm = FALSE
    /\ aged = {} /\ opened = {} /\ settled = {} /\ ended = {} /\ edited = {}
    /\ since = [t \in Turns |-> None] /\ crashes = 0

\* A request whose initialization is over is handled: the input gate is open.
Serving == step = NoStep /\ metadataInitialized

-----------------------------------------------------------------------------
\* Stopped turns.

\* Map.set and Map.delete on the keys in their order: a key that is there keeps
\* its place, and a key is there once.
SetTurn(turns, t) == IF Contains(turns, t) THEN turns ELSE Append(turns, t)

DeleteTurn(turns, t) ==
    IF Contains(turns, t) THEN RemoveAt(turns, CHOOSE i \in DOMAIN turns : turns[i] = t)
    ELSE turns

\* Mutant of RecordStoppedTurn: a turn stopped again keeps its place.
RecordStoppedTurnInPlace(turns, t) ==
    LET moved == SetTurn(turns, t)
    IN IF Len(moved) > MaxStopped THEN Tail(moved) ELSE moved

\* recordStoppedTurn: a turn stopped again moves to the back, and past the cap
\* the front is dropped.
RecordStoppedTurn(turns, t) ==
    LET moved == Append(DeleteTurn(turns, t), t)
    IN IF Len(moved) > MaxStopped THEN Tail(moved) ELSE moved

IsTurnStopped(t) == Contains(stoppedTurns, t)

\* The turns stopped after t was last stopped; None if it never was.
Note(history, t) ==
    [u \in Turns |-> IF u = t THEN {}
                     ELSE IF history[u] = None THEN None ELSE history[u] \cup {t}]

\* What an update comes to over a sequence of turns.
Each(Update(_, _), from, turns) ==
    LET after[i \in 0 .. Len(turns)] ==
            IF i = 0 THEN from ELSE Update(after[i - 1], turns[i])
    IN after[Len(turns)]

\* Record the stops of a sequence of turns and persist them.
Bar(turns) ==
    /\ stoppedTurns' = Each(RecordStoppedTurn, stoppedTurns, turns)
    /\ storedTurns' = IF turns = <<>> THEN storedTurns ELSE stoppedTurns'
    /\ since' = Each(Note, since, turns)

\* A turn id that may be missing.
Given(t) == IF t = None THEN <<>> ELSE <<t>>

TurnsOf(these) == {Turn[s] : s \in these} \ {None}

-----------------------------------------------------------------------------
\* handleAgentEditStart.

HoldsSession(owner) == \E o \in editSessions : Owner[o] = owner

\* regionsHeldByOtherSessions names one of the regions asked for.
RegionsHeld(s) ==
    \E o \in editSessions : Owner[o] # Owner[s] /\ Regions[o] \cap Regions[s] # {}

\* The session is set and persisted; scheduleCleanupAlarm, called just before,
\* arms the alarm after it unless it knows of one.
Open(s) ==
    /\ editSessions' = editSessions \cup {s} /\ storedSessions' = editSessions'
    /\ opened' = opened \cup {s}
    /\ step' = IF cleanupAlarmScheduled THEN NoStep ELSE Between("arm", {s})
    /\ settled' = IF cleanupAlarmScheduled THEN settled \cup {s} ELSE settled

Start(s) ==
    /\ Serving /\ s \notin opened \cup starting
    /\ ~IsTurnStopped(Turn[s]) /\ ~HoldsSession(Owner[s]) /\ ~RegionsHeld(s)
    /\ \/ /\ s \in Checkpointed
          /\ starting' = starting \cup {s}
          /\ UNCHANGED <<editSessions, storedSessions, opened, step, settled>>
       \/ s \notin Checkpointed /\ Open(s) /\ UNCHANGED starting
    /\ UNCHANGED <<bars, metadataInitialized, cleanupAlarmScheduled, closing, cleaning,
                   restoring, alarm, aged, ended, edited, crashes>>

\* Mutant of FinishStart: the turn is checked at entry only.
FinishStartUnchecked(s) ==
    /\ Serving /\ s \in starting
    /\ starting' = starting \ {s} /\ Open(s)
    /\ UNCHANGED <<bars, metadataInitialized, cleanupAlarmScheduled, closing, cleaning,
                   restoring, alarm, aged, ended, edited, crashes>>

\* The checkpoint is taken, or is not; the turn may have been stopped meanwhile.
FinishStart(s) ==
    /\ Serving /\ s \in starting
    /\ starting' = starting \ {s}
    /\ \/ ~IsTurnStopped(Turn[s]) /\ Open(s) /\ UNCHANGED <<cleanupAlarmScheduled, alarm>>
       \/ /\ IsTurnStopped(Turn[s])
          /\ cleanupAlarmScheduled' = TRUE
          /\ alarm' = IF cleanupAlarmScheduled THEN alarm ELSE TRUE
          /\ UNCHANGED <<editSessions, storedSessions, opened, step, settled>>
    /\ UNCHANGED <<bars, metadataInitialized, closing, cleaning, restoring, aged, ended,
                   edited, crashes>>

ArmCleanup ==
    /\ step.at = "arm"
    /\ alarm' = TRUE /\ cleanupAlarmScheduled' = TRUE /\ step' = NoStep
    /\ settled' = settled \cup step.sessions
    /\ UNCHANGED <<reservations, bars, metadataInitialized, jobs, aged, opened, edited, crashes>>

-----------------------------------------------------------------------------
\* /apply inside a session. The property about edits asks only whether a turn
\* has made one, and nothing else reads it.

Apply(s, t) ==
    /\ Serving /\ s \in editSessions /\ ~IsTurnStopped(t)
    /\ edited' = edited \cup {t}
    /\ UNCHANGED <<memory, jobs, step, storage, aged, opened, settled, ended, since, crashes>>

-----------------------------------------------------------------------------
\* Requests that close a session.

Close(these) ==
    /\ editSessions' = editSessions \ these /\ storedSessions' = editSessions'
    /\ ended' = ended \cup these

Await(s, by) == closing' = closing \cup {[session |-> s, by |-> by]}

\* handleAgentEditComplete, up to its flush; t is the turn the request carries.
Complete(s, t) ==
    /\ Serving /\ s \in editSessions /\ ~IsTurnStopped(t)
    /\ Await(s, "complete")
    /\ UNCHANGED <<memory, starting, cleaning, restoring, step, storage, aged, opened,
                   settled, ended, edited, since, crashes>>

\* handleAgentEditAbort, up to its rollback if the session has a checkpoint.
Abort(s) ==
    /\ Serving /\ s \in editSessions
    /\ \/ s \in Checkpointed /\ Await(s, "abort") /\ UNCHANGED reservations
       \/ s \notin Checkpointed /\ Close({s}) /\ UNCHANGED closing
    /\ UNCHANGED <<bars, metadataInitialized, cleanupAlarmScheduled, starting, cleaning,
                   restoring, step, alarm, aged, opened, settled, edited, crashes>>

\* handleAgentStop by turn: the turn is barred, and no session is looked for.
StopTurn(t) ==
    /\ Serving /\ Bar(<<t>>)
    /\ UNCHANGED <<reservations, metadataInitialized, cleanupAlarmScheduled, jobs, step, alarm,
                   aged, opened, settled, edited, crashes>>

\* Mutant of StopAgent: a turn id that is missing is recorded all the same.
StopAgentUnchecked(s, t) ==
    /\ Serving /\ s \in editSessions /\ Owner[s] \in Agents
    /\ Bar(<<t>>)
    /\ \/ /\ s \in Checkpointed /\ Await(s, "stop") /\ UNCHANGED step
       \/ /\ s \notin Checkpointed /\ step' = Between("close", {s}) /\ UNCHANGED closing
    /\ UNCHANGED <<reservations, metadataInitialized, cleanupAlarmScheduled, starting,
                   cleaning, restoring, alarm, aged, opened, settled, edited, crashes>>

\* handleAgentStop by agent, naming a turn or not: the turns are barred, then
\* its session is rolled back or closed.
StopAgent(s, t) ==
    /\ Serving /\ s \in editSessions /\ Owner[s] \in Agents
    /\ Bar(Given(t) \o (IF Turn[s] = t THEN <<>> ELSE Given(Turn[s])))
    /\ \/ /\ s \in Checkpointed /\ Await(s, "stop") /\ UNCHANGED step
       \/ /\ s \notin Checkpointed /\ step' = Between("close", {s}) /\ UNCHANGED closing
    /\ UNCHANGED <<reservations, metadataInitialized, cleanupAlarmScheduled, starting, cleaning,
                   restoring, alarm, aged, opened, settled, edited, crashes>>

\* Postgres answers. A flush that failed leaves the session open; a rollback
\* that failed does not.
FinishClosing(c) ==
    /\ Serving /\ c \in closing
    /\ closing' = closing \ {c}
    /\ \/ Close({c.session})
       \/ c.by = "complete" /\ UNCHANGED reservations
    /\ UNCHANGED <<bars, metadataInitialized, cleanupAlarmScheduled, starting, cleaning,
                   restoring, step, alarm, aged, opened, settled, edited, crashes>>

\* handleKickAgent: the turn is barred, then the session is closed.
KickAgent(s) ==
    /\ Serving /\ s \in editSessions /\ Owner[s] \in Agents
    /\ Bar(Given(Turn[s]))
    /\ step' = Between("close", {s})
    /\ UNCHANGED <<reservations, metadataInitialized, cleanupAlarmScheduled, jobs, alarm, aged,
                   opened, settled, edited, crashes>>

CloseKicked ==
    /\ step.at = "close"
    /\ Close(step.sessions) /\ step' = NoStep
    /\ UNCHANGED <<bars, metadataInitialized, cleanupAlarmScheduled, jobs, alarm, aged,
                   opened, settled, edited, crashes>>

\* handleKickAllAgents: the sessions are closed, then their turns are barred.
KickAllAgents ==
    LET kicked == {s \in editSessions : Owner[s] \in Agents}
    IN /\ Serving
       /\ Close(kicked)
       /\ step' = IF TurnsOf(kicked) = {} THEN NoStep ELSE Between("bar", kicked)
       /\ UNCHANGED <<bars, metadataInitialized, cleanupAlarmScheduled, jobs, alarm, aged,
                      opened, settled, edited, crashes>>

BarKicked ==
    /\ step.at = "bar"
    /\ \E turns \in SetToSeqs(TurnsOf(step.sessions)) : Bar(turns)
    /\ step' = NoStep
    /\ UNCHANGED <<reservations, metadataInitialized, cleanupAlarmScheduled, jobs, alarm, aged,
                   opened, settled, edited, crashes>>

-----------------------------------------------------------------------------
\* The alarm handler.

\* The runtime forgets the alarm as it calls the handler, which restores the
\* document, and writes to Postgres before it cleans up.
FireAlarm ==
    /\ Serving /\ alarm /\ cleaning.phase = "idle"
    /\ alarm' = FALSE /\ cleaning' = [NotCleaning EXCEPT !.phase = "fired"]
    /\ UNCHANGED <<reservations, bars, metadataInitialized, cleanupAlarmScheduled, starting,
                   closing, restoring, step, aged, opened, settled, edited, crashes>>

WriteBeforeCleanup ==
    /\ Serving /\ cleaning.phase = "fired"
    /\ cleaning' = [cleaning EXCEPT !.phase = "writing"] /\ cleanupAlarmScheduled' = FALSE
    /\ UNCHANGED <<reservations, bars, metadataInitialized, starting, closing, restoring,
                   step, alarm, aged, opened, settled, edited, crashes>>

\* Mutant of CleanUp: the next alarm is set only if this one had nothing to do.
CleanUpOnce(due, current, cleared) ==
    /\ editSessions' = editSessions \ (current \cup due)
    /\ ended' = ended \cup current \cup due
    /\ storedSessions' = IF cleared \/ current \cup due # {} THEN editSessions' ELSE storedSessions
    /\ cleaning' = NotCleaning
    /\ alarm' = (alarm \/ (editSessions' # {} /\ current \cup due = {}))
    /\ cleanupAlarmScheduled' = (cleanupAlarmScheduled \/ alarm')
    /\ UNCHANGED <<bars, metadataInitialized, starting, closing, restoring, step, aged,
                   opened, settled, edited, crashes>>

\* runCleanup from some point of its loop to the next rollback, or to the end;
\* sessions closed meanwhile are not reached. At the end the handler arms the
\* alarm again if a session is left; connections and presence only add alarms.
CleanUp(due, current, cleared) ==
    LET left == due \cap editSessions
    IN /\ \/ /\ left \cap Checkpointed = {}
             /\ editSessions' = editSessions \ (current \cup left)
             /\ ended' = ended \cup current \cup left
             /\ storedSessions' = IF cleared \/ current \cup left # {} THEN editSessions'
                                  ELSE storedSessions
             /\ cleaning' = NotCleaning
             /\ alarm' = (alarm \/ editSessions' # {})
             /\ cleanupAlarmScheduled' = (cleanupAlarmScheduled \/ editSessions' # {})
          \/ \E next \in left \cap Checkpointed, passed \in SUBSET (left \ Checkpointed) :
             /\ editSessions' = editSessions \ (current \cup passed)
             /\ ended' = ended \cup current \cup passed
             /\ cleaning' = [phase |-> "rollback", due |-> left \ (passed \cup {next}),
                             current |-> {next}, cleared |-> cleared \/ current \cup passed # {}]
             /\ UNCHANGED <<storedSessions, alarm, cleanupAlarmScheduled>>
       /\ UNCHANGED <<bars, metadataInitialized, starting, closing, restoring, step, aged,
                      opened, settled, edited, crashes>>

BeginCleanup ==
    /\ Serving /\ cleaning.phase = "writing"
    /\ CleanUp(editSessions \cap aged, {}, FALSE)

ContinueCleanup ==
    /\ Serving /\ cleaning.phase = "rollback"
    /\ CleanUp(cleaning.due, cleaning.current, cleaning.cleared)

-----------------------------------------------------------------------------
\* initializeMetadataIfNeeded. Nothing keeps two requests from running it.

BeginRestore(r) ==
    /\ step = NoStep /\ ~metadataInitialized /\ restoring[r].phase = "idle"
    /\ restoring' = [restoring EXCEPT ![r].phase = "settings"]
    /\ UNCHANGED <<memory, starting, closing, cleaning, step, storage, aged, opened, settled,
                   ended, edited, since, crashes>>

\* Mutant of RestoreSessions: requests are let in before the rollbacks.
RestoreSessionsEarly(r, live, due, expired) ==
    \/ /\ due = {}
       /\ editSessions' = editSessions \cup live
       /\ storedSessions' = IF expired THEN editSessions' ELSE storedSessions
       /\ metadataInitialized' = TRUE
       /\ restoring' = [restoring EXCEPT ![r] = NotRestoring]
    \/ \E next \in due, passed \in SUBSET live :
       /\ editSessions' = editSessions \cup passed
       /\ restoring' = [restoring EXCEPT ![r] =
              [phase |-> "rollback", live |-> live \ passed, due |-> due \ {next},
               expired |-> TRUE]]
       /\ metadataInitialized' = TRUE /\ UNCHANGED storedSessions

\* restoreEditSessions from some point of its loop to the next rollback, or to
\* the end, where the first request that gets there lets the others in.
RestoreSessions(r, live, due, expired) ==
    \/ /\ due = {}
       /\ editSessions' = editSessions \cup live
       /\ storedSessions' = IF expired THEN editSessions' ELSE storedSessions
       /\ metadataInitialized' = TRUE
       /\ restoring' = [restoring EXCEPT ![r] = NotRestoring]
    \/ \E next \in due, passed \in SUBSET live :
       /\ editSessions' = editSessions \cup passed
       /\ restoring' = [restoring EXCEPT ![r] =
              [phase |-> "rollback", live |-> live \ passed, due |-> due \ {next},
               expired |-> TRUE]]
       /\ UNCHANGED <<storedSessions, metadataInitialized>>

\* The organization's settings have arrived: restoreStoppedTurns, then the
\* sessions are read, those past their age to be dropped. What memory holds
\* already it keeps, and the alarm ends.
ReadStored(r) ==
    /\ step = NoStep /\ restoring[r].phase = "settings"
    /\ stoppedTurns' = Each(SetTurn, stoppedTurns, storedTurns)
    /\ RestoreSessions(r, storedSessions \ aged, storedSessions \cap aged \cap Checkpointed,
                       storedSessions \cap aged # {})
    /\ ended' = ended \cup ((storedSessions \cap aged) \ editSessions)
    /\ UNCHANGED <<storedTurns, since, cleanupAlarmScheduled, starting, closing, cleaning,
                   step, alarm, aged, opened, settled, edited, crashes>>

ContinueRestore(r) ==
    /\ step = NoStep /\ restoring[r].phase = "rollback"
    /\ RestoreSessions(r, restoring[r].live, restoring[r].due, restoring[r].expired)
    /\ UNCHANGED <<bars, cleanupAlarmScheduled, starting, closing, cleaning, step, alarm,
                   aged, opened, settled, ended, edited, crashes>>

-----------------------------------------------------------------------------
\* Time passes: MAX_EDIT_SESSION_AGE_MS since the session's start.
Age(s) ==
    /\ s \in opened \ aged
    /\ aged' = aged \cup {s}
    /\ UNCHANGED <<memory, jobs, step, storage, opened, settled, ended, edited, since, crashes>>

\* The Durable Object is evicted or crashes: memory and whatever awaits are
\* lost. The runtime calls an alarm handler again that did not return.
Crash ==
    /\ crashes < MaxCrashes /\ crashes' = crashes + 1
    /\ editSessions' = {} /\ stoppedTurns' = <<>>
    /\ metadataInitialized' = FALSE /\ cleanupAlarmScheduled' = FALSE
    /\ starting' = {} /\ closing' = {} /\ cleaning' = NotCleaning
    /\ restoring' = [r \in Restorers |-> NotRestoring] /\ step' = NoStep
    /\ alarm' = (alarm \/ cleaning.phase # "idle")
    /\ UNCHANGED <<storedSessions, storedTurns, aged, opened, settled, ended, edited, since>>

-----------------------------------------------------------------------------
Next ==
    \/ \E s \in Sessions : Start(s) \/ FinishStart(s) \/ Abort(s) \/ KickAgent(s) \/ Age(s)
    \/ \E s \in Sessions, t \in Turns : Apply(s, t)
    \/ \E s \in Sessions, t \in Turns \cup {None} : Complete(s, t) \/ StopAgent(s, t)
    \/ \E t \in Turns : StopTurn(t)
    \/ \E c \in closing : FinishClosing(c)
    \/ KickAllAgents \/ ArmCleanup \/ CloseKicked \/ BarKicked
    \/ FireAlarm \/ WriteBeforeCleanup \/ BeginCleanup \/ ContinueCleanup
    \/ \E r \in Restorers : BeginRestore(r) \/ ReadStored(r) \/ ContinueRestore(r)
    \/ Crash

Spec == Init /\ [][Next]_vars

\* The runtime delivers a due alarm, and wakes the object for it; Postgres
\* answers or fails what it is asked; handlers run to their end; time passes.
Fairness ==
    /\ WF_vars(FireAlarm) /\ WF_vars(WriteBeforeCleanup \/ BeginCleanup \/ ContinueCleanup)
    /\ WF_vars(ArmCleanup \/ CloseKicked \/ BarKicked)
    /\ WF_vars(alarm /\ \E r \in Restorers : BeginRestore(r))
    /\ \A r \in Restorers : WF_vars(ReadStored(r) \/ ContinueRestore(r))
    /\ \A s \in Sessions : WF_vars(Age(s))

FairSpec == Spec /\ Fairness

-----------------------------------------------------------------------------
\* The turns whose stop has not been pushed out by MAX_STOPPED_TURNS later ones.
Barred == {t \in Turns : since[t] # None /\ Cardinality(since[t]) < MaxStopped}

\* Once a stop is recorded the turn edits no more, whatever session it holds and
\* however often the object is evicted: the page "has to be protected" while the
\* agent is mid-request, reconnecting or restarted (stopped-turns.ts).
BarredTurnsDoNotEdit == [][\A t \in Barred : t \in edited' => t \in edited]_vars

\* No session is opened for a turn stopped while its Start awaited the
\* checkpoint: nobody could use it and nobody would close it.
BarredTurnsOpenNothing == [][\A s \in opened' \ opened : Turn[s] \notin Barred]_vars

\* A session nobody closed and no deadline ended is in storage, and in memory
\* whenever requests are served: an eviction, or two requests restoring at
\* once, cannot make the owner's next edit a 403 or give its regions away.
OpenSessionSurvives ==
    /\ opened \ ended \subseteq storedSessions
    /\ metadataInitialized => opened \ ended \subseteq editSessions

\* A session whose Start got through its writes is ended some day, even if its
\* owner never comes back, and does not hold its regions for ever.
SessionsEnd == \A s \in Sessions : s \in settled ~> s \in ended

\* A session that a request closed before its deadline does not come back: the
\* documentation says of completing and of aborting that they "close the session".
ClosedSessionsStayClosed ==
    [][\A s \in ended \ aged : s \in editSessions' => s \in editSessions]_vars

\* A Start that is let through, to its checkpoint or straight to its session, asks for
\* no region of another owner's session which nobody closed and no deadline ended,
\* however many evictions, restores and cleanups came between: two such sessions overlap
\* only if one was opened while the other awaited its checkpoint
\* (regionsHeldByOtherSessions is asked at entry only).
AdmittedRegionsFree ==
    [][\A s \in (starting' \ starting) \cup (opened' \ (opened \cup starting)),
          o \in opened \ ended :
          Owner[s] # Owner[o] => Regions[s] \cap Regions[o] = {}]_vars

\* "two sessions cannot claim overlapping regions whoever owns them"
\* (regionsHeldByOtherSessions).
RegionsReserved ==
    \A s, o \in editSessions : Owner[s] # Owner[o] => Regions[s] \cap Regions[o] = {}
=============================================================================
