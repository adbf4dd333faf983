-------------------------- MODULE EditSessionsProofs --------------------------
(***************************************************************************)
(* That an open session survives evictions and concurrent restores, that   *)
(* no Start is let through to regions of an open session, and that a       *)
(* stopped turn neither edits nor opens a session, for any sessions, turns *)
(* and number of requests that restore at once.                            *)
(***************************************************************************)
EXTENDS EditSessions, TLAPS, FiniteSetTheorems, SequenceTheorems, WellFoundedInduction

\* The sessions nobody closed and no deadline ended.
Held == opened \ ended

\* A restore that let go of the input gate still has what memory lacks.
RestoreKeeps(r) ==
    restoring[r].phase = "rollback" => Held \subseteq editSessions \cup restoring[r].live

\* A handler between two writes is one that was served.
StepServed == step.at # "none" => metadataInitialized

IInv ==
    /\ restoring \in [Restorers -> Restoring]
    /\ editSessions \cup storedSessions \subseteq Sessions
    /\ StepServed
    /\ OpenSessionSurvives
    /\ \A r \in Restorers : RestoreKeeps(r)

-----------------------------------------------------------------------------
\* What the handlers' steps come down to for a session.

\* Nothing that concerns the sessions is touched.
Untouched == UNCHANGED <<editSessions, storedSessions, opened, ended, metadataInitialized,
                         restoring>>

\* Some sessions are closed or ended; storage follows memory, now or later.
Ends(these) ==
    /\ metadataInitialized
    /\ editSessions' = editSessions \ these /\ ended' = ended \cup these
    /\ storedSessions' \in {storedSessions, editSessions'}
    /\ UNCHANGED <<opened, metadataInitialized, restoring>>

Opens(s) ==
    /\ metadataInitialized
    /\ editSessions' = editSessions \cup {s} /\ storedSessions' = editSessions'
    /\ opened' = opened \cup {s}
    /\ UNCHANGED <<ended, metadataInitialized, restoring>>

LEMMA UntouchedKeeps == IInv /\ Untouched /\ StepServed' => IInv'
  BY DEF IInv, Untouched, OpenSessionSurvives, RestoreKeeps, Held

LEMMA EndsKeeps == ASSUME IInv, NEW these, Ends(these), StepServed' PROVE IInv'
  BY DEF IInv, Ends, OpenSessionSurvives, RestoreKeeps, Held

LEMMA OpensKeeps == ASSUME IInv, NEW s \in Sessions, Opens(s), StepServed' PROVE IInv'
  <1>1. OpenSessionSurvives'
    BY DEF IInv, Opens, OpenSessionSurvives, Held
  <1>2. \A r \in Restorers : RestoreKeeps(r)'
    BY DEF IInv, Opens, RestoreKeeps, Held
  <1> QED
    BY <1>1, <1>2 DEF IInv, Opens

\* A restore adds the sessions it has left, and lets requests in at its end.
LEMMA RestoreKeepsAll ==
  ASSUME IInv, NEW r \in Restorers, step = NoStep, UNCHANGED <<step, opened>>,
         NEW live \in SUBSET Sessions, NEW due \in SUBSET Sessions, NEW expired \in BOOLEAN,
         RestoreSessions(r, live, due, expired),
         ended \subseteq ended', opened \ ended' \subseteq editSessions \cup live
  PROVE  IInv'
  <1>1. /\ restoring' \in [Restorers -> Restoring]
        /\ \A q \in Restorers \ {r} : restoring'[q] = restoring[q]
        /\ editSessions \subseteq editSessions'
    <2>1. NotRestoring \in Restoring
      BY DEF NotRestoring, Restoring
    <2>2. \A next, passed :
             [phase |-> "rollback", live |-> live \ passed, due |-> due \ {next},
              expired |-> TRUE] \in Restoring
      BY DEF Restoring
    <2>3. \E job \in Restoring : restoring' = [restoring EXCEPT ![r] = job]
      BY <2>1, <2>2 DEF RestoreSessions
    <2>4. editSessions \subseteq editSessions'
      BY DEF RestoreSessions
    <2> QED
      BY <2>3, <2>4 DEF IInv
  <1>2. Held' \subseteq Held
    BY DEF Held
  <1>3. OpenSessionSurvives' /\ RestoreKeeps(r)'
    <2>1. CASE due = {} /\ restoring' = [restoring EXCEPT ![r] = NotRestoring]
               /\ editSessions' = editSessions \cup live
               /\ storedSessions' = IF expired THEN editSessions' ELSE storedSessions
      BY <1>2, <2>1 DEF IInv, OpenSessionSurvives, RestoreKeeps, Held, NotRestoring
    <2>2. CASE \E next \in due, passed \in SUBSET live :
                 /\ editSessions' = editSessions \cup passed
                 /\ restoring' = [restoring EXCEPT ![r] =
                        [phase |-> "rollback", live |-> live \ passed,
                         due |-> due \ {next}, expired |-> TRUE]]
                 /\ UNCHANGED <<storedSessions, metadataInitialized>>
      <3>1. PICK passed \in SUBSET live :
              /\ editSessions' = editSessions \cup passed
              /\ restoring'[r].live = live \ passed
              /\ UNCHANGED <<storedSessions, metadataInitialized>>
        BY <2>2 DEF IInv
      <3> QED
        BY <1>2, <3>1 DEF IInv, OpenSessionSurvives, RestoreKeeps, Held
    <2> QED
      BY <2>1, <2>2 DEF RestoreSessions
  <1>4. \A q \in Restorers \ {r} : RestoreKeeps(q)'
    BY <1>1, <1>2 DEF IInv, RestoreKeeps
  <1>5. StepServed'
    BY DEF StepServed, NoStep, Between
  <1>6. (editSessions \cup storedSessions \subseteq Sessions)'
    BY DEF IInv, RestoreSessions
  <1> QED
    BY <1>1, <1>3, <1>4, <1>5, <1>6 DEF IInv

-----------------------------------------------------------------------------
LEMMA InitInv == Init => IInv
  BY DEF Init, IInv, StepServed, OpenSessionSurvives, RestoreKeeps, Held, Restoring,
         NotRestoring, NoStep, Between

\* The alarm handler's loop only ends sessions.
LEMMA CleanUpEnds ==
  ASSUME IInv, Serving, NEW due, NEW current, NEW cleared,
         CleanUp(due, current, cleared)
  PROVE  IInv'
  <1>1. \E these : Ends(these)
    <2>1. CASE \E next \in due \cap editSessions \cap Checkpointed :
               \E passed \in SUBSET ((due \cap editSessions) \ Checkpointed) :
                 /\ editSessions' = editSessions \ (current \cup passed)
                 /\ ended' = ended \cup current \cup passed
                 /\ storedSessions' = storedSessions
      <3>1. PICK passed : /\ editSessions' = editSessions \ (current \cup passed)
                          /\ ended' = ended \cup (current \cup passed)
                          /\ storedSessions' = storedSessions
        BY <2>1
      <3>2. Ends(current \cup passed)
        BY <3>1 DEF Ends, Serving, CleanUp
      <3> QED
        BY <3>2
    <2>2. CASE /\ editSessions' = editSessions \ (current \cup (due \cap editSessions))
               /\ ended' = ended \cup current \cup (due \cap editSessions)
               /\ storedSessions' \in {storedSessions, editSessions'}
      <3>1. Ends(current \cup (due \cap editSessions))
        BY <2>2 DEF Ends, Serving, CleanUp
      <3> QED
        BY <3>1
    <2> QED
      BY <2>1, <2>2 DEF CleanUp
  <1>2. StepServed'
    BY DEF StepServed, Serving, NoStep, Between, CleanUp
  <1> QED
    BY <1>1, <1>2, EndsKeeps

LEMMA CloseEnds == ASSUME NEW these, Close(these), metadataInitialized,
                          UNCHANGED <<opened, metadataInitialized, restoring>>
                   PROVE  Ends(these)
  BY DEF Close, Ends

LEMMA StartOK == ASSUME IInv, NEW s \in Sessions, Start(s) \/ FinishStart(s) PROVE IInv'
  <1>1. metadataInitialized /\ UNCHANGED <<metadataInitialized, restoring, ended>>
    BY DEF Start, FinishStart, Serving, bars
  <1>2. StepServed'
    BY <1>1 DEF StepServed
  <1>3. CASE Open(s)
    <2>1. Opens(s)
      BY <1>1, <1>3 DEF Opens, Open
    <2> QED
      BY <1>2, <2>1, OpensKeeps
  <1>4. CASE UNCHANGED <<editSessions, storedSessions, opened>>
    <2>1. Untouched
      BY <1>1, <1>4 DEF Untouched
    <2> QED
      BY <1>2, <2>1, UntouchedKeeps
  <1> QED
    BY <1>3, <1>4 DEF Start, FinishStart

\* Requests that close a session, or wait to.
LEMMA ClosingOK ==
  ASSUME IInv,
         NEW s, Abort(s) \/ KickAgent(s) \/ CloseKicked \/ KickAllAgents
                \/ (\E c \in closing : FinishClosing(c))
  PROVE  IInv'
  <1>1. metadataInitialized /\ UNCHANGED <<metadataInitialized, restoring, opened>>
    BY DEF Abort, KickAgent, CloseKicked, KickAllAgents, FinishClosing, Serving, jobs, bars,
           IInv, StepServed
  <1>2. StepServed'
    BY <1>1 DEF StepServed
  <1>3. CASE \E these : Close(these)
    <2>1. PICK these : Close(these)
      BY <1>3
    <2>2. Ends(these)
      BY <1>1, <2>1, CloseEnds
    <2> QED
      BY <1>2, <2>2, EndsKeeps
  <1>4. CASE UNCHANGED reservations
    <2>1. Untouched
      BY <1>1, <1>4 DEF Untouched, reservations
    <2> QED
      BY <1>2, <2>1, UntouchedKeeps
  <1>5. (\E these : Close(these)) \/ UNCHANGED reservations
    BY DEF Abort, KickAgent, CloseKicked, KickAllAgents, FinishClosing
  <1> QED
    BY <1>3, <1>4, <1>5

\* Stops, waits, edits and writes that leave the sessions alone.
LEMMA OtherOK ==
  ASSUME IInv, NEW s, NEW t,
         \/ ArmCleanup \/ Apply(s, t) \/ Complete(s, t) \/ StopTurn(t) \/ StopAgent(s, t)
         \/ BarKicked \/ FireAlarm \/ WriteBeforeCleanup \/ Age(s) \/ UNCHANGED vars
  PROVE  IInv'
  <1>1. Untouched
    BY DEF Untouched, ArmCleanup, Apply, Complete, StopTurn, StopAgent, BarKicked, FireAlarm,
           WriteBeforeCleanup, Age, reservations, jobs, memory, storage, vars
  <1>2. StepServed'
    BY DEF IInv, StepServed, NoStep, Between, Serving, ArmCleanup, Apply, Complete, StopTurn,
           StopAgent, BarKicked, FireAlarm, WriteBeforeCleanup, Age, jobs, memory, vars
  <1> QED
    BY <1>1, <1>2, UntouchedKeeps

LEMMA CrashOK == ASSUME IInv, Crash PROVE IInv'
  <1>1. restoring' \in [Restorers -> Restoring] /\ \A r \in Restorers : RestoreKeeps(r)'
    BY DEF Crash, Restoring, NotRestoring, RestoreKeeps
  <1>2. OpenSessionSurvives' /\ (editSessions \cup storedSessions \subseteq Sessions)'
    BY DEF IInv, Crash, OpenSessionSurvives
  <1>3. StepServed'
    BY DEF Crash, StepServed, NoStep, Between
  <1> QED
    BY <1>1, <1>2, <1>3 DEF IInv

LEMMA BeginRestoreOK == ASSUME IInv, NEW r \in Restorers, BeginRestore(r) PROVE IInv'
  <1>1. /\ restoring' \in [Restorers -> Restoring]
        /\ \A q \in Restorers : restoring'[q].phase = "rollback" =>
                                  restoring'[q] = restoring[q]
    BY DEF IInv, BeginRestore, Restoring
  <1>2. \A q \in Restorers : RestoreKeeps(q)'
    BY <1>1 DEF IInv, BeginRestore, RestoreKeeps, Held, memory
  <1>3. /\ OpenSessionSurvives' /\ StepServed'
        /\ (editSessions \cup storedSessions \subseteq Sessions)'
    BY DEF IInv, BeginRestore, OpenSessionSurvives, StepServed, memory, storage
  <1> QED
    BY <1>1, <1>2, <1>3 DEF IInv

LEMMA RestoreOK ==
  ASSUME IInv, NEW r \in Restorers, ReadStored(r) \/ ContinueRestore(r)
  PROVE  IInv'
  <1>1. CASE ReadStored(r)
    <2> DEFINE live == storedSessions \ aged
               due == storedSessions \cap aged \cap Checkpointed
    <2>1. live \in SUBSET Sessions /\ due \in SUBSET Sessions
      BY DEF IInv
    <2>2. /\ RestoreSessions(r, live, due, storedSessions \cap aged # {})
          /\ ended' = ended \cup ((storedSessions \cap aged) \ editSessions)
          /\ step = NoStep /\ UNCHANGED <<step, opened>>
      BY <1>1 DEF ReadStored
    <2>3. ended \subseteq ended' /\ opened \ ended' \subseteq editSessions \cup live
      BY <2>2 DEF IInv, OpenSessionSurvives
    <2> QED
      BY <2>1, <2>2, <2>3, RestoreKeepsAll
  <1>2. CASE ContinueRestore(r)
    <2>1. restoring[r] \in Restoring
      BY DEF IInv
    <2>2. /\ RestoreSessions(r, restoring[r].live, restoring[r].due, restoring[r].expired)
          /\ step = NoStep /\ UNCHANGED <<step, opened, ended>>
          /\ restoring[r].phase = "rollback"
      BY <1>2 DEF ContinueRestore
    <2>3. opened \ ended' \subseteq editSessions \cup restoring[r].live
      BY <2>2 DEF IInv, RestoreKeeps, Held
    <2> QED
      BY <2>1, <2>2, <2>3, RestoreKeepsAll DEF Restoring
  <1> QED
    BY <1>1, <1>2

LEMMA NextOK == IInv /\ [Next]_vars => IInv'
  <1> SUFFICES ASSUME IInv, [Next]_vars PROVE IInv'
    OBVIOUS
  <1>1. CASE \E s \in Sessions : Start(s) \/ FinishStart(s)
    BY <1>1, StartOK
  <1>2. CASE \/ (\E s \in Sessions : Abort(s) \/ KickAgent(s)) \/ CloseKicked \/ KickAllAgents
             \/ (\E c \in closing : FinishClosing(c))
    BY <1>2, ClosingOK
  <1>3. CASE \/ (\E s \in Sessions : Age(s)) \/ (\E s \in Sessions, t \in Turns : Apply(s, t))
             \/ (\E s \in Sessions, t \in Turns \cup {None} : Complete(s, t) \/ StopAgent(s, t))
             \/ (\E t \in Turns : StopTurn(t))
             \/ ArmCleanup \/ BarKicked \/ FireAlarm \/ WriteBeforeCleanup \/ UNCHANGED vars
    BY <1>3, OtherOK
  <1>4. CASE BeginCleanup \/ ContinueCleanup
    BY <1>4, CleanUpEnds DEF BeginCleanup, ContinueCleanup
  <1>5. CASE \E r \in Restorers : BeginRestore(r) \/ ReadStored(r) \/ ContinueRestore(r)
    BY <1>5, BeginRestoreOK, RestoreOK
  <1>6. CASE Crash
    BY <1>6, CrashOK
  <1> QED
    BY <1>1, <1>2, <1>3, <1>4, <1>5, <1>6 DEF Next

\* A session nobody closed and no deadline ended outlives every eviction, and is
\* in memory whenever requests are served, however many of them restore at once.
THEOREM SessionsOutliveEvictions == Spec => []OpenSessionSurvives
  <1>1. IInv => OpenSessionSurvives
    BY DEF IInv
  <1> QED
    BY InitInv, NextOK, <1>1, PTL DEF Spec

-----------------------------------------------------------------------------
\* Regions.

\* The sessions a step lets through: to their checkpoint, or straight to be opened.
Admitted == (starting' \ starting) \cup (opened' \ (opened \cup starting))

LEMMA OnlyStartAdmits ==
  ASSUME [Next]_vars, NEW s \in Admitted PROVE Start(s)
  <1>1. ASSUME NEW r, Start(r) PROVE Admitted \subseteq {r}
    BY <1>1 DEF Start, Open, Admitted
  <1>2. ASSUME NEW r, FinishStart(r) PROVE Admitted = {}
    BY <1>2 DEF FinishStart, Open, Admitted
  <1>3. CASE starting' = starting /\ opened' = opened
    BY <1>3 DEF Admitted
  <1>4. CASE Crash
    BY <1>4 DEF Crash, Admitted
  <1>5. \/ \E r \in Sessions : Start(r) \/ FinishStart(r)
        \/ starting' = starting /\ opened' = opened
        \/ Crash
    BY DEF Next, Abort, KickAgent, Age, Apply, Complete, StopAgent, StopTurn, FinishClosing,
           KickAllAgents, ArmCleanup, CloseKicked, BarKicked, FireAlarm, WriteBeforeCleanup,
           BeginCleanup, ContinueCleanup, CleanUp, BeginRestore, ReadStored, ContinueRestore,
           RestoreSessions, jobs, memory, vars
  <1> QED
    BY <1>1, <1>2, <1>3, <1>4, <1>5

\* No region of another owner's session that nobody closed and no deadline ended is given
\* away, by a Start that takes a checkpoint or by one that does not, whatever evictions,
\* restores and cleanups came between: what a Start looks at when it is let through is
\* all that is open.  An overlap is left to a session opened during another's wait.
THEOREM RegionsAreNotGivenAway == Spec => AdmittedRegionsFree
  <1>1. ASSUME IInv, [Next]_vars, NEW s \in Admitted, NEW o \in opened \ ended,
               Owner[s] # Owner[o]
        PROVE  Regions[s] \cap Regions[o] = {}
    <2>1. Serving /\ ~RegionsHeld(s)
      BY <1>1, OnlyStartAdmits DEF Start
    <2>2. o \in editSessions
      BY <1>1, <2>1 DEF IInv, OpenSessionSurvives, Serving
    <2> QED
      BY <1>1, <2>1, <2>2 DEF RegionsHeld
  <1>2. IInv /\ [Next]_vars =>
          [\A s \in (starting' \ starting) \cup (opened' \ (opened \cup starting)),
              o \in opened \ ended :
              Owner[s] # Owner[o] => Regions[s] \cap Regions[o] = {}]_vars
    BY <1>1 DEF Admitted
  <1> QED
    BY <1>2, InitInv, NextOK, PTL DEF Spec, AdmittedRegionsFree

-----------------------------------------------------------------------------
\* Sequences of turns: what Map.delete and Map.set leave of the order of the keys.

LEMMA AppendIs ==
  ASSUME NEW q \in Seq(Turns), NEW t \in Turns
  PROVE  /\ Append(q, t) \in Seq(Turns) /\ Len(Append(q, t)) = Len(q) + 1
         /\ \A k \in 1 .. Len(q) : Append(q, t)[k] = q[k]
         /\ Append(q, t)[Len(q) + 1] = t
  OBVIOUS

LEMMA RemoveAtIs ==
  ASSUME NEW q \in Seq(Turns), NEW i \in 1 .. Len(q)
  PROVE  /\ RemoveAt(q, i) \in Seq(Turns) /\ Len(RemoveAt(q, i)) = Len(q) - 1
         /\ \A k \in 1 .. Len(q) - 1 : RemoveAt(q, i)[k] = IF k < i THEN q[k] ELSE q[k + 1]
  <1> DEFINE a == SubSeq(q, 1, i - 1)
             b == SubSeq(q, i + 1, Len(q))
  <1>0. Len(q) \in Nat /\ 1 \in Int /\ i - 1 \in Int /\ i + 1 \in Int /\ Len(q) \in Int
    OBVIOUS
  <1>1. /\ a \in Seq(Turns) /\ Len(a) = i - 1
        /\ \A k \in 1 .. i - 1 : a[k] = q[k]
    BY <1>0, SubSeqProperties
  <1>2. /\ b \in Seq(Turns) /\ Len(b) = Len(q) - i
        /\ \A k \in 1 .. Len(q) - i : b[k] = q[i + k]
    BY <1>0, SubSeqProperties
  <1>3. RemoveAt(q, i) = a \o b
    BY DEF RemoveAt
  <1> HIDE DEF a, b
  <1>4. /\ a \o b \in Seq(Turns) /\ Len(a \o b) = Len(q) - 1
        /\ \A k \in 1 .. Len(q) - 1 :
              (a \o b)[k] = IF k <= Len(a) THEN a[k] ELSE b[k - Len(a)]
    <2>1. a \in Seq(Turns) /\ b \in Seq(Turns)
      BY <1>1, <1>2
    <2>2. /\ a \o b \in Seq(Turns) /\ Len(a \o b) = Len(a) + Len(b)
          /\ \A k \in 1 .. Len(a) + Len(b) :
                (a \o b)[k] = IF k <= Len(a) THEN a[k] ELSE b[k - Len(a)]
      BY <2>1, ConcatProperties, Zenon
    <2>3. Len(a) + Len(b) = Len(q) - 1
      BY <1>0, <1>1, <1>2
    <2> QED
      BY <2>2, <2>3
  <1>5. ASSUME NEW k \in 1 .. Len(q) - 1
        PROVE  (a \o b)[k] = IF k < i THEN q[k] ELSE q[k + 1]
    <2>1. CASE k < i
      BY <1>0, <1>1, <1>4, <2>1
    <2>2. CASE ~ (k < i)
      <3>1. k - Len(a) \in 1 .. Len(q) - i /\ i + (k - Len(a)) = k + 1
        BY <1>0, <1>1, <2>2
      <3> QED
        <4>1. b[k - Len(a)] = q[k + 1]
          BY <1>2, <3>1
        <4>2. (a \o b)[k] = b[k - Len(a)]
          BY <1>0, <1>1, <1>4, <2>2
        <4> QED
          BY <2>2, <4>1, <4>2
    <2> QED
      BY <2>1, <2>2
  <1> QED
    BY <1>3, <1>4, <1>5

LEMMA TailIs ==
  ASSUME NEW q \in Seq(Turns), Len(q) > 0
  PROVE  /\ Tail(q) \in Seq(Turns) /\ Len(Tail(q)) = Len(q) - 1
         /\ \A k \in 1 .. Len(q) - 1 : Tail(q)[k] = q[k + 1]
  OBVIOUS

USE EditAssumption

Distinct(q) == \A i, j \in 1 .. Len(q) : i # j => q[i] # q[j]

\* r is what is left of q without t: the other keys, in their order.
Without(q, t, r) ==
    /\ Len(r) <= Len(q)
    /\ \A i \in 1 .. Len(q) : q[i] # t => Contains(r, q[i])
    /\ \E e \in [1 .. Len(r) -> 1 .. Len(q)] :
         /\ \A k \in 1 .. Len(r) : r[k] = q[e[k]] /\ r[k] # t
         /\ \A j, k \in 1 .. Len(r) : j < k => e[j] < e[k]

LEMMA DeleteTurnIs ==
  ASSUME NEW q \in Seq(Turns), Distinct(q), NEW t \in Turns
  PROVE  DeleteTurn(q, t) \in Seq(Turns) /\ Without(q, t, DeleteTurn(q, t))
  <1>0. Len(q) \in Nat
    OBVIOUS
  <1>1. CASE ~ Contains(q, t)
    <2> DEFINE e == [k \in 1 .. Len(q) |-> k]
    <2>1. DeleteTurn(q, t) = q
      BY <1>1 DEF DeleteTurn
    <2>2. \A k \in 1 .. Len(q) : q[k] = q[e[k]] /\ q[k] # t
      BY <1>1 DEF Contains
    <2>3. \A j, k \in 1 .. Len(q) : j < k => e[j] < e[k]
      OBVIOUS
    <2>4. e \in [1 .. Len(q) -> 1 .. Len(q)]
      OBVIOUS
    <2>5. \A i \in 1 .. Len(q) : q[i] # t => Contains(q, q[i])
      BY DEF Contains
    <2> HIDE DEF e
    <2>6. Len(q) <= Len(q)
      BY <1>0
    <2> QED
      BY <2>1, <2>2, <2>3, <2>4, <2>5, <2>6, Zenon DEF Without
  <1>2. CASE Contains(q, t)
    <2>1. \E i \in DOMAIN q : q[i] = t
      BY <1>2 DEF Contains
    <2> DEFINE at == CHOOSE i \in DOMAIN q : q[i] = t
               r == RemoveAt(q, at)
               e == [k \in 1 .. Len(q) - 1 |-> IF k < at THEN k ELSE k + 1]
    <2>2. at \in 1 .. Len(q) /\ q[at] = t
      BY <2>1
    <2>3. DeleteTurn(q, t) = r
      BY <1>2 DEF DeleteTurn
    <2> HIDE DEF at
    <2>4. /\ r \in Seq(Turns) /\ Len(r) = Len(q) - 1
          /\ \A k \in 1 .. Len(q) - 1 : r[k] = IF k < at THEN q[k] ELSE q[k + 1]
      BY <2>2, RemoveAtIs
    <2> HIDE DEF r
    <2>5. e \in [1 .. Len(r) -> 1 .. Len(q)]
      BY <1>0, <2>2, <2>4
    <2>6. ASSUME NEW k \in 1 .. Len(r) PROVE r[k] = q[e[k]] /\ r[k] # t
      <3>1. e[k] = IF k < at THEN k ELSE k + 1
        BY <2>4
      <3>2. r[k] = q[e[k]] /\ e[k] # at /\ e[k] \in 1 .. Len(q)
        BY <1>0, <2>2, <2>4, <3>1
      <3> HIDE DEF e
      <3> QED
        BY <2>2, <3>2 DEF Distinct
    <2>7. \A j, k \in 1 .. Len(r) : j < k => e[j] < e[k]
      BY <1>0, <2>2, <2>4
    <2>8. ASSUME NEW i \in 1 .. Len(q), q[i] # t PROVE Contains(r, q[i])
      <3>1. i # at
        BY <2>2, <2>8
      <3>2. CASE i < at
        <4>1. i \in 1 .. Len(r) /\ r[i] = q[i]
          BY <1>0, <2>2, <2>4, <3>2
        <4> QED
          BY <4>1 DEF Contains
      <3>3. CASE at < i
        <4>1. i - 1 \in 1 .. Len(r) /\ r[i - 1] = q[i]
          BY <1>0, <2>2, <2>4, <3>3
        <4> QED
          BY <4>1 DEF Contains
      <3> QED
        BY <1>0, <2>2, <3>1, <3>2, <3>3
    <2> HIDE DEF e
    <2>9. \E d \in [1 .. Len(r) -> 1 .. Len(q)] :
            /\ \A k \in 1 .. Len(r) : r[k] = q[d[k]] /\ r[k] # t
            /\ \A j, k \in 1 .. Len(r) : j < k => d[j] < d[k]
      BY <2>5, <2>6, <2>7
    <2>10. Len(r) <= Len(q)
      BY <1>0, <2>2, <2>4
    <2>11. Without(q, t, r)
      BY <2>8, <2>9, <2>10 DEF Without
    <2> QED
      BY <2>3, <2>4, <2>11
  <1> QED
    BY <1>1, <1>2

-----------------------------------------------------------------------------
\* The stops, oldest first, against the history of stops.

\* A turn in line has been stopped before those behind it.
Ordered(q, h) ==
    \A j \in 1 .. Len(q) : h[q[j]] # None /\ \A i \in 1 .. j - 1 : q[j] \in h[q[i]]

\* A stopped turn is in line, or MaxStopped others were stopped after it.
PushedOut(q, h) ==
    \A t \in Turns : h[t] # None =>
        IsFiniteSet(h[t]) /\ (Contains(q, t) \/ Cardinality(h[t]) >= MaxStopped)

Histories == [Turns -> (SUBSET Turns) \cup {None}]

Lined(q, h) ==
    q \in Seq(Turns) /\ h \in Histories /\ Distinct(q) /\ Ordered(q, h) /\ PushedOut(q, h)

LEMMA NoteIs ==
  ASSUME NEW h \in Histories, NEW t \in Turns
  PROVE  /\ Note(h, t) \in Histories
         /\ Note(h, t)[t] = {} /\ {} # None
         /\ \A u \in Turns \ {t} :
              /\ Note(h, t)[u] # None <=> h[u] # None
              /\ h[u] # None => /\ Note(h, t)[u] = h[u] \cup {t}
                                /\ h[u] \in SUBSET Turns
  <1>1. \A x \in SUBSET Turns : x # None
    BY NoneIsNoSet
  <1>2. ASSUME NEW u \in Turns \ {t}, h[u] # None
        PROVE  h[u] \in SUBSET Turns /\ h[u] \cup {t} \in SUBSET Turns
    BY <1>2 DEF Histories
  <1>3. /\ Note(h, t)[t] = {}
        /\ \A u \in Turns \ {t} :
             Note(h, t)[u] = IF h[u] = None THEN None ELSE h[u] \cup {t}
    BY DEF Note
  <1>4. Note(h, t) \in Histories
    <2>1. \A u \in Turns : Note(h, t)[u] \in (SUBSET Turns) \cup {None}
      BY <1>2, <1>3
    <2> QED
      BY <2>1 DEF Note, Histories
  <1> QED
    BY <1>1, <1>2, <1>3, <1>4

LEMMA NoteGrows ==
  ASSUME NEW h \in Histories, NEW t \in Turns, NEW u \in Turns \ {t}, h[u] # None,
         IsFiniteSet(h[u])
  PROVE  /\ IsFiniteSet(Note(h, t)[u])
         /\ Cardinality(h[u]) >= MaxStopped => Cardinality(Note(h, t)[u]) >= MaxStopped
  <1>1. Note(h, t)[u] = h[u] \cup {t}
    BY NoteIs
  <1>2. /\ IsFiniteSet(h[u] \cup {t})
        /\ Cardinality(h[u] \cup {t}) = IF t \in h[u] THEN Cardinality(h[u])
                                        ELSE Cardinality(h[u]) + 1
    BY FS_AddElement
  <1>3. Cardinality(h[u]) \in Nat
    BY FS_CardinalityType
  <1> QED
    BY <1>1, <1>2, <1>3

\* The turn moves to the back.
LEMMA MovedKeeps ==
  ASSUME NEW q, NEW h, Lined(q, h), NEW t \in Turns
  PROVE  \E m \in Seq(Turns) :
           /\ m = Append(DeleteTurn(q, t), t)
           /\ Len(m) >= 1 /\ Len(m) <= Len(q) + 1 /\ Lined(m, Note(h, t))
  <1>1. q \in Seq(Turns) /\ Distinct(q) /\ h \in Histories
    BY DEF Lined
  <1> DEFINE r == DeleteTurn(q, t)
  <1>2. r \in Seq(Turns) /\ Without(q, t, r)
    BY <1>1, DeleteTurnIs
  <1>3. PICK e \in [1 .. Len(r) -> 1 .. Len(q)] :
                /\ \A k \in 1 .. Len(r) : r[k] = q[e[k]] /\ r[k] # t
                /\ \A j, k \in 1 .. Len(r) : j < k => e[j] < e[k]
    BY <1>2 DEF Without
  <1> DEFINE m == Append(r, t)
             g == Note(h, t)
  <1> HIDE DEF r
  <1>4. /\ m \in Seq(Turns) /\ Len(m) = Len(r) + 1 /\ m[Len(r) + 1] = t
        /\ \A k \in 1 .. Len(r) : m[k] = r[k]
    BY <1>2, AppendIs
  <1>5. /\ g \in Histories /\ g[t] = {} /\ {} # None
        /\ \A u \in Turns \ {t} :
              /\ g[u] # None <=> h[u] # None
              /\ h[u] # None => g[u] = h[u] \cup {t}
    BY <1>1, NoteIs
  <1>6. Len(q) \in Nat /\ Len(r) \in Nat
    BY <1>1
  <1> HIDE DEF m, g
  <1>7. ASSUME NEW k \in 1 .. Len(r)
        PROVE  /\ e[k] \in 1 .. Len(q) /\ m[k] = q[e[k]] /\ m[k] \in Turns \ {t}
               /\ h[m[k]] # None /\ g[m[k]] # None /\ t \in g[m[k]]
    <2>1. e[k] \in 1 .. Len(q) /\ m[k] = q[e[k]] /\ m[k] \in Turns \ {t}
      BY <1>1, <1>3, <1>4
    <2>2. h[m[k]] # None
      BY <2>1 DEF Lined, Ordered
    <2> QED
      BY <1>5, <2>1, <2>2
  <1>8. ASSUME NEW j \in 1 .. Len(r), NEW k \in 1 .. Len(r), j < k
        PROVE  m[k] # m[j] /\ m[k] \in g[m[j]]
    <2>1. e[j] < e[k] /\ e[j] \in 1 .. Len(q) /\ e[k] \in 1 .. Len(q)
      BY <1>3, <1>8
    <2>2. e[j] \in 1 .. e[k] - 1 /\ e[j] # e[k]
      BY <1>6, <2>1
    <2>3. q[e[k]] # q[e[j]]
      BY <1>1, <2>1, <2>2 DEF Distinct
    <2>4. q[e[k]] \in h[q[e[j]]]
      BY <2>1, <2>2 DEF Lined, Ordered
    <2> QED
      BY <1>5, <1>7, <2>3, <2>4
  <1>9. Distinct(m)
    <2> SUFFICES ASSUME NEW j \in 1 .. Len(m), NEW k \in 1 .. Len(m), j < k
                 PROVE  m[j] # m[k]
      BY <1>4, <1>6 DEF Distinct
    <2>1. CASE k \in 1 .. Len(r)
      <3>1. j \in 1 .. Len(r)
        BY <1>6, <2>1
      <3> QED
        BY <1>8, <2>1, <3>1
    <2>2. CASE k = Len(r) + 1
      <3>1. j \in 1 .. Len(r)
        BY <1>4, <1>6, <2>2
      <3> QED
        BY <1>4, <1>7, <2>2, <3>1
    <2> QED
      BY <1>4, <1>6, <2>1, <2>2
  <1>10. Ordered(m, g)
    <2> SUFFICES ASSUME NEW k \in 1 .. Len(m)
                 PROVE  g[m[k]] # None /\ \A j \in 1 .. k - 1 : m[k] \in g[m[j]]
      BY DEF Ordered
    <2>1. CASE k \in 1 .. Len(r)
      <3>1. \A j \in 1 .. k - 1 : j \in 1 .. Len(r) /\ j < k
        BY <1>6, <2>1
      <3> QED
        BY <1>7, <1>8, <2>1, <3>1
    <2>2. CASE k = Len(r) + 1
      <3>1. \A j \in 1 .. k - 1 : j \in 1 .. Len(r)
        BY <1>6, <2>2
      <3>2. m[k] = t
        BY <1>4, <2>2
      <3> QED
        BY <1>5, <1>7, <3>1, <3>2
    <2> QED
      BY <1>4, <1>6, <2>1, <2>2
  <1>11. PushedOut(m, g)
    <2> SUFFICES ASSUME NEW u \in Turns, g[u] # None
                 PROVE  IsFiniteSet(g[u]) /\ (Contains(m, u) \/ Cardinality(g[u]) >= MaxStopped)
      BY DEF PushedOut
    <2>1. CASE u = t
      <3>1. Contains(m, t)
        BY <1>4, <1>6 DEF Contains
      <3> QED
        BY <1>5, <2>1, <3>1, FS_EmptySet
    <2>2. CASE u # t
      <3>1. h[u] # None
        BY <1>5, <2>2
      <3>2. IsFiniteSet(h[u]) /\ (Contains(q, u) \/ Cardinality(h[u]) >= MaxStopped)
        BY <3>1 DEF Lined, PushedOut
      <3>3. /\ IsFiniteSet(g[u])
            /\ Cardinality(h[u]) >= MaxStopped => Cardinality(g[u]) >= MaxStopped
        BY <1>1, <2>2, <3>1, <3>2, NoteGrows DEF g
      <3>4. ASSUME Contains(q, u) PROVE Contains(m, u)
        <4>1. Contains(r, u)
          <5>1. PICK i \in 1 .. Len(q) : q[i] = u
            BY <3>4 DEF Contains
          <5>2. Contains(r, q[i])
            BY <1>2, <2>2, <5>1 DEF Without
          <5> QED
            BY <5>1, <5>2
        <4>2. \A k \in 1 .. Len(r) : k \in 1 .. Len(m) /\ m[k] = r[k]
          BY <1>4, <1>6
        <4> QED
          BY <4>1, <4>2 DEF Contains
      <3> QED
        BY <3>2, <3>3, <3>4
    <2> QED
      BY <2>1, <2>2
  <1>12. Len(m) >= 1 /\ Len(m) <= Len(q) + 1
    BY <1>2, <1>4, <1>6 DEF Without
  <1>13. m = Append(DeleteTurn(q, t), t)
    BY DEF m, r
  <1>14. Lined(m, Note(h, t))
    BY <1>4, <1>5, <1>9, <1>10, <1>11 DEF Lined, g
  <1> QED
    BY <1>4, <1>12, <1>13, <1>14
\* Dropping the front of a line one too long pushes that turn out.
LEMMA TailKeeps ==
  ASSUME NEW m, NEW g, Lined(m, g), Len(m) = MaxStopped + 1
  PROVE  Lined(Tail(m), g) /\ Len(Tail(m)) = MaxStopped
  <1>1. m \in Seq(Turns) /\ Distinct(m) /\ g \in Histories /\ Ordered(m, g)
    BY DEF Lined
  <1> DEFINE p == Tail(m)
  <1>2. /\ p \in Seq(Turns) /\ Len(p) = MaxStopped
        /\ \A k \in 1 .. MaxStopped : p[k] = m[k + 1]
    BY <1>1
  <1> HIDE DEF p
  <1>3. Distinct(p)
    <2> SUFFICES ASSUME NEW j \in 1 .. Len(p), NEW k \in 1 .. Len(p), j # k
                 PROVE  p[j] # p[k]
      BY DEF Distinct
    <2>1. j + 1 \in 1 .. Len(m) /\ k + 1 \in 1 .. Len(m) /\ j + 1 # k + 1
      BY <1>2
    <2> QED
      BY <1>1, <1>2, <2>1 DEF Distinct
  <1>4. Ordered(p, g)
    <2> SUFFICES ASSUME NEW k \in 1 .. Len(p)
                 PROVE  g[p[k]] # None /\ \A j \in 1 .. k - 1 : p[k] \in g[p[j]]
      BY DEF Ordered
    <2>1. k + 1 \in 1 .. Len(m) /\ p[k] = m[k + 1]
      BY <1>2
    <2>2. ASSUME NEW j \in 1 .. k - 1 PROVE p[j] = m[j + 1] /\ j + 1 \in 1 .. (k + 1) - 1
      BY <1>2
    <2> QED
      BY <1>1, <2>1, <2>2 DEF Ordered
  <1>5. PushedOut(p, g)
    <2> SUFFICES ASSUME NEW u \in Turns, g[u] # None
                 PROVE  IsFiniteSet(g[u]) /\ (Contains(p, u) \/ Cardinality(g[u]) >= MaxStopped)
      BY DEF PushedOut
    <2>1. IsFiniteSet(g[u]) /\ (Contains(m, u) \/ Cardinality(g[u]) >= MaxStopped)
      BY DEF Lined, PushedOut
    <2>2. CASE Contains(m, u)
      <3>1. PICK i \in 1 .. Len(m) : m[i] = u
        BY <2>2 DEF Contains
      <3>2. CASE i # 1
        <4>1. i - 1 \in 1 .. Len(p) /\ p[i - 1] = u
          BY <1>2, <3>1, <3>2
        <4> QED
          BY <2>1, <4>1 DEF Contains
      <3>3. CASE i = 1
        <4> DEFINE f == [k \in 1 .. MaxStopped |-> p[k]]
        <4>1. ASSUME NEW k \in 1 .. MaxStopped PROVE p[k] \in g[u]
          <5>1. k + 1 \in 1 .. Len(m) /\ 1 \in 1 .. (k + 1) - 1 /\ p[k] = m[k + 1]
            BY <1>2
          <5> QED
            BY <1>1, <3>1, <3>3, <5>1 DEF Ordered
        <4>2. f \in [1 .. MaxStopped -> g[u]]
          BY <4>1
        <4>3. \A j, k \in 1 .. MaxStopped : f[j] = f[k] => j = k
          BY <1>2, <1>3 DEF Distinct
        <4> HIDE DEF f
        <4>4. f \in Injection(1 .. MaxStopped, g[u])
          BY <4>2, <4>3 DEF Injection, IsInjective
        <4>5. Cardinality(1 .. MaxStopped) <= Cardinality(g[u])
          BY <2>1, <4>4, FS_Injection
        <4>6. Cardinality(1 .. MaxStopped) = MaxStopped
          <5>1. 1 \in Int /\ MaxStopped \in Int /\ ~ (1 > MaxStopped)
                /\ MaxStopped - 1 + 1 = MaxStopped
            OBVIOUS
          <5> QED
            BY <5>1, FS_Interval
        <4>7. Cardinality(g[u]) \in Nat
          BY <2>1, FS_CardinalityType
        <4> QED
          BY <2>1, <4>5, <4>6, <4>7
      <3> QED
        BY <3>2, <3>3
    <2> QED
      BY <2>1, <2>2
  <1> QED
    BY <1>1, <1>2, <1>3, <1>4, <1>5 DEF Lined, p

Stops(q, h) == Lined(q, h) /\ Len(q) <= MaxStopped

LEMMA RecordKeeps ==
  ASSUME NEW q, NEW h, Stops(q, h), NEW t \in Turns
  PROVE  Stops(RecordStoppedTurn(q, t), Note(h, t))
  <1>1. PICK m \in Seq(Turns) :
           /\ m = Append(DeleteTurn(q, t), t)
           /\ Len(m) >= 1 /\ Len(m) <= Len(q) + 1 /\ Lined(m, Note(h, t))
    <2>1. Lined(q, h)
      BY DEF Stops
    <2> QED
      BY <2>1, MovedKeeps, Zenon
  <1>2. Len(m) \in Nat /\ Len(q) \in Nat
    BY DEF Stops, Lined
  <1>3. RecordStoppedTurn(q, t) = IF Len(m) > MaxStopped THEN Tail(m) ELSE m
    BY <1>1 DEF RecordStoppedTurn
  <1>4. CASE Len(m) > MaxStopped
    <2>1. Len(m) = MaxStopped + 1
      BY <1>1, <1>2, <1>4 DEF Stops
    <2>2. Lined(Tail(m), Note(h, t)) /\ Len(Tail(m)) = MaxStopped
      BY <1>1, <2>1, TailKeeps
    <2>3. RecordStoppedTurn(q, t) = Tail(m)
      BY <1>3, <1>4
    <2> QED
      BY <2>2, <2>3 DEF Stops
  <1>5. CASE ~ (Len(m) > MaxStopped)
    BY <1>1, <1>2, <1>3, <1>5 DEF Stops
  <1> QED
    BY <1>4, <1>5

-----------------------------------------------------------------------------
\* Induction, and the recursion of Each.

LEMMA Minimal ==
  ASSUME NEW T \in SUBSET Nat, NEW R, \A x, y \in Nat : x < y => <<x, y>> \in R,
         NEW n \in T, \A m \in T : ~ (<<m, n>> \in R)
  PROVE  \A m \in T : n <= m
  <1> SUFFICES ASSUME NEW m \in T, m < n PROVE FALSE
    OBVIOUS
  <1>1. m \in Nat /\ n \in Nat
    OBVIOUS
  <1>2. <<m, n>> \in R
    BY <1>1, Zenon
  <1> QED
    BY <1>2

\* A set of numbers that is not empty has a least element: induction stated of
\* sets, so that it takes no operator.
LEMMA LeastNumber ==
  ASSUME NEW T \in SUBSET Nat, T # {}
  PROVE  \E n \in T : \A m \in T : n <= m
  <1>1. \A x, y \in Nat : x < y => <<x, y>> \in OpToRel(<, Nat)
    BY DEF OpToRel
  <1>2. \E n \in T : \A m \in T : ~ (<<m, n>> \in OpToRel(<, Nat))
    BY NatLessThanWellFounded, WFMin
  <1> QED
    BY <1>1, <1>2, Minimal

LEMMA NaturalInduction ==
  ASSUME NEW S, 0 \in S, \A n \in Nat : n \in S => n + 1 \in S
  PROVE  Nat \subseteq S
  <1> SUFFICES ASSUME Nat \ S # {} PROVE FALSE
    OBVIOUS
  <1>1. PICK n \in Nat \ S : \A m \in Nat \ S : n <= m
    BY LeastNumber
  <1>2. n # 0 /\ n - 1 \in Nat /\ n - 1 \notin Nat \ S
    BY <1>1
  <1> QED
    BY <1>2

\* f runs over the turns from there, and stays in X.
FoldsTo(f, G, from, turns, X) ==
    /\ f[0] = from
    /\ \A i \in 1 .. Len(turns) : f[i] = G[<<f[i - 1], turns[i]>>]
    /\ \A i \in 0 .. Len(turns) : f[i] \in X

\* The recursion of Each has a solution, by induction on how far it goes.
LEMMA EachExists ==
  ASSUME NEW X, NEW T, NEW G \in [X \X T -> X], NEW from \in X, NEW turns \in Seq(T)
  PROVE  \E f : FoldsTo(f, G, from, turns, X)
  <1> DEFINE n == Len(turns)
             Solves(f, m) == /\ f[0] = from
                             /\ \A i \in 1 .. m : f[i] = G[<<f[i - 1], turns[i]>>]
             S == {m \in Nat : m <= n => \E f \in [0 .. m -> X] : Solves(f, m)}
  <1>0. n \in Nat
    OBVIOUS
  <1>1. 0 \in S
    <2> DEFINE f == [i \in 0 .. 0 |-> from]
    <2>1. f \in [0 .. 0 -> X] /\ Solves(f, 0)
      OBVIOUS
    <2> QED
      BY <2>1
  <1>2. ASSUME NEW m \in S PROVE m + 1 \in S
    <2> SUFFICES ASSUME m + 1 <= n PROVE \E f \in [0 .. m + 1 -> X] : Solves(f, m + 1)
      OBVIOUS
    <2>1. PICK f \in [0 .. m -> X] : Solves(f, m)
      BY <1>0
    <2> DEFINE x == G[<<f[m], turns[m + 1]>>]
               g == [i \in 0 .. m + 1 |-> IF i = m + 1 THEN x ELSE f[i]]
    <2>2. x \in X
      <3>1. f[m] \in X /\ turns[m + 1] \in T
        BY <1>0
      <3> QED
        BY <3>1
    <2>3. g \in [0 .. m + 1 -> X] /\ g[0] = from
      BY <2>1, <2>2
    <2>4. ASSUME NEW i \in 1 .. m + 1 PROVE g[i] = G[<<g[i - 1], turns[i]>>]
      <3>1. CASE i = m + 1
        <4>1. g[i] = x /\ g[i - 1] = f[m]
          BY <3>1
        <4> QED
          BY <3>1, <4>1
      <3>2. CASE i \in 1 .. m
        <4>1. g[i] = f[i] /\ g[i - 1] = f[i - 1]
          BY <3>2
        <4> QED
          BY <2>1, <3>2, <4>1
      <3> QED
        BY <3>1, <3>2
    <2> HIDE DEF g
    <2> QED
      BY <2>3, <2>4
  <1> HIDE DEF S
  <1>3. n \in S
    BY <1>0, <1>1, <1>2, NaturalInduction
  <1>4. PICK f \in [0 .. n -> X] : Solves(f, n)
    BY <1>0, <1>3 DEF S
  <1>5. \A i \in 0 .. n : f[i] \in X
    BY <1>0, <1>4
  <1> QED
    BY <1>4, <1>5 DEF FoldsTo

\* Two solutions of one recursion agree.
LEMMA SolutionsAgree ==
  ASSUME NEW n \in Nat, NEW f, NEW g, g[0] = f[0],
         \A i \in 1 .. n : g[i - 1] = f[i - 1] => g[i] = f[i]
  PROVE  g[n] = f[n]
  <1> DEFINE S == {m \in Nat : m <= n => g[m] = f[m]}
  <1>1. 0 \in S
    OBVIOUS
  <1>2. ASSUME NEW m \in S PROVE m + 1 \in S
    <2> SUFFICES ASSUME m + 1 <= n PROVE g[m + 1] = f[m + 1]
      OBVIOUS
    <2>1. m + 1 \in 1 .. n /\ (m + 1) - 1 = m /\ g[m] = f[m]
      OBVIOUS
    <2>2. g[(m + 1) - 1] = f[(m + 1) - 1]
      BY <2>1
    <2> QED
      BY <2>1, <2>2
  <1> HIDE DEF S
  <1>3. n \in S
    BY <1>1, <1>2, NaturalInduction
  <1> QED
    BY <1>3 DEF S

LEMMA EachRecords ==
  ASSUME NEW from, NEW turns \in Seq(Turns), NEW f, f[0] = from,
         \A i \in 1 .. Len(turns) : f[i] = RecordStoppedTurn(f[i - 1], turns[i])
  PROVE  Each(RecordStoppedTurn, from, turns) = f[Len(turns)]
  <1> DEFINE n == Len(turns)
             R(g) == g = [i \in 0 .. n |-> IF i = 0 THEN from
                                           ELSE RecordStoppedTurn(g[i - 1], turns[i])]
             g == CHOOSE g : R(g)
  <1>0. n \in Nat
    OBVIOUS
  <1>1. \E h : R(h)
    <2> DEFINE h == [i \in 0 .. n |-> f[i]]
    <2>1. ASSUME NEW i \in 1 .. n PROVE h[i] = RecordStoppedTurn(h[i - 1], turns[i])
      <3>1. h[i] = f[i] /\ h[i - 1] = f[i - 1]
        BY <1>0
      <3> QED
        BY <3>1
    <2>2. h[0] = from
      BY <1>0
    <2>3. h = [i \in 0 .. n |-> h[i]]
      OBVIOUS
    <2>4. \A i \in 0 .. n : h[i] = IF i = 0 THEN from
                                   ELSE RecordStoppedTurn(h[i - 1], turns[i])
      BY <1>0, <2>1, <2>2
    <2> HIDE DEF h
    <2>5. R(h)
      BY <2>3, <2>4
    <2> QED
      BY <2>5
  <1>2. R(g)
    BY <1>1
  <1>3. Each(RecordStoppedTurn, from, turns) = g[n]
    BY DEF Each
  <1> HIDE DEF g
  <1>4. g[0] = from /\ \A i \in 1 .. n : g[i] = RecordStoppedTurn(g[i - 1], turns[i])
    <2>1. ASSUME NEW i \in 0 .. n
          PROVE  g[i] = IF i = 0 THEN from ELSE RecordStoppedTurn(g[i - 1], turns[i])
      BY <1>2
    <2>2. g[0] = from
      BY <1>0, <2>1
    <2>3. ASSUME NEW i \in 1 .. n PROVE g[i] = RecordStoppedTurn(g[i - 1], turns[i])
      <3>1. i \in 0 .. n /\ i # 0
        BY <1>0
      <3> QED
        BY <2>1, <3>1
    <2> QED
      BY <2>2, <2>3
  <1>5. \A i \in 1 .. n : g[i - 1] = f[i - 1] => g[i] = f[i]
    BY <1>4
  <1>6. g[n] = f[n]
    BY <1>0, <1>4, <1>5, SolutionsAgree
  <1> QED
    BY <1>3, <1>6

LEMMA EachNotes ==
  ASSUME NEW from, NEW turns \in Seq(Turns), NEW f, f[0] = from,
         \A i \in 1 .. Len(turns) : f[i] = Note(f[i - 1], turns[i])
  PROVE  Each(Note, from, turns) = f[Len(turns)]
  <1> DEFINE n == Len(turns)
             R(g) == g = [i \in 0 .. n |-> IF i = 0 THEN from
                                           ELSE Note(g[i - 1], turns[i])]
             g == CHOOSE g : R(g)
  <1>0. n \in Nat
    OBVIOUS
  <1>1. \E h : R(h)
    <2> DEFINE h == [i \in 0 .. n |-> f[i]]
    <2>1. ASSUME NEW i \in 1 .. n PROVE h[i] = Note(h[i - 1], turns[i])
      <3>1. h[i] = f[i] /\ h[i - 1] = f[i - 1]
        BY <1>0
      <3> QED
        BY <3>1
    <2>2. h[0] = from
      BY <1>0
    <2>3. h = [i \in 0 .. n |-> h[i]]
      OBVIOUS
    <2>4. \A i \in 0 .. n : h[i] = IF i = 0 THEN from
                                   ELSE Note(h[i - 1], turns[i])
      BY <1>0, <2>1, <2>2
    <2> HIDE DEF h
    <2>5. R(h)
      BY <2>3, <2>4
    <2> QED
      BY <2>5
  <1>2. R(g)
    BY <1>1
  <1>3. Each(Note, from, turns) = g[n]
    BY DEF Each
  <1> HIDE DEF g
  <1>4. g[0] = from /\ \A i \in 1 .. n : g[i] = Note(g[i - 1], turns[i])
    <2>1. ASSUME NEW i \in 0 .. n
          PROVE  g[i] = IF i = 0 THEN from ELSE Note(g[i - 1], turns[i])
      BY <1>2
    <2>2. g[0] = from
      BY <1>0, <2>1
    <2>3. ASSUME NEW i \in 1 .. n PROVE g[i] = Note(g[i - 1], turns[i])
      <3>1. i \in 0 .. n /\ i # 0
        BY <1>0
      <3> QED
        BY <2>1, <3>1
    <2> QED
      BY <2>2, <2>3
  <1>5. \A i \in 1 .. n : g[i - 1] = f[i - 1] => g[i] = f[i]
    BY <1>4
  <1>6. g[n] = f[n]
    BY <1>0, <1>4, <1>5, SolutionsAgree
  <1> QED
    BY <1>3, <1>6

LEMMA EachSets ==
  ASSUME NEW from, NEW turns \in Seq(Turns), NEW f, f[0] = from,
         \A i \in 1 .. Len(turns) : f[i] = SetTurn(f[i - 1], turns[i])
  PROVE  Each(SetTurn, from, turns) = f[Len(turns)]
  <1> DEFINE n == Len(turns)
             R(g) == g = [i \in 0 .. n |-> IF i = 0 THEN from
                                           ELSE SetTurn(g[i - 1], turns[i])]
             g == CHOOSE g : R(g)
  <1>0. n \in Nat
    OBVIOUS
  <1>1. \E h : R(h)
    <2> DEFINE h == [i \in 0 .. n |-> f[i]]
    <2>1. ASSUME NEW i \in 1 .. n PROVE h[i] = SetTurn(h[i - 1], turns[i])
      <3>1. h[i] = f[i] /\ h[i - 1] = f[i - 1]
        BY <1>0
      <3> QED
        BY <3>1
    <2>2. h[0] = from
      BY <1>0
    <2>3. h = [i \in 0 .. n |-> h[i]]
      OBVIOUS
    <2>4. \A i \in 0 .. n : h[i] = IF i = 0 THEN from
                                   ELSE SetTurn(h[i - 1], turns[i])
      BY <1>0, <2>1, <2>2
    <2> HIDE DEF h
    <2>5. R(h)
      BY <2>3, <2>4
    <2> QED
      BY <2>5
  <1>2. R(g)
    BY <1>1
  <1>3. Each(SetTurn, from, turns) = g[n]
    BY DEF Each
  <1> HIDE DEF g
  <1>4. g[0] = from /\ \A i \in 1 .. n : g[i] = SetTurn(g[i - 1], turns[i])
    <2>1. ASSUME NEW i \in 0 .. n
          PROVE  g[i] = IF i = 0 THEN from ELSE SetTurn(g[i - 1], turns[i])
      BY <1>2
    <2>2. g[0] = from
      BY <1>0, <2>1
    <2>3. ASSUME NEW i \in 1 .. n PROVE g[i] = SetTurn(g[i - 1], turns[i])
      <3>1. i \in 0 .. n /\ i # 0
        BY <1>0
      <3> QED
        BY <2>1, <3>1
    <2> QED
      BY <2>2, <2>3
  <1>5. \A i \in 1 .. n : g[i - 1] = f[i - 1] => g[i] = f[i]
    BY <1>4
  <1>6. g[n] = f[n]
    BY <1>0, <1>4, <1>5, SolutionsAgree
  <1> QED
    BY <1>3, <1>6

\* Recording the stops of any sequence of turns, one after the other.
LEMMA BarsKeep ==
  ASSUME NEW q, NEW h, Stops(q, h), NEW turns \in Seq(Turns)
  PROVE  Stops(Each(RecordStoppedTurn, q, turns), Each(Note, h, turns))
  <1> DEFINE n == Len(turns)
             X == {x \in Seq(Turns) \X Histories : Stops(x[1], x[2])}
             G == [y \in X \X Turns |-> <<RecordStoppedTurn(y[1][1], y[2]), Note(y[1][2], y[2])>>]
  <1>0. n \in Nat /\ \A i \in 1 .. n : turns[i] \in Turns
    OBVIOUS
  <1>1. \A a, b : Stops(a, b) => <<a, b>> \in X
    BY DEF Stops, Lined
  <1>2. G \in [X \X Turns -> X]
    <2> SUFFICES ASSUME NEW y \in X \X Turns
                 PROVE  <<RecordStoppedTurn(y[1][1], y[2]), Note(y[1][2], y[2])>> \in X
      OBVIOUS
    <2>1. Stops(y[1][1], y[1][2]) /\ y[2] \in Turns
      OBVIOUS
    <2> HIDE DEF X
    <2> QED
      BY <1>1, <2>1, RecordKeeps
  <1>3. <<q, h>> \in X
    BY <1>1
  <1>4. \A x \in X, t \in Turns : G[<<x, t>>] = <<RecordStoppedTurn(x[1], t), Note(x[2], t)>>
    OBVIOUS
  <1>5. \A x \in X : Stops(x[1], x[2])
    OBVIOUS
  <1> HIDE DEF X, G
  <1>6. PICK f : FoldsTo(f, G, <<q, h>>, turns, X)
    BY <1>2, <1>3, EachExists
  <1>7. /\ f[0] = <<q, h>>
        /\ \A i \in 1 .. n : f[i] = G[<<f[i - 1], turns[i]>>]
        /\ \A i \in 0 .. n : f[i] \in X
    BY <1>6 DEF FoldsTo
  <1> DEFINE qs == [i \in 0 .. n |-> f[i][1]]
             hs == [i \in 0 .. n |-> f[i][2]]
  <1>8. f[0] = <<q, h>> /\ qs[0] = q /\ hs[0] = h
    BY <1>0, <1>7
  <1>9. ASSUME NEW i \in 1 .. n
        PROVE  /\ qs[i] = RecordStoppedTurn(qs[i - 1], turns[i])
               /\ hs[i] = Note(hs[i - 1], turns[i])
    <2>1. i - 1 \in 0 .. n /\ i \in 0 .. n /\ i # 0
      BY <1>0
    <2>2. f[i] = G[<<f[i - 1], turns[i]>>]
      BY <1>7, <2>1
    <2>3. f[i - 1] \in X
      BY <1>7, <2>1
    <2>4. f[i] = <<RecordStoppedTurn(f[i - 1][1], turns[i]), Note(f[i - 1][2], turns[i])>>
      BY <1>0, <1>4, <2>2, <2>3
    <2>5. /\ qs[i] = f[i][1] /\ qs[i - 1] = f[i - 1][1]
          /\ hs[i] = f[i][2] /\ hs[i - 1] = f[i - 1][2]
      BY <2>1
    <2> QED
      BY <2>4, <2>5
  <1>10. Stops(qs[n], hs[n])
    <2>1. n \in 0 .. n
      BY <1>0
    <2>2. \A i \in 0 .. n : f[i] \in X
      BY <1>6 DEF FoldsTo
    <2>3. f[n] \in X
      BY <2>1, <2>2
    <2>4. qs[n] = f[n][1] /\ hs[n] = f[n][2]
      BY <2>1
    <2> QED
      BY <1>5, <2>3, <2>4
  <1> HIDE DEF qs, hs
  <1>11. Each(RecordStoppedTurn, q, turns) = qs[n]
    BY <1>8, <1>9, EachRecords
  <1>12. Each(Note, h, turns) = hs[n]
    BY <1>8, <1>9, EachNotes
  <1> QED
    BY <1>10, <1>11, <1>12

\* Restoring into a map that holds all the stored stops, or none.
LEMMA RestoredAgain ==
  ASSUME NEW q \in Seq(Turns) PROVE Each(SetTurn, q, q) = q
  <1> DEFINE f == [i \in 0 .. Len(q) |-> q]
  <1>0. Len(q) \in Nat
    OBVIOUS
  <1>1. \A i \in 0 .. Len(q) : f[i] = q
    OBVIOUS
  <1>2. ASSUME NEW i \in 1 .. Len(q) PROVE f[i] = SetTurn(f[i - 1], q[i])
    <2>1. f[i] = q /\ f[i - 1] = q
      BY <1>0, <1>1
    <2>2. Contains(q, q[i])
      BY DEF Contains
    <2> QED
      BY <2>1, <2>2 DEF SetTurn
  <1>3. f[0] = q /\ f[Len(q)] = q
    BY <1>0, <1>1
  <1> HIDE DEF f
  <1> QED
    BY <1>2, <1>3, EachSets

LEMMA RestoredFromNone ==
  ASSUME NEW q \in Seq(Turns), Distinct(q) PROVE Each(SetTurn, <<>>, q) = q
  <1> DEFINE f == [i \in 0 .. Len(q) |-> SubSeq(q, 1, i)]
  <1>0. Len(q) \in Nat
    OBVIOUS
  <1>1. \A i \in 0 .. Len(q) : f[i] = SubSeq(q, 1, i)
    OBVIOUS
  <1>2. \A i \in 0 .. Len(q) :
          /\ SubSeq(q, 1, i) \in Seq(Turns) /\ Len(SubSeq(q, 1, i)) = i
          /\ \A k \in 1 .. i : SubSeq(q, 1, i)[k] = q[k]
    <2> SUFFICES ASSUME NEW i \in 0 .. Len(q)
                 PROVE  /\ SubSeq(q, 1, i) \in Seq(Turns) /\ Len(SubSeq(q, 1, i)) = i
                        /\ \A k \in 1 .. i : SubSeq(q, 1, i)[k] = q[k]
      OBVIOUS
    <2>1. 1 \in Int /\ i \in Int /\ \A k \in 1 .. i : q[k] \in Turns
      BY <1>0
    <2> QED
      BY <2>1, SubSeqProperties
  <1>3. ASSUME NEW i \in 1 .. Len(q) PROVE f[i] = SetTurn(f[i - 1], q[i])
    <2>1. i - 1 \in 0 .. Len(q) /\ i \in 0 .. Len(q) /\ q[i] \in Turns
      BY <1>0
    <2> DEFINE a == SubSeq(q, 1, i - 1)
    <2>2. a \in Seq(Turns) /\ Len(a) = i - 1 /\ \A k \in 1 .. i - 1 : a[k] = q[k]
      BY <1>2, <2>1
    <2>3. ~ Contains(a, q[i])
      <3>1. \A k \in 1 .. i - 1 : k \in 1 .. Len(q) /\ k # i
        BY <1>0
      <3> QED
        BY <2>2, <3>1 DEF Contains, Distinct
    <2>4. Append(a, q[i]) = a \o <<q[i]>>
      BY <2>1, <2>2, AppendIsConcat
    <2>5. SubSeq(q, 1, i) = a \o <<q[i]>>
      <3>1. 1 \in 1 .. Len(q) /\ i \in 1 .. Len(q)
        BY <1>0
      <3> QED
        BY <3>1, SubSeqRecursiveSecond
    <2>6. f[i] = SubSeq(q, 1, i) /\ f[i - 1] = a
      BY <1>1, <2>1
    <2> HIDE DEF f, a
    <2> QED
      BY <2>3, <2>4, <2>5, <2>6 DEF SetTurn
  <1>4. f[0] = <<>> /\ f[Len(q)] = q
    <2>1. SubSeq(q, 1, 0) = <<>>
      BY <1>0, <1>2
    <2>2. SubSeq(q, 1, Len(q)) = q
      BY SubSeqFull
    <2> QED
      BY <1>0, <1>1, <2>1, <2>2
  <1> HIDE DEF f
  <1> QED
    BY <1>3, <1>4, EachSets

-----------------------------------------------------------------------------
\* The invariant that bars stopped turns.

\* The stops in memory are those in storage wherever requests are let in, or a
\* restore has read them: what else memory may hold is nothing.
StopsInv ==
    /\ Stops(storedTurns, since)
    /\ stoppedTurns \in {storedTurns, <<>>}
    /\ metadataInitialized => stoppedTurns = storedTurns
    /\ \A r \in Restorers : restoring[r].phase = "rollback" => stoppedTurns = storedTurns

\* Only so many sessions are about: the turns of the kicked ones can be listed.
FiniteInv ==
    /\ IsFiniteSet(editSessions) /\ IsFiniteSet(storedSessions) /\ IsFiniteSet(step.sessions)
    /\ \A r \in Restorers : IsFiniteSet(restoring[r].live)

EInv == TypeOK /\ StepServed /\ StopsInv /\ FiniteInv

LEMMA GivenType == ASSUME NEW t \in Turns \cup {None} PROVE Given(t) \in Seq(Turns)
  BY DEF Given

LEMMA StopTypes ==
  ASSUME StopsInv
  PROVE  /\ {stoppedTurns, storedTurns} \subseteq Seq(Turns)
         /\ since \in [Turns -> (SUBSET Turns) \cup {None}]
  <1>1. storedTurns \in Seq(Turns) /\ since \in [Turns -> (SUBSET Turns) \cup {None}]
    BY DEF StopsInv, Stops, Lined, Histories
  <1>2. <<>> \in Seq(Turns)
    OBVIOUS
  <1>3. stoppedTurns \in Seq(Turns)
    BY <1>1, <1>2 DEF StopsInv
  <1> QED
    BY <1>1, <1>3

LEMMA BarStops ==
  ASSUME StopsInv, metadataInitialized, NEW turns \in Seq(Turns), Bar(turns),
         UNCHANGED <<metadataInitialized, restoring>>
  PROVE  StopsInv'
  <1>1. Stops(storedTurns, since) /\ stoppedTurns = storedTurns
    BY DEF StopsInv
  <1>2. Stops(Each(RecordStoppedTurn, storedTurns, turns), Each(Note, since, turns))
    BY <1>1, BarsKeep
  <1>3. Stops(stoppedTurns', since')
    BY <1>1, <1>2 DEF Bar
  <1>4. storedTurns' = stoppedTurns'
    <2>1. CASE turns = <<>>
      <3> DEFINE f == [i \in {0} |-> storedTurns]
      <3>1. /\ f[0] = storedTurns
            /\ \A i \in 1 .. Len(turns) : f[i] = RecordStoppedTurn(f[i - 1], turns[i])
        BY <2>1
      <3>2. Each(RecordStoppedTurn, storedTurns, turns) = f[Len(turns)]
        BY <3>1, EachRecords
      <3> QED
        BY <1>1, <2>1, <3>1, <3>2 DEF Bar
    <2>2. CASE turns # <<>>
      BY <2>2 DEF Bar
    <2> QED
      BY <2>1, <2>2
  <1> QED
    BY <1>3, <1>4 DEF StopsInv

\* The turns of finitely many sessions can be listed.
LEMMA TurnsListed ==
  ASSUME NEW these \in SUBSET Sessions, IsFiniteSet(these),
         NEW turns \in SetToSeqs(TurnsOf(these))
  PROVE  turns \in Seq(Turns)
  <1> DEFINE all == {Turn[s] : s \in these}
             f == [s \in these |-> Turn[s]]
  <1>1. f \in Surjection(these, all)
    BY DEF Surjection
  <1>2. IsFiniteSet(all)
    BY <1>1, FS_Surjection
  <1>3. TurnsOf(these) \in SUBSET all /\ TurnsOf(these) \subseteq Turns
    BY DEF TurnsOf
  <1>4. IsFiniteSet(TurnsOf(these))
    BY <1>2, <1>3, FS_Subset
  <1>5. Cardinality(TurnsOf(these)) \in Nat
    BY <1>4, FS_CardinalityType
  <1>6. turns \in [1 .. Cardinality(TurnsOf(these)) -> TurnsOf(these)]
    BY DEF SetToSeqs
  <1> QED
    BY <1>3, <1>5, <1>6

LEMMA SameStops ==
  ASSUME StopsInv, UNCHANGED bars, UNCHANGED metadataInitialized \/ metadataInitialized,
         \A r \in Restorers : restoring'[r].phase = "rollback" =>
                                  metadataInitialized \/ restoring[r].phase = "rollback"
  PROVE  StopsInv'
  BY DEF StopsInv, bars

LEMMA StopsStep == ASSUME EInv, [Next]_vars PROVE StopsInv'
  <1>0. StopsInv /\ StepServed
    BY DEF EInv
  <1>1. ASSUME NEW s \in Sessions, NEW t \in Turns \cup {None},
               StopAgent(s, t) \/ KickAgent(s)
        PROVE  StopsInv'
    <2>1. metadataInitialized /\ UNCHANGED <<metadataInitialized, restoring>>
      BY <1>1 DEF StopAgent, KickAgent, Serving, jobs
    <2>2. /\ Given(t) \in Seq(Turns) /\ Given(Turn[s]) \in Seq(Turns) /\ <<>> \in Seq(Turns)
      BY GivenType
    <2>3. Given(t) \o (IF Turn[s] = t THEN <<>> ELSE Given(Turn[s])) \in Seq(Turns)
      BY <2>2, ConcatProperties
    <2>4. \E turns \in Seq(Turns) : Bar(turns)
      BY <1>1, <2>2, <2>3 DEF StopAgent, KickAgent
    <2> QED
      BY <1>0, <2>1, <2>4, BarStops
  <1>2. CASE BarKicked
    <2>1. metadataInitialized /\ UNCHANGED <<metadataInitialized, restoring>>
      BY <1>0, <1>2 DEF BarKicked, StepServed, jobs
    <2>2. step.sessions \in SUBSET Sessions /\ IsFiniteSet(step.sessions)
      BY DEF EInv, TypeOK, Step, FiniteInv
    <2>3. \E turns \in Seq(Turns) : Bar(turns)
      BY <1>2, <2>2, TurnsListed DEF BarKicked
    <2> QED
      BY <1>0, <2>1, <2>3, BarStops
  <1>3. ASSUME NEW r \in Restorers, ReadStored(r) PROVE StopsInv'
    <2>1. storedTurns \in Seq(Turns) /\ Distinct(storedTurns)
      BY <1>0 DEF StopsInv, Stops, Lined
    <2>2. stoppedTurns' = storedTurns
      BY <1>0, <1>3, <2>1, RestoredAgain, RestoredFromNone DEF ReadStored, StopsInv
    <2> QED
      BY <1>0, <1>3, <2>2 DEF ReadStored, StopsInv
  <1>4. ASSUME NEW r \in Restorers, ContinueRestore(r) PROVE StopsInv'
    <2>1. stoppedTurns = storedTurns
      BY <1>0, <1>4 DEF ContinueRestore, StopsInv
    <2> QED
      BY <1>0, <1>4, <2>1 DEF ContinueRestore, StopsInv, bars
  <1>5. ASSUME NEW r \in Restorers, BeginRestore(r) PROVE StopsInv'
    <2>1. \A q \in Restorers : restoring'[q].phase = "rollback" => restoring[q].phase = "rollback"
      BY <1>5 DEF BeginRestore, EInv, TypeOK, Restoring
    <2> QED
      BY <1>0, <1>5, <2>1 DEF BeginRestore, StopsInv, memory, storage
  <1>6. CASE Crash
    BY <1>0, <1>6 DEF Crash, StopsInv, NotRestoring
  <1>7. CASE UNCHANGED <<bars, metadataInitialized, restoring>>
    BY <1>0, <1>7 DEF StopsInv, bars
  <1>8. CASE \E s \in Sessions : Start(s) \/ FinishStart(s) \/ Abort(s) \/ Age(s)
    <2>1. UNCHANGED <<bars, metadataInitialized, restoring>>
      BY <1>8 DEF Start, FinishStart, Abort, Age, bars, memory, jobs, storage
    <2> QED
      BY <1>7, <2>1
  <1>9. CASE \/ \E s \in Sessions, t \in Turns : Apply(s, t)
             \/ \E s \in Sessions, t \in Turns \cup {None} : Complete(s, t)
             \/ \E c \in closing : FinishClosing(c)
             \/ KickAllAgents \/ ArmCleanup \/ CloseKicked
             \/ FireAlarm \/ WriteBeforeCleanup \/ BeginCleanup \/ ContinueCleanup
             \/ UNCHANGED vars
    <2>1. UNCHANGED <<bars, metadataInitialized, restoring>>
      BY <1>9 DEF Apply, Complete, FinishClosing, KickAllAgents, ArmCleanup, CloseKicked,
             FireAlarm, WriteBeforeCleanup, BeginCleanup, ContinueCleanup, CleanUp, vars,
             bars, memory, jobs, storage
    <2> QED
      BY <1>7, <2>1
  <1>10. CASE \/ \E s \in Sessions : KickAgent(s)
              \/ \E s \in Sessions, t \in Turns \cup {None} : StopAgent(s, t)
    BY <1>1, <1>10
  <1>11. CASE \E t \in Turns : StopTurn(t)
    <2>1. metadataInitialized /\ UNCHANGED <<metadataInitialized, restoring>>
      BY <1>11 DEF StopTurn, Serving, jobs
    <2>2. PICK t \in Turns : Bar(<<t>>)
      BY <1>11 DEF StopTurn
    <2>3. <<t>> \in Seq(Turns)
      OBVIOUS
    <2> QED
      BY <1>0, <2>1, <2>2, <2>3, BarStops
  <1> QED
    BY <1>2, <1>3, <1>4, <1>5, <1>6, <1>8, <1>9, <1>10, <1>11 DEF Next

-----------------------------------------------------------------------------
\* Few enough sessions, at every step.

LEMMA FewerFinite == ASSUME NEW S, IsFiniteSet(S), NEW T, T \subseteq S PROVE IsFiniteSet(T)
  BY FS_Subset

\* F: the sessions a step adds.
LEMMA FiniteKept ==
  ASSUME FiniteInv, NEW F, IsFiniteSet(F),
         editSessions' \subseteq editSessions \cup F,
         storedSessions' \subseteq storedSessions \cup editSessions',
         step'.sessions \subseteq step.sessions \cup editSessions \cup F,
         \A r \in Restorers : restoring'[r].live \subseteq restoring[r].live \cup storedSessions
  PROVE  FiniteInv'
  <1>1. IsFiniteSet(editSessions \cup F)
    BY FS_Union DEF FiniteInv
  <1>2. IsFiniteSet(editSessions')
    BY <1>1, FewerFinite
  <1>3. IsFiniteSet(storedSessions \cup editSessions')
    BY <1>2, FS_Union DEF FiniteInv
  <1>4. IsFiniteSet(storedSessions')
    BY <1>3, FewerFinite
  <1>5. IsFiniteSet(step.sessions \cup (editSessions \cup F))
    BY <1>1, FS_Union DEF FiniteInv
  <1>6. IsFiniteSet(step'.sessions)
    BY <1>5, FewerFinite
  <1>7. ASSUME NEW r \in Restorers PROVE IsFiniteSet(restoring'[r].live)
    <2>1. IsFiniteSet(restoring[r].live \cup storedSessions)
      BY FS_Union DEF FiniteInv
    <2> QED
      BY <2>1, FewerFinite
  <1> QED
    BY <1>2, <1>4, <1>6, <1>7 DEF FiniteInv

LEMMA FiniteRestore ==
  ASSUME FiniteInv, TypeOK, NEW r \in Restorers, UNCHANGED step, NEW live, IsFiniteSet(live),
         live \subseteq restoring[r].live \cup storedSessions,
         NEW due, NEW expired, RestoreSessions(r, live, due, expired)
  PROVE  FiniteInv'
  <1>1. editSessions' \subseteq editSessions \cup live
    BY DEF RestoreSessions
  <1>2. storedSessions' \subseteq storedSessions \cup editSessions'
    BY DEF RestoreSessions
  <1>3. \E job : restoring' = [restoring EXCEPT ![r] = job] /\ job.live \subseteq live
    <2>1. NotRestoring.live = {}
      BY DEF NotRestoring
    <2>2. CASE restoring' = [restoring EXCEPT ![r] = NotRestoring]
      BY <2>1, <2>2
    <2>3. CASE \E next \in due, passed \in SUBSET live :
                 restoring' = [restoring EXCEPT ![r] =
                   [phase |-> "rollback", live |-> live \ passed, due |-> due \ {next},
                    expired |-> TRUE]]
      <3>1. PICK next, passed :
                 restoring' = [restoring EXCEPT ![r] =
                   [phase |-> "rollback", live |-> live \ passed, due |-> due \ {next},
                    expired |-> TRUE]]
        BY <2>3
      <3> DEFINE job == [phase |-> "rollback", live |-> live \ passed, due |-> due \ {next},
                    expired |-> TRUE]
      <3>2. job.live \subseteq live
        OBVIOUS
      <3>3. restoring' = [restoring EXCEPT ![r] = job]
        BY <3>1
      <3> HIDE DEF job
      <3> QED
        BY <3>2, <3>3
    <2> QED
      BY <2>2, <2>3 DEF RestoreSessions
  <1>4. \A q \in Restorers : restoring'[q].live \subseteq restoring[q].live \cup storedSessions
    BY <1>3 DEF TypeOK
  <1> QED
    BY <1>1, <1>2, <1>4, FiniteKept

LEMMA CloseDrops ==
  ASSUME NEW these, Close(these)
  PROVE  editSessions' \subseteq editSessions /\ storedSessions' = editSessions'
  BY DEF Close

LEMMA FiniteStep == ASSUME EInv, [Next]_vars PROVE FiniteInv'
  <1>0. FiniteInv /\ TypeOK
    BY DEF EInv
  <1>1. ASSUME NEW F, IsFiniteSet(F), editSessions' \subseteq editSessions \cup F,
               storedSessions' \in {storedSessions, editSessions'},
               UNCHANGED restoring,
               \/ UNCHANGED step
               \/ step'.sessions \subseteq editSessions \cup F
        PROVE  FiniteInv'
    <2>1. \A r \in Restorers : restoring'[r].live \subseteq restoring[r].live \cup storedSessions
      BY <1>1
    <2>2. storedSessions' \subseteq storedSessions \cup editSessions'
      BY <1>1
    <2>3. step'.sessions \subseteq step.sessions \cup editSessions \cup F
      BY <1>1
    <2> QED
      BY <1>0, <1>1, <2>1, <2>2, <2>3, FiniteKept
  <1>2. IsFiniteSet({}) /\ \A s : IsFiniteSet({s})
    BY FS_EmptySet, FS_Singleton
  <1>3. NoStep.sessions = {} /\ \A at, these : Between(at, these).sessions = these
    BY DEF NoStep, Between
  <1>4. ASSUME NEW s \in Sessions, Start(s) \/ FinishStart(s) \/ Abort(s) \/ KickAgent(s) \/ Age(s)
        PROVE  FiniteInv'
    <2>1. /\ editSessions' \subseteq editSessions \cup {s}
          /\ storedSessions' \in {storedSessions, editSessions'} /\ UNCHANGED restoring
          /\ UNCHANGED step \/ step'.sessions \subseteq editSessions \cup {s}
      <3>1. CASE Start(s) \/ FinishStart(s)
        <4>1. UNCHANGED restoring
          BY <3>1 DEF Start, FinishStart
        <4>2. CASE Open(s)
          BY <1>3, <4>1, <4>2 DEF Open
        <4> QED
          BY <3>1, <4>1, <4>2 DEF Start, FinishStart
      <3>2. CASE Abort(s)
        BY <3>2, CloseDrops DEF Abort, reservations
      <3>3. CASE KickAgent(s)
        BY <1>3, <3>3 DEF KickAgent, reservations, jobs
      <3>4. CASE Age(s)
        BY <3>4 DEF Age, memory, jobs, storage
      <3> QED
        BY <1>4, <3>1, <3>2, <3>3, <3>4
    <2> QED
      BY <1>1, <1>2, <2>1
  <1>5. ASSUME NEW s \in Sessions, NEW t,
               Apply(s, t) \/ Complete(s, t) \/ StopAgent(s, t)
        PROVE  FiniteInv'
    <2>1. /\ editSessions' \subseteq editSessions \cup {s}
          /\ storedSessions' \in {storedSessions, editSessions'} /\ UNCHANGED restoring
          /\ UNCHANGED step \/ step'.sessions \subseteq editSessions \cup {s}
      BY <1>3, <1>5 DEF Apply, Complete, StopAgent, Await, reservations, memory, jobs, storage
    <2> QED
      BY <1>1, <1>2, <2>1
  <1>6. CASE \/ \E t \in Turns : StopTurn(t)
             \/ \E c \in closing : FinishClosing(c)
             \/ KickAllAgents \/ ArmCleanup \/ CloseKicked \/ BarKicked
             \/ FireAlarm \/ WriteBeforeCleanup \/ BeginCleanup \/ ContinueCleanup
             \/ UNCHANGED vars
    <2>1. /\ editSessions' \subseteq editSessions \cup {}
          /\ storedSessions' \in {storedSessions, editSessions'} /\ UNCHANGED restoring
          /\ UNCHANGED step \/ step'.sessions \subseteq editSessions \cup {}
      <3>1. CASE \/ \E t \in Turns : StopTurn(t)
                 \/ BarKicked \/ FireAlarm \/ WriteBeforeCleanup \/ ArmCleanup
        BY <1>3, <3>1 DEF StopTurn, ArmCleanup, BarKicked, FireAlarm, WriteBeforeCleanup,
               reservations, jobs
      <3>3. CASE \E c \in closing : FinishClosing(c)
        <4>1. PICK c : FinishClosing(c)
          BY <3>3
        <4> QED
          BY <4>1, CloseDrops DEF FinishClosing, reservations
      <3>4. CASE KickAllAgents
        <4> DEFINE kicked == {s \in editSessions : Owner[s] \in Agents}
        <4>1. Close(kicked) /\ UNCHANGED restoring
              /\ step' = IF TurnsOf(kicked) = {} THEN NoStep ELSE Between("bar", kicked)
          BY <3>4 DEF KickAllAgents, jobs
        <4>2. step'.sessions \subseteq kicked
          BY <1>3, <4>1
        <4> QED
          BY <4>1, <4>2, CloseDrops
      <3>5. CASE CloseKicked
        BY <1>3, <3>5, CloseDrops DEF CloseKicked, jobs
      <3>6. CASE UNCHANGED vars
        BY <3>6 DEF vars, memory, jobs, storage
      <3>2. CASE BeginCleanup \/ ContinueCleanup
        BY <3>2 DEF BeginCleanup, ContinueCleanup, CleanUp
      <3> QED
        BY <1>6, <3>1, <3>2, <3>3, <3>4, <3>5, <3>6
    <2> QED
      BY <1>1, <1>2, <2>1
  <1>7. ASSUME NEW r \in Restorers, BeginRestore(r) PROVE FiniteInv'
    <2>1. \A q \in Restorers : restoring'[q].live = restoring[q].live
      BY <1>0, <1>7 DEF BeginRestore, TypeOK, Restoring
    <2> QED
      BY <1>0, <1>7, <2>1 DEF BeginRestore, FiniteInv, memory, storage
  <1>8. ASSUME NEW r \in Restorers, ReadStored(r) PROVE FiniteInv'
    <2>1. IsFiniteSet(storedSessions \ aged)
      BY <1>0, FewerFinite DEF FiniteInv
    <2>2. /\ UNCHANGED step
          /\ \E due, expired : RestoreSessions(r, storedSessions \ aged, due, expired)
      BY <1>8 DEF ReadStored
    <2>3. storedSessions \ aged \subseteq restoring[r].live \cup storedSessions
      OBVIOUS
    <2> QED
      BY <1>0, <2>1, <2>2, <2>3, FiniteRestore
  <1>9. ASSUME NEW r \in Restorers, ContinueRestore(r) PROVE FiniteInv'
    <2>1. IsFiniteSet(restoring[r].live)
      BY <1>0 DEF FiniteInv
    <2>2. UNCHANGED step /\ \E due, expired : RestoreSessions(r, restoring[r].live, due, expired)
      BY <1>9 DEF ContinueRestore
    <2> QED
      BY <1>0, <2>1, <2>2, FiniteRestore
  <1>10. CASE Crash
    BY <1>0, <1>2, <1>3, <1>10 DEF Crash, FiniteInv, NotRestoring
  <1> QED
    BY <1>4, <1>5, <1>6, <1>7, <1>8, <1>9, <1>10 DEF Next

-----------------------------------------------------------------------------
\* Types.

\* What is left of TypeOK beside the stops.
Plain ==
    /\ editSessions \in SUBSET Sessions /\ storedSessions \in SUBSET Sessions
    /\ starting \in SUBSET Sessions /\ aged \in SUBSET Sessions /\ opened \in SUBSET Sessions
    /\ settled \in SUBSET Sessions /\ ended \in SUBSET Sessions
    /\ metadataInitialized \in BOOLEAN /\ cleanupAlarmScheduled \in BOOLEAN /\ alarm \in BOOLEAN
    /\ closing \subseteq Closing /\ cleaning \in Cleaning
    /\ restoring \in [Restorers -> Restoring] /\ step \in Step
    /\ edited \subseteq Turns /\ crashes \in 0 .. MaxCrashes

LEMMA TypeIsPlain == TypeOK => Plain
  BY DEF TypeOK, Plain

LEMMA PlainIsType == Plain /\ StopsInv => TypeOK
  BY StopTypes DEF Plain, TypeOK

LEMMA StepTypes ==
  /\ NoStep \in Step /\ NoStep.sessions = {}
  /\ \A at \in {"arm", "close", "bar"}, these \in SUBSET Sessions : Between(at, these) \in Step
  BY DEF NoStep, Between, Step

LEMMA PlainStart == ASSUME Plain, NEW s \in Sessions, Start(s) \/ FinishStart(s) PROVE Plain'
  <1>1. /\ UNCHANGED <<metadataInitialized, closing, cleaning, restoring, aged, ended, edited,
                       crashes>>
        /\ starting' \in SUBSET Sessions
        /\ cleanupAlarmScheduled' \in BOOLEAN /\ alarm' \in BOOLEAN
    BY DEF Plain, Start, FinishStart
  <1>2. CASE Open(s)
    BY <1>1, <1>2, StepTypes DEF Plain, Open
  <1>3. CASE UNCHANGED <<editSessions, storedSessions, opened, step, settled>>
    BY <1>1, <1>3 DEF Plain
  <1> QED
    BY <1>2, <1>3 DEF Start, FinishStart

LEMMA CloseTypes ==
  ASSUME Plain, NEW these \in SUBSET Sessions, Close(these)
  PROVE  /\ editSessions' \in SUBSET Sessions /\ storedSessions' \in SUBSET Sessions
         /\ ended' \in SUBSET Sessions
  BY DEF Plain, Close

LEMMA AwaitTypes ==
  ASSUME Plain, NEW s \in Sessions, NEW by \in {"complete", "abort", "stop"}, Await(s, by)
  PROVE  closing' \subseteq Closing
  BY DEF Plain, Await, Closing

\* Requests that close a session, or wait to, and the stops.
LEMMA PlainClosing ==
  ASSUME Plain, NEW s \in Sessions, NEW t,
         Abort(s) \/ KickAgent(s) \/ Complete(s, t) \/ StopAgent(s, t)
  PROVE  Plain'
  <1>1. CASE Abort(s)
    <2>1. CASE Await(s, "abort") /\ UNCHANGED reservations
      BY <1>1, <2>1, AwaitTypes DEF Plain, Abort, reservations
    <2>2. CASE Close({s}) /\ UNCHANGED closing
      BY <1>1, <2>2, CloseTypes DEF Plain, Abort
    <2> QED
      BY <1>1, <2>1, <2>2 DEF Abort
  <1>2. CASE KickAgent(s)
    <2>1. step' \in Step
      BY <1>2, StepTypes DEF KickAgent
    <2> QED
      BY <1>2, <2>1 DEF Plain, KickAgent, reservations, jobs
  <1>3. CASE Complete(s, t)
    <2>1. closing' \subseteq Closing
      BY <1>3, AwaitTypes DEF Complete
    <2> QED
      BY <1>3, <2>1 DEF Plain, Complete, memory, storage
  <1>4. CASE StopAgent(s, t)
    <2>1. closing' \subseteq Closing /\ step' \in Step
      BY <1>4, AwaitTypes, StepTypes DEF Plain, StopAgent
    <2> QED
      BY <1>4, <2>1 DEF Plain, StopAgent, reservations
  <1> QED
    BY <1>1, <1>2, <1>3, <1>4

LEMMA PlainCleanUp ==
  ASSUME Plain, NEW due, NEW current \in SUBSET Sessions, NEW cleared \in BOOLEAN,
         CleanUp(due, current, cleared)
  PROVE  Plain'
  <1> DEFINE left == due \cap editSessions
  <1>0. left \in SUBSET Sessions
    BY DEF Plain
  <1>1. UNCHANGED <<metadataInitialized, starting, closing, restoring, step, aged, opened,
                    settled, edited, crashes>>
    BY DEF CleanUp
  <1>2. CASE /\ editSessions' = editSessions \ (current \cup left)
             /\ ended' = ended \cup current \cup left
             /\ storedSessions' = IF cleared \/ current \cup left # {} THEN editSessions'
                                  ELSE storedSessions
             /\ cleaning' = NotCleaning
             /\ alarm' = (alarm \/ editSessions' # {})
             /\ cleanupAlarmScheduled' = (cleanupAlarmScheduled \/ editSessions' # {})
    <2>1. NotCleaning \in Cleaning
      BY DEF NotCleaning, Cleaning
    <2>2. alarm' \in BOOLEAN /\ cleanupAlarmScheduled' \in BOOLEAN
      BY <1>2
    <2>3. /\ editSessions' \in SUBSET Sessions /\ storedSessions' \in SUBSET Sessions
          /\ ended' \in SUBSET Sessions /\ cleaning' \in Cleaning
      BY <1>0, <1>2, <2>1 DEF Plain
    <2> HIDE DEF left
    <2> QED
      BY <1>1, <2>2, <2>3 DEF Plain
  <1>3. CASE \E next \in left \cap Checkpointed, passed \in SUBSET (left \ Checkpointed) :
             /\ editSessions' = editSessions \ (current \cup passed)
             /\ ended' = ended \cup current \cup passed
             /\ cleaning' = [phase |-> "rollback", due |-> left \ (passed \cup {next}),
                             current |-> {next}, cleared |-> cleared \/ current \cup passed # {}]
             /\ UNCHANGED <<storedSessions, alarm, cleanupAlarmScheduled>>
    <2>1. PICK next \in left \cap Checkpointed, passed \in SUBSET (left \ Checkpointed) :
             /\ editSessions' = editSessions \ (current \cup passed)
             /\ ended' = ended \cup current \cup passed
             /\ cleaning' = [phase |-> "rollback", due |-> left \ (passed \cup {next}),
                             current |-> {next}, cleared |-> cleared \/ current \cup passed # {}]
             /\ UNCHANGED <<storedSessions, alarm, cleanupAlarmScheduled>>
      BY <1>3
    <2>2. /\ left \ (passed \cup {next}) \in SUBSET Sessions /\ {next} \in SUBSET Sessions
          /\ passed \in SUBSET Sessions
      BY <1>0
    <2>3. (cleared \/ current \cup passed # {}) \in BOOLEAN
      OBVIOUS
    <2>4. cleaning' \in Cleaning
      BY <2>1, <2>2, <2>3 DEF Cleaning
    <2>5. editSessions' \in SUBSET Sessions /\ ended' \in SUBSET Sessions
      BY <2>1, <2>2 DEF Plain
    <2> HIDE DEF left
    <2> QED
      BY <1>1, <2>1, <2>4, <2>5 DEF Plain
  <1> QED
    BY <1>2, <1>3 DEF CleanUp

LEMMA PlainRestore ==
  ASSUME Plain, NEW r \in Restorers, NEW live \in SUBSET Sessions, NEW due \in SUBSET Sessions,
         NEW expired \in BOOLEAN, RestoreSessions(r, live, due, expired),
         ended' \in SUBSET Sessions,
         UNCHANGED <<cleanupAlarmScheduled, starting, closing, cleaning, step, alarm, aged,
                     opened, settled, edited, crashes>>
  PROVE  Plain'
  <1>1. NotRestoring \in Restoring
    BY DEF NotRestoring, Restoring
  <1>2. \A next, passed :
             [phase |-> "rollback", live |-> live \ passed, due |-> due \ {next},
              expired |-> TRUE] \in Restoring
    BY DEF Restoring
  <1>3. \E job \in Restoring : restoring' = [restoring EXCEPT ![r] = job]
    BY <1>1, <1>2 DEF RestoreSessions
  <1>4. restoring' \in [Restorers -> Restoring]
    BY <1>3 DEF Plain
  <1>5. /\ editSessions' \in SUBSET Sessions /\ storedSessions' \in SUBSET Sessions
        /\ metadataInitialized' \in BOOLEAN
    BY DEF RestoreSessions, Plain
  <1> QED
    BY <1>4, <1>5 DEF Plain

LEMMA PlainStep == ASSUME Plain, [Next]_vars PROVE Plain'
  <1>1. CASE \E s \in Sessions : Start(s) \/ FinishStart(s)
    BY <1>1, PlainStart
  <1>2. CASE \/ \E s \in Sessions : Abort(s) \/ KickAgent(s)
             \/ \E s \in Sessions, t \in Turns \cup {None} : Complete(s, t) \/ StopAgent(s, t)
    BY <1>2, PlainClosing
  <1>3. CASE \E s \in Sessions : Age(s)
    BY <1>3 DEF Plain, Age, memory, jobs, storage
  <1>4. CASE \E s \in Sessions, t \in Turns : Apply(s, t)
    BY <1>4 DEF Plain, Apply, memory, jobs, storage
  <1>5. CASE \E t \in Turns : StopTurn(t)
    BY <1>5 DEF Plain, StopTurn, reservations, jobs
  <1>6. CASE \E c \in closing : FinishClosing(c)
    <2>1. PICK c \in closing : FinishClosing(c)
      BY <1>6
    <2>2. {c.session} \in SUBSET Sessions
      BY DEF Plain, Closing
    <2>3. CASE Close({c.session})
      BY <2>1, <2>2, <2>3, CloseTypes DEF Plain, FinishClosing
    <2>4. CASE UNCHANGED reservations
      BY <2>1, <2>4 DEF Plain, FinishClosing, reservations
    <2> QED
      BY <2>1, <2>3, <2>4 DEF FinishClosing
  <1>7. CASE KickAllAgents
    <2> DEFINE kicked == {s \in editSessions : Owner[s] \in Agents}
    <2>1. /\ Close(kicked)
          /\ step' = IF TurnsOf(kicked) = {} THEN NoStep ELSE Between("bar", kicked)
          /\ UNCHANGED <<metadataInitialized, cleanupAlarmScheduled, jobs, alarm, aged, opened,
                         settled, edited, crashes>>
      BY <1>7 DEF KickAllAgents
    <2>2. kicked \in SUBSET Sessions
      BY DEF Plain
    <2> HIDE DEF kicked
    <2>3. step' \in Step
      BY <2>1, <2>2, StepTypes
    <2>4. /\ editSessions' \in SUBSET Sessions /\ storedSessions' \in SUBSET Sessions
          /\ ended' \in SUBSET Sessions
      BY <2>1, <2>2, CloseTypes
    <2> QED
      BY <2>1, <2>3, <2>4 DEF Plain, jobs
  <1>8. CASE ArmCleanup
    <2>1. step' \in Step /\ settled' \in SUBSET Sessions
      BY <1>8, StepTypes DEF ArmCleanup, Plain, Step
    <2> QED
      BY <1>8, <2>1 DEF Plain, ArmCleanup, reservations, jobs
  <1>9. CASE CloseKicked
    <2>1. step.sessions \in SUBSET Sessions /\ step' \in Step
      BY <1>9, StepTypes DEF CloseKicked, Plain, Step
    <2> QED
      BY <1>9, <2>1, CloseTypes DEF Plain, CloseKicked, jobs
  <1>10. CASE BarKicked
    BY <1>10, StepTypes DEF Plain, BarKicked, reservations, jobs
  <1>11. CASE FireAlarm \/ WriteBeforeCleanup
    <2>1. cleaning' \in Cleaning
      BY <1>11 DEF FireAlarm, WriteBeforeCleanup, NotCleaning, Plain, Cleaning
    <2> QED
      BY <1>11, <2>1 DEF Plain, FireAlarm, WriteBeforeCleanup, reservations
  <1>12. CASE BeginCleanup \/ ContinueCleanup
    <2>1. \E due, current \in SUBSET Sessions, cleared \in BOOLEAN : CleanUp(due, current, cleared)
      <3>1. CASE BeginCleanup
        <4>1. /\ CleanUp(editSessions \cap aged, {}, FALSE)
              /\ editSessions \cap aged \in SUBSET Sessions /\ {} \in SUBSET Sessions
          BY <3>1 DEF BeginCleanup, Plain
        <4> QED
          BY <4>1
      <3>2. CASE ContinueCleanup
        <4>1. /\ cleaning.due \in SUBSET Sessions /\ cleaning.current \in SUBSET Sessions
              /\ cleaning.cleared \in BOOLEAN
          BY DEF Plain, Cleaning
        <4>2. CleanUp(cleaning.due, cleaning.current, cleaning.cleared)
          BY <3>2 DEF ContinueCleanup
        <4> QED
          BY <4>1, <4>2
      <3> QED
        BY <1>12, <3>1, <3>2
    <2> QED
      BY <2>1, PlainCleanUp
  <1>13. ASSUME NEW r \in Restorers, BeginRestore(r) PROVE Plain'
    <2>1. restoring' \in [Restorers -> Restoring]
      BY <1>13 DEF Plain, BeginRestore, Restoring
    <2> QED
      BY <1>13, <2>1 DEF Plain, BeginRestore, memory, storage
  <1>14. ASSUME NEW r \in Restorers, ReadStored(r) PROVE Plain'
    <2> DEFINE live == storedSessions \ aged
               due == storedSessions \cap aged \cap Checkpointed
               expired == storedSessions \cap aged # {}
    <2>1. live \in SUBSET Sessions /\ due \in SUBSET Sessions /\ expired \in BOOLEAN
      BY DEF Plain
    <2>2. RestoreSessions(r, live, due, expired) /\ ended' \in SUBSET Sessions
      BY <1>14 DEF ReadStored, Plain
    <2>3. UNCHANGED <<cleanupAlarmScheduled, starting, closing, cleaning, step, alarm, aged,
                      opened, settled, edited, crashes>>
      BY <1>14 DEF ReadStored
    <2> HIDE DEF live, due, expired
    <2> QED
      BY <2>1, <2>2, <2>3, PlainRestore
  <1>15. ASSUME NEW r \in Restorers, ContinueRestore(r) PROVE Plain'
    <2>1. restoring[r] \in Restoring
      BY DEF Plain
    <2>2. /\ restoring[r].live \in SUBSET Sessions /\ restoring[r].due \in SUBSET Sessions
          /\ restoring[r].expired \in BOOLEAN
      BY <2>1 DEF Restoring
    <2>3. /\ RestoreSessions(r, restoring[r].live, restoring[r].due, restoring[r].expired)
          /\ ended' \in SUBSET Sessions
          /\ UNCHANGED <<cleanupAlarmScheduled, starting, closing, cleaning, step, alarm, aged,
                         opened, settled, edited, crashes>>
      BY <1>15 DEF ContinueRestore, Plain
    <2> QED
      BY <2>2, <2>3, PlainRestore
  <1>16. CASE Crash
    <2>1. /\ restoring' \in [Restorers -> Restoring] /\ cleaning' \in Cleaning /\ step' \in Step
          /\ alarm' \in BOOLEAN
      BY <1>16, StepTypes DEF Crash, NotRestoring, Restoring, NotCleaning, Cleaning
    <2>2. crashes' \in 0 .. MaxCrashes
      BY <1>16 DEF Crash, Plain
    <2> QED
      BY <1>16, <2>1, <2>2 DEF Plain, Crash
  <1>17. CASE UNCHANGED vars
    BY <1>17 DEF Plain, vars, memory, jobs, storage
  <1> QED
    BY <1>1, <1>2, <1>3, <1>4, <1>5, <1>6, <1>7, <1>8, <1>9, <1>10, <1>11, <1>12, <1>13, <1>14,
       <1>15, <1>16, <1>17 DEF Next

-----------------------------------------------------------------------------
\* The three theorems.

LEMMA ServedStep == ASSUME StepServed, [Next]_vars PROVE StepServed'
  <1>1. NoStep.at = "none"
    BY DEF NoStep, Between
  <1>2. CASE metadataInitialized /\ UNCHANGED metadataInitialized
    BY <1>2 DEF StepServed
  <1>3. CASE step' = NoStep
    BY <1>1, <1>3 DEF StepServed
  <1>4. CASE UNCHANGED <<step, metadataInitialized>>
    BY <1>4 DEF StepServed
  <1>5. ASSUME NEW s \in Sessions, NEW t,
               \/ Start(s) \/ FinishStart(s) \/ Abort(s) \/ KickAgent(s) \/ Age(s) \/ Apply(s, t)
               \/ Complete(s, t) \/ StopAgent(s, t)
        PROVE  StepServed'
    <2>1. \/ metadataInitialized /\ UNCHANGED metadataInitialized
          \/ UNCHANGED <<step, metadataInitialized>>
      BY <1>5 DEF Start, FinishStart, Abort, KickAgent, Age, Apply, Complete, StopAgent, Serving,
             memory
    <2> QED
      BY <1>2, <1>4, <2>1
  <1>6. CASE \/ \E t \in Turns : StopTurn(t)
             \/ \E c \in closing : FinishClosing(c)
             \/ KickAllAgents \/ ArmCleanup \/ CloseKicked \/ BarKicked
             \/ FireAlarm \/ WriteBeforeCleanup \/ BeginCleanup \/ ContinueCleanup
             \/ \E r \in Restorers : BeginRestore(r) \/ ReadStored(r) \/ ContinueRestore(r)
             \/ Crash \/ UNCHANGED vars
    <2>1. \/ metadataInitialized /\ UNCHANGED metadataInitialized
          \/ step' = NoStep
          \/ UNCHANGED <<step, metadataInitialized>>
      BY <1>6 DEF StopTurn, FinishClosing, KickAllAgents, ArmCleanup, CloseKicked, BarKicked,
             FireAlarm, WriteBeforeCleanup, BeginCleanup, ContinueCleanup, CleanUp, BeginRestore,
             ReadStored, ContinueRestore, Crash, Serving, memory, vars
    <2> QED
      BY <1>2, <1>3, <1>4, <2>1
  <1> QED
    BY <1>5, <1>6 DEF Next

LEMMA InitEInv == Init => EInv
  <1> SUFFICES ASSUME Init PROVE EInv
    OBVIOUS
  <1>1. IsFiniteSet({}) /\ \A x : x \notin {}
    BY FS_EmptySet
  <1>2. Stops(<<>>, since)
    <2>1. <<>> \in Seq(Turns) /\ Len(<<>>) = 0 /\ Len(<<>>) <= MaxStopped
      OBVIOUS
    <2>2. since \in Histories /\ \A t \in Turns : since[t] = None
      BY DEF Init, Histories
    <2>3. Distinct(<<>>) /\ Ordered(<<>>, since) /\ PushedOut(<<>>, since)
      BY <2>1, <2>2 DEF Distinct, Ordered, PushedOut
    <2> QED
      BY <2>1, <2>2, <2>3 DEF Stops, Lined
  <1>3. StopsInv
    BY <1>2 DEF Init, StopsInv, NotRestoring
  <1>4. FiniteInv
    BY <1>1 DEF Init, FiniteInv, NotRestoring, NoStep, Between
  <1>5. StepServed
    BY DEF Init, StepServed, NoStep, Between
  <1>6. Plain
    <2>1. /\ restoring \in [Restorers -> Restoring] /\ cleaning \in Cleaning /\ step \in Step
          /\ crashes \in 0 .. MaxCrashes
      BY StepTypes DEF Init, NotRestoring, Restoring, NotCleaning, Cleaning
    <2> QED
      BY <2>1 DEF Init, Plain
  <1> QED
    BY <1>3, <1>4, <1>5, <1>6, PlainIsType DEF EInv

LEMMA EInvStep == EInv /\ [Next]_vars => EInv'
  <1> SUFFICES ASSUME EInv, [Next]_vars PROVE EInv'
    OBVIOUS
  <1>1. Plain'
    BY TypeIsPlain, PlainStep DEF EInv
  <1>2. StopsInv' /\ FiniteInv'
    BY StopsStep, FiniteStep
  <1>3. StepServed'
    BY ServedStep DEF EInv
  <1>4. TypeOK'
    BY <1>1, <1>2, PlainIsType, PTL
  <1> QED
    BY <1>2, <1>3, <1>4 DEF EInv

\* Every variable keeps its type, whatever is asked of the object and in
\* whatever order: no missing turn id is ever recorded as a stop, in memory or
\* in storage.
THEOREM EditTypeOK == Spec => []TypeOK
  <1>1. EInv => TypeOK
    BY DEF EInv
  <1> QED
    BY InitEInv, EInvStep, <1>1, PTL DEF Spec

\* A barred turn is stopped for whoever asks.
LEMMA BarredIsStopped ==
  ASSUME EInv, metadataInitialized, NEW t \in Barred
  PROVE  IsTurnStopped(t)
  <1>1. t \in Turns /\ since[t] # None /\ Cardinality(since[t]) < MaxStopped
    BY DEF Barred
  <1>2. PushedOut(storedTurns, since) /\ stoppedTurns = storedTurns
    BY DEF EInv, StopsInv, Stops, Lined
  <1>3. IsFiniteSet(since[t])
    BY <1>1, <1>2 DEF PushedOut
  <1>4. Cardinality(since[t]) \in Nat
    BY <1>3, FS_CardinalityType
  <1>5. Contains(storedTurns, t)
    BY <1>1, <1>2, <1>4 DEF PushedOut
  <1> QED
    BY <1>2, <1>5 DEF IsTurnStopped

LEMMA EditsAreNotBarred ==
  ASSUME EInv, [Next]_vars PROVE [\A t \in Barred : t \in edited' => t \in edited]_vars
  <1> SUFFICES ASSUME NEW u \in Barred, u \in edited' PROVE u \in edited
    OBVIOUS
  <1>1. CASE \E s \in Sessions, t \in Turns : Apply(s, t)
    <2>1. PICK s \in Sessions, t \in Turns : Apply(s, t)
      BY <1>1
    <2>2. u # t
      BY <2>1, BarredIsStopped DEF Apply, Serving
    <2> QED
      BY <2>1, <2>2 DEF Apply
  <1>2. CASE \/ \E s \in Sessions : Start(s) \/ FinishStart(s) \/ Abort(s) \/ KickAgent(s) \/ Age(s)
             \/ \E s \in Sessions, t \in Turns \cup {None} : Complete(s, t) \/ StopAgent(s, t)
    BY <1>2 DEF Start, FinishStart, Abort, KickAgent, Age, Complete, StopAgent
  <1>3. CASE \/ \E t \in Turns : StopTurn(t)
             \/ \E c \in closing : FinishClosing(c)
             \/ KickAllAgents \/ ArmCleanup \/ CloseKicked \/ BarKicked
             \/ FireAlarm \/ WriteBeforeCleanup \/ BeginCleanup \/ ContinueCleanup
             \/ \E r \in Restorers : BeginRestore(r) \/ ReadStored(r) \/ ContinueRestore(r)
             \/ Crash \/ UNCHANGED vars
    BY <1>3 DEF StopTurn, FinishClosing, KickAllAgents, ArmCleanup, CloseKicked, BarKicked,
           FireAlarm, WriteBeforeCleanup, BeginCleanup, ContinueCleanup, CleanUp, BeginRestore,
           ReadStored, ContinueRestore, Crash, vars
  <1> QED
    BY <1>1, <1>2, <1>3 DEF Next

LEMMA OpenedAreNotBarred ==
  ASSUME EInv, [Next]_vars PROVE [\A s \in opened' \ opened : Turn[s] \notin Barred]_vars
  <1> SUFFICES ASSUME NEW o \in opened' \ opened, Turn[o] \in Barred PROVE FALSE
    OBVIOUS
  <1>1. CASE \E s \in Sessions : Start(s) \/ FinishStart(s)
    <2>1. PICK s \in Sessions : Start(s) \/ FinishStart(s)
      BY <1>1
    <2>2. metadataInitialized
      BY <2>1 DEF Start, FinishStart, Serving
    <2>3. Open(s) /\ ~IsTurnStopped(Turn[s])
      BY <2>1 DEF Start, FinishStart
    <2>4. o = s
      BY <2>3 DEF Open
    <2> QED
      BY <2>2, <2>3, <2>4, BarredIsStopped
  <1>2. CASE \/ \E s \in Sessions : Abort(s) \/ KickAgent(s) \/ Age(s)
             \/ \E s \in Sessions, t \in Turns : Apply(s, t)
             \/ \E s \in Sessions, t \in Turns \cup {None} : Complete(s, t) \/ StopAgent(s, t)
    BY <1>2 DEF Abort, KickAgent, Age, Apply, Complete, StopAgent
  <1>3. CASE \/ \E t \in Turns : StopTurn(t)
             \/ \E c \in closing : FinishClosing(c)
             \/ KickAllAgents \/ ArmCleanup \/ CloseKicked \/ BarKicked
             \/ FireAlarm \/ WriteBeforeCleanup \/ BeginCleanup \/ ContinueCleanup
             \/ \E r \in Restorers : BeginRestore(r) \/ ReadStored(r) \/ ContinueRestore(r)
             \/ Crash \/ UNCHANGED vars
    BY <1>3 DEF StopTurn, FinishClosing, KickAllAgents, ArmCleanup, CloseKicked, BarKicked,
           FireAlarm, WriteBeforeCleanup, BeginCleanup, ContinueCleanup, CleanUp, BeginRestore,
           ReadStored, ContinueRestore, Crash, vars
  <1> QED
    BY <1>1, <1>2, <1>3 DEF Next

\* A turn whose stop has not been pushed out by MAX_STOPPED_TURNS later ones
\* never edits again, whatever sessions it holds and however often the object is
\* evicted and restored.
THEOREM StoppedTurnsDoNotEdit == Spec => BarredTurnsDoNotEdit
  BY InitEInv, EInvStep, EditsAreNotBarred, PTL DEF Spec, BarredTurnsDoNotEdit

\* Nor is a session opened for it, also where the stop came while its Start
\* awaited the checkpoint.
THEOREM StoppedTurnsOpenNothing == Spec => BarredTurnsOpenNothing
  BY InitEInv, EInvStep, OpenedAreNotBarred, PTL DEF Spec, BarredTurnsOpenNothing
=============================================================================
