---------------------- MODULE BrokerTransactionProofs ----------------------
(***************************************************************************)
(* Type correctness of BrokerTransaction, the agreement of memory and      *)
(* storage, the windows for which answers hold, and that the first         *)
(* approval binds, for all values of the constants.                        *)
(***************************************************************************)
EXTENDS BrokerTransaction, TLAPS

\* The alarm armed at creation, while no redeem has replaced it; a claim finds
\* the slot empty.
CreationAlarm == alarm = None \/ (kind = "transaction" /\ alarm = stored.expiresAt)

\* Why an answer holds: until its promise ends, either setAlarm is still to be
\* called and nothing was answered; or the alarm slot holds exactly the end of
\* the window; or, after an eviction before that setAlarm, the slot holds
\* nothing or the creation's alarm, and no more was promised than it leaves.
BeingArmed == Held /\ arming = window /\ keptUntil = None /\ CreationAlarm
Armed == Held /\ arming = None /\ alarm = window /\ keptUntil # None
             /\ keptUntil <= window
Unarmed ==
    /\ Held /\ arming = None /\ CreationAlarm
    /\ keptUntil # None /\ alarm # None => keptUntil <= alarm
Deleted == stored = NoTx /\ ~storedClaim /\ arming = None /\ alarm = None
               /\ keptUntil <= now

Window ==
    /\ window = None =>
           /\ keptUntil = None /\ CreationAlarm
           /\ arming = None \/ (kind = "transaction" /\ arming = stored.expiresAt)
    /\ window # None => BeingArmed \/ Armed \/ Unarmed \/ Deleted

Idle == ~initialized => arming = None /\ tx = NoTx /\ claim = FALSE

\* An object holds a transaction or a claim, as its name says, or nothing.
OneKind ==
    /\ kind # "transaction" => stored = NoTx
    /\ kind # "nonce" => storedClaim = FALSE
    /\ kind = "unused" => window = None
    /\ kind = "nonce" => window # None

IInv == TypeOK /\ MemoryIsDurable /\ Idle /\ OneKind /\ Window

USE DEF None, NoTx, Transaction, vars, observers

LEMMA InitIInv == Init => IInv
  <1> SUFFICES ASSUME Init PROVE IInv
    OBVIOUS
  <1>1. TypeOK
    <2>1. now \in 0 .. MaxNow /\ alarm \in Nat \cup {None}
      BY BrokerAssumption DEF Init
    <2>2. tx \in {NoTx} /\ stored \in {NoTx} /\ initialized \in BOOLEAN
      BY Zenon DEF Init
    <2>3. arming \in Nat \cup {None} /\ window \in Nat \cup {None} /\ keptUntil \in Nat \cup {None}
      BY DEF Init
    <2>4. claim \in BOOLEAN /\ storedClaim \in BOOLEAN
      BY Zenon DEF Init
    <2>5. kind \in {"unused", "transaction", "nonce"}
      BY DEF Init
    <2> QED
      BY <2>1, <2>2, <2>3, <2>4, <2>5 DEF TypeOK
  <1>2. MemoryIsDurable /\ Idle
    BY DEF Init, MemoryIsDurable, Idle
  <1>3. OneKind /\ Window
    BY DEF Init, OneKind, Window, CreationAlarm
  <1> QED
    BY <1>1, <1>2, <1>3 DEF IInv

LEMMA StepIInv == IInv /\ [Next]_vars => IInv'
  <1> SUFFICES ASSUME IInv, [Next]_vars PROVE IInv'
    OBVIOUS
  <1> USE BrokerAssumption DEF IInv, TypeOK, MemoryIsDurable, Idle, OneKind, Window, CreationAlarm,
                               BeingArmed, Armed, Unarmed, Deleted, Held
  <1>1. CASE Create
    BY <1>1 DEF Create, Request, Put, LoadClaim, LoadedClaim, TimeLeft
  <1>2. ASSUME NEW u \in Users, Approve(u) PROVE IInv'
    BY <1>2 DEF Approve, Request, Put, LoadClaim, Loaded, LoadedClaim, Expired
  <1>3. CASE Redeem
    BY <1>3 DEF Redeem, Opens, Request, Put, LoadClaim, Loaded, LoadedClaim, Expired
  <1>4. CASE ReadOnly
    BY <1>4 DEF ReadOnly, Request, LoadTx, LoadClaim, Loaded, LoadedClaim
  <1>5. CASE RepeatRedeem
    BY <1>5 DEF RepeatRedeem, Answers, Request, LoadTx, LoadClaim, Loaded, LoadedClaim
  <1>6. CASE RepeatClaim
    BY <1>6 DEF RepeatClaim, Answers, Request, LoadTx, LoadClaim, Loaded, LoadedClaim
  <1>7. CASE SetAlarm
    BY <1>7 DEF SetAlarm, Answers
  <1>8. CASE Alarm
    <2>1. /\ stored' = NoTx /\ tx' = NoTx /\ claim' = FALSE /\ storedClaim' = FALSE
          /\ arming = None /\ arming' = None /\ alarm' = None /\ alarm \in Nat /\ alarm <= now
          /\ initialized' = TRUE /\ UNCHANGED <<now, kind, window, keptUntil>>
      BY <1>8 DEF Alarm, Request, Put, PutClaim
    <2>2. window # None => keptUntil <= now
      BY <2>1
    <2>3. Window'
      BY <2>1, <2>2
    <2>4. TypeOK'
      BY <2>1
    <2> QED
      BY <2>1, <2>3, <2>4
  <1>9. CASE Evict
    BY <1>9 DEF Evict
  <1>10. CASE Tick
    BY <1>10 DEF Tick
  <1>11. CASE Claim
    BY <1>11 DEF Claim, Opens, Request, PutClaim, LoadTx, Loaded, LoadedClaim
  <1>12. CASE UNCHANGED vars
    BY <1>12
  <1> QED
    BY <1>1, <1>2, <1>3, <1>4, <1>5, <1>6, <1>7, <1>8, <1>9, <1>10, <1>11, <1>12 DEF Next

LEMMA InvariantIInv == Spec => []IInv
  BY InitIInv, StepIInv, PTL DEF Spec

\* Type correctness of the login transaction object.
THEOREM TypeCorrect == Spec => []TypeOK
  <1>1. IInv => TypeOK
    BY DEF IInv
  <1> QED
    BY <1>1, InvariantIInv, PTL

\* An eviction between any two requests loses nothing a handler answered.
THEOREM Durable == Spec => []MemoryIsDurable
  <1>1. IInv => MemoryIsDurable
    BY DEF IInv
  <1> QED
    BY <1>1, InvariantIInv, PTL

\* Whichever call was answered, the redeem, the claim or a repetition of it,
\* and wherever an eviction fell before: what was answered holds for the whole
\* of RetryTTL or ClaimTTL, except that a redeem whose own setAlarm never ran
\* is promised no more than the alarm of its creation leaves.
THEOREM RetryIsSafe == Spec => []RetryWindow
  <1>1. IInv => RetryWindow
    BY DEF IInv, TypeOK, Window, BeingArmed, Armed, Unarmed, Deleted, CreationAlarm,
              Held, RetryWindow
  <1> QED
    BY <1>1, InvariantIInv, PTL

\* No step takes the transaction back or changes whom it is bound to.
LEMMA StepBinds ==
    IInv /\ [Next]_vars =>
        [/\ kind = "transaction" => Rank(stored) <= Rank(stored')
         /\ Rank(stored) \in {2, 3} /\ stored' # NoTx => stored'.user = stored.user]_vars
  <1> SUFFICES ASSUME IInv, Next
               PROVE  /\ kind = "transaction" => Rank(stored) <= Rank(stored')
                      /\ Rank(stored) \in {2, 3} /\ stored' # NoTx => stored'.user = stored.user
    OBVIOUS
  <1>1. \/ stored' = stored
        \/ stored' = NoTx
        \/ kind = "unused" /\ stored = NoTx
        \/ /\ stored.status = "pending" /\ stored'.status = "approved"
        \/ /\ stored.status = "approved" /\ stored' = [stored EXCEPT !.status = "redeemed"]
    <2> USE DEF IInv, MemoryIsDurable, OneKind
    <2>1. CASE Create
      BY <2>1 DEF Create
    <2>2. ASSUME NEW u \in Users, Approve(u)
          PROVE  stored.status = "pending" /\ stored'.status = "approved"
      BY <2>2 DEF Approve, Put, Loaded
    <2>3. CASE Redeem
      BY <2>3 DEF Redeem, Put, Loaded
    <2>4. CASE RepeatRedeem \/ Claim \/ RepeatClaim \/ ReadOnly
      BY <2>4 DEF RepeatRedeem, Claim, RepeatClaim, ReadOnly, LoadTx
    <2>5. CASE SetAlarm \/ Alarm \/ Evict \/ Tick
      BY <2>5 DEF SetAlarm, Alarm, Put, Evict, Tick
    <2> QED
      BY <2>1, <2>2, <2>3, <2>4, <2>5 DEF Next
  <1>2. stored \in Transaction \cup {NoTx}
    BY DEF IInv, TypeOK
  <1> QED
    BY <1>1, <1>2 DEF Rank

\* Whoever else approves, and wherever an eviction falls, the identity bound by
\* the first approval stays, and the transaction never goes back.
THEOREM FirstApprovalIsKept == Spec => FirstApprovalBinds
  BY InvariantIInv, StepBinds, PTL DEF Spec, FirstApprovalBinds

=============================================================================
