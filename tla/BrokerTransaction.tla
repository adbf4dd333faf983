-------------------------- MODULE BrokerTransaction --------------------------
(***************************************************************************)
(* One BrokerTransaction Durable Object: the login transaction a panel     *)
(* created, a user approves after Auth0, and the panel redeems for a JWT;  *)
(* or the nonce of one signed logout state, which is claimed once.  An id  *)
(* is a fresh UUID or a fresh nonce, so an object is one or the other.     *)
(* It keeps what it holds in memory and in durable storage, and owns the   *)
(* one alarm slot the runtime gives it.                                    *)
(*                                                                         *)
(* A handler that writes storage and then calls setAlarm awaits between    *)
(* the two: the runtime lets no other event in (the input gate), but the   *)
(* process may die there.  Such a handler takes two steps here; Evict may  *)
(* fall between them.  Time advances in seconds.                           *)
(***************************************************************************)
EXTENDS Integers

CONSTANTS
    Users,       \* identities Auth0 may return to the callback
    TxTTL,       \* TRANSACTION_TTL_MS, in seconds
    RetryTTL,    \* seconds a redeemed transaction stays for retries
    ClaimTTL,    \* DEFAULT_STATE_TTL_SECONDS, for which a claim is kept
    MaxNow       \* bound: the clock stops here

ASSUME BrokerAssumption ==
    /\ TxTTL \in Nat \ {0} /\ RetryTTL \in Nat \ {0} /\ ClaimTTL \in Nat \ {0}
    /\ MaxNow \in Nat

None == -1       \* null: no transaction, no alarm, no pending setAlarm

VARIABLES
    now,         \* Date.now(), in seconds
    tx,          \* this.transaction
    stored,      \* storage['transaction']
    claim,       \* this.nonceClaim is not null
    storedClaim, \* storage['nonce-claim'] is there
    initialized, \* this.initialized
    alarm,       \* the alarm slot: a time or None
    arming,      \* the setAlarm a handler still has to make
    kind,        \* what the object's name is for; /create reaches it once
    window,      \* observer: the end of the retries of what was last redeemed
                 \* or claimed, counted from when it was stored
    keptUntil    \* observer: once that was answered, how long it must hold

observers == <<window, keptUntil>>

vars ==
    <<now, tx, stored, claim, storedClaim, initialized, alarm, arming, kind,
      observers>>

NoTx == [status |-> "none"]

Transaction ==
    [status: {"pending"}, expiresAt: Nat]
    \cup [status: {"approved", "redeemed"}, expiresAt: Nat, user: Users]

TypeOK ==
    /\ now \in 0 .. MaxNow
    /\ tx \in Transaction \cup {NoTx}
    /\ stored \in Transaction \cup {NoTx}
    /\ claim \in BOOLEAN /\ storedClaim \in BOOLEAN
    /\ initialized \in BOOLEAN
    /\ alarm \in Nat \cup {None}
    /\ arming \in Nat \cup {None}
    /\ kind \in {"unused", "transaction", "nonce"}
    /\ window \in Nat \cup {None} /\ keptUntil \in Nat \cup {None}

Init ==
    /\ now = 0
    /\ tx = NoTx /\ stored = NoTx
    /\ claim = FALSE /\ storedClaim = FALSE
    /\ initialized = FALSE
    /\ alarm = None /\ arming = None
    /\ kind = "unused"
    /\ window = None /\ keptUntil = None

-----------------------------------------------------------------------------

\* The transaction the handler sees once initializeIfNeeded has run.
Loaded == IF initialized THEN tx ELSE stored

LoadedClaim == IF initialized THEN claim ELSE storedClaim

Expired(t) == t.expiresAt <= now

\* Mutant: the handler changes memory and forgets storage.
PutInMemory(t) == tx' = t /\ stored' = stored

\* Mutant: a transaction once stored is never cleared.
PutUncleared(t) == tx' = t /\ stored' = IF t = NoTx THEN stored ELSE t

\* put(TRANSACTION_STORAGE_KEY): memory and storage agree when it returns.
Put(t) == tx' = t /\ stored' = t

\* put(NONCE_CLAIM_STORAGE_KEY), and its deletion.
PutClaim(c) == claim' = c /\ storedClaim' = c

\* initializeIfNeeded loads both; the handlers of one leave the other alone.
LoadTx == tx' = Loaded /\ stored' = stored
LoadClaim == claim' = LoadedClaim /\ storedClaim' = storedClaim

\* A request is admitted when no handler is between its awaits.
Request == arming = None /\ initialized' = TRUE

\* Bound: late enough a creation would leave the clock no time for its alarms.
TimeLeft == now + TxTTL + RetryTTL <= MaxNow

Create ==
    /\ Request
    /\ TimeLeft
    /\ kind = "unused" /\ kind' = "transaction"
    /\ Put([status |-> "pending", expiresAt |-> now + TxTTL])
    /\ LoadClaim
    /\ arming' = now + TxTTL
    /\ UNCHANGED <<now, alarm, observers>>

\* Mutant: approve takes a second user while the transaction is not redeemed.
ApproveAgain(u) ==
    /\ Request
    /\ Loaded.status \in {"pending", "approved"} /\ ~Expired(Loaded)
    /\ Put([status |-> "approved", expiresAt |-> Loaded.expiresAt, user |-> u])
    /\ LoadClaim
    /\ UNCHANGED <<now, alarm, arming, kind, observers>>

\* Mutant: approve writes a record without the user fields.
ApproveNobody(u) ==
    /\ Request
    /\ Loaded.status = "pending" /\ ~Expired(Loaded)
    /\ Put([status |-> "approved", expiresAt |-> Loaded.expiresAt])
    /\ LoadClaim
    /\ UNCHANGED <<now, alarm, arming, kind, observers>>

\* approve: only a pending, unexpired transaction takes the user.
Approve(u) ==
    /\ Request
    /\ Loaded.status = "pending" /\ ~Expired(Loaded)
    /\ Put([status |-> "approved", expiresAt |-> Loaded.expiresAt, user |-> u])
    /\ LoadClaim
    /\ UNCHANGED <<now, alarm, arming, kind, observers>>

\* A redeem or claim was stored that may be repeated; it is not answered yet.
Opens(until) == window' = until /\ keptUntil' = None

\* Mutant: redeem leaves the alarm armed at creation and answers at once.
RedeemWithoutAlarm ==
    /\ Request
    /\ Loaded.status = "approved" /\ ~Expired(Loaded)
    /\ Put([Loaded EXCEPT !.status = "redeemed"])
    /\ LoadClaim
    /\ window' = now + RetryTTL /\ keptUntil' = now + RetryTTL
    /\ UNCHANGED <<now, alarm, arming, kind>>

Redeem ==
    /\ Request
    /\ Loaded.status = "approved" /\ ~Expired(Loaded)
    /\ Put([Loaded EXCEPT !.status = "redeemed"])
    /\ LoadClaim
    /\ arming' = now + RetryTTL
    /\ Opens(now + RetryTTL)
    /\ UNCHANGED <<now, alarm, kind>>

\* An answer opens the promise; a later one does not shorten it.
Answers(until) ==
    /\ keptUntil' = IF keptUntil = None THEN until ELSE keptUntil
    /\ UNCHANGED window

\* A repeated redeem: the idempotent branch answers what is stored, whatever
\* became of the first call, and sets no alarm. If the first call died before
\* its own, the alarm of the creation stands.
RepeatRedeem ==
    /\ Request
    /\ Loaded.status = "redeemed"
    /\ LoadTx /\ LoadClaim
    /\ Answers(IF window <= Loaded.expiresAt THEN window ELSE Loaded.expiresAt)
    /\ UNCHANGED <<now, alarm, arming, kind>>

\* claimNonce: the first caller claims; a later one is answered in RepeatClaim.
Claim ==
    /\ Request
    /\ now + ClaimTTL <= MaxNow
    /\ kind \in {"unused", "nonce"} /\ kind' = "nonce"
    /\ ~LoadedClaim
    /\ PutClaim(TRUE)
    /\ LoadTx
    /\ arming' = now + ClaimTTL
    /\ Opens(now + ClaimTTL)
    /\ UNCHANGED <<now, alarm>>

\* A repeated claim is told that the nonce is taken.
RepeatClaim ==
    /\ Request
    /\ LoadedClaim
    /\ LoadTx /\ LoadClaim
    /\ Answers(window)
    /\ UNCHANGED <<now, alarm, arming, kind>>

\* get, and every call that answers null: only loads the object's memory.
ReadOnly ==
    /\ Request
    /\ ~initialized
    /\ LoadTx /\ LoadClaim
    /\ UNCHANGED <<now, alarm, arming, kind, observers>>

\* setAlarm replaces the slot; the handler answers.
SetAlarm ==
    /\ arming # None
    /\ alarm' = arming /\ arming' = None
    /\ Answers(window)
    /\ UNCHANGED <<now, tx, stored, claim, storedClaim, initialized, kind>>

\* alarm(): forgets the transaction or the claim, in memory and in storage.
Alarm ==
    /\ Request
    /\ alarm # None /\ alarm <= now
    /\ alarm' = None
    /\ Put(NoTx) /\ PutClaim(FALSE)
    /\ UNCHANGED <<now, arming, kind, observers>>

\* The runtime drops the object: memory goes, storage and the alarm stay. A
\* handler caught between its awaits never answers.
Evict ==
    /\ initialized
    /\ initialized' = FALSE /\ tx' = NoTx /\ claim' = FALSE /\ arming' = None
    /\ UNCHANGED <<now, stored, storedClaim, alarm, kind, observers>>

Tick ==
    /\ now < MaxNow /\ now' = now + 1
    /\ UNCHANGED <<tx, stored, claim, storedClaim, initialized, alarm, arming,
                   kind, observers>>

Next ==
    \/ Create \/ \E u \in Users : Approve(u)
    \/ Redeem \/ RepeatRedeem \/ Claim \/ RepeatClaim \/ ReadOnly \/ SetAlarm \/ Alarm \/ Evict \/ Tick

Spec == Init /\ [][Next]_vars

\* The runtime delivers due alarms and resumes a handler after its await.
FairSpec == Spec /\ WF_vars(Tick) /\ WF_vars(SetAlarm) /\ WF_vars(Alarm)

-----------------------------------------------------------------------------
\* Properties.

\* What a handler answers from memory is what a restart would find: an
\* eviction loses neither an approval nor a redemption nor a claim.
MemoryIsDurable == initialized => tx = stored /\ claim = storedClaim

\* Two Auth0 callbacks may race for one transaction (the panel's login page
\* was opened twice). The first user wins: the identity the JWT is issued for
\* never changes afterwards, and the transaction never goes back.
Rank(t) == CASE t.status = "pending" -> 1 [] t.status = "approved" -> 2
             [] t.status = "redeemed" -> 3 [] OTHER -> 4
FirstApprovalBinds ==
    [][/\ kind = "transaction" => Rank(stored) <= Rank(stored')
       /\ Rank(stored) \in {2, 3} /\ stored' # NoTx => stored'.user = stored.user]_vars

\* A panel that was answered, by the redeem or by a repetition of it, can
\* repeat it for the whole RetryTTL: the alarm armed at creation must not delete
\* it before. One case is short of that: an eviction between the redeem's put
\* and its setAlarm, after which a repetition is answered all the same. What
\* was answered so holds until RetryTTL or the creation's expiry, whichever
\* ends first. A logout state whose claim was answered redirects nobody else
\* for ClaimTTL.
Held == IF kind = "nonce" THEN storedClaim ELSE stored.status = "redeemed"
RetryWindow == keptUntil # None /\ now < keptUntil => Held

\* The comment at the setAlarm of redeem promises the whole RetryTTL to every
\* retry. The run that checks it finds the eviction above.
FullRetryWindow == keptUntil # None /\ now < window => Held

\* Once an alarm is armed the transaction or the claim is deleted from storage,
\* whatever requests and evictions come in between.
ArmedIsCleaned == (alarm # None) ~> (stored = NoTx /\ ~storedClaim)

=============================================================================
