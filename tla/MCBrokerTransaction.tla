------------------------- MODULE MCBrokerTransaction -------------------------
(* Two users, a transaction that lives 3 s and may be retried for 2 s, or a   *)
(* claim that is kept for 2 s; the clock runs past the latest alarm, 3 + 2 s  *)
(* after the creation, and lets a nonce be claimed again after its alarm.     *)
EXTENDS BrokerTransaction

CONSTANTS alice, bob
MCUsers == {alice, bob}
=============================================================================
