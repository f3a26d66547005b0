----------------------------- MODULE LedgerPool -----------------------------
(***************************************************************************)
(* The connection pool that the ledger activities of one worker process    *)
(* share (activities/ledger.py, services/ledger.py).  Ledger.connect looks  *)
(* whether there is a pool, and awaits create_pool before it stores one:    *)
(* activities that look in the meantime open pools of their own, of which   *)
(* the last one is kept and the others are never closed.                    *)
(*                                                                         *)
(* A slot is one of the max_concurrent_activities places of the worker.     *)
(***************************************************************************)
EXTENDS Naturals

CONSTANTS Slots, NoPool

ASSUME PoolAssumption == NoPool \notin Slots

VARIABLES
    pool, \* the slot whose pool the module variable _ledger holds, or NoPool
    made, \* pools opened in each slot
    at    \* what each slot is doing with the ledger

poolVars == <<pool, made, at>>

PoolTypeOK ==
    /\ pool \in Slots \cup {NoPool}
    /\ made \in [Slots -> Nat]
    /\ at \in [Slots -> {"idle", "opening", "connected"}]

PoolInit ==
    /\ pool = NoPool
    /\ made = [s \in Slots |-> 0]
    /\ at = [s \in Slots |-> "idle"]
-----------------------------------------------------------------------------
Connect_NoLook(s) ==
    /\ at[s] = "idle"
    /\ at' = [at EXCEPT ![s] = "opening"]
    /\ UNCHANGED <<pool, made>>

\* An activity starts; what it needs of connect() before the first await.
Connect(s) ==
    /\ at[s] = "idle"
    /\ at' = [at EXCEPT ![s] = IF pool = NoPool THEN "opening" ELSE "connected"]
    /\ UNCHANGED <<pool, made>>

\* create_pool returns, and the attribute is assigned without a second look.
Opened(s) ==
    /\ at[s] = "opening"
    /\ pool' = s
    /\ made' = [made EXCEPT ![s] = @ + 1]
    /\ at' = [at EXCEPT ![s] = "connected"]

\* create_pool raises, and so does the activity.
OpenFails(s) ==
    /\ at[s] = "opening"
    /\ at' = [at EXCEPT ![s] = "idle"]
    /\ UNCHANGED <<pool, made>>

\* The statement was executed; nothing closes the pool of the worker.
Release(s) ==
    /\ at[s] = "connected"
    /\ at' = [at EXCEPT ![s] = "idle"]
    /\ UNCHANGED <<pool, made>>

PoolStep(s) == Connect(s) \/ Opened(s) \/ OpenFails(s)

PoolNext == \E s \in Slots : PoolStep(s) \/ Release(s)

PoolSpec == PoolInit /\ [][PoolNext]_poolVars
-----------------------------------------------------------------------------
\* The pools that are lost to the race are bounded by the places of the worker,
\* however long it runs and however often opening one fails, and whoever is past
\* connect() finds a pool, as its assert expects (ledger.py:12-14 and 22).
PoolsBounded ==
    \A s \in Slots : made[s] <= 1 /\ (at[s] = "connected" => pool # NoPool)
=============================================================================
