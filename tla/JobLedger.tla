----------------------------- MODULE JobLedger ------------------------------
(***************************************************************************)
(* What the background queue promises its callers, whatever its workers,   *)
(* leases and retries do: a call is accepted, coalesced into live work     *)
(* with the same dedupe key, or refused; accepted work is settled exactly  *)
(* once, as a success only after its handler has run to completion (at     *)
(* least once, possibly again after it was settled).                       *)
(***************************************************************************)
CONSTANTS Jobs, KeyOf, NoKey

VARIABLES
    ledger,     \* what became of each call
    delivered   \* the jobs whose handler has completed at least once

vars == <<ledger, delivered>>

SameKey(j, k) == KeyOf[j] # NoKey /\ KeyOf[j] = KeyOf[k]
LiveTwin(j)   == \E k \in Jobs : ledger[k] = "pending" /\ SameKey(j, k)

Init ==
    /\ ledger = [j \in Jobs |-> "absent"]
    /\ delivered = {}

Accept(j) ==
    /\ ledger[j] = "absent" /\ ~LiveTwin(j)
    /\ ledger' = [ledger EXCEPT ![j] = "pending"]
    /\ UNCHANGED delivered

Coalesce(j) ==
    /\ ledger[j] = "absent" /\ LiveTwin(j)
    /\ ledger' = [ledger EXCEPT ![j] = "coalesced"]
    /\ UNCHANGED delivered

Refuse(j) ==
    /\ ledger[j] = "absent" /\ KeyOf[j] # NoKey
    /\ ledger' = [ledger EXCEPT ![j] = "refused"]
    /\ UNCHANGED delivered

Deliver(j) ==
    /\ ledger[j] \in {"pending", "succeeded", "failed"}
    /\ delivered' = delivered \cup {j}
    /\ UNCHANGED ledger

Settle(j) ==
    /\ ledger[j] = "pending"
    /\ \/ j \in delivered /\ ledger' = [ledger EXCEPT ![j] = "succeeded"]
       \/ ledger' = [ledger EXCEPT ![j] = "failed"]
    /\ UNCHANGED delivered

Next == \E j \in Jobs : Accept(j) \/ Coalesce(j) \/ Refuse(j) \/ Deliver(j) \/ Settle(j)

Safe == Init /\ [][Next]_vars
Spec == Safe /\ \A j \in Jobs : WF_vars(Settle(j))
=============================================================================
