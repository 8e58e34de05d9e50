---------------------------- MODULE Notification ----------------------------
(***************************************************************************)
(* What Get promises a request that asks for a notification (cache.go:     *)
(* 115-118): it is "notified as soon as a ServiceAccount with given key is *)
(* populated to the cache".  No channels, registry, locks or fetches here: *)
(* populating an account notifies, in that very step, every request that   *)
(* is waiting for it, and no other request.                                *)
(***************************************************************************)
CONSTANTS SAs, Pods, saOf

VARIABLES
    cached,     \* the accounts that are in the cache
    status      \* request -> "none", "pending" or "notified"

PromiseInit ==
    /\ cached = {}
    /\ status = [p \in Pods |-> "none"]

(* A request that misses asks to be notified, once. *)
Ask(p) ==
    /\ status[p] = "none"
    /\ saOf[p] \notin cached
    /\ status' = [status EXCEPT ![p] = "pending"]
    /\ UNCHANGED cached

Populate(k) ==
    /\ cached' = cached \cup {k}
    /\ status' = [p \in Pods |-> IF status[p] = "pending" /\ saOf[p] = k
                                 THEN "notified" ELSE status[p]]

(* Deleting an account, or clearing the cache, notifies nobody. *)
Forget(S) ==
    /\ cached' = cached \ S
    /\ UNCHANGED status

PromiseNext ==
    \/ \E p \in Pods : Ask(p)
    \/ \E k \in SAs : Populate(k)
    \/ \E S \in SUBSET SAs : Forget(S)

PromiseSpec == PromiseInit /\ [][PromiseNext]_<<cached, status>>
=============================================================================
