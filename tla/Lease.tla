------------------------------- MODULE Lease -------------------------------
(***************************************************************************)
(* What src/agents/claim.rs promises its callers about one issue or merge  *)
(* request: at any time at most one agent owns it, ownership passes only   *)
(* through "nobody", and only the owner's own label removal gives it up.   *)
(* Claim.tla is shown to implement this specification.                     *)
(***************************************************************************)
CONSTANT Agents

VARIABLE owners

Init == owners = {}

(* ClaimAcquireOutcome::Won, or ClaimLease::recover on a label left behind. *)
Acquire(a) == owners = {} /\ owners' = {a}

(* The owner's claim label leaves the resource. *)
Release(a) == owners = {a} /\ owners' = {}

Next == \E a \in Agents : Acquire(a) \/ Release(a)

Spec == Init /\ [][Next]_owners
=============================================================================
