-------------------------- MODULE InferenceService --------------------------
(***************************************************************************)
(* What a deployed model promises the tasks that send it requests.         *)
(* A request is pushed to the topic of the model, is taken over by the     *)
(* backend, and from then on ends in exactly one way: it is completed,     *)
(* forwarded to the next model of its pipeline, or failed.  It fails       *)
(* exactly when one of the functions it runs through rejects it.  Only a   *)
(* backend that is being stopped, or a process of it that died, may lose   *)
(* requests it has taken over.                                             *)
(***************************************************************************)
CONSTANT Requests

VARIABLES fate,       \* what has become of each request
          rejected,   \* requests that a function of the model rejected
          degraded    \* the model is being stopped or has lost a process

vars == <<fate, rejected, degraded>>

Fates == {"new", "queued", "pending", "completed", "forwarded", "failed", "lost"}

Init ==
    /\ fate = [r \in Requests |-> "new"]
    /\ rejected = {}
    /\ degraded = FALSE

Moves(r, from, to) ==
    /\ fate[r] = from
    /\ fate' = [fate EXCEPT ![r] = to]

Push(r) ==
    /\ Moves(r, "new", "queued")
    /\ UNCHANGED <<rejected, degraded>>

(* One step of a process may take over, reject, answer or lose several     *)
(* requests: batches are handled at once.                                  *)
Outcome(r) ==
    IF r \in rejected' THEN {"failed"} ELSE {"completed", "forwarded"}

MayBecome(r) ==
    CASE fate[r] = "queued"  -> {"queued", "pending"}
                                    \cup (IF degraded' THEN {"lost"} ELSE {})
      [] fate[r] = "pending" -> {"pending"} \cup Outcome(r)
                                    \cup (IF degraded' THEN {"lost"} ELSE {})
      [] OTHER -> {fate[r]}

Serve ==
    /\ degraded' \in {degraded, TRUE}
    /\ rejected' \in SUBSET Requests
    /\ rejected \subseteq rejected'
    /\ \A r \in rejected' \ rejected : fate[r] = "pending"
    /\ fate' \in [Requests -> Fates]
    /\ \A r \in Requests : fate'[r] \in MayBecome(r)

Next == Serve \/ \E r \in Requests : Push(r)

Spec == Init /\ [][Next]_vars
=============================================================================
