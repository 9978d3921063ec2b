------------------------- MODULE ExecutionRefinement -------------------------
(***************************************************************************)
(* Execution implements AttemptLifecycle: the abstract claims are the      *)
(* journal's, the abstract requests the REST calls that left, and what is  *)
(* known of a dispatch is what the facts of the attempt say.               *)
(***************************************************************************)
EXTENDS Execution

\* What the journal says of a dispatch; a rejected action is not dispatched.
KnownDispatch(a) ==
  LET kinds == {f.kind : f \in EventsByAttempt(a)}
  IN IF "provider_acknowledged" \in kinds THEN "acknowledged"
     ELSE IF "action_dispatched" \in kinds THEN "dispatched"
     ELSE IF kinds \cap {"not_dispatched", "action_rejected"} # {} THEN "not_dispatched"
     ELSE IF "dispatch_unknown" \in kinds THEN "unknown"
     ELSE "nothing"

\* The requests that left, each with the call that sent it.
SentRequests == {<<attemptID(r), r, calls[r]>> : r \in {s \in Requests : calls[s] > 0}}

Lifecycle == INSTANCE AttemptLifecycle WITH
  claimed <- Claimed,
  sent    <- SentRequests,
  known   <- [a \in AttemptIDs |-> KnownDispatch(a)]

(* Every behaviour of Execute and Recover, with all their interleavings,   *)
(* cancellations, journal errors and crashes, is one of AttemptLifecycle:  *)
(* an attempt is claimed once, sends once and only while nothing is on     *)
(* record, and its recorded dispatch is true and never revised.            *)
ImplementsLifecycle == Lifecycle!Spec
==============================================================================
