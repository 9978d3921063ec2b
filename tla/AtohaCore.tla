------------------------------ MODULE AtohaCore ------------------------------
(***************************************************************************)
(* The vocabulary of package atoha: identities, immutable intents, the     *)
(* status of each outcome dimension and the kinds of execution facts.      *)
(*                                                                         *)
(* An intent stands for everything of an Action besides its ID (target,    *)
(* name, input, requested time): two intents are equal exactly when        *)
(* sameAction would find those fields equal.                               *)
(***************************************************************************)
EXTENDS Naturals, Sequences

CONSTANTS
  ActionIDs,      \* identities of intents (non-empty, trimmed strings)
  Intents,        \* the rest of an Action, compared as a whole
  AttemptIDs,     \* identities of execution attempts
  NoAttempt,      \* the empty AttemptID: "no attempt" / not a recovery
  NoIntent        \* an ActionID nothing was registered under yet

ASSUME NoAttemptAssumption == NoAttempt \notin AttemptIDs
ASSUME NoIntentAssumption == NoIntent \notin Intents

Action == [id : ActionIDs, intent : Intents]

sameAction(a, b) == a.id = b.id /\ a.intent = b.intent

\* NewExecutionAttempt refuses an attempt that recovers itself.
ValidAttempt(id, recoveryOf) == id \in AttemptIDs /\ recoveryOf # id

AdmissionStatus == {"unknown", "rejected", "admitted"}
DispatchStatus == {"unknown", "not_dispatched", "dispatched", "acknowledged"}
EffectStatus == {"unknown", "unverified", "satisfied", "unsatisfied"}
VerificationStatus == {"unknown", "verified", "unsatisfied", "inconclusive"}

Outcome == [admission : AdmissionStatus,
            dispatch  : DispatchStatus,
            effect    : EffectStatus]

EventKind ==
  { "action_requested", "attempt_started", "recovery_authorized",
    "action_admitted", "action_rejected",
    "dispatch_unknown", "not_dispatched", "action_dispatched", "provider_acknowledged",
    "observation_recorded",
    "effect_unknown", "effect_unverified", "effect_satisfied", "effect_unsatisfied",
    "verification_verified", "verification_unsatisfied", "verification_inconclusive" }

\* The kinds that tell the fate of a dispatch.
DispatchKinds ==
  {"not_dispatched", "dispatch_unknown", "action_dispatched", "provider_acknowledged"}
==============================================================================
