------------------------------- MODULE Journal -------------------------------
(***************************************************************************)
(* What the use cases of package execution are promised by their Journal   *)
(* and readers (execution/journal.go), as both event logs implement it:    *)
(* an intent is registered once per ActionID, an AttemptID is claimed once,*)
(* a batch of facts is stored whole or not at all, and a fact is never     *)
(* changed or removed.                                                     *)
(*                                                                         *)
(* Here the facts are a set; the order in which a log returns them is the  *)
(* business of the logs themselves.  A fact's content (payload and times)  *)
(* is named by the call that built it.                                     *)
(***************************************************************************)
EXTENDS AtohaCore

CONSTANT Requests      \* calls of Execute and Recover, each served once

VARIABLES
  actions,             \* ActionID -> the registered intent or NoIntent
  attempts,            \* claimed AttemptIDs in claim order
  facts                \* every fact stored so far

journal == <<actions, attempts, facts>>

Qualifiers == {"none", "attempt", "dispatch"}

Event == [actionID : ActionIDs, attemptID : AttemptIDs, kind : EventKind,
          qualifier : Qualifiers, content : Requests]

\* deterministicEventID hashes exactly these four fields.
SameEventID(e, f) ==
  /\ e.actionID = f.actionID
  /\ e.attemptID = f.attemptID
  /\ e.kind = f.kind
  /\ e.qualifier = f.qualifier

Claimed == {attempts[i] : i \in DOMAIN attempts}

JournalTypeOK ==
  /\ actions \in [ActionIDs -> Intents \cup {NoIntent}]
  /\ attempts \in Seq(AttemptIDs)
  /\ facts \subseteq Event

JournalInit ==
  /\ actions = [a \in ActionIDs |-> NoIntent]
  /\ attempts = <<>>
  /\ facts = {}

\* No EventID is used for two different facts, in the log or in the batch.
preflight(events) ==
  \A e \in events, f \in facts \cup events : SameEventID(e, f) => e = f

\* Mutant: a reused ActionID is taken for the same action.
ActionConflictIgnored(action) == FALSE

ActionConflict(action) == actions[action.id] \notin {NoIntent, action.intent}

\* Mutant: a claimed AttemptID may be claimed again.
BeginResultReclaims(action, attemptID, events) ==
  IF ActionConflict(action) THEN "conflict" ELSE "claimed"

\* What BeginAttempt answers, in the order the logs test it.
BeginResult(action, attemptID, events) ==
  IF ActionConflict(action) THEN "conflict"
  ELSE IF attemptID \in Claimed THEN "duplicate"
  ELSE IF ~preflight(events) THEN "conflict"
  ELSE "claimed"

\* The claim, the registration and the first facts become durable together.
BeginAttempt(action, attemptID, events) ==
  /\ BeginResult(action, attemptID, events) = "claimed"
  /\ actions' = [actions EXCEPT ![action.id] = action.intent]
  /\ attempts' = Append(attempts, attemptID)
  /\ facts' = facts \cup events

AppendAll(events) ==
  /\ preflight(events)
  /\ facts' = facts \cup events
  /\ UNCHANGED <<actions, attempts>>

EventsByAttempt(attemptID) == {f \in facts : f.attemptID = attemptID}

ActionByID(actionID) == actions[actionID]
==============================================================================
