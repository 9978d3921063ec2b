------------------------------ MODULE Execution ------------------------------
(***************************************************************************)
(* The use cases ExecuteAction.Execute and RecoverAttempt.Recover over a   *)
(* shared journal, with the Home Assistant provider as the backend.        *)
(*                                                                         *)
(* Each member of Requests is one call, served by its own goroutine.  The  *)
(* steps are the points where a call touches something shared: a journal   *)
(* read or write, the admitter, the resolver, the REST request leaving the *)
(* process and its answer.  A client may cancel a call's context at any    *)
(* time, the storage may refuse any operation, and the process may crash:  *)
(* every call in flight is then lost, the journal and the calls already    *)
(* sent are not.                                                           *)
(***************************************************************************)
EXTENDS Journal

CONSTANTS
  Decisions,           \* who authorized a recovery, when and why
  NoAuthorization,     \* the nil authorization: the call is an Execute
  Inputs               \* the calls clients may make

Authorization == [actionID : ActionIDs, previous : AttemptIDs, decision : Decisions]

Input == [action : Action, attemptID : AttemptIDs,
          authorization : Authorization \cup {NoAuthorization}]

ASSUME InputsAssumption == Inputs \subseteq Input /\ Inputs # {}
ASSUME NoAuthorizationAssumption == NoAuthorization \notin Authorization

VARIABLES
  pc,                  \* where a call is
  input,               \* its arguments
  cancelled,           \* calls whose context the client cancelled
  outages,             \* calls that met a storage error (history only)
  admission,           \* ExecuteResult.Admission
  dispatch,            \* ExecuteResult.Dispatch.Status
  outcome,             \* ExecuteResult.Outcome
  errs,                \* what the returned error names
  calls                \* how many REST requests the call has sent

local == <<pc, input, cancelled, outages, admission, dispatch, outcome, errs>>
vars == <<journal, local, calls>>

Preparing == {"read_previous", "read_action", "begin"}
Running == {"admit", "record_admission", "record_not_dispatched", "resolve",
            "dispatch", "calling", "record_dispatch"}
Ended == {"done", "crashed"}

\* What a returned error names: the stages, and the errors callers test for.
Causes == {"validate", "record", "admit", "resolve", "dispatch", "recover",
           "invalid_input", "already_started", "not_found", "action_mismatch",
           "not_authorized", "identity_conflict"}

NothingKnown == [admission |-> "unknown", dispatch |-> "unknown", effect |-> "unknown"]

TypeOK ==
  /\ JournalTypeOK
  /\ pc \in [Requests -> {"idle"} \cup Preparing \cup Running \cup Ended]
  /\ input \in [Requests -> Inputs]
  /\ cancelled \subseteq Requests
  /\ outages \subseteq Requests
  /\ admission \in [Requests -> AdmissionStatus]
  /\ dispatch \in [Requests -> DispatchStatus]
  /\ outcome \in [Requests -> Outcome]
  /\ errs \in [Requests -> SUBSET Causes]
  /\ calls \in [Requests -> Nat]

\* The arguments of a call are fixed before it is made.
Init ==
  /\ JournalInit
  /\ pc = [r \in Requests |-> "idle"]
  /\ input \in [Requests -> Inputs]
  /\ cancelled = {}
  /\ outages = {}
  /\ admission = [r \in Requests |-> "unknown"]
  /\ dispatch = [r \in Requests |-> "unknown"]
  /\ outcome = [r \in Requests |-> NothingKnown]
  /\ errs = [r \in Requests |-> {}]
  /\ calls = [r \in Requests |-> 0]

------------------------------------------------------------------------------
(* Helpers.                                                                *)

action(r) == input[r].action
attemptID(r) == input[r].attemptID
authorization(r) == input[r].authorization
IsRecovery(r) == authorization(r) # NoAuthorization
recoveryOf(r) == IF IsRecovery(r) THEN authorization(r).previous ELSE NoAttempt

newEvent(r, kind, qualifier) ==
  [actionID |-> action(r).id, attemptID |-> attemptID(r), kind |-> kind,
   qualifier |-> qualifier, content |-> r]

actionRequestedEvent(r) == newEvent(r, "action_requested", "attempt")
attemptStartedEvent(r) == newEvent(r, "attempt_started", "none")
recoveryAuthorizedEvent(r) == newEvent(r, "recovery_authorized", "none")
admissionEvent(r) ==
  newEvent(r, IF admission[r] = "rejected" THEN "action_rejected" ELSE "action_admitted", "none")
notDispatchedEvent(r) == newEvent(r, "not_dispatched", "none")

InitialEvents(r) ==
  {actionRequestedEvent(r), attemptStartedEvent(r)}
    \cup (IF IsRecovery(r) THEN {recoveryAuthorizedEvent(r)} ELSE {})

EffectOf(status) ==
  IF status \in {"dispatched", "acknowledged"} THEN "unverified" ELSE "unknown"

DispatchKind(status) ==
  CASE status = "not_dispatched" -> "not_dispatched"
    [] status = "dispatched"     -> "action_dispatched"
    [] status = "acknowledged"   -> "provider_acknowledged"
    [] OTHER                     -> "dispatch_unknown"

\* Mutant: the dispatch is stored without its unverified effect.
dispatchEventsBare(r) == {newEvent(r, DispatchKind(dispatch[r]), "none")}

dispatchEvents(r) ==
  {newEvent(r, DispatchKind(dispatch[r]), "none")}
    \cup (IF EffectOf(dispatch[r]) = "unverified"
          THEN {newEvent(r, "effect_unverified", "dispatch")} ELSE {})

\* The call returns; causes are what its joined error names.
Return(r, causes) ==
  /\ pc' = [pc EXCEPT ![r] = "done"]
  /\ errs' = [errs EXCEPT ![r] = @ \cup causes]

Goto(r, label) == pc' = [pc EXCEPT ![r] = label]

------------------------------------------------------------------------------
(* The two entries.  Recover: the journal must know the previous attempt   *)
(* and the intent.                                                         *)

Execute(r) ==
  /\ pc[r] = "idle"
  /\ ~IsRecovery(r)
  /\ Goto(r, "begin")
  /\ UNCHANGED <<journal, input, cancelled, outages, admission, dispatch, outcome, errs, calls>>

\* The authorization must be for this very action.
Recover(r) ==
  /\ pc[r] = "idle"
  /\ IsRecovery(r)
  /\ \/ authorization(r).actionID = action(r).id /\ Goto(r, "read_previous") /\ UNCHANGED errs
     \/ /\ authorization(r).actionID # action(r).id
        /\ Return(r, {"recover", "not_authorized"})
  /\ UNCHANGED <<journal, input, cancelled, outages, admission, dispatch, outcome, calls>>

\* A journal read on a cancelled context fails; any read may fail.
ReadFails(r) ==
  /\ pc[r] \in {"read_previous", "read_action"}
  /\ Return(r, {"recover"})
  /\ outages' = IF r \in cancelled THEN outages ELSE outages \cup {r}
  /\ UNCHANGED <<journal, input, cancelled, admission, dispatch, outcome, calls>>

\* Mutant: an attempt without facts passes for a known one.
PreviousIsUnchecked(r) ==
  \A f \in EventsByAttempt(recoveryOf(r)) : f.actionID = action(r).id

PreviousIsKnown(r) ==
  LET previous == EventsByAttempt(recoveryOf(r))
  IN previous # {} /\ \A f \in previous : f.actionID = action(r).id

ReadPrevious(r) ==
  /\ pc[r] = "read_previous"
  /\ r \notin cancelled
  /\ \/ PreviousIsKnown(r) /\ Goto(r, "read_action") /\ UNCHANGED errs
     \/ /\ ~PreviousIsKnown(r)
        /\ Return(r, {"recover", "not_authorized",
                      IF EventsByAttempt(recoveryOf(r)) = {} THEN "not_found"
                                                             ELSE "action_mismatch"})
  /\ UNCHANGED <<journal, input, cancelled, outages, admission, dispatch, outcome, calls>>

\* NoIntent, "not found", is no intent of the caller's.
ReadAction(r) ==
  LET stored == [id |-> action(r).id, intent |-> ActionByID(action(r).id)]
  IN /\ pc[r] = "read_action"
     /\ r \notin cancelled
     /\ \/ sameAction(stored, action(r)) /\ Goto(r, "begin") /\ UNCHANGED errs
        \/ /\ ~sameAction(stored, action(r))
           /\ Return(r, {"recover", "not_authorized", "identity_conflict"})
     /\ UNCHANGED <<journal, input, cancelled, outages, admission, dispatch, outcome, calls>>

------------------------------------------------------------------------------
(* execute: the claim comes before anything else.                          *)

Begin(r) ==
  /\ pc[r] = "begin"
  /\ ValidAttempt(attemptID(r), recoveryOf(r))
  /\ r \notin cancelled
  /\ BeginAttempt(action(r), attemptID(r), InitialEvents(r))
  /\ Goto(r, "admit")
  /\ UNCHANGED <<input, cancelled, outages, admission, dispatch, outcome, errs, calls>>

BeginRefused(r) ==
  /\ pc[r] = "begin"
  /\ \/ /\ ~ValidAttempt(attemptID(r), recoveryOf(r))
        /\ Return(r, {"validate", "invalid_input"})
     \/ /\ ValidAttempt(attemptID(r), recoveryOf(r))
        /\ r \notin cancelled
        /\ \/ /\ BeginResult(action(r), attemptID(r), InitialEvents(r)) = "duplicate"
              /\ Return(r, {"validate", "already_started"})
           \/ /\ BeginResult(action(r), attemptID(r), InitialEvents(r)) = "conflict"
              /\ Return(r, IF ActionConflict(action(r)) THEN {"record", "identity_conflict"}
                                                       ELSE {"record"})
  /\ UNCHANGED <<journal, input, cancelled, outages, admission, dispatch, outcome, calls>>

BeginFails(r) ==
  /\ pc[r] = "begin"
  /\ ValidAttempt(attemptID(r), recoveryOf(r))
  /\ Return(r, {"record"})
  /\ outages' = IF r \in cancelled THEN outages ELSE outages \cup {r}
  /\ UNCHANGED <<journal, input, cancelled, admission, dispatch, outcome, calls>>

\* The journal reports an error although the claim was stored: the call ends,
\* nothing is sent, and no later call can take the attempt over.
BeginUncertain(r) ==
  /\ pc[r] = "begin"
  /\ ValidAttempt(attemptID(r), recoveryOf(r))
  /\ BeginAttempt(action(r), attemptID(r), InitialEvents(r))
  /\ Return(r, {"record"})
  /\ outages' = outages \cup {r}
  /\ UNCHANGED <<input, cancelled, admission, dispatch, outcome, calls>>

\* Mutant: the admitter's status is kept as it came.
AdmitUnchecked(r, status, failed) ==
  /\ pc[r] = "admit"
  /\ admission' = [admission EXCEPT ![r] = status]
  /\ errs' = IF failed THEN [errs EXCEPT ![r] = @ \cup {"admit"}] ELSE errs
  /\ Goto(r, IF status \in {"admitted", "rejected"}
             THEN "record_admission" ELSE "record_not_dispatched")
  /\ UNCHANGED <<journal, input, cancelled, outages, dispatch, outcome, calls>>

\* The admitter may answer with a status that is none of the three.
Admit(r, status, failed) ==
  /\ pc[r] = "admit"
  /\ admission' = [admission EXCEPT ![r] = IF status \in AdmissionStatus THEN status ELSE "unknown"]
  /\ errs' = IF failed \/ status \notin {"admitted", "rejected"}
             THEN [errs EXCEPT ![r] = @ \cup {"admit"}] ELSE errs
  /\ Goto(r, IF status \in {"admitted", "rejected"}
             THEN "record_admission" ELSE "record_not_dispatched")
  /\ UNCHANGED <<journal, input, cancelled, outages, dispatch, outcome, calls>>

\* Mutant: the append runs on the caller's context.
appendOnCallerContext(r, events, ok) ==
  IF ok /\ r \notin cancelled THEN AppendAll(events) /\ UNCHANGED outages
  ELSE /\ outages' = IF preflight(events) /\ r \notin cancelled
                     THEN outages \cup {r} ELSE outages
       /\ UNCHANGED journal

\* The record context is detached from the caller's: only the storage, or
\* the record timeout, can make an append fail.  One that failed may have
\* been stored all the same.
appendAfterIO(r, events, ok) ==
  IF ok THEN AppendAll(events) /\ UNCHANGED outages
  ELSE /\ outages' = IF preflight(events) THEN outages \cup {r} ELSE outages
       /\ UNCHANGED journal \/ AppendAll(events)

\* Mutant: execution goes on although the admission was not recorded.
RecordAdmissionGoesOn(r) ==
  /\ pc[r] = "record_admission"
  /\ \E ok \in BOOLEAN : appendAfterIO(r, {admissionEvent(r)}, ok)
  /\ Goto(r, IF admission[r] = "admitted" /\ errs[r] = {}
             THEN "resolve" ELSE "record_not_dispatched")
  /\ UNCHANGED <<input, cancelled, admission, dispatch, outcome, errs, calls>>

\* Mutant: a rejected action returns without its not-dispatched fact.
RecordAdmissionReturns(r) ==
  /\ pc[r] = "record_admission"
  /\ appendAfterIO(r, {admissionEvent(r)}, TRUE)
  /\ \/ admission[r] = "admitted" /\ errs[r] = {} /\ Goto(r, "resolve") /\ UNCHANGED errs
     \/ ~(admission[r] = "admitted" /\ errs[r] = {}) /\ Return(r, {})
  /\ UNCHANGED <<input, cancelled, admission, dispatch, outcome, calls>>

RecordAdmission(r) ==
  /\ pc[r] = "record_admission"
  /\ \/ /\ appendAfterIO(r, {admissionEvent(r)}, TRUE)
        /\ Goto(r, IF admission[r] = "admitted" /\ errs[r] = {}
                   THEN "resolve" ELSE "record_not_dispatched")
        /\ UNCHANGED errs
     \/ /\ appendAfterIO(r, {admissionEvent(r)}, FALSE)
        /\ Return(r, {"record"})
  /\ UNCHANGED <<input, cancelled, admission, dispatch, outcome, calls>>

RecordNotDispatched(r, ok) ==
  /\ pc[r] = "record_not_dispatched"
  /\ appendAfterIO(r, {notDispatchedEvent(r)}, ok)
  /\ outcome' = [outcome EXCEPT ![r] = [admission |-> admission[r],
                                        dispatch  |-> "not_dispatched",
                                        effect    |-> "unknown"]]
  /\ Return(r, IF ok THEN {} ELSE {"record"})
  /\ UNCHANGED <<input, cancelled, admission, dispatch, calls>>

Resolve(r) ==
  /\ pc[r] = "resolve"
  /\ \/ Goto(r, "dispatch") /\ UNCHANGED errs
     \/ /\ Goto(r, "record_not_dispatched")
        /\ errs' = [errs EXCEPT ![r] = @ \cup {"resolve"}]
  /\ UNCHANGED <<journal, input, cancelled, outages, admission, dispatch, outcome, calls>>

------------------------------------------------------------------------------
(* Provider.Dispatch: the one REST call, and what is known afterwards.     *)

\* Mutant: a mismatched result is read as "nothing was sent".
normalizeDispatchDenies(status, matches) == IF matches THEN status ELSE "not_dispatched"

\* A result that names another provider or attempt is no evidence.
normalizeDispatch(status, matches) == IF matches THEN status ELSE "unknown"

\* Dispatch returns status, perhaps with an error.
Dispatched(r, status, matches, failed) ==
  /\ dispatch' = [dispatch EXCEPT ![r] = normalizeDispatch(status, matches)]
  /\ errs' = IF failed \/ ~matches THEN [errs EXCEPT ![r] = @ \cup {"dispatch"}] ELSE errs
  /\ Goto(r, "record_dispatch")
  /\ UNCHANGED <<journal, input, cancelled, outages, admission, outcome, calls>>

\* The translator refuses the action: nothing is sent.
DispatchRefused(r) ==
  /\ pc[r] = "dispatch"
  /\ Dispatched(r, "not_dispatched", TRUE, TRUE)

\* The transport fails before the request leaves; the provider cannot tell.
DispatchUnsent(r) ==
  /\ pc[r] = "dispatch"
  /\ Dispatched(r, "unknown", TRUE, TRUE)

callService(r) ==
  /\ pc[r] = "dispatch"
  /\ r \notin cancelled
  /\ calls' = [calls EXCEPT ![r] = @ + 1]
  /\ Goto(r, "calling")
  /\ UNCHANGED <<journal, input, cancelled, outages, admission, dispatch, outcome, errs>>

\* Mutant: a request without an answer counts as not dispatched.
AnswersLostIsUnsent == {[status |-> "not_dispatched", failed |-> TRUE],
                        [status |-> "dispatched",     failed |-> TRUE],
                        [status |-> "acknowledged",   failed |-> FALSE],
                        [status |-> "acknowledged",   failed |-> TRUE]}

\* No answer, an answer that is not 2xx, a 2xx answer, and a 2xx answer
\* whose body could not be read.
Answers == {[status |-> "unknown",      failed |-> TRUE],
            [status |-> "dispatched",   failed |-> TRUE],
            [status |-> "acknowledged", failed |-> FALSE],
            [status |-> "acknowledged", failed |-> TRUE]}

\* Mutant: the client sends the request again when no answer came.
DispatchRetries(r, answer, matches) ==
  /\ pc[r] = "calling"
  /\ \/ answer.status # "unknown" /\ Dispatched(r, answer.status, matches, answer.failed)
     \/ /\ answer.status = "unknown"
        /\ Goto(r, "dispatch")
        /\ UNCHANGED <<journal, input, cancelled, outages, admission, dispatch, outcome,
                       errs, calls>>

DispatchReturns(r, answer, matches) ==
  /\ pc[r] = "calling"
  /\ Dispatched(r, answer.status, matches, answer.failed)

RecordDispatch(r, ok) ==
  /\ pc[r] = "record_dispatch"
  /\ appendAfterIO(r, dispatchEvents(r), ok)
  /\ outcome' = [outcome EXCEPT ![r] = [admission |-> admission[r],
                                        dispatch  |-> dispatch[r],
                                        effect    |-> EffectOf(dispatch[r])]]
  /\ Return(r, IF ok THEN {} ELSE {"record"})
  /\ UNCHANGED <<input, cancelled, admission, dispatch, calls>>

------------------------------------------------------------------------------
(* The environment.                                                        *)

InFlight == {r \in Requests : pc[r] \in Preparing \cup Running}

Cancel(r) ==
  /\ r \in InFlight \ cancelled
  /\ cancelled' = cancelled \cup {r}
  /\ UNCHANGED <<journal, pc, input, outages, admission, dispatch, outcome, errs, calls>>

Crash ==
  /\ InFlight # {}
  /\ pc' = [r \in Requests |-> IF r \in InFlight THEN "crashed" ELSE pc[r]]
  /\ UNCHANGED <<journal, input, cancelled, outages, admission, dispatch, outcome, errs, calls>>

------------------------------------------------------------------------------

Step(r) ==
  \/ ReadFails(r)
  \/ ReadPrevious(r)
  \/ ReadAction(r)
  \/ Begin(r)
  \/ BeginRefused(r)
  \/ BeginFails(r)
  \/ BeginUncertain(r)
  \/ \E status \in AdmissionStatus \cup {"invalid"}, failed \in BOOLEAN :
       Admit(r, status, failed)
  \/ RecordAdmission(r)
  \/ \E ok \in BOOLEAN : RecordNotDispatched(r, ok)
  \/ Resolve(r)
  \/ DispatchRefused(r)
  \/ DispatchUnsent(r)
  \/ callService(r)
  \/ \E answer \in Answers, matches \in BOOLEAN : DispatchReturns(r, answer, matches)
  \/ \E ok \in BOOLEAN : RecordDispatch(r, ok)

CallNext ==
  \E r \in Requests : Execute(r) \/ Recover(r) \/ Step(r) \/ Cancel(r)

Next == CallNext \/ Crash

Spec == Init /\ [][Next]_vars

\* A goroutine that can run runs: every wait of a call (journal, admitter,
\* provider) ends, if only by its timeout.
FairSpec == Spec /\ \A r \in Requests : WF_vars(Step(r))

------------------------------------------------------------------------------
(* Properties.                                                             *)

\* The call claimed its attempt: its attempt-started fact is durable.
Owns(r) == attemptStartedEvent(r) \in facts

(* Exactly-one-owner dispatch: however many calls name the same AttemptID, *)
(* concurrently, after a crash or as a retry, at most one REST request is  *)
(* ever sent for it ("Duplicate AttemptIDs are rejected before admission,  *)
(* resolution, or provider I/O", ExecuteAction.Execute).                   *)
AtMostOneCallPerAttempt ==
  \A r, s \in Requests :
    calls[r] > 0 /\ calls[s] > 0 /\ attemptID(r) = attemptID(s) => r = s /\ calls[r] = 1

(* Write-ahead: when a request has left the process, the journal already   *)
(* holds the claim, the attempt-started fact, the admission fact and the   *)
(* very intent that was sent (the order of execute).                       *)
CallIsWrittenAhead ==
  \A r \in Requests : calls[r] > 0 =>
    /\ attemptID(r) \in Claimed
    /\ attemptStartedEvent(r) \in facts
    /\ newEvent(r, "action_admitted", "none") \in facts
    /\ actions[action(r).id] = action(r).intent

(* Durable dispatch evidence is true of the world: an attempt recorded as  *)
(* rejected or not dispatched has sent nothing, whoever else tried to      *)
(* execute it, and one recorded as dispatched or acknowledged has          *)
(* (notDispatchedEvent, dispatchEvents).                                   *)
DispatchFactsAreTrue ==
  \A f \in facts :
    LET sent == \E r \in Requests : attemptID(r) = f.attemptID /\ calls[r] > 0
    IN /\ f.kind \in {"not_dispatched", "action_rejected"} => ~sent
       /\ f.kind \in {"action_dispatched", "provider_acknowledged"} => sent

(* The journal never holds two contradictory claims about an attempt, so   *)
(* the projection of what execute wrote is never conflicted: one ActionID, *)
(* one admission, one dispatch fact per AttemptID.                         *)
AttemptHistoryIsCoherent ==
  \A f, g \in facts : f.attemptID = g.attemptID =>
    /\ f.actionID = g.actionID
    /\ f.content = g.content
    /\ {f.kind, g.kind} # {"action_admitted", "action_rejected"}
    /\ f.kind \in DispatchKinds /\ g.kind \in DispatchKinds => f = g

(* A recovery attempt is linked: the journal holds its authorization, and  *)
(* the attempt it recovers was claimed before it for the same ActionID     *)
(* (Recover reads the journal, then execute claims).                       *)
RecoveryIsLinked ==
  \A r \in Requests : Owns(r) /\ IsRecovery(r) =>
    /\ recoveryAuthorizedEvent(r) \in facts
    /\ \E i, j \in DOMAIN attempts :
         i < j /\ attempts[i] = recoveryOf(r) /\ attempts[j] = attemptID(r)
    /\ \A f \in EventsByAttempt(recoveryOf(r)) : f.actionID = action(r).id

(* What a call returns never understates or invents a dispatch, also when  *)
(* recording it failed: "not dispatched" means nothing was sent, and a sent*)
(* request is never reported as not dispatched (result.Outcome).           *)
ReturnedOutcomeIsSound ==
  \A r \in Requests : pc[r] = "done" =>
    /\ outcome[r].dispatch = "not_dispatched" => calls[r] = 0
    /\ outcome[r].dispatch \in {"dispatched", "acknowledged"} => calls[r] = 1

(* A cancelled client loses no evidence: a call that claimed its attempt   *)
(* and returned has its dispatch fact on record, equal to the outcome it   *)
(* returned, unless the storage itself failed (appendAfterIO detaches the  *)
(* record from the caller's context).                                      *)
ReturnedOutcomeIsRecorded ==
  \A r \in Requests : pc[r] = "done" /\ Owns(r) /\ r \notin outages =>
    newEvent(r, DispatchKind(outcome[r].dispatch), "none") \in facts

(* History is append-only: no step removes or changes a fact, reorders the *)
(* claims or replaces a registered intent.                                 *)
HistoryIsAppendOnly ==
  [][ /\ facts \subseteq facts'
      /\ Len(attempts') >= Len(attempts)
      /\ \A i \in DOMAIN attempts : attempts'[i] = attempts[i]
      /\ \A a \in ActionIDs : actions[a] # NoIntent => actions'[a] = actions[a] ]_vars

(* Every call that claimed an attempt settles it: unless its process       *)
(* crashes or the storage fails, the attempt gets a dispatch fact and is   *)
(* no longer incomplete.                                                   *)
ClaimIsSettled ==
  \A r \in Requests :
    Owns(r) ~> \/ \E kind \in DispatchKinds : newEvent(r, kind, "none") \in facts
               \/ pc[r] = "crashed"
               \/ r \in outages

(* RFC 0007: "physical ambiguity always requires explicit recovery".  Once *)
(* a dispatch-unknown fact is on record for an Action, only an authorized  *)
(* recovery sends another request for it.                                  *)
AmbiguityNeedsRecovery ==
  [][ \A r \in Requests :
        calls'[r] > calls[r]
          /\ (\E f \in facts : f.actionID = action(r).id /\ f.kind = "dispatch_unknown")
        => IsRecovery(r) ]_vars

(* RecoveryAuthorizationSpec: a decision "permits one new attempt after an *)
(* earlier attempt".                                                       *)
AuthorizationIsUsedOnce ==
  \A r, s \in Requests :
    Owns(r) /\ Owns(s) /\ IsRecovery(r) /\ authorization(r) = authorization(s) => r = s
==============================================================================
