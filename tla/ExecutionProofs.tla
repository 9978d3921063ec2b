--------------------------- MODULE ExecutionProofs ---------------------------
(***************************************************************************)
(* Proofs about Execution for any sets of calls, actions, intents,         *)
(* attempts and decisions.                                                 *)
(***************************************************************************)
EXTENDS Execution, TLAPS

------------------------------------------------------------------------------
(* Type correctness.                                                       *)

\* A fact built by newEvent is an Event.
LEMMA EventIsTyped ==
  ASSUME TypeOK, NEW r \in Requests, NEW kind \in EventKind, NEW q \in Qualifiers
  PROVE  newEvent(r, kind, q) \in Event
BY InputsAssumption
   DEF TypeOK, newEvent, Event, action, attemptID, Input, Action

Labels == {"idle"} \cup Preparing \cup Running \cup Ended

\* A call that returns keeps labels and error stages in their types.
LEMMA ReturnIsTyped ==
  ASSUME TypeOK, NEW r \in Requests, NEW S \in SUBSET Causes, Return(r, S)
  PROVE  pc' \in [Requests -> Labels] /\ errs' \in [Requests -> SUBSET Causes]
BY DEF TypeOK, Return, Labels, Ended

\* A call that goes on keeps its label in its type.
LEMMA GotoIsTyped ==
  ASSUME TypeOK, NEW r \in Requests, NEW label \in Labels, Goto(r, label)
  PROVE  pc' \in [Requests -> Labels]
BY DEF TypeOK, Goto, Labels

\* A noted error stage keeps the errors in their type.
LEMMA ErrorIsTyped ==
  ASSUME TypeOK, NEW r \in Requests, NEW stage \in Causes,
         errs' = errs \/ errs' = [errs EXCEPT ![r] = @ \cup {stage}]
  PROVE  errs' \in [Requests -> SUBSET Causes]
BY DEF TypeOK

\* A claim keeps the journal in its type.
LEMMA ClaimIsTyped ==
  ASSUME TypeOK, NEW r \in Requests,
         BeginAttempt(action(r), attemptID(r), InitialEvents(r))
  PROVE  JournalTypeOK'
<1>1. InitialEvents(r) \subseteq Event
  BY EventIsTyped DEF InitialEvents, actionRequestedEvent, attemptStartedEvent,
     recoveryAuthorizedEvent, EventKind, Qualifiers
<1>2. action(r) \in Action /\ attemptID(r) \in AttemptIDs
  BY InputsAssumption DEF TypeOK, action, attemptID, Input
<1> QED
  BY <1>1, <1>2 DEF BeginAttempt, TypeOK, JournalTypeOK, Action

\* The variables start in their types.
LEMMA TypeInit ==
  ASSUME Init
  PROVE  TypeOK
BY DEF Init, JournalInit, TypeOK, JournalTypeOK, AdmissionStatus, DispatchStatus,
       EffectStatus, Outcome, NothingKnown

\* Every step of the use cases keeps the variables in their types.
LEMMA TypeStep ==
  ASSUME TypeOK, [Next]_vars
  PROVE  TypeOK'
<1>1. CASE UNCHANGED vars
  BY <1>1 DEF vars, journal, local, TypeOK, JournalTypeOK
<1>2. CASE Crash
  BY <1>2 DEF Crash, journal, TypeOK, JournalTypeOK, InFlight, Ended
<1>3. ASSUME NEW r \in Requests, Execute(r) \/ Recover(r) \/ Cancel(r)
      PROVE  TypeOK'
  <2>1. CASE Execute(r)
    BY <2>1 DEF Execute, Goto, journal, TypeOK, JournalTypeOK, Preparing
  <2>2. CASE Recover(r)
    <3>1. pc' \in [Requests -> Labels] /\ errs' \in [Requests -> SUBSET Causes]
      BY <2>2, ReturnIsTyped, GotoIsTyped DEF Recover, TypeOK, Labels, Preparing, Causes
    <3> QED
      BY <2>2, <3>1 DEF Recover, journal, TypeOK, JournalTypeOK, Labels
  <2>3. CASE Cancel(r)
    BY <2>3 DEF Cancel, InFlight, journal, TypeOK, JournalTypeOK
  <2> QED BY <1>3, <2>1, <2>2, <2>3
<1>4. ASSUME NEW r \in Requests, Step(r) PROVE TypeOK'
  <2>1. CASE ReadFails(r)
    BY <2>1 DEF ReadFails, Return, journal, TypeOK, JournalTypeOK, Ended, Causes
  <2>2. CASE ReadPrevious(r)
    <3>1. pc' \in [Requests -> Labels] /\ errs' \in [Requests -> SUBSET Causes]
      BY <2>2, ReturnIsTyped, GotoIsTyped DEF ReadPrevious, TypeOK, Labels, Preparing, Causes
    <3> QED
      BY <2>2, <3>1 DEF ReadPrevious, journal, TypeOK, JournalTypeOK, Labels
  <2>3. CASE ReadAction(r)
    <3>1. pc' \in [Requests -> Labels] /\ errs' \in [Requests -> SUBSET Causes]
      BY <2>3, ReturnIsTyped, GotoIsTyped DEF ReadAction, TypeOK, Labels, Preparing, Causes
    <3> QED
      BY <2>3, <3>1 DEF ReadAction, journal, TypeOK, JournalTypeOK, Labels
  <2>4. CASE Begin(r)
    <3>1. JournalTypeOK'
      BY <2>4, ClaimIsTyped DEF Begin
    <3> QED
      BY <2>4, <3>1 DEF Begin, Goto, TypeOK, Running
  <2>5. CASE BeginRefused(r)
    <3>1. pc' \in [Requests -> Labels] /\ errs' \in [Requests -> SUBSET Causes]
      BY <2>5, ReturnIsTyped DEF BeginRefused, Causes
    <3> QED
      BY <2>5, <3>1 DEF BeginRefused, journal, TypeOK, JournalTypeOK, Labels
  <2>6. CASE BeginFails(r)
    BY <2>6 DEF BeginFails, Return, journal, TypeOK, JournalTypeOK, Ended, Causes
  <2>6a. CASE BeginUncertain(r)
    <3>1. JournalTypeOK'
      BY <2>6a, ClaimIsTyped DEF BeginUncertain
    <3> QED
      BY <2>6a, <3>1 DEF BeginUncertain, Return, TypeOK, Ended, Causes
  <2>7. ASSUME NEW status \in AdmissionStatus \cup {"invalid"}, NEW failed \in BOOLEAN,
               Admit(r, status, failed)
        PROVE  TypeOK'
    BY <2>7 DEF Admit, Goto, journal, TypeOK, JournalTypeOK, Running, Causes, AdmissionStatus
  <2>8. CASE RecordAdmission(r)
    <3>1. admissionEvent(r) \in Event
      BY EventIsTyped DEF admissionEvent, EventKind, Qualifiers
    <3>2. JournalTypeOK' /\ outages' \subseteq Requests
      BY <2>8, <3>1 DEF RecordAdmission, appendAfterIO, AppendAll, journal, TypeOK, JournalTypeOK
    <3>3. pc' \in [Requests -> Labels] /\ errs' \in [Requests -> SUBSET Causes]
      BY <2>8, ReturnIsTyped, GotoIsTyped DEF RecordAdmission, TypeOK, Labels, Running, Causes
    <3> QED
      BY <2>8, <3>2, <3>3 DEF RecordAdmission, TypeOK, Labels
  <2>9. ASSUME NEW ok \in BOOLEAN, RecordNotDispatched(r, ok) PROVE TypeOK'
    <3>1. notDispatchedEvent(r) \in Event
      BY EventIsTyped DEF notDispatchedEvent, EventKind, Qualifiers
    <3>2. JournalTypeOK' /\ outages' \subseteq Requests
      BY <2>9, <3>1 DEF RecordNotDispatched, appendAfterIO, AppendAll, journal, TypeOK, JournalTypeOK
    <3> QED
      BY <2>9, <3>2 DEF RecordNotDispatched, Return, TypeOK, Ended, Causes, Outcome,
         DispatchStatus, EffectStatus
  <2>10. CASE Resolve(r)
    <3>1. pc' \in [Requests -> Labels] /\ errs' \in [Requests -> SUBSET Causes]
      BY <2>10, GotoIsTyped, ErrorIsTyped DEF Resolve, Labels, Running, Causes
    <3> QED
      BY <2>10, <3>1 DEF Resolve, journal, TypeOK, JournalTypeOK, Labels
  <2>11. CASE DispatchRefused(r)
    BY <2>11 DEF DispatchRefused, Dispatched, normalizeDispatch, Goto, journal, TypeOK,
       JournalTypeOK, Running, Causes, DispatchStatus
  <2>12. CASE DispatchUnsent(r)
    BY <2>12 DEF DispatchUnsent, Dispatched, normalizeDispatch, Goto, journal, TypeOK,
       JournalTypeOK, Running, Causes, DispatchStatus
  <2>13. CASE callService(r)
    BY <2>13 DEF callService, Goto, journal, TypeOK, JournalTypeOK, Running
  <2>14. ASSUME NEW answer \in Answers, NEW matches \in BOOLEAN,
                DispatchReturns(r, answer, matches)
         PROVE  TypeOK'
    <3>1. answer.status \in DispatchStatus
      BY DEF Answers, DispatchStatus
    <3>2. pc' \in [Requests -> Labels] /\ errs' \in [Requests -> SUBSET Causes]
      <4>1. Goto(r, "record_dispatch") /\ "record_dispatch" \in Labels /\ "dispatch" \in Causes
        BY <2>14 DEF DispatchReturns, Dispatched, Labels, Running, Causes
      <4>2. errs' = errs \/ errs' = [errs EXCEPT ![r] = @ \cup {"dispatch"}]
        BY <2>14 DEF DispatchReturns, Dispatched
      <4> QED BY <4>1, <4>2, GotoIsTyped, ErrorIsTyped
    <3>3. dispatch' \in [Requests -> DispatchStatus]
      BY <2>14, <3>1 DEF DispatchReturns, Dispatched, normalizeDispatch, TypeOK, DispatchStatus
    <3> QED
      BY <2>14, <3>2, <3>3 DEF DispatchReturns, Dispatched, journal, TypeOK, JournalTypeOK, Labels
  <2>15. ASSUME NEW ok \in BOOLEAN, RecordDispatch(r, ok) PROVE TypeOK'
    <3>1. dispatchEvents(r) \subseteq Event
      BY EventIsTyped DEF dispatchEvents, DispatchKind, EventKind, Qualifiers
    <3>2. JournalTypeOK' /\ outages' \subseteq Requests
      BY <2>15, <3>1 DEF RecordDispatch, appendAfterIO, AppendAll, journal, TypeOK, JournalTypeOK
    <3> QED
      BY <2>15, <3>2 DEF RecordDispatch, EffectOf, Return, TypeOK, Ended, Causes, Outcome,
         EffectStatus
  <2> QED
    BY <1>4, <2>1, <2>2, <2>3, <2>4, <2>5, <2>6, <2>6a, <2>7, <2>8, <2>9, <2>10, <2>11, <2>12,
       <2>13, <2>14, <2>15 DEF Step
<1> QED
  BY <1>1, <1>2, <1>3, <1>4 DEF Next, CallNext

(* The type invariant holds in every reachable state of the use cases.     *)
THEOREM TypeCorrect == Spec => []TypeOK
<1>1. Init => TypeOK
  BY TypeInit
<1>2. TypeOK /\ [Next]_vars => TypeOK'
  BY TypeStep
<1> QED BY <1>1, <1>2, PTL DEF Spec

------------------------------------------------------------------------------
(* The inductive invariant.                                                *)
(*                                                                         *)
(* The properties speak of facts and calls of an AttemptID.  What makes    *)
(* them true is that at most one call ever owns an AttemptID and that only *)
(* the owner writes about it.  So the invariant says what each call has on *)
(* record at each point of execute (Steady), and that the journal holds    *)
(* nothing but facts of owners, one per AttemptID (Owned).                 *)

\* The kinds of unqualified facts a call has on record.
Recorded == [r \in Requests |-> {k \in EventKind : newEvent(r, k, "none") \in facts}]

AdmissionKinds == {"action_admitted", "action_rejected"}
SentKinds == {"action_dispatched", "provider_acknowledged"}

Steady(r) ==
  /\ pc[r] \in {"idle"} \cup Preparing => Recorded[r] = {} /\ calls[r] = 0
  /\ pc[r] \in Running => "attempt_started" \in Recorded[r]
  /\ Recorded[r] # {} => "attempt_started" \in Recorded[r]
  /\ pc[r] \in {"admit", "record_admission"} =>
       Recorded[r] \cap AdmissionKinds = {}
  /\ pc[r] \in Running => Recorded[r] \cap DispatchKinds = {}
  /\ pc[r] \in {"resolve", "dispatch", "calling", "record_dispatch"} =>
       "action_admitted" \in Recorded[r]
  /\ ~(AdmissionKinds \subseteq Recorded[r])
  /\ \A j, k \in Recorded[r] \cap DispatchKinds : j = k
  /\ calls[r] \in {0, 1}
  /\ calls[r] = 1 => /\ "action_admitted" \in Recorded[r]
                     /\ "not_dispatched" \notin Recorded[r]
                     /\ pc[r] \in {"calling", "record_dispatch"} \cup Ended
  /\ pc[r] = "calling" => calls[r] = 1
  /\ pc[r] = "record_dispatch" =>
       /\ dispatch[r] = "not_dispatched" => calls[r] = 0
       /\ dispatch[r] \in {"dispatched", "acknowledged"} => calls[r] = 1
  /\ Recorded[r] \cap SentKinds # {} => calls[r] = 1
  /\ outcome[r].dispatch = "not_dispatched" => pc[r] \in Ended /\ calls[r] = 0
  /\ outcome[r].dispatch \in {"dispatched", "acknowledged"} =>
       pc[r] \in Ended /\ calls[r] = 1

Owner(r) == "attempt_started" \in Recorded[r]

Owned ==
  /\ \A f \in facts :
       /\ f = newEvent(f.content, f.kind, f.qualifier)
       /\ Owner(f.content)
       /\ f.kind \in {"attempt_started"} \cup AdmissionKinds \cup DispatchKinds
            => f.qualifier = "none"
  /\ \A r, s \in Requests :
       Owner(r) /\ Owner(s) /\ attemptID(r) = attemptID(s) => r = s
  /\ \A r \in Requests : Owner(r) =>
       /\ attemptID(r) \in Claimed
       /\ actions[action(r).id] = action(r).intent

IInv == (\A r \in Requests : Steady(r)) /\ Owned

------------------------------------------------------------------------------
(* How a step changes what is on record.                                   *)

\* The fields of a fact built by newEvent.
LEMMA EventFields ==
  \A r, k, q : /\ newEvent(r, k, q).content = r
               /\ newEvent(r, k, q).kind = k
               /\ newEvent(r, k, q).qualifier = q
BY DEF newEvent

\* Without an append nothing on record changes.
LEMMA RecordedUnchanged ==
  ASSUME input' = input, facts' = facts
  PROVE  Recorded' = Recorded
BY DEF Recorded, newEvent, action, attemptID

\* An append of a call's facts extends its own record and no other's.
LEMMA RecordedGrows ==
  ASSUME NEW r \in Requests, NEW E, \A e \in E : e.content = r,
         input' = input, facts' = facts \cup E
  PROVE  Recorded' = [Recorded EXCEPT ![r] = @ \cup {k \in EventKind : newEvent(r, k, "none") \in E}]
<1>1. ASSUME NEW s \in Requests, NEW k \in EventKind
      PROVE  newEvent(s, k, "none").content = s /\ (newEvent(s, k, "none"))' = newEvent(s, k, "none")
  BY DEF newEvent, action, attemptID
<1>2. ASSUME NEW s \in Requests
      PROVE  {k \in EventKind : newEvent(s, k, "none") \in facts}'
               = IF s = r
                 THEN {k \in EventKind : newEvent(s, k, "none") \in facts}
                        \cup {k \in EventKind : newEvent(r, k, "none") \in E}
                 ELSE {k \in EventKind : newEvent(s, k, "none") \in facts}
  BY <1>1
<1> QED
  BY <1>2 DEF Recorded

\* A call whose own state and record are untouched stays steady.
LEMMA SteadyElsewhere ==
  ASSUME NEW s \in Requests, Steady(s),
         pc'[s] = pc[s], Recorded'[s] = Recorded[s], calls'[s] = calls[s],
         dispatch'[s] = dispatch[s], outcome'[s] = outcome[s]
  PROVE  Steady(s)'
BY DEF Steady

\* A step of r that leaves the journal alone.
LEMMA OwnedUnchanged ==
  ASSUME Owned, UNCHANGED <<journal, input>>
  PROVE  Owned'
<1>1. Recorded' = Recorded
  BY RecordedUnchanged DEF journal
<1> QED
  BY <1>1 DEF Owned, Owner, journal, newEvent, action, attemptID, Claimed

\* An owner adds facts of its own.
LEMMA OwnedAppend ==
  ASSUME TypeOK, Owned, NEW r \in Requests, Owner(r), NEW E,
         \A e \in E : /\ e = newEvent(r, e.kind, e.qualifier) /\ e.content = r
                      /\ e.kind # "attempt_started"
                      /\ e.kind \in AdmissionKinds \cup DispatchKinds => e.qualifier = "none",
         input' = input, facts' = facts \cup E, UNCHANGED <<actions, attempts>>
  PROVE  Owned'
<1>2. Recorded' = [Recorded EXCEPT ![r] = @ \cup {k \in EventKind : newEvent(r, k, "none") \in E}]
  BY RecordedGrows
<1>3. newEvent(r, "attempt_started", "none") \notin E
  BY DEF newEvent
<1>4. \A s \in Requests : Owner(s)' <=> Owner(s)
  BY <1>2, <1>3 DEF Owner, Recorded
<1>5. \A f \in facts : f.content \in Requests
  BY DEF TypeOK, JournalTypeOK, Event
<1>6. \A f \in facts' :
        /\ f = (newEvent(f.content, f.kind, f.qualifier))'
        /\ Owner(f.content)'
        /\ f.kind \in {"attempt_started"} \cup AdmissionKinds \cup DispatchKinds
             => f.qualifier = "none"
  <2> TAKE f \in facts'
  <2>1. CASE f \in facts
    BY <2>1, <1>4, <1>5 DEF Owned, newEvent, action, attemptID
  <2>2. CASE f \in E
    BY <2>2, <1>4 DEF newEvent, action, attemptID
  <2> QED BY <2>1, <2>2
<1>7. ASSUME NEW s \in Requests, NEW t \in Requests,
             Owner(s)', Owner(t)', attemptID(s)' = attemptID(t)'
      PROVE  s = t
  <2>1. Owner(s) /\ Owner(t) /\ attemptID(s) = attemptID(t)
    BY <1>4, <1>7 DEF attemptID
  <2> QED BY <2>1 DEF Owned
<1>8. ASSUME NEW s \in Requests, Owner(s)'
      PROVE  (attemptID(s) \in Claimed)' /\ (actions[action(s).id] = action(s).intent)'
  <2>1. attemptID(s) \in Claimed /\ actions[action(s).id] = action(s).intent
    BY <1>4, <1>8 DEF Owned
  <2> QED BY <2>1 DEF Claimed, action, attemptID
<1> QED
  BY <1>6, <1>7, <1>8 DEF Owned

\* The claim makes r the only owner of its AttemptID.
LEMMA OwnedBegin ==
  ASSUME TypeOK, Owned, NEW r \in Requests, input' = input,
         BeginAttempt(action(r), attemptID(r), InitialEvents(r))
  PROVE  Owned' /\ Recorded' = [Recorded EXCEPT ![r] = @ \cup {"attempt_started"}
                                   \cup (IF IsRecovery(r) THEN {"recovery_authorized"} ELSE {})]
<1> DEFINE E == InitialEvents(r)
<1>a. E \subseteq {newEvent(r, "action_requested", "attempt"), newEvent(r, "attempt_started", "none"),
                   newEvent(r, "recovery_authorized", "none")}
  BY DEF InitialEvents, actionRequestedEvent, attemptStartedEvent, recoveryAuthorizedEvent
<1>b. ASSUME NEW e \in E
      PROVE  /\ e = newEvent(r, e.kind, e.qualifier)
             /\ e.content = r
             /\ e.kind \in {"action_requested", "attempt_started", "recovery_authorized"}
             /\ e.kind = "attempt_started" => e.qualifier = "none"
  <2>1. CASE e = newEvent(r, "action_requested", "attempt")
    BY <2>1, EventFields
  <2>2. CASE e = newEvent(r, "attempt_started", "none")
    BY <2>2, EventFields
  <2>3. CASE e = newEvent(r, "recovery_authorized", "none")
    BY <2>3, EventFields
  <2> QED BY <1>a, <2>1, <2>2, <2>3
<1>1. \A e \in E : e = newEvent(r, e.kind, e.qualifier) /\ e.content = r
  BY <1>b
<1>2. \A e \in E : e.kind \in {"action_requested", "attempt_started", "recovery_authorized"}
  BY <1>b
<1>3. \A e \in E : e.kind = "attempt_started" => e.qualifier = "none"
  BY <1>b
<1>4. {k \in EventKind : newEvent(r, k, "none") \in E}
        = {"attempt_started"} \cup (IF IsRecovery(r) THEN {"recovery_authorized"} ELSE {})
  BY DEF InitialEvents, actionRequestedEvent, attemptStartedEvent, recoveryAuthorizedEvent,
     newEvent, EventKind
<1>5. input' = input /\ facts' = facts \cup E
  BY DEF BeginAttempt
<1>6. Recorded' = [Recorded EXCEPT ![r] = @ \cup {k \in EventKind : newEvent(r, k, "none") \in E}]
  BY <1>1, <1>5, RecordedGrows
<1>7. \A s \in Requests : Owner(s)' <=> Owner(s) \/ s = r
  BY <1>4, <1>6 DEF Owner, Recorded
<1>8. \A f \in facts : f.content \in Requests
  BY DEF TypeOK, JournalTypeOK, Event
<1>9. \A f \in facts' :
        /\ f = (newEvent(f.content, f.kind, f.qualifier))'
        /\ Owner(f.content)'
        /\ f.kind \in {"attempt_started"} \cup AdmissionKinds \cup DispatchKinds
             => f.qualifier = "none"
  <2> TAKE f \in facts'
  <2>1. CASE f \in facts
    BY <2>1, <1>5, <1>7, <1>8 DEF Owned, newEvent, action, attemptID
  <2>2. CASE f \in E
    <3>1. f = newEvent(r, f.kind, f.qualifier) /\ f.content = r
      BY <2>2, <1>1
    <3>2. f.kind \in {"attempt_started"} \cup AdmissionKinds \cup DispatchKinds => f.qualifier = "none"
      BY <2>2, <1>2, <1>3 DEF AdmissionKinds, DispatchKinds
    <3> QED
      BY <3>1, <3>2, <1>5, <1>7 DEF newEvent, action, attemptID
  <2> QED BY <1>5, <2>1, <2>2
<1>10. BeginResult(action(r), attemptID(r), E) = "claimed"
  BY DEF BeginAttempt
<1>11. attemptID(r) \notin Claimed /\ actions[action(r).id] \in {NoIntent, action(r).intent}
  BY <1>10 DEF BeginResult, ActionConflict
<1>12. ASSUME NEW s \in Requests, NEW t \in Requests,
              Owner(s)', Owner(t)', attemptID(s)' = attemptID(t)'
       PROVE  s = t
  <2>1. attemptID(s) = attemptID(t)
    BY <1>5, <1>12 DEF attemptID
  <2>2. (Owner(s) \/ s = r) /\ (Owner(t) \/ t = r)
    BY <1>7, <1>12
  <2>3. \A u \in Requests : Owner(u) => attemptID(u) \in Claimed
    BY DEF Owned
  <2> QED BY <2>1, <2>2, <2>3, <1>11 DEF Owned
<1>13. ASSUME NEW s \in Requests, Owner(s)'
       PROVE  (attemptID(s) \in Claimed)' /\ (actions[action(s).id] = action(s).intent)'
  <2>1. Claimed' = Claimed \cup {attemptID(r)}
    <3>1. attempts' = Append(attempts, attemptID(r)) /\ attempts \in Seq(AttemptIDs)
      BY DEF Begin, BeginAttempt, TypeOK, JournalTypeOK
    <3>2. attemptID(r) \in AttemptIDs
      BY InputsAssumption DEF TypeOK, attemptID, Input
    <3>3. /\ Len(attempts') = Len(attempts) + 1
          /\ attempts'[Len(attempts) + 1] = attemptID(r)
          /\ \A i \in 1 .. Len(attempts) : attempts'[i] = attempts[i]
          /\ DOMAIN attempts' = 1 .. Len(attempts) + 1
          /\ DOMAIN attempts = 1 .. Len(attempts)
      BY <3>1, <3>2
    <3> QED BY <3>1, <3>3 DEF Claimed
  <2>2. attemptID(s)' = attemptID(s) /\ action(s)' = action(s)
    BY <1>5 DEF attemptID, action
  <2>3. action(s) \in Action /\ action(r) \in Action
    BY InputsAssumption DEF TypeOK, action, Input
  <2>4. Owner(s) => attemptID(s) \in Claimed /\ actions[action(s).id] = action(s).intent
    BY DEF Owned
  <2>5. attemptID(s)' \in Claimed'
    BY <1>7, <1>13, <2>1, <2>2, <2>4
  <2>6. actions' = [actions EXCEPT ![action(r).id] = action(r).intent]
        /\ actions \in [ActionIDs -> Intents \cup {NoIntent}]
    BY DEF Begin, BeginAttempt, TypeOK, JournalTypeOK
  <2>7. actions'[action(s).id] = action(s).intent
    <3>1. CASE s = r
      BY <3>1, <2>3, <2>6 DEF Action
    <3>2. CASE Owner(s)
      BY <3>2, <2>3, <2>4, <2>6, <1>11, NoIntentAssumption DEF Action
    <3> QED BY <3>1, <3>2, <1>7, <1>13
  <2> QED BY <2>2, <2>5, <2>7
<1> QED
  BY <1>4, <1>6, <1>9, <1>12, <1>13 DEF Owned

------------------------------------------------------------------------------
(* Every step keeps the invariant.                                         *)

\* Only r moves, and only r writes.
OnlyMoves(r) ==
  \A s \in Requests \ {r} :
    /\ pc'[s] = pc[s]
    /\ Recorded'[s] = Recorded[s]
    /\ calls'[s] = calls[s]
    /\ dispatch'[s] = dispatch[s]
    /\ outcome'[s] = outcome[s]

\* A step of one call keeps IInv if it keeps that call steady and the journal owned.
LEMMA OneCallMoves ==
  ASSUME IInv, NEW r \in Requests, OnlyMoves(r), Steady(r)', Owned'
  PROVE  IInv'
<1>1. ASSUME NEW s \in Requests PROVE Steady(s)'
  <2>1. CASE s = r
    BY <2>1
  <2>2. CASE s # r
    BY <2>2, SteadyElsewhere DEF OnlyMoves, IInv
  <2> QED BY <2>1, <2>2
<1> QED BY <1>1 DEF IInv

\* Steps before the claim, and the refusals: nothing is written.
LEMMA PreparationKeepsIInv ==
  ASSUME TypeOK, IInv, NEW r \in Requests,
         Execute(r) \/ Recover(r) \/ ReadFails(r) \/ ReadPrevious(r) \/ ReadAction(r)
           \/ BeginRefused(r) \/ BeginFails(r)
  PROVE  IInv'
<1>1. /\ UNCHANGED <<journal, input, calls, dispatch, outcome>>
      /\ pc[r] \in {"idle"} \cup Preparing
      /\ pc'[r] \in Preparing \cup {"done"}
      /\ \A s \in Requests \ {r} : pc'[s] = pc[s]
  BY DEF Execute, Recover, ReadFails, ReadPrevious, ReadAction, BeginRefused, BeginFails,
     Return, Goto, TypeOK, Preparing
<1>2. Recorded' = Recorded
  BY <1>1, RecordedUnchanged DEF journal
<1>3. OnlyMoves(r)
  BY <1>1, <1>2 DEF OnlyMoves
<1>4. Steady(r)
  BY DEF IInv
<1>5. Steady(r)'
  BY <1>1, <1>2, <1>4 DEF Steady, Preparing, Running, Ended, AdmissionKinds, DispatchKinds, SentKinds
<1>6. Owned'
  BY <1>1, OwnedUnchanged DEF IInv
<1> QED BY <1>3, <1>5, <1>6, OneCallMoves

\* The claim of an attempt (BeginAttempt in execute) keeps IInv, also when the
\* call is told that it failed.
LEMMA BeginKeepsIInv ==
  ASSUME TypeOK, IInv, NEW r \in Requests, Begin(r) \/ BeginUncertain(r)
  PROVE  IInv'
<1>1. Owned' /\ Recorded' = [Recorded EXCEPT ![r] = @ \cup {"attempt_started"}
                               \cup (IF IsRecovery(r) THEN {"recovery_authorized"} ELSE {})]
  BY OwnedBegin DEF IInv, Begin, BeginUncertain
<1>2. /\ UNCHANGED <<input, calls, dispatch, outcome>>
      /\ pc[r] = "begin"
      /\ pc'[r] \in {"admit", "done"}
      /\ \A s \in Requests \ {r} : pc'[s] = pc[s]
  BY DEF Begin, BeginUncertain, Goto, Return, TypeOK
<1>3. OnlyMoves(r)
  BY <1>1, <1>2 DEF OnlyMoves, Recorded
<1>4. Steady(r) /\ Recorded[r] = {}
  BY <1>2 DEF IInv, Steady, Preparing
<1>5. Recorded'[r] \subseteq {"attempt_started", "recovery_authorized"} /\ "attempt_started" \in Recorded'[r]
  BY <1>1, <1>4 DEF Recorded
<1>6. Steady(r)'
  BY <1>2, <1>4, <1>5 DEF Steady, Preparing, Running, Ended, AdmissionKinds, DispatchKinds, SentKinds
<1> QED BY <1>1, <1>3, <1>6, OneCallMoves

\* Steps after the claim that write nothing.
LEMMA QuietStepKeepsIInv ==
  ASSUME TypeOK, IInv, NEW r \in Requests,
         \/ \E status \in AdmissionStatus \cup {"invalid"}, failed \in BOOLEAN :
              Admit(r, status, failed)
         \/ Resolve(r)
         \/ DispatchRefused(r)
         \/ DispatchUnsent(r)
         \/ callService(r)
         \/ \E answer \in Answers, matches \in BOOLEAN : DispatchReturns(r, answer, matches)
  PROVE  IInv'
<1>1. UNCHANGED <<journal, input, outcome>>
  BY DEF Admit, Resolve, DispatchRefused, DispatchUnsent, callService, DispatchReturns, Dispatched
<1>2. Recorded' = Recorded
  BY <1>1, RecordedUnchanged DEF journal
<1>3. Owned'
  BY <1>1, OwnedUnchanged DEF IInv
<1>4. Steady(r)
  BY DEF IInv
<1>5. ASSUME NEW status \in AdmissionStatus \cup {"invalid"}, NEW failed \in BOOLEAN,
             Admit(r, status, failed)
      PROVE  IInv'
  <2>1. /\ pc[r] = "admit" /\ pc'[r] \in {"record_admission", "record_not_dispatched"}
        /\ calls' = calls /\ dispatch' = dispatch
        /\ \A s \in Requests \ {r} : pc'[s] = pc[s]
    BY <1>5 DEF Admit, Goto, TypeOK
  <2>2. OnlyMoves(r)
    BY <1>1, <1>2, <2>1 DEF OnlyMoves
  <2>3. Steady(r)'
    BY <1>1, <1>2, <1>4, <2>1 DEF Steady, Preparing, Running, Ended, AdmissionKinds, DispatchKinds, SentKinds
  <2> QED BY <1>3, <2>2, <2>3, OneCallMoves
<1>6. CASE Resolve(r)
  <2>1. /\ pc[r] = "resolve" /\ pc'[r] \in {"dispatch", "record_not_dispatched"}
        /\ calls' = calls /\ dispatch' = dispatch
        /\ \A s \in Requests \ {r} : pc'[s] = pc[s]
    BY <1>6 DEF Resolve, Goto, TypeOK
  <2>2. OnlyMoves(r)
    BY <1>1, <1>2, <2>1 DEF OnlyMoves
  <2>3. Steady(r)'
    BY <1>1, <1>2, <1>4, <2>1 DEF Steady, Preparing, Running, Ended, AdmissionKinds, DispatchKinds, SentKinds
  <2> QED BY <1>3, <2>2, <2>3, OneCallMoves
<1>7. CASE DispatchRefused(r) \/ DispatchUnsent(r)
  <2>1. /\ pc[r] = "dispatch" /\ pc'[r] = "record_dispatch" /\ calls' = calls
        /\ dispatch'[r] \in {"not_dispatched", "unknown"}
        /\ \A s \in Requests \ {r} : pc'[s] = pc[s] /\ dispatch'[s] = dispatch[s]
    BY <1>7 DEF DispatchRefused, DispatchUnsent, Dispatched, normalizeDispatch, Goto, TypeOK
  <2>2. OnlyMoves(r)
    BY <1>1, <1>2, <2>1 DEF OnlyMoves
  <2>3. Steady(r)'
    BY <1>1, <1>2, <1>4, <2>1 DEF Steady, Preparing, Running, Ended, AdmissionKinds, DispatchKinds, SentKinds
  <2> QED BY <1>3, <2>2, <2>3, OneCallMoves
<1>8. CASE callService(r)
  <2>1. /\ pc[r] = "dispatch" /\ pc'[r] = "calling" /\ dispatch' = dispatch
        /\ calls'[r] = calls[r] + 1
        /\ \A s \in Requests \ {r} : pc'[s] = pc[s] /\ calls'[s] = calls[s]
    BY <1>8 DEF callService, Goto, TypeOK
  <2>2. calls[r] = 0
    BY <1>4, <2>1 DEF Steady, Ended
  <2>3. OnlyMoves(r)
    BY <1>1, <1>2, <2>1 DEF OnlyMoves
  <2>4. Steady(r)'
    BY <1>1, <1>2, <1>4, <2>1, <2>2 DEF Steady, Preparing, Running, Ended, AdmissionKinds, DispatchKinds, SentKinds
  <2> QED BY <1>3, <2>3, <2>4, OneCallMoves
<1>9. ASSUME NEW answer \in Answers, NEW matches \in BOOLEAN, DispatchReturns(r, answer, matches)
      PROVE  IInv'
  <2>1. answer.status \in {"unknown", "dispatched", "acknowledged"}
    BY DEF Answers
  <2>2. /\ pc[r] = "calling" /\ pc'[r] = "record_dispatch" /\ calls' = calls
        /\ dispatch'[r] \in {"unknown", "dispatched", "acknowledged"}
        /\ \A s \in Requests \ {r} : pc'[s] = pc[s] /\ dispatch'[s] = dispatch[s]
    BY <1>9, <2>1 DEF DispatchReturns, Dispatched, normalizeDispatch, Goto, TypeOK
  <2>3. OnlyMoves(r)
    BY <1>1, <1>2, <2>2 DEF OnlyMoves
  <2>4. Steady(r)'
    BY <1>1, <1>2, <1>4, <2>2 DEF Steady, Preparing, Running, Ended, AdmissionKinds, DispatchKinds, SentKinds
  <2> QED BY <1>3, <2>3, <2>4, OneCallMoves
<1> QED BY <1>5, <1>6, <1>7, <1>8, <1>9

\* Appends of the owner: the admission fact, then one dispatch fact.
LEMMA RecordAdmissionKeepsIInv ==
  ASSUME TypeOK, IInv, NEW r \in Requests, RecordAdmission(r)
  PROVE  IInv'
<1> DEFINE e == admissionEvent(r)
<1>1. /\ pc[r] = "record_admission"
      /\ UNCHANGED <<input, calls, dispatch, outcome, actions, attempts>>
      /\ \A s \in Requests \ {r} : pc'[s] = pc[s]
  BY DEF RecordAdmission, appendAfterIO, AppendAll, Goto, Return, TypeOK, journal
<1>2. Steady(r) /\ Owned
  BY DEF IInv
<1>3. CASE facts' = facts /\ pc'[r] = "done"
  <2>1. Recorded' = Recorded
    BY <1>1, <1>3, RecordedUnchanged
  <2>2. Owned'
    BY <1>1, <1>2, <1>3, OwnedUnchanged DEF journal
  <2>3. OnlyMoves(r)
    BY <1>1, <2>1 DEF OnlyMoves
  <2>4. Steady(r)'
    BY <1>1, <1>2, <1>3, <2>1 DEF Steady, Preparing, Running, Ended, AdmissionKinds, DispatchKinds, SentKinds
  <2> QED BY <2>2, <2>3, <2>4, OneCallMoves
<1>4. CASE /\ facts' = facts \cup {e}
           /\ \/ pc'[r] = "done"
              \/ pc'[r] = IF admission[r] = "admitted" /\ errs[r] = {}
                          THEN "resolve" ELSE "record_not_dispatched"
  <2>1. PICK k \in AdmissionKinds : e = newEvent(r, k, "none")
                                    /\ (admission[r] = "admitted" => k = "action_admitted")
    BY DEF admissionEvent, AdmissionKinds
  <2>2. e.content = r /\ e.kind = k /\ e.qualifier = "none"
    BY <2>1, EventFields
  <2>a. PICK E : E = {e}
    OBVIOUS
  <2>b. \A x \in E : /\ x = newEvent(r, x.kind, x.qualifier) /\ x.content = r
                     /\ x.kind # "attempt_started"
                     /\ x.kind \in AdmissionKinds \cup DispatchKinds => x.qualifier = "none"
    BY <2>1, <2>2, <2>a DEF AdmissionKinds
  <2>3. {j \in EventKind : newEvent(r, j, "none") \in E} = {k}
    BY <2>1, <2>a, EventFields DEF AdmissionKinds, EventKind
  <2>4. Recorded' = [Recorded EXCEPT ![r] = @ \cup {k}]
    <3>1. Recorded' = [Recorded EXCEPT ![r] = @ \cup {j \in EventKind : newEvent(r, j, "none") \in E}]
      BY <1>1, <1>4, <2>a, <2>b, RecordedGrows
    <3> QED BY <3>1, <2>3
  <2>5. Owned'
    <3>1. Owner(r)
      BY <1>1, <1>2 DEF Steady, Running, Owner
    <3> QED BY <1>1, <1>2, <1>4, <2>a, <2>b, <3>1, OwnedAppend
  <2>6. OnlyMoves(r)
    BY <1>1, <2>4 DEF OnlyMoves, Recorded
  <2>7. Recorded'[r] = Recorded[r] \cup {k}
    BY <2>4 DEF Recorded
  <2>8. Steady(r)'
    BY <1>1, <1>2, <1>4, <2>1, <2>7
       DEF Steady, Preparing, Running, Ended, AdmissionKinds, DispatchKinds, SentKinds
  <2> QED BY <2>5, <2>6, <2>8, OneCallMoves
<1> QED
  BY <1>3, <1>4 DEF RecordAdmission, appendAfterIO, AppendAll, Goto, Return, TypeOK, journal

\* The last append of a call, whether it succeeds or not.
LEMMA FinalAppendKeepsIInv ==
  ASSUME TypeOK, IInv, NEW r \in Requests, NEW k \in DispatchKinds, NEW E,
         pc[r] \in {"record_not_dispatched", "record_dispatch"},
         pc'[r] = "done",
         \A s \in Requests \ {r} : pc'[s] = pc[s] /\ outcome'[s] = outcome[s],
         UNCHANGED <<input, calls, dispatch, actions, attempts>>,
         E = {newEvent(r, k, "none")}
           \/ E = {newEvent(r, k, "none"), newEvent(r, "effect_unverified", "dispatch")},
         facts' = facts \/ facts' = facts \cup E,
         k = "not_dispatched" => calls[r] = 0,
         k \in SentKinds => calls[r] = 1,
         outcome'[r].dispatch = "not_dispatched" => calls[r] = 0,
         outcome'[r].dispatch \in {"dispatched", "acknowledged"} => calls[r] = 1
  PROVE  IInv'
<1>1. Steady(r) /\ Owned /\ Owner(r)
  BY DEF IInv, Steady, Running, Owner
<1>2. CASE facts' = facts
  <2>1. Recorded' = Recorded
    BY <1>2, RecordedUnchanged
  <2>2. Owned'
    BY <1>1, <1>2, OwnedUnchanged DEF journal
  <2>3. OnlyMoves(r)
    BY <2>1 DEF OnlyMoves
  <2>4. Steady(r)'
    BY <1>1, <2>1 DEF Steady, Preparing, Running, Ended, AdmissionKinds, DispatchKinds, SentKinds
  <2> QED BY <2>2, <2>3, <2>4, OneCallMoves
<1>3. CASE facts' = facts \cup E
  <2>1. ASSUME NEW e \in E
        PROVE  /\ e = newEvent(r, e.kind, e.qualifier) /\ e.content = r
               /\ e.kind # "attempt_started"
               /\ e.kind \in AdmissionKinds \cup DispatchKinds => e.qualifier = "none"
    <3>1. CASE e = newEvent(r, k, "none")
      BY <3>1, EventFields DEF DispatchKinds
    <3>2. CASE e = newEvent(r, "effect_unverified", "dispatch")
      BY <3>2, EventFields DEF DispatchKinds, AdmissionKinds
    <3> QED BY <3>1, <3>2
  <2>2. {j \in EventKind : newEvent(r, j, "none") \in E} = {k}
    <3>1. ASSUME NEW j \in EventKind PROVE newEvent(r, j, "none") \in E <=> j = k
      <4>1. newEvent(r, j, "none") # newEvent(r, "effect_unverified", "dispatch")
        BY EventFields
      <4>2. newEvent(r, j, "none") = newEvent(r, k, "none") <=> j = k
        BY EventFields
      <4> QED BY <4>1, <4>2
    <3>2. k \in EventKind
      BY DEF DispatchKinds, EventKind
    <3> QED BY <3>1, <3>2
  <2>3. Recorded' = [Recorded EXCEPT ![r] = @ \cup {k}]
    <3>1. Recorded' = [Recorded EXCEPT ![r] = @ \cup {j \in EventKind : newEvent(r, j, "none") \in E}]
      BY <1>3, <2>1, RecordedGrows
    <3> QED BY <3>1, <2>2
  <2>4. Owned'
    BY <1>1, <1>3, <2>1, OwnedAppend
  <2>5. OnlyMoves(r)
    BY <2>3 DEF OnlyMoves, Recorded
  <2>6. Recorded'[r] = Recorded[r] \cup {k}
    BY <2>3 DEF Recorded
  <2>7. Steady(r)'
    BY <1>1, <2>6 DEF Steady, Preparing, Running, Ended, AdmissionKinds, DispatchKinds, SentKinds
  <2> QED BY <2>4, <2>5, <2>7, OneCallMoves
<1> QED BY <1>2, <1>3

\* The append that ends a call keeps IInv, whether it succeeds or fails.
LEMMA RecordKeepsIInv ==
  ASSUME TypeOK, IInv, NEW r \in Requests, NEW ok \in BOOLEAN,
         RecordNotDispatched(r, ok) \/ RecordDispatch(r, ok)
  PROVE  IInv'
<1>1. Steady(r)
  BY DEF IInv
<1>2. CASE RecordNotDispatched(r, ok)
  <2>1. PICK E : E = {notDispatchedEvent(r)}
    OBVIOUS
  <2>2. E = {newEvent(r, "not_dispatched", "none")}
    BY <2>1 DEF notDispatchedEvent
  <2>3. facts' = facts \/ facts' = facts \cup E
    BY <1>2, <2>1 DEF RecordNotDispatched, appendAfterIO, AppendAll, journal
  <2>4. /\ pc[r] = "record_not_dispatched" /\ pc'[r] = "done"
        /\ \A s \in Requests \ {r} : pc'[s] = pc[s] /\ outcome'[s] = outcome[s]
        /\ UNCHANGED <<input, calls, dispatch, actions, attempts>>
        /\ outcome'[r].dispatch = "not_dispatched"
    BY <1>2 DEF RecordNotDispatched, appendAfterIO, AppendAll, Return, TypeOK, journal
  <2>5. calls[r] = 0
    BY <1>1, <2>4 DEF Steady, Ended
  <2>6. "not_dispatched" \in DispatchKinds /\ "not_dispatched" \notin SentKinds
    BY DEF DispatchKinds, SentKinds
  <2> QED BY <2>2, <2>3, <2>4, <2>5, <2>6, FinalAppendKeepsIInv
<1>3. CASE RecordDispatch(r, ok)
  <2>1. PICK E : E = dispatchEvents(r)
    OBVIOUS
  <2>2. PICK k : k = DispatchKind(dispatch[r])
    OBVIOUS
  <2>3. E = {newEvent(r, k, "none")}
          \/ E = {newEvent(r, k, "none"), newEvent(r, "effect_unverified", "dispatch")}
    BY <2>1, <2>2 DEF dispatchEvents
  <2>4. facts' = facts \/ facts' = facts \cup E
    BY <1>3, <2>1 DEF RecordDispatch, appendAfterIO, AppendAll, journal
  <2>5. /\ pc[r] = "record_dispatch" /\ pc'[r] = "done"
        /\ \A s \in Requests \ {r} : pc'[s] = pc[s] /\ outcome'[s] = outcome[s]
        /\ UNCHANGED <<input, calls, dispatch, actions, attempts>>
        /\ outcome'[r].dispatch = dispatch[r]
    BY <1>3 DEF RecordDispatch, appendAfterIO, AppendAll, Return, TypeOK, journal
  <2>6. /\ k \in DispatchKinds
        /\ k = "not_dispatched" => dispatch[r] = "not_dispatched"
        /\ k \in SentKinds => dispatch[r] \in {"dispatched", "acknowledged"}
    BY <2>2 DEF DispatchKind, DispatchKinds, SentKinds
  <2>7. /\ dispatch[r] = "not_dispatched" => calls[r] = 0
        /\ dispatch[r] \in {"dispatched", "acknowledged"} => calls[r] = 1
    BY <1>1, <2>5 DEF Steady
  <2> QED BY <2>3, <2>4, <2>5, <2>6, <2>7, FinalAppendKeepsIInv
<1> QED BY <1>2, <1>3

\* A step that changes nothing Steady reads, except that calls are lost, keeps IInv.
LEMMA LosingKeepsIInv ==
  ASSUME IInv, UNCHANGED <<journal, input, calls, dispatch, outcome>>,
         \A s \in Requests : pc'[s] = pc[s] \/ pc'[s] = "crashed"
  PROVE  IInv'
<1>1. Recorded' = Recorded
  BY RecordedUnchanged DEF journal
<1>2. Owned'
  BY OwnedUnchanged DEF IInv
<1>3. ASSUME NEW s \in Requests PROVE Steady(s)'
  <2>1. Steady(s)
    BY DEF IInv
  <2>2. CASE pc'[s] = "crashed"
    BY <1>1, <2>1, <2>2 DEF Steady, Preparing, Running, Ended, AdmissionKinds, DispatchKinds, SentKinds
  <2>3. CASE pc'[s] = pc[s]
    BY <1>1, <2>1, <2>3, SteadyElsewhere
  <2> QED BY <2>2, <2>3
<1> QED BY <1>2, <1>3 DEF IInv

\* Nothing is on record at the start, and nobody owns an attempt.
LEMMA IInvInit ==
  ASSUME Init
  PROVE  IInv
<1>1. Recorded = [r \in Requests |-> {}]
  BY DEF Init, JournalInit, Recorded
<1>2. ASSUME NEW r \in Requests PROVE Steady(r)
  BY <1>1 DEF Init, Steady, Preparing, Running, Ended, AdmissionKinds, DispatchKinds, SentKinds, NothingKnown
<1>3. Owned
  BY <1>1 DEF Init, JournalInit, Owned, Owner
<1> QED BY <1>2, <1>3 DEF IInv

\* Every step of the use cases keeps IInv.
LEMMA IInvStep ==
  ASSUME TypeOK, IInv, [Next]_vars
  PROVE  IInv'
<1>1. CASE UNCHANGED vars
  BY <1>1, LosingKeepsIInv DEF vars, local
<1>2. CASE Crash
  BY <1>2, LosingKeepsIInv DEF Crash
<1>3. ASSUME NEW r \in Requests, Execute(r) \/ Recover(r) PROVE IInv'
  BY <1>3, PreparationKeepsIInv
<1>4. ASSUME NEW r \in Requests, Cancel(r) PROVE IInv'
  BY <1>4, LosingKeepsIInv DEF Cancel
<1>5. ASSUME NEW r \in Requests, Step(r) PROVE IInv'
  BY <1>5, PreparationKeepsIInv, BeginKeepsIInv, QuietStepKeepsIInv,
     RecordAdmissionKeepsIInv, RecordKeepsIInv DEF Step
<1> QED BY <1>1, <1>2, <1>3, <1>4, <1>5 DEF Next, CallNext

(* The invariant that carries the safety results: in every reachable state *)
(* each call has on record exactly what its place in execute allows, and   *)
(* every fact belongs to the only owner of its AttemptID.                  *)
THEOREM Invariance == Spec => []IInv
<1>1. Init => IInv
  BY IInvInit
<1>2. TypeOK /\ IInv /\ [Next]_vars => IInv'
  BY IInvStep
<1> QED BY <1>1, <1>2, TypeCorrect, PTL DEF Spec

------------------------------------------------------------------------------
(* What follows from the invariant.                                        *)

\* A call that sent a request owns its attempt.
LEMMA CallerOwns ==
  ASSUME TypeOK, IInv, NEW r \in Requests, calls[r] > 0
  PROVE  calls[r] = 1 /\ Owner(r) /\ "action_admitted" \in Recorded[r]
           /\ "action_rejected" \notin Recorded[r] /\ "not_dispatched" \notin Recorded[r]
<1>1. Steady(r)
  BY DEF IInv
<1>2. calls[r] = 1
  BY <1>1 DEF Steady
<1> QED BY <1>1, <1>2 DEF Steady, Owner, AdmissionKinds

\* Every fact is on the record of the call it came from.
LEMMA FactsAreRecorded ==
  ASSUME TypeOK, IInv, NEW f \in facts
  PROVE  /\ f.content \in Requests
         /\ Owner(f.content)
         /\ f.attemptID = attemptID(f.content)
         /\ f.actionID = action(f.content).id
         /\ f = newEvent(f.content, f.kind, f.qualifier)
         /\ f.kind \in AdmissionKinds \cup DispatchKinds =>
              f.qualifier = "none" /\ f.kind \in Recorded[f.content]
<1>1. f.content \in Requests /\ f.kind \in EventKind
  BY DEF TypeOK, JournalTypeOK, Event
<1>2. /\ f = newEvent(f.content, f.kind, f.qualifier)
      /\ Owner(f.content)
      /\ f.kind \in AdmissionKinds \cup DispatchKinds => f.qualifier = "none"
  BY DEF IInv, Owned
<1>3. f.attemptID = attemptID(f.content) /\ f.actionID = action(f.content).id
  BY <1>2 DEF newEvent
<1>4. f.kind \in AdmissionKinds \cup DispatchKinds => f.kind \in Recorded[f.content]
  BY <1>1, <1>2 DEF Recorded
<1> QED BY <1>1, <1>2, <1>3, <1>4

\* An AttemptID has one owner.
LEMMA OwnerIsUnique ==
  ASSUME IInv, NEW r \in Requests, NEW s \in Requests, Owner(r), Owner(s),
         attemptID(r) = attemptID(s)
  PROVE  r = s
BY DEF IInv, Owned

(* At most one REST request is ever sent for an AttemptID, for any number  *)
(* of concurrent calls, cancellations, storage errors and crashes.         *)
THEOREM OneCall == Spec => []AtMostOneCallPerAttempt
<1>1. TypeOK /\ IInv => AtMostOneCallPerAttempt
  BY CallerOwns, OwnerIsUnique DEF AtMostOneCallPerAttempt
<1> QED BY <1>1, TypeCorrect, Invariance, PTL

(* Whenever a request has been sent, the claim, the attempt-started and    *)
(* admission facts and the intent it carries are durable.                  *)
THEOREM WriteAhead == Spec => []CallIsWrittenAhead
<1>1. TypeOK /\ IInv => CallIsWrittenAhead
  <2> SUFFICES ASSUME TypeOK, IInv, NEW r \in Requests, calls[r] > 0
               PROVE  /\ attemptID(r) \in Claimed
                      /\ attemptStartedEvent(r) \in facts
                      /\ newEvent(r, "action_admitted", "none") \in facts
                      /\ actions[action(r).id] = action(r).intent
    BY DEF CallIsWrittenAhead
  <2>1. Owner(r) /\ "action_admitted" \in Recorded[r]
    BY CallerOwns
  <2>2. attemptStartedEvent(r) \in facts /\ newEvent(r, "action_admitted", "none") \in facts
    BY <2>1 DEF Owner, Recorded, attemptStartedEvent
  <2>3. attemptID(r) \in Claimed /\ actions[action(r).id] = action(r).intent
    BY <2>1 DEF IInv, Owned
  <2> QED BY <2>2, <2>3
<1> QED BY <1>1, TypeCorrect, Invariance, PTL

\* What is on record about a dispatch is true of the request.
LEMMA DispatchFactsFollow ==
  ASSUME TypeOK, IInv
  PROVE  DispatchFactsAreTrue
<1> SUFFICES ASSUME NEW f \in facts
             PROVE  /\ f.kind \in {"not_dispatched", "action_rejected"} =>
                         ~ \E r \in Requests : attemptID(r) = f.attemptID /\ calls[r] > 0
                    /\ f.kind \in {"action_dispatched", "provider_acknowledged"} =>
                         \E r \in Requests : attemptID(r) = f.attemptID /\ calls[r] > 0
  BY DEF DispatchFactsAreTrue
<1>1. /\ f.content \in Requests /\ Owner(f.content) /\ f.attemptID = attemptID(f.content)
      /\ f.kind \in AdmissionKinds \cup DispatchKinds => f.kind \in Recorded[f.content]
  BY FactsAreRecorded
<1>2. ASSUME f.kind \in {"not_dispatched", "action_rejected"},
             NEW r \in Requests, attemptID(r) = f.attemptID, calls[r] > 0
      PROVE  FALSE
  <2>1. r = f.content
    BY <1>1, <1>2, CallerOwns, OwnerIsUnique
  <2>2. f.kind \in Recorded[r]
    BY <1>1, <1>2, <2>1 DEF AdmissionKinds, DispatchKinds
  <2> QED BY <1>2, <2>2, CallerOwns
<1>3. ASSUME f.kind \in {"action_dispatched", "provider_acknowledged"}
      PROVE  calls[f.content] > 0
  <2>1. f.kind \in Recorded[f.content] /\ f.kind \in SentKinds
    BY <1>1, <1>3 DEF DispatchKinds, SentKinds
  <2>2. calls[f.content] = 1
    BY <1>1, <2>1 DEF IInv, Steady
  <2> QED BY <2>2
<1> QED BY <1>1, <1>2, <1>3

(* Recorded dispatch evidence is true: "not dispatched" and "rejected" are *)
(* recorded only for attempts that sent nothing and never will, "dispatched"*)
(* and "acknowledged" only for attempts that sent a request.               *)
THEOREM DispatchEvidence == Spec => []DispatchFactsAreTrue
<1>1. TypeOK /\ IInv => DispatchFactsAreTrue
  BY DispatchFactsFollow
<1> QED BY <1>1, TypeCorrect, Invariance, PTL

(* The facts of an AttemptID come from one call, about one action, and     *)
(* never contradict each other on admission or dispatch.                   *)
THEOREM CoherentHistory == Spec => []AttemptHistoryIsCoherent
<1>1. TypeOK /\ IInv => AttemptHistoryIsCoherent
  <2> SUFFICES ASSUME TypeOK, IInv, NEW f \in facts, NEW g \in facts, f.attemptID = g.attemptID
               PROVE  /\ f.actionID = g.actionID
                      /\ f.content = g.content
                      /\ {f.kind, g.kind} # {"action_admitted", "action_rejected"}
                      /\ f.kind \in DispatchKinds /\ g.kind \in DispatchKinds => f = g
    BY DEF AttemptHistoryIsCoherent
  <2>1. f.content = g.content /\ f.actionID = g.actionID /\ f.content \in Requests
    BY FactsAreRecorded, OwnerIsUnique
  <2>2. Steady(f.content)
    BY <2>1 DEF IInv
  <2>3. ASSUME {f.kind, g.kind} = {"action_admitted", "action_rejected"} PROVE FALSE
    <3>1. f.kind \in AdmissionKinds /\ g.kind \in AdmissionKinds
      BY <2>3 DEF AdmissionKinds
    <3>2. f.kind \in Recorded[f.content] /\ g.kind \in Recorded[f.content]
      BY <2>1, <3>1, FactsAreRecorded
    <3> QED BY <2>2, <2>3, <3>2 DEF Steady, AdmissionKinds
  <2>4. ASSUME f.kind \in DispatchKinds, g.kind \in DispatchKinds PROVE f = g
    <3>1. f.kind \in Recorded[f.content] /\ g.kind \in Recorded[f.content]
          /\ f.qualifier = "none" /\ g.qualifier = "none"
      BY <2>1, <2>4, FactsAreRecorded
    <3>2. f.kind = g.kind
      BY <2>2, <2>4, <3>1 DEF Steady
    <3> QED BY <2>1, <3>1, <3>2, FactsAreRecorded
  <2> QED BY <2>1, <2>3, <2>4
<1> QED BY <1>1, TypeCorrect, Invariance, PTL

(* The outcome a call returns is sound about the dispatch, also when the   *)
(* journal refused to record it.                                           *)
THEOREM SoundOutcome == Spec => []ReturnedOutcomeIsSound
<1>1. IInv => ReturnedOutcomeIsSound
  BY DEF IInv, Steady, ReturnedOutcomeIsSound
<1> QED BY <1>1, Invariance, PTL

\* What a step may add to the journal.
Grows ==
  /\ facts \subseteq facts'
  /\ Len(attempts') >= Len(attempts)
  /\ \A i \in DOMAIN attempts : attempts'[i] = attempts[i]
  /\ \A a \in ActionIDs : actions[a] # NoIntent => actions'[a] = actions[a]

\* Every step of the use cases only adds to the journal.
LEMMA HistoryGrows ==
  ASSUME TypeOK, [Next]_vars
  PROVE  Grows
<1> USE DEF Grows
<1>0. attempts \in Seq(AttemptIDs) /\ Len(attempts) \in Nat
  BY DEF TypeOK, JournalTypeOK
<1>1. CASE UNCHANGED journal
  BY <1>0, <1>1 DEF journal
<1>2. ASSUME NEW E, facts' = facts \cup E, UNCHANGED <<actions, attempts>> PROVE Grows
  BY <1>0, <1>2
<1>3. ASSUME NEW r \in Requests, Begin(r) \/ BeginUncertain(r) PROVE Grows
  <2>1. /\ facts' = facts \cup InitialEvents(r)
        /\ attempts' = Append(attempts, attemptID(r))
        /\ actions' = [actions EXCEPT ![action(r).id] = action(r).intent]
        /\ BeginResult(action(r), attemptID(r), InitialEvents(r)) = "claimed"
    BY <1>3 DEF Begin, BeginUncertain, BeginAttempt
  <2>2. actions[action(r).id] \in {NoIntent, action(r).intent}
    BY <2>1 DEF BeginResult, ActionConflict
  <2>3. attemptID(r) \in AttemptIDs /\ action(r).id \in ActionIDs
    BY InputsAssumption DEF TypeOK, attemptID, action, Input, Action
  <2>4. Len(attempts') >= Len(attempts) /\ \A i \in DOMAIN attempts : attempts'[i] = attempts[i]
    BY <1>0, <2>1, <2>3
  <2>5. \A a \in ActionIDs : actions[a] # NoIntent => actions'[a] = actions[a]
    <3>1. actions' = [actions EXCEPT ![action(r).id] = action(r).intent]
      BY <2>1
    <3>2. actions \in [ActionIDs -> Intents \cup {NoIntent}]
      BY DEF TypeOK, JournalTypeOK
    <3> QED BY <2>2, <3>1, <3>2
  <2>6. facts \subseteq facts'
    BY <2>1
  <2> QED BY <2>4, <2>5, <2>6
<1>4. ASSUME NEW r \in Requests, Step(r), ~Begin(r), ~BeginUncertain(r)
      PROVE  UNCHANGED <<actions, attempts>> /\ \E E : facts' = facts \cup E
  <2>1. CASE RecordAdmission(r)
    BY <2>1 DEF RecordAdmission, appendAfterIO, AppendAll, journal
  <2>2. CASE \E ok \in BOOLEAN : RecordNotDispatched(r, ok)
    BY <2>2 DEF RecordNotDispatched, appendAfterIO, AppendAll, journal
  <2>3. CASE \E ok \in BOOLEAN : RecordDispatch(r, ok)
    BY <2>3 DEF RecordDispatch, appendAfterIO, AppendAll, journal
  <2>4. CASE UNCHANGED journal
    <3>1. facts' = facts \cup {} /\ UNCHANGED <<actions, attempts>>
      BY <2>4 DEF journal
    <3> QED BY <3>1
  <2>5. \/ RecordAdmission(r)
        \/ \E ok \in BOOLEAN : RecordNotDispatched(r, ok)
        \/ \E ok \in BOOLEAN : RecordDispatch(r, ok)
        \/ UNCHANGED journal
    BY <1>4 DEF Step, ReadFails, ReadPrevious, ReadAction, BeginRefused, BeginFails, Admit,
       Resolve, DispatchRefused, DispatchUnsent, callService, DispatchReturns, Dispatched
  <2> QED BY <2>1, <2>2, <2>3, <2>4, <2>5
<1>5. ASSUME NEW r \in Requests, Execute(r) \/ Recover(r) \/ Cancel(r) PROVE UNCHANGED journal
  BY <1>5 DEF Execute, Recover, Cancel
<1>6. CASE Crash
  BY <1>1, <1>6 DEF Crash
<1>7. CASE UNCHANGED vars
  BY <1>1, <1>7 DEF vars
<1> QED BY <1>1, <1>2, <1>3, <1>4, <1>5, <1>6, <1>7 DEF Next, CallNext

(* No step of any call, and no crash, rewrites the journal.                *)
THEOREM AppendOnly == Spec => HistoryIsAppendOnly
<1>1. TypeOK /\ [Next]_vars => [Grows]_vars
  BY HistoryGrows
<1> QED BY <1>1, TypeCorrect, PTL DEF Spec, HistoryIsAppendOnly, Grows

------------------------------------------------------------------------------
(* What a call that has ended leaves behind: the dispatch it returned is   *)
(* on record, a refusal names its cause and took nothing, a recovery is    *)
(* linked to the attempt it recovers, and a lost call stays visible.       *)
(*                                                                         *)
(* IInv says what a call may have on record; the invariant of this part is *)
(* what the calls were told, and which other call explains it.             *)

\* Only an attempt's owner claimed it.
ClaimsAreOwned ==
  \A a \in Claimed : \E s \in Requests : Owner(s) /\ attemptID(s) = a

\* The causes of an error that is returned before the claim.
Refusals == {"recover", "invalid_input", "already_started", "not_authorized",
             "action_mismatch", "identity_conflict"}

\* The causes of a refusal that neither the client nor the storage caused.
Verdicts == {"invalid_input", "not_authorized", "already_started", "identity_conflict"}

Explained(r) ==
  /\ pc[r] \in {"idle"} \cup Preparing => errs[r] = {}
  /\ Owner(r) => errs[r] \cap Refusals = {}
  /\ pc[r] = "done" /\ ~Owner(r) =>
       r \in cancelled \cup outages \/ errs[r] \cap Verdicts # {}
  /\ errs[r] \cap {"not_found", "action_mismatch"} # {} => "not_authorized" \in errs[r]
  /\ "already_started" \in errs[r] =>
       \E s \in Requests \ {r} : Owner(s) /\ attemptID(s) = attemptID(r)
  /\ "identity_conflict" \in errs[r] =>
       "not_authorized" \in errs[r] \/ ActionConflict(action(r))

\* The dispatch a call returned is the one on its record.
Told(r) ==
  pc[r] = "done" /\ Owner(r) /\ r \notin outages
    => DispatchKind(outcome[r].dispatch) \in Recorded[r]

\* A recovery past its first read has a previous attempt with an owner.
Previous(r) ==
  \E s \in Requests :
    Owner(s) /\ attemptID(s) = recoveryOf(r) /\ action(s).id = action(r).id

ClaimedAfter(a, b) ==
  \E i, j \in DOMAIN attempts : i < j /\ attempts[i] = a /\ attempts[j] = b

Linked(r) ==
  /\ IsRecovery(r) /\ (pc[r] \in {"read_action", "begin"} \/ Owner(r)) => Previous(r)
  /\ IsRecovery(r) /\ Owner(r) =>
       /\ "recovery_authorized" \in Recorded[r]
       /\ ClaimedAfter(recoveryOf(r), attemptID(r))

EInv ==
  /\ ClaimsAreOwned
  /\ \A r \in Requests : Explained(r) /\ Told(r) /\ Linked(r)

\* A call that never recorded a dispatch: it crashed, or returned before that.
Lost(r) ==
  /\ pc[r] \notin Ended => outcome[r] = NothingKnown
  /\ pc[r] \in {"resolve", "dispatch", "calling", "record_dispatch"} => admission[r] = "admitted"
  /\ pc[r] = "crashed" \/ (pc[r] = "done" /\ outcome[r] = NothingKnown)
       => Recorded[r] \cap DispatchKinds = {}

------------------------------------------------------------------------------
(* The batches a call appends never clash with what is on record.          *)

\* Whatever an owner has to say of its attempt passes preflight.
LEMMA OwnBatchPasses ==
  ASSUME TypeOK, IInv, NEW r \in Requests, Owner(r), NEW E,
         \A e \in E : e = newEvent(r, e.kind, e.qualifier)
  PROVE  preflight(E)
<1> SUFFICES ASSUME NEW e \in E, NEW f \in facts \cup E, SameEventID(e, f)
             PROVE  e = f
  BY DEF preflight
<1>1. /\ e = newEvent(r, e.kind, e.qualifier)
      /\ e.attemptID = f.attemptID /\ e.kind = f.kind /\ e.qualifier = f.qualifier
  BY DEF SameEventID
<1>2. e.attemptID = attemptID(r)
  BY <1>1 DEF newEvent
<1>3. CASE f \in E
  BY <1>1, <1>3
<1>4. CASE f \in facts
  <2>1. /\ f.content \in Requests /\ Owner(f.content) /\ f.attemptID = attemptID(f.content)
        /\ f = newEvent(f.content, f.kind, f.qualifier)
    BY <1>4, FactsAreRecorded
  <2>2. f.content = r
    BY <1>1, <1>2, <2>1, OwnerIsUnique
  <2> QED BY <1>1, <2>1, <2>2
<1> QED BY <1>3, <1>4

\* The first facts of an attempt nobody claimed pass preflight.
LEMMA FirstBatchPasses ==
  ASSUME TypeOK, IInv, NEW r \in Requests, attemptID(r) \notin Claimed
  PROVE  preflight(InitialEvents(r))
<1> SUFFICES ASSUME NEW e \in InitialEvents(r), NEW f \in facts \cup InitialEvents(r),
                    SameEventID(e, f)
             PROVE  e = f
  BY DEF preflight
<1>1. \A x \in InitialEvents(r) :
        x = newEvent(r, x.kind, x.qualifier) /\ x.attemptID = attemptID(r)
  BY DEF InitialEvents, actionRequestedEvent, attemptStartedEvent, recoveryAuthorizedEvent, newEvent
<1>2. e.attemptID = f.attemptID /\ e.kind = f.kind /\ e.qualifier = f.qualifier
  BY DEF SameEventID
<1>3. CASE f \in InitialEvents(r)
  BY <1>1, <1>2, <1>3
<1>4. CASE f \in facts
  <2>1. f.content \in Requests /\ Owner(f.content) /\ f.attemptID = attemptID(f.content)
    BY <1>4, FactsAreRecorded
  <2>2. attemptID(f.content) \in Claimed
    BY <2>1 DEF IInv, Owned
  <2> QED BY <1>1, <1>2, <2>1, <2>2
<1> QED BY <1>3, <1>4

------------------------------------------------------------------------------
(* The shape of a step.                                                    *)

\* A call appends facts of its own only.
LEMMA AppendsOwnFacts ==
  ASSUME TypeOK, NEW r \in Requests, Execute(r) \/ Recover(r) \/ Step(r) \/ Cancel(r)
  PROVE  facts \subseteq facts' /\ \A e \in facts' \ facts : e.content = r
<1>1. CASE UNCHANGED journal
  BY <1>1 DEF journal
<1>2. CASE Begin(r) \/ BeginUncertain(r)
  BY <1>2 DEF Begin, BeginUncertain, BeginAttempt, InitialEvents, actionRequestedEvent,
     attemptStartedEvent, recoveryAuthorizedEvent, newEvent
<1>3. CASE RecordAdmission(r)
  BY <1>1, <1>3 DEF RecordAdmission, appendAfterIO, AppendAll, admissionEvent, newEvent
<1>4. CASE \E ok \in BOOLEAN : RecordNotDispatched(r, ok)
  BY <1>1, <1>4 DEF RecordNotDispatched, appendAfterIO, AppendAll, notDispatchedEvent, newEvent
<1>5. CASE \E ok \in BOOLEAN : RecordDispatch(r, ok)
  BY <1>1, <1>5 DEF RecordDispatch, appendAfterIO, AppendAll, dispatchEvents, newEvent
<1>6. \/ UNCHANGED journal
      \/ Begin(r) \/ BeginUncertain(r)
      \/ RecordAdmission(r)
      \/ \E ok \in BOOLEAN : RecordNotDispatched(r, ok)
      \/ \E ok \in BOOLEAN : RecordDispatch(r, ok)
  BY DEF Execute, Recover, Cancel, Step, ReadFails, ReadPrevious, ReadAction, BeginRefused,
     BeginFails, Admit, Resolve, DispatchRefused, DispatchUnsent, callService,
     DispatchReturns, Dispatched
<1> QED BY <1>1, <1>2, <1>3, <1>4, <1>5, <1>6

\* A call other than the one that takes a step is left alone.
LeftAlone(s) ==
  /\ pc'[s] = pc[s]
  /\ errs'[s] = errs[s]
  /\ admission'[s] = admission[s]
  /\ outcome'[s] = outcome[s]
  /\ Recorded'[s] = Recorded[s]
  /\ s \in outages' <=> s \in outages

\* A step of r leaves every other call alone.
LEMMA OthersAreLeftAlone ==
  ASSUME TypeOK, NEW r \in Requests, Execute(r) \/ Recover(r) \/ Step(r) \/ Cancel(r)
  PROVE  \A s \in Requests \ {r} : LeftAlone(s)
<1>1. PICK E : E = facts' \ facts
  OBVIOUS
<1>1a. facts' = facts \cup E /\ \A e \in E : e.content = r
  BY <1>1, AppendsOwnFacts
<1>2. input' = input
  BY DEF Execute, Recover, Cancel, Step, ReadFails, ReadPrevious, ReadAction, Begin, BeginRefused,
     BeginFails, BeginUncertain, Admit, RecordAdmission, RecordNotDispatched, Resolve,
     DispatchRefused, DispatchUnsent, callService, DispatchReturns, RecordDispatch, Dispatched
<1>3. \A s \in Requests \ {r} : Recorded'[s] = Recorded[s]
  BY <1>1a, <1>2, RecordedGrows DEF Recorded
<1>4. ASSUME NEW s \in Requests \ {r}
      PROVE  /\ pc'[s] = pc[s] /\ errs'[s] = errs[s] /\ admission'[s] = admission[s]
             /\ outcome'[s] = outcome[s] /\ (s \in outages' <=> s \in outages)
  <2> USE DEF TypeOK, Goto, Return
  <2>1. CASE Execute(r) \/ Recover(r) \/ Cancel(r)
    BY <2>1 DEF Execute, Recover, Cancel
  <2>2. CASE ReadFails(r) \/ ReadPrevious(r) \/ ReadAction(r)
    BY <2>2 DEF ReadFails, ReadPrevious, ReadAction
  <2>3. CASE Begin(r) \/ BeginRefused(r) \/ BeginFails(r) \/ BeginUncertain(r)
    BY <2>3 DEF Begin, BeginRefused, BeginFails, BeginUncertain
  <2>4. CASE \E status \in AdmissionStatus \cup {"invalid"}, failed \in BOOLEAN :
               Admit(r, status, failed)
    BY <2>4 DEF Admit
  <2>5. CASE RecordAdmission(r) \/ \E ok \in BOOLEAN : RecordNotDispatched(r, ok)
    BY <2>5 DEF RecordAdmission, RecordNotDispatched, appendAfterIO
  <2>6. CASE Resolve(r) \/ callService(r)
    BY <2>6 DEF Resolve, callService
  <2>7. CASE DispatchRefused(r) \/ DispatchUnsent(r)
    BY <2>7 DEF DispatchRefused, DispatchUnsent, Dispatched
  <2>8. CASE \E answer \in Answers, matches \in BOOLEAN : DispatchReturns(r, answer, matches)
    BY <2>8 DEF DispatchReturns, Dispatched
  <2>9. CASE \E ok \in BOOLEAN : RecordDispatch(r, ok)
    BY <2>9 DEF RecordDispatch, appendAfterIO
  <2> QED BY <2>1, <2>2, <2>3, <2>4, <2>5, <2>6, <2>7, <2>8, <2>9 DEF Step
<1> QED BY <1>3, <1>4 DEF LeftAlone
------------------------------------------------------------------------------
(* What once explains a call explains it for ever.                         *)

\* Where the journal only grows, so does every call's record and what it rests on.
LEMMA EvidenceStays ==
  ASSUME TypeOK, TypeOK', Grows, input' = input, NEW s \in Requests
  PROVE  /\ Recorded[s] \subseteq Recorded'[s]
         /\ Owner(s) => Owner(s)'
         /\ Previous(s) => Previous(s)'
         /\ ActionConflict(action(s)) => ActionConflict(action(s))'
         /\ ClaimedAfter(recoveryOf(s), attemptID(s)) => ClaimedAfter(recoveryOf(s), attemptID(s))'
<1>1. \A t \in Requests : Recorded[t] \subseteq Recorded'[t]
  BY DEF Grows, Recorded, newEvent, action, attemptID
<1>2. \A t \in Requests : Owner(t) => Owner(t)'
  BY <1>1 DEF Owner
<1>3. Previous(s) => Previous(s)'
  BY <1>2 DEF Previous, attemptID, action, recoveryOf, IsRecovery, authorization
<1>4. ActionConflict(action(s)) => ActionConflict(action(s))'
  <2>1. action(s).id \in ActionIDs
    BY InputsAssumption DEF TypeOK, action, Input, Action
  <2> QED BY <2>1 DEF ActionConflict, Grows, action
<1>5. ClaimedAfter(recoveryOf(s), attemptID(s)) => ClaimedAfter(recoveryOf(s), attemptID(s))'
  <2>1. /\ recoveryOf(s)' = recoveryOf(s) /\ attemptID(s)' = attemptID(s)
        /\ \A i \in DOMAIN attempts : attempts'[i] = attempts[i]
    BY DEF Grows, recoveryOf, attemptID, IsRecovery, authorization
  <2>2. DOMAIN attempts \subseteq DOMAIN attempts'
    <3>1. /\ DOMAIN attempts = 1 .. Len(attempts) /\ Len(attempts) \in Nat
          /\ DOMAIN attempts' = 1 .. Len(attempts') /\ Len(attempts') \in Nat
      BY DEF TypeOK, JournalTypeOK
    <3> QED BY <3>1 DEF Grows
  <2> QED BY <2>1, <2>2 DEF ClaimedAfter
<1> QED BY <1>1, <1>2, <1>3, <1>4, <1>5

\* A call that is left alone stays explained.
LEMMA LeftAloneStaysExplained ==
  ASSUME TypeOK, TypeOK', Grows, input' = input, cancelled \subseteq cancelled',
         NEW s \in Requests, LeftAlone(s), Explained(s), Told(s), Linked(s)
  PROVE  Explained(s)' /\ Told(s)' /\ Linked(s)'
<1>1. /\ Owner(s)' <=> Owner(s)
      /\ Previous(s) => Previous(s)'
      /\ ActionConflict(action(s)) => ActionConflict(action(s))'
      /\ ClaimedAfter(recoveryOf(s), attemptID(s)) => ClaimedAfter(recoveryOf(s), attemptID(s))'
      /\ IsRecovery(s)' <=> IsRecovery(s)
      /\ attemptID(s)' = attemptID(s)
  BY EvidenceStays DEF LeftAlone, Owner, IsRecovery, authorization, attemptID
<1>2. ASSUME NEW t \in Requests \ {s}, Owner(t), attemptID(t) = attemptID(s)
      PROVE  Owner(t)' /\ attemptID(t)' = attemptID(s)'
  BY <1>2, EvidenceStays DEF attemptID
<1>3. Explained(s)'
  BY <1>1, <1>2 DEF Explained, LeftAlone
<1>4. Told(s)'
  BY <1>1 DEF Told, LeftAlone
<1>5. Linked(s)'
  BY <1>1 DEF Linked, LeftAlone
<1> QED BY <1>3, <1>4, <1>5
------------------------------------------------------------------------------
(* Every step keeps the invariant.                                         *)

\* Before the claim: a refusal names its cause, and the first read of a
\* recovery finds the owner of the previous attempt.
LEMMA PreparationIsExplained ==
  ASSUME TypeOK, TypeOK', IInv, EInv, Grows, NEW r \in Requests,
         Execute(r) \/ Recover(r) \/ ReadFails(r) \/ ReadPrevious(r) \/ ReadAction(r)
           \/ BeginRefused(r) \/ BeginFails(r)
  PROVE  ClaimsAreOwned' /\ Explained(r)' /\ Told(r)' /\ Linked(r)'
<1>1. /\ UNCHANGED <<journal, input>> /\ pc[r] \in {"idle"} \cup Preparing
      /\ cancelled' = cancelled
  BY DEF Execute, Recover, ReadFails, ReadPrevious, ReadAction, BeginRefused, BeginFails, Preparing
<1>2. Recorded' = Recorded /\ Recorded[r] = {} /\ errs[r] = {}
  BY <1>1, RecordedUnchanged DEF journal, IInv, Steady, EInv, Explained
<1>3. ~Owner(r) /\ ~Owner(r)' /\ \A s \in Requests : Owner(s)' <=> Owner(s)
  BY <1>2 DEF Owner
<1>4. ClaimsAreOwned'
  BY <1>1, <1>3 DEF EInv, ClaimsAreOwned, Claimed, journal, attemptID
<1>5. Told(r)'
  BY <1>3 DEF Told
<1>6. ASSUME NEW s \in Requests \ {r}, Owner(s), attemptID(s) = attemptID(r)
      PROVE  Owner(s)' /\ attemptID(s)' = attemptID(r)'
  BY <1>1, <1>3, <1>6 DEF attemptID
<1>7. CASE Execute(r) \/ Recover(r)
  <2>1. \/ pc'[r] = "read_previous" /\ errs'[r] = {}
        \/ pc'[r] = "begin" /\ errs'[r] = {} /\ ~IsRecovery(r)
        \/ pc'[r] = "done" /\ errs'[r] = {"recover", "not_authorized"}
    BY <1>2, <1>7 DEF Execute, Recover, Goto, Return, TypeOK
  <2>2. Explained(r)'
    BY <1>3, <2>1 DEF Explained, Preparing, Verdicts
  <2>3. Linked(r)'
    BY <1>1, <1>3, <2>1 DEF Linked, IsRecovery, authorization
  <2> QED BY <1>4, <1>5, <2>2, <2>3
<1>8. CASE ReadFails(r) \/ BeginFails(r)
  <2>1. /\ pc'[r] = "done" /\ errs'[r] \in {{"recover"}, {"record"}}
        /\ r \in cancelled' \cup outages'
    BY <1>2, <1>8 DEF ReadFails, BeginFails, Return, TypeOK
  <2>2. Explained(r)'
    BY <1>3, <2>1 DEF Explained, Preparing, Verdicts
  <2>3. Linked(r)'
    BY <1>3, <2>1 DEF Linked
  <2> QED BY <1>4, <1>5, <2>2, <2>3
<1>9. CASE ReadPrevious(r)
  <2>1. CASE ~PreviousIsKnown(r)
    <3>1. /\ pc'[r] = "done"
          /\ errs'[r] \in {{"recover", "not_authorized", "not_found"},
                           {"recover", "not_authorized", "action_mismatch"}}
      BY <1>2, <1>9, <2>1 DEF ReadPrevious, Return, TypeOK
    <3>2. Explained(r)'
      BY <1>3, <3>1 DEF Explained, Preparing, Verdicts
    <3>3. Linked(r)'
      BY <1>3, <3>1 DEF Linked
    <3> QED BY <1>4, <1>5, <3>2, <3>3
  <2>2. CASE PreviousIsKnown(r)
    <3>1. pc'[r] = "read_action" /\ errs'[r] = {}
      BY <1>2, <1>9, <2>2 DEF ReadPrevious, Goto, TypeOK
    <3>2. PICK f \in facts : f.attemptID = recoveryOf(r) /\ f.actionID = action(r).id
      BY <2>2 DEF PreviousIsKnown, EventsByAttempt
    <3>3. /\ f.content \in Requests /\ Owner(f.content)
          /\ f.attemptID = attemptID(f.content) /\ f.actionID = action(f.content).id
      BY FactsAreRecorded
    <3>4. Previous(r)
      BY <3>2, <3>3 DEF Previous
    <3>5. Previous(r)'
      BY <1>1, <3>4, EvidenceStays
    <3>6. Explained(r)'
      BY <1>3, <3>1 DEF Explained, Preparing
    <3>7. Linked(r)'
      BY <1>3, <3>5 DEF Linked
    <3> QED BY <1>4, <1>5, <3>6, <3>7
  <2> QED BY <2>1, <2>2
<1>10. CASE ReadAction(r)
  <2>1. \/ pc'[r] = "begin" /\ errs'[r] = {} /\ pc[r] = "read_action"
        \/ pc'[r] = "done" /\ errs'[r] = {"recover", "not_authorized", "identity_conflict"}
    BY <1>2, <1>10 DEF ReadAction, Goto, Return, TypeOK
  <2>2. Explained(r)'
    BY <1>3, <2>1 DEF Explained, Preparing, Verdicts
  <2>3. Linked(r)'
    <3>1. CASE pc'[r] = "begin"
      <4>1. IsRecovery(r) => Previous(r)
        BY <2>1, <3>1 DEF EInv, Linked
      <4>2. IsRecovery(r)' => Previous(r)'
        BY <1>1, <4>1, EvidenceStays DEF IsRecovery, authorization
      <4> QED BY <1>3, <4>2 DEF Linked
    <3>2. CASE pc'[r] = "done"
      BY <1>3, <3>2 DEF Linked
    <3> QED BY <2>1, <3>1, <3>2
  <2> QED BY <1>4, <1>5, <2>2, <2>3
<1>11. CASE BeginRefused(r)
  <2>1. /\ pc'[r] = "done"
        /\ \/ errs'[r] = {"validate", "invalid_input"}
           \/ /\ BeginResult(action(r), attemptID(r), InitialEvents(r)) = "duplicate"
              /\ errs'[r] = {"validate", "already_started"}
           \/ /\ BeginResult(action(r), attemptID(r), InitialEvents(r)) = "conflict"
              /\ errs'[r] = IF ActionConflict(action(r)) THEN {"record", "identity_conflict"}
                                                         ELSE {"record"}
    BY <1>2, <1>11 DEF BeginRefused, Return, TypeOK
  <2>2. Linked(r)'
    BY <1>3, <2>1 DEF Linked
  <2>3. CASE errs'[r] = {"validate", "invalid_input"}
    <3>1. Explained(r)'
      BY <1>3, <2>1, <2>3 DEF Explained, Preparing, Verdicts
    <3> QED BY <1>4, <1>5, <2>2, <3>1
  <2>4. CASE /\ BeginResult(action(r), attemptID(r), InitialEvents(r)) = "duplicate"
             /\ errs'[r] = {"validate", "already_started"}
    <3>1. attemptID(r) \in Claimed
      BY <2>4 DEF BeginResult
    <3>2. PICK s \in Requests : Owner(s) /\ attemptID(s) = attemptID(r)
      BY <3>1 DEF EInv, ClaimsAreOwned
    <3>3. s # r
      BY <1>3, <3>2
    <3>4. Explained(r)'
      BY <1>3, <1>6, <2>1, <2>4, <3>2, <3>3 DEF Explained, Preparing, Verdicts
    <3> QED BY <1>4, <1>5, <2>2, <3>4
  <2>5. CASE /\ BeginResult(action(r), attemptID(r), InitialEvents(r)) = "conflict"
             /\ errs'[r] = IF ActionConflict(action(r)) THEN {"record", "identity_conflict"}
                                                        ELSE {"record"}
    <3>1. ActionConflict(action(r))
      BY <2>5, FirstBatchPasses DEF BeginResult
    <3>2. ActionConflict(action(r))'
      BY <1>1, <3>1, EvidenceStays
    <3>3. Explained(r)'
      BY <1>3, <2>1, <2>5, <3>1, <3>2 DEF Explained, Preparing, Verdicts
    <3> QED BY <1>4, <1>5, <2>2, <3>3
  <2> QED BY <2>1, <2>3, <2>4, <2>5
<1> QED BY <1>7, <1>8, <1>9, <1>10, <1>11
\* The claim gives the attempt its owner, and a recovery its place after the
\* attempt it recovers, also when the call is told that it failed.
LEMMA ClaimIsExplained ==
  ASSUME TypeOK, TypeOK', IInv, EInv, Grows, NEW r \in Requests, Begin(r) \/ BeginUncertain(r)
  PROVE  ClaimsAreOwned' /\ Explained(r)' /\ Told(r)' /\ Linked(r)'
<1>1. /\ input' = input /\ pc[r] = "begin" /\ ValidAttempt(attemptID(r), recoveryOf(r))
      /\ BeginAttempt(action(r), attemptID(r), InitialEvents(r))
  BY DEF Begin, BeginUncertain
<1>2. Recorded' = [Recorded EXCEPT ![r] = @ \cup {"attempt_started"}
                     \cup (IF IsRecovery(r) THEN {"recovery_authorized"} ELSE {})]
  BY <1>1, OwnedBegin DEF IInv
<1>3. /\ Owner(r)' /\ (IsRecovery(r) => "recovery_authorized" \in Recorded'[r])
      /\ \A s \in Requests : Owner(s) => Owner(s)'
  BY <1>2 DEF Owner, Recorded
<1>4. errs[r] = {} /\ (IsRecovery(r) => Previous(r))
  BY <1>1 DEF EInv, Explained, Linked, Preparing
<1>5. /\ attempts \in Seq(AttemptIDs) /\ attemptID(r) \in AttemptIDs
      /\ attempts' = Append(attempts, attemptID(r))
  BY <1>1, InputsAssumption DEF BeginAttempt, TypeOK, JournalTypeOK, attemptID, Input
<1>6. /\ Len(attempts) \in Nat /\ DOMAIN attempts = 1 .. Len(attempts)
      /\ DOMAIN attempts' = 1 .. Len(attempts) + 1
      /\ attempts'[Len(attempts) + 1] = attemptID(r)
      /\ \A i \in 1 .. Len(attempts) : attempts'[i] = attempts[i]
  BY <1>5
<1>7. ClaimsAreOwned'
  <2> SUFFICES ASSUME NEW a \in Claimed' PROVE \E s \in Requests : Owner(s)' /\ attemptID(s)' = a
    BY DEF ClaimsAreOwned
  <2>1. a \in Claimed \/ a = attemptID(r)
    BY <1>6 DEF Claimed
  <2>2. CASE a \in Claimed
    <3>1. PICK s \in Requests : Owner(s) /\ attemptID(s) = a
      BY <2>2 DEF EInv, ClaimsAreOwned
    <3> QED BY <1>1, <1>3, <3>1 DEF attemptID
  <2>3. CASE a = attemptID(r)
    BY <1>1, <1>3, <2>3 DEF attemptID
  <2> QED BY <2>1, <2>2, <2>3
<1>8. /\ pc'[r] \in {"admit", "done"} /\ errs'[r] \subseteq {"record"}
      /\ pc'[r] = "done" => r \in outages'
  BY <1>4 DEF Begin, BeginUncertain, Goto, Return, TypeOK
<1>9. Explained(r)' /\ Told(r)'
  BY <1>3, <1>8 DEF Explained, Told, Preparing, Refusals
<1>10. Linked(r)'
  <2> SUFFICES ASSUME IsRecovery(r)
               PROVE  /\ Previous(r)'
                      /\ "recovery_authorized" \in Recorded'[r]
                      /\ ClaimedAfter(recoveryOf(r), attemptID(r))'
    BY <1>1 DEF Linked, IsRecovery, authorization
  <2>1. Previous(r)'
    BY <1>1, <1>4, EvidenceStays
  <2>2. PICK s \in Requests : Owner(s) /\ attemptID(s) = recoveryOf(r)
    BY <1>4 DEF Previous
  <2>3. recoveryOf(r) \in Claimed
    BY <2>2 DEF IInv, Owned
  <2>4. PICK i \in DOMAIN attempts : attempts[i] = recoveryOf(r)
    BY <2>3 DEF Claimed
  <2>5. /\ i \in DOMAIN attempts' /\ Len(attempts) + 1 \in DOMAIN attempts'
        /\ i < Len(attempts) + 1
        /\ attempts'[i] = recoveryOf(r) /\ attempts'[Len(attempts) + 1] = attemptID(r)
    BY <1>6, <2>4
  <2>6. recoveryOf(r)' = recoveryOf(r) /\ attemptID(r)' = attemptID(r)
    BY <1>1 DEF recoveryOf, attemptID, IsRecovery, authorization
  <2> QED BY <1>3, <2>1, <2>5, <2>6 DEF ClaimedAfter
<1> QED BY <1>7, <1>9, <1>10

\* After the claim: a call that returns has its dispatch on record or met a
\* storage error, because its batches pass preflight.
LEMMA RunningIsExplained ==
  ASSUME TypeOK, TypeOK', IInv, EInv, Grows, NEW r \in Requests, pc[r] \in Running, Step(r)
  PROVE  ClaimsAreOwned' /\ Explained(r)' /\ Told(r)' /\ Linked(r)'
<1>1. Owner(r) /\ errs[r] \cap Refusals = {}
  BY DEF IInv, Steady, Owner, EInv, Explained
<1>2. \/ \E status \in AdmissionStatus \cup {"invalid"}, failed \in BOOLEAN :
           Admit(r, status, failed)
      \/ RecordAdmission(r)
      \/ \E ok \in BOOLEAN : RecordNotDispatched(r, ok)
      \/ Resolve(r)
      \/ DispatchRefused(r)
      \/ DispatchUnsent(r)
      \/ callService(r)
      \/ \E answer \in Answers, matches \in BOOLEAN : DispatchReturns(r, answer, matches)
      \/ \E ok \in BOOLEAN : RecordDispatch(r, ok)
  BY DEF Step, ReadFails, ReadPrevious, ReadAction, Begin, BeginRefused, BeginFails,
     BeginUncertain, Running
<1>3. /\ input' = input /\ UNCHANGED <<actions, attempts>>
      /\ errs'[r] \subseteq errs[r] \cup {"admit", "resolve", "dispatch", "record"}
      /\ pc'[r] \in Running \cup {"done"}
  <2> USE DEF TypeOK, Goto, Return, journal, Running
  <2>1. CASE \E status \in AdmissionStatus \cup {"invalid"}, failed \in BOOLEAN :
               Admit(r, status, failed)
    BY <2>1 DEF Admit
  <2>2. CASE RecordAdmission(r)
    BY <2>2 DEF RecordAdmission, appendAfterIO, AppendAll
  <2>3. CASE \E ok \in BOOLEAN : RecordNotDispatched(r, ok)
    BY <2>3 DEF RecordNotDispatched, appendAfterIO, AppendAll
  <2>4. CASE Resolve(r) \/ callService(r)
    BY <2>4 DEF Resolve, callService
  <2>5. CASE DispatchRefused(r) \/ DispatchUnsent(r)
    BY <2>5 DEF DispatchRefused, DispatchUnsent, Dispatched, normalizeDispatch
  <2>6. CASE \E answer \in Answers, matches \in BOOLEAN : DispatchReturns(r, answer, matches)
    BY <2>6 DEF DispatchReturns, Dispatched
  <2>7. CASE \E ok \in BOOLEAN : RecordDispatch(r, ok)
    BY <2>7 DEF RecordDispatch, appendAfterIO, AppendAll
  <2> QED BY <1>2, <2>1, <2>2, <2>3, <2>4, <2>5, <2>6, <2>7
<1>4. Owner(r)' /\ \A s \in Requests : Owner(s) => Owner(s)'
  BY <1>1, <1>3, EvidenceStays
<1>5. ClaimsAreOwned'
  BY <1>3, <1>4 DEF EInv, ClaimsAreOwned, Claimed, attemptID
<1>6. Explained(r)'
  <2>1. {"not_found", "action_mismatch"} \cap errs[r] = {}
    BY <1>1 DEF EInv, Explained, Refusals
  <2>2. errs'[r] \cap (Refusals \cup {"not_found"}) = {}
    BY <1>1, <1>3, <2>1 DEF Refusals
  <2> QED BY <1>3, <1>4, <2>2 DEF Explained, Running, Preparing, Refusals
<1>7. Linked(r)'
  <2>1. IsRecovery(r) => /\ Previous(r) /\ "recovery_authorized" \in Recorded[r]
                         /\ ClaimedAfter(recoveryOf(r), attemptID(r))
    BY <1>1 DEF EInv, Linked
  <2>2. IsRecovery(r)' => /\ Previous(r)' /\ "recovery_authorized" \in Recorded'[r]
                          /\ ClaimedAfter(recoveryOf(r), attemptID(r))'
    BY <1>3, <2>1, EvidenceStays DEF IsRecovery, authorization
  <2> QED BY <2>2 DEF Linked
<1>8. ASSUME NEW k \in EventKind, newEvent(r, k, "none") \in facts'
      PROVE  k \in Recorded'[r]
  BY <1>3, <1>8 DEF Recorded, newEvent, action, attemptID
<1>9. Told(r)'
  <2>1. CASE RecordAdmission(r)
    <3>1. preflight({admissionEvent(r)})
      BY <1>1, OwnBatchPasses, EventFields DEF admissionEvent
    <3>2. pc'[r] = "done" => r \in outages'
      BY <2>1, <3>1 DEF RecordAdmission, appendAfterIO, Goto, TypeOK
    <3> QED BY <3>2 DEF Told
  <2>2. ASSUME NEW ok \in BOOLEAN, RecordNotDispatched(r, ok)
        PROVE  Told(r)'
    <3>1. preflight({notDispatchedEvent(r)})
      BY <1>1, OwnBatchPasses, EventFields DEF notDispatchedEvent
    <3>2. ~ok => r \in outages'
      BY <2>2, <3>1 DEF RecordNotDispatched, appendAfterIO
    <3>3. ok => newEvent(r, "not_dispatched", "none") \in facts'
      BY <2>2 DEF RecordNotDispatched, appendAfterIO, AppendAll, notDispatchedEvent
    <3>4. outcome'[r].dispatch = "not_dispatched"
      BY <2>2 DEF RecordNotDispatched, TypeOK
    <3>5. "not_dispatched" \in EventKind /\ DispatchKind("not_dispatched") = "not_dispatched"
      BY DEF EventKind, DispatchKind
    <3> QED BY <1>8, <3>2, <3>3, <3>4, <3>5 DEF Told
  <2>3. ASSUME NEW ok \in BOOLEAN, RecordDispatch(r, ok)
        PROVE  Told(r)'
    <3>1. \A e \in dispatchEvents(r) : e = newEvent(r, e.kind, e.qualifier)
      BY EventFields DEF dispatchEvents
    <3>2. preflight(dispatchEvents(r))
      BY <1>1, <3>1, OwnBatchPasses
    <3>3. ~ok => r \in outages'
      BY <2>3, <3>2 DEF RecordDispatch, appendAfterIO
    <3>4. ok => newEvent(r, DispatchKind(dispatch[r]), "none") \in facts'
      BY <2>3 DEF RecordDispatch, appendAfterIO, AppendAll, dispatchEvents
    <3>5. outcome'[r].dispatch = dispatch[r]
      BY <2>3 DEF RecordDispatch, TypeOK
    <3>6. DispatchKind(dispatch[r]) \in EventKind
      BY DEF EventKind, DispatchKind
    <3> QED BY <1>8, <3>3, <3>4, <3>5, <3>6 DEF Told
  <2>4. pc'[r] = "done" => \/ RecordAdmission(r)
                           \/ \E ok \in BOOLEAN : RecordNotDispatched(r, ok)
                           \/ \E ok \in BOOLEAN : RecordDispatch(r, ok)
    BY <1>2 DEF Admit, Resolve, DispatchRefused, DispatchUnsent, callService, DispatchReturns,
       Dispatched, Goto, TypeOK
  <2> QED BY <2>1, <2>2, <2>3, <2>4 DEF Told
<1> QED BY <1>5, <1>6, <1>7, <1>9
\* A step that only loses calls, or cancels one, keeps EInv.
LEMMA LosingKeepsEInv ==
  ASSUME EInv, UNCHANGED <<journal, input, outages, outcome, errs>>,
         cancelled \subseteq cancelled',
         \A s \in Requests : pc'[s] = pc[s] \/ pc'[s] = "crashed"
  PROVE  EInv'
<1>1. Recorded' = Recorded
  BY RecordedUnchanged DEF journal
<1>2. \A s \in Requests : /\ Owner(s)' <=> Owner(s)
                          /\ attemptID(s)' = attemptID(s) /\ action(s)' = action(s)
                          /\ recoveryOf(s)' = recoveryOf(s)
                          /\ IsRecovery(s)' <=> IsRecovery(s)
  BY <1>1 DEF Owner, attemptID, action, recoveryOf, IsRecovery, authorization
<1>3. ClaimsAreOwned'
  BY <1>2 DEF EInv, ClaimsAreOwned, Claimed, journal
<1>4. ASSUME NEW s \in Requests PROVE Explained(s)' /\ Told(s)' /\ Linked(s)'
  <2>1. Explained(s) /\ Told(s) /\ Linked(s) /\ (pc'[s] = pc[s] \/ pc'[s] = "crashed")
    BY DEF EInv
  <2>2. ActionConflict(action(s))' <=> ActionConflict(action(s))
    BY <1>2 DEF ActionConflict, journal
  <2>3. Previous(s)' <=> Previous(s)
    BY <1>2 DEF Previous
  <2>4. ClaimedAfter(recoveryOf(s), attemptID(s))' <=> ClaimedAfter(recoveryOf(s), attemptID(s))
    BY <1>2 DEF ClaimedAfter, journal
  <2>5. Explained(s)'
    BY <1>2, <2>1, <2>2 DEF Explained, Preparing
  <2>6. Told(s)' /\ Linked(s)'
    BY <1>1, <1>2, <2>1, <2>3, <2>4 DEF Told, Linked
  <2> QED BY <2>5, <2>6
<1> QED BY <1>3, <1>4 DEF EInv

\* Nothing is claimed and nobody was told anything at the start.
LEMMA EInvInit ==
  ASSUME Init
  PROVE  EInv
<1>1. Recorded = [r \in Requests |-> {}]
  BY DEF Init, JournalInit, Recorded
<1>2. ClaimsAreOwned
  <2>1. attempts = <<>> /\ DOMAIN attempts = {}
    BY DEF Init, JournalInit
  <2> QED BY <2>1 DEF ClaimsAreOwned, Claimed
<1>3. ASSUME NEW r \in Requests PROVE Explained(r) /\ Told(r) /\ Linked(r)
  BY <1>1 DEF Init, Explained, Told, Linked, Owner, Refusals
<1> QED BY <1>2, <1>3 DEF EInv

\* Every step of the use cases keeps EInv.
LEMMA EInvStep ==
  ASSUME TypeOK, IInv, EInv, [Next]_vars
  PROVE  EInv'
<1>1. TypeOK' /\ Grows
  BY TypeStep, HistoryGrows
<1>2. CASE UNCHANGED vars
  BY <1>2, LosingKeepsEInv DEF vars, local
<1>3. CASE Crash
  BY <1>3, LosingKeepsEInv DEF Crash
<1>4. ASSUME NEW r \in Requests, Cancel(r) PROVE EInv'
  BY <1>4, LosingKeepsEInv DEF Cancel
<1>5. ASSUME NEW r \in Requests, Execute(r) \/ Recover(r) \/ Step(r) PROVE EInv'
  <2>1. ClaimsAreOwned' /\ Explained(r)' /\ Told(r)' /\ Linked(r)'
    <3>1. CASE Execute(r) \/ Recover(r) \/ ReadFails(r) \/ ReadPrevious(r) \/ ReadAction(r)
                 \/ BeginRefused(r) \/ BeginFails(r)
      BY <1>1, <3>1, PreparationIsExplained
    <3>2. CASE Begin(r) \/ BeginUncertain(r)
      BY <1>1, <3>2, ClaimIsExplained
    <3>3. CASE Step(r) /\ pc[r] \in Running
      BY <1>1, <3>3, RunningIsExplained
    <3>4. Step(r) => \/ ReadFails(r) \/ ReadPrevious(r) \/ ReadAction(r)
                          \/ BeginRefused(r) \/ BeginFails(r)
                     \/ Begin(r) \/ BeginUncertain(r)
                     \/ pc[r] \in Running
      BY DEF Step, Admit, RecordAdmission, RecordNotDispatched, Resolve, DispatchRefused,
         DispatchUnsent, callService, DispatchReturns, RecordDispatch, Running
    <3> QED BY <1>5, <3>1, <3>2, <3>3, <3>4
  <2>2. input' = input /\ cancelled' = cancelled
    BY <1>5 DEF Execute, Recover, Step, ReadFails, ReadPrevious, ReadAction, Begin, BeginRefused,
       BeginFails, BeginUncertain, Admit, RecordAdmission, RecordNotDispatched, Resolve,
       DispatchRefused, DispatchUnsent, callService, DispatchReturns, RecordDispatch, Dispatched
  <2>3. ASSUME NEW s \in Requests \ {r} PROVE Explained(s)' /\ Told(s)' /\ Linked(s)'
    <3>1. LeftAlone(s)
      BY <1>5, OthersAreLeftAlone
    <3> QED BY <1>1, <2>2, <3>1, LeftAloneStaysExplained DEF EInv
  <2> QED BY <2>1, <2>3 DEF EInv
<1> QED BY <1>2, <1>3, <1>4, <1>5 DEF Next, CallNext

(* In every reachable state each claim has an owner, each refusal a cause  *)
(* that is still visible in the journal, each returned dispatch its fact   *)
(* and each recovery its previous attempt.                                 *)
THEOREM EvidenceInvariance == Spec => []EInv
<1>1. Init => EInv
  BY EInvInit
<1>2. TypeOK /\ IInv /\ EInv /\ [Next]_vars => EInv'
  BY EInvStep
<1> QED BY <1>1, <1>2, TypeCorrect, Invariance, PTL DEF Spec

\* Owner is Owns, seen from the record.
LEMMA OwnerOwns ==
  ASSUME NEW r \in Requests
  PROVE  Owner(r) <=> Owns(r)
BY DEF Owner, Owns, Recorded, attemptStartedEvent, EventKind

(* A call that claimed its attempt and returned has the dispatch it        *)
(* returned on record, unless the storage itself failed: a cancelled       *)
(* client loses no evidence.                                               *)
THEOREM RecordedOutcome == Spec => []ReturnedOutcomeIsRecorded
<1>1. EInv => ReturnedOutcomeIsRecorded
  BY OwnerOwns DEF EInv, Told, ReturnedOutcomeIsRecorded, Recorded
<1> QED BY <1>1, EvidenceInvariance, PTL

(* The attempt a recovery names was claimed before it, for the same        *)
(* action, and the authorization is on record.                             *)
THEOREM LinkedRecovery == Spec => []RecoveryIsLinked
<1>1. TypeOK /\ IInv /\ EInv => RecoveryIsLinked
  <2> SUFFICES ASSUME TypeOK, IInv, EInv, NEW r \in Requests, Owns(r), IsRecovery(r)
               PROVE  /\ recoveryAuthorizedEvent(r) \in facts
                      /\ ClaimedAfter(recoveryOf(r), attemptID(r))
                      /\ \A f \in EventsByAttempt(recoveryOf(r)) : f.actionID = action(r).id
    BY DEF RecoveryIsLinked, ClaimedAfter
  <2>1. /\ "recovery_authorized" \in Recorded[r] /\ Previous(r)
        /\ ClaimedAfter(recoveryOf(r), attemptID(r))
    BY OwnerOwns DEF EInv, Linked
  <2>2. recoveryAuthorizedEvent(r) \in facts
    BY <2>1 DEF Recorded, recoveryAuthorizedEvent
  <2>3. PICK s \in Requests :
          Owner(s) /\ attemptID(s) = recoveryOf(r) /\ action(s).id = action(r).id
    BY <2>1 DEF Previous
  <2>4. ASSUME NEW f \in EventsByAttempt(recoveryOf(r)) PROVE f.actionID = action(r).id
    <3>1. f \in facts /\ f.attemptID = recoveryOf(r)
      BY DEF EventsByAttempt
    <3>2. /\ f.content \in Requests /\ Owner(f.content)
          /\ f.attemptID = attemptID(f.content) /\ f.actionID = action(f.content).id
      BY <3>1, FactsAreRecorded
    <3>3. f.content = s
      BY <2>3, <3>1, <3>2, OwnerIsUnique
    <3> QED BY <2>3, <3>2, <3>3
  <2> QED BY <2>1, <2>2, <2>4
<1> QED BY <1>1, TypeCorrect, Invariance, EvidenceInvariance, PTL

------------------------------------------------------------------------------
(* Calls that never recorded a dispatch.                                   *)

\* Every step of the use cases keeps Lost.
LEMMA LostStep ==
  ASSUME TypeOK, IInv, \A r \in Requests : Lost(r), [Next]_vars
  PROVE  \A r \in Requests : Lost(r)'
<1>1. CASE UNCHANGED vars
  <2>1. Recorded' = Recorded
    BY <1>1, RecordedUnchanged DEF vars, local, journal
  <2> QED BY <1>1, <2>1 DEF vars, local, Lost
<1>2. CASE Crash
  <2>1. Recorded' = Recorded
    BY <1>2, RecordedUnchanged DEF Crash, journal
  <2>2. ASSUME NEW s \in Requests PROVE Lost(s)'
    <3>1. Lost(s) /\ Steady(s)
      BY DEF IInv
    <3>2. CASE s \in InFlight
      <4>1. pc'[s] = "crashed" /\ pc[s] \in Preparing \cup Running
        BY <1>2, <3>2 DEF Crash, InFlight
      <4> QED BY <1>2, <2>1, <3>1, <4>1 DEF Crash, Lost, Steady, Ended
    <3>3. CASE s \notin InFlight
      <4>1. pc'[s] = pc[s]
        BY <1>2, <3>3 DEF Crash
      <4> QED BY <1>2, <2>1, <3>1, <4>1 DEF Crash, Lost
    <3> QED BY <3>2, <3>3
  <2> QED BY <2>2
<1>3. ASSUME NEW r \in Requests, Execute(r) \/ Recover(r) \/ Step(r) \/ Cancel(r)
      PROVE  \A s \in Requests : Lost(s)'
  <2>1. ASSUME NEW s \in Requests \ {r} PROVE Lost(s)'
    BY <1>3, <2>1, OthersAreLeftAlone DEF LeftAlone, Lost
  <2>2. Lost(r) /\ Steady(r)
    BY DEF IInv
  <2>3. CASE Execute(r) \/ Recover(r) \/ ReadFails(r) \/ ReadPrevious(r) \/ ReadAction(r)
               \/ BeginRefused(r) \/ BeginFails(r)
    <3>1. /\ UNCHANGED <<journal, input, outcome>> /\ pc[r] \in {"idle"} \cup Preparing
          /\ pc'[r] \in Preparing \cup {"done"}
      BY <2>3 DEF Execute, Recover, ReadFails, ReadPrevious, ReadAction, BeginRefused, BeginFails,
         Return, Goto, TypeOK, Preparing
    <3>2. Recorded' = Recorded /\ Recorded[r] = {}
      BY <2>2, <3>1, RecordedUnchanged DEF journal, Steady
    <3>3. Lost(r)'
      BY <2>2, <3>1, <3>2 DEF Lost, Preparing, Ended
    <3> QED BY <2>1, <3>3
  <2>4. CASE Begin(r) \/ BeginUncertain(r)
    <3>1. /\ input' = input /\ outcome' = outcome /\ pc[r] = "begin" /\ pc'[r] \in {"admit", "done"}
          /\ BeginAttempt(action(r), attemptID(r), InitialEvents(r))
      BY <2>4 DEF Begin, BeginUncertain, Goto, Return, TypeOK
    <3>2. Recorded'[r] \subseteq {"attempt_started", "recovery_authorized"}
      <4>1. Recorded[r] = {}
        BY <2>2, <3>1 DEF Steady, Preparing
      <4>2. Recorded' = [Recorded EXCEPT ![r] = @ \cup {"attempt_started"}
                           \cup (IF IsRecovery(r) THEN {"recovery_authorized"} ELSE {})]
        BY <3>1, OwnedBegin DEF IInv
      <4> QED BY <4>1, <4>2 DEF Recorded
    <3>3. Lost(r)'
      BY <2>2, <3>1, <3>2 DEF Lost, Ended, DispatchKinds
    <3> QED BY <2>1, <3>3
  <2>5. CASE Cancel(r)
    <3>1. Recorded' = Recorded
      BY <2>5, RecordedUnchanged DEF Cancel, journal
    <3> QED BY <2>1, <2>2, <2>5, <3>1 DEF Cancel, Lost
  <2>6. CASE \/ \E status \in AdmissionStatus \cup {"invalid"}, failed \in BOOLEAN :
                  Admit(r, status, failed)
             \/ Resolve(r)
             \/ DispatchRefused(r)
             \/ DispatchUnsent(r)
             \/ callService(r)
             \/ \E answer \in Answers, matches \in BOOLEAN : DispatchReturns(r, answer, matches)
    <3>1. /\ outcome' = outcome /\ pc[r] \notin Ended /\ pc'[r] \notin Ended
          /\ pc'[r] \in {"resolve", "dispatch", "calling", "record_dispatch"} =>
               /\ pc[r] \in {"resolve", "dispatch", "calling"}
               /\ admission'[r] = admission[r]
      <4>1. CASE \E status \in AdmissionStatus \cup {"invalid"}, failed \in BOOLEAN :
                   Admit(r, status, failed)
        BY <4>1 DEF Admit, Goto, TypeOK, Ended
      <4>2. CASE Resolve(r) \/ callService(r)
        BY <4>2 DEF Resolve, callService, Goto, TypeOK, Ended
      <4>3. CASE DispatchRefused(r) \/ DispatchUnsent(r)
        BY <4>3 DEF DispatchRefused, DispatchUnsent, Dispatched, normalizeDispatch, Goto, TypeOK, Ended
      <4>4. CASE \E answer \in Answers, matches \in BOOLEAN : DispatchReturns(r, answer, matches)
        BY <4>4 DEF DispatchReturns, Dispatched, Goto, TypeOK, Ended
      <4> QED BY <2>6, <4>1, <4>2, <4>3, <4>4
    <3>2. Lost(r)'
      BY <2>2, <3>1 DEF Lost, Ended
    <3> QED BY <2>1, <3>2
  <2>7. CASE RecordAdmission(r)
    <3>1. /\ outcome' = outcome /\ admission' = admission /\ pc[r] = "record_admission"
          /\ input' = input
          /\ pc'[r] = "resolve" => admission[r] = "admitted"
          /\ pc'[r] \in {"resolve", "record_not_dispatched", "done"}
      BY <2>7 DEF RecordAdmission, Goto, Return, TypeOK
    <3>2. facts' = facts \/ facts' = facts \cup {admissionEvent(r)}
      BY <2>7 DEF RecordAdmission, appendAfterIO, AppendAll, journal
    <3>3. Recorded'[r] \cap DispatchKinds = {}
      <4>1. Recorded[r] \cap DispatchKinds = {}
        BY <2>2, <3>1 DEF Steady, Running
      <4>2. ASSUME NEW k \in EventKind, newEvent(r, k, "none") = admissionEvent(r)
            PROVE  k \notin DispatchKinds
        <5>1. admissionEvent(r).kind \in AdmissionKinds
          BY DEF admissionEvent, newEvent, AdmissionKinds
        <5>2. k = admissionEvent(r).kind
          BY <4>2, EventFields
        <5> QED BY <5>1, <5>2 DEF AdmissionKinds, DispatchKinds
      <4>3. \A k \in EventKind : (newEvent(r, k, "none"))' = newEvent(r, k, "none")
        BY <3>1 DEF newEvent, action, attemptID
      <4> QED BY <3>2, <4>1, <4>2, <4>3 DEF Recorded
    <3>4. Lost(r)'
      BY <2>2, <3>1, <3>3 DEF Lost, Ended
    <3> QED BY <2>1, <3>4
  <2>8. CASE \/ \E ok \in BOOLEAN : RecordNotDispatched(r, ok)
             \/ \E ok \in BOOLEAN : RecordDispatch(r, ok)
    <3>1. /\ pc'[r] = "done"
          /\ outcome'[r].dispatch = "not_dispatched" \/ outcome'[r].admission = "admitted"
      <4>1. CASE \E ok \in BOOLEAN : RecordNotDispatched(r, ok)
        BY <4>1 DEF RecordNotDispatched, Return, TypeOK
      <4>2. CASE \E ok \in BOOLEAN : RecordDispatch(r, ok)
        BY <2>2, <4>2 DEF RecordDispatch, Return, TypeOK, Lost
      <4> QED BY <2>8, <4>1, <4>2
    <3>2. Lost(r)'
      BY <3>1 DEF Lost, NothingKnown, Ended
    <3> QED BY <2>1, <3>2
  <2> QED BY <1>3, <2>3, <2>4, <2>5, <2>6, <2>7, <2>8 DEF Step
<1> QED BY <1>1, <1>2, <1>3 DEF Next, CallNext

(* A call that crashed, or that returned without an outcome, never has a   *)
(* dispatch fact on record.                                                *)
THEOREM LostInvariance == Spec => [](\A r \in Requests : Lost(r))
<1>1. Init => \A r \in Requests : Lost(r)
  BY DEF Init, Lost, Ended
<1>2. TypeOK /\ IInv /\ (\A r \in Requests : Lost(r)) /\ [Next]_vars
        => (\A r \in Requests : Lost(r))'
  BY LostStep
<1> QED BY <1>1, <1>2, TypeCorrect, Invariance, PTL DEF Spec
==============================================================================
