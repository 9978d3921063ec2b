--------------------------- MODULE RefinementProofs ---------------------------
(***************************************************************************)
(* Execute and Recover implement AttemptLifecycle: every step of a call is *)
(* the abstract claim, request or record of its attempt, or nothing.       *)
(***************************************************************************)
EXTENDS ExecutionRefinement, ExecutionProofs

------------------------------------------------------------------------------
(* What is known of a dispatch, from what the journal says.                *)

Says(a, k) == \E f \in facts : f.attemptID = a /\ f.kind = k

Known(a) ==
  IF Says(a, "provider_acknowledged") THEN "acknowledged"
  ELSE IF Says(a, "action_dispatched") THEN "dispatched"
  ELSE IF Says(a, "not_dispatched") \/ Says(a, "action_rejected") THEN "not_dispatched"
  ELSE IF Says(a, "dispatch_unknown") THEN "unknown"
  ELSE "nothing"

\* KnownDispatch reads the kinds of an attempt's facts.
LEMMA KnownIsSaid ==
  ASSUME NEW a
  PROVE  KnownDispatch(a) = Known(a) /\ KnownDispatch(a)' = Known(a)'
<1>1. /\ \A k : k \in {f.kind : f \in EventsByAttempt(a)} <=> Says(a, k)
      /\ \A k : k \in {f.kind : f \in EventsByAttempt(a)}' <=> Says(a, k)'
  BY DEF EventsByAttempt, Says
<1>2. /\ {f.kind : f \in EventsByAttempt(a)} \cap {"not_dispatched", "action_rejected"} # {}
           <=> Says(a, "not_dispatched") \/ Says(a, "action_rejected")
      /\ {f.kind : f \in EventsByAttempt(a)}' \cap {"not_dispatched", "action_rejected"} # {}
           <=> Says(a, "not_dispatched")' \/ Says(a, "action_rejected")'
  BY <1>1
<1>3. KnownDispatch(a) = Known(a)
  BY <1>1, <1>2 DEF KnownDispatch, Known
<1>4. KnownDispatch(a)' = Known(a)'
  BY <1>1, <1>2 DEF KnownDispatch, Known
<1> QED BY <1>3, <1>4

\* What the journal says of an owner's attempt is what the owner recorded.
LEMMA OwnerSays ==
  ASSUME TypeOK, IInv, NEW r \in Requests, Owner(r), NEW k \in AdmissionKinds \cup DispatchKinds
  PROVE  Says(attemptID(r), k) <=> k \in Recorded[r]
<1>1. ASSUME Says(attemptID(r), k) PROVE k \in Recorded[r]
  <2>1. PICK f \in facts : f.attemptID = attemptID(r) /\ f.kind = k
    BY <1>1 DEF Says
  <2>2. f.content = r
    BY <2>1, FactsAreRecorded, OwnerIsUnique
  <2> QED BY <2>1, <2>2, FactsAreRecorded
<1>2. ASSUME k \in Recorded[r] PROVE Says(attemptID(r), k)
  BY <1>2 DEF Recorded, Says, newEvent
<1> QED BY <1>1, <1>2

\* A request for the attempt of r was sent exactly if r sent it.
LEMMA OwnerSent ==
  ASSUME TypeOK, IInv, NEW r \in Requests, Owner(r)
  PROVE  Lifecycle!WasSent(attemptID(r)) <=> calls[r] = 1
<1>1. Lifecycle!WasSent(attemptID(r)) <=>
        \E s \in Requests : calls[s] > 0 /\ attemptID(s) = attemptID(r)
  <2>1. ASSUME NEW m \in SentRequests
        PROVE  \E s \in Requests : calls[s] > 0 /\ m[1] = attemptID(s)
    BY DEF SentRequests
  <2>2. ASSUME NEW s \in Requests, calls[s] > 0
        PROVE  \E m \in SentRequests : m[1] = attemptID(s)
    <3>1. <<attemptID(s), s, calls[s]>> \in SentRequests
      BY <2>2 DEF SentRequests
    <3> QED BY <3>1
  <2> QED BY <2>1, <2>2 DEF Lifecycle!WasSent
<1>2. ASSUME NEW s \in Requests, calls[s] > 0, attemptID(s) = attemptID(r)
      PROVE  s = r /\ calls[r] = 1
  BY <1>2, CallerOwns, OwnerIsUnique
<1>3. calls[r] = 1 => calls[r] > 0
  OBVIOUS
<1> QED BY <1>1, <1>2, <1>3

------------------------------------------------------------------------------
(* The steps.                                                              *)

\* A step that adds nothing about a dispatch is invisible.
LEMMA QuietStepStutters ==
  ASSUME UNCHANGED <<journal, input, calls>>
  PROVE  UNCHANGED Lifecycle!lifecycle
BY DEF Lifecycle!lifecycle, journal, Claimed, SentRequests, attemptID, KnownDispatch, EventsByAttempt

\* An owner that records a fact about its dispatch, and how that is known.
LEMMA RecordIsRecord ==
  ASSUME TypeOK, IInv, NEW r \in Requests, Owner(r), NEW status \in Lifecycle!Knowledge \ {"nothing"},
         UNCHANGED <<actions, attempts, input, calls>>,
         \A b \in AttemptIDs : b # attemptID(r) => Known(b)' = Known(b),
         Known(attemptID(r)) = "nothing", Known(attemptID(r))' = status,
         status = "not_dispatched" => calls[r] # 1,
         status \in {"dispatched", "acknowledged"} => calls[r] = 1
  PROVE  Lifecycle!Next
<1> DEFINE a == attemptID(r)
<1>1. a \in AttemptIDs /\ a \in Claimed /\ a' = a
  BY InputsAssumption DEF TypeOK, attemptID, Input, IInv, Owned
<1>2. /\ status = "not_dispatched" => ~Lifecycle!WasSent(a)
      /\ status \in {"dispatched", "acknowledged"} => Lifecycle!WasSent(a)
  BY OwnerSent
<1>3. UNCHANGED <<Claimed, SentRequests>>
  BY DEF Claimed, SentRequests, attemptID
<1>4. [b \in AttemptIDs |-> KnownDispatch(b)]' =
        [[b \in AttemptIDs |-> KnownDispatch(b)] EXCEPT ![a] = status]
  <2>1. KnownDispatch(a)' = status
    <3>1. PICK c : c = a
      OBVIOUS
    <3>2. Known(c)' = status
      BY <1>1, <3>1 DEF Known, Says
    <3> QED BY <1>1, <3>1, <3>2, KnownIsSaid
  <2>2. \A b \in AttemptIDs : b # a => KnownDispatch(b)' = KnownDispatch(b)
    BY KnownIsSaid
  <2> QED BY <1>1, <2>1, <2>2
<1>5. KnownDispatch(a) = "nothing"
  BY KnownIsSaid
<1>6. Lifecycle!Record(a, status)
  BY <1>1, <1>2, <1>3, <1>4, <1>5 DEF Lifecycle!Record
<1> QED BY <1>1, <1>6 DEF Lifecycle!Next
\* The claim of an attempt is the abstract claim.
LEMMA BeginIsClaim ==
  ASSUME TypeOK, IInv, NEW r \in Requests, Begin(r) \/ BeginUncertain(r)
  PROVE  Lifecycle!Next
<1> DEFINE a == attemptID(r)
<1>1. /\ UNCHANGED <<input, calls>>
      /\ BeginAttempt(action(r), a, InitialEvents(r))
  BY DEF Begin, BeginUncertain
<1>2. a \notin Claimed
  BY <1>1 DEF BeginAttempt, BeginResult
<1>3. a \in AttemptIDs
  BY InputsAssumption DEF TypeOK, attemptID, Input
<1>4. Claimed' = Claimed \cup {a}
  <2>1. attempts' = Append(attempts, a) /\ attempts \in Seq(AttemptIDs)
    BY <1>1 DEF BeginAttempt, TypeOK, JournalTypeOK
  <2>2. /\ Len(attempts) \in Nat
        /\ DOMAIN attempts = 1 .. Len(attempts) /\ DOMAIN attempts' = 1 .. Len(attempts) + 1
        /\ attempts'[Len(attempts) + 1] = a
        /\ \A i \in 1 .. Len(attempts) : attempts'[i] = attempts[i]
    BY <1>3, <2>1
  <2> QED BY <2>2 DEF Claimed
<1>5. SentRequests' = SentRequests
  BY <1>1 DEF SentRequests, attemptID
<1>6. ASSUME NEW b \in AttemptIDs PROVE KnownDispatch(b)' = KnownDispatch(b)
  <2>1. facts' = facts \cup InitialEvents(r)
    BY <1>1 DEF BeginAttempt
  <2>2. \A e \in InitialEvents(r) :
          e.kind \in {"action_requested", "attempt_started", "recovery_authorized"}
    BY DEF InitialEvents, actionRequestedEvent, attemptStartedEvent, recoveryAuthorizedEvent, newEvent
  <2>3. \A k \in AdmissionKinds \cup DispatchKinds : Says(b, k)' <=> Says(b, k)
    BY <2>1, <2>2 DEF Says, AdmissionKinds, DispatchKinds
  <2>4. Known(b)' = Known(b)
    BY <2>3 DEF Known, AdmissionKinds, DispatchKinds
  <2> QED BY <2>4, KnownIsSaid
<1>7. Lifecycle!Claim(a)
  BY <1>2, <1>4, <1>5, <1>6 DEF Lifecycle!Claim
<1> QED BY <1>3, <1>7 DEF Lifecycle!Next

\* The REST request is the abstract request: it is the first for its attempt,
\* and nothing is on record about the dispatch.
LEMMA CallIsSend ==
  ASSUME TypeOK, IInv, NEW r \in Requests, callService(r)
  PROVE  Lifecycle!Next
<1> DEFINE a == attemptID(r)
           m == <<a, r, 1>>
<1>1. /\ UNCHANGED <<journal, input>> /\ pc[r] = "dispatch"
      /\ calls' = [calls EXCEPT ![r] = @ + 1]
  BY DEF callService
<1>2. Steady(r) /\ Owned
  BY DEF IInv
<1>3. /\ Owner(r) /\ calls[r] = 0 /\ "action_admitted" \in Recorded[r]
      /\ Recorded[r] \cap DispatchKinds = {} /\ "action_rejected" \notin Recorded[r]
  BY <1>1, <1>2 DEF Steady, Running, Ended, Owner, AdmissionKinds
<1>4. a \in AttemptIDs /\ a \in Claimed
  BY <1>2, <1>3, InputsAssumption DEF TypeOK, attemptID, Input, Owned
<1>5. ~Lifecycle!WasSent(a)
  BY <1>3, OwnerSent
<1>6. KnownDispatch(a) = "nothing"
  <2>1. \A k \in {"action_rejected"} \cup DispatchKinds : ~Says(a, k)
    BY <1>3, OwnerSays DEF AdmissionKinds
  <2> QED BY <2>1, KnownIsSaid DEF Known, DispatchKinds
<1>7. Claimed' = Claimed /\ \A b \in AttemptIDs : KnownDispatch(b)' = KnownDispatch(b)
  BY <1>1 DEF journal, Claimed, KnownDispatch, EventsByAttempt
<1>8. /\ calls'[r] = 1 /\ \A s \in Requests : s # r => calls'[s] = calls[s]
      /\ \A s \in Requests : attemptID(s)' = attemptID(s)
  BY <1>1, <1>3 DEF TypeOK, attemptID
<1>9. SentRequests' = SentRequests \cup {m}
  <2>1. {s \in Requests : calls'[s] > 0} = {s \in Requests : calls[s] > 0} \cup {r}
    BY <1>8
  <2>2. \A s \in Requests : calls[s] > 0 => s # r
    BY <1>3
  <2>3. ASSUME NEW x \in SentRequests' PROVE x \in SentRequests \cup {m}
    <3>1. PICK s \in Requests : calls'[s] > 0 /\ x = <<attemptID(s)', s, calls'[s]>>
      BY DEF SentRequests
    <3>2. CASE s = r
      BY <1>8, <3>1, <3>2
    <3>3. CASE s # r
      <4>1. calls[s] > 0 /\ x = <<attemptID(s), s, calls[s]>>
        BY <1>8, <3>1, <3>3
      <4> QED BY <4>1 DEF SentRequests
    <3> QED BY <3>2, <3>3
  <2>4. ASSUME NEW x \in SentRequests PROVE x \in SentRequests'
    <3>1. PICK s \in Requests : calls[s] > 0 /\ x = <<attemptID(s), s, calls[s]>>
      BY DEF SentRequests
    <3>2. calls'[s] > 0 /\ x = <<attemptID(s)', s, calls'[s]>>
      BY <1>8, <2>2, <3>1
    <3> QED BY <3>2 DEF SentRequests
  <2>5. m \in SentRequests'
    <3>1. calls'[r] > 0 /\ m = <<attemptID(r)', r, calls'[r]>>
      BY <1>8
    <3> QED BY <3>1 DEF SentRequests
  <2> QED BY <2>3, <2>4, <2>5
<1>10. m \notin SentRequests /\ m[1] = a
  BY <1>5 DEF Lifecycle!WasSent
<1>11. Lifecycle!Send(a)
  <2>1. m \in SentRequests' \ SentRequests
    BY <1>9, <1>10
  <2> QED BY <1>4, <1>5, <1>6, <1>7, <1>9, <1>10, <2>1 DEF Lifecycle!Send
<1> QED BY <1>4, <1>11 DEF Lifecycle!Next
\* The kinds that say something of a dispatch.
TellingKinds == {"action_rejected"} \cup DispatchKinds

\* What the journal says after an owner's append.
LEMMA AppendSays ==
  ASSUME TypeOK, IInv, NEW r \in Requests, Owner(r), NEW E, NEW k,
         facts' = facts \cup E, input' = input,
         \A e \in E : e.attemptID = attemptID(r),
         \A j \in TellingKinds : (\E e \in E : e.kind = j) <=> j = k
  PROVE  /\ \A b \in AttemptIDs : b # attemptID(r) => Known(b)' = Known(b)
         /\ \A j \in TellingKinds : Says(attemptID(r), j)' <=> j \in Recorded[r] \/ j = k
         /\ \A j \in TellingKinds : Says(attemptID(r), j) <=> j \in Recorded[r]
<1>1. ASSUME NEW b \in AttemptIDs, b # attemptID(r) PROVE Known(b)' = Known(b)
  <2>1. \A j \in TellingKinds : Says(b, j)' <=> Says(b, j)
    BY <1>1 DEF Says
  <2> QED BY <2>1 DEF Known, TellingKinds, DispatchKinds
<1>2. ASSUME NEW j \in TellingKinds PROVE Says(attemptID(r), j) <=> j \in Recorded[r]
  BY OwnerSays DEF TellingKinds, AdmissionKinds
<1>3. ASSUME NEW j \in TellingKinds
      PROVE  Says(attemptID(r), j)' <=> Says(attemptID(r), j) \/ j = k
  <2>1. attemptID(r)' = attemptID(r)
    BY DEF attemptID
  <2> QED BY <2>1 DEF Says
<1> QED BY <1>1, <1>2, <1>3

\* Recording the admission tells of a dispatch only if the action is rejected.
LEMMA RecordAdmissionIsRecord ==
  ASSUME TypeOK, IInv, NEW r \in Requests, RecordAdmission(r)
  PROVE  Lifecycle!Next \/ UNCHANGED Lifecycle!lifecycle
<1>1. /\ pc[r] = "record_admission" /\ UNCHANGED <<input, calls, actions, attempts>>
      /\ facts' = facts \/ facts' = facts \cup {admissionEvent(r)}
  BY DEF RecordAdmission, appendAfterIO, AppendAll, journal
<1>2. Steady(r)
  BY DEF IInv
<1>3. /\ Owner(r) /\ calls[r] = 0 /\ \A j \in TellingKinds : j \notin Recorded[r]
  BY <1>1, <1>2 DEF Steady, Running, Ended, Owner, AdmissionKinds, TellingKinds
<1>4. CASE facts' = facts
  BY <1>1, <1>4, QuietStepStutters DEF journal
<1>5. CASE facts' = facts \cup {admissionEvent(r)}
  <2>1. PICK k \in AdmissionKinds : admissionEvent(r) = newEvent(r, k, "none")
    BY DEF admissionEvent, AdmissionKinds
  <2>2. PICK E : E = {admissionEvent(r)}
    OBVIOUS
  <2>3. /\ \A e \in E : e.attemptID = attemptID(r)
        /\ \A j \in TellingKinds : (\E e \in E : e.kind = j) <=> j = k
    BY <2>1, <2>2 DEF newEvent
  <2>4. /\ \A b \in AttemptIDs : b # attemptID(r) => Known(b)' = Known(b)
        /\ \A j \in TellingKinds : Says(attemptID(r), j)' <=> j = k
        /\ \A j \in TellingKinds : ~Says(attemptID(r), j)
    <3>1. Owner(r) /\ input' = input /\ facts' = facts \cup E
      BY <1>1, <1>3, <1>5, <2>2
    <3>2. /\ \A b \in AttemptIDs : b # attemptID(r) => Known(b)' = Known(b)
          /\ \A j \in TellingKinds : Says(attemptID(r), j)' <=> j \in Recorded[r] \/ j = k
          /\ \A j \in TellingKinds : Says(attemptID(r), j) <=> j \in Recorded[r]
      BY <2>3, <3>1, AppendSays
    <3> QED BY <1>3, <3>2
  <2>5. Known(attemptID(r)) = "nothing"
    BY <2>4 DEF Known, TellingKinds, DispatchKinds
  <2>6. CASE k = "action_rejected"
    <3>1. Known(attemptID(r))' = "not_dispatched"
      BY <2>4, <2>6 DEF Known, TellingKinds, DispatchKinds
    <3>2. "not_dispatched" \in Lifecycle!Knowledge \ {"nothing"}
      BY DEF Lifecycle!Knowledge
    <3> QED BY <1>1, <1>3, <2>4, <2>5, <3>1, <3>2, RecordIsRecord
  <2>7. CASE k = "action_admitted"
    <3>1. Known(attemptID(r))' = "nothing"
      BY <2>4, <2>7 DEF Known, TellingKinds, DispatchKinds
    <3>2. attemptID(r)' = attemptID(r)
      BY <1>1 DEF attemptID
    <3>3. \A b \in AttemptIDs : Known(b)' = Known(b)
      <4>1. PICK c : c = attemptID(r)
        OBVIOUS
      <4>2. Known(c)' = Known(c)
        BY <2>5, <3>1, <3>2, <4>1 DEF Known, Says
      <4> QED BY <2>4, <4>1, <4>2
    <3>4. \A b \in AttemptIDs : KnownDispatch(b)' = KnownDispatch(b)
      BY <3>3, KnownIsSaid
    <3> QED BY <1>1, <3>4 DEF Lifecycle!lifecycle, Claimed, SentRequests, attemptID
  <2> QED BY <2>6, <2>7 DEF AdmissionKinds
<1> QED BY <1>1, <1>4, <1>5

\* "Not dispatched" is recorded of an attempt that sent nothing; after a
\* rejection it is no news.
LEMMA RecordNotDispatchedIsRecord ==
  ASSUME TypeOK, IInv, NEW r \in Requests, NEW ok \in BOOLEAN, RecordNotDispatched(r, ok)
  PROVE  Lifecycle!Next \/ UNCHANGED Lifecycle!lifecycle
<1>1. /\ pc[r] = "record_not_dispatched" /\ UNCHANGED <<input, calls, actions, attempts>>
      /\ facts' = facts \/ facts' = facts \cup {notDispatchedEvent(r)}
  BY DEF RecordNotDispatched, appendAfterIO, AppendAll, journal
<1>2. Steady(r)
  BY DEF IInv
<1>3. /\ Owner(r) /\ calls[r] = 0 /\ \A j \in DispatchKinds : j \notin Recorded[r]
  BY <1>1, <1>2 DEF Steady, Running, Ended, Owner
<1>4. CASE facts' = facts
  BY <1>1, <1>4, QuietStepStutters DEF journal
<1>5. CASE facts' = facts \cup {notDispatchedEvent(r)}
  <2>1. PICK E : E = {notDispatchedEvent(r)}
    OBVIOUS
  <2>2. /\ \A e \in E : e.attemptID = attemptID(r)
        /\ \A j \in TellingKinds : (\E e \in E : e.kind = j) <=> j = "not_dispatched"
    BY <2>1 DEF notDispatchedEvent, newEvent
  <2>3. /\ \A b \in AttemptIDs : b # attemptID(r) => Known(b)' = Known(b)
        /\ \A j \in TellingKinds :
             Says(attemptID(r), j)' <=> j \in Recorded[r] \/ j = "not_dispatched"
        /\ \A j \in TellingKinds : Says(attemptID(r), j) <=> j \in Recorded[r]
    <3>1. Owner(r) /\ input' = input /\ facts' = facts \cup E
      BY <1>1, <1>3, <1>5, <2>1
    <3> QED BY <2>2, <3>1, AppendSays
  <2>4. Known(attemptID(r))' = "not_dispatched"
    BY <1>3, <2>3 DEF Known, TellingKinds, DispatchKinds
  <2>5. CASE "action_rejected" \notin Recorded[r]
    <3>1. Known(attemptID(r)) = "nothing"
      BY <1>3, <2>3, <2>5 DEF Known, TellingKinds, DispatchKinds
    <3>2. "not_dispatched" \in Lifecycle!Knowledge \ {"nothing"}
      BY DEF Lifecycle!Knowledge
    <3> QED BY <1>1, <1>3, <2>3, <2>4, <3>1, <3>2, RecordIsRecord
  <2>6. CASE "action_rejected" \in Recorded[r]
    <3>1. Known(attemptID(r)) = "not_dispatched"
      BY <1>3, <2>3, <2>6 DEF Known, TellingKinds, DispatchKinds
    <3>2. attemptID(r)' = attemptID(r)
      BY <1>1 DEF attemptID
    <3>3. \A b \in AttemptIDs : Known(b)' = Known(b)
      <4>1. PICK c : c = attemptID(r)
        OBVIOUS
      <4>2. Known(c)' = Known(c)
        BY <2>4, <3>1, <3>2, <4>1 DEF Known, Says
      <4> QED BY <2>3, <4>1, <4>2
    <3>4. \A b \in AttemptIDs : KnownDispatch(b)' = KnownDispatch(b)
      BY <3>3, KnownIsSaid
    <3> QED BY <1>1, <3>4 DEF Lifecycle!lifecycle, Claimed, SentRequests, attemptID
  <2> QED BY <2>5, <2>6
<1> QED BY <1>1, <1>4, <1>5

\* The answer of the provider is recorded once, and is true of the request.
LEMMA RecordDispatchIsRecord ==
  ASSUME TypeOK, IInv, NEW r \in Requests, NEW ok \in BOOLEAN, RecordDispatch(r, ok)
  PROVE  Lifecycle!Next \/ UNCHANGED Lifecycle!lifecycle
<1>1. /\ pc[r] = "record_dispatch" /\ UNCHANGED <<input, calls, actions, attempts>>
      /\ facts' = facts \/ facts' = facts \cup dispatchEvents(r)
  BY DEF RecordDispatch, appendAfterIO, AppendAll, journal
<1>2. Steady(r)
  BY DEF IInv
<1>3. /\ Owner(r) /\ \A j \in TellingKinds : j \notin Recorded[r]
      /\ dispatch[r] = "not_dispatched" => calls[r] = 0
      /\ dispatch[r] \in {"dispatched", "acknowledged"} => calls[r] = 1
  BY <1>1, <1>2 DEF Steady, Running, Owner, AdmissionKinds, TellingKinds
<1>4. CASE facts' = facts
  BY <1>1, <1>4, QuietStepStutters DEF journal
<1>5. CASE facts' = facts \cup dispatchEvents(r)
  <2>1. PICK k : k = DispatchKind(dispatch[r])
    OBVIOUS
  <2>2. dispatch[r] \in DispatchStatus
    BY DEF TypeOK
  <2>3. /\ k \in DispatchKinds
        /\ k = "provider_acknowledged" <=> dispatch[r] = "acknowledged"
        /\ k = "action_dispatched" <=> dispatch[r] = "dispatched"
        /\ k = "not_dispatched" <=> dispatch[r] = "not_dispatched"
        /\ k = "dispatch_unknown" <=> dispatch[r] = "unknown"
    BY <2>1, <2>2 DEF DispatchKind, DispatchKinds, DispatchStatus
  <2>4. PICK E : E = dispatchEvents(r)
    OBVIOUS
  <2>5. E = {newEvent(r, k, "none")}
          \/ E = {newEvent(r, k, "none"), newEvent(r, "effect_unverified", "dispatch")}
    BY <2>1, <2>4 DEF dispatchEvents
  <2>6. /\ \A e \in E : e.attemptID = attemptID(r)
        /\ \A j \in TellingKinds : (\E e \in E : e.kind = j) <=> j = k
    <3>1. \A x, q : newEvent(r, x, q).attemptID = attemptID(r) /\ newEvent(r, x, q).kind = x
      BY DEF newEvent
    <3> QED BY <2>5, <3>1 DEF TellingKinds, DispatchKinds
  <2>7. /\ \A b \in AttemptIDs : b # attemptID(r) => Known(b)' = Known(b)
        /\ \A j \in TellingKinds : Says(attemptID(r), j)' <=> j = k
        /\ \A j \in TellingKinds : ~Says(attemptID(r), j)
    <3>1. Owner(r) /\ input' = input /\ facts' = facts \cup E
      BY <1>1, <1>3, <1>5, <2>4
    <3>2. /\ \A b \in AttemptIDs : b # attemptID(r) => Known(b)' = Known(b)
          /\ \A j \in TellingKinds : Says(attemptID(r), j)' <=> j \in Recorded[r] \/ j = k
          /\ \A j \in TellingKinds : Says(attemptID(r), j) <=> j \in Recorded[r]
      BY <2>6, <3>1, AppendSays
    <3> QED BY <1>3, <3>2
  <2>8. Known(attemptID(r)) = "nothing"
    BY <2>7 DEF Known, TellingKinds, DispatchKinds
  <2>9. Known(attemptID(r))' = dispatch[r]
    BY <2>2, <2>3, <2>7 DEF Known, TellingKinds, DispatchKinds, DispatchStatus
  <2>10. dispatch[r] \in Lifecycle!Knowledge \ {"nothing"}
    BY <2>2 DEF Lifecycle!Knowledge, DispatchStatus
  <2>11. dispatch[r] = "not_dispatched" => calls[r] # 1
    BY <1>3
  <2> QED BY <1>1, <1>3, <2>7, <2>8, <2>9, <2>10, <2>11, RecordIsRecord
<1> QED BY <1>1, <1>4, <1>5

(* Every behaviour of Execute and Recover, with all their interleavings,   *)
(* cancellations, storage errors and crashes, is a behaviour of the        *)
(* attempt lifecycle that Atoha promises.                                  *)
THEOREM Implementation == Spec => ImplementsLifecycle
<1>1. Init => Lifecycle!Init
  <2> SUFFICES ASSUME Init PROVE Lifecycle!Init
    OBVIOUS
  <2>1. Claimed = {}
    <3>1. attempts = <<>> /\ DOMAIN attempts = {}
      BY DEF Init, JournalInit
    <3> QED BY <3>1 DEF Claimed
  <2>2. SentRequests = {}
    <3>1. \A s \in Requests : calls[s] = 0
      BY DEF Init
    <3> QED BY <3>1 DEF SentRequests
  <2>3. \A a \in AttemptIDs : KnownDispatch(a) = "nothing"
    <3>1. facts = {}
      BY DEF Init, JournalInit
    <3>2. \A a \in AttemptIDs : Known(a) = "nothing"
      BY <3>1 DEF Known, Says
    <3> QED BY <3>2, KnownIsSaid
  <2> QED BY <2>1, <2>2, <2>3 DEF Lifecycle!Init
<1>2. TypeOK /\ IInv /\ [Next]_vars => [Lifecycle!Next]_(Lifecycle!lifecycle)
  <2> SUFFICES ASSUME TypeOK, IInv, [Next]_vars
               PROVE  Lifecycle!Next \/ UNCHANGED Lifecycle!lifecycle
    OBVIOUS
  <2>1. CASE UNCHANGED vars \/ Crash
    BY <2>1, QuietStepStutters DEF vars, local, Crash
  <2>2. ASSUME NEW r \in Requests, Execute(r) \/ Recover(r) \/ Cancel(r)
        PROVE  UNCHANGED Lifecycle!lifecycle
    BY <2>2, QuietStepStutters DEF Execute, Recover, Cancel
  <2>3. ASSUME NEW r \in Requests, Step(r)
        PROVE  Lifecycle!Next \/ UNCHANGED Lifecycle!lifecycle
    <3>1. CASE ReadFails(r) \/ ReadPrevious(r) \/ ReadAction(r) \/ BeginRefused(r) \/ BeginFails(r)
      BY <3>1, QuietStepStutters DEF ReadFails, ReadPrevious, ReadAction, BeginRefused, BeginFails
    <3>2. CASE Resolve(r) \/ DispatchRefused(r) \/ DispatchUnsent(r)
      BY <3>2, QuietStepStutters DEF Resolve, DispatchRefused, DispatchUnsent, Dispatched
    <3>3. ASSUME NEW status, NEW failed, Admit(r, status, failed)
          PROVE  UNCHANGED Lifecycle!lifecycle
      BY <3>3, QuietStepStutters DEF Admit
    <3>4. ASSUME NEW answer, NEW matches, DispatchReturns(r, answer, matches)
          PROVE  UNCHANGED Lifecycle!lifecycle
      BY <3>4, QuietStepStutters DEF DispatchReturns, Dispatched
    <3> QED
      BY <2>3, <3>1, <3>2, <3>3, <3>4, BeginIsClaim, CallIsSend, RecordAdmissionIsRecord,
         RecordNotDispatchedIsRecord, RecordDispatchIsRecord DEF Step
  <2> QED BY <2>1, <2>2, <2>3 DEF Next, CallNext
<1> QED
  BY <1>1, <1>2, TypeCorrect, Invariance, PTL DEF Spec, ImplementsLifecycle, Lifecycle!Spec
==============================================================================
