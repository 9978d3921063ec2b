--------------------------- MODULE InspectionProofs ---------------------------
(***************************************************************************)
(* What a scan tells is true however long it takes: proofs about           *)
(* Inspection, for any number of attempts, calls and interleavings.        *)
(***************************************************************************)
EXTENDS Inspection, ExecutionProofs

------------------------------------------------------------------------------
(* The use cases do not notice the scan.                                   *)

\* A step of the scan is a step of the use cases or leaves them alone.
LEMMA ScanStepIsStep ==
  ASSUME [ScanNext]_allVars
  PROVE  [Next]_vars
BY DEF ScanNext, allVars, CrashAll, ListAttempts, ReadAttempt, FinishScan, ScanFails, Next

(* The use cases beside a scan behave as the use cases alone, so what is   *)
(* proved of Execution holds here.                                         *)
THEOREM ScanIsTransparent == ScanSpec => Spec
<1>1. ScanInit => Init
  BY DEF ScanInit
<1>2. [ScanNext]_allVars => [Next]_vars
  BY ScanStepIsStep
<1> QED BY <1>1, <1>2, PTL DEF ScanSpec, Spec

\* Claimed and Sent are sets of AttemptIDs.
LEMMA AttemptSetsAreTyped ==
  ASSUME TypeOK
  PROVE  Claimed \subseteq AttemptIDs /\ Sent \subseteq AttemptIDs
BY InputsAssumption DEF TypeOK, JournalTypeOK, Claimed, Sent, attemptID, Input

(* The scan's own variables keep their types.                              *)
THEOREM ScanTypeCorrect == ScanSpec => []ScanTypeOK
<1>1. ScanInit => ScanTypeOK
  <2> SUFFICES ASSUME ScanInit PROVE ScanTypeOK
    OBVIOUS
  <2>1. TypeOK
    BY TypeInit DEF ScanInit
  <2> QED BY <2>1 DEF ScanInit, ScanTypeOK
<1>2. ScanTypeOK /\ [ScanNext]_allVars => ScanTypeOK'
  <2> SUFFICES ASSUME ScanTypeOK, [ScanNext]_allVars PROVE ScanTypeOK'
    OBVIOUS
  <2>1. TypeOK /\ TypeOK'
    BY TypeStep, ScanStepIsStep DEF ScanTypeOK
  <2>2. CASE UNCHANGED scanVars
    BY <2>1, <2>2 DEF scanVars, ScanTypeOK
  <2>3. CASE CrashAll
    BY <2>1, <2>3 DEF CrashAll, ScanTypeOK
  <2>4. CASE ListAttempts
    BY <2>1, <2>4, AttemptSetsAreTyped DEF ListAttempts, ScanTypeOK, TypeOK, JournalTypeOK
  <2>5. CASE ReadAttempt
    <3>1. Head(pending) \in AttemptIDs /\ Tail(pending) \in Seq(AttemptIDs)
      BY <2>5 DEF ReadAttempt, ScanTypeOK
    <3> QED BY <2>1, <2>5, <3>1 DEF ReadAttempt, ScanTypeOK
  <2>6. CASE FinishScan
    BY <2>1, <2>6 DEF FinishScan, ScanTypeOK
  <2>7. CASE ScanFails
    BY <2>1, <2>7 DEF ScanFails, ScanTypeOK
  <2> QED BY <2>2, <2>3, <2>4, <2>5, <2>6, <2>7 DEF ScanNext, allVars
<1> QED BY <1>1, <1>2, PTL DEF ScanSpec

------------------------------------------------------------------------------
(* The scan's invariant.  A listed attempt is still to be read, was        *)
(* reported, or had a finishing fact when it was read; facts stay, so it   *)
(* has one still.                                                          *)

Finished(a) == \E f \in EventsByAttempt(a) : f.kind \in finishedKinds

ToRead == {pending[i] : i \in DOMAIN pending}

ScanInv ==
  /\ before.sent \subseteq before.claimed
  /\ before.claimed \subseteq Claimed
  /\ before.sent \subseteq Sent
  /\ scan = "idle" => found = {}
  /\ scan = "done" => pending = <<>>
  /\ scan \in {"reading", "done"} =>
       /\ found \cup ToRead \subseteq before.claimed
       /\ \A a \in before.claimed : a \in found \cup ToRead \/ Finished(a)

\* A request that was sent stays sent, a claim stays a claim.
LEMMA HistoryStays ==
  ASSUME TypeOK, [Next]_vars
  PROVE  /\ Claimed \subseteq Claimed' /\ Sent \subseteq Sent'
         /\ \A a : Finished(a) => Finished(a)'
<1>1. Grows
  BY HistoryGrows
<1>2. Claimed \subseteq Claimed'
  <2>1. DOMAIN attempts \subseteq DOMAIN attempts'
    <3>1. TypeOK'
      BY TypeStep
    <3>2. /\ DOMAIN attempts = 1 .. Len(attempts) /\ Len(attempts) \in Nat
          /\ DOMAIN attempts' = 1 .. Len(attempts') /\ Len(attempts') \in Nat
      BY <3>1 DEF TypeOK, JournalTypeOK
    <3> QED BY <1>1, <3>2 DEF Grows
  <2> QED BY <1>1, <2>1 DEF Grows, Claimed
<1>3. \A a : Finished(a) => Finished(a)'
  BY <1>1 DEF Grows, Finished, EventsByAttempt
<1>4. input' = input /\ \A r \in Requests : calls[r] > 0 => calls'[r] > 0
  <2>1. CASE UNCHANGED vars \/ Crash
    BY <2>1 DEF vars, local, Crash
  <2>2. ASSUME NEW r \in Requests, Execute(r) \/ Recover(r) \/ Step(r) \/ Cancel(r)
        PROVE  input' = input /\ (calls' = calls \/ callService(r))
    BY <2>2 DEF Execute, Recover, Cancel, Step, ReadFails, ReadPrevious, ReadAction, Begin,
       BeginRefused, BeginFails, BeginUncertain, Admit, RecordAdmission, RecordNotDispatched,
       Resolve, DispatchRefused, DispatchUnsent, callService, DispatchReturns, RecordDispatch,
       Dispatched
  <2>3. ASSUME NEW r \in Requests, callService(r)
        PROVE  \A s \in Requests : calls[s] > 0 => calls'[s] > 0
    BY <2>3 DEF callService, TypeOK
  <2> QED BY <2>1, <2>2, <2>3 DEF Next, CallNext
<1>5. Sent \subseteq Sent'
  BY <1>4 DEF Sent, attemptID
<1> QED BY <1>2, <1>3, <1>5

\* Whatever was sent was claimed.
LEMMA SentIsClaimed ==
  ASSUME TypeOK, IInv
  PROVE  Sent \subseteq Claimed
<1> SUFFICES ASSUME NEW r \in Requests, calls[r] > 0 PROVE attemptID(r) \in Claimed
  BY DEF Sent
<1>1. Owner(r)
  BY CallerOwns
<1> QED BY <1>1 DEF IInv, Owned

\* A claimed attempt is incomplete, or a fact tells how it ended.
LEMMA ClaimedIsIncompleteOrFinished ==
  ASSUME TypeOK, EInv, NEW a \in Claimed
  PROVE  incomplete(EventsByAttempt(a)) \/ Finished(a)
<1>1. PICK s \in Requests : Owner(s) /\ attemptID(s) = a
  BY DEF EInv, ClaimsAreOwned
<1>2. attemptStartedEvent(s) \in facts
  BY <1>1, OwnerOwns DEF Owns
<1>3. attemptStartedEvent(s).attemptID = a /\ attemptStartedEvent(s).kind = "attempt_started"
  BY <1>1 DEF attemptStartedEvent, newEvent
<1>4. \E f \in EventsByAttempt(a) : f.kind = "attempt_started"
  BY <1>2, <1>3 DEF EventsByAttempt
<1> QED BY <1>4 DEF incomplete, Finished

\* Every step, of the calls or of the scan, keeps ScanInv.
LEMMA ScanInvStep ==
  ASSUME ScanTypeOK, IInv, EInv, ScanInv, [ScanNext]_allVars
  PROVE  ScanInv'
<1>0. TypeOK
  BY DEF ScanTypeOK
<1>1. /\ Claimed \subseteq Claimed' /\ Sent \subseteq Sent'
      /\ \A a : Finished(a) => Finished(a)'
  BY <1>0, HistoryStays, ScanStepIsStep
<1>2. CASE UNCHANGED scanVars
  BY <1>1, <1>2 DEF scanVars, ScanInv, ToRead
<1>3. CASE CrashAll
  BY <1>1, <1>3 DEF CrashAll, ScanInv, ToRead
<1>4. CASE ListAttempts
  <2>1. /\ scan = "idle" /\ scan' = "reading" /\ pending' = attempts /\ found' = found
        /\ before' = [claimed |-> Claimed, sent |-> Sent]
    BY <1>4 DEF ListAttempts
  <2>2. ToRead' = Claimed
    BY <2>1 DEF ToRead, Claimed
  <2> QED BY <1>0, <1>1, <2>1, <2>2, SentIsClaimed DEF ScanInv
<1>5. CASE ReadAttempt
  <2>1. /\ scan = "reading" /\ pending # <<>> /\ pending' = Tail(pending)
        /\ scan' = scan /\ before' = before
        /\ found' = IF incomplete(EventsByAttempt(Head(pending)))
                    THEN found \cup {Head(pending)} ELSE found
    BY <1>5 DEF ReadAttempt
  <2>2. pending \in Seq(AttemptIDs)
    BY DEF ScanTypeOK
  <2>3. ToRead = {Head(pending)} \cup ToRead'
    <3>1. /\ Len(pending) \in Nat \ {0} /\ Head(pending) = pending[1]
          /\ DOMAIN pending = 1 .. Len(pending) /\ DOMAIN pending' = 1 .. Len(pending) - 1
          /\ \A i \in 1 .. Len(pending) - 1 : pending'[i] = pending[i + 1]
      BY <2>1, <2>2
    <3>2. ASSUME NEW i \in DOMAIN pending PROVE pending[i] \in {Head(pending)} \cup ToRead'
      <4>1. CASE i = 1
        BY <3>1, <4>1
      <4>2. CASE i # 1
        <5>1. i - 1 \in 1 .. Len(pending) - 1 /\ pending'[i - 1] = pending[i]
          BY <3>1, <4>2
        <5> QED BY <3>1, <5>1 DEF ToRead
      <4> QED BY <4>1, <4>2
    <3>3. ASSUME NEW i \in DOMAIN pending' PROVE pending'[i] \in ToRead
      <4>1. i + 1 \in DOMAIN pending /\ pending'[i] = pending[i + 1]
        BY <3>1
      <4> QED BY <4>1 DEF ToRead
    <3>4. Head(pending) \in ToRead
      BY <3>1 DEF ToRead
    <3> QED BY <3>2, <3>3, <3>4 DEF ToRead
  <2>4. Head(pending) \in Claimed
    BY <2>1, <2>3 DEF ScanInv
  <2>5. Head(pending) \in found' \/ Finished(Head(pending))
    BY <1>0, <2>1, <2>4, ClaimedIsIncompleteOrFinished
  <2> QED BY <1>1, <2>1, <2>3, <2>5 DEF ScanInv
<1>6. CASE FinishScan
  BY <1>1, <1>6 DEF FinishScan, ScanInv, ToRead
<1>7. CASE ScanFails
  BY <1>1, <1>7 DEF ScanFails, ScanInv, ToRead
<1> QED BY <1>2, <1>3, <1>4, <1>5, <1>6, <1>7 DEF ScanNext, allVars

\* Claims and facts are what they are in Execution, and ScanInv holds.
LEMMA ScanInvariance == ScanSpec => [](ScanTypeOK /\ IInv /\ EInv /\ ScanInv)
<1>1. ScanInit => ScanInv
  <2> SUFFICES ASSUME ScanInit PROVE ScanInv
    OBVIOUS
  <2>1. /\ scan = "idle" /\ found = {} /\ before.claimed = {} /\ before.sent = {}
    BY DEF ScanInit
  <2> QED BY <2>1 DEF ScanInv
<1>2. ScanTypeOK /\ IInv /\ EInv /\ ScanInv /\ [ScanNext]_allVars => ScanInv'
  BY ScanInvStep
<1> QED
  BY <1>1, <1>2, ScanTypeCorrect, ScanIsTransparent, Invariance, EvidenceInvariance, PTL DEF ScanSpec

------------------------------------------------------------------------------
(* What a finished scan tells.                                             *)

(* A finished scan reports every attempt that was claimed when it listed   *)
(* them and is incomplete still, and nothing it did not list.              *)
THEOREM CompleteScan == ScanSpec => []ScanMissesNothing
<1>1. ScanInv => ScanMissesNothing
  <2> SUFFICES ASSUME ScanInv, scan = "done"
               PROVE  /\ found \subseteq before.claimed
                      /\ \A a \in before.claimed : incomplete(EventsByAttempt(a)) => a \in found
    BY DEF ScanMissesNothing
  <2>1. ToRead = {}
    <3>1. pending = <<>> /\ DOMAIN pending = {}
      BY DEF ScanInv
    <3> QED BY <3>1 DEF ToRead
  <2> QED BY <2>1 DEF ScanInv, Finished, incomplete
<1> QED BY <1>1, ScanInvariance, PTL

(* Every request that had left the process when a finished scan listed the *)
(* attempts is reported, or the journal holds what became of it.           *)
THEOREM AccountedFor == ScanSpec => []SentCallsAreAccountedFor
<1>1. TypeOK /\ IInv => DispatchFactsAreTrue
  BY DispatchFactsFollow
<1>2. ScanTypeOK /\ IInv /\ ScanInv => SentCallsAreAccountedFor
  <2> SUFFICES ASSUME ScanTypeOK, IInv, ScanInv, scan = "done", NEW a \in before.sent, a \notin found
               PROVE  \E f \in EventsByAttempt(a) :
                        f.kind \in {"dispatch_unknown", "action_dispatched", "provider_acknowledged"}
    BY DEF SentCallsAreAccountedFor
  <2>1. ToRead = {}
    <3>1. pending = <<>> /\ DOMAIN pending = {}
      BY DEF ScanInv
    <3> QED BY <3>1 DEF ToRead
  <2>2. Finished(a) /\ a \in Sent
    BY <2>1 DEF ScanInv
  <2>3. PICK f \in EventsByAttempt(a) : f.kind \in finishedKinds
    BY <2>2 DEF Finished
  <2>4. PICK r \in Requests : calls[r] > 0 /\ attemptID(r) = a
    BY <2>2 DEF Sent
  <2>5. f \in facts /\ f.attemptID = a
    BY DEF EventsByAttempt
  <2>6. f.kind \notin {"not_dispatched", "action_rejected"}
    BY <1>1, <2>4, <2>5 DEF DispatchFactsAreTrue, ScanTypeOK
  <2> QED BY <2>3, <2>6 DEF finishedKinds
<1> QED BY <1>2, ScanInvariance, PTL

(* The attempt of a call that was lost after its claim, by a crash or by a *)
(* storage error, counts as incomplete for ever, or as rejected.           *)
THEOREM LostCallsVisible == ScanSpec => []LostCallsStayVisible
<1>1. TypeOK /\ IInv /\ (\A r \in Requests : Lost(r)) => LostCallsStayVisible
  <2> SUFFICES ASSUME TypeOK, IInv, NEW r \in Requests, Lost(r), Owns(r),
                      pc[r] = "crashed" \/ (pc[r] = "done" /\ outcome[r] = NothingKnown),
                      newEvent(r, "action_rejected", "none") \notin facts
               PROVE  incomplete(EventsByAttempt(attemptID(r)))
    BY DEF LostCallsStayVisible
  <2>1. /\ Owner(r) /\ Recorded[r] \cap DispatchKinds = {}
        /\ "action_rejected" \notin Recorded[r]
    BY OwnerOwns DEF Lost, Recorded
  <2>2. \E f \in EventsByAttempt(attemptID(r)) : f.kind = "attempt_started"
    <3>1. attemptStartedEvent(r).attemptID = attemptID(r)
          /\ attemptStartedEvent(r).kind = "attempt_started"
      BY DEF attemptStartedEvent, newEvent
    <3> QED BY <3>1 DEF Owns, EventsByAttempt
  <2>3. ASSUME NEW f \in EventsByAttempt(attemptID(r)), f.kind \in finishedKinds
        PROVE  FALSE
    <3>1. f \in facts /\ f.attemptID = attemptID(r)
      BY DEF EventsByAttempt
    <3>2. f.content = r
      BY <2>1, <3>1, FactsAreRecorded, OwnerIsUnique
    <3>3. f.kind \in AdmissionKinds \cup DispatchKinds
      BY <2>3 DEF finishedKinds, AdmissionKinds, DispatchKinds
    <3>4. f.kind \in Recorded[r]
      BY <3>1, <3>2, <3>3, FactsAreRecorded
    <3> QED BY <2>1, <2>3, <3>4 DEF finishedKinds, DispatchKinds
  <2> QED BY <2>2, <2>3 DEF incomplete
<1> QED
  BY <1>1, ScanIsTransparent, TypeCorrect, Invariance, LostInvariance, PTL
==============================================================================
