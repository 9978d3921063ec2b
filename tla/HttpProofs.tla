------------------------------ MODULE HttpProofs ------------------------------
(***************************************************************************)
(* What a client of the HTTP API can rely on, for any number of requests,  *)
(* disconnects, verifications, shutdowns, kills and restarts.              *)
(***************************************************************************)
EXTENDS HttpApi, ExecutionProofs, ReplayProofs

------------------------------------------------------------------------------
(* The server around the use cases.                                        *)

\* A step of the server is a step of the use cases, leaves them alone, or
\* ends the process and loses the calls in flight.
LEMMA HttpStepIsStep ==
  ASSUME [HttpNext]_httpVars
  PROVE  [Next]_vars \/ Exit
<1>1. CASE UNCHANGED httpVars
  BY <1>1 DEF httpVars
<1>2. ASSUME NEW r \in Requests,
             Unauthorized(r) \/ BadRequest(r) \/ Respond(r)
      PROVE  UNCHANGED vars
  BY <1>2 DEF Unauthorized, BadRequest, Respond
<1>3. ASSUME NEW r \in Requests, Accept(r) \/ Proceed(r) \/ Disconnect(r)
      PROVE  Next
  BY <1>3 DEF Accept, Proceed, Disconnect, Next, CallNext
<1>4. CASE Terminate \/ Shutdown \/ Restart
  BY <1>4 DEF Terminate, Shutdown, Restart
<1>5. ASSUME NEW a \in AttemptIDs, NEW observed \in BOOLEAN, NEW status \in Assessments,
             Verify(a, observed, status)
      PROVE  UNCHANGED vars
  BY <1>5 DEF Verify
<1> QED BY <1>1, <1>2, <1>3, <1>4, <1>5 DEF HttpNext

\* Only a verification records what a verification finds.
LEMMA OnlyVerifyVerifies ==
  ASSUME [HttpNext]_httpVars
  PROVE  \/ UNCHANGED <<verified, verifications>>
         \/ \E a \in AttemptIDs, observed \in BOOLEAN, status \in Assessments :
              Verify(a, observed, status)
<1>1. ASSUME NEW r \in Requests,
             Unauthorized(r) \/ BadRequest(r) \/ Accept(r) \/ Proceed(r) \/ Disconnect(r) \/ Respond(r)
      PROVE  UNCHANGED <<verified, verifications>>
  BY <1>1 DEF Unauthorized, BadRequest, Accept, Proceed, Disconnect, Respond
<1>2. CASE Terminate \/ Shutdown \/ Exit \/ Restart
  BY <1>2 DEF Terminate, Shutdown, Exit, Restart
<1>3. CASE UNCHANGED httpVars
  BY <1>3 DEF httpVars
<1> QED BY <1>1, <1>2, <1>3 DEF HttpNext

\* The end of the process only loses calls.
LEMMA ExitOnlyLoses ==
  ASSUME TypeOK, Exit
  PROVE  /\ TypeOK' /\ UNCHANGED <<journal, input, cancelled, outages, dispatch, outcome, errs, calls>>
         /\ \A s \in Requests : pc'[s] = pc[s] \/ pc'[s] = "crashed"
BY DEF Exit, TypeOK, JournalTypeOK, journal, Ended

\* Every step of the server keeps what is proved of the use cases.
LEMMA HttpKeepsInvariants ==
  ASSUME TypeOK, IInv, EInv, [HttpNext]_httpVars
  PROVE  TypeOK' /\ IInv' /\ EInv'
<1>1. CASE [Next]_vars
  BY <1>1, TypeStep, IInvStep, EInvStep
<1>2. CASE Exit
  BY <1>2, ExitOnlyLoses, LosingKeepsIInv, LosingKeepsEInv
<1> QED BY <1>1, <1>2, HttpStepIsStep

(* What is proved of the use cases holds behind the HTTP API as well,      *)
(* where a process also dies between a result and its response and is      *)
(* started again on the same journal.                                      *)
THEOREM HttpKeepsExecution == HttpSpec => [](TypeOK /\ IInv /\ EInv)
<1>1. HttpInit => TypeOK /\ IInv /\ EInv
  BY TypeInit, IInvInit, EInvInit DEF HttpInit
<1>2. (TypeOK /\ IInv /\ EInv) /\ [HttpNext]_httpVars => (TypeOK /\ IInv /\ EInv)'
  BY HttpKeepsInvariants
<1> QED BY <1>1, <1>2, PTL DEF HttpSpec

\* What a handler writes is a response.
LEMMA WrittenIsResponse ==
  ASSUME TypeOK, NEW r \in Requests
  PROVE  writeExecution(r) \in Response
<1>1. writeUseCaseError(errs[r]) \in {400, 401, 404, 409, 500}
  BY DEF writeUseCaseError
<1>2. [status |-> writeUseCaseError(errs[r])] \in Response
  BY <1>1 DEF Response
<1>3. [status |-> 200, outcome |-> outcome[r], failed |-> errs[r] # {}] \in Response
  BY DEF Response, TypeOK
<1> QED BY <1>2, <1>3 DEF writeExecution

------------------------------------------------------------------------------
(* What verifications record.                                              *)

Said(s) == {s[i] : i \in DOMAIN s}

\* A list says what its two parts say.
LEMMA ConcatSays ==
  ASSUME NEW T, NEW s \in Seq(T), NEW t \in Seq(T)
  PROVE  s \o t \in Seq(T) /\ Said(s \o t) = Said(s) \cup Said(t)
<1>1. /\ s \o t \in Seq(T) /\ Len(s) \in Nat /\ Len(t) \in Nat
      /\ DOMAIN (s \o t) = 1 .. (Len(s) + Len(t))
      /\ DOMAIN s = 1 .. Len(s) /\ DOMAIN t = 1 .. Len(t)
      /\ \A i \in 1 .. Len(s) : (s \o t)[i] = s[i]
      /\ \A i \in 1 .. Len(t) : (s \o t)[Len(s) + i] = t[i]
  OBVIOUS
<1>2. Said(s) \subseteq Said(s \o t)
  BY <1>1 DEF Said
<1>3. Said(t) \subseteq Said(s \o t)
  <2>1. \A i \in 1 .. Len(t) : Len(s) + i \in 1 .. (Len(s) + Len(t))
    BY <1>1
  <2> QED BY <1>1, <2>1 DEF Said
<1>4. Said(s \o t) \subseteq Said(s) \cup Said(t)
  <2> SUFFICES ASSUME NEW i \in 1 .. (Len(s) + Len(t)) PROVE (s \o t)[i] \in Said(s) \cup Said(t)
    BY <1>1 DEF Said
  <2>1. CASE i \in 1 .. Len(s)
    BY <1>1, <2>1 DEF Said
  <2>2. CASE i \notin 1 .. Len(s)
    <3>1. i - Len(s) \in 1 .. Len(t) /\ Len(s) + (i - Len(s)) = i
      BY <1>1, <2>2
    <3> QED BY <1>1, <3>1 DEF Said
  <2> QED BY <2>1, <2>2
<1> QED BY <1>1, <1>2, <1>3, <1>4

AssessmentKinds ==
  {"verification_verified", "verification_unsatisfied", "verification_inconclusive"}

\* The kinds of facts a verification writes.
VerifyKinds ==
  {"observation_recorded", "effect_unverified", "effect_satisfied", "effect_unsatisfied"}
    \cup AssessmentKinds

\* An effect is recorded only with the assessment it follows from.
OfVerifications(said) ==
  /\ said \subseteq VerifyKinds
  /\ said \cap AssessmentKinds = {} => said \subseteq {"observation_recorded"}

\* One append of a verification.
LEMMA VerificationSays ==
  ASSUME NEW a \in AttemptIDs, NEW observed \in BOOLEAN, NEW status \in Assessments,
         verified \in [AttemptIDs -> Seq(EventKind)], Verify(a, observed, status)
  PROVE  \E events \in Seq(EventKind) :
           OfVerifications(Said(events)) /\ verified' = [verified EXCEPT ![a] = @ \o events]
<1> DEFINE seen == IF observed THEN <<"observation_recorded">> ELSE <<>>
<1>1. seen \in Seq(EventKind) /\ Said(seen) \subseteq {"observation_recorded"}
  <2>1. CASE observed
    <3>1. seen = <<"observation_recorded">> /\ "observation_recorded" \in EventKind
      BY <2>1 DEF EventKind
    <3> QED BY <3>1 DEF Said
  <2>2. CASE ~observed
    BY <2>2 DEF Said
  <2> QED BY <2>1, <2>2
<1>2. verificationEvents(status) \in Seq(EventKind) /\ OfVerifications(Said(verificationEvents(status)))
  <2>1. ASSUME NEW e \in {"effect_unverified", "effect_satisfied", "effect_unsatisfied"},
               NEW v \in AssessmentKinds
        PROVE  <<e, v>> \in Seq(EventKind) /\ OfVerifications(Said(<<e, v>>))
    <3>1. e \in EventKind /\ v \in EventKind
      BY DEF AssessmentKinds, EventKind
    <3>2. Said(<<e, v>>) = {e, v}
      BY DEF Said
    <3>3. <<e, v>> \in Seq(EventKind)
      BY <3>1
    <3>4. OfVerifications({e, v})
      BY DEF OfVerifications, VerifyKinds
    <3> QED BY <3>2, <3>3, <3>4, Zenon
  <2>2. <<>> \in Seq(EventKind) /\ OfVerifications(Said(<<>>))
    BY DEF Said, OfVerifications
  <2>3. AssessmentKinds = {"verification_verified", "verification_unsatisfied",
                           "verification_inconclusive"}
    BY DEF AssessmentKinds
  <2> QED BY <2>1, <2>2, <2>3 DEF verificationEvents
<1> HIDE DEF seen
<1>3. seen \o verificationEvents(status) \in Seq(EventKind)
      /\ Said(seen \o verificationEvents(status)) = Said(seen) \cup Said(verificationEvents(status))
  <2>1. \A s, t \in Seq(EventKind) : s \o t \in Seq(EventKind) /\ Said(s \o t) = Said(s) \cup Said(t)
    BY ConcatSays
  <2> QED BY <1>1, <1>2, <2>1, Zenon
<1>4. OfVerifications(Said(seen \o verificationEvents(status)))
  BY <1>1, <1>2, <1>3 DEF OfVerifications, VerifyKinds, AssessmentKinds
<1>5. verified' = [verified EXCEPT ![a] = @ \o (seen \o verificationEvents(status))]
  BY Zenon DEF Verify, seen
<1> QED BY <1>3, <1>4, <1>5

------------------------------------------------------------------------------
(* The responses, the state of the server and what verifications recorded  *)
(* keep their types.                                                       *)
THEOREM HttpTypeCorrect == HttpSpec => []HttpTypeOK
<1> DEFINE Typed == /\ response \in [Requests -> Response \cup {NoResponse}]
                    /\ server \in {"serving", "draining", "stopped", "killed"}
           Counted == /\ verified \in [AttemptIDs -> Seq(EventKind)]
                      /\ verifications \in 0 .. MaxVerifications
<1>1. HttpInit => Typed /\ Counted
  BY VerificationsAssumption DEF HttpInit
<1>2. TypeOK /\ Typed /\ [HttpNext]_httpVars => Typed'
  <2> SUFFICES ASSUME TypeOK, Typed, [HttpNext]_httpVars PROVE Typed'
    OBVIOUS
  <2>1. CASE UNCHANGED <<response, server>>
    BY <2>1
  <2>2. ASSUME NEW r \in Requests, NEW answer \in Response, writeJSON(r, answer), server' = server
        PROVE  Typed'
    BY <2>2 DEF writeJSON
  <2>3. ASSUME NEW r \in Requests, Unauthorized(r) \/ BadRequest(r) \/ Respond(r)
        PROVE  Typed'
    <3>1. [status |-> 400] \in Response /\ [status |-> 401] \in Response
      BY DEF Response
    <3>2. writeExecution(r) \in Response
      BY WrittenIsResponse
    <3> QED BY <2>2, <2>3, <3>1, <3>2 DEF Unauthorized, BadRequest, Respond
  <2>4. ASSUME NEW r \in Requests, Accept(r) \/ Proceed(r) \/ Disconnect(r)
        PROVE  UNCHANGED <<response, server>>
    BY <2>4 DEF Accept, Proceed, Disconnect
  <2>5. CASE Terminate \/ Shutdown \/ Exit \/ Restart
    BY <2>5 DEF Terminate, Shutdown, Exit, Restart
  <2>6. CASE UNCHANGED httpVars
    BY <2>1, <2>6 DEF httpVars
  <2>7. ASSUME NEW a \in AttemptIDs, NEW observed \in BOOLEAN, NEW status \in Assessments,
               Verify(a, observed, status)
        PROVE  UNCHANGED <<response, server>>
    BY <2>7 DEF Verify
  <2> QED BY <2>1, <2>3, <2>4, <2>5, <2>6, <2>7 DEF HttpNext
<1>3. Counted /\ [HttpNext]_httpVars => Counted'
  <2> SUFFICES ASSUME Counted, [HttpNext]_httpVars PROVE Counted'
    OBVIOUS
  <2>1. CASE UNCHANGED <<verified, verifications>>
    BY <2>1
  <2>2. ASSUME NEW a \in AttemptIDs, NEW observed \in BOOLEAN, NEW status \in Assessments,
               Verify(a, observed, status)
        PROVE  Counted'
    <3>1. PICK events \in Seq(EventKind) : verified' = [verified EXCEPT ![a] = @ \o events]
      BY <2>2, VerificationSays
    <3>2. verified[a] \o events \in Seq(EventKind)
      OBVIOUS
    <3>3. verified' \in [AttemptIDs -> Seq(EventKind)]
      BY <3>1, <3>2
    <3>4. verifications' \in 0 .. MaxVerifications
      BY <2>2, VerificationsAssumption DEF Verify
    <3> QED BY <3>3, <3>4
  <2> QED BY <2>1, <2>2, OnlyVerifyVerifies
<1>4. TypeOK /\ Typed /\ Counted => HttpTypeOK
  BY DEF HttpTypeOK
<1> QED BY <1>1, <1>2, <1>3, <1>4, HttpKeepsExecution, PTL DEF HttpSpec

\* What verifications recorded of an attempt, which has facts of its own.
VInv ==
  \A a \in AttemptIDs :
    /\ OfVerifications(Said(verified[a]))
    /\ Said(verified[a]) # {} => EventsByAttempt(a) # {}

\* Every step of the server keeps VInv.
LEMMA VInvStep ==
  ASSUME HttpTypeOK, VInv, [HttpNext]_httpVars
  PROVE  VInv'
<1>1. facts \subseteq facts'
  <2>1. TypeOK
    BY DEF HttpTypeOK
  <2>2. CASE [Next]_vars
    BY <2>1, <2>2, HistoryGrows DEF Grows
  <2>3. CASE Exit
    BY <2>1, <2>3, ExitOnlyLoses DEF journal
  <2> QED BY <2>2, <2>3, HttpStepIsStep
<1>2. \A a \in AttemptIDs : EventsByAttempt(a) # {} => EventsByAttempt(a)' # {}
  BY <1>1 DEF EventsByAttempt
<1>3. CASE UNCHANGED <<verified, verifications>>
  BY <1>2, <1>3 DEF VInv
<1>4. ASSUME NEW a \in AttemptIDs, NEW observed \in BOOLEAN, NEW status \in Assessments,
             Verify(a, observed, status)
      PROVE  VInv'
  <2>0. verified \in [AttemptIDs -> Seq(EventKind)]
    BY DEF HttpTypeOK
  <2>1. PICK events \in Seq(EventKind) :
          OfVerifications(Said(events)) /\ verified' = [verified EXCEPT ![a] = @ \o events]
    BY <1>4, <2>0, VerificationSays
  <2>2. /\ verified'[a] = verified[a] \o events
        /\ \A b \in AttemptIDs : b # a => verified'[b] = verified[b]
    BY <2>0, <2>1
  <2>3. Said(verified[a] \o events) = Said(verified[a]) \cup Said(events)
    BY <2>0, ConcatSays
  <2>4. OfVerifications(Said(verified[a] \o events))
    BY <2>1, <2>3 DEF VInv, OfVerifications
  <2>5. EventsByAttempt(a)' # {}
    BY <1>2, <1>4 DEF Verify
  <2>6. ASSUME NEW b \in AttemptIDs
        PROVE  /\ OfVerifications(Said(verified'[b]))
               /\ Said(verified'[b]) # {} => EventsByAttempt(b)' # {}
    <3>1. CASE b = a
      BY <2>2, <2>4, <2>5, <3>1
    <3>2. CASE b # a
      BY <1>2, <2>2, <3>2 DEF VInv
    <3> QED BY <3>1, <3>2
  <2> QED BY <2>6 DEF VInv, Said
<1> QED BY <1>3, <1>4, OnlyVerifyVerifies

------------------------------------------------------------------------------
(* The server's invariant: what was answered, and to whom.                 *)

\* A request was answered before it reached its use case, or with its result.
Responded(r) ==
  Answered(r) => \/ pc[r] = "idle" /\ response[r].status \in {400, 401}
                 \/ pc[r] = "done" /\ response[r] = writeExecution(r)

HInv ==
  /\ \A r \in Requests : Responded(r)
  /\ server \in {"stopped", "killed"} => \A r \in Requests : ~Handling(r)

\* A step of r is taken only by a call that is in flight or begins.
LEMMA OnlyRunningCallsStep ==
  ASSUME NEW r \in Requests, Step(r) \/ Cancel(r)
  PROVE  r \in InFlight
BY DEF Step, Cancel, InFlight, ReadFails, ReadPrevious, ReadAction, Begin, BeginRefused,
   BeginFails, BeginUncertain, Admit, RecordAdmission, RecordNotDispatched, Resolve,
   DispatchRefused, DispatchUnsent, callService, DispatchReturns, RecordDispatch,
   Preparing, Running

\* Every step of the server keeps HInv.
LEMMA HInvStep ==
  ASSUME HttpTypeOK, HInv, [HttpNext]_httpVars
  PROVE  HInv'
<1>0. TypeOK /\ response \in [Requests -> Response \cup {NoResponse}]
  BY DEF HttpTypeOK
<1>1. CASE UNCHANGED httpVars
  BY <1>1 DEF httpVars, vars, local, HInv, Responded, Answered, writeExecution, NoResult,
     Handling, InFlight
<1>2. ASSUME NEW r \in Requests, Unauthorized(r) \/ BadRequest(r) PROVE HInv'
  <2>1. /\ UNCHANGED <<pc, errs, outcome>> /\ server = "serving" /\ server' = server
        /\ pc[r] = "idle" /\ response'[r].status \in {400, 401}
        /\ \A s \in Requests : s # r => response'[s] = response[s]
    BY <1>0, <1>2 DEF Unauthorized, BadRequest, Pending, writeJSON, vars, local
  <2>2. ASSUME NEW s \in Requests PROVE Responded(s)'
    BY <2>1 DEF HInv, Responded, Answered, writeExecution, NoResult
  <2> QED BY <2>1, <2>2 DEF HInv
<1>3. ASSUME NEW r \in Requests, Respond(r) PROVE HInv'
  <2>1. /\ UNCHANGED <<pc, errs, outcome, server>>
        /\ pc[r] = "done" /\ response'[r] = writeExecution(r)
        /\ \A s \in Requests : s # r => response'[s] = response[s]
        /\ response[r] = NoResponse
    BY <1>0, <1>3 DEF Respond, writeJSON, vars, local
  <2>2. ASSUME NEW s \in Requests PROVE Responded(s)'
    BY <2>1 DEF HInv, Responded, Answered, writeExecution, NoResult
  <2>3. server \notin {"stopped", "killed"}
    BY <2>1 DEF HInv, Handling
  <2> QED BY <2>1, <2>2, <2>3 DEF HInv
<1>4. ASSUME NEW r \in Requests, Accept(r) \/ Proceed(r) \/ Disconnect(r) PROVE HInv'
  <2>1. /\ UNCHANGED <<response, server>>
        /\ Execute(r) \/ Recover(r) \/ Step(r) \/ Cancel(r)
        /\ server = "serving" \/ r \in InFlight
        /\ Pending(r) \/ r \in InFlight
    BY <1>4, OnlyRunningCallsStep DEF Accept, Proceed, Disconnect
  <2>2. ~Answered(r)
    BY <2>1 DEF HInv, Responded, Answered, Pending, InFlight, Preparing, Running
  <2>3. ASSUME NEW s \in Requests PROVE Responded(s)'
    <3>1. CASE s = r
      BY <2>1, <2>2, <3>1 DEF Responded, Answered
    <3>2. CASE s # r
      <4>1. pc'[s] = pc[s] /\ errs'[s] = errs[s] /\ outcome'[s] = outcome[s]
        BY <1>0, <2>1, <3>2, OthersAreLeftAlone DEF LeftAlone
      <4> QED BY <2>1, <4>1 DEF HInv, Responded, Answered, writeExecution, NoResult
    <3> QED BY <3>1, <3>2
  <2>4. server' \notin {"stopped", "killed"}
    BY <2>1 DEF HInv, Handling
  <2> QED BY <2>3, <2>4 DEF HInv
<1>5. CASE Terminate \/ Restart \/ Shutdown
  <2>1. UNCHANGED <<pc, errs, outcome, response>>
    BY <1>5 DEF Terminate, Restart, Shutdown, vars, local
  <2>2. \A s \in Requests : Responded(s)' /\ (Handling(s)' <=> Handling(s))
    BY <2>1 DEF HInv, Responded, Answered, writeExecution, NoResult, Handling, InFlight
  <2>3. server' \in {"stopped", "killed"} => \A s \in Requests : ~Handling(s)
    BY <1>5 DEF Terminate, Restart, Shutdown
  <2> QED BY <2>2, <2>3 DEF HInv
<1>6. CASE Exit
  <2>1. /\ UNCHANGED <<errs, outcome, response>>
        /\ pc' = [s \in Requests |-> IF Handling(s) THEN "crashed" ELSE pc[s]]
    BY <1>6 DEF Exit
  <2>2. ASSUME NEW s \in Requests PROVE Responded(s)' /\ ~Handling(s)'
    <3>1. CASE Handling(s)
      <4>1. pc'[s] = "crashed"
        BY <2>1, <3>1
      <4>2. ~Answered(s)
        BY <3>1 DEF HInv, Responded, Handling, Answered, InFlight, Preparing, Running
      <4> QED BY <2>1, <4>1, <4>2 DEF Responded, Answered, Handling, InFlight, Preparing, Running
    <3>2. CASE ~Handling(s)
      <4>1. pc'[s] = pc[s]
        BY <2>1, <3>2
      <4> QED BY <2>1, <3>2, <4>1 DEF HInv, Responded, Answered, writeExecution, NoResult,
                 Handling, InFlight
    <3> QED BY <3>1, <3>2
  <2> QED BY <2>2 DEF HInv
<1>7. ASSUME NEW a \in AttemptIDs, NEW observed \in BOOLEAN, NEW status \in Assessments,
             Verify(a, observed, status)
      PROVE  HInv'
  <2>1. UNCHANGED <<pc, errs, outcome, response, server>>
    BY <1>7 DEF Verify, vars, local
  <2> QED BY <2>1 DEF HInv, Responded, Answered, writeExecution, NoResult, Handling, InFlight
<1> QED BY <1>1, <1>2, <1>3, <1>4, <1>5, <1>6, <1>7 DEF HttpNext

\* HInv, and what is proved of the use cases, hold in every reachable state.
LEMMA HttpInvariance == HttpSpec => [](HttpTypeOK /\ IInv /\ EInv /\ HInv /\ VInv)
<1>1. HttpInit => HInv /\ VInv
  BY DEF HttpInit, HInv, Responded, Answered, VInv, Said, OfVerifications
<1>2. HttpTypeOK /\ HInv /\ VInv /\ [HttpNext]_httpVars => HInv' /\ VInv'
  BY HInvStep, VInvStep
<1> QED BY <1>1, <1>2, HttpTypeCorrect, HttpKeepsExecution, PTL DEF HttpSpec

------------------------------------------------------------------------------
(* What a client may conclude from an answer.                              *)

\* A call without an error that refuses it is answered with 200.
LEMMA StatusOfAnswer ==
  ASSUME NEW r \in Requests
  PROVE  /\ errs[r] \cap Refusals # {} => writeExecution(r).status = writeUseCaseError(errs[r])
         /\ errs[r] \cap Refusals = {} => writeExecution(r).status = 200
<1>1. NoResult(r) \/ errs[r] \cap {"already_started", "not_authorized", "action_mismatch",
                                   "identity_conflict"} # {}
        <=> errs[r] \cap Refusals # {}
  BY DEF NoResult, Refusals
<1> QED BY <1>1 DEF writeExecution

\* A call that owns nothing has sent nothing, and so has one that did not begin.
LEMMA NoOwnerNoCall ==
  ASSUME TypeOK, IInv, NEW r \in Requests
  PROVE  /\ ~Owner(r) => calls[r] = 0
         /\ pc[r] = "idle" => calls[r] = 0 /\ ~Owner(r)
<1>1. Steady(r)
  BY DEF IInv
<1> QED BY <1>1 DEF Steady, Owner

(* A request that was answered with an error status has sent nothing and   *)
(* has not taken its attempt.                                              *)
THEOREM ErrorMeansNoEffect == HttpSpec => []ErrorStatusMeansNoEffect
<1>1. HttpTypeOK /\ IInv /\ EInv /\ HInv => ErrorStatusMeansNoEffect
  <2> SUFFICES ASSUME HttpTypeOK, IInv, EInv, HInv, NEW r \in Requests, Answered(r),
                      response[r].status # 200
               PROVE  calls[r] = 0 /\ ~Owns(r)
    BY DEF ErrorStatusMeansNoEffect
  <2>1. TypeOK /\ Responded(r) /\ Explained(r)
    BY DEF HttpTypeOK, HInv, EInv
  <2>2. CASE pc[r] = "idle"
    BY <2>1, <2>2, NoOwnerNoCall, OwnerOwns
  <2>3. CASE pc[r] = "done" /\ response[r] = writeExecution(r)
    <3>1. errs[r] \cap Refusals # {}
      BY <2>3, StatusOfAnswer
    <3>2. ~Owner(r)
      BY <2>1, <3>1 DEF Explained
    <3> QED BY <2>1, <3>2, NoOwnerNoCall, OwnerOwns
  <2> QED BY <2>1, <2>2, <2>3 DEF Responded
<1> QED BY <1>1, HttpInvariance, PTL

(* Of all requests for an attempt only its owner is answered with a        *)
(* result; a request that is neither the owner nor disturbed is refused,   *)
(* and a 409 means that another request has the attempt or the ActionID.   *)
THEOREM ResubmissionRefused == HttpSpec => []ResubmissionIsRefused
<1>1. HttpTypeOK /\ IInv /\ EInv /\ HInv => ResubmissionIsRefused
  <2> SUFFICES ASSUME HttpTypeOK, IInv, EInv, HInv, NEW r \in Requests, Answered(r), ~Owns(r)
               PROVE  /\ calls[r] = 0
                      /\ r \notin cancelled \cup outages => response[r].status \in {400, 401, 409}
                      /\ response[r].status = 409 =>
                           \/ \E s \in Requests \ {r} : Owns(s) /\ attemptID(s) = attemptID(r)
                           \/ ActionConflict(action(r))
    BY DEF ResubmissionIsRefused
  <2>1. TypeOK /\ Responded(r) /\ Explained(r) /\ ~Owner(r)
    BY OwnerOwns DEF HttpTypeOK, HInv, EInv
  <2>2. calls[r] = 0
    BY <2>1, NoOwnerNoCall
  <2>3. CASE pc[r] = "idle" /\ response[r].status \in {400, 401}
    BY <2>2, <2>3
  <2>4. CASE pc[r] = "done" /\ response[r] = writeExecution(r)
    <3>1. ASSUME r \notin cancelled \cup outages PROVE response[r].status \in {400, 409}
      <4>1. errs[r] \cap Verdicts # {}
        BY <2>1, <2>4, <3>1 DEF Explained
      <4>2. response[r].status = writeUseCaseError(errs[r])
        BY <2>4, <4>1, StatusOfAnswer DEF Verdicts, Refusals
      <4>3. writeUseCaseError(errs[r]) \in {400, 409}
        BY <2>1, <4>1 DEF Explained, writeUseCaseError, Verdicts
      <4> QED BY <4>2, <4>3
    <3>2. ASSUME response[r].status = 409
          PROVE  \/ \E s \in Requests \ {r} : Owns(s) /\ attemptID(s) = attemptID(r)
                 \/ ActionConflict(action(r))
      <4>1. writeUseCaseError(errs[r]) = 409
        BY <2>4, <3>2, StatusOfAnswer
      <4>2. /\ "not_authorized" \notin errs[r]
            /\ errs[r] \cap {"already_started", "action_mismatch", "identity_conflict"} # {}
        BY <4>1 DEF writeUseCaseError
      <4>3. "already_started" \in errs[r] \/ "identity_conflict" \in errs[r]
        BY <2>1, <4>2 DEF Explained
      <4> QED BY <2>1, <4>2, <4>3, OwnerOwns DEF Explained
    <3> QED BY <2>2, <3>1, <3>2
  <2> QED BY <2>1, <2>3, <2>4 DEF Responded
<1> QED BY <1>1, HttpInvariance, PTL

(* When a shutdown has returned, every attempt that was claimed and not    *)
(* killed earlier has its dispatch on record and its client was answered,  *)
(* unless the storage failed.                                              *)
THEOREM CleanShutdown == HttpSpec => []CleanShutdownLosesNothing
<1>1. HttpTypeOK /\ IInv /\ EInv /\ HInv => CleanShutdownLosesNothing
  <2> SUFFICES ASSUME HttpTypeOK, IInv, EInv, HInv, server = "stopped",
                      NEW r \in Requests, Owns(r), pc[r] # "crashed"
               PROVE  /\ Answered(r)
                      /\ \/ \E kind \in DispatchKinds : newEvent(r, kind, "none") \in facts
                         \/ r \in outages
    BY DEF CleanShutdownLosesNothing
  <2>1. TypeOK /\ Owner(r) /\ ~Handling(r) /\ Told(r)
    BY OwnerOwns DEF HttpTypeOK, HInv, EInv
  <2>2. pc[r] # "idle"
    BY <2>1, NoOwnerNoCall
  <2>3. pc[r] = "done"
    BY <2>1, <2>2 DEF TypeOK, Handling, InFlight, Ended
  <2>4. Answered(r)
    BY <2>1, <2>3 DEF Handling, Answered
  <2>5. r \in outages \/ DispatchKind(outcome[r].dispatch) \in Recorded[r]
    BY <2>1, <2>3 DEF Told
  <2>6. DispatchKind(outcome[r].dispatch) \in DispatchKinds
    BY DEF DispatchKind, DispatchKinds
  <2> QED BY <2>4, <2>5, <2>6 DEF Recorded
<1> QED BY <1>1, HttpInvariance, PTL

------------------------------------------------------------------------------
(* The answer and the record: what a call returns is what it wrote.        *)

AdmissionKind(status) ==
  IF status = "rejected" THEN "action_rejected" ELSE "action_admitted"

EffectRecorded(r) == newEvent(r, "effect_unverified", "dispatch") \in facts

Agrees(r) ==
  /\ pc[r] = "record_admission" => admission[r] \in {"admitted", "rejected"}
  /\ pc[r] \in {"resolve", "dispatch", "calling", "record_dispatch"} => admission[r] = "admitted"
  /\ pc[r] = "record_not_dispatched" /\ errs[r] = {} =>
       admission[r] = "rejected" /\ "action_rejected" \in Recorded[r]
  /\ pc[r] \notin Ended => outcome[r] = NothingKnown /\ ~EffectRecorded(r)
  /\ outcome[r].dispatch # "unknown" =>
       Owner(r) /\ Recorded[r] \cap DispatchKinds \subseteq {DispatchKind(outcome[r].dispatch)}
  /\ pc[r] = "done" /\ errs[r] = {} =>
       /\ Owner(r)
       /\ outcome[r].admission \in {"admitted", "rejected"}
       /\ AdmissionKind(outcome[r].admission) \in Recorded[r]
       /\ outcome[r].admission = "rejected" => outcome[r].dispatch = "not_dispatched"
       /\ DispatchKind(outcome[r].dispatch) \in Recorded[r]
       /\ outcome[r].effect = IF EffectRecorded(r) THEN "unverified" ELSE "unknown"

\* The use cases write facts of these kinds; an effect is never verified.
UseCaseKinds ==
  {"action_requested", "attempt_started", "recovery_authorized", "action_admitted",
   "action_rejected", "not_dispatched", "dispatch_unknown", "action_dispatched",
   "provider_acknowledged", "effect_unverified"}

FromUseCase(f) ==
  f.kind \in UseCaseKinds /\ (f.kind = "effect_unverified" => f.qualifier = "dispatch")

AInv ==
  /\ \A f \in facts : FromUseCase(f)
  /\ \A r \in Requests : Agrees(r)

\* A step appends such facts only.
LEMMA AppendsUseCaseFacts ==
  ASSUME TypeOK, NEW r \in Requests, Execute(r) \/ Recover(r) \/ Step(r) \/ Cancel(r)
  PROVE  \A f \in facts' \ facts : FromUseCase(f)
<1>1. CASE UNCHANGED journal
  BY <1>1 DEF journal
<1>2. CASE Begin(r) \/ BeginUncertain(r)
  BY <1>2 DEF Begin, BeginUncertain, BeginAttempt, InitialEvents, actionRequestedEvent,
     attemptStartedEvent, recoveryAuthorizedEvent, newEvent, FromUseCase, UseCaseKinds
<1>3. CASE RecordAdmission(r)
  <2>1. FromUseCase(admissionEvent(r))
    BY DEF admissionEvent, newEvent, FromUseCase, UseCaseKinds
  <2>2. facts' = facts \/ facts' = facts \cup {admissionEvent(r)}
    BY <1>3 DEF RecordAdmission, appendAfterIO, AppendAll, journal
  <2> QED BY <2>1, <2>2
<1>4. CASE \E ok \in BOOLEAN : RecordNotDispatched(r, ok)
  BY <1>1, <1>4 DEF RecordNotDispatched, appendAfterIO, AppendAll, notDispatchedEvent, newEvent,
     FromUseCase, UseCaseKinds
<1>5. CASE \E ok \in BOOLEAN : RecordDispatch(r, ok)
  <2>1. \A f \in dispatchEvents(r) : FromUseCase(f)
    BY DEF dispatchEvents, newEvent, DispatchKind, FromUseCase, UseCaseKinds
  <2>2. facts' = facts \/ facts' = facts \cup dispatchEvents(r)
    BY <1>5 DEF RecordDispatch, appendAfterIO, AppendAll, journal
  <2> QED BY <2>1, <2>2
<1>6. \/ UNCHANGED journal
      \/ Begin(r) \/ BeginUncertain(r)
      \/ RecordAdmission(r)
      \/ \E ok \in BOOLEAN : RecordNotDispatched(r, ok)
      \/ \E ok \in BOOLEAN : RecordDispatch(r, ok)
  BY DEF Execute, Recover, Cancel, Step, ReadFails, ReadPrevious, ReadAction, BeginRefused,
     BeginFails, Admit, Resolve, DispatchRefused, DispatchUnsent, callService,
     DispatchReturns, Dispatched
<1> QED BY <1>1, <1>2, <1>3, <1>4, <1>5, <1>6

\* What r returned, and whether its effect is on record.
LEMMA AgreesElsewhere ==
  ASSUME TypeOK, NEW r \in Requests, Execute(r) \/ Recover(r) \/ Step(r) \/ Cancel(r),
         NEW s \in Requests \ {r}, Agrees(s), input' = input
  PROVE  Agrees(s)'
<1>1. LeftAlone(s)
  BY OthersAreLeftAlone
<1>2. EffectRecorded(s)' <=> EffectRecorded(s)
  <2>1. /\ newEvent(s, "effect_unverified", "dispatch").content = s
        /\ (newEvent(s, "effect_unverified", "dispatch"))' = newEvent(s, "effect_unverified", "dispatch")
    BY DEF newEvent, action, attemptID
  <2> QED BY <2>1, AppendsOwnFacts DEF EffectRecorded
<1> QED BY <1>1, <1>2 DEF LeftAlone, Agrees, Owner

\* A call that returns before its claim is stored was told an error.
LEMMA PreparationAgrees ==
  ASSUME TypeOK, IInv, NEW r \in Requests, Agrees(r), errs[r] = {},
         Execute(r) \/ Recover(r) \/ ReadFails(r) \/ ReadPrevious(r) \/ ReadAction(r)
           \/ Begin(r) \/ BeginRefused(r) \/ BeginFails(r) \/ BeginUncertain(r)
  PROVE  Agrees(r)'
<1>1. /\ pc[r] \notin Ended /\ outcome' = outcome /\ input' = input
      /\ pc'[r] \in Preparing \cup {"admit", "done"}
      /\ pc'[r] = "done" => errs'[r] # {}
  <2>1. /\ \A label : Goto(r, label) => pc'[r] = label
        /\ \A causes : Return(r, causes) => pc'[r] = "done" /\ (causes # {} => errs'[r] # {})
    BY DEF TypeOK, Goto, Return
  <2>2. CASE Execute(r)
    BY <2>2 DEF Execute, TypeOK, Goto, Return, Preparing, Ended
  <2>3. CASE Recover(r)
    BY <2>3 DEF Recover, TypeOK, Goto, Return, Preparing, Ended
  <2>4. CASE ReadFails(r)
    BY <2>1, <2>4 DEF ReadFails, Preparing, Ended
  <2>5. CASE ReadPrevious(r)
    BY <2>1, <2>5 DEF ReadPrevious, Preparing, Ended
  <2>6. CASE ReadAction(r)
    BY <2>1, <2>6 DEF ReadAction, Preparing, Ended
  <2>7. CASE Begin(r)
    BY <2>1, <2>7 DEF Begin, Preparing, Ended
  <2>8. CASE BeginFails(r)
    BY <2>1, <2>8 DEF BeginFails, Preparing, Ended
  <2>9. CASE BeginUncertain(r)
    BY <2>1, <2>9 DEF BeginUncertain, Preparing, Ended
  <2>10. CASE BeginRefused(r)
    BY <2>1, <2>10 DEF BeginRefused, Preparing, Ended
  <2> QED BY <2>2, <2>3, <2>4, <2>5, <2>6, <2>7, <2>8, <2>9, <2>10, Zenon
<1>2. \A e \in facts' \ facts : e.kind # "effect_unverified"
  <2>1. CASE Begin(r) \/ BeginUncertain(r)
    BY <2>1 DEF Begin, BeginUncertain, BeginAttempt, InitialEvents, actionRequestedEvent,
       attemptStartedEvent, recoveryAuthorizedEvent, newEvent
  <2>2. CASE ~(Begin(r) \/ BeginUncertain(r))
    BY <2>2 DEF Execute, Recover, ReadFails, ReadPrevious, ReadAction, BeginRefused, BeginFails,
       journal
  <2> QED BY <2>1, <2>2
<1>3. EffectRecorded(r)' => EffectRecorded(r)
  BY <1>1, <1>2 DEF EffectRecorded, newEvent, action, attemptID
<1> QED BY <1>1, <1>3 DEF Agrees, Ended, Preparing, NothingKnown

\* Between the claim and the last append nothing is recorded but the admission.
LEMMA RunningAgrees ==
  ASSUME TypeOK, IInv, NEW r \in Requests, Agrees(r),
         \/ \E status \in AdmissionStatus \cup {"invalid"}, failed \in BOOLEAN :
              Admit(r, status, failed)
         \/ RecordAdmission(r)
         \/ Resolve(r)
         \/ DispatchRefused(r)
         \/ DispatchUnsent(r)
         \/ callService(r)
         \/ \E answer \in Answers, matches \in BOOLEAN : DispatchReturns(r, answer, matches)
         \/ Cancel(r)
  PROVE  Agrees(r)'
<1>1. CASE RecordAdmission(r)
  <2>1. /\ pc[r] = "record_admission" /\ UNCHANGED <<input, admission, outcome>>
        /\ \/ /\ facts' = facts \cup {admissionEvent(r)} /\ errs' = errs
              /\ pc'[r] = IF admission[r] = "admitted" /\ errs[r] = {}
                          THEN "resolve" ELSE "record_not_dispatched"
           \/ /\ facts' = facts \/ facts' = facts \cup {admissionEvent(r)}
              /\ pc'[r] = "done" /\ errs'[r] # {}
    BY <1>1 DEF RecordAdmission, appendAfterIO, AppendAll, Goto, Return, TypeOK, journal
  <2>2. ~EffectRecorded(r)' /\ outcome[r] = NothingKnown
    BY <2>1 DEF EffectRecorded, newEvent, admissionEvent, action, attemptID, Agrees, Ended
  <2>3. admission[r] = "rejected" /\ pc'[r] = "record_not_dispatched"
          => "action_rejected" \in Recorded'[r]
    BY <2>1 DEF Recorded, admissionEvent, newEvent, action, attemptID, EventKind
  <2> QED BY <2>1, <2>2, <2>3 DEF Agrees, Ended, NothingKnown
<1>2. CASE ~RecordAdmission(r)
  <2>1. UNCHANGED <<journal, input, outcome>>
    BY <1>2 DEF Admit, Resolve, DispatchRefused, DispatchUnsent, callService, DispatchReturns,
       Dispatched, Cancel
  <2>2. Recorded' = Recorded /\ EffectRecorded(r)' = EffectRecorded(r)
    BY <2>1, RecordedUnchanged DEF journal, EffectRecorded, newEvent, action, attemptID
  <2>3. CASE \E status \in AdmissionStatus \cup {"invalid"}, failed \in BOOLEAN :
               Admit(r, status, failed)
    <3>1. /\ pc[r] = "admit" /\ pc'[r] \in {"record_admission", "record_not_dispatched"}
          /\ pc'[r] = "record_admission" => admission'[r] \in {"admitted", "rejected"}
          /\ pc'[r] = "record_not_dispatched" => errs'[r] # {}
      BY <2>3 DEF Admit, Goto, TypeOK, AdmissionStatus
    <3> QED BY <2>1, <2>2, <3>1 DEF Agrees, Ended, Owner
  <2>4. CASE Resolve(r)
    <3>1. /\ pc[r] = "resolve" /\ pc'[r] \in {"dispatch", "record_not_dispatched"}
          /\ pc'[r] = "record_not_dispatched" => errs'[r] # {}
          /\ admission' = admission
      <4> USE DEF Goto, TypeOK
      <4>1. CASE Goto(r, "dispatch")
        BY <2>4, <4>1 DEF Resolve
      <4>2. CASE Goto(r, "record_not_dispatched") /\ errs' = [errs EXCEPT ![r] = @ \cup {"resolve"}]
        BY <2>4, <4>2 DEF Resolve
      <4> QED BY <2>4, <4>1, <4>2, Zenon DEF Resolve
    <3> QED BY <2>1, <2>2, <3>1 DEF Agrees, Ended, Owner
  <2>5. CASE callService(r)
    BY <2>1, <2>2, <2>5 DEF callService, Goto, TypeOK, Agrees, Ended, Owner
  <2>8. CASE DispatchRefused(r)
    BY <2>1, <2>2, <2>8 DEF DispatchRefused, Dispatched, Goto, TypeOK, Agrees, Ended, Owner
  <2>9. CASE DispatchUnsent(r)
    BY <2>1, <2>2, <2>9 DEF DispatchUnsent, Dispatched, Goto, TypeOK, Agrees, Ended, Owner
  <2>6. CASE \E answer \in Answers, matches \in BOOLEAN : DispatchReturns(r, answer, matches)
    BY <2>1, <2>2, <2>6 DEF DispatchReturns, Dispatched, Goto, TypeOK, Agrees, Ended, Owner
  <2>7. CASE Cancel(r)
    BY <2>1, <2>2, <2>7 DEF Cancel, Agrees, Owner
  <2> QED BY <1>2, <2>3, <2>4, <2>5, <2>6, <2>7, <2>8, <2>9
<1> QED BY <1>1, <1>2

\* The last append says what is returned, if there is no error to report.
LEMMA LastAppendAgrees ==
  ASSUME TypeOK, IInv, NEW r \in Requests, Agrees(r),
         \/ \E ok \in BOOLEAN : RecordNotDispatched(r, ok)
         \/ \E ok \in BOOLEAN : RecordDispatch(r, ok)
  PROVE  Agrees(r)'
<1>1. ASSUME NEW k \in EventKind, newEvent(r, k, "none") \in facts', input' = input
      PROVE  k \in Recorded'[r]
  BY <1>1 DEF Recorded, newEvent, action, attemptID
<1>2. ASSUME NEW ok \in BOOLEAN, RecordNotDispatched(r, ok) PROVE Agrees(r)'
  <2>1. /\ pc[r] = "record_not_dispatched" /\ pc'[r] = "done" /\ input' = input
        /\ outcome'[r] = [admission |-> admission[r], dispatch |-> "not_dispatched",
                          effect |-> "unknown"]
        /\ errs'[r] = {} => errs[r] = {} /\ ok
        /\ facts' = facts \/ facts' = facts \cup {notDispatchedEvent(r)}
        /\ ok => facts' = facts \cup {notDispatchedEvent(r)}
    BY <1>2 DEF RecordNotDispatched, appendAfterIO, AppendAll, Return, TypeOK, journal
  <2>2. Owner(r) /\ Recorded[r] \cap DispatchKinds = {}
    BY <2>1 DEF IInv, Steady, Running, Owner
  <2>3. /\ Recorded[r] \subseteq Recorded'[r] /\ Recorded'[r] \subseteq Recorded[r] \cup {"not_dispatched"}
        /\ ok => "not_dispatched" \in Recorded'[r]
    BY <2>1 DEF Recorded, notDispatchedEvent, newEvent, action, attemptID, EventKind
  <2>4. ~EffectRecorded(r)'
    BY <2>1 DEF EffectRecorded, newEvent, notDispatchedEvent, action, attemptID, Agrees, Ended
  <2>5. errs'[r] = {} => admission[r] = "rejected" /\ "action_rejected" \in Recorded[r]
    BY <2>1 DEF Agrees
  <2>6. DispatchKind("not_dispatched") = "not_dispatched"
    BY DEF DispatchKind
  <2> QED BY <2>1, <2>2, <2>3, <2>4, <2>5, <2>6 DEF Agrees, Ended, Owner, AdmissionKind
<1>3. ASSUME NEW ok \in BOOLEAN, RecordDispatch(r, ok) PROVE Agrees(r)'
  <2>1. /\ pc[r] = "record_dispatch" /\ pc'[r] = "done" /\ input' = input
        /\ outcome'[r] = [admission |-> admission[r], dispatch |-> dispatch[r],
                          effect |-> EffectOf(dispatch[r])]
        /\ errs'[r] = {} => ok
        /\ facts' = facts \/ facts' = facts \cup dispatchEvents(r)
        /\ ok => facts' = facts \cup dispatchEvents(r)
    BY <1>3 DEF RecordDispatch, appendAfterIO, AppendAll, Return, TypeOK, journal
  <2>2. /\ Owner(r) /\ Recorded[r] \cap DispatchKinds = {} /\ "action_admitted" \in Recorded[r]
        /\ admission[r] = "admitted" /\ ~EffectRecorded(r)
    BY <2>1 DEF IInv, Steady, Running, Owner, Agrees, Ended
  <2>3. DispatchKind(dispatch[r]) \in EventKind \ {"effect_unverified"}
    BY DEF DispatchKind, EventKind
  <2>4. /\ Recorded[r] \subseteq Recorded'[r]
        /\ Recorded'[r] \subseteq Recorded[r] \cup {DispatchKind(dispatch[r])}
        /\ ok => DispatchKind(dispatch[r]) \in Recorded'[r]
    <3>1. \A k : newEvent(r, k, "none") \in dispatchEvents(r) <=> k = DispatchKind(dispatch[r])
      BY EventFields DEF dispatchEvents
    <3>2. \A k : (newEvent(r, k, "none"))' = newEvent(r, k, "none")
      BY <2>1 DEF newEvent, action, attemptID
    <3> QED BY <2>1, <2>3, <3>1, <3>2 DEF Recorded
  <2>5. ok => (EffectRecorded(r)' <=> EffectOf(dispatch[r]) = "unverified")
    <3>1. newEvent(r, "effect_unverified", "dispatch") \in dispatchEvents(r)
            <=> EffectOf(dispatch[r]) = "unverified"
      BY EventFields DEF dispatchEvents
    <3>2. (newEvent(r, "effect_unverified", "dispatch"))' = newEvent(r, "effect_unverified", "dispatch")
      BY <2>1 DEF newEvent, action, attemptID
    <3> QED BY <2>1, <2>2, <3>1, <3>2 DEF EffectRecorded
  <2>6. EffectOf(dispatch[r]) \in {"unverified", "unknown"}
    BY DEF EffectOf
  <2> QED BY <2>1, <2>2, <2>4, <2>5, <2>6 DEF Agrees, Ended, Owner, AdmissionKind
<1> QED BY <1>2, <1>3

\* Losing calls keeps AInv.
LEMMA LosingKeepsAInv ==
  ASSUME AInv, facts' = facts, UNCHANGED <<input, admission, outcome, errs>>,
         \A s \in Requests : pc'[s] = pc[s] \/ pc'[s] = "crashed"
  PROVE  AInv'
<1>1. Recorded' = Recorded
  BY RecordedUnchanged
<1>2. ASSUME NEW s \in Requests PROVE Agrees(s)'
  <2>1. EffectRecorded(s)' <=> EffectRecorded(s)
    BY DEF EffectRecorded, newEvent, action, attemptID
  <2> QED BY <1>1, <2>1 DEF AInv, Agrees, Owner, Ended
<1> QED BY <1>2 DEF AInv, FromUseCase

\* Every step of the use cases keeps AInv.
LEMMA AInvStep ==
  ASSUME TypeOK, IInv, EInv, AInv, [Next]_vars
  PROVE  AInv'
<1>1. CASE UNCHANGED vars
  BY <1>1, LosingKeepsAInv DEF vars, local, journal
<1>2. CASE Crash
  BY <1>2, LosingKeepsAInv DEF Crash, journal
<1>3. ASSUME NEW r \in Requests, Execute(r) \/ Recover(r) \/ Step(r) \/ Cancel(r)
      PROVE  AInv'
  <2>1. \A f \in facts' : FromUseCase(f)
    BY <1>3, AppendsUseCaseFacts DEF AInv
  <2>2. input' = input
    BY <1>3 DEF Execute, Recover, Cancel, Step, ReadFails, ReadPrevious, ReadAction, Begin,
       BeginRefused, BeginFails, BeginUncertain, Admit, RecordAdmission, RecordNotDispatched,
       Resolve, DispatchRefused, DispatchUnsent, callService, DispatchReturns, RecordDispatch,
       Dispatched
  <2>3. \A s \in Requests \ {r} : Agrees(s)'
    BY <1>3, <2>2, AgreesElsewhere DEF AInv
  <2>4. Agrees(r) /\ (pc[r] \in {"idle"} \cup Preparing => errs[r] = {})
    BY DEF AInv, EInv, Explained
  <2>5. ASSUME \/ Execute(r) \/ Recover(r) \/ ReadFails(r) \/ ReadPrevious(r) \/ ReadAction(r)
               \/ Begin(r) \/ BeginRefused(r) \/ BeginFails(r) \/ BeginUncertain(r)
        PROVE  Agrees(r)'
    <3>1. pc[r] \in {"idle"} \cup Preparing
      BY <2>5 DEF Execute, Recover, ReadFails, ReadPrevious, ReadAction, Begin, BeginRefused,
         BeginFails, BeginUncertain, Preparing
    <3> QED BY <2>4, <2>5, <3>1, PreparationAgrees
  <2>6. Agrees(r)'
    BY <1>3, <2>4, <2>5, RunningAgrees, LastAppendAgrees DEF Step
  <2> QED BY <2>1, <2>3, <2>6 DEF AInv, FromUseCase
<1> QED BY <1>1, <1>2, <1>3 DEF Next, CallNext

\* AInv holds in every reachable state of the server.
LEMMA AnswerInvariance == HttpSpec => []AInv
<1>1. HttpInit => AInv
  BY DEF HttpInit, Init, JournalInit, AInv, Agrees, EffectRecorded, Owner, Ended, NothingKnown
<1>2. TypeOK /\ IInv /\ EInv /\ AInv /\ [HttpNext]_httpVars => AInv'
  <2> SUFFICES ASSUME TypeOK, IInv, EInv, AInv, [HttpNext]_httpVars PROVE AInv'
    OBVIOUS
  <2>1. CASE [Next]_vars
    BY <2>1, AInvStep
  <2>2. CASE Exit
    BY <2>2, LosingKeepsAInv DEF Exit, journal
  <2> QED BY <2>1, <2>2, HttpStepIsStep
<1> QED BY <1>1, <1>2, HttpKeepsExecution, PTL DEF HttpSpec

------------------------------------------------------------------------------
(* GET: the listing has exactly the facts on record, and its replay says   *)
(* what they say.                                                          *)

\* What appending to a list does to what it says.
LEMMA AppendSays ==
  ASSUME NEW T, NEW s \in Seq(T), NEW e \in T
  PROVE  Append(s, e) \in Seq(T) /\ Said(Append(s, e)) = Said(s) \cup {e}
<1>1. /\ Append(s, e) \in Seq(T)
      /\ DOMAIN Append(s, e) = DOMAIN s \cup {Len(s) + 1}
      /\ Append(s, e)[Len(s) + 1] = e
      /\ \A i \in DOMAIN s : Append(s, e)[i] = s[i]
  OBVIOUS
<1> QED BY <1>1 DEF Said

\* A list that says nothing is empty.
LEMMA EmptyListing ==
  ASSUME NEW T, NEW s \in Seq(T)
  PROVE  s = <<>> <=> Said(s) = {}
<1>1. Said(s) = {} <=> DOMAIN s = {}
  BY DEF Said
<1>2. DOMAIN s = 1 .. Len(s) /\ Len(s) \in Nat
  OBVIOUS
<1>3. DOMAIN s = {} <=> Len(s) = 0
  <2>1. ASSUME NEW n \in Nat PROVE 1 .. n = {} <=> n = 0
    <3>1. n # 0 => 1 \in 1 .. n
      OBVIOUS
    <3>2. n = 0 => 1 .. n = {}
      OBVIOUS
    <3> QED BY <3>1, <3>2
  <2> QED BY <1>2, <2>1
<1>4. s = <<>> <=> Len(s) = 0
  OBVIOUS
<1> QED BY <1>1, <1>3, <1>4

\* f[n] lists those of the first n members of order that are in kinds.
Filters(f, m, order, kinds) ==
  f = [n \in 0 .. m |-> IF n = 0 THEN <<>>
                        ELSE IF order[n] \in kinds THEN Append(f[n - 1], order[n])
                        ELSE f[n - 1]]

\* There is such a function, and its last list says all of them.  Seq and
\* Append are hidden where functions begin at 0.
LEMMA FilterSays ==
  ASSUME NEW m \in Nat, NEW order, NEW kinds, NEW T, T = {order[i] : i \in 1 .. m}, kinds \subseteq T
  PROVE  /\ \E f : Filters(f, m, order, kinds)
         /\ \A f : Filters(f, m, order, kinds) =>
              f[m] \in Seq(T) /\ Said(f[m]) = kinds
<1> DEFINE V == Seq(T)
           app(s, e) == Append(s, e)
           empty == <<>>
<1>0. /\ empty \in V /\ Said(empty) = {}
      /\ \A s \in V : \A e \in T : app(s, e) \in V /\ Said(app(s, e)) = Said(s) \cup {e}
  <2>1. empty \in V
    OBVIOUS
  <2>2. Said(empty) = {}
    BY <2>1, EmptyListing, Zenon
  <2>3. ASSUME NEW s \in V, NEW e \in T
        PROVE  app(s, e) \in V /\ Said(app(s, e)) = Said(s) \cup {e}
    <3>1. s \in Seq(T)
      OBVIOUS
    <3>2. Append(s, e) \in Seq(T)
      BY <3>1
    <3>3. Said(Append(s, e)) = Said(s) \cup {e}
      BY <3>1, AppendSays
    <3> QED BY <3>2, <3>3
  <2> QED BY <2>1, <2>2, <2>3, Zenon
<1> HIDE DEF V, app, empty
<1>a. \A n \in 1 .. m : order[n] \in T
  OBVIOUS
<1> DEFINE step == [n \in 1 .. m |-> [s \in V |-> IF order[n] \in kinds THEN app(s, order[n]) ELSE s]]
<1>1. step \in [1 .. m -> [V -> V]]
  BY <1>0, <1>a
<1>2. \A n \in 1 .. m : \A s \in V : step[n][s] = IF order[n] \in kinds THEN app(s, order[n]) ELSE s
  OBVIOUS
<1> HIDE DEF step
<1>3. PICK g : Recurses(g, V, empty, m, step)
  <2>1. empty \in V
    BY <1>0
  <2>2. step \in StepsIn(V, m)
    BY <1>1, Zenon DEF StepsIn
  <2> QED BY <2>1, <2>2, Recursion, Zenon
<1>4. \A n \in 1 .. m : g[n] = IF order[n] \in kinds THEN app(g[n - 1], order[n]) ELSE g[n - 1]
  <2>1. \A n \in 1 .. m : n - 1 \in 0 .. m
    OBVIOUS
  <2> QED BY <1>2, <1>3, <2>1 DEF Recurses
<1>5. g = [n \in 0 .. m |-> IF n = 0 THEN empty
                            ELSE IF order[n] \in kinds THEN app(g[n - 1], order[n]) ELSE g[n - 1]]
  BY <1>3, <1>4 DEF Recurses
<1>6. ASSUME NEW f, f = [n \in 0 .. m |->
                          IF n = 0 THEN empty
                          ELSE IF order[n] \in kinds THEN app(f[n - 1], order[n]) ELSE f[n - 1]]
      PROVE  f[m] \in V /\ Said(f[m]) = kinds
  <2> DEFINE upTo(n) == {order[i] : i \in 1 .. n} \cap kinds
             S == {n \in 0 .. m : f[n] \in V /\ Said(f[n]) = upTo(n)}
  <2>1. /\ f[0] = empty
        /\ \A n \in 1 .. m : f[n] = IF order[n] \in kinds THEN app(f[n - 1], order[n]) ELSE f[n - 1]
    BY <1>6
  <2>2. 0 \in S
    <3>1. upTo(0) = {} /\ 0 \in 0 .. m
      OBVIOUS
    <3> HIDE DEF upTo
    <3> QED BY <1>0, <2>1, <3>1
  <2>3. ASSUME NEW n \in 0 .. m - 1, n \in S PROVE n + 1 \in S
    <3>1. n + 1 \in 1 .. m /\ (n + 1) - 1 = n /\ n + 1 \in 0 .. m
      OBVIOUS
    <3>2. upTo(n + 1) = IF order[n + 1] \in kinds THEN upTo(n) \cup {order[n + 1]} ELSE upTo(n)
      <4>1. 1 .. n + 1 = (1 .. n) \cup {n + 1}
        OBVIOUS
      <4> QED BY <4>1
    <3>3. f[n] \in V /\ Said(f[n]) = upTo(n)
      BY <2>3
    <3>4. f[n + 1] = IF order[n + 1] \in kinds THEN app(f[n], order[n + 1]) ELSE f[n]
      BY <2>1, <3>1
    <3> HIDE DEF upTo
    <3>5. f[n + 1] \in V /\ Said(f[n + 1]) = upTo(n + 1)
      <4>1. CASE order[n + 1] \in kinds
        <5>1. app(f[n], order[n + 1]) \in V
              /\ Said(app(f[n], order[n + 1])) = Said(f[n]) \cup {order[n + 1]}
          BY <1>0, <1>a, <3>1, <3>3, Zenon
        <5> QED BY <3>2, <3>3, <3>4, <4>1, <5>1, Zenon
      <4>2. CASE order[n + 1] \notin kinds
        BY <3>2, <3>3, <3>4, <4>2, Zenon
      <4> QED BY <4>1, <4>2
    <3> QED BY <3>1, <3>5
  <2>4. m \in S
    <3> HIDE DEF S
    <3>1. Inductive(S, m)
      BY <2>2, <2>3, Zenon DEF Inductive
    <3> QED BY <3>1, Induction, Zenon
  <2>5. upTo(m) = kinds
    OBVIOUS
  <2> QED BY <2>4, <2>5
<1> QED BY <1>5, <1>6, Zenon DEF Filters, V, app, empty

\* The listing of some facts of the use cases says exactly those.
LEMMA ListingSays ==
  ASSUME NEW kinds, kinds \subseteq UseCaseKinds
  PROVE  Listing(kinds) \in Seq(UseCaseKinds) /\ Said(Listing(kinds)) = kinds
<1>1. Len(AppendOrder) = 10
  BY DEF AppendOrder
<1>2. {AppendOrder[i] : i \in 1 .. 10} = UseCaseKinds
  <2>1. \A i \in 1 .. 10 : AppendOrder[i] \in UseCaseKinds
    BY DEF AppendOrder, UseCaseKinds
  <2>2. ASSUME NEW k \in UseCaseKinds PROVE \E i \in 1 .. 10 : AppendOrder[i] = k
    <3>1. /\ AppendOrder[1] = "action_requested" /\ AppendOrder[2] = "attempt_started"
          /\ AppendOrder[3] = "recovery_authorized" /\ AppendOrder[4] = "action_admitted"
          /\ AppendOrder[5] = "action_rejected" /\ AppendOrder[6] = "not_dispatched"
          /\ AppendOrder[7] = "dispatch_unknown" /\ AppendOrder[8] = "action_dispatched"
          /\ AppendOrder[9] = "provider_acknowledged" /\ AppendOrder[10] = "effect_unverified"
      BY DEF AppendOrder
    <3> QED BY <3>1 DEF UseCaseKinds
  <2> QED BY <2>1, <2>2
<1> DEFINE m == Len(AppendOrder)
<1>3. m \in Nat /\ {AppendOrder[i] : i \in 1 .. m} = UseCaseKinds
  BY <1>1, <1>2
<1>4. PICK f : Filters(f, m, AppendOrder, kinds) /\ Listing(kinds) = f[m]
  <2>1. \E f : Filters(f, m, AppendOrder, kinds)
    BY <1>3, FilterSays, Zenon
  <2>2. Listing(kinds) = (CHOOSE f : Filters(f, m, AppendOrder, kinds))[m]
    BY Zenon DEF Listing, Filters
  <2> QED BY <2>1, <2>2, Zenon
<1>5. f[m] \in Seq(UseCaseKinds) /\ Said(f[m]) = kinds
  BY <1>3, <1>4, FilterSays, Zenon
<1> QED BY <1>4, <1>5, Zenon

\* What GET answers for an attempt, from the kinds of its facts.
LEMMA GetSays ==
  ASSUME NEW a \in AttemptIDs, {f.kind : f \in EventsByAttempt(a)} \subseteq UseCaseKinds,
         verified \in [AttemptIDs -> Seq(EventKind)]
  PROVE  LET said == {f.kind : f \in EventsByAttempt(a)} \cup Said(verified[a])
         IN /\ said = {} => Get(a).status # 200
            /\ said # {} => /\ Get(a).status = 200
                            /\ Reflects(Get(a).view, said) /\ Assesses(Get(a).view, said)
<1>1. ASSUME NEW kinds, kinds \subseteq UseCaseKinds, NEW facts2 \in Seq(EventKind)
      PROVE  LET list == Listing(kinds) \o facts2
                 said == kinds \cup Said(facts2)
             IN /\ list = <<>> <=> said = {}
                /\ Reflects(Replay(list), said) /\ Assesses(Replay(list), said)
  <2> DEFINE list == Listing(kinds) \o facts2
             said == kinds \cup Said(facts2)
  <2>1. Listing(kinds) \in Seq(UseCaseKinds) /\ Said(Listing(kinds)) = kinds
    BY <1>1, ListingSays, Zenon
  <2>2. Listing(kinds) \in Seq(EventKind)
    <3>1. UseCaseKinds \subseteq EventKind
      BY DEF UseCaseKinds, EventKind
    <3> QED BY <2>1, <3>1
  <2>3. list \in Seq(EventKind) /\ Said(list) = said
    <3>1. \A s, t \in Seq(EventKind) : s \o t \in Seq(EventKind) /\ Said(s \o t) = Said(s) \cup Said(t)
      BY ConcatSays
    <3>2. list \in Seq(EventKind) /\ Said(list) = Said(Listing(kinds)) \cup Said(facts2)
      BY <1>1, <2>2, <3>1, Zenon
    <3> QED BY <2>1, <3>2, Zenon
  <2> HIDE DEF list, said
  <2>4. list = <<>> <=> said = {}
    BY <2>3, EmptyListing, Zenon
  <2>5. Reflects(Replay(list), Said(list)) /\ Assesses(Replay(list), Said(list))
    BY <2>3, ReplayIsOrderFree, Zenon DEF Said
  <2>6. (list = <<>> <=> said = {}) /\ Reflects(Replay(list), said) /\ Assesses(Replay(list), said)
    BY <2>3, <2>4, <2>5, Zenon
  <2> QED BY <2>6, Zenon DEF list, said
<1> DEFINE kinds == {f.kind : f \in EventsByAttempt(a)}
           said == kinds \cup Said(verified[a])
           view == Replay(FactList(a))
<1>2. Get(a) = IF FactList(a) = <<>>
               THEN [status |-> writeUseCaseError({"validate", "not_found"})]
               ELSE [status |-> 200, view |-> view]
  BY Zenon DEF Get
<1>3. (FactList(a) = <<>> <=> said = {}) /\ Reflects(view, said) /\ Assesses(view, said)
  <2>1. verified[a] \in Seq(EventKind)
    OBVIOUS
  <2> QED BY <1>1, <2>1, Zenon DEF FactList
<1>4. writeUseCaseError({"validate", "not_found"}) # 200
  BY DEF writeUseCaseError
<1> HIDE DEF kinds, said, view
<1>5. CASE said = {}
  <2>1. Get(a) = [status |-> writeUseCaseError({"validate", "not_found"})]
    BY <1>2, <1>3, <1>5, Zenon
  <2>2. Get(a).status # 200
    BY <1>4, <2>1
  <2> QED BY <1>5, <2>2, Zenon DEF kinds, said
<1>6. CASE said # {}
  <2>1. Get(a) = [status |-> 200, view |-> view]
    BY <1>2, <1>3, <1>6, Zenon
  <2>2. Get(a).status = 200 /\ Get(a).view = view
    BY <2>1
  <2> QED BY <1>3, <1>6, <2>2, Zenon DEF kinds, said
<1> QED BY <1>5, <1>6

\* The facts of an attempt are those its owner recorded.
LEMMA KindsOfAttempt ==
  ASSUME TypeOK, IInv, AInv, NEW r \in Requests, Owner(r)
  PROVE  LET kinds == {f.kind : f \in EventsByAttempt(attemptID(r))}
         IN /\ kinds \subseteq UseCaseKinds /\ "attempt_started" \in kinds
            /\ \A k \in AdmissionKinds \cup DispatchKinds : k \in kinds <=> k \in Recorded[r]
            /\ "effect_unverified" \in kinds <=> EffectRecorded(r)
<1> DEFINE kinds == {f.kind : f \in EventsByAttempt(attemptID(r))}
<1>1. ASSUME NEW f \in EventsByAttempt(attemptID(r))
      PROVE  /\ f \in facts /\ f = newEvent(r, f.kind, f.qualifier) /\ FromUseCase(f)
             /\ f.kind \in AdmissionKinds \cup DispatchKinds => f.kind \in Recorded[r]
  <2>1. f \in facts /\ f.attemptID = attemptID(r)
    BY DEF EventsByAttempt
  <2>2. f.content = r
    BY <2>1, FactsAreRecorded, OwnerIsUnique
  <2> QED BY <2>1, <2>2, FactsAreRecorded DEF AInv
<1>2. ASSUME NEW k, NEW q, newEvent(r, k, q) \in facts PROVE k \in kinds
  <2>1. newEvent(r, k, q).attemptID = attemptID(r) /\ newEvent(r, k, q).kind = k
    BY DEF newEvent
  <2> QED BY <1>2, <2>1 DEF EventsByAttempt
<1>3. kinds \subseteq UseCaseKinds
  BY <1>1 DEF FromUseCase
<1>4. \A k \in Recorded[r] : k \in kinds
  BY <1>2 DEF Recorded
<1>5. \A k \in AdmissionKinds \cup DispatchKinds : k \in kinds <=> k \in Recorded[r]
  BY <1>1, <1>4
<1>6. "effect_unverified" \in kinds <=> EffectRecorded(r)
  BY <1>1, <1>2 DEF FromUseCase, EffectRecorded
<1> QED BY <1>3, <1>4, <1>5, <1>6 DEF Owner

(* The admission and dispatch of an answer without operation_error are     *)
(* what GET shows from then on, whatever verifications record; its effect  *)
(* is shown until the attempt is verified, and forgotten never, unless     *)
(* verifications contradict each other.  What GET shows of the dispatch    *)
(* never contradicts an answer with operation_error.                       *)
THEOREM AnswersAgree == HttpSpec => []AnswerAgreesWithRecord
<1>1. HttpTypeOK /\ IInv /\ EInv /\ HInv /\ VInv /\ AInv => AnswerAgreesWithRecord
  <2> SUFFICES ASSUME HttpTypeOK, IInv, EInv, HInv, VInv, AInv,
                      NEW r \in Requests, Answered(r), response[r].status = 200
               PROVE  LET answer == response[r].outcome
                          got == Get(attemptID(r))
                      IN /\ ~response[r].failed =>
                              /\ got.status = 200
                              /\ got.view.admission = answer.admission
                              /\ got.view.dispatch = answer.dispatch
                              /\ got.view.verification = "unknown" => got.view.effect = answer.effect
                              /\ got.view.effect = "unknown" =>
                                   answer.effect = "unknown" \/ got.view.effectConflicted
                         /\ got.status = 200 =>
                              /\ ~got.view.admissionConflicted /\ ~got.view.dispatchConflicted
                              /\ answer.dispatch # "unknown"
                                   => got.view.dispatch \in {"unknown", answer.dispatch}
    BY DEF AnswerAgreesWithRecord
  <2> DEFINE got == Get(attemptID(r))
             answer == response[r].outcome
             kinds == {f.kind : f \in EventsByAttempt(attemptID(r))}
             later == Said(verified[attemptID(r)])
             said == kinds \cup later
  <2>1. TypeOK /\ Agrees(r) /\ Responded(r) /\ verified \in [AttemptIDs -> Seq(EventKind)]
    BY DEF HttpTypeOK, HInv, AInv
  <2>a. attemptID(r) \in AttemptIDs
    BY <2>1, InputsAssumption DEF TypeOK, attemptID, Input
  <2>b. OfVerifications(later) /\ (later # {} => kinds # {})
    BY <2>a DEF VInv
  <2>2. /\ pc[r] = "done" /\ answer = outcome[r]
        /\ ~response[r].failed => errs[r] = {}
    <3>1. pc[r] = "done" /\ response[r] = writeExecution(r)
      BY <2>1 DEF Responded
    <3>2. writeUseCaseError(errs[r]) # 200
      BY DEF writeUseCaseError
    <3>3. response[r] = [status |-> 200, outcome |-> outcome[r], failed |-> errs[r] # {}]
      BY <3>1, <3>2 DEF writeExecution
    <3>4. response[r].outcome = outcome[r]
      BY <3>3
    <3>5. response[r].failed = (errs[r] # {})
      BY <3>3
    <3> QED BY <3>1, <3>4, <3>5, Zenon
  <2>3. CASE kinds = {}
    <3>1. ~Owner(r)
      BY <2>1, <2>3, KindsOfAttempt
    <3>2. got.status # 200
      <4>1. later = {} /\ said = {} /\ kinds \subseteq UseCaseKinds
        BY <2>3, <2>b
      <4> QED BY <2>1, <2>a, <4>1, GetSays, Zenon
    <3> QED BY <2>1, <2>2, <3>1, <3>2 DEF Agrees
  <2>4. CASE kinds # {}
    <3>1. PICK o \in Requests : Owner(o) /\ attemptID(o) = attemptID(r)
      BY <2>1, <2>4, FactsAreRecorded DEF EventsByAttempt
    <3>2. /\ kinds \subseteq UseCaseKinds
          /\ \A k \in AdmissionKinds \cup DispatchKinds : k \in kinds <=> k \in Recorded[o]
          /\ "effect_unverified" \in kinds <=> EffectRecorded(o)
      BY <2>1, <3>1, KindsOfAttempt
    <3>3. got.status = 200 /\ Reflects(got.view, said) /\ Assesses(got.view, said)
      BY <2>1, <2>4, <2>a, <3>2, GetSays
    <3>4. Steady(o) /\ Agrees(o)
      BY DEF IInv, AInv
    <3> HIDE DEF kinds, later, said, got, answer
    <3>a. \A k \in AdmissionKinds \cup DispatchKinds : k \in said <=> k \in kinds
      BY <2>b DEF said, OfVerifications, VerifyKinds, AssessmentKinds, AdmissionKinds, DispatchKinds
    <3>5. /\ ~({"action_admitted", "action_rejected"} \subseteq said)
          /\ \A j, k \in said \cap DispatchKinds : j = k
          /\ "action_rejected" \in said => said \cap SentKinds = {}
      BY <3>2, <3>4, <3>a DEF Steady, AdmissionKinds, DispatchKinds, SentKinds
    <3>6. ~got.view.admissionConflicted /\ ~got.view.dispatchConflicted
      BY <3>3, <3>5 DEF Reflects, AdmissionContradicted, DispatchContradicted, SaysNotDispatched,
         SaysDispatched, DispatchKinds, SentKinds
    <3>7. CASE r # o
      <4>1. ~Owner(r)
        BY <3>1, <3>7, OwnerIsUnique, <2>1
      <4>2. errs[r] # {} /\ outcome[r].dispatch = "unknown"
        BY <2>1, <2>2, <4>1 DEF Agrees
      <4> QED BY <2>2, <3>6, <4>2 DEF got, answer
    <3>8. CASE r = o
      <4>1. ASSUME errs[r] = {}
            PROVE  /\ got.view.admission = outcome[r].admission
                   /\ got.view.dispatch = outcome[r].dispatch
                   /\ got.view.verification = "unknown" => got.view.effect = outcome[r].effect
                   /\ got.view.effect = "unknown" =>
                        outcome[r].effect = "unknown" \/ got.view.effectConflicted
        <5>1. /\ outcome[r].admission \in {"admitted", "rejected"}
              /\ AdmissionKind(outcome[r].admission) \in said
              /\ DispatchKind(outcome[r].dispatch) \in said
              /\ outcome[r].effect = IF "effect_unverified" \in kinds THEN "unverified" ELSE "unknown"
          BY <2>1, <2>2, <3>2, <3>8, <3>a, <4>1 DEF Agrees, AdmissionKind, DispatchKind, AdmissionKinds,
             DispatchKinds
        <5>2. got.view.admission = outcome[r].admission
          BY <3>3, <3>5, <5>1 DEF Reflects, KnownAdmission, AdmissionContradicted, AdmissionKind
        <5>3. got.view.verification = "unknown" => got.view.effect = outcome[r].effect
          <6> HAVE got.view.verification = "unknown"
          <6>1. later \subseteq {"observation_recorded"}
            BY <2>b, <3>3 DEF Assesses, said, OfVerifications, AssessmentKinds
          <6>2. /\ "effect_unverified" \in said <=> "effect_unverified" \in kinds
                /\ "effect_satisfied" \notin said /\ "effect_unsatisfied" \notin said
            BY <3>2, <6>1 DEF said, UseCaseKinds
          <6> QED BY <3>3, <5>1, <6>2 DEF Reflects, KnownEffect, EffectContradicted
        <5>6. got.view.effect = "unknown" => outcome[r].effect = "unknown" \/ got.view.effectConflicted
          BY <3>3, <5>1 DEF said, Reflects, KnownEffect
        <5>4. outcome[r].dispatch \in DispatchStatus
          BY <2>1 DEF TypeOK, Outcome
        <5>5. got.view.dispatch = outcome[r].dispatch
          <6>1. got.view.dispatch = KnownDispatch(said) /\ ~DispatchContradicted(said)
            BY <3>3, <3>6 DEF Reflects
          <6>2. said \cap DispatchKinds = {DispatchKind(outcome[r].dispatch)}
            BY <3>5, <5>1 DEF DispatchKind, DispatchKinds
          <6>3. "action_rejected" \in said => outcome[r].dispatch = "not_dispatched"
            BY <2>1, <2>2, <3>5, <4>1, <5>1 DEF Agrees, AdmissionKind
          <6> QED BY <5>1, <5>4, <6>1, <6>2, <6>3 DEF KnownDispatch, SaysNotDispatched, SaysDispatched,
                 DispatchKind, DispatchKinds, DispatchStatus
        <5> QED BY <5>2, <5>3, <5>5, <5>6
      <4>2. ASSUME outcome[r].dispatch # "unknown"
            PROVE  got.view.dispatch \in {"unknown", outcome[r].dispatch}
        <5>1. outcome[r].dispatch \in {"not_dispatched", "dispatched", "acknowledged"}
          BY <2>1, <4>2 DEF TypeOK, Outcome, DispatchStatus
        <5>2. said \cap DispatchKinds \subseteq {DispatchKind(outcome[r].dispatch)}
          BY <2>1, <3>2, <3>8, <3>a, <4>2 DEF Agrees
        <5>3. outcome[r].dispatch \in {"dispatched", "acknowledged"} => "action_rejected" \notin said
          BY <3>2, <3>4, <3>8, <3>a DEF Steady, AdmissionKinds
        <5> QED BY <3>3, <5>1, <5>2, <5>3 DEF Reflects, KnownDispatch, SaysNotDispatched,
               DispatchKind, DispatchKinds
      <4> QED BY <2>2, <3>3, <3>6, <4>1, <4>2 DEF got, answer
    <3> QED BY <3>7, <3>8
  <2> QED BY <2>3, <2>4
<1> QED BY <1>1, HttpInvariance, AnswerInvariance, PTL
==============================================================================
