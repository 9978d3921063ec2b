---------------------------- MODULE Verification ----------------------------
(***************************************************************************)
(* VerifyAttempt.Verify on one attempt: several verifications, the         *)
(* executor of the attempt and the physical device run side by side.  The  *)
(* device's state and its last_updated time come from Home Assistant,      *)
(* whose clock may be off by up to MaxSkew; the verifier is the            *)
(* StateVerifier with a freshness window of MaxAge.                        *)
(*                                                                         *)
(* The facts of the attempt are kept in append order, since the assessment *)
(* a view reports depends on it.                                           *)
(***************************************************************************)
EXTENDS Projection, EventLog, Integers

CONSTANTS
  Calls,               \* calls of Verify
  MaxTime,             \* bound on the clock
  MaxAge,              \* the verifier's freshness window
  MaxSkew,             \* how far Home Assistant's clock may be off
  Demands              \* what the action may ask for

(* An action asks for one of two states (turn_on, turn_off, or a           *)
(* set_temperature whose setpoint the device has or has not reached), for  *)
(* a temperature its input does not name, or for something the verifier    *)
(* knows nothing about.                                                    *)
ASSUME TimeAssumption == MaxTime \in Nat /\ MaxAge \in Nat \ {0} /\ MaxSkew \in Nat
ASSUME DemandsAssumption ==
  Demands # {} /\ Demands \subseteq {"on", "off", "unreadable", "unsupported"}

VARIABLES
  wanted,              \* what the action asks for, fixed
  clock,               \* Atoha's clock
  device,              \* what GET /api/states returns
  log,                 \* the facts of the attempt, in append order
  executor,            \* how far the execution of the attempt is
  pc,                  \* where a Verify is
  argument,            \* whether it names the registered action
  observations,        \* what Observe returned
  checkedAt,           \* the evaluation time
  verdict,             \* the verifier's status
  errs,                \* what the returned error names
  outages              \* calls that met a storage error (history only)

call == <<pc, argument, observations, checkedAt, verdict, errs, outages>>
world == <<wanted, clock, device, log, executor>>
vars == <<world, call>>

Times == 0 .. MaxTime
DeviceStates == {"on", "off", "malformed", "absent"}
Device == [state : DeviceStates, updated : 0 .. MaxTime + MaxSkew]

\* An ObservationID is a hash of the raw answer; recordedAt is not part of it.
Observation == [value : Device, recordedAt : Times]

\* One action, one attempt.  A qualifier is <<>> or names an observation, a
\* check or the dispatch; the content holds what equal compares besides.
NoContent == [at |-> 0, evidence |-> {}, failed |-> FALSE]
fact(kind, qualifier, content) ==
  [actionID |-> "action", attemptID |-> "attempt", kind |-> kind,
   qualifier |-> qualifier, content |-> content]

Init ==
  /\ wanted \in Demands
  /\ clock = 0
  /\ device \in [state : DeviceStates, updated : {0}]
  /\ log = <<>>
  /\ executor = "idle"
  /\ pc = [c \in Calls |-> "read_events"]
  /\ argument \in [Calls -> {"same", "other_action", "other_intent"}]
  /\ observations = [c \in Calls |-> {}]
  /\ checkedAt = [c \in Calls |-> 0]
  /\ verdict = [c \in Calls |-> "unknown"]
  /\ errs = [c \in Calls |-> {}]
  /\ outages = {}

TypeOK ==
  /\ wanted \in Demands
  /\ clock \in Times
  /\ device \in Device
  /\ \A i \in DOMAIN log : log[i].kind \in EventKind
  /\ executor \in {"idle", "claimed", "admitted", "rejected", "settled", "undecided"}
  /\ pc \in [Calls -> {"read_events", "read_action", "resolve", "observe", "assess",
                       "record", "done"}]
  /\ observations \in [Calls -> SUBSET Observation]
  /\ checkedAt \in [Calls -> Times]
  /\ verdict \in [Calls -> VerificationStatus]
  /\ errs \in [Calls -> SUBSET {"validate", "record", "resolve", "observe", "verify",
                                "identity_conflict"}]
  /\ outages \subseteq Calls

------------------------------------------------------------------------------
(* The world.                                                              *)

Tick ==
  /\ clock < MaxTime
  /\ clock' = clock + 1
  /\ UNCHANGED <<wanted, device, log, executor, call>>

\* A new report, stamped by a clock that may be ahead or behind.
DeviceChanges ==
  /\ \E d \in Device :
       /\ d.updated > device.updated
       /\ d.updated \in clock - MaxSkew .. clock + MaxSkew
       /\ device' = d
  /\ UNCHANGED <<wanted, clock, log, executor, call>>

\* execute, seen from the log: the claim, the admission, the dispatch.
ExecutorClaims ==
  /\ executor = "idle"
  /\ executor' = "claimed"
  /\ log' = appendPrepared(log, <<fact("action_requested", <<"attempt">>, NoContent),
                                     fact("attempt_started", <<>>, NoContent)>>)
  /\ UNCHANGED <<wanted, clock, device, call>>

ExecutorAdmits(admitted) ==
  /\ executor = "claimed"
  /\ executor' = IF admitted THEN "admitted" ELSE "rejected"
  /\ log' = appendPrepared(log,
       <<fact(IF admitted THEN "action_admitted" ELSE "action_rejected", <<>>, NoContent)>>)
  /\ UNCHANGED <<wanted, clock, device, call>>

\* An admitter that does not decide leaves no admission fact, only that
\* nothing was dispatched.
ExecutorSettles(kind) ==
  /\ executor \in {"claimed", "admitted", "rejected"}
  /\ executor # "admitted" => kind = "not_dispatched"
  /\ executor' = IF executor = "claimed" THEN "undecided" ELSE "settled"
  /\ log' = appendPrepared(log,
       <<fact(kind, <<>>, NoContent)>>
         \o (IF kind \in {"action_dispatched", "provider_acknowledged"}
             THEN <<fact("effect_unverified", <<"dispatch">>, NoContent)>> ELSE <<>>))
  /\ UNCHANGED <<wanted, clock, device, call>>

------------------------------------------------------------------------------
(* Verify.                                                                 *)

Return(c, causes) ==
  /\ pc' = [pc EXCEPT ![c] = "done"]
  /\ errs' = [errs EXCEPT ![c] = @ \cup causes]

Goto(c, label) == pc' = [pc EXCEPT ![c] = label]

ReadFails(c) ==
  /\ pc[c] \in {"read_events", "read_action"}
  /\ Return(c, {"record"})
  /\ outages' = outages \cup {c}
  /\ UNCHANGED <<world, argument, observations, checkedAt, verdict>>

\* The attempt must have facts, all of this action.
ReadEvents(c) ==
  LET events == eventsByAttempt(log, "attempt")
  IN /\ pc[c] = "read_events"
     /\ \/ events # <<>> /\ argument[c] # "other_action" /\ Goto(c, "read_action") /\ UNCHANGED errs
        \/ (events = <<>> \/ argument[c] = "other_action") /\ Return(c, {"validate"})
     /\ UNCHANGED <<world, argument, observations, checkedAt, verdict, outages>>

ReadAction(c) ==
  /\ pc[c] = "read_action"
  /\ \/ argument[c] = "same" /\ Goto(c, "resolve") /\ UNCHANGED errs
     \/ argument[c] # "same" /\ Return(c, {"validate", "identity_conflict"})
  /\ UNCHANGED <<world, argument, observations, checkedAt, verdict, outages>>

Resolve(c) ==
  /\ pc[c] = "resolve"
  /\ \/ Goto(c, "observe") /\ UNCHANGED errs
     \/ Return(c, {"resolve"})
  /\ UNCHANGED <<world, argument, observations, checkedAt, verdict, outages>>

\* The answer to one GET: the device as it is now, or nothing.
getState == {{}, {[value |-> device, recordedAt |-> clock]}}

\* A failure to observe is reported, but does not stop the verification.
Observe(c) ==
  /\ pc[c] = "observe"
  /\ \E seen \in getState :
       /\ observations' = [observations EXCEPT ![c] = seen]
       /\ errs' = IF seen = {} THEN [errs EXCEPT ![c] = @ \cup {"observe"}] ELSE errs
  /\ Goto(c, "assess")
  /\ UNCHANGED <<world, argument, checkedAt, verdict, outages>>

\* Mutant: an observation of exactly the maximal age is stale.
FreshExcludesMaximum(o, asOf) == asOf - o.value.updated \in 0 .. MaxAge - 1

\* Only an observation inside the window is read at all.
Fresh(o, asOf) == asOf - o.value.updated \in 0 .. MaxAge

\* A reading that cannot be decoded; "absent", a null setpoint, is no error.
DecodeFails(o, asOf) == Fresh(o, asOf) /\ o.value.state = "malformed"

\* StateVerifier.Verify, on the only observation.
Assessment(o, asOf) ==
  IF ~Fresh(o, asOf) \/ o.value.state \in {"malformed", "absent"} \/ wanted = "unsupported"
  THEN "inconclusive"
  ELSE IF o.value.state = wanted THEN "verified" ELSE "unsatisfied"

\* compareTemperature cannot tell what was asked for: no assessment at all.
NoAssessment(o, asOf) ==
  wanted = "unreadable" /\ Fresh(o, asOf) /\ o.value.state # "malformed"

Assess(c) ==
  /\ pc[c] = "assess"
  /\ checkedAt' = [checkedAt EXCEPT ![c] = clock]
  /\ \/ /\ observations[c] = {}
        /\ verdict' = [verdict EXCEPT ![c] = "inconclusive"]
        /\ UNCHANGED errs
     \/ \E o \in observations[c] :
          /\ ~NoAssessment(o, clock)
          /\ verdict' = [verdict EXCEPT ![c] = Assessment(o, clock)]
          /\ errs' = IF DecodeFails(o, clock) THEN [errs EXCEPT ![c] = @ \cup {"verify"}] ELSE errs
     \/ \E o \in observations[c] :
          /\ NoAssessment(o, clock)
          /\ errs' = [errs EXCEPT ![c] = @ \cup {"verify"}]
          /\ UNCHANGED verdict
  /\ Goto(c, "record")
  /\ UNCHANGED <<world, argument, observations, outages>>

\* The ObservationID names value and last_updated, the content recordedAt.
observationEvent(o) ==
  fact("observation_recorded", <<o.value.state, o.value.updated>>,
       [at |-> o.recordedAt, evidence |-> {}, failed |-> FALSE])

effectKind(status) ==
  CASE status = "verified"    -> "effect_satisfied"
    [] status = "unsatisfied" -> "effect_unsatisfied"
    [] OTHER                  -> "effect_unverified"

\* Mutant: an inconclusive assessment gets no kind of its own.
verificationKindUnknown(status) ==
  CASE status = "verified"    -> "verification_verified"
    [] status = "unsatisfied" -> "verification_unsatisfied"
    [] OTHER                  -> "verification_unknown"

verificationKind(status) ==
  CASE status = "verified"    -> "verification_verified"
    [] status = "unsatisfied" -> "verification_unsatisfied"
    [] OTHER                  -> "verification_inconclusive"

\* Mutant: the assessment is stored without its effect.
verificationWithoutEffect(c) ==
  IF verdict[c] = "unknown" THEN <<>>
  ELSE <<fact(verificationKind(verdict[c]), <<"check", checkedAt[c]>>,
              [at |-> checkedAt[c], evidence |-> {}, failed |-> "verify" \in errs[c]])>>

\* Mutant: a verified effect is taken as proof of the dispatch.
verificationInfersDispatch(c) ==
  IF verdict[c] = "verified" THEN <<fact("action_dispatched", <<>>, NoContent)>> ELSE <<>>

verificationEvents(c) ==
  LET qualifier == <<"check", checkedAt[c]>>
      used == {<<o.value.state, o.value.updated>> : o \in observations[c]}
  IN IF verdict[c] = "unknown" THEN <<>>
     ELSE <<fact(effectKind(verdict[c]), qualifier,
                 [at |-> checkedAt[c], evidence |-> {}, failed |-> FALSE]),
            fact(verificationKind(verdict[c]), qualifier,
                 [at |-> checkedAt[c], evidence |-> used, failed |-> "verify" \in errs[c]])>>

\* Observe returns at most one observation.
observationEvents(c) ==
  IF observations[c] = {} THEN <<>>
  ELSE <<observationEvent(CHOOSE o \in observations[c] : TRUE)>>

Facts(c) == observationEvents(c) \o verificationEvents(c)

\* Mutant: a conflict with facts on record goes unreported.
RecordSilently(c) ==
  /\ pc[c] = "record"
  /\ log' = IF preflight(log, Facts(c)) THEN appendPrepared(log, Facts(c)) ELSE log
  /\ Return(c, {})
  /\ UNCHANGED <<wanted, clock, device, executor, argument, observations, checkedAt, verdict, outages>>

\* Observations and assessment in one batch, on a detached context.
Record(c) ==
  /\ pc[c] = "record"
  /\ \/ /\ preflight(log, Facts(c))
        /\ log' = appendPrepared(log, Facts(c))
        /\ Return(c, {})
     \/ /\ ~preflight(log, Facts(c))
        /\ Return(c, {"record"})
        /\ UNCHANGED log
  /\ UNCHANGED <<wanted, clock, device, executor, argument, observations, checkedAt, verdict, outages>>

\* A batch whose append failed may have been stored all the same.
RecordFails(c) ==
  /\ pc[c] = "record"
  /\ Facts(c) # <<>>
  /\ \/ preflight(log, Facts(c)) /\ log' = appendPrepared(log, Facts(c))
     \/ UNCHANGED log
  /\ Return(c, {"record"})
  /\ outages' = outages \cup {c}
  /\ UNCHANGED <<wanted, clock, device, executor, argument, observations, checkedAt, verdict>>

\* POST /v1/actions/verify: only a changed action is an error of the request.
verifyAnswer(c) ==
  IF "identity_conflict" \in errs[c] THEN [status |-> 409]
  ELSE [status |-> 200, verification |-> verdict[c], failed |-> errs[c] # {}]

Next ==
  \/ Tick
  \/ DeviceChanges
  \/ ExecutorClaims
  \/ \E admitted \in BOOLEAN : ExecutorAdmits(admitted)
  \/ \E kind \in DispatchKinds : ExecutorSettles(kind)
  \/ \E c \in Calls :
       \/ ReadFails(c)
       \/ ReadEvents(c)
       \/ ReadAction(c)
       \/ Resolve(c)
       \/ Observe(c)
       \/ Assess(c)
       \/ Record(c)
       \/ RecordFails(c)

Spec == Init /\ [][Next]_vars

------------------------------------------------------------------------------
(* Properties.                                                             *)

\* GetAttempt: the view rebuilt from the log.
ViewOf(l) == Replay([i \in DOMAIN l |-> l[i].kind])

(* A conclusive assessment on record rests on evidence on record: an       *)
(* observation stored before it, inside the freshness window at the time   *)
(* of the check and with the value that justifies the verdict, however the *)
(* device and the clock moved between Observe, Verify and AppendAll.  An   *)
(* inconclusive one left no evidence unused: unless the verifier knows     *)
(* nothing about the action, all it names is outside the window or cannot  *)
(* be read.                                                                *)
AssessmentRestsOnEvidence ==
  \A j \in DOMAIN log :
    /\ log[j].kind \in {"verification_verified", "verification_unsatisfied"} =>
         \E i \in 1 .. j - 1 :
           LET observed == log[i].qualifier
           IN /\ log[i].kind = "observation_recorded"
              /\ observed \in log[j].content.evidence
              /\ log[j].content.at - observed[2] \in 0 .. MaxAge
              /\ log[j].kind = "verification_verified" <=> observed[1] = wanted
              /\ observed[1] \in {"on", "off"}
    /\ log[j].kind = "verification_inconclusive" /\ wanted # "unsupported" =>
         \A observed \in log[j].content.evidence :
           observed[1] \in {"on", "off"} => log[j].content.at - observed[2] \notin 0 .. MaxAge

(* Contradictory verifications are never hidden: the view shows only the   *)
(* latest conclusive assessment, but when the log holds both verdicts its  *)
(* effect is marked conflicted, and a single verdict agrees with it        *)
(* (verificationEvents stores effect and assessment together).             *)
ContradictionIsVisible ==
  LET kinds == {log[i].kind : i \in DOMAIN log}
      view == ViewOf(log)
  IN /\ {"verification_verified", "verification_unsatisfied"} \subseteq kinds
          <=> view.effectConflicted
     /\ ~view.effectConflicted => (view.verification = "verified" <=> view.effect = "satisfied")
     /\ ~view.effectConflicted =>
          (view.verification = "unsatisfied" <=> view.effect = "unsatisfied")

(* "Verification never changes dispatch knowledge" (docs/runtime-api.md):  *)
(* whatever is observed and whenever, admission and dispatch of the view   *)
(* are what the executor recorded.  An attempt nobody decided on is known  *)
(* not to be dispatched, and its admission stays unknown.                  *)
DispatchIsTheExecutors ==
  LET kinds == {log[i].kind : i \in DOMAIN log}
      view == ViewOf(log)
  IN /\ view.dispatch # "unknown" => executor \in {"rejected", "settled", "undecided"}
     /\ executor = "undecided" => view.dispatch = "not_dispatched"
     /\ executor = "settled" /\ "dispatch_unknown" \notin kinds => view.dispatch # "unknown"
     /\ view.admission # "unknown" <=> executor \in {"admitted", "rejected", "settled"}
     /\ view.admission = "rejected" => view.dispatch = "not_dispatched"
     /\ ~view.dispatchConflicted /\ ~view.admissionConflicted

(* What is known about the effect is never weakened by a later append: not *)
(* by the executor's late effect-unverified fact, not by an inconclusive   *)
(* or older verification that is recorded last.                            *)
EffectOnlyGrows ==
  [][ LET old == ViewOf(log)
          new == ViewOf(log')
      IN IF old.effectConflicted THEN new.effectConflicted
         ELSE \/ new.effectConflicted
              \/ old.effect = "unknown"
              \/ old.effect = "unverified" /\ new.effect # "unknown"
              \/ new.effect = old.effect ]_vars

(* No assessment is lost silently: when POST /v1/actions/verify answers    *)
(* without an operation_error, it answers with an assessment (docs/        *)
(* runtime-api.md: "The result is `verified`, `unsatisfied`, or            *)
(* `inconclusive`"), and that assessment is on record with all it observed.*)
UnrecordedIsReported ==
  \A c \in Calls :
    LET answer == verifyAnswer(c)
    IN pc[c] = "done" /\ answer.status = 200 /\ ~answer.failed =>
         /\ answer.verification # "unknown"
         /\ \A i \in DOMAIN Facts(c) : \E j \in DOMAIN log : log[j] = Facts(c)[i]

(* RFC 0007: VerifyAttempt "records observations, and records a named      *)
(* Verifier assessment".  Unless the storage fails, the assessment that is *)
(* returned is on record.                                                  *)
ReturnedAssessmentIsRecorded ==
  \A c \in Calls :
    pc[c] = "done" /\ verdict[c] # "unknown" /\ c \notin outages =>
      \E i \in DOMAIN log : log[i].kind = verificationKind(verdict[c])
                              /\ log[i].qualifier = <<"check", checkedAt[c]>>
==============================================================================
