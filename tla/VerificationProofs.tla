-------------------------- MODULE VerificationProofs --------------------------
(***************************************************************************)
(* What verifications leave in the log of an attempt, for any number of    *)
(* them, any clock and any device: an assessment rests on evidence that is *)
(* stored before it, contradictions show, the dispatch stays what the      *)
(* executor recorded, and nothing that was returned without an error is    *)
(* missing.                                                                *)
(***************************************************************************)
EXTENDS Verification, ReplayProofs

------------------------------------------------------------------------------
(* The facts of the model, and what an append of them does.                *)

\* What is in the log after an append, and in which order.
LEMMA LogAppends ==
  ASSUME NEW T, NEW l0 \in Seq(T), NEW batch \in Seq(T)
  PROVE  /\ appendPrepared(l0, batch) \in Seq(T)
         /\ Appended(l0, appendPrepared(l0, batch), batch, Len(batch))
<1>1. appendPrepared(l0, batch) = Log!appendPrepared(l0, batch)
  BY Zenon DEF appendPrepared, appendOne, Stored, SameEventID, Log!appendPrepared,
     Log!appendOne, Log!Stored, Log!SameEventID
<1> QED BY <1>1, AppendPreparedAppends, Zenon

Qualifiers ==
  {<<>>, <<"attempt">>, <<"dispatch">>}
    \cup (DeviceStates \X (0 .. MaxTime + MaxSkew)) \cup ({"check"} \X Times)
Contents ==
  [at : Times, evidence : SUBSET (DeviceStates \X (0 .. MaxTime + MaxSkew)), failed : BOOLEAN]
Fact ==
  [actionID : {"action"}, attemptID : {"attempt"}, kind : EventKind,
   qualifier : Qualifiers, content : Contents]

LogKinds(l) == {l[i].kind : i \in DOMAIN l}

\* A fact that deterministicEventID tells from no other and equal accepts is
\* that fact: the two comparisons look at every field.
LEMMA EqualFacts ==
  ASSUME NEW e \in Fact, NEW f \in Fact, equal(e, f)
  PROVE  e = f
BY DEF Fact, equal, SameEventID

\* What fact puts together.
LEMMA FactFields ==
  ASSUME NEW k \in EventKind, NEW q \in Qualifiers, NEW c \in Contents
  PROVE  /\ fact(k, q, c) \in Fact /\ fact(k, q, c).kind = k
         /\ fact(k, q, c).qualifier = q /\ fact(k, q, c).content = c
BY DEF fact, Fact

\* After an append the kinds on record are those before and the batch's.
LEMMA AppendKinds ==
  ASSUME NEW l \in Seq(Fact), NEW batch \in Seq(Fact)
  PROVE  /\ appendPrepared(l, batch) \in Seq(Fact)
         /\ LogKinds(appendPrepared(l, batch)) = LogKinds(l) \cup LogKinds(batch)
<1> DEFINE m == appendPrepared(l, batch)
<1>1. m \in Seq(Fact) /\ Appended(l, m, batch, Len(batch)) /\ DOMAIN batch = 1 .. Len(batch)
  BY LogAppends
<1> HIDE DEF m
<1>2. ASSUME NEW i \in DOMAIN m PROVE m[i].kind \in LogKinds(l) \cup LogKinds(batch)
  BY <1>1 DEF Appended, LogKinds
<1>3. LogKinds(l) \subseteq LogKinds(m)
  BY <1>1 DEF Appended, LogKinds
<1>4. ASSUME NEW k \in DOMAIN batch PROVE batch[k].kind \in LogKinds(m)
  BY <1>1 DEF Appended, Log!Stored, Log!SameEventID, LogKinds
<1>5. LogKinds(m) = LogKinds(l) \cup LogKinds(batch)
  BY <1>2, <1>3, <1>4 DEF LogKinds
<1> QED BY <1>1, <1>5 DEF m

\* An append keeps what is on record where it is.
LEMMA AppendKeeps ==
  ASSUME NEW l \in Seq(Fact), NEW batch \in Seq(Fact)
  PROVE  /\ DOMAIN l \subseteq DOMAIN appendPrepared(l, batch)
         /\ \A i \in DOMAIN l : appendPrepared(l, batch)[i] = l[i]
<1>1. Appended(l, appendPrepared(l, batch), batch, Len(batch))
  BY LogAppends, Zenon
<1> QED BY <1>1, Zenon DEF Appended

\* An accepted batch is on record as a whole: a fact that was skipped is there
\* already, with the same content.
LEMMA AcceptedIsStored ==
  ASSUME NEW l \in Seq(Fact), NEW batch \in Seq(Fact), preflight(l, batch), NEW k \in DOMAIN batch
  PROVE  \E j \in DOMAIN appendPrepared(l, batch) : appendPrepared(l, batch)[j] = batch[k]
<1> DEFINE m == appendPrepared(l, batch)
<1>1. Appended(l, m, batch, Len(batch)) /\ DOMAIN batch = 1 .. Len(batch)
      /\ batch[k] \in Fact
  BY LogAppends
<1> HIDE DEF m
<1>2. PICK j \in DOMAIN m : SameEventID(batch[k], m[j])
  BY <1>1 DEF Appended, Log!Stored, Log!SameEventID, SameEventID
<1>3. CASE j \in DOMAIN l
  <2>1. m[j] = l[j] /\ l[j] \in Fact
    BY <1>1, <1>3 DEF Appended
  <2>2. equal(batch[k], l[j])
    BY <1>2, <1>3, <2>1 DEF preflight
  <2> QED BY <1>1, <2>1, <2>2, EqualFacts DEF m
<1>4. CASE j \notin DOMAIN l
  <2>1. PICK h \in DOMAIN batch : m[j] = batch[h]
    BY <1>1, <1>4 DEF Appended
  <2>2. batch[h] \in Fact
    OBVIOUS
  <2>3. equal(batch[k], batch[h])
    BY <1>2, <2>1 DEF preflight
  <2> QED BY <1>1, <2>1, <2>2, <2>3, EqualFacts DEF m
<1> QED BY <1>3, <1>4

\* The kinds of a batch of three facts.
LEMMA BatchOfThree ==
  ASSUME NEW e \in Fact, NEW f \in Fact, NEW g \in Fact
  PROVE  <<e, f, g>> \in Seq(Fact) /\ LogKinds(<<e, f, g>>) = {e.kind, f.kind, g.kind}
BY DEF LogKinds

\* Batches of up to three facts.
LEMMA Batches ==
  ASSUME NEW e \in Fact, NEW f \in Fact, NEW g \in Fact
  PROVE  /\ <<>> \in Seq(Fact) /\ LogKinds(<<>>) = {}
         /\ <<e>> \in Seq(Fact) /\ LogKinds(<<e>>) = {e.kind}
         /\ <<e, f>> \in Seq(Fact) /\ LogKinds(<<e, f>>) = {e.kind, f.kind}
         /\ <<e, f, g>> \in Seq(Fact) /\ LogKinds(<<e, f, g>>) = {e.kind, f.kind, g.kind}
<1>1. <<>> \in Seq(Fact) /\ LogKinds(<<>>) = {}
  BY DEF LogKinds
<1>2. <<e>> \in Seq(Fact) /\ LogKinds(<<e>>) = {e.kind}
  BY DEF LogKinds
<1>3. <<e, f>> \in Seq(Fact) /\ LogKinds(<<e, f>>) = {e.kind, f.kind}
  BY DEF LogKinds
<1>4. <<e, f, g>> \in Seq(Fact) /\ LogKinds(<<e, f, g>>) = {e.kind, f.kind, g.kind}
  BY BatchOfThree, Zenon
<1> QED BY <1>1, <1>2, <1>3, <1>4

\* The view of a log is what the kinds on record say.
LEMMA ViewSays ==
  ASSUME NEW l \in Seq(Fact)
  PROVE  /\ ViewOf(l) \in View
         /\ Reflects(ViewOf(l), LogKinds(l))
         /\ Assesses(ViewOf(l), LogKinds(l))
<1> DEFINE kinds == [i \in DOMAIN l |-> l[i].kind]
<1>1. kinds \in Seq(EventKind)
  <2>1. DOMAIN l = 1 .. Len(l) /\ Len(l) \in Nat /\ \A i \in DOMAIN l : l[i] \in Fact
    OBVIOUS
  <2>2. \A f \in Fact : f.kind \in EventKind
    BY DEF Fact
  <2> QED BY <2>1, <2>2
<1>2. {kinds[i] : i \in DOMAIN kinds} = LogKinds(l)
  BY DEF LogKinds
<1>3. ViewOf(l) = Replay(kinds)
  BY DEF ViewOf
<1> HIDE DEF kinds
<1>4. LET said == {kinds[i] : i \in DOMAIN kinds}
      IN Replay(kinds) \in View /\ Reflects(Replay(kinds), said) /\ Assesses(Replay(kinds), said)
  BY <1>1, ReplayIsOrderFree, Zenon
<1> QED BY <1>2, <1>3, <1>4, Zenon

------------------------------------------------------------------------------
(* The inductive invariant.                                                *)

\* Evidence e justifies the conclusive assessment f of an action that asks for w.
Evidence(e, f, w) ==
  /\ e.kind = "observation_recorded"
  /\ e.qualifier \in f.content.evidence
  /\ f.content.at - e.qualifier[2] \in 0 .. MaxAge
  /\ f.kind = "verification_verified" <=> e.qualifier[1] = w
  /\ e.qualifier[1] \in {"on", "off"}

ConclusiveKinds == {"verification_verified", "verification_unsatisfied"}

\* An inconclusive assessment f names nothing that could have been used.
Inconclusive(f, w) ==
  f.kind = "verification_inconclusive" /\ w # "unsupported" =>
    \A q \in f.content.evidence :
      q[1] \in {"on", "off"} => f.content.at - q[2] \notin 0 .. MaxAge

Evidenced(l, w) ==
  \A j \in DOMAIN l :
    /\ l[j].kind \in ConclusiveKinds => \E i \in 1 .. j - 1 : Evidence(l[i], l[j], w)
    /\ Inconclusive(l[j], w)

\* What the executor has recorded in each of its states.
ExecutorSays(state, kinds) ==
  LET admissions == kinds \cap {"action_admitted", "action_rejected"}
      dispatches == kinds \cap DispatchKinds
  IN /\ state \in {"idle", "claimed"} => admissions = {} /\ dispatches = {}
     /\ state = "admitted" => admissions = {"action_admitted"} /\ dispatches = {}
     /\ state = "rejected" => admissions = {"action_rejected"} /\ dispatches = {}
     /\ state = "undecided" => admissions = {} /\ dispatches = {"not_dispatched"}
     /\ state = "settled" =>
          /\ admissions \in {{"action_admitted"}, {"action_rejected"}}
          /\ \E kind \in DispatchKinds : dispatches = {kind}
          /\ "action_rejected" \in kinds => "not_dispatched" \in kinds

\* An effect is recorded with its assessment.
Paired(kinds) ==
  /\ "verification_verified" \in kinds <=> "effect_satisfied" \in kinds
  /\ "verification_unsatisfied" \in kinds <=> "effect_unsatisfied" \in kinds

\* A conclusive verdict rests on a fresh reading of the device.
Reads(observed, at, status, w) ==
  \E o \in observed :
    /\ Fresh(o, at)
    /\ o.value.state \in {"on", "off"}
    /\ status = "verified" <=> o.value.state = w

\* An inconclusive one has no fresh reading, unless it would not know what to
\* make of it.
Blind(observed, at, w) ==
  w = "unsupported"
    \/ \A o \in observed : ~(Fresh(o, at) /\ o.value.state \in {"on", "off"})

Warranted(observed, at, status, w) ==
  /\ status \in {"verified", "unsatisfied"} => Reads(observed, at, status, w)
  /\ status = "inconclusive" => Blind(observed, at, w)

OnRecord(batch, l) == \A i \in DOMAIN batch : \E j \in DOMAIN l : l[j] = batch[i]

AtMostOne(observed) == \A o, p \in observed : o = p

Justified(c) ==
  /\ AtMostOne(observations[c])
  /\ pc[c] \notin {"record", "done"} => verdict[c] = "unknown"
  /\ Warranted(observations[c], checkedAt[c], verdict[c], wanted)
  /\ pc[c] = "record" /\ verdict[c] = "unknown" => "verify" \in errs[c]
  /\ pc[c] = "done" /\ errs[c] = {} => verdict[c] # "unknown" /\ OnRecord(Facts(c), log)

LogInv ==
  /\ log \in Seq(Fact)
  /\ ExecutorSays(executor, LogKinds(log))
  /\ Paired(LogKinds(log))
  /\ Evidenced(log, wanted)

VInv == TypeOK /\ LogInv /\ \A c \in Calls : Justified(c)

------------------------------------------------------------------------------
(* Batches.                                                                *)

\* Every conclusive assessment of the batch comes after its evidence, and an
\* inconclusive one had none.
Supported(batch, w) ==
  \A k \in DOMAIN batch :
    /\ batch[k].kind \in ConclusiveKinds =>
         \E j \in 1 .. k - 1 : Evidence(batch[j], batch[k], w)
    /\ Inconclusive(batch[k], w)

\* Such a batch keeps the evidence of the log in order, also where a fact of it
\* was on record and is skipped.
LEMMA AppendKeepsEvidence ==
  ASSUME NEW l \in Seq(Fact), NEW batch \in Seq(Fact), NEW w,
         Evidenced(l, w), Supported(batch, w)
  PROVE  Evidenced(appendPrepared(l, batch), w)
<1> DEFINE m == appendPrepared(l, batch)
<1>1. /\ Appended(l, m, batch, Len(batch))
      /\ DOMAIN batch = 1 .. Len(batch) /\ Len(batch) \in Nat
      /\ DOMAIN l = 1 .. Len(l) /\ Len(l) \in Nat
      /\ DOMAIN m \subseteq Nat
  <2>1. m \in Seq(Fact) /\ Appended(l, m, batch, Len(batch))
    BY LogAppends, Zenon
  <2> HIDE DEF m
  <2> QED BY <2>1
<1> HIDE DEF m
<1> SUFFICES ASSUME NEW i \in DOMAIN m
             PROVE  /\ m[i].kind \in ConclusiveKinds =>
                         \E h \in 1 .. i - 1 : Evidence(m[h], m[i], w)
                    /\ Inconclusive(m[i], w)
  BY DEF Evidenced, m
<1>4. Inconclusive(m[i], w)
  <2>1. CASE i \in DOMAIN l
    <3>1. m[i] = l[i]
      BY <1>1, <2>1, Zenon DEF Appended
    <3> QED BY <2>1, <3>1, Zenon DEF Evidenced
  <2>2. CASE i \notin DOMAIN l
    <3>1. \E k \in 1 .. Len(batch) : m[i] = batch[k]
      BY <1>1, <2>2, Zenon DEF Appended
    <3>2. PICK k \in DOMAIN batch : m[i] = batch[k]
      BY <1>1, <3>1
    <3> QED BY <3>2, Zenon DEF Supported
  <2> QED BY <2>1, <2>2
<1> SUFFICES ASSUME m[i].kind \in ConclusiveKinds
             PROVE  \E h \in 1 .. i - 1 : Evidence(m[h], m[i], w)
  BY <1>4
<1>2. CASE i \in DOMAIN l
  <2>1. m[i] = l[i]
    BY <1>1, <1>2 DEF Appended
  <2>2. PICK h \in 1 .. i - 1 : Evidence(l[h], l[i], w)
    BY <1>2, <2>1 DEF Evidenced
  <2>3. h \in DOMAIN l
    BY <1>1, <1>2
  <2>4. m[h] = l[h]
    BY <1>1, <2>3 DEF Appended
  <2> QED BY <2>1, <2>2, <2>4
<1>3. CASE i \notin DOMAIN l
  <2>1. PICK k \in 1 .. Len(batch) :
          /\ m[i] = batch[k]
          /\ \A j \in 1 .. k - 1 : \E h \in 1 .. i - 1 : Log!SameEventID(batch[j], m[h])
    BY <1>1, <1>3 DEF Appended
  <2>2. PICK j \in 1 .. k - 1 : Evidence(batch[j], batch[k], w)
    BY <1>1, <2>1 DEF Supported
  <2>3. PICK h \in 1 .. i - 1 : Log!SameEventID(batch[j], m[h])
    BY <2>1
  <2>4. Evidence(m[h], m[i], w)
    BY <2>1, <2>2, <2>3 DEF Evidence, Log!SameEventID
  <2> QED BY <2>4
<1> QED BY <1>2, <1>3

\* What a verification may have observed, and the ObservationIDs of it.
Observed == SUBSET Observation
Readings(observed) == {<<o.value.state, o.value.updated>> : o \in observed}

\* The effect and the assessment that verificationEvents puts together.
EffectFact(status, at) ==
  fact(effectKind(status), <<"check", at>>, [at |-> at, evidence |-> {}, failed |-> FALSE])
AssessmentFact(status, at, observed, causes) ==
  fact(verificationKind(status), <<"check", at>>,
       [at |-> at, evidence |-> Readings(observed),
        failed |-> "verify" \in causes])

\* What the assessment says.
IsAssessment(f, status, at, observed) ==
  /\ f \in Fact
  /\ f.kind = verificationKind(status)
  /\ f.content.at = at
  /\ f.content.evidence = Readings(observed)

\* The batch of a verification, from what it depends on.
BatchOf(observed, status, at, causes) ==
  (IF observed = {} THEN <<>> ELSE <<observationEvent(CHOOSE o \in observed : TRUE)>>)
    \o (IF status = "unknown" THEN <<>>
        ELSE <<EffectFact(status, at), AssessmentFact(status, at, observed, causes)>>)

\* The batch is a function of the verification's own state.
LEMMA FactsAreBatch ==
  ASSUME NEW c
  PROVE  Facts(c) = BatchOf(observations[c], verdict[c], checkedAt[c], errs[c])
BY Zenon DEF Facts, BatchOf, EffectFact, AssessmentFact, Readings, observationEvents,
   verificationEvents

VerifierKinds ==
  {"observation_recorded", "effect_unverified", "effect_satisfied", "effect_unsatisfied",
   "verification_verified", "verification_unsatisfied", "verification_inconclusive"}

\* The facts a verification stores.
LEMMA VerifierFacts ==
  ASSUME NEW o \in Observation, NEW used \in Observed, NEW at \in Times,
         NEW status \in VerificationStatus, NEW causes
  PROVE  /\ observationEvent(o) \in Fact
         /\ observationEvent(o).kind = "observation_recorded"
         /\ observationEvent(o).qualifier = <<o.value.state, o.value.updated>>
         /\ EffectFact(status, at) \in Fact
         /\ EffectFact(status, at).kind = effectKind(status)
         /\ IsAssessment(AssessmentFact(status, at, used, causes), status, at, used)
<1>1. \A u \in Observation :
        <<u.value.state, u.value.updated>> \in DeviceStates \X (0 .. MaxTime + MaxSkew)
  BY DEF Observation, Device
<1>2. \A u \in Observation : <<u.value.state, u.value.updated>> \in Qualifiers
  BY <1>1 DEF Qualifiers
<1>3. <<"check", at>> \in Qualifiers
  BY DEF Qualifiers
<1>4. o.recordedAt \in Times
  BY DEF Observation
<1>5. ASSUME NEW t \in Times, NEW b \in BOOLEAN,
             NEW set \in SUBSET (DeviceStates \X (0 .. MaxTime + MaxSkew))
      PROVE  [at |-> t, evidence |-> set, failed |-> b] \in Contents
  BY DEF Contents
<1>6. Readings(used) \in SUBSET (DeviceStates \X (0 .. MaxTime + MaxSkew))
  BY <1>1 DEF Readings, Observed
<1>7. {} \in SUBSET (DeviceStates \X (0 .. MaxTime + MaxSkew)) /\ FALSE \in BOOLEAN
      /\ ("verify" \in causes) \in BOOLEAN
  OBVIOUS
<1>8. effectKind(status) \in EventKind /\ verificationKind(status) \in EventKind
      /\ "observation_recorded" \in EventKind
  BY DEF effectKind, verificationKind, EventKind, VerificationStatus
<1>9. /\ observationEvent(o) \in Fact
      /\ observationEvent(o).kind = "observation_recorded"
      /\ observationEvent(o).qualifier = <<o.value.state, o.value.updated>>
  <2>1. [at |-> o.recordedAt, evidence |-> {}, failed |-> FALSE] \in Contents
    BY <1>4, <1>5, <1>7, Zenon
  <2> DEFINE q == <<o.value.state, o.value.updated>>
             content == [at |-> o.recordedAt, evidence |-> {}, failed |-> FALSE]
  <2>2. observationEvent(o) = fact("observation_recorded", q, content)
    BY DEF observationEvent
  <2>3. q \in Qualifiers /\ content \in Contents
    BY <1>2, <2>1
  <2> HIDE DEF q, content
  <2>4. /\ observationEvent(o) \in Fact
        /\ observationEvent(o).kind = "observation_recorded"
        /\ observationEvent(o).qualifier = q
    BY <1>8, <2>2, <2>3, FactFields
  <2> QED BY <2>4 DEF q
<1>10. EffectFact(status, at) \in Fact /\ EffectFact(status, at).kind = effectKind(status)
  <2>1. [at |-> at, evidence |-> {}, failed |-> FALSE] \in Contents
    BY <1>5, <1>7, Zenon
  <2> DEFINE q == <<"check", at>>
             content == [at |-> at, evidence |-> {}, failed |-> FALSE]
             k == effectKind(status)
  <2>2. k \in EventKind /\ q \in Qualifiers /\ content \in Contents
    BY <1>3, <1>8, <2>1
  <2> HIDE DEF q, content, k
  <2>3. fact(k, q, content) \in Fact /\ fact(k, q, content).kind = k
    BY <2>2, FactFields
  <2> QED BY <2>3 DEF q, content, k, EffectFact
<1>11. IsAssessment(AssessmentFact(status, at, used, causes), status, at, used)
  <2>1. [at |-> at, evidence |-> Readings(used),
         failed |-> "verify" \in causes] \in Contents
    BY <1>5, <1>6, <1>7
  <2> DEFINE q == <<"check", at>>
             content == [at |-> at,
                         evidence |-> Readings(used),
                         failed |-> "verify" \in causes]
             k == verificationKind(status)
  <2>2. k \in EventKind /\ q \in Qualifiers /\ content \in Contents
    BY <1>3, <1>8, <2>1
  <2> HIDE DEF q, content, k
  <2>3. /\ fact(k, q, content) \in Fact /\ fact(k, q, content).kind = k
        /\ fact(k, q, content).content = content
    BY <2>2, FactFields
  <2>4. AssessmentFact(status, at, used, causes) = fact(k, q, content)
    BY DEF q, content, k, AssessmentFact
  <2>5. /\ content.at = at
        /\ content.evidence = Readings(used)
    BY DEF content
  <2> QED BY <2>3, <2>4, <2>5 DEF k, IsAssessment
<1> QED BY <1>9, <1>10, <1>11, Zenon

\* The dispatch with or without its effect.
LEMMA TwoFacts ==
  ASSUME NEW e, NEW f
  PROVE  <<e>> \o <<f>> = <<e, f>> /\ <<e>> \o <<>> = <<e>>
<1> DEFINE s == <<e>> \o <<f>>
<1>1. Len(s) = 2 /\ s \in Seq({e, f}) /\ s[1] = e /\ s[2] = f
  OBVIOUS
<1>2. <<e>> \o <<>> = <<e>>
  OBVIOUS
<1> HIDE DEF s
<1>3. s = <<e, f>>
  BY <1>1
<1> QED BY <1>2, <1>3 DEF s

\* One observation before the effect and the assessment.
LEMMA ThreeFacts ==
  ASSUME NEW e, NEW f, NEW g
  PROVE  <<e>> \o <<f, g>> = <<e, f, g>>
<1> DEFINE s == <<e>> \o <<f, g>>
<1>1. Len(s) = 3 /\ s \in Seq({e, f, g}) /\ s[1] = e /\ s[2] = f /\ s[3] = g
  OBVIOUS
<1> HIDE DEF s
<1>2. s = <<e, f, g>>
  BY <1>1
<1> QED BY <1>2 DEF s

\* A verification's batch: well-typed facts of its own kinds, effect and
\* assessment together, the assessment after its evidence.
LEMMA BatchOfVerification ==
  ASSUME NEW observed \in SUBSET Observation, AtMostOne(observed),
         NEW status \in VerificationStatus, NEW at \in Times, NEW causes, NEW w,
         Warranted(observed, at, status, w)
  PROVE  LET batch == BatchOf(observed, status, at, causes)
         IN /\ batch \in Seq(Fact)
            /\ LogKinds(batch) \subseteq VerifierKinds
            /\ Paired(LogKinds(batch))
            /\ Supported(batch, w)
<1> DEFINE Good(batch) == /\ batch \in Seq(Fact)
                          /\ LogKinds(batch) \subseteq VerifierKinds
                          /\ Paired(LogKinds(batch))
                          /\ Supported(batch, w)
           F == EffectFact(status, at)
           G == AssessmentFact(status, at, observed, causes)
           events == IF status = "unknown" THEN <<>> ELSE <<F, G>>
           first == IF observed = {} THEN <<>> ELSE <<observationEvent(CHOOSE o \in observed : TRUE)>>
<1>1. BatchOf(observed, status, at, causes) = first \o events
  BY Zenon DEF BatchOf
<1>b. observed \in Observed
  BY DEF Observed
<1>2. \A o \in Observation : /\ observationEvent(o) \in Fact
                             /\ observationEvent(o).kind = "observation_recorded"
                             /\ observationEvent(o).qualifier = <<o.value.state, o.value.updated>>
  BY <1>b, VerifierFacts, Zenon
<1>a. PICK some : some \in Observation
  <2>1. [value |-> [state |-> "on", updated |-> 0], recordedAt |-> 0] \in Observation
    BY TimeAssumption DEF Observation, Device, DeviceStates, Times
  <2> QED BY <2>1, Zenon
<1>3. F \in Fact /\ F.kind = effectKind(status)
  BY <1>a, <1>b, VerifierFacts, Zenon
<1>4. /\ G \in Fact /\ G.kind = verificationKind(status) /\ G.content.at = at
      /\ G.content.evidence = Readings(observed)
  <2>1. IsAssessment(G, status, at, observed)
    BY <1>a, <1>b, VerifierFacts, Zenon
  <2> HIDE DEF G
  <2> QED BY <2>1 DEF IsAssessment
<1> HIDE DEF F, G
<1>5. ASSUME NEW kinds, kinds \in {{}, {"observation_recorded"}} PROVE
        /\ kinds \subseteq VerifierKinds /\ Paired(kinds)
        /\ kinds \cup {effectKind(status), verificationKind(status)} \subseteq VerifierKinds
        /\ Paired(kinds \cup {effectKind(status), verificationKind(status)})
  BY <1>5 DEF effectKind, verificationKind, VerifierKinds, Paired, VerificationStatus
<1>6. effectKind(status) \notin ConclusiveKinds
      /\ (verificationKind(status) \in ConclusiveKinds <=> status \in {"verified", "unsatisfied"})
      /\ (verificationKind(status) = "verification_verified" <=> status = "verified")
  BY DEF effectKind, verificationKind, ConclusiveKinds, VerificationStatus
<1>9. \A f : f.kind # "verification_inconclusive" => Inconclusive(f, w)
  BY DEF Inconclusive
<1>10. F.kind # "verification_inconclusive"
  BY <1>3 DEF effectKind
<1>11. ASSUME status # "unknown" PROVE Inconclusive(G, w)
  <2>1. CASE status # "inconclusive"
    <3>1. G.kind # "verification_inconclusive"
      BY <1>4, <1>11, <2>1 DEF verificationKind, VerificationStatus
    <3> QED BY <1>9, <3>1
  <2>2. CASE status = "inconclusive"
    <3>1. Blind(observed, at, w)
      BY <2>2 DEF Warranted
    <3>2. ASSUME NEW q \in Readings(observed), w # "unsupported", q[1] \in {"on", "off"}
          PROVE  at - q[2] \notin 0 .. MaxAge
      <4>1. PICK o \in observed : q = <<o.value.state, o.value.updated>>
        BY DEF Readings
      <4>2. q[1] = o.value.state /\ q[2] = o.value.updated
        BY <4>1
      <4>3. ~Fresh(o, at)
        BY <3>1, <3>2, <4>2 DEF Blind
      <4> QED BY <4>2, <4>3 DEF Fresh
    <3> QED BY <1>4, <3>2 DEF Inconclusive
  <2> QED BY <2>1, <2>2
<1>7. CASE observed = {}
  <2>1. status \notin {"verified", "unsatisfied"}
    BY <1>7 DEF Warranted, Reads
  <2>2. first = <<>>
    BY <1>7
  <2>3. CASE status = "unknown"
    <3>1. first \o events = <<>>
      BY <2>2, <2>3
    <3>2. Good(<<>>)
      <4>1. <<>> \in Seq(Fact) /\ LogKinds(<<>>) = {}
        BY <1>3, Batches, Zenon
      <4>2. Supported(<<>>, w)
        BY DEF Supported
      <4> QED BY <1>5, <4>1, <4>2
    <3> QED BY <1>1, <3>1, <3>2, Zenon
  <2>4. CASE status # "unknown"
    <3>1. first \o events = <<F, G>>
      <4>1. events = <<F, G>>
        BY <2>4
      <4> HIDE DEF first, events
      <4> QED BY <2>2, <4>1
    <3>2. Good(<<F, G>>)
      <4>1. <<F, G>> \in Seq(Fact) /\ LogKinds(<<F, G>>) = {F.kind, G.kind}
        BY <1>3, <1>4, Batches, Zenon
      <4>2. Supported(<<F, G>>, w)
        <5>1. F.kind \notin ConclusiveKinds /\ G.kind \notin ConclusiveKinds
          BY <1>3, <1>4, <1>6, <2>1
        <5>2. Inconclusive(F, w) /\ Inconclusive(G, w)
          BY <1>9, <1>10, <1>11, <2>4
        <5> QED BY <5>1, <5>2 DEF Supported
      <4>3. {F.kind, G.kind} = {} \cup {effectKind(status), verificationKind(status)}
        BY <1>3, <1>4
      <4> QED BY <1>5, <4>1, <4>2, <4>3
    <3> QED BY <1>1, <3>1, <3>2, Zenon
  <2> QED BY <2>3, <2>4
<1>8. CASE observed # {}
  <2>1. PICK o \in observed : o = CHOOSE p \in observed : TRUE
    BY <1>8
  <2>2. observed = {o} /\ o \in Observation
    BY DEF AtMostOne
  <2> DEFINE E == observationEvent(o)
  <2>3. first = <<E>>
    BY <1>8, <2>1
  <2>4. /\ E \in Fact /\ E.kind = "observation_recorded"
        /\ E.qualifier = <<o.value.state, o.value.updated>>
    BY <1>2, <2>2
  <2> HIDE DEF E
  <2>5. E.kind \notin ConclusiveKinds
    BY <2>4 DEF ConclusiveKinds
  <2>6. CASE status = "unknown"
    <3>1. first \o events = <<E>>
      <4>1. events = <<>>
        BY <2>6
      <4> HIDE DEF first, events
      <4> QED BY <2>3, <4>1
    <3>2. Good(<<E>>)
      <4>1. <<E>> \in Seq(Fact) /\ LogKinds(<<E>>) = {E.kind}
        BY <2>4, Batches, Zenon
      <4>2. Supported(<<E>>, w)
        <5>1. Inconclusive(E, w)
          BY <1>9, <2>4
        <5> QED BY <2>5, <5>1 DEF Supported
      <4> QED BY <1>5, <2>4, <4>1, <4>2
    <3> QED BY <1>1, <3>1, <3>2, Zenon
  <2>7. CASE status # "unknown"
    <3>1. first \o events = <<E, F, G>>
      <4>1. events = <<F, G>>
        BY <2>7
      <4> HIDE DEF first, events
      <4> QED BY <2>3, <4>1, ThreeFacts, Zenon
    <3>2. Good(<<E, F, G>>)
      <4>1. <<E, F, G>> \in Seq(Fact) /\ LogKinds(<<E, F, G>>) = {E.kind, F.kind, G.kind}
        <5>1. F \in Fact /\ G \in Fact
          BY <1>3, <1>4
        <5> HIDE DEF F, G
        <5> QED BY <2>4, <5>1, BatchOfThree, Zenon
      <4>2. ASSUME G.kind \in ConclusiveKinds PROVE Evidence(E, G, w)
        <5>1. status \in {"verified", "unsatisfied"}
          BY <1>4, <1>6, <4>2
        <5>2. /\ Fresh(o, at) /\ o.value.state \in {"on", "off"}
              /\ status = "verified" <=> o.value.state = w
          BY <2>2, <5>1 DEF Warranted, Reads
        <5>3. /\ E.qualifier \in G.content.evidence /\ G.content.at = at
              /\ E.qualifier[1] = o.value.state /\ E.qualifier[2] = o.value.updated
          BY <1>4, <2>2, <2>4 DEF Readings
        <5>4. at - E.qualifier[2] \in 0 .. MaxAge
          BY <5>2, <5>3 DEF Fresh
        <5> QED BY <1>4, <1>6, <2>4, <5>2, <5>3, <5>4 DEF Evidence
      <4>3. F.kind \notin ConclusiveKinds
        BY <1>3, <1>6
      <4>4. Supported(<<E, F, G>>, w)
        <5>1. Inconclusive(E, w) /\ Inconclusive(F, w) /\ Inconclusive(G, w)
          BY <1>9, <1>10, <1>11, <2>4, <2>7
        <5> QED BY <2>5, <4>2, <4>3, <5>1 DEF Supported
      <4>5. {E.kind, F.kind, G.kind}
              = {"observation_recorded"} \cup {effectKind(status), verificationKind(status)}
        BY <1>3, <1>4, <2>4
      <4> QED BY <1>5, <4>1, <4>4, <4>5
    <3> QED BY <1>1, <3>1, <3>2, Zenon
  <2> QED BY <2>6, <2>7
<1> QED BY <1>7, <1>8

------------------------------------------------------------------------------
(* The log.                                                                *)

\* A batch without assessments and without observed effects needs no evidence.
LEMMA ExecutorBatch ==
  ASSUME NEW batch \in Seq(Fact), NEW w,
         LogKinds(batch) \cap (VerifierKinds \ {"effect_unverified"}) = {}
  PROVE  Supported(batch, w) /\ Paired(LogKinds(batch))
<1>1. \A k \in DOMAIN batch :
        batch[k].kind \notin ConclusiveKinds \cup {"verification_inconclusive"}
  BY DEF LogKinds, VerifierKinds, ConclusiveKinds
<1>2. Supported(batch, w)
  BY <1>1 DEF Supported, Inconclusive
<1>3. Paired(LogKinds(batch))
  BY DEF Paired, VerifierKinds
<1> QED BY <1>2, <1>3

\* What an append keeps, and the kinds it leaves on record.
LEMMA AppendKeepsLog ==
  ASSUME NEW l \in Seq(Fact), NEW batch \in Seq(Fact), NEW w,
         Paired(LogKinds(l)), Evidenced(l, w), Paired(LogKinds(batch)), Supported(batch, w)
  PROVE  LET m == appendPrepared(l, batch)
         IN /\ m \in Seq(Fact) /\ Paired(LogKinds(m)) /\ Evidenced(m, w)
            /\ LogKinds(m) = LogKinds(l) \cup LogKinds(batch)
            /\ DOMAIN l \subseteq DOMAIN m /\ \A i \in DOMAIN l : m[i] = l[i]
<1> DEFINE m == appendPrepared(l, batch)
<1>1. m \in Seq(Fact) /\ LogKinds(m) = LogKinds(l) \cup LogKinds(batch)
  BY AppendKinds, Zenon
<1>2. Evidenced(m, w)
  BY AppendKeepsEvidence, Zenon
<1>3. DOMAIN l \subseteq DOMAIN m /\ \A i \in DOMAIN l : m[i] = l[i]
  BY AppendKeeps, Zenon
<1> HIDE DEF m
<1>4. Paired(LogKinds(m))
  BY <1>1 DEF Paired
<1> QED BY <1>1, <1>2, <1>3, <1>4, Zenon DEF m

\* The log only grows, and what the action asks for stays.
LogGrows ==
  /\ DOMAIN log \subseteq DOMAIN log' /\ \A i \in DOMAIN log : log'[i] = log[i]
  /\ wanted' = wanted

\* The executor's facts.
LEMMA ExecutorFacts ==
  ASSUME NEW kind \in EventKind
  PROVE  \A q \in {<<>>, <<"attempt">>, <<"dispatch">>} :
           fact(kind, q, NoContent) \in Fact /\ fact(kind, q, NoContent).kind = kind
<1>1. NoContent \in Contents
  BY TimeAssumption DEF NoContent, Contents, Times
<1>2. \A q \in {<<>>, <<"attempt">>, <<"dispatch">>} : q \in Qualifiers
  BY Zenon DEF Qualifiers
<1> QED BY <1>1, <1>2, FactFields

\* A step of the executor that appends a batch of its own.
LEMMA ExecutorAppends ==
  ASSUME LogInv, NEW batch \in Seq(Fact),
         LogKinds(batch) \cap (VerifierKinds \ {"effect_unverified"}) = {},
         log' = appendPrepared(log, batch), wanted' = wanted,
         ExecutorSays(executor', LogKinds(log) \cup LogKinds(batch))
  PROVE  LogInv' /\ LogGrows
<1>1. Supported(batch, wanted) /\ Paired(LogKinds(batch))
  BY ExecutorBatch, Zenon
<1>2. /\ log' \in Seq(Fact) /\ Paired(LogKinds(log')) /\ Evidenced(log', wanted)
      /\ LogKinds(log') = LogKinds(log) \cup LogKinds(batch)
      /\ DOMAIN log \subseteq DOMAIN log' /\ \A i \in DOMAIN log : log'[i] = log[i]
  BY <1>1, AppendKeepsLog, Zenon DEF LogInv
<1>3. LogGrows
  BY <1>2, Zenon DEF LogGrows
<1>4. ExecutorSays(executor', LogKinds(log')) /\ Evidenced(log', wanted')
  BY <1>2, Zenon
<1> QED BY <1>2, <1>3, <1>4, Zenon DEF LogInv

\* The executor's steps.
LEMMA ExecutorSteps ==
  ASSUME LogInv,
         \/ ExecutorClaims
         \/ \E admitted \in BOOLEAN : ExecutorAdmits(admitted)
         \/ \E kind \in DispatchKinds : ExecutorSettles(kind)
  PROVE  LogInv' /\ LogGrows
<1> DEFINE Kinds == LogKinds(log)
<1>1. ExecutorSays(executor, Kinds)
  BY DEF LogInv
<1>2. DispatchKinds \subseteq EventKind
      /\ {"action_requested", "attempt_started", "action_admitted", "action_rejected",
          "effect_unverified"} \subseteq EventKind
  BY DEF DispatchKinds, EventKind
<1>3. CASE ExecutorClaims
  <2> DEFINE e == fact("action_requested", <<"attempt">>, NoContent)
             f == fact("attempt_started", <<>>, NoContent)
  <2>1. e \in Fact /\ e.kind = "action_requested" /\ f \in Fact /\ f.kind = "attempt_started"
    BY <1>2, ExecutorFacts
  <2>2. /\ executor = "idle" /\ executor' = "claimed" /\ wanted' = wanted
        /\ log' = appendPrepared(log, <<e, f>>)
    BY <1>3 DEF ExecutorClaims
  <2> HIDE DEF e, f
  <2>3. <<e, f>> \in Seq(Fact) /\ LogKinds(<<e, f>>) = {e.kind, f.kind}
    BY <2>1, Batches, Zenon
  <2> DEFINE batch == <<e, f>>
             added == LogKinds(batch)
  <2>4. added = {"action_requested", "attempt_started"}
    BY <2>1, <2>3
  <2> HIDE DEF batch, added, Kinds
  <2>5. added \cap (VerifierKinds \ {"effect_unverified"}) = {}
    BY <2>4 DEF VerifierKinds
  <2>6. ExecutorSays(executor', Kinds \cup added)
    BY <1>1, <2>2, <2>4 DEF ExecutorSays, DispatchKinds
  <2> QED BY <2>2, <2>3, <2>5, <2>6, ExecutorAppends, Zenon DEF batch, added, Kinds
<1>4. ASSUME NEW admitted \in BOOLEAN, ExecutorAdmits(admitted) PROVE LogInv' /\ LogGrows
  <2> DEFINE kind == IF admitted THEN "action_admitted" ELSE "action_rejected"
             e == fact(kind, <<>>, NoContent)
  <2>1. kind \in {"action_admitted", "action_rejected"}
    OBVIOUS
  <2>2. executor' = IF kind = "action_admitted" THEN "admitted" ELSE "rejected"
    BY <1>4 DEF ExecutorAdmits
  <2>3. executor = "claimed" /\ wanted' = wanted /\ log' = appendPrepared(log, <<e>>)
    BY <1>4 DEF ExecutorAdmits
  <2> HIDE DEF kind
  <2>4. e \in Fact /\ e.kind = kind
    BY <1>2, <2>1, ExecutorFacts
  <2> HIDE DEF e
  <2>5. <<e>> \in Seq(Fact) /\ LogKinds(<<e>>) = {e.kind}
    BY <2>4, Batches, Zenon
  <2> DEFINE batch == <<e>>
             added == LogKinds(batch)
  <2>6. added = {kind}
    BY <2>4, <2>5
  <2> HIDE DEF batch, added, Kinds
  <2>7. added \cap (VerifierKinds \ {"effect_unverified"}) = {}
    BY <2>1, <2>6 DEF VerifierKinds
  <2>8. ExecutorSays(executor', Kinds \cup added)
    BY <1>1, <2>1, <2>2, <2>3, <2>6 DEF ExecutorSays, DispatchKinds
  <2> QED BY <2>3, <2>5, <2>7, <2>8, ExecutorAppends, Zenon DEF batch, added, Kinds
<1>5. ASSUME NEW kind \in DispatchKinds, ExecutorSettles(kind) PROVE LogInv' /\ LogGrows
  <2> DEFINE e == fact(kind, <<>>, NoContent)
             f == fact("effect_unverified", <<"dispatch">>, NoContent)
             batch == IF kind \in {"action_dispatched", "provider_acknowledged"}
                      THEN <<e, f>> ELSE <<e>>
             added == LogKinds(batch)
  <2>1. e \in Fact /\ e.kind = kind /\ f \in Fact /\ f.kind = "effect_unverified"
    BY <1>2, ExecutorFacts
  <2>2. /\ executor \in {"claimed", "admitted", "rejected"} /\ wanted' = wanted
        /\ executor' = IF executor = "claimed" THEN "undecided" ELSE "settled"
        /\ executor # "admitted" => kind = "not_dispatched"
    BY <1>5 DEF ExecutorSettles
  <2>3. log' = appendPrepared(log, batch)
    <3>1. log' = appendPrepared(log,
            <<e>> \o (IF kind \in {"action_dispatched", "provider_acknowledged"}
                      THEN <<f>> ELSE <<>>))
      BY <1>5, Zenon DEF ExecutorSettles
    <3> HIDE DEF e, f
    <3>2. <<e>> \o (IF kind \in {"action_dispatched", "provider_acknowledged"}
                    THEN <<f>> ELSE <<>>) = batch
      <4>1. <<e>> \o <<f>> = <<e, f>> /\ <<e>> \o <<>> = <<e>>
        BY TwoFacts, Zenon
      <4> QED BY <4>1, Zenon
    <3> QED BY <3>1, <3>2, Zenon
  <2> HIDE DEF e, f
  <2>4. batch \in Seq(Fact) /\ (added = {kind} \/ added = {kind, "effect_unverified"})
    <3>1. /\ <<e>> \in Seq(Fact) /\ LogKinds(<<e>>) = {e.kind}
          /\ <<e, f>> \in Seq(Fact) /\ LogKinds(<<e, f>>) = {e.kind, f.kind}
      BY <2>1, Batches, Zenon
    <3> QED BY <2>1, <3>1
  <2> HIDE DEF batch, added, Kinds
  <2>5. added \cap (VerifierKinds \ {"effect_unverified"}) = {}
    BY <2>4 DEF VerifierKinds, DispatchKinds
  <2>6. ExecutorSays(executor', Kinds \cup added)
    <3> DEFINE admissions == Kinds \cap {"action_admitted", "action_rejected"}
               now == Kinds \cup added
    <3>1. /\ executor = "claimed" => admissions = {}
          /\ executor = "admitted" => admissions = {"action_admitted"}
          /\ executor = "rejected" => admissions = {"action_rejected"}
          /\ Kinds \cap DispatchKinds = {}
      BY <1>1, <2>2 DEF ExecutorSays
    <3>2. now \cap {"action_admitted", "action_rejected"} = admissions
      BY <2>4 DEF DispatchKinds
    <3>3. now \cap DispatchKinds = {kind}
      BY <2>4, <3>1 DEF DispatchKinds
    <3>4. "action_rejected" \in now => "not_dispatched" \in now
      BY <2>2, <2>4, <3>1, <3>2
    <3> HIDE DEF admissions, now
    <3>5. CASE executor = "claimed"
      <4>1. ExecutorSays("undecided", now)
        BY <2>2, <3>1, <3>2, <3>3, <3>5 DEF ExecutorSays
      <4> QED BY <2>2, <3>5, <4>1 DEF now
    <3>6. CASE executor # "claimed"
      <4>1. ExecutorSays("settled", now)
        BY <2>2, <3>1, <3>2, <3>3, <3>4, <3>6 DEF ExecutorSays
      <4> QED BY <2>2, <3>6, <4>1 DEF now
    <3> QED BY <3>5, <3>6
  <2> QED BY <2>2, <2>3, <2>4, <2>5, <2>6, ExecutorAppends, Zenon DEF added, Kinds
<1> QED BY <1>3, <1>4, <1>5, Zenon

\* The batch of a justified verification.
LEMMA VerificationBatch ==
  ASSUME TypeOK, NEW c \in Calls, Justified(c)
  PROVE  /\ Facts(c) \in Seq(Fact) /\ LogKinds(Facts(c)) \subseteq VerifierKinds
         /\ Paired(LogKinds(Facts(c))) /\ Supported(Facts(c), wanted)
<1>1. /\ observations[c] \in SUBSET Observation /\ verdict[c] \in VerificationStatus
      /\ checkedAt[c] \in Times
  BY DEF TypeOK
<1>2. /\ AtMostOne(observations[c])
      /\ Warranted(observations[c], checkedAt[c], verdict[c], wanted)
  BY DEF Justified
<1>3. LET b == BatchOf(observations[c], verdict[c], checkedAt[c], errs[c])
      IN /\ b \in Seq(Fact) /\ LogKinds(b) \subseteq VerifierKinds
         /\ Paired(LogKinds(b)) /\ Supported(b, wanted)
  BY <1>1, <1>2, BatchOfVerification
<1> QED BY <1>3, FactsAreBatch

\* A verification's append.
LEMMA VerifierAppends ==
  ASSUME TypeOK, LogInv, NEW c \in Calls, Justified(c),
         log' = appendPrepared(log, Facts(c)), wanted' = wanted, executor' = executor
  PROVE  LogInv' /\ LogGrows
<1> DEFINE batch == Facts(c)
           Kinds == LogKinds(log)
           added == LogKinds(batch)
<1>1. /\ batch \in Seq(Fact) /\ added \subseteq VerifierKinds /\ Paired(added)
      /\ Supported(batch, wanted)
  BY VerificationBatch, Zenon
<1>2. /\ log' \in Seq(Fact) /\ Paired(LogKinds(log')) /\ Evidenced(log', wanted)
      /\ LogKinds(log') = Kinds \cup added
      /\ DOMAIN log \subseteq DOMAIN log' /\ \A i \in DOMAIN log : log'[i] = log[i]
  BY <1>1, AppendKeepsLog, Zenon DEF LogInv
<1>3. ExecutorSays(executor, Kinds)
  BY DEF LogInv
<1> HIDE DEF batch, Kinds, added
<1>4. /\ (Kinds \cup added) \cap {"action_admitted", "action_rejected"}
           = Kinds \cap {"action_admitted", "action_rejected"}
      /\ (Kinds \cup added) \cap DispatchKinds = Kinds \cap DispatchKinds
      /\ "action_rejected" \in Kinds \cup added => "action_rejected" \in Kinds
  BY <1>1 DEF VerifierKinds, DispatchKinds
<1>5. ExecutorSays(executor, Kinds \cup added)
  BY <1>3, <1>4 DEF ExecutorSays
<1>6. LogGrows
  BY <1>2, Zenon DEF LogGrows
<1>7. ExecutorSays(executor', LogKinds(log')) /\ Evidenced(log', wanted')
  BY <1>2, <1>5, Zenon
<1> QED BY <1>2, <1>6, <1>7, Zenon DEF LogInv

------------------------------------------------------------------------------
(* The steps of a verification.                                            *)

CallStep(c) ==
  \/ ReadFails(c)
  \/ ReadEvents(c)
  \/ ReadAction(c)
  \/ Resolve(c)
  \/ Observe(c)
  \/ Assess(c)
  \/ Record(c)
  \/ RecordFails(c)

WorldStep == Tick \/ DeviceChanges
ExecutorStep ==
  \/ ExecutorClaims
  \/ \E admitted \in BOOLEAN : ExecutorAdmits(admitted)
  \/ \E kind \in DispatchKinds : ExecutorSettles(kind)

\* Who takes a step.
LEMMA StepCases ==
  Next <=> WorldStep \/ ExecutorStep \/ \E c \in Calls : CallStep(c)
BY Zenon DEF Next, WorldStep, ExecutorStep, CallStep

\* The log is as it should be after every step, and only grows.
LEMMA LogStep ==
  ASSUME TypeOK, LogInv, \A c \in Calls : Justified(c), [Next]_vars
  PROVE  LogInv' /\ LogGrows
<1>1. ASSUME UNCHANGED <<log, executor, wanted>> PROVE LogInv' /\ LogGrows
  <2>1. LogGrows
    BY <1>1 DEF LogGrows
  <2> QED BY <1>1, <2>1, Zenon DEF LogInv
<1>2. CASE ExecutorStep
  BY <1>2, ExecutorSteps, Zenon DEF ExecutorStep
<1>3. ASSUME NEW c \in Calls, CallStep(c) PROVE LogInv' /\ LogGrows
  <2>1. CASE ReadFails(c) \/ ReadEvents(c) \/ ReadAction(c) \/ Resolve(c) \/ Observe(c) \/ Assess(c)
    <3>1. UNCHANGED <<log, executor, wanted>>
      BY <2>1 DEF ReadFails, ReadEvents, ReadAction, Resolve, Observe, Assess, world
    <3> QED BY <1>1, <3>1, Zenon
  <2>2. CASE Record(c) \/ RecordFails(c)
    <3>1. /\ wanted' = wanted /\ executor' = executor
          /\ log' = appendPrepared(log, Facts(c)) \/ log' = log
      BY <2>2, Zenon DEF Record, RecordFails
    <3>2. CASE log' = appendPrepared(log, Facts(c))
      BY <3>1, <3>2, VerifierAppends, Zenon
    <3>3. CASE log' = log
      BY <1>1, <3>1, <3>3
    <3> QED BY <3>1, <3>2, <3>3
  <2> QED BY <1>3, <2>1, <2>2, Zenon DEF CallStep
<1>4. CASE WorldStep \/ UNCHANGED vars
  <2>1. UNCHANGED <<log, executor, wanted>>
    BY <1>4 DEF WorldStep, Tick, DeviceChanges, vars, world
  <2> QED BY <1>1, <2>1, Zenon
<1> QED BY <1>2, <1>3, <1>4, StepCases, Zenon

\* A verification leaves the others alone, and the world except for the log.
LEMMA CallFrame ==
  ASSUME TypeOK, NEW c \in Calls, CallStep(c)
  PROVE  /\ \A d \in Calls \ {c} :
              /\ pc'[d] = pc[d] /\ observations'[d] = observations[d]
              /\ checkedAt'[d] = checkedAt[d] /\ verdict'[d] = verdict[d] /\ errs'[d] = errs[d]
         /\ UNCHANGED <<wanted, clock, device, executor>>
<1> USE DEF Return, Goto, world
<1>1. CASE ReadFails(c)
  BY <1>1 DEF ReadFails, TypeOK
<1>2. CASE ReadEvents(c)
  BY <1>2 DEF ReadEvents, TypeOK
<1>3. CASE ReadAction(c)
  BY <1>3 DEF ReadAction, TypeOK
<1>4. CASE Resolve(c)
  BY <1>4 DEF Resolve, TypeOK
<1>5. CASE Observe(c)
  BY <1>5 DEF Observe, TypeOK
<1>6. CASE Assess(c)
  BY <1>6 DEF Assess, TypeOK
<1>7. CASE Record(c)
  BY <1>7 DEF Record, TypeOK
<1>8. CASE RecordFails(c)
  BY <1>8 DEF RecordFails, TypeOK
<1> QED BY <1>1, <1>2, <1>3, <1>4, <1>5, <1>6, <1>7, <1>8 DEF CallStep

\* Every state of a verification is of its type.
LEMMA TypeStep ==
  ASSUME TypeOK, LogInv', [Next]_vars
  PROVE  TypeOK'
<1>1. \A i \in DOMAIN log' : log'[i].kind \in EventKind
  <2>1. log' \in Seq(Fact)
    BY DEF LogInv
  <2>2. \A f \in Fact : f.kind \in EventKind
    BY DEF Fact
  <2> QED BY <2>1, <2>2
<1>2. CASE WorldStep
  <2>1. clock' \in Times
    BY <1>2, TimeAssumption DEF WorldStep, Tick, DeviceChanges, Times, TypeOK
  <2>2. device' \in Device
    BY <1>2 DEF WorldStep, Tick, DeviceChanges, TypeOK
  <2>3. UNCHANGED <<wanted, executor, call>>
    BY <1>2 DEF WorldStep, Tick, DeviceChanges
  <2> QED BY <1>1, <2>1, <2>2, <2>3 DEF TypeOK, call
<1>3. CASE ExecutorStep
  <2>1. UNCHANGED <<wanted, clock, device, call>>
        /\ executor' \in {"idle", "claimed", "admitted", "rejected", "settled", "undecided"}
    BY <1>3 DEF ExecutorStep, ExecutorClaims, ExecutorAdmits, ExecutorSettles
  <2> QED BY <1>1, <2>1 DEF TypeOK, call
<1>4. ASSUME NEW c \in Calls, CallStep(c) PROVE TypeOK'
  <2>1. UNCHANGED <<wanted, clock, device, executor>>
    BY <1>4, CallFrame
  <2> DEFINE Causes == {"validate", "record", "resolve", "observe", "verify", "identity_conflict"}
             Labels == {"read_events", "read_action", "resolve", "observe", "assess",
                        "record", "done"}
  <2> SUFFICES /\ pc' \in [Calls -> Labels]
               /\ observations' \in [Calls -> SUBSET Observation]
               /\ checkedAt' \in [Calls -> Times]
               /\ verdict' \in [Calls -> VerificationStatus]
               /\ errs' \in [Calls -> SUBSET Causes]
               /\ outages' \subseteq Calls
    BY <1>1, <2>1 DEF TypeOK
  <2> USE DEF Return, Goto
  <2>2. CASE ReadFails(c)
    BY <2>2 DEF ReadFails, TypeOK
  <2>3. CASE ReadEvents(c)
    BY <2>3 DEF ReadEvents, TypeOK
  <2>4. CASE ReadAction(c)
    BY <2>4 DEF ReadAction, TypeOK
  <2>5. CASE Resolve(c)
    BY <2>5 DEF Resolve, TypeOK
  <2>6. CASE Observe(c)
    <3>1. getState \subseteq SUBSET Observation
      BY DEF getState, Observation, TypeOK
    <3> QED BY <2>6, <3>1 DEF Observe, TypeOK
  <2>7. CASE Assess(c)
    <3>1. \A o : Assessment(o, clock) \in VerificationStatus
      BY DEF Assessment, VerificationStatus
    <3>2. "inconclusive" \in VerificationStatus
      BY DEF VerificationStatus
    <3> QED BY <2>7, <3>1, <3>2 DEF Assess, TypeOK
  <2>8. CASE Record(c)
    BY <2>8 DEF Record, TypeOK
  <2>9. CASE RecordFails(c)
    BY <2>9 DEF RecordFails, TypeOK
  <2> QED BY <1>4, <2>2, <2>3, <2>4, <2>5, <2>6, <2>7, <2>8, <2>9, Zenon DEF CallStep
<1>5. CASE UNCHANGED vars
  BY <1>5 DEF TypeOK, vars, world, call
<1> QED BY <1>2, <1>3, <1>4, <1>5, StepCases, Zenon

\* The batch after a step, from the state after it.
LEMMA FactsAreBatchAfter ==
  ASSUME NEW c
  PROVE  Facts(c)' = BatchOf(observations'[c], verdict'[c], checkedAt'[c], errs'[c])
BY Zenon DEF Facts, BatchOf, EffectFact, AssessmentFact, Readings, observationEvents,
   verificationEvents, observationEvent, fact

\* What is on record stays on record.
LEMMA RecordStays ==
  ASSUME NEW batch, OnRecord(batch, log), LogGrows
  PROVE  OnRecord(batch, log')
BY DEF OnRecord, LogGrows

\* A verification that does not move stays justified.
LEMMA JustifiedFrame ==
  ASSUME NEW c, Justified(c), LogGrows,
         pc'[c] = pc[c], observations'[c] = observations[c], checkedAt'[c] = checkedAt[c],
         verdict'[c] = verdict[c], errs'[c] = errs[c]
  PROVE  Justified(c)'
<1>1. Facts(c)' = Facts(c)
  BY FactsAreBatch, FactsAreBatchAfter, Zenon
<1>2. wanted' = wanted
  BY DEF LogGrows
<1>3. OnRecord(Facts(c), log) => OnRecord(Facts(c), log')
  BY RecordStays, Zenon
<1>4. AtMostOne(observations'[c]) /\ (pc'[c] \notin {"record", "done"} => verdict'[c] = "unknown")
  BY DEF Justified
<1>5. Warranted(observations'[c], checkedAt'[c], verdict'[c], wanted')
  BY <1>2, Zenon DEF Justified
<1>6. pc'[c] = "record" /\ verdict'[c] = "unknown" => "verify" \in errs'[c]
  BY DEF Justified
<1>7. pc'[c] = "done" /\ errs'[c] = {} =>
        verdict'[c] # "unknown" /\ OnRecord(Facts(c)', log')
  BY <1>1, <1>3, Zenon DEF Justified
<1> QED BY <1>4, <1>5, <1>6, <1>7, Zenon DEF Justified

\* The verification that takes a step is justified after it.
LEMMA JustifiedStep ==
  ASSUME TypeOK, LogInv, NEW c \in Calls, Justified(c), CallStep(c), LogGrows
  PROVE  Justified(c)'
<1>1. wanted' = wanted
  BY DEF LogGrows
<1> DEFINE Verdict == Warranted(observations'[c], checkedAt'[c], verdict'[c], wanted')
           Done == pc'[c] = "done" /\ errs'[c] = {} =>
                     verdict'[c] # "unknown" /\ OnRecord(Facts(c)', log')
<1> SUFFICES /\ AtMostOne(observations'[c])
             /\ pc'[c] \notin {"record", "done"} => verdict'[c] = "unknown"
             /\ Verdict
             /\ pc'[c] = "record" /\ verdict'[c] = "unknown" => "verify" \in errs'[c]
             /\ Done
  BY Zenon DEF Justified
<1>2. CASE ReadFails(c) \/ ReadEvents(c) \/ ReadAction(c) \/ Resolve(c)
  <2>1. /\ pc[c] \in {"read_events", "read_action", "resolve"}
        /\ pc'[c] \in {"read_action", "resolve", "observe", "done"}
        /\ pc'[c] = "done" => errs'[c] # {}
        /\ UNCHANGED <<observations, checkedAt, verdict>>
    <3> USE DEF Return, Goto, TypeOK
    <3>1. CASE ReadFails(c)
      BY <3>1 DEF ReadFails
    <3>2. CASE ReadEvents(c)
      <4>1. /\ pc[c] = "read_events" /\ UNCHANGED <<observations, checkedAt, verdict>>
            /\ \/ Goto(c, "read_action") /\ UNCHANGED errs
               \/ Return(c, {"validate"})
        BY <3>2, Zenon DEF ReadEvents
      <4>2. CASE Goto(c, "read_action") /\ UNCHANGED errs
        <5>1. pc'[c] = "read_action"
          BY <4>2
        <5> QED BY <4>1, <5>1
      <4>3. CASE Return(c, {"validate"})
        <5>1. pc'[c] = "done" /\ errs'[c] # {}
          BY <4>3
        <5> QED BY <4>1, <5>1
      <4> QED BY <4>1, <4>2, <4>3, Zenon
    <3>3. CASE ReadAction(c)
      BY <3>3 DEF ReadAction
    <3>4. CASE Resolve(c)
      <4>1. CASE Goto(c, "observe") /\ UNCHANGED errs
        BY <3>4, <4>1 DEF Resolve
      <4>2. CASE Return(c, {"resolve"})
        BY <3>4, <4>2 DEF Resolve
      <4> HIDE DEF Return, Goto, TypeOK
      <4> QED BY <3>4, <4>1, <4>2 DEF Resolve
    <3> HIDE DEF Return, Goto, TypeOK
    <3> QED BY <1>2, <3>1, <3>2, <3>3, <3>4, Zenon
  <2>2. verdict'[c] = "unknown" /\ AtMostOne(observations'[c])
    BY <2>1 DEF Justified
  <2> QED BY <2>1, <2>2 DEF Warranted
<1>3. CASE Observe(c)
  <2>1. pc[c] = "observe" /\ pc'[c] = "assess" /\ verdict' = verdict
    BY <1>3 DEF Observe, Goto, TypeOK
  <2>2. verdict'[c] = "unknown"
    BY <2>1 DEF Justified
  <2>3. observations'[c] \in getState
    BY <1>3 DEF Observe, TypeOK
  <2>4. AtMostOne(observations'[c])
    BY <2>3 DEF getState, AtMostOne
  <2> QED BY <2>1, <2>2, <2>4 DEF Warranted
<1>4. CASE Assess(c)
  <2>1. /\ pc[c] = "assess" /\ pc'[c] = "record" /\ checkedAt'[c] = clock
        /\ observations' = observations
    BY <1>4 DEF Assess, Goto, TypeOK
  <2>2. verdict[c] = "unknown" /\ AtMostOne(observations'[c])
    BY <2>1 DEF Justified
  <2>3. CASE observations[c] = {} /\ verdict' = [verdict EXCEPT ![c] = "inconclusive"]
    <3>1. verdict'[c] = "inconclusive"
      BY <2>3 DEF TypeOK
    <3> QED BY <2>1, <2>2, <2>3, <3>1 DEF Warranted, Blind
  <2>4. ASSUME NEW o \in observations[c], verdict' = [verdict EXCEPT ![c] = Assessment(o, clock)]
        PROVE  Verdict /\ verdict'[c] # "unknown"
    <3>1. verdict'[c] = Assessment(o, clock)
      BY <2>4 DEF TypeOK
    <3>2. o.value.state \in DeviceStates
      BY DEF TypeOK, Observation, Device
    <3>3. Assessment(o, clock) \in {"verified", "unsatisfied"} =>
            /\ Fresh(o, clock) /\ o.value.state \in {"on", "off"}
            /\ Assessment(o, clock) = "verified" <=> o.value.state = wanted
      BY <3>2 DEF Assessment, DeviceStates
    <3>6. Assessment(o, clock) = "inconclusive" =>
            wanted = "unsupported" \/ ~(Fresh(o, clock) /\ o.value.state \in {"on", "off"})
      BY DEF Assessment
    <3>7. \A p \in observations[c] : p = o
      BY DEF Justified, AtMostOne
    <3>4. Verdict
      BY <1>1, <2>1, <3>1, <3>3, <3>6, <3>7 DEF Warranted, Reads, Blind
    <3>5. Assessment(o, clock) # "unknown"
      BY DEF Assessment
    <3> QED BY <3>1, <3>4, <3>5
  <2>5. CASE UNCHANGED verdict /\ errs' = [errs EXCEPT ![c] = @ \cup {"verify"}]
    <3>1. verdict'[c] = "unknown" /\ "verify" \in errs'[c]
      BY <2>2, <2>5 DEF TypeOK
    <3> QED BY <2>1, <2>2, <3>1 DEF Warranted
  <2>6. \/ observations[c] = {} /\ verdict' = [verdict EXCEPT ![c] = "inconclusive"]
        \/ \E o \in observations[c] : verdict' = [verdict EXCEPT ![c] = Assessment(o, clock)]
        \/ UNCHANGED verdict /\ errs' = [errs EXCEPT ![c] = @ \cup {"verify"}]
    BY <1>4, Zenon DEF Assess
  <2>7. CASE \E o \in observations[c] : verdict' = [verdict EXCEPT ![c] = Assessment(o, clock)]
    BY <2>1, <2>2, <2>4, <2>7
  <2> QED BY <2>3, <2>5, <2>6, <2>7
<1>5. CASE Record(c) \/ RecordFails(c)
  <2>1. /\ pc[c] = "record" /\ pc'[c] = "done"
        /\ UNCHANGED <<observations, checkedAt, verdict>>
    BY <1>5 DEF Record, RecordFails, Return, TypeOK
  <2>2. AtMostOne(observations'[c]) /\ Verdict
    BY <1>1, <2>1, Zenon DEF Justified
  <2>3. ASSUME errs'[c] = {} PROVE verdict'[c] # "unknown" /\ OnRecord(Facts(c)', log')
    <3>1. preflight(log, Facts(c)) /\ log' = appendPrepared(log, Facts(c)) /\ errs'[c] = errs[c]
      BY <1>5, <2>3 DEF Record, RecordFails, Return, TypeOK
    <3>2. verdict[c] # "unknown"
      BY <2>1, <2>3, <3>1 DEF Justified
    <3>3. Facts(c)' = Facts(c)
      BY <2>1, <3>1, FactsAreBatch, FactsAreBatchAfter, Zenon
    <3>4. Facts(c) \in Seq(Fact)
      BY VerificationBatch, Zenon
    <3>5. log \in Seq(Fact)
      BY DEF LogInv
    <3>6. OnRecord(Facts(c), log')
      BY <3>1, <3>4, <3>5, AcceptedIsStored, Zenon DEF OnRecord
    <3> QED BY <2>1, <3>2, <3>3, <3>6
  <2> QED BY <2>1, <2>2, <2>3
<1> QED BY <1>2, <1>3, <1>4, <1>5, Zenon DEF CallStep

------------------------------------------------------------------------------
(* The invariant holds.                                                    *)

\* At first the log is empty and no verification has begun.
LEMMA InitInvariant ==
  Init => VInv
<1> SUFFICES ASSUME Init PROVE VInv
  OBVIOUS
<1>1. TypeOK
  BY TimeAssumption DEF Init, TypeOK, Times, Device, VerificationStatus
<1>2. LogInv
  <2>1. log = <<>>
    BY DEF Init
  <2>2. log \in Seq(Fact) /\ LogKinds(log) = {}
    BY <2>1 DEF LogKinds
  <2>3. Evidenced(log, wanted)
    BY <2>1 DEF Evidenced
  <2>4. Paired(LogKinds(log))
    BY <2>2 DEF Paired
  <2>5. ExecutorSays(executor, LogKinds(log))
    BY <2>2 DEF ExecutorSays, Init
  <2> QED BY <2>2, <2>3, <2>4, <2>5 DEF LogInv
<1>3. ASSUME NEW c \in Calls PROVE Justified(c)
  BY DEF Init, Justified, AtMostOne, Warranted
<1> QED BY <1>1, <1>2, <1>3 DEF VInv

\* Every step keeps it.
LEMMA NextInvariant ==
  VInv /\ [Next]_vars => VInv' /\ LogGrows
<1> SUFFICES ASSUME VInv, [Next]_vars PROVE VInv' /\ LogGrows
  OBVIOUS
<1>1. TypeOK /\ LogInv /\ \A c \in Calls : Justified(c)
  BY DEF VInv
<1>2. LogInv' /\ LogGrows
  BY <1>1, LogStep
<1>3. TypeOK'
  BY <1>1, <1>2, TypeStep
<1>4. ASSUME NEW c \in Calls PROVE Justified(c)'
  <2>1. CASE WorldStep \/ ExecutorStep \/ UNCHANGED vars
    <3>1. UNCHANGED call
      BY <2>1 DEF WorldStep, Tick, DeviceChanges, ExecutorStep, ExecutorClaims, ExecutorAdmits,
         ExecutorSettles, vars
    <3>2. /\ pc'[c] = pc[c] /\ observations'[c] = observations[c]
          /\ checkedAt'[c] = checkedAt[c] /\ verdict'[c] = verdict[c] /\ errs'[c] = errs[c]
      BY <3>1 DEF call
    <3> QED BY <1>1, <1>2, <3>2, JustifiedFrame, Zenon
  <2>2. ASSUME NEW d \in Calls, CallStep(d) PROVE Justified(c)'
    <3>1. CASE c = d
      BY <1>1, <1>2, <2>2, <3>1, JustifiedStep, Zenon
    <3>2. CASE c # d
      <4>1. /\ pc'[c] = pc[c] /\ observations'[c] = observations[c]
            /\ checkedAt'[c] = checkedAt[c] /\ verdict'[c] = verdict[c] /\ errs'[c] = errs[c]
        BY <1>1, <2>2, <3>2, CallFrame
      <4> QED BY <1>1, <1>2, <4>1, JustifiedFrame, Zenon
    <3> QED BY <3>1, <3>2
  <2> QED BY <2>1, <2>2, StepCases, Zenon
<1> QED BY <1>2, <1>3, <1>4, Zenon DEF VInv

\* It is an invariant of the specification.
LEMMA Invariance ==
  Spec => []VInv
BY InitInvariant, NextInvariant, PTL DEF Spec

------------------------------------------------------------------------------
(* Theorems.                                                               *)

(* Verifications, the executor, the device and the clock stay within their *)
(* types.                                                                  *)
THEOREM VerificationTypes ==
  Spec => []TypeOK
<1>1. VInv => TypeOK
  BY DEF VInv
<1> QED BY <1>1, Invariance, PTL

(* A conclusive assessment on record comes after a fresh observation that  *)
(* justifies it, and an inconclusive one names none that could have been   *)
(* used, for any number of verifications, any clock, skew and freshness    *)
(* window, and whichever facts of a batch were there before: VerifyAttempt *)
(* appends the observation and the assessment in this order.               *)
THEOREM EvidenceComesFirst ==
  Spec => []AssessmentRestsOnEvidence
<1>1. VInv => AssessmentRestsOnEvidence
  BY Zenon DEF VInv, LogInv, AssessmentRestsOnEvidence, Evidenced, Evidence, ConclusiveKinds,
     Inconclusive
<1> QED BY <1>1, Invariance, PTL

(* The view marks an effect conflicted exactly when both verdicts are on   *)
(* record, and agrees with a single one: verificationEvents stores effect  *)
(* and assessment together, and Apply keeps the contradiction.             *)
THEOREM ContradictionsShow ==
  Spec => []ContradictionIsVisible
<1>1. ASSUME VInv PROVE ContradictionIsVisible
  <2> DEFINE kinds == LogKinds(log)
             view == ViewOf(log)
  <2>1. view \in View /\ Reflects(view, kinds) /\ Assesses(view, kinds)
    BY <1>1, ViewSays, Zenon DEF VInv, LogInv
  <2>2. Paired(kinds)
    BY <1>1 DEF VInv, LogInv
  <2>3. kinds = {log[i].kind : i \in DOMAIN log}
    BY DEF LogKinds
  <2> HIDE DEF kinds, view
  <2>4. /\ {"verification_verified", "verification_unsatisfied"} \subseteq kinds
             <=> view.effectConflicted
        /\ ~view.effectConflicted => (view.verification = "verified" <=> view.effect = "satisfied")
        /\ ~view.effectConflicted =>
             (view.verification = "unsatisfied" <=> view.effect = "unsatisfied")
    <3>1. /\ view.effect = KnownEffect(kinds)
          /\ view.effectConflicted <=> EffectContradicted(kinds)
      BY <2>1 DEF Reflects
    <3> QED BY <2>1, <2>2, <3>1 DEF Paired, Assesses, KnownEffect, EffectContradicted
  <2> QED BY <2>3, <2>4, Zenon DEF ContradictionIsVisible, view
<1> QED BY <1>1, Invariance, PTL

(* Admission and dispatch of the view are what the executor recorded,      *)
(* whatever verifications found and in whatever order they were stored,    *)
(* also where it recorded no admission because nobody decided.             *)
THEOREM VerifyKeepsDispatch ==
  Spec => []DispatchIsTheExecutors
<1>1. ASSUME VInv PROVE DispatchIsTheExecutors
  <2> DEFINE kinds == LogKinds(log)
             view == ViewOf(log)
  <2>1. Reflects(view, kinds)
    BY <1>1, ViewSays, Zenon DEF VInv, LogInv
  <2>2. /\ ExecutorSays(executor, kinds)
        /\ executor \in {"idle", "claimed", "admitted", "rejected", "settled", "undecided"}
    BY <1>1 DEF VInv, LogInv, TypeOK
  <2>3. kinds = {log[i].kind : i \in DOMAIN log}
    BY DEF LogKinds
  <2> HIDE DEF kinds, view
  <2> DEFINE Claim ==
        /\ view.dispatch # "unknown" => executor \in {"rejected", "settled", "undecided"}
        /\ executor = "undecided" => view.dispatch = "not_dispatched"
        /\ executor = "settled" /\ "dispatch_unknown" \notin kinds => view.dispatch # "unknown"
        /\ view.admission # "unknown" <=> executor \in {"admitted", "rejected", "settled"}
        /\ view.admission = "rejected" => view.dispatch = "not_dispatched"
        /\ ~view.dispatchConflicted /\ ~view.admissionConflicted
  <2>4. Claim
    <3>1. /\ view.admission = KnownAdmission(kinds) /\ view.dispatch = KnownDispatch(kinds)
          /\ view.admissionConflicted <=> AdmissionContradicted(kinds)
          /\ view.dispatchConflicted <=> DispatchContradicted(kinds)
      BY <2>1 DEF Reflects
    <3> USE DEF KnownAdmission, KnownDispatch, AdmissionContradicted, DispatchContradicted,
                SaysDispatched, SaysNotDispatched, ExecutorSays, DispatchKinds
    <3>2. CASE executor \in {"idle", "claimed"}
      BY <2>2, <3>1, <3>2
    <3>3. CASE executor = "admitted"
      BY <2>2, <3>1, <3>3
    <3>4. CASE executor = "rejected"
      BY <2>2, <3>1, <3>4
    <3>5. CASE executor = "settled"
      BY <2>2, <3>1, <3>5
    <3>6. CASE executor = "undecided"
      BY <2>2, <3>1, <3>6
    <3> QED BY <2>2, <3>2, <3>3, <3>4, <3>5, <3>6
  <2> QED BY <2>3, <2>4, Zenon DEF DispatchIsTheExecutors, view
<1> QED BY <1>1, Invariance, PTL

(* A verification that is answered without an operation_error has an       *)
(* assessment, and all its facts are on record, with the same content.     *)
THEOREM NothingLostSilently ==
  Spec => []UnrecordedIsReported
<1>1. ASSUME VInv PROVE UnrecordedIsReported
  <2> DEFINE Reported(c) ==
               pc[c] = "done" /\ verifyAnswer(c).status = 200 /\ ~verifyAnswer(c).failed =>
                 /\ verifyAnswer(c).verification # "unknown"
                 /\ \A i \in DOMAIN Facts(c) : \E j \in DOMAIN log : log[j] = Facts(c)[i]
  <2>a. UnrecordedIsReported <=> \A c \in Calls : Reported(c)
    BY DEF UnrecordedIsReported
  <2> SUFFICES ASSUME NEW c \in Calls, pc[c] = "done", verifyAnswer(c).status = 200,
                      ~verifyAnswer(c).failed
               PROVE  /\ verifyAnswer(c).verification # "unknown"
                      /\ \A i \in DOMAIN Facts(c) : \E j \in DOMAIN log : log[j] = Facts(c)[i]
    <3> SUFFICES ASSUME NEW c \in Calls PROVE Reported(c)
      BY <2>a, Zenon
    <3> QED OBVIOUS
  <2>1. errs[c] = {} /\ verifyAnswer(c).verification = verdict[c]
    <3>1. CASE "identity_conflict" \in errs[c]
      <4>1. verifyAnswer(c) = [status |-> 409]
        BY <3>1 DEF verifyAnswer
      <4> QED BY <4>1
    <3>2. CASE "identity_conflict" \notin errs[c]
      <4> DEFINE failed == errs[c] # {}
      <4>1. verifyAnswer(c) = [status |-> 200, verification |-> verdict[c], failed |-> failed]
        BY <3>2, Zenon DEF verifyAnswer
      <4> HIDE DEF failed
      <4>2. verifyAnswer(c).verification = verdict[c] /\ verifyAnswer(c).failed = failed
        BY <4>1
      <4>3. ~failed
        BY <4>2, Zenon
      <4> QED BY <4>2, <4>3 DEF failed
    <3> QED BY <3>1, <3>2
  <2>2. verdict[c] # "unknown" /\ OnRecord(Facts(c), log)
    BY <1>1, <2>1, Zenon DEF VInv, Justified
  <2> QED BY <2>1, <2>2, Zenon DEF OnRecord
<1> QED BY <1>1, Invariance, PTL

(* No append weakens what the view knows of the effect: the kinds on       *)
(* record only grow, and mergeEffect keeps the strongest of them.          *)
THEOREM EffectGrows ==
  Spec => EffectOnlyGrows
<1> DEFINE Grows == LET old == ViewOf(log)
                        new == ViewOf(log')
                    IN IF old.effectConflicted THEN new.effectConflicted
                       ELSE \/ new.effectConflicted
                            \/ old.effect = "unknown"
                            \/ old.effect = "unverified" /\ new.effect # "unknown"
                            \/ new.effect = old.effect
<1>1. ASSUME VInv, [Next]_vars PROVE Grows
  <2> DEFINE kinds == LogKinds(log)
             later == LogKinds(log')
             old == ViewOf(log)
             new == ViewOf(log')
  <2>1. LogGrows /\ log \in Seq(Fact) /\ log' \in Seq(Fact)
    BY <1>1, NextInvariant DEF VInv, LogInv
  <2>2. kinds \subseteq later
    BY <2>1 DEF LogGrows, LogKinds
  <2>3. Reflects(old, kinds) /\ Reflects(new, later)
    BY <2>1, ViewSays, Zenon
  <2> HIDE DEF kinds, later, old, new
  <2>4. IF old.effectConflicted THEN new.effectConflicted
        ELSE \/ new.effectConflicted
             \/ old.effect = "unknown"
             \/ old.effect = "unverified" /\ new.effect # "unknown"
             \/ new.effect = old.effect
    <3>1. /\ old.effect = KnownEffect(kinds) /\ new.effect = KnownEffect(later)
          /\ old.effectConflicted <=> EffectContradicted(kinds)
          /\ new.effectConflicted <=> EffectContradicted(later)
      BY <2>3 DEF Reflects
    <3> QED BY <2>2, <3>1 DEF KnownEffect, EffectContradicted
  <2> QED BY <2>4, Zenon DEF old, new
<1>2. ASSUME VInv, [Next]_vars PROVE [Grows]_vars
  BY <1>1, <1>2
<1>3. Spec => [][Grows]_vars
  <2> HIDE DEF Grows
  <2> QED BY <1>2, Invariance, PTL DEF Spec
<1> QED BY <1>3 DEF EffectOnlyGrows
==============================================================================
