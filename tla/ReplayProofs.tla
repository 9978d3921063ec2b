----------------------------- MODULE ReplayProofs -----------------------------
(***************************************************************************)
(* What a replay computes, for every list of facts: the view depends on    *)
(* which kinds of facts there are, and on their order only in which        *)
(* conclusive assessment it shows; and what an append does to any log.     *)
(* Induction is over sets of naturals, from the least-number principle.    *)
(***************************************************************************)
EXTENDS Projection, KnownFacts, Integers, WellFoundedInduction, TLAPS

------------------------------------------------------------------------------
(* Induction and recursion over the naturals.                              *)

\* A non-empty set of naturals has a least element.
LEMMA LeastNumber ==
  ASSUME NEW T, T \subseteq Nat, T # {}
  PROVE  \E x \in T : \A y \in T : ~(y < x)
<1> DEFINE R == {ss \in Nat \X Nat : ss[1] < ss[2]}
<1>1. IsWellFoundedOn(R, Nat)
  BY NatLessThanWellFounded DEF OpToRel
<1> HIDE DEF R
<1>2. PICK x \in T : \A y \in T : ~(<<y, x>> \in R)
  BY <1>1, WFMin, Zenon
<1> QED BY <1>2 DEF R

\* S holds 0 and, below m, every successor of its members.
Inductive(S, m) == 0 \in S /\ \A n \in 0 .. m - 1 : n \in S => n + 1 \in S

\* Such a set holds m.
LEMMA Induction ==
  ASSUME NEW m \in Nat, NEW S, Inductive(S, m)
  PROVE  m \in S
<1> DEFINE T == {n \in 0 .. m : n \notin S}
<1> SUFFICES ASSUME m \notin S PROVE FALSE
  OBVIOUS
<1>1. PICK x \in T : \A y \in T : ~(y < x)
  <2>1. T \subseteq Nat
    OBVIOUS
  <2>2. m \in T
    OBVIOUS
  <2> HIDE DEF T
  <2> QED BY <2>1, <2>2, LeastNumber, Zenon
<1>2. x \in 0 .. m /\ x \notin S
  OBVIOUS
<1>3. x # 0
  BY <1>2 DEF Inductive
<1>4. x - 1 \in 0 .. m /\ x - 1 \in 0 .. m - 1 /\ x - 1 < x /\ (x - 1) + 1 = x
  BY <1>2, <1>3
<1>5. x - 1 \in S
  BY <1>1, <1>4
<1> QED BY <1>2, <1>4, <1>5 DEF Inductive

\* g is defined on 0 .. m by recursion from base with step, in V.
Recurses(g, V, base, m, step) ==
  g \in [0 .. m -> V] /\ g[0] = base /\ \A n \in 1 .. m : g[n] = step[n][g[n - 1]]
StepsIn(V, m) == [1 .. m -> [V -> V]]

\* One more value.
LEMMA RecursionStep ==
  ASSUME NEW V, NEW base, NEW m \in Nat, NEW step \in StepsIn(V, m), NEW k \in 0 .. m - 1,
         NEW f, Recurses(f, V, base, k, step)
  PROVE  \E g : Recurses(g, V, base, k + 1, step)
<1> DEFINE g == [n \in 0 .. k + 1 |-> IF n = k + 1 THEN step[n][f[k]] ELSE f[n]]
<1>1. k \in Nat /\ k + 1 \in 1 .. m /\ k \in 0 .. k
  OBVIOUS
<1>2. f[k] \in V
  BY <1>1 DEF Recurses
<1>3. step[k + 1][f[k]] \in V
  BY <1>1, <1>2 DEF StepsIn
<1>4. \A n \in 0 .. k : g[n] = f[n] /\ f[n] \in V
  BY <1>1 DEF Recurses
<1>5. g[k + 1] = step[k + 1][f[k]]
  BY <1>1
<1>6. g \in [0 .. k + 1 -> V]
  <2>1. ASSUME NEW n \in 0 .. k + 1 PROVE (IF n = k + 1 THEN step[n][f[k]] ELSE f[n]) \in V
    <3>1. n = k + 1 \/ n \in 0 .. k
      BY <1>1
    <3> QED BY <1>3, <1>4, <3>1
  <2> QED BY <2>1
<1> HIDE DEF g
<1>7. ASSUME NEW n \in 1 .. k + 1 PROVE g[n] = step[n][g[n - 1]]
  <2>1. CASE n = k + 1
    <3>1. n - 1 = k
      BY <1>1, <2>1
    <3> QED BY <1>1, <1>4, <1>5, <2>1, <3>1
  <2>2. CASE n # k + 1
    <3>1. n \in 1 .. k /\ n - 1 \in 0 .. k /\ n \in 0 .. k
      BY <1>1, <2>2
    <3>2. f[n] = step[n][f[n - 1]]
      BY <3>1 DEF Recurses
    <3> QED BY <1>4, <3>1, <3>2
  <2> QED BY <2>1, <2>2
<1>8. g[0] = base
  <2>1. 0 \in 0 .. k
    BY <1>1
  <2> QED BY <1>4, <2>1 DEF Recurses
<1>9. Recurses(g, V, base, k + 1, step)
  BY <1>6, <1>7, <1>8 DEF Recurses
<1> QED BY <1>9, Zenon

\* A function can be defined by recursion on 0 .. m.
LEMMA Recursion ==
  ASSUME NEW V, NEW base \in V, NEW m \in Nat, NEW step \in StepsIn(V, m)
  PROVE  \E g : Recurses(g, V, base, m, step)
<1> DEFINE S == {k \in 0 .. m : \E g : Recurses(g, V, base, k, step)}
<1>1. 0 \in S
  <2> DEFINE g == [n \in 0 .. 0 |-> base]
  <2>1. g \in [0 .. 0 -> V] /\ g[0] = base
    OBVIOUS
  <2> HIDE DEF g
  <2>2. Recurses(g, V, base, 0, step)
    BY <2>1 DEF Recurses
  <2>3. \E h : Recurses(h, V, base, 0, step)
    BY <2>2, Zenon
  <2>4. 0 \in 0 .. m
    OBVIOUS
  <2> QED BY <2>3, <2>4, Zenon
<1>2. ASSUME NEW k \in 0 .. m - 1, k \in S PROVE k + 1 \in S
  <2>1. PICK f : Recurses(f, V, base, k, step)
    BY <1>2, Zenon
  <2>2. \E g : Recurses(g, V, base, k + 1, step)
    BY <2>1, RecursionStep, Zenon
  <2>3. k + 1 \in 0 .. m
    OBVIOUS
  <2> QED BY <2>2, <2>3, Zenon
<1>3. m \in S
  <2> HIDE DEF S
  <2>1. Inductive(S, m)
    BY <1>1, <1>2, Zenon DEF Inductive
  <2> QED BY <2>1, Induction, Zenon
<1> QED BY <1>3, Zenon

------------------------------------------------------------------------------
(* What the appendPrepared of the memory log appends.                      *)

Log == INSTANCE EventLog

\* l is l0 followed by the first n facts of the batch that were not there.
Appended(l0, l, batch, n) ==
  /\ DOMAIN l0 \subseteq DOMAIN l
  /\ \A i \in DOMAIN l0 : l[i] = l0[i]
  /\ \A i \in DOMAIN l \ DOMAIN l0 :
       \E k \in 1 .. n :
         /\ l[i] = batch[k]
         /\ \A j \in 1 .. k - 1 : \E h \in 1 .. i - 1 : Log!SameEventID(batch[j], l[h])
  /\ \A k \in 1 .. n : Log!Stored(l, batch[k])

\* The next fact of the batch.
LEMMA AppendNext ==
  ASSUME NEW T, NEW l0 \in Seq(T), NEW l \in Seq(T), NEW batch, NEW n \in Nat,
         batch[n + 1] \in T, Appended(l0, l, batch, n)
  PROVE  /\ Log!appendOne(l, batch[n + 1]) \in Seq(T)
         /\ Appended(l0, Log!appendOne(l, batch[n + 1]), batch, n + 1)
<1> DEFINE e == batch[n + 1]
<1>1. CASE Log!Stored(l, e)
  <2>1. Log!appendOne(l, e) = l
    BY <1>1 DEF Log!appendOne
  <2>2. \A k \in 1 .. n + 1 : Log!Stored(l, batch[k])
    BY <1>1 DEF Appended
  <2>3. Appended(l0, l, batch, n + 1)
    BY <2>2 DEF Appended
  <2> QED BY <2>1, <2>3
<1>2. CASE ~Log!Stored(l, e)
  <2> DEFINE m == Append(l, e)
  <2>1. Log!appendOne(l, e) = m
    BY <1>2 DEF Log!appendOne
  <2>2. /\ m \in Seq(T) /\ DOMAIN l = 1 .. Len(l) /\ Len(l) \in Nat
        /\ DOMAIN m = 1 .. Len(l) + 1
        /\ m[Len(l) + 1] = e
        /\ \A i \in 1 .. Len(l) : m[i] = l[i]
    OBVIOUS
  <2> HIDE DEF m, e
  <2>3. ASSUME NEW f, Log!Stored(l, f) PROVE \E h \in 1 .. Len(l) : Log!SameEventID(f, m[h])
    BY <2>2, <2>3 DEF Log!Stored
  <2>4. DOMAIN l0 \subseteq DOMAIN m /\ \A i \in DOMAIN l0 : m[i] = l0[i]
    BY <2>2 DEF Appended
  <2>5. \A k \in 1 .. n + 1 : Log!Stored(m, batch[k])
    <3>1. Log!Stored(m, e)
      BY <2>2 DEF Log!Stored, Log!SameEventID
    <3>2. ASSUME NEW k \in 1 .. n PROVE Log!Stored(m, batch[k])
      <4>1. PICK h \in 1 .. Len(l) : Log!SameEventID(batch[k], m[h])
        BY <2>3 DEF Appended
      <4> QED BY <2>2, <4>1 DEF Log!Stored
    <3> QED BY <3>1, <3>2 DEF e
  <2>6. ASSUME NEW i \in DOMAIN m \ DOMAIN l0
        PROVE  \E k \in 1 .. n + 1 :
                 /\ m[i] = batch[k]
                 /\ \A j \in 1 .. k - 1 : \E h \in 1 .. i - 1 : Log!SameEventID(batch[j], m[h])
    <3>1. CASE i = Len(l) + 1
      <4>1. \A j \in 1 .. n : \E h \in 1 .. Len(l) : Log!SameEventID(batch[j], m[h])
        BY <2>3 DEF Appended
      <4>2. n + 1 \in 1 .. n + 1 /\ (n + 1) - 1 = n /\ i - 1 = Len(l) /\ m[i] = batch[n + 1]
        BY <2>2, <3>1 DEF e
      <4> QED BY <4>1, <4>2
    <3>2. CASE i # Len(l) + 1
      <4>1. i \in 1 .. Len(l) /\ i \in DOMAIN l \ DOMAIN l0
        BY <2>2, <2>6, <3>2
      <4>2. PICK k \in 1 .. n :
              /\ l[i] = batch[k]
              /\ \A j \in 1 .. k - 1 : \E h \in 1 .. i - 1 : Log!SameEventID(batch[j], l[h])
        BY <4>1 DEF Appended
      <4>3. m[i] = l[i] /\ \A h \in 1 .. i - 1 : m[h] = l[h]
        BY <2>2, <4>1
      <4>4. k \in 1 .. n + 1
        OBVIOUS
      <4> QED BY <4>2, <4>3, <4>4
    <3> QED BY <3>1, <3>2
  <2> QED BY <2>1, <2>2, <2>4, <2>5, <2>6 DEF Appended, e
<1> QED BY <1>1, <1>2

\* f[n] is the log after the first n facts of the batch.
Fills(f, m, l0, batch) ==
  f = [n \in 0 .. m |-> IF n = 0 THEN l0 ELSE Log!appendOne(f[n - 1], batch[n])]

\* There is such a function, whatever set V of logs the appends stay in.
LEMMA FillExists ==
  ASSUME NEW T, NEW V, NEW l0 \in V, NEW m \in Nat, NEW batch, \A n \in 1 .. m : batch[n] \in T,
         \A l \in V : \A e \in T : Log!appendOne(l, e) \in V
  PROVE  \E f : Fills(f, m, l0, batch)
<1> DEFINE step == [n \in 1 .. m |-> [l \in V |-> Log!appendOne(l, batch[n])]]
<1>1. step \in [1 .. m -> [V -> V]]
  OBVIOUS
<1>2. \A n \in 1 .. m : \A l \in V : step[n][l] = Log!appendOne(l, batch[n])
  OBVIOUS
<1> HIDE DEF step
<1>3. PICK g : Recurses(g, V, l0, m, step)
  <2>1. step \in StepsIn(V, m)
    BY <1>1 DEF StepsIn
  <2> QED BY <2>1, Recursion, Zenon
<1>4. \A n \in 1 .. m : g[n] = Log!appendOne(g[n - 1], batch[n])
  <2>1. \A n \in 1 .. m : n - 1 \in 0 .. m
    OBVIOUS
  <2> QED BY <1>2, <1>3, <2>1 DEF Recurses
<1>5. g = [n \in 0 .. m |-> IF n = 0 THEN l0 ELSE Log!appendOne(g[n - 1], batch[n])]
  BY <1>3, <1>4 DEF Recurses
<1> QED BY <1>5, Zenon DEF Fills

\* Its last log has the whole batch.
LEMMA FillAppends ==
  ASSUME NEW T, NEW l0 \in Seq(T), NEW m \in Nat, NEW batch, \A n \in 1 .. m : batch[n] \in T,
         NEW f, Fills(f, m, l0, batch)
  PROVE  f[m] \in Seq(T) /\ Appended(l0, f[m], batch, m)
<1> DEFINE V == Seq(T)
           Good(l, n) == l \in V /\ Appended(l0, l, batch, n)
           S == {n \in 0 .. m : Good(f[n], n)}
<1>0. ASSUME NEW l, NEW n \in Nat, Good(l, n), batch[n + 1] \in T
      PROVE  Good(Log!appendOne(l, batch[n + 1]), n + 1)
  BY <1>0, AppendNext, Zenon
<1>1. Good(l0, 0)
  <2>1. Appended(l0, l0, batch, 0)
    BY DEF Appended
  <2> QED BY <2>1
<1> HIDE DEF V, Good
<1>2. f[0] = l0 /\ \A n \in 1 .. m : f[n] = Log!appendOne(f[n - 1], batch[n])
  BY DEF Fills
<1>3. 0 \in S
  BY <1>1, <1>2
<1>4. ASSUME NEW n \in 0 .. m - 1, n \in S PROVE n + 1 \in S
  <2>1. n \in Nat /\ n + 1 \in 1 .. m /\ (n + 1) - 1 = n /\ n + 1 \in 0 .. m
    OBVIOUS
  <2>2. f[n + 1] = Log!appendOne(f[n], batch[n + 1])
    BY <1>2, <2>1
  <2>3. Good(f[n], n) /\ batch[n + 1] \in T
    BY <1>4, <2>1
  <2>4. Good(f[n + 1], n + 1)
    BY <1>0, <2>1, <2>2, <2>3, Zenon
  <2> QED BY <2>1, <2>4
<1>5. m \in S
  <2> HIDE DEF S
  <2>1. Inductive(S, m)
    BY <1>3, <1>4, Zenon DEF Inductive
  <2> QED BY <2>1, Induction, Zenon
<1> QED BY <1>5 DEF Good, V

\* What is in the log after an append, and in which order.
LEMMA AppendPreparedAppends ==
  ASSUME NEW T, NEW l0 \in Seq(T), NEW batch \in Seq(T)
  PROVE  /\ Log!appendPrepared(l0, batch) \in Seq(T)
         /\ Appended(l0, Log!appendPrepared(l0, batch), batch, Len(batch))
<1>1. Len(batch) \in Nat /\ \A n \in 1 .. Len(batch) : batch[n] \in T
  OBVIOUS
<1>2. PICK f : Fills(f, Len(batch), l0, batch) /\ Log!appendPrepared(l0, batch) = f[Len(batch)]
  <2>1. \E f : Fills(f, Len(batch), l0, batch)
    <3>1. \A l \in Seq(T) : \A e \in T : Log!appendOne(l, e) \in Seq(T)
      BY DEF Log!appendOne
    <3> QED BY <1>1, <3>1, FillExists, Zenon
  <2>2. Log!appendPrepared(l0, batch) = (CHOOSE f : Fills(f, Len(batch), l0, batch))[Len(batch)]
    BY Zenon DEF Log!appendPrepared, Fills
  <2> QED BY <2>1, <2>2, Zenon
<1>3. f[Len(batch)] \in Seq(T) /\ Appended(l0, f[Len(batch)], batch, Len(batch))
  BY <1>1, <1>2, FillAppends, Zenon
<1> QED BY <1>2, <1>3, Zenon

------------------------------------------------------------------------------
(* One fact.                                                               *)

\* Applying a fact gives a view again.
LEMMA ApplyKeepsType ==
  ASSUME NEW v \in View, NEW kind
  PROVE  Apply(v, kind) \in View
<1>1. ASSUME NEW w \in View, NEW next \in {"admitted", "rejected"}
      PROVE  mergeAdmission(w, next) \in View
  BY DEF mergeAdmission, View, AdmissionStatus
<1>2. ASSUME NEW w \in View, NEW next \in {"not_dispatched", "dispatched", "acknowledged"}
      PROVE  mergeDispatch(w, next) \in View
  BY DEF mergeDispatch, View, DispatchStatus
<1>3. ASSUME NEW w \in View, NEW next \in {"unverified", "satisfied", "unsatisfied"}
      PROVE  mergeEffect(w, next) \in View
  BY DEF mergeEffect, View, EffectStatus
<1>4. ASSUME NEW w \in View, NEW next \in VerificationStatus
      PROVE  [w EXCEPT !.verification = next] \in View
  BY DEF View
<1> QED BY <1>1, <1>2, <1>3, <1>4 DEF Apply, VerificationStatus

\* A new view is what no facts at all say.
LEMMA NewAttemptReflects ==
  NewAttempt \in View /\ Reflects(NewAttempt, {}) /\ Assesses(NewAttempt, {})
<1>1. NewAttempt \in View
  BY DEF NewAttempt, View, AdmissionStatus, DispatchStatus, EffectStatus, VerificationStatus
<1>2. Reflects(NewAttempt, {})
  <2>1. /\ ~AdmissionContradicted({}) /\ KnownAdmission({}) = "unknown"
        /\ ~DispatchContradicted({}) /\ KnownDispatch({}) = "unknown"
        /\ ~EffectContradicted({}) /\ KnownEffect({}) = "unknown"
    BY DEF KnownAdmission, KnownDispatch, KnownEffect, AdmissionContradicted,
       DispatchContradicted, EffectContradicted, SaysNotDispatched, SaysDispatched
  <2> QED BY <2>1 DEF Reflects, NewAttempt
<1>3. Assesses(NewAttempt, {})
  BY DEF Assesses, NewAttempt
<1> QED BY <1>1, <1>2, <1>3

\* If a view is what some kinds say, then after one more fact it is what they
\* and its kind say, whichever came first.
LEMMA ApplyReflects ==
  ASSUME NEW v \in View, NEW kinds, NEW kind, Reflects(v, kinds)
  PROVE  Reflects(Apply(v, kind), kinds \cup {kind})
<1> DEFINE w == Apply(v, kind)
<1> USE DEF Reflects, KnownAdmission, KnownDispatch, KnownEffect, AdmissionContradicted,
            DispatchContradicted, EffectContradicted, SaysNotDispatched, SaysDispatched,
            View, AdmissionStatus, DispatchStatus, EffectStatus
<1>1. CASE kind = "action_admitted"
  BY <1>1 DEF Apply, mergeAdmission
<1>2. CASE kind = "action_rejected"
  BY <1>2 DEF Apply, mergeAdmission, mergeDispatch
<1>3. CASE kind = "not_dispatched"
  BY <1>3 DEF Apply, mergeDispatch
<1>4. CASE kind = "action_dispatched"
  BY <1>4 DEF Apply, mergeDispatch
<1>5. CASE kind = "provider_acknowledged"
  BY <1>5 DEF Apply, mergeDispatch
<1>6. CASE kind = "effect_unverified"
  BY <1>6 DEF Apply, mergeEffect
<1>7. CASE kind = "effect_satisfied"
  BY <1>7 DEF Apply, mergeEffect
<1>8. CASE kind = "effect_unsatisfied"
  BY <1>8 DEF Apply, mergeEffect
<1>9. CASE kind \notin {"action_admitted", "action_rejected", "not_dispatched",
                        "action_dispatched", "provider_acknowledged", "effect_unverified",
                        "effect_satisfied", "effect_unsatisfied"}
  <2>1. /\ w.admission = v.admission /\ w.admissionConflicted = v.admissionConflicted
        /\ w.dispatch = v.dispatch /\ w.dispatchConflicted = v.dispatchConflicted
        /\ w.effect = v.effect /\ w.effectConflicted = v.effectConflicted
    BY <1>9 DEF Apply
  <2> HIDE DEF w
  <2>2. Reflects(w, kinds \cup {kind})
    BY <1>9, <2>1
  <2> QED BY <2>2 DEF w
<1> QED BY <1>1, <1>2, <1>3, <1>4, <1>5, <1>6, <1>7, <1>8, <1>9

\* The same for the assessment a view shows.
LEMMA ApplyAssesses ==
  ASSUME NEW v \in View, NEW kinds, NEW kind, Assesses(v, kinds)
  PROVE  Assesses(Apply(v, kind), kinds \cup {kind})
<1> DEFINE w == Apply(v, kind)
<1>1. CASE kind = "verification_verified"
  BY <1>1 DEF Apply, View, Assesses
<1>2. CASE kind = "verification_unsatisfied"
  BY <1>2 DEF Apply, View, Assesses
<1>3. CASE kind = "verification_inconclusive"
  BY <1>3 DEF Apply, View, VerificationStatus, Assesses
<1>4. CASE kind \notin {"verification_verified", "verification_unsatisfied",
                        "verification_inconclusive"}
  <2>1. w.verification = v.verification
    BY <1>4 DEF Apply, View, mergeAdmission, mergeDispatch, mergeEffect
  <2> HIDE DEF w
  <2>2. Assesses(w, kinds \cup {kind})
    BY <1>4, <2>1 DEF Assesses
  <2> QED BY <2>2 DEF w
<1> QED BY <1>1, <1>2, <1>3, <1>4

------------------------------------------------------------------------------
(* A list of facts.  m is its length: Len is kept out of the obligations   *)
(* that speak of functions whose domain begins at 0.                       *)

\* There is a function of the views after each prefix of the facts.
LEMMA ReplayExists ==
  ASSUME NEW m \in Nat, NEW kinds
  PROVE  \E f : f = [n \in 0 .. m |-> IF n = 0 THEN NewAttempt ELSE Apply(f[n - 1], kinds[n])]
<1> DEFINE step == [n \in 1 .. m |-> [v \in View |-> Apply(v, kinds[n])]]
<1>1. step \in [1 .. m -> [View -> View]]
  BY ApplyKeepsType
<1>2. \A n \in 1 .. m : \A v \in View : step[n][v] = Apply(v, kinds[n])
  OBVIOUS
<1> HIDE DEF step
<1>3. PICK g : Recurses(g, View, NewAttempt, m, step)
  <2>1. step \in StepsIn(View, m)
    BY <1>1, Zenon DEF StepsIn
  <2> QED BY <2>1, NewAttemptReflects, Recursion, Zenon
<1>4. \A n \in 1 .. m : g[n] = Apply(g[n - 1], kinds[n])
  <2>1. \A n \in 1 .. m : n - 1 \in 0 .. m
    OBVIOUS
  <2> QED BY <1>2, <1>3, <2>1 DEF Recurses
<1>5. g = [n \in 0 .. m |-> IF n = 0 THEN NewAttempt ELSE Apply(g[n - 1], kinds[n])]
  BY <1>3, <1>4 DEF Recurses
<1> QED BY <1>5, Zenon

\* Each of those views is what the facts up to there say.
LEMMA ReplayReflects ==
  ASSUME NEW m \in Nat, NEW kinds, NEW f,
         f = [n \in 0 .. m |-> IF n = 0 THEN NewAttempt ELSE Apply(f[n - 1], kinds[n])]
  PROVE  LET said == {kinds[i] : i \in 1 .. m}
         IN f[m] \in View /\ Reflects(f[m], said) /\ Assesses(f[m], said)
<1> DEFINE said(n) == {kinds[i] : i \in 1 .. n}
           S == {n \in 0 .. m : f[n] \in View /\ Reflects(f[n], said(n)) /\ Assesses(f[n], said(n))}
<1>1. f[0] = NewAttempt /\ \A n \in 1 .. m : f[n] = Apply(f[n - 1], kinds[n])
  OBVIOUS
<1>2. 0 \in S
  <2>1. said(0) = {} /\ 0 \in 0 .. m
    OBVIOUS
  <2> HIDE DEF said
  <2> QED BY <1>1, <2>1, NewAttemptReflects
<1>3. ASSUME NEW n \in 0 .. m - 1, n \in S PROVE n + 1 \in S
  <2>1. n + 1 \in 1 .. m /\ (n + 1) - 1 = n /\ n + 1 \in 0 .. m
    OBVIOUS
  <2>2. said(n + 1) = said(n) \cup {kinds[n + 1]}
    <3>1. 1 .. n + 1 = (1 .. n) \cup {n + 1}
      OBVIOUS
    <3> QED BY <3>1
  <2>3. f[n + 1] = Apply(f[n], kinds[n + 1])
    BY <1>1, <2>1
  <2>4. f[n] \in View /\ Reflects(f[n], said(n)) /\ Assesses(f[n], said(n))
    BY <1>3
  <2> HIDE DEF said
  <2> DEFINE v == f[n]
             k == kinds[n + 1]
  <2>5. v \in View /\ Reflects(v, said(n)) /\ Assesses(v, said(n))
    BY <2>4
  <2> HIDE DEF v, k
  <2>6. /\ Apply(v, k) \in View
        /\ Reflects(Apply(v, k), said(n) \cup {k})
        /\ Assesses(Apply(v, k), said(n) \cup {k})
    BY <2>5, ApplyKeepsType, ApplyReflects, ApplyAssesses, Zenon
  <2>7. f[n + 1] \in View /\ Reflects(f[n + 1], said(n + 1)) /\ Assesses(f[n + 1], said(n + 1))
    BY <2>2, <2>3, <2>6, Zenon DEF v, k
  <2> QED BY <2>1, <2>7
<1>4. m \in S
  <2> HIDE DEF S
  <2>1. Inductive(S, m)
    BY <1>2, <1>3, Zenon DEF Inductive
  <2> QED BY <2>1, Induction, Zenon
<1> QED BY <1>4

(* For every list of facts, in any order and with any repetitions, the     *)
(* view GetAttempt rebuilds has the admission, dispatch, effect and        *)
(* conflict marks that the kinds of those facts say, and shows a           *)
(* conclusive assessment if one of them is.                                *)
THEOREM ReplayIsOrderFree ==
  ASSUME NEW T, NEW kinds \in Seq(T)
  PROVE  LET said == {kinds[i] : i \in DOMAIN kinds}
         IN /\ Replay(kinds) \in View
            /\ Reflects(Replay(kinds), said)
            /\ Assesses(Replay(kinds), said)
<1>1. Len(kinds) \in Nat /\ DOMAIN kinds = 1 .. Len(kinds)
  OBVIOUS
<1>2. PICK f : /\ f = [n \in 0 .. Len(kinds) |-> IF n = 0 THEN NewAttempt
                                                ELSE Apply(f[n - 1], kinds[n])]
               /\ Replay(kinds) = f[Len(kinds)]
  BY <1>1, ReplayExists, Zenon DEF Replay
<1>3. LET said == {kinds[i] : i \in 1 .. Len(kinds)}
      IN /\ f[Len(kinds)] \in View
         /\ Reflects(f[Len(kinds)], said)
         /\ Assesses(f[Len(kinds)], said)
  BY <1>1, <1>2, ReplayReflects, Zenon
<1> QED BY <1>1, <1>2, <1>3, Zenon
==============================================================================
