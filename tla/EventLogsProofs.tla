---------------------------- MODULE EventLogsProofs ----------------------------
(***************************************************************************)
(* Both event logs implement JournalService for any number of callers,     *)
(* processes and operations: every step of an operation is nothing to its  *)
(* caller, or the one instant at which the operation takes effect and its  *)
(* answer is fixed.  That claims are whole, and that reads follow the      *)
(* append order, are then properties of those instants.                    *)
(***************************************************************************)
EXTENDS EventLogs, ReplayProofs, FiniteSetTheorems

------------------------------------------------------------------------------
(* The inductive invariant.                                                *)

LogRows ==
  [actions : [ActionIDs -> Intents \cup {NoIntent}], attempts : Seq(AttemptIDs), events : Seq(Facts)]

WritePCs == {"insert_attempt", "duplicate", "insert_events", "commit", "rollback"}
ConnectedPCs == WritePCs \cup {"insert_action", "query", "rows"}
MemoryPCs == {"idle", "enter", "lock", "done"}
SqlitePCs == {"idle", "connect", "done", "crashed"} \cup ConnectedPCs
EndPCs == {"rollback", "done", "crashed"}
Statuses == {"none", "claimed", "duplicate", "conflict", "ok", "read", "error"}

\* The first n facts of an operation.
FirstFacts(o, n) == {o.events[k] : k \in 1 .. n}

\* No EventID is used for two different facts of B, or of F and B.
Accepts(F, B) == \A e \in B : \A f \in F \cup B : EL!SameEventID(e, f) => e = f

Continues(s, t) == DOMAIN s \subseteq DOMAIN t /\ \A i \in DOMAIN s : t[i] = s[i]

\* r are the rows before, w the rows when the first n facts of o are in.
Filled(r, w, o, n) ==
  /\ Continues(r.events, w.events)
  /\ ToSet(w.events) = ToSet(r.events) \cup FirstFacts(o, n)
  /\ Accepts(ToSet(r.events), FirstFacts(o, n))

\* w has the intent of o, under an ActionID that was free or had it already.
Registers(r, w, o) ==
  /\ r.actions[o.action.id] \in {NoIntent, o.action.intent}
  /\ w.actions = [r.actions EXCEPT ![o.action.id] = o.action.intent]

\* w has the attempt of o as well, which was not claimed.
Claiming(r, w, o) ==
  /\ Registers(r, w, o)
  /\ o.attemptID \notin ToSet(r.attempts)
  /\ w.attempts = Append(r.attempts, o.attemptID)

\* What w has besides facts.
Prepared(r, w, o) ==
  IF o.kind = "begin" THEN Claiming(r, w, o)
  ELSE o.kind = "append" /\ w.actions = r.actions /\ w.attempts = r.attempts

TypeInv ==
  /\ backend \in Backends
  /\ rows \in LogRows /\ work \in LogRows
  /\ DOMAIN op = Requests /\ \A c \in Requests : op[c] \in Operations[c]
  /\ pc \in [Requests -> MemoryPCs \cup SqlitePCs]
  /\ DOMAIN answer = Requests
  /\ \A c \in Requests :
       answer[c] = [status |-> answer[c].status, result |-> answer[c].result]
         /\ answer[c].status \in Statuses
  /\ conn \in [Processes -> SUBSET Requests]
  /\ writer \in SUBSET Requests
  /\ next \in [Requests -> Nat]

\* Who holds the connection of a process and who the write lock.
HoldInv ==
  /\ backend = "memory" => \A c \in Requests : pc[c] \in MemoryPCs
  /\ backend = "sqlite" => \A c \in Requests : pc[c] \in SqlitePCs
  /\ \A p \in Processes : \A c \in conn[p] : Process[c] = p
  /\ \A p \in Processes : \A c, d \in conn[p] : c = d
  /\ \A c \in Requests : c \in conn[Process[c]] <=> pc[c] \in ConnectedPCs
  /\ \A c \in writer : pc[c] \in WritePCs
  /\ \A c, d \in writer : c = d

\* How far the transaction of c is.
Transaction(c) ==
  /\ pc[c] \notin EndPCs => answer[c] = NoAnswer
  /\ pc[c] = "rollback" => answer[c].status \in {"conflict", "error"}
  /\ pc[c] \in {"idle", "connect", "insert_action", "insert_attempt"} => next[c] = 1
  /\ pc[c] = "insert_action" => op[c].kind = "begin"
  /\ pc[c] = "insert_attempt" =>
       /\ op[c].kind = "begin" /\ c \in writer
       /\ Registers(rows, work, op[c])
       /\ work.attempts = rows.attempts /\ work.events = rows.events
  /\ pc[c] = "duplicate" =>
       /\ op[c].kind = "begin"
       /\ rows.actions[op[c].action.id] \in {NoIntent, op[c].action.intent}
       /\ op[c].attemptID \in ToSet(rows.attempts)
       /\ c \in writer
  /\ pc[c] \in {"insert_events", "commit"} =>
       /\ c \in writer \/ (pc[c] = "insert_events" /\ next[c] = 1)
       /\ Filled(rows, IF c \in writer THEN work ELSE rows, op[c], next[c] - 1)
       /\ Prepared(rows, IF c \in writer THEN work ELSE rows, op[c])
  /\ pc[c] = "insert_events" => next[c] \in 1 .. Len(op[c].events)
  /\ pc[c] = "commit" => next[c] = Len(op[c].events) + 1
  /\ pc[c] \in {"query", "rows"} => op[c].kind \in {"events", "action", "attempts"}

LInv == TypeInv /\ HoldInv /\ \A c \in Requests : Transaction(c)

------------------------------------------------------------------------------
(* What the callers ask for.                                               *)

\* Every operation is a valid one.
LEMMA OperationIsValid ==
  ASSUME TypeInv, NEW c \in Requests
  PROVE  ValidOperation(op[c])
BY OperationsAssumption DEF TypeInv

\* The fields of an operation.
LEMMA OperationFields ==
  ASSUME TypeInv, NEW c \in Requests
  PROVE  /\ op[c].kind \in {"begin", "append", "events", "action", "attempts"}
         /\ op[c].action.id \in ActionIDs /\ op[c].action.intent \in Intents
         /\ op[c].attemptID \in AttemptIDs
         /\ op[c].events \in Seq(Facts)
         /\ op[c].kind \in {"begin", "append"} => op[c].events # <<>>
<1>1. op[c].action \in Action
  BY OperationIsValid DEF ValidOperation
<1>2. op[c].action.id \in ActionIDs /\ op[c].action.intent \in Intents
  BY <1>1 DEF Action
<1> QED BY <1>2, OperationIsValid DEF ValidOperation

\* A fact has its five fields and no others.
LEMMA FactIsRecord ==
  ASSUME NEW e \in Facts
  PROVE  /\ e = [actionID |-> e.actionID, attemptID |-> e.attemptID, kind |-> e.kind,
                 qualifier |-> e.qualifier, content |-> e.content]
         /\ e.kind \in EventKind
<1>1. PICK o : (\E c \in Requests : o \in Operations[c]) /\ e \in ToSet(o.events)
  BY DEF Facts
<1>2. ValidOperation(o)
  BY <1>1, OperationsAssumption
<1> QED BY <1>1, <1>2 DEF ValidOperation

\* equal compares all of them.
LEMMA EqualFacts ==
  ASSUME NEW e \in Facts, NEW f \in Facts
  PROVE  EL!equal(e, f) <=> e = f
<1>1. ASSUME EL!equal(e, f) PROVE e = f
  <2>1. /\ e.actionID = f.actionID /\ e.attemptID = f.attemptID /\ e.kind = f.kind
        /\ e.qualifier = f.qualifier /\ e.content = f.content
    BY <1>1 DEF EL!equal, EL!SameEventID
  <2> QED BY <2>1, FactIsRecord, Zenon
<1>2. ASSUME e = f PROVE EL!equal(e, f)
  BY <1>2 DEF EL!equal, EL!SameEventID
<1> QED BY <1>1, <1>2

------------------------------------------------------------------------------
(* One fact after the other, and all at once.                              *)

\* One fact more.
LEMMA FirstFactsNext ==
  ASSUME NEW o, NEW n \in Nat
  PROVE  FirstFacts(o, n + 1) = FirstFacts(o, n) \cup {o.events[n + 1]}
<1>1. 1 .. n + 1 = (1 .. n) \cup {n + 1}
  OBVIOUS
<1> QED BY <1>1 DEF FirstFacts

\* All facts.
LEMMA AllFacts ==
  ASSUME NEW o, o.events \in Seq(Facts)
  PROVE  /\ FirstFacts(o, Len(o.events)) = ToSet(o.events)
         /\ ToSet(o.events) \subseteq Facts
         /\ \A n \in 0 .. Len(o.events) : FirstFacts(o, n) \subseteq ToSet(o.events)
BY DEF FirstFacts, ToSet

\* What Append does to the set of a list.
LEMMA AppendToSet ==
  ASSUME NEW T, NEW s \in Seq(T), NEW e \in T
  PROVE  /\ Append(s, e) \in Seq(T)
         /\ ToSet(Append(s, e)) = ToSet(s) \cup {e}
         /\ Continues(s, Append(s, e))
<1>1. /\ Append(s, e) \in Seq(T)
      /\ DOMAIN Append(s, e) = DOMAIN s \cup {Len(s) + 1}
      /\ Append(s, e)[Len(s) + 1] = e
      /\ \A i \in DOMAIN s : Append(s, e)[i] = s[i]
  OBVIOUS
<1> QED BY <1>1 DEF ToSet, Continues

\* Before the first fact nothing has changed.
LEMMA NothingFilled ==
  ASSUME NEW r, NEW o
  PROVE  Filled(r, r, o, 0)
<1>1. FirstFacts(o, 0) = {}
  BY DEF FirstFacts
<1> QED BY <1>1 DEF Filled, Accepts, Continues

\* v is w after the INSERT OR IGNORE of e, which contradicts no other fact.
Inserts(w, v, e) ==
  /\ \A f \in ToSet(w.events) : EL!SameEventID(e, f) => EL!equal(e, f)
  /\ v = IF \E f \in ToSet(w.events) : EL!SameEventID(e, f) THEN w
         ELSE [w EXCEPT !.events = Append(@, e)]

\* The next fact is inserted.
LEMMA FillNext ==
  ASSUME NEW r \in LogRows, NEW w \in LogRows, NEW o, o.events \in Seq(Facts),
         NEW n \in Nat, n < Len(o.events), Filled(r, w, o, n),
         NEW v, Inserts(w, v, o.events[n + 1])
  PROVE  /\ v \in LogRows /\ v.actions = w.actions /\ v.attempts = w.attempts
         /\ Filled(r, v, o, n + 1)
<1> DEFINE e == o.events[n + 1]
           B == FirstFacts(o, n)
           F == ToSet(r.events)
<1>1. e \in Facts /\ w.events \in Seq(Facts) /\ r.events \in Seq(Facts)
  BY DEF LogRows
<1>2. B \subseteq Facts /\ F \subseteq Facts /\ ToSet(w.events) = F \cup B
  <2>1. F \subseteq Facts
    BY <1>1 DEF ToSet
  <2>2. B \subseteq Facts
    BY AllFacts
  <2> QED BY <2>1, <2>2 DEF Filled
<1>3. FirstFacts(o, n + 1) = B \cup {e}
  BY FirstFactsNext
<1>4. \A f \in F \cup B : EL!SameEventID(e, f) => e = f
  BY <1>1, <1>2, EqualFacts DEF Inserts
<1>5. Accepts(F, B)
  BY DEF Filled
<1> HIDE DEF e, B, F
<1>6. Accepts(F, B \cup {e})
  <2>1. \A f \in F \cup B : EL!SameEventID(f, e) => f = e
    BY <1>4 DEF EL!SameEventID
  <2> QED BY <1>4, <1>5, <2>1 DEF Accepts
<1>7. CASE \E f \in ToSet(w.events) : EL!SameEventID(e, f)
  <2>1. v = w
    BY <1>7 DEF e, Inserts
  <2>2. e \in F \cup B
    BY <1>2, <1>4, <1>7
  <2>3. ToSet(v.events) = F \cup (B \cup {e})
    BY <1>2, <2>1, <2>2
  <2> QED BY <1>3, <1>6, <2>1, <2>3 DEF Filled, F
<1>8. CASE ~\E f \in ToSet(w.events) : EL!SameEventID(e, f)
  <2>1. v = [w EXCEPT !.events = Append(@, e)]
    BY <1>8 DEF e, Inserts
  <2>2. /\ v.actions = w.actions /\ v.attempts = w.attempts /\ v.events = Append(w.events, e)
        /\ v = [actions |-> w.actions, attempts |-> w.attempts, events |-> Append(w.events, e)]
    BY <2>1 DEF LogRows
  <2>3. /\ Append(w.events, e) \in Seq(Facts)
        /\ ToSet(Append(w.events, e)) = ToSet(w.events) \cup {e}
        /\ Continues(w.events, Append(w.events, e))
    BY <1>1, AppendToSet, Zenon
  <2>4. v \in LogRows
    BY <2>2, <2>3 DEF LogRows
  <2>5. Continues(r.events, v.events)
    BY <2>2, <2>3 DEF Filled, Continues
  <2>6. ToSet(v.events) = F \cup (B \cup {e})
    BY <1>2, <2>2, <2>3
  <2> QED BY <1>3, <1>6, <2>2, <2>4, <2>5, <2>6 DEF Filled, F
<1> QED BY <1>7, <1>8

\* A fact that contradicts another makes the whole batch unacceptable.
LEMMA FillConflict ==
  ASSUME NEW r \in LogRows, NEW w \in LogRows, NEW o, o.events \in Seq(Facts),
         NEW n \in Nat, n < Len(o.events), Filled(r, w, o, n),
         NEW f \in ToSet(w.events), EL!SameEventID(o.events[n + 1], f),
         ~EL!equal(o.events[n + 1], f)
  PROVE  ~Accepts(ToSet(r.events), ToSet(o.events))
<1> DEFINE e == o.events[n + 1]
<1>1. e \in ToSet(o.events)
  BY DEF ToSet
<1>2. f \in ToSet(r.events) \cup ToSet(o.events)
  BY AllFacts DEF Filled
<1>3. e # f
  BY DEF EL!equal
<1> QED BY <1>1, <1>2, <1>3 DEF Accepts

\* The memory log accepts the same batches.
LEMMA PreflightAccepts ==
  ASSUME NEW r \in LogRows, NEW o, o.events \in Seq(Facts)
  PROVE  EL!preflight(r.events, o.events) <=> Accepts(ToSet(r.events), ToSet(o.events))
<1> DEFINE F == ToSet(r.events)
           B == ToSet(o.events)
<1>1. F \subseteq Facts /\ B \subseteq Facts
  BY DEF LogRows, ToSet
<1>2. EL!preflight(r.events, o.events) <=>
        \A e \in B : /\ \A f \in F : EL!SameEventID(e, f) => EL!equal(e, f)
                     /\ \A f \in B : EL!SameEventID(e, f) => EL!equal(e, f)
  BY DEF EL!preflight, ToSet
<1> HIDE DEF F, B
<1>3. \A e \in B : \A f \in F \cup B : EL!equal(e, f) <=> e = f
  BY <1>1, EqualFacts
<1>4. EL!preflight(r.events, o.events) <=> Accepts(F, B)
  BY <1>2, <1>3 DEF Accepts
<1> QED BY <1>4 DEF F, B

\* appendPrepared of an acceptable batch gives the same rows as one fact after
\* the other.
LEMMA FillAll ==
  ASSUME NEW r \in LogRows, NEW o, o.events \in Seq(Facts),
         Accepts(ToSet(r.events), ToSet(o.events)),
         NEW w, w.events = EL!appendPrepared(r.events, o.events)
  PROVE  w.events \in Seq(Facts) /\ Filled(r, w, o, Len(o.events))
<1> DEFINE l == r.events
           m == w.events
           batch == o.events
           F == ToSet(l)
           B == ToSet(batch)
<1>1. l \in Seq(Facts)
  BY DEF LogRows
<1>2. m = Log!appendPrepared(l, batch)
  BY Zenon DEF EL!appendPrepared, EL!appendOne, EL!Stored, EL!SameEventID, Log!appendPrepared,
     Log!appendOne, Log!Stored, Log!SameEventID
<1>3. m \in Seq(Facts) /\ Appended(l, m, batch, Len(batch))
  BY <1>1, <1>2, AppendPreparedAppends, Zenon
<1>4. DOMAIN batch = 1 .. Len(batch)
  OBVIOUS
<1>5. FirstFacts(o, Len(batch)) = B
  BY AllFacts
<1> HIDE DEF l, m, batch
<1>6. Continues(l, m)
  BY <1>3 DEF Appended, Continues
<1>7. ASSUME NEW i \in DOMAIN m PROVE m[i] \in F \cup B
  BY <1>3, <1>4 DEF Appended, ToSet
<1>8. F \subseteq ToSet(m)
  BY <1>6 DEF Continues, ToSet
<1>9. ASSUME NEW k \in DOMAIN batch PROVE batch[k] \in ToSet(m)
  <2>1. PICK h \in DOMAIN m : Log!SameEventID(batch[k], m[h])
    BY <1>3, <1>4 DEF Appended, Log!Stored
  <2>2. batch[k] \in B
    BY DEF ToSet
  <2>3. EL!SameEventID(batch[k], m[h])
    BY <2>1 DEF Log!SameEventID, EL!SameEventID
  <2>4. batch[k] = m[h]
    BY <1>7, <2>2, <2>3 DEF Accepts, l, batch
  <2> QED BY <2>4 DEF ToSet
<1>10. ToSet(m) = F \cup B
  BY <1>7, <1>8, <1>9 DEF ToSet
<1> QED BY <1>3, <1>5, <1>6, <1>10 DEF Filled, l, m, batch

------------------------------------------------------------------------------
(* EventsByAttempt.                                                        *)

\* The positions up to n of the facts of an attempt.
PositionsOf(l, id, n) == {k \in 1 .. n : l[k].attemptID = id}

\* f[n] is what has been selected after n facts.
Selects(f, m, l, id) ==
  f = [n \in 0 .. m |-> IF n = 0 THEN <<>>
                        ELSE IF l[n].attemptID = id THEN Append(f[n - 1], l[n])
                        ELSE f[n - 1]]

\* One fact more, of this attempt.
LEMMA ListsNext ==
  ASSUME NEW T, NEW s \in Seq(T), NEW l, NEW n \in Nat, l[n + 1] \in T, NEW ks, ks \subseteq 1 .. n,
         Lists(s, l, ks)
  PROVE  Append(s, l[n + 1]) \in Seq(T) /\ Lists(Append(s, l[n + 1]), l, ks \cup {n + 1})
<1> DEFINE t == Append(s, l[n + 1])
           m == Len(s) + 1
<1>1. /\ t \in Seq(T) /\ DOMAIN s = 1 .. Len(s) /\ Len(s) \in Nat /\ DOMAIN t = 1 .. m
      /\ DOMAIN t = DOMAIN s \cup {m} /\ m \notin DOMAIN s
      /\ t[m] = l[n + 1] /\ \A i \in DOMAIN s : t[i] = s[i]
  OBVIOUS
<1> HIDE DEF t
<1>2. PICK at \in [DOMAIN s -> ks] :
        /\ \A i \in DOMAIN s : s[i] = l[at[i]]
        /\ \A i, j \in DOMAIN s : i < j => at[i] < at[j]
        /\ \A k \in ks : \E i \in DOMAIN s : at[i] = k
  BY DEF Lists
<1> DEFINE to == [i \in DOMAIN t |-> IF i = m THEN n + 1 ELSE at[i]]
<1>3. to \in [DOMAIN t -> ks \cup {n + 1}]
  BY <1>1, <1>2
<1>4. to[m] = n + 1 /\ \A i \in DOMAIN s : to[i] = at[i] /\ to[i] \in ks
  BY <1>1, <1>2
<1> HIDE DEF to
<1>5. \A i \in DOMAIN t : t[i] = l[to[i]]
  BY <1>1, <1>2, <1>4
<1>6. ASSUME NEW i \in DOMAIN t, NEW j \in DOMAIN t, i < j PROVE to[i] < to[j]
  <2>1. i \in DOMAIN s
    BY <1>1, <1>6
  <2>2. CASE j \in DOMAIN s
    BY <1>2, <1>4, <1>6, <2>1, <2>2
  <2>3. CASE j = m
    <3>1. to[i] \in 1 .. n
      BY <1>4, <2>1
    <3> QED BY <1>4, <2>3, <3>1
  <2> QED BY <1>1, <2>2, <2>3
<1>7. \A k \in ks \cup {n + 1} : \E i \in DOMAIN t : to[i] = k
  BY <1>1, <1>2, <1>4
<1>8. Lists(t, l, ks \cup {n + 1})
  BY <1>3, <1>5, <1>6, <1>7, Zenon DEF Lists
<1> QED BY <1>1, <1>8 DEF t

\* There is such a function, and its last list has the facts of the attempt in
\* their order.  Seq and Append are hidden where functions begin at 0.
LEMMA SelectionLists ==
  ASSUME NEW T, NEW m \in Nat, NEW l, NEW id, \A n \in 1 .. m : l[n] \in T
  PROVE  /\ \E f : Selects(f, m, l, id)
         /\ \A f : Selects(f, m, l, id) => f[m] \in Seq(T) /\ Lists(f[m], l, PositionsOf(l, id, m))
<1> DEFINE V == Seq(T)
           app(s, e) == Append(s, e)
           empty == <<>>
<1>1. empty \in V
  OBVIOUS
<1>2. Lists(empty, l, {})
  <2> DEFINE at == [i \in {} |-> 0]
  <2>1. at \in [{} -> {}]
    OBVIOUS
  <2>2. DOMAIN empty = {}
    OBVIOUS
  <2> QED BY <2>1, <2>2, Zenon DEF Lists
<1>3. \A s \in V : \A e \in T : app(s, e) \in V
  OBVIOUS
<1>4. ASSUME NEW s \in V, NEW n \in Nat, l[n + 1] \in T, NEW ks, ks \subseteq 1 .. n, Lists(s, l, ks)
      PROVE  app(s, l[n + 1]) \in V /\ Lists(app(s, l[n + 1]), l, ks \cup {n + 1})
  BY <1>4, ListsNext, Zenon
<1> HIDE DEF V, app, empty
<1> DEFINE step == [n \in 1 .. m |-> [s \in V |-> IF l[n].attemptID = id THEN app(s, l[n]) ELSE s]]
<1>5. step \in [1 .. m -> [V -> V]]
  BY <1>3
<1>6. \A n \in 1 .. m : \A s \in V : step[n][s] = IF l[n].attemptID = id THEN app(s, l[n]) ELSE s
  OBVIOUS
<1> HIDE DEF step
<1>7. PICK g : Recurses(g, V, empty, m, step)
  <2>1. step \in StepsIn(V, m)
    BY <1>5, Zenon DEF StepsIn
  <2> QED BY <1>1, <2>1, Recursion, Zenon
<1>8. \A n \in 1 .. m : g[n] = IF l[n].attemptID = id THEN app(g[n - 1], l[n]) ELSE g[n - 1]
  <2>1. \A n \in 1 .. m : n - 1 \in 0 .. m
    OBVIOUS
  <2> QED BY <1>6, <1>7, <2>1 DEF Recurses
<1>9. g = [n \in 0 .. m |-> IF n = 0 THEN empty
                            ELSE IF l[n].attemptID = id THEN app(g[n - 1], l[n]) ELSE g[n - 1]]
  BY <1>7, <1>8 DEF Recurses
<1>10. ASSUME NEW f, f = [n \in 0 .. m |->
                           IF n = 0 THEN empty
                           ELSE IF l[n].attemptID = id THEN app(f[n - 1], l[n]) ELSE f[n - 1]]
       PROVE  f[m] \in V /\ Lists(f[m], l, PositionsOf(l, id, m))
  <2> DEFINE S == {n \in 0 .. m : f[n] \in V /\ Lists(f[n], l, PositionsOf(l, id, n))}
  <2>1. /\ f[0] = empty
        /\ \A n \in 1 .. m : f[n] = IF l[n].attemptID = id THEN app(f[n - 1], l[n]) ELSE f[n - 1]
    BY <1>10
  <2>2. 0 \in S
    <3>1. PositionsOf(l, id, 0) = {} /\ 0 \in 0 .. m
      BY DEF PositionsOf
    <3> QED BY <1>1, <1>2, <2>1, <3>1
  <2>3. ASSUME NEW n \in 0 .. m - 1, n \in S PROVE n + 1 \in S
    <3> DEFINE ks == PositionsOf(l, id, n)
    <3>1. n \in Nat /\ n + 1 \in 1 .. m /\ (n + 1) - 1 = n /\ n + 1 \in 0 .. m
      OBVIOUS
    <3>2. f[n] \in V /\ Lists(f[n], l, ks)
      BY <2>3
    <3>3. ks \subseteq 1 .. n
      BY DEF PositionsOf
    <3>4. PositionsOf(l, id, n + 1) = IF l[n + 1].attemptID = id THEN ks \cup {n + 1} ELSE ks
      <4>1. 1 .. n + 1 = (1 .. n) \cup {n + 1}
        OBVIOUS
      <4> QED BY <4>1 DEF PositionsOf
    <3>5. f[n + 1] = IF l[n + 1].attemptID = id THEN app(f[n], l[n + 1]) ELSE f[n]
      BY <2>1, <3>1
    <3> HIDE DEF ks
    <3>6. CASE l[n + 1].attemptID = id
      <4>1. app(f[n], l[n + 1]) \in V /\ Lists(app(f[n], l[n + 1]), l, ks \cup {n + 1})
        <5>1. l[n + 1] \in T
          BY <3>1
        <5> QED BY <1>4, <3>1, <3>2, <3>3, <5>1, Zenon
      <4>2. f[n + 1] \in V /\ Lists(f[n + 1], l, PositionsOf(l, id, n + 1))
        BY <3>4, <3>5, <3>6, <4>1
      <4> QED BY <3>1, <4>2
    <3>7. CASE l[n + 1].attemptID # id
      <4>1. f[n + 1] \in V /\ Lists(f[n + 1], l, PositionsOf(l, id, n + 1))
        BY <3>2, <3>4, <3>5, <3>7
      <4> QED BY <3>1, <4>1
    <3> QED BY <3>6, <3>7
  <2>4. m \in S
    <3> HIDE DEF S
    <3>1. Inductive(S, m)
      BY <2>2, <2>3, Zenon DEF Inductive
    <3> QED BY <3>1, Induction, Zenon
  <2> QED BY <2>4
<1> QED BY <1>9, <1>10, Zenon DEF Selects, V, app, empty

\* EventsByAttempt returns the facts of the attempt in the order of the log.
LEMMA EventsByAttemptLists ==
  ASSUME NEW T, NEW l \in Seq(T), NEW id
  PROVE  /\ EL!eventsByAttempt(l, id) \in Seq(T)
         /\ Lists(EL!eventsByAttempt(l, id), l, PositionsOf(l, id, Len(l)))
<1>1. Len(l) \in Nat /\ \A n \in 1 .. Len(l) : l[n] \in T
  OBVIOUS
<1>2. /\ \E f : Selects(f, Len(l), l, id)
      /\ \A f : Selects(f, Len(l), l, id) =>
           f[Len(l)] \in Seq(T) /\ Lists(f[Len(l)], l, PositionsOf(l, id, Len(l)))
  BY <1>1, SelectionLists, Zenon
<1>3. EL!eventsByAttempt(l, id) = (CHOOSE f : Selects(f, Len(l), l, id))[Len(l)]
  BY Zenon DEF EL!eventsByAttempt, Selects
<1> QED BY <1>2, <1>3, Zenon

\* A list in the order of a log stays one when the log grows.
LEMMA ListsContinues ==
  ASSUME NEW s, NEW l, NEW m, Continues(l, m), NEW ks, ks \subseteq DOMAIN l, Lists(s, l, ks)
  PROVE  Lists(s, m, ks)
<1>1. PICK at \in [DOMAIN s -> ks] :
        /\ \A i \in DOMAIN s : s[i] = l[at[i]]
        /\ \A i, j \in DOMAIN s : i < j => at[i] < at[j]
        /\ \A k \in ks : \E i \in DOMAIN s : at[i] = k
  BY DEF Lists
<1>2. \A i \in DOMAIN s : s[i] = m[at[i]]
  BY <1>1 DEF Continues
<1> QED BY <1>1, <1>2 DEF Lists

\* What a list holds: the facts at those positions.
LEMMA ListsSet ==
  ASSUME NEW s, NEW l, NEW ks, Lists(s, l, ks)
  PROVE  ToSet(s) = {l[k] : k \in ks}
<1>1. PICK at \in [DOMAIN s -> ks] :
        /\ \A i \in DOMAIN s : s[i] = l[at[i]]
        /\ \A k \in ks : \E i \in DOMAIN s : at[i] = k
  BY DEF Lists
<1> QED BY <1>1 DEF ToSet

------------------------------------------------------------------------------
(* What a step of an operation is to the callers: nothing, or its one      *)
(* instant.                                                                *)

Answers(c, status, result) ==
  /\ answer[c] = NoAnswer
  /\ answer' = [answer EXCEPT ![c] = [status |-> status, result |-> result]]

\* All of the operation is stored.
Stores(c) ==
  /\ rows' \in LogRows
  /\ Filled(rows, rows', op[c], Len(op[c].events))
  /\ Prepared(rows, rows', op[c])

Registrable(c) == rows.actions[op[c].action.id] \in {NoIntent, op[c].action.intent}

\* The journal refuses the operation.
Conflicts(c) ==
  \/ op[c].kind = "begin" /\ ~Registrable(c)
  \/ /\ \/ op[c].kind = "append"
        \/ op[c].kind = "begin" /\ Registrable(c) /\ op[c].attemptID \notin ToSet(rows.attempts)
     /\ ~Accepts(ToSet(rows.events), ToSet(op[c].events))

\* The attempt has been claimed.
Duplicates(c) ==
  op[c].kind = "begin" /\ Registrable(c) /\ op[c].attemptID \in ToSet(rows.attempts)

Linearizes(c) ==
  \/ Stores(c) /\ Answers(c, IF op[c].kind = "begin" THEN "claimed" ELSE "ok", {})
  \/ (Stores(c) \/ rows' = rows) /\ Answers(c, "error", {})
  \/ rows' = rows /\ Conflicts(c) /\ Answers(c, "conflict", {})
  \/ rows' = rows /\ Duplicates(c) /\ Answers(c, "duplicate", {})
  \/ /\ rows' = rows /\ op[c].kind \in {"events", "action", "attempts"}
     /\ Answers(c, "read", ReadResult(c))

\* What becomes of an invariant when c moves to label.
Moves(c, label) == pc' = [pc EXCEPT ![c] = label] /\ UNCHANGED <<backend, op>>

\* The answer is one of the known ones, and only c gets it.
LEMMA LinearizesAnswers ==
  ASSUME TypeInv, NEW c \in Requests, Linearizes(c)
  PROVE  /\ \E status \in Statuses : \E result :
              answer' = [answer EXCEPT ![c] = [status |-> status, result |-> result]]
         /\ answer[c] = NoAnswer
         /\ \A d \in Requests : d # c => answer'[d] = answer[d]
<1>1. \A status, result : Answers(c, status, result) =>
        /\ answer' = [answer EXCEPT ![c] = [status |-> status, result |-> result]]
        /\ answer[c] = NoAnswer
  BY DEF Answers
<1>2. PICK status \in Statuses : \E result : Answers(c, status, result)
  BY DEF Linearizes, Statuses
<1>3. \A d \in Requests : d # c => answer'[d] = answer[d]
  BY <1>1, <1>2 DEF TypeInv
<1> QED BY <1>1, <1>2, <1>3

------------------------------------------------------------------------------
(* What a step of c does to the rest.                                      *)

\* Types.
LEMMA TypeKept ==
  ASSUME TypeInv, NEW c \in Requests, NEW label \in MemoryPCs \cup SqlitePCs, Moves(c, label),
         rows' \in LogRows, work' \in LogRows, conn' \in [Processes -> SUBSET Requests],
         writer' \in SUBSET Requests, next' \in [Requests -> Nat],
         answer' = answer
           \/ \E status \in Statuses : \E result :
                answer' = [answer EXCEPT ![c] = [status |-> status, result |-> result]]
  PROVE  TypeInv'
<1>1. DOMAIN answer' = Requests
  BY DEF TypeInv
<1>2. ASSUME NEW d \in Requests
      PROVE  /\ answer'[d] = [status |-> answer'[d].status, result |-> answer'[d].result]
             /\ answer'[d].status \in Statuses
  BY DEF TypeInv
<1> QED BY <1>1, <1>2 DEF TypeInv, Moves

\* The transactions of the others.  Only the holder of the write lock depends
\* on the rows.
LEMMA OtherTransactions ==
  ASSUME LInv, NEW d \in Requests, pc'[d] = pc[d], answer'[d] = answer[d], next'[d] = next[d],
         op' = op, d \in writer' <=> d \in writer,
         d \in writer => rows' = rows /\ work' = work
  PROVE  Transaction(d)'
<1>1. Transaction(d) /\ TypeInv
  BY DEF LInv
<1>2. CASE d \in writer
  BY <1>1, <1>2 DEF Transaction
<1>3. CASE d \notin writer
  <2>1. pc[d] \notin {"insert_attempt", "duplicate", "commit"}
    BY <1>1, <1>3 DEF Transaction
  <2>2. pc[d] = "insert_events" => next[d] = 1
    BY <1>1, <1>3 DEF Transaction
  <2>3. pc[d] = "insert_events" => op[d].kind = "append"
    <3>1. Append(rows.attempts, op[d].attemptID) # rows.attempts
      <4>1. rows.attempts \in Seq(AttemptIDs)
        BY <1>1 DEF TypeInv, LogRows
      <4>2. Len(Append(rows.attempts, op[d].attemptID)) # Len(rows.attempts)
        BY <4>1
      <4> QED BY <4>2
    <3> QED BY <1>1, <1>3, <3>1 DEF Transaction, Prepared, Claiming
  <2>4. Filled(rows, rows, op[d], 0)'
    BY NothingFilled
  <2>5. pc[d] = "insert_events" => Prepared(rows, rows, op[d])'
    BY <2>3 DEF Prepared
  <2> QED BY <1>1, <1>3, <2>1, <2>2, <2>4, <2>5 DEF Transaction
<1> QED BY <1>2, <1>3

\* The locks when c keeps what it holds.
LEMMA HoldKept ==
  ASSUME LInv, NEW c \in Requests, NEW label \in MemoryPCs \cup SqlitePCs, Moves(c, label),
         conn' = conn, writer' = writer, label \in ConnectedPCs <=> pc[c] \in ConnectedPCs,
         c \in writer => label \in WritePCs,
         backend = "memory" => label \in MemoryPCs, backend = "sqlite" => label \in SqlitePCs
  PROVE  HoldInv'
<1>1. \A d \in Requests : pc'[d] = IF d = c THEN label ELSE pc[d]
  BY DEF LInv, TypeInv, Moves
<1> QED BY <1>1 DEF LInv, TypeInv, HoldInv, Moves

\* The locks when c takes the write lock.
LEMMA HoldLocks ==
  ASSUME LInv, NEW c \in Requests, NEW label \in WritePCs, Moves(c, label), backend = "sqlite",
         conn' = conn, writer' = {c}, pc[c] \in ConnectedPCs
  PROVE  HoldInv'
<1>1. \A d \in Requests : pc'[d] = IF d = c THEN label ELSE pc[d]
  BY DEF LInv, TypeInv, Moves
<1>2. label \in ConnectedPCs /\ label \in SqlitePCs
  BY DEF ConnectedPCs, SqlitePCs
<1> QED BY <1>1, <1>2 DEF LInv, HoldInv, Moves

\* The locks when c gives up what it holds.
LEMMA HoldReleases ==
  ASSUME LInv, NEW c \in Requests, Moves(c, "done"), backend = "sqlite",
         conn' = [conn EXCEPT ![Process[c]] = {}], writer' = writer \ {c},
         pc[c] \in ConnectedPCs
  PROVE  HoldInv'
<1>1. \A d \in Requests : pc'[d] = IF d = c THEN "done" ELSE pc[d]
  BY DEF LInv, TypeInv, Moves
<1>2. \A p \in Processes : conn'[p] = IF p = Process[c] THEN {} ELSE conn[p]
  BY DEF LInv, TypeInv
<1>3. "done" \notin ConnectedPCs /\ "done" \in SqlitePCs
  BY DEF ConnectedPCs, SqlitePCs, WritePCs
<1>4. c \in conn[Process[c]] /\ \A d \in Requests : Process[d] \in Processes
  BY ProcessAssumption DEF LInv, HoldInv
<1>5. \A d \in Requests : d # c /\ Process[d] = Process[c] => d \notin conn[Process[d]]
  BY <1>4 DEF LInv, HoldInv
<1>6. \A d \in Requests : d \in conn'[Process[d]] <=> pc'[d] \in ConnectedPCs
  BY <1>1, <1>2, <1>3, <1>4, <1>5 DEF LInv, HoldInv
<1> QED BY <1>1, <1>2, <1>3, <1>6 DEF LInv, HoldInv, Moves

\* The locks when c takes the connection of its process.
LEMMA HoldConnects ==
  ASSUME LInv, NEW c \in Requests, NEW label \in {"insert_action", "insert_events", "query"},
         Moves(c, label), backend = "sqlite", conn[Process[c]] = {},
         conn' = [conn EXCEPT ![Process[c]] = {c}], writer' = writer, pc[c] = "connect"
  PROVE  HoldInv'
<1>1. \A d \in Requests : pc'[d] = IF d = c THEN label ELSE pc[d]
  BY DEF LInv, TypeInv, Moves
<1>2. \A p \in Processes : conn'[p] = IF p = Process[c] THEN {c} ELSE conn[p]
  BY DEF LInv, TypeInv
<1>3. label \in ConnectedPCs /\ label \in SqlitePCs /\ c \notin writer
  BY DEF ConnectedPCs, SqlitePCs, WritePCs, LInv, HoldInv
<1>4. \A d \in Requests : Process[d] \in Processes
  BY ProcessAssumption
<1>5. \A d \in Requests : d \in conn'[Process[d]] <=> pc'[d] \in ConnectedPCs
  BY <1>1, <1>2, <1>3, <1>4 DEF LInv, HoldInv
<1> QED BY <1>1, <1>2, <1>3, <1>5 DEF LInv, HoldInv, Moves

------------------------------------------------------------------------------
(* The memory log.                                                         *)

\* Its operations are those of EventLog and LogState.
LEMMA MemoryNames ==
  /\ \A l, b : Memory!EL!preflight(l, b) <=> EL!preflight(l, b)
  /\ \A l, b : Memory!EL!appendPrepared(l, b) = EL!appendPrepared(l, b)
  /\ \A c : Memory!ReadResult(c) = ReadResult(c)
<1>1. \A l, b : Memory!EL!preflight(l, b) <=> EL!preflight(l, b)
  BY Zenon DEF Memory!EL!preflight, EL!preflight, Memory!EL!SameEventID, EL!SameEventID,
     Memory!EL!equal, EL!equal
<1>2. \A l, b : Memory!EL!appendPrepared(l, b) = EL!appendPrepared(l, b)
  BY Zenon DEF Memory!EL!appendPrepared, EL!appendPrepared, Memory!EL!appendOne, EL!appendOne,
     Memory!EL!Stored, EL!Stored, Memory!EL!SameEventID, EL!SameEventID
<1>3. \A c : Memory!ReadResult(c) = ReadResult(c)
  BY Zenon DEF Memory!ReadResult, ReadResult, Memory!EL!eventsByAttempt, EL!eventsByAttempt
<1> QED BY <1>1, <1>2, <1>3

\* The critical section of BeginAttempt.
LEMMA MemoryBegins ==
  ASSUME TypeInv, NEW c \in Requests, answer[c] = NoAnswer, Memory!BeginAttempt(c)
  PROVE  Linearizes(c) /\ rows' \in LogRows
<1> DEFINE o == op[c]
           accepted == EL!preflight(rows.events, o.events)
           claimed == ToSet(rows.attempts)
<1>1. /\ o.kind = "begin" /\ o.events \in Seq(Facts) /\ o.attemptID \in AttemptIDs
      /\ o.action.id \in ActionIDs /\ o.action.intent \in Intents /\ rows \in LogRows
  BY OperationFields DEF Memory!BeginAttempt, TypeInv
<1>2. accepted <=> Accepts(ToSet(rows.events), ToSet(o.events))
  BY <1>1, PreflightAccepts
<1>3. Memory!BeginStatus(c) =
        IF ~Registrable(c) THEN "conflict"
        ELSE IF o.attemptID \in claimed THEN "duplicate"
        ELSE IF ~accepted THEN "conflict" ELSE "claimed"
  <2>1. ~Registrable(c) <=> rows.actions[o.action.id] # NoIntent /\ ~Memory!equalAction(c)
    BY DEF Memory!equalAction, Registrable
  <2>2. Memory!EL!preflight(rows.events, o.events) <=> accepted
    BY MemoryNames, Zenon
  <2> HIDE DEF accepted
  <2>3. Memory!BeginStatus(c) =
          IF rows.actions[o.action.id] # NoIntent /\ ~Memory!equalAction(c) THEN "conflict"
          ELSE IF o.attemptID \in claimed THEN "duplicate"
          ELSE IF ~Memory!EL!preflight(rows.events, o.events) THEN "conflict" ELSE "claimed"
    BY Zenon DEF Memory!BeginStatus, Memory!ToSet, ToSet
  <2> QED BY <2>1, <2>2, <2>3
<1>4. answer' = [answer EXCEPT ![c] = [status |-> Memory!BeginStatus(c), result |-> {}]]
  BY DEF Memory!BeginAttempt, Memory!Answer
<1> HIDE DEF accepted, claimed
<1>5. CASE Memory!BeginStatus(c) = "claimed"
  <2>1. Registrable(c) /\ o.attemptID \notin claimed /\ accepted
    BY <1>3, <1>5
  <2>2. rows' = [actions  |-> [rows.actions EXCEPT ![o.action.id] = o.action.intent],
                 attempts |-> Append(rows.attempts, o.attemptID),
                 events   |-> EL!appendPrepared(rows.events, o.events)]
    BY <1>5, MemoryNames, Zenon DEF Memory!BeginAttempt
  <2>3. /\ rows'.actions = [rows.actions EXCEPT ![o.action.id] = o.action.intent]
        /\ rows'.attempts = Append(rows.attempts, o.attemptID)
        /\ rows'.events = EL!appendPrepared(rows.events, o.events)
    BY <2>2
  <2>4. rows'.events \in Seq(Facts) /\ Filled(rows, rows', o, Len(o.events))
    BY <1>1, <1>2, <2>1, <2>3, FillAll, Zenon
  <2>5. /\ rows'.actions \in [ActionIDs -> Intents \cup {NoIntent}]
        /\ rows'.attempts \in Seq(AttemptIDs)
    BY <1>1, <2>3 DEF LogRows
  <2>6. rows' \in LogRows
    BY <2>2, <2>3, <2>4, <2>5 DEF LogRows
  <2>7. Prepared(rows, rows', o)
    BY <1>1, <2>1, <2>3 DEF Prepared, Claiming, Registers, Registrable, claimed
  <2> QED BY <1>1, <1>4, <1>5, <2>4, <2>6, <2>7, Zenon DEF Linearizes, Stores, Answers
<1>6. CASE Memory!BeginStatus(c) # "claimed"
  <2>1. rows' = rows
    BY <1>6 DEF Memory!BeginAttempt
  <2>2. CASE Memory!BeginStatus(c) = "conflict"
    <3>1. Conflicts(c)
      BY <1>1, <1>2, <1>3, <2>2 DEF Conflicts, claimed
    <3> QED BY <1>1, <1>4, <2>1, <2>2, <3>1, Zenon DEF Linearizes, Answers
  <2>3. CASE Memory!BeginStatus(c) = "duplicate"
    <3>1. Duplicates(c)
      BY <1>1, <1>3, <2>3 DEF Duplicates, claimed
    <3> QED BY <1>1, <1>4, <2>1, <2>3, <3>1, Zenon DEF Linearizes, Answers
  <2> QED BY <1>3, <1>6, <2>2, <2>3
<1> QED BY <1>5, <1>6

\* The critical section of AppendAll.
LEMMA MemoryAppends ==
  ASSUME TypeInv, NEW c \in Requests, answer[c] = NoAnswer, Memory!AppendAll(c)
  PROVE  Linearizes(c) /\ rows' \in LogRows
<1> DEFINE o == op[c]
<1>1. o.kind = "append" /\ o.events \in Seq(Facts) /\ rows \in LogRows
  BY OperationFields DEF Memory!AppendAll, TypeInv
<1>2. EL!preflight(rows.events, o.events) <=> Accepts(ToSet(rows.events), ToSet(o.events))
  BY <1>1, PreflightAccepts
<1>3. CASE ~EL!preflight(rows.events, o.events)
  <2>1. rows' = rows /\ Answers(c, "conflict", {})
    BY <1>3, MemoryNames, Zenon DEF Memory!AppendAll, Memory!Answer, Answers
  <2>2. Conflicts(c)
    BY <1>1, <1>2, <1>3 DEF Conflicts
  <2> QED BY <1>1, <2>1, <2>2, Zenon DEF Linearizes
<1>4. CASE EL!preflight(rows.events, o.events)
  <2>1. /\ rows' = [rows EXCEPT !.events = EL!appendPrepared(@, o.events)]
        /\ Answers(c, "ok", {})
    BY <1>4, MemoryNames, Zenon DEF Memory!AppendAll, Memory!Answer, Answers
  <2>2. /\ rows'.actions = rows.actions /\ rows'.attempts = rows.attempts
        /\ rows'.events = EL!appendPrepared(rows.events, o.events)
        /\ rows' = [actions |-> rows'.actions, attempts |-> rows'.attempts, events |-> rows'.events]
    BY <1>1, <2>1 DEF LogRows
  <2>3. rows'.events \in Seq(Facts) /\ Filled(rows, rows', o, Len(o.events))
    BY <1>1, <1>2, <1>4, <2>2, FillAll, Zenon
  <2>4. rows' \in LogRows
    BY <1>1, <2>2, <2>3 DEF LogRows
  <2>5. Prepared(rows, rows', o)
    BY <1>1, <2>2 DEF Prepared
  <2>6. Stores(c)
    BY <2>3, <2>4, <2>5, Zenon DEF Stores
  <2>7. (IF o.kind = "begin" THEN "claimed" ELSE "ok") = "ok"
    BY <1>1
  <2> QED BY <2>1, <2>4, <2>6, <2>7 DEF Linearizes
<1> QED BY <1>3, <1>4

\* Every step of the memory log.
LEMMA MemorySteps ==
  ASSUME LInv, NEW c \in Requests, backend = "memory", Memory!Step(c),
         UNCHANGED <<backend, op, conn, writer, work, next>>
  PROVE  LInv' /\ (UNCHANGED <<rows, answer>> \/ Linearizes(c))
<1>1. \E label \in {"lock", "done"} :
        /\ Moves(c, label) /\ pc[c] \in {"enter", "lock"} /\ rows' \in LogRows
        /\ IF label = "lock" THEN UNCHANGED <<rows, answer>> ELSE Linearizes(c)
  <2>1. TypeInv /\ rows \in LogRows
    BY DEF LInv, TypeInv
  <2>2. pc[c] \in {"enter", "lock"} => answer[c] = NoAnswer
    BY DEF LInv, Transaction, EndPCs
  <2>3. CASE Memory!Enter(c)
    <3>1. pc[c] = "enter" /\ rows' = rows
      BY <2>3 DEF Memory!Enter
    <3>2. CASE Memory!Answer(c, "error", {}) /\ Memory!Goto(c, "done")
      <4>1. Moves(c, "done") /\ Answers(c, "error", {})
        BY <2>2, <3>1, <3>2 DEF Memory!Answer, Memory!Goto, Moves, Answers
      <4>2. Linearizes(c)
        BY <3>1, <4>1, Zenon DEF Linearizes
      <4> QED BY <2>1, <3>1, <4>1, <4>2
    <3>3. CASE Memory!Goto(c, "lock") /\ UNCHANGED answer
      BY <2>1, <3>1, <3>3 DEF Memory!Goto, Moves
    <3> QED BY <2>3, <3>2, <3>3 DEF Memory!Enter
  <2>4. CASE Memory!BeginAttempt(c)
    <3>1. pc[c] = "lock" /\ Moves(c, "done")
      BY <2>4 DEF Memory!BeginAttempt, Memory!Goto, Moves
    <3>2. Linearizes(c) /\ rows' \in LogRows
      BY <2>1, <2>2, <2>4, <3>1, MemoryBegins, Zenon
    <3> QED BY <3>1, <3>2
  <2>5. CASE Memory!AppendAll(c)
    <3>1. pc[c] = "lock" /\ Moves(c, "done")
      BY <2>5 DEF Memory!AppendAll, Memory!Goto, Moves
    <3>2. Linearizes(c) /\ rows' \in LogRows
      BY <2>1, <2>2, <2>5, <3>1, MemoryAppends, Zenon
    <3> QED BY <3>1, <3>2
  <2>6. CASE Memory!Read(c)
    <3>1. /\ pc[c] = "lock" /\ Moves(c, "done") /\ rows' = rows
          /\ op[c].kind \in {"events", "action", "attempts"}
      BY <2>6 DEF Memory!Read, Memory!Goto, Moves
    <3>2. Answers(c, "read", ReadResult(c))
      BY <2>2, <2>6, <3>1, MemoryNames, Zenon DEF Memory!Read, Memory!Answer, Answers
    <3>3. Linearizes(c)
      BY <3>1, <3>2, Zenon DEF Linearizes
    <3> QED BY <2>1, <3>1, <3>3
  <2> QED BY <2>3, <2>4, <2>5, <2>6 DEF Memory!Step
<1>2. PICK label \in {"lock", "done"} :
        /\ Moves(c, label) /\ pc[c] \in {"enter", "lock"} /\ rows' \in LogRows
        /\ IF label = "lock" THEN UNCHANGED <<rows, answer>> ELSE Linearizes(c)
  BY <1>1, Zenon
<1>3. TypeInv'
  <2>1. answer' = answer \/ \E status \in Statuses : \E result :
          answer' = [answer EXCEPT ![c] = [status |-> status, result |-> result]]
    <3>1. CASE label = "lock"
      BY <1>2, <3>1
    <3>2. CASE label # "lock"
      BY <1>2, <3>2, LinearizesAnswers, Zenon DEF LInv
    <3> QED BY <3>1, <3>2
  <2> QED BY <1>2, <2>1, TypeKept DEF LInv, TypeInv, MemoryPCs
<1>4. HoldInv'
  <2>1. label \notin ConnectedPCs /\ pc[c] \notin ConnectedPCs /\ label \in MemoryPCs /\ c \notin writer
    BY <1>2 DEF ConnectedPCs, WritePCs, MemoryPCs, LInv, HoldInv
  <2> QED BY <1>2, <2>1, HoldKept
<1>5. writer = {}
  BY DEF LInv, HoldInv, TypeInv, MemoryPCs, WritePCs
<1>6. ASSUME NEW d \in Requests PROVE Transaction(d)'
  <2>1. CASE d # c
    <3>1. pc'[d] = pc[d] /\ answer'[d] = answer[d]
      BY <1>2, <2>1, LinearizesAnswers DEF Moves, LInv, TypeInv
    <3> QED BY <1>5, <3>1, OtherTransactions
  <2>2. CASE d = c
    <3>1. pc'[c] = label
      BY <1>2 DEF Moves, LInv, TypeInv
    <3>2. label = "lock" => answer'[c] = NoAnswer
      BY <1>2 DEF LInv, Transaction, EndPCs
    <3> QED BY <2>2, <3>1, <3>2 DEF Transaction, EndPCs
  <2> QED BY <2>1, <2>2
<1> QED BY <1>2, <1>3, <1>4, <1>6 DEF LInv

------------------------------------------------------------------------------
(* The SQLite log.                                                         *)

\* What a step of c has to show.
Implements(c) == LInv' /\ (UNCHANGED <<rows, answer>> \/ Linearizes(c))

\* Its operations are those of EventLog and LogState.
LEMMA SqliteNames ==
  /\ \A e, f : Sqlite!EL!SameEventID(e, f) <=> EL!SameEventID(e, f)
  /\ \A e, f : Sqlite!EL!equal(e, f) <=> EL!equal(e, f)
  /\ \A s : Sqlite!ToSet(s) = ToSet(s)
  /\ \A c : Sqlite!ReadResult(c) = ReadResult(c)
<1>1. \A e, f : Sqlite!EL!SameEventID(e, f) <=> EL!SameEventID(e, f)
  BY Zenon DEF Sqlite!EL!SameEventID, EL!SameEventID
<1>2. \A e, f : Sqlite!EL!equal(e, f) <=> EL!equal(e, f)
  BY Zenon DEF Sqlite!EL!equal, EL!equal, Sqlite!EL!SameEventID, EL!SameEventID
<1>3. \A s : Sqlite!ToSet(s) = ToSet(s)
  BY Zenon DEF Sqlite!ToSet, ToSet
<1>4. \A c : Sqlite!ReadResult(c) = ReadResult(c)
  BY Zenon DEF Sqlite!ReadResult, ReadResult, Sqlite!EL!eventsByAttempt, EL!eventsByAttempt
<1> QED BY <1>1, <1>2, <1>3, <1>4

\* It is enough to look at c: the others see a step of c only if it changes the
\* rows, and the holder of the write lock is not among them.
LEMMA StepKeeps ==
  ASSUME LInv, NEW c \in Requests, NEW label \in SqlitePCs, Moves(c, label), HoldInv',
         rows' \in LogRows, work' \in LogRows, conn' \in [Processes -> SUBSET Requests],
         writer' \in SUBSET Requests, writer' \ {c} = writer \ {c},
         next' \in [Requests -> Nat], \A d \in Requests \ {c} : next'[d] = next[d],
         c \in writer \/ (rows' = rows /\ (work' = work \/ writer = {})),
         answer' = answer \/ Linearizes(c),
         Transaction(c)'
  PROVE  LInv'
<1>1. TypeInv'
  <2>1. answer' = answer \/ \E status \in Statuses : \E result :
          answer' = [answer EXCEPT ![c] = [status |-> status, result |-> result]]
    BY LinearizesAnswers, Zenon DEF LInv
  <2>2. label \in MemoryPCs \cup SqlitePCs /\ TypeInv
    BY DEF LInv
  <2> QED BY <2>1, <2>2, TypeKept
<1>2. ASSUME NEW d \in Requests \ {c} PROVE Transaction(d)'
  <2>1. pc'[d] = pc[d]
    BY DEF Moves, LInv, TypeInv
  <2>2. answer'[d] = answer[d]
    BY LinearizesAnswers DEF LInv
  <2>3. d \in writer' <=> d \in writer
    OBVIOUS
  <2>4. d \in writer => rows' = rows /\ work' = work
    BY DEF LInv, HoldInv
  <2>5. op' = op
    BY DEF Moves
  <2> QED BY <2>1, <2>2, <2>3, <2>4, <2>5, OtherTransactions
<1> QED BY <1>1, <1>2 DEF LInv

\* The end of an operation, with the connection given back.
LEMMA ReleaseKeeps ==
  ASSUME LInv, NEW c \in Requests, backend = "sqlite", pc[c] \in ConnectedPCs, Moves(c, "done"),
         Sqlite!Release(c), next' = next, rows' \in LogRows, rows' = rows \/ c \in writer,
         answer' = answer \/ Linearizes(c)
  PROVE  LInv'
<1>1. /\ conn' = [conn EXCEPT ![Process[c]] = {}] /\ writer' = writer \ {c}
      /\ work' = IF c \in writer THEN rows' ELSE work
  BY DEF Sqlite!Release
<1>2. HoldInv'
  BY <1>1, HoldReleases
<1>3. /\ work' \in LogRows /\ conn' \in [Processes -> SUBSET Requests]
      /\ writer' \in SUBSET Requests /\ writer' \ {c} = writer \ {c}
      /\ next' \in [Requests -> Nat] /\ \A d \in Requests \ {c} : next'[d] = next[d]
      /\ c \in writer \/ (rows' = rows /\ (work' = work \/ writer = {}))
  BY <1>1 DEF LInv, TypeInv
<1>4. pc'[c] = "done" /\ "done" \in SqlitePCs
  BY DEF Moves, LInv, TypeInv, SqlitePCs
<1>5. Transaction(c)'
  BY <1>4 DEF Transaction, EndPCs
<1> QED BY <1>2, <1>3, <1>4, <1>5, StepKeeps

\* A step that keeps the connection and what is stored.
LEMMA QuietKeeps ==
  ASSUME LInv, NEW c \in Requests, NEW label \in SqlitePCs, backend = "sqlite", Moves(c, label),
         UNCHANGED <<conn, writer, next>>, label \in ConnectedPCs <=> pc[c] \in ConnectedPCs,
         c \in writer => label \in WritePCs,
         rows' \in LogRows, rows' = rows \/ c \in writer,
         work' \in LogRows, work' = work \/ c \in writer,
         answer' = answer \/ Linearizes(c),
         Transaction(c)'
  PROVE  LInv'
<1>1. HoldInv'
  BY HoldKept
<1>2. /\ conn' \in [Processes -> SUBSET Requests]
      /\ writer' \in SUBSET Requests /\ writer' \ {c} = writer \ {c}
      /\ next' \in [Requests -> Nat] /\ \A d \in Requests \ {c} : next'[d] = next[d]
      /\ c \in writer \/ (rows' = rows /\ (work' = work \/ writer = {}))
  BY DEF LInv, TypeInv
<1> QED BY <1>1, <1>2, StepKeeps

\* A statement that takes the write lock, or has it.
LEMMA LockKeeps ==
  ASSUME LInv, NEW c \in Requests, NEW label \in WritePCs, backend = "sqlite", Moves(c, label),
         Sqlite!Lock(c), conn' = conn, rows' = rows, work' \in LogRows, pc[c] \in ConnectedPCs,
         next' \in [Requests -> Nat], \A d \in Requests \ {c} : next'[d] = next[d],
         answer' = answer \/ Linearizes(c),
         Transaction(c)'
  PROVE  LInv'
<1>1. writer \in {{}, {c}} /\ writer' = {c}
  BY DEF Sqlite!Lock
<1>2. HoldInv'
  BY <1>1, HoldLocks
<1>3. label \in SqlitePCs
  BY DEF SqlitePCs, ConnectedPCs
<1>4. /\ rows' \in LogRows /\ conn' \in [Processes -> SUBSET Requests]
      /\ writer' \in SUBSET Requests /\ writer' \ {c} = writer \ {c}
      /\ c \in writer \/ (rows' = rows /\ (work' = work \/ writer = {}))
  BY <1>1 DEF LInv, TypeInv
<1> QED BY <1>2, <1>3, <1>4, StepKeeps

\* The connection.
LEMMA ConnectStep ==
  ASSUME LInv, NEW c \in Requests, backend = "sqlite", UNCHANGED <<backend, op>>, Sqlite!Connect(c)
  PROVE  Implements(c)
<1> DEFINE label == CASE op[c].kind = "begin"  -> "insert_action"
                      [] op[c].kind = "append" -> "insert_events"
                      [] OTHER                 -> "query"
<1>1. /\ pc[c] = "connect" /\ conn[Process[c]] = {}
      /\ conn' = [conn EXCEPT ![Process[c]] = {c}]
      /\ Moves(c, label) /\ UNCHANGED <<rows, answer, writer, work, next>>
  BY DEF Sqlite!Connect, Sqlite!Goto, Moves
<1>2. /\ op[c].kind \in {"begin", "append", "events", "action", "attempts"}
      /\ op[c].events \in Seq(Facts)
      /\ op[c].kind = "append" => op[c].events # <<>>
  BY OperationFields DEF LInv
<1>3. /\ op[c].kind = "begin" => label = "insert_action"
      /\ op[c].kind = "append" => label = "insert_events"
      /\ op[c].kind \notin {"begin", "append"} => label = "query"
  OBVIOUS
<1> HIDE DEF label
<1>4. label \in {"insert_action", "insert_events", "query"} /\ label \in SqlitePCs
  BY <1>2, <1>3 DEF SqlitePCs, ConnectedPCs, WritePCs
<1>5. HoldInv'
  BY <1>1, <1>4, HoldConnects
<1>6. /\ rows' \in LogRows /\ work' \in LogRows /\ conn' \in [Processes -> SUBSET Requests]
      /\ writer' \in SUBSET Requests /\ writer' \ {c} = writer \ {c}
      /\ next' \in [Requests -> Nat] /\ \A d \in Requests \ {c} : next'[d] = next[d]
  BY <1>1 DEF LInv, TypeInv
<1>7. Transaction(c)'
  <2>1. pc'[c] = label /\ answer'[c] = NoAnswer /\ next'[c] = 1 /\ op'[c] = op[c]
        /\ c \notin writer' /\ rows' = rows
    BY <1>1 DEF Moves, LInv, TypeInv, HoldInv, WritePCs, Transaction, EndPCs
  <2>2. CASE label = "insert_events"
    <3>1. op[c].kind = "append"
      BY <1>2, <1>3, <2>2
    <3>2. 1 \in 1 .. Len(op[c].events)
      BY <1>2, <3>1
    <3>3. Filled(rows, rows, op[c], 1 - 1)
      <4>1. 1 - 1 = 0
        OBVIOUS
      <4> QED BY <4>1, NothingFilled, Zenon
    <3>4. Prepared(rows, rows, op[c])
      BY <3>1 DEF Prepared
    <3> QED BY <2>1, <2>2, <3>2, <3>3, <3>4 DEF Transaction
  <2>3. CASE label # "insert_events"
    BY <1>2, <1>3, <1>4, <2>1, <2>3 DEF Transaction
  <2> QED BY <2>2, <2>3
<1>8. LInv'
  BY <1>1, <1>4, <1>5, <1>6, <1>7, StepKeeps
<1> QED BY <1>1, <1>8 DEF Implements

\* The context is done first.
LEMMA ConnectFailsStep ==
  ASSUME LInv, NEW c \in Requests, backend = "sqlite", UNCHANGED <<backend, op>>,
         Sqlite!ConnectFails(c)
  PROVE  Implements(c)
<1>1. /\ pc[c] = "connect" /\ Moves(c, "done") /\ UNCHANGED <<rows, conn, writer, work, next>>
      /\ answer' = [answer EXCEPT ![c] = [status |-> "error", result |-> {}]]
  BY DEF Sqlite!ConnectFails, Sqlite!Goto, Sqlite!Answer, Sqlite!connVars, Moves
<1>2. answer[c] = NoAnswer /\ c \notin writer
  BY <1>1 DEF LInv, Transaction, EndPCs, HoldInv, WritePCs
<1>3. Linearizes(c)
  BY <1>1, <1>2, Zenon DEF Linearizes, Answers
<1>4. pc'[c] = "done"
  BY <1>1 DEF Moves, LInv, TypeInv
<1>5. Transaction(c)'
  BY <1>4 DEF Transaction, EndPCs
<1>6. "done" \in SqlitePCs /\ "done" \notin ConnectedPCs /\ pc[c] \notin ConnectedPCs
  BY <1>1 DEF SqlitePCs, ConnectedPCs, WritePCs
<1>7. rows' \in LogRows /\ work' \in LogRows
  BY <1>1 DEF LInv, TypeInv
<1>8. LInv'
  BY <1>1, <1>2, <1>3, <1>5, <1>6, <1>7, QuietKeeps
<1> QED BY <1>3, <1>8 DEF Implements

\* INSERT OR IGNORE of the action.
LEMMA InsertActionStep ==
  ASSUME LInv, NEW c \in Requests, backend = "sqlite", UNCHANGED <<backend, op>>,
         Sqlite!InsertAction(c)
  PROVE  Implements(c)
<1> DEFINE o == op[c]
<1>1. pc[c] = "insert_action" /\ Sqlite!Lock(c) /\ UNCHANGED <<rows, conn, next>>
  BY DEF Sqlite!InsertAction
<1>2. /\ o.kind = "begin" /\ answer[c] = NoAnswer /\ next[c] = 1
      /\ rows \in LogRows /\ o.action.id \in ActionIDs /\ o.action.intent \in Intents
  BY <1>1, OperationFields DEF LInv, TypeInv, Transaction, EndPCs
<1>3. /\ pc[c] \in ConnectedPCs /\ writer' = {c}
      /\ next' \in [Requests -> Nat] /\ \A d \in Requests \ {c} : next'[d] = next[d]
  BY <1>1 DEF ConnectedPCs, Sqlite!Lock, LInv, TypeInv
<1>4. CASE Registrable(c)
  <2>1. /\ work' = [rows EXCEPT !.actions[o.action.id] = o.action.intent]
        /\ Moves(c, "insert_attempt") /\ answer' = answer
    BY <1>4 DEF Sqlite!InsertAction, Registrable, Sqlite!Goto, Moves
  <2>2. /\ work'.actions = [rows.actions EXCEPT ![o.action.id] = o.action.intent]
        /\ work'.attempts = rows.attempts /\ work'.events = rows.events
        /\ work' = [actions |-> work'.actions, attempts |-> work'.attempts, events |-> work'.events]
    BY <1>2, <2>1 DEF LogRows
  <2>3. work' \in LogRows
    BY <1>2, <2>2 DEF LogRows
  <2>4. Registers(rows, work', o)
    BY <1>4, <2>2 DEF Registers, Registrable
  <2>5. pc'[c] = "insert_attempt" /\ op' = op
    BY <2>1 DEF Moves, LInv, TypeInv
  <2>6. Transaction(c)'
    BY <1>1, <1>2, <1>3, <2>1, <2>2, <2>4, <2>5 DEF Transaction
  <2>7. "insert_attempt" \in WritePCs
    BY DEF WritePCs
  <2>8. LInv'
    BY <1>1, <1>3, <2>1, <2>3, <2>6, <2>7, LockKeeps
  <2> QED BY <1>1, <2>1, <2>8 DEF Implements
<1>5. CASE ~Registrable(c)
  <2>1. /\ work' = rows /\ Moves(c, "rollback")
        /\ answer' = [answer EXCEPT ![c] = [status |-> "conflict", result |-> {}]]
    BY <1>5 DEF Sqlite!InsertAction, Registrable, Sqlite!Refuse, Sqlite!Answer, Sqlite!Goto, Moves
  <2>2. Conflicts(c)
    BY <1>2, <1>5 DEF Conflicts
  <2>3. Linearizes(c)
    BY <1>1, <1>2, <2>1, <2>2, Zenon DEF Linearizes, Answers
  <2>4. pc'[c] = "rollback" /\ answer'[c].status = "conflict"
    BY <2>1 DEF Moves, LInv, TypeInv
  <2>5. Transaction(c)'
    BY <2>4 DEF Transaction, EndPCs
  <2>6. "rollback" \in WritePCs
    BY DEF WritePCs
  <2>7. LInv'
    BY <1>1, <1>2, <1>3, <2>1, <2>3, <2>5, <2>6, LockKeeps
  <2> QED BY <2>3, <2>7 DEF Implements
<1> QED BY <1>4, <1>5

\* INSERT OR IGNORE of the attempt.
LEMMA InsertAttemptStep ==
  ASSUME LInv, NEW c \in Requests, backend = "sqlite", UNCHANGED <<backend, op>>,
         Sqlite!InsertAttempt(c)
  PROVE  Implements(c)
<1> DEFINE o == op[c]
<1>1. pc[c] = "insert_attempt" /\ UNCHANGED <<rows, answer, conn, writer, next>>
  BY DEF Sqlite!InsertAttempt
<1>2. /\ o.kind = "begin" /\ answer[c] = NoAnswer /\ next[c] = 1 /\ c \in writer
      /\ Registers(rows, work, o) /\ work.attempts = rows.attempts /\ work.events = rows.events
      /\ rows \in LogRows /\ work \in LogRows
  BY <1>1 DEF LInv, TypeInv, Transaction, EndPCs
<1>3. /\ o.attemptID \in AttemptIDs /\ o.events \in Seq(Facts) /\ o.events # <<>>
  BY <1>2, OperationFields DEF LInv
<1>4. pc[c] \in ConnectedPCs
  BY <1>1 DEF ConnectedPCs, WritePCs
<1>5. CASE o.attemptID \notin ToSet(work.attempts)
  <2>1. /\ work' = [work EXCEPT !.attempts = Append(@, o.attemptID)]
        /\ Moves(c, "insert_events")
    BY <1>5, SqliteNames DEF Sqlite!InsertAttempt, Sqlite!Goto, Moves
  <2>2. /\ work'.actions = work.actions /\ work'.events = rows.events
        /\ work'.attempts = Append(rows.attempts, o.attemptID)
        /\ work' = [actions |-> work'.actions, attempts |-> work'.attempts, events |-> work'.events]
    BY <1>2, <2>1 DEF LogRows
  <2>3. work' \in LogRows
    <3>1. work'.attempts \in Seq(AttemptIDs)
      BY <1>2, <1>3, <2>2, AppendToSet DEF LogRows
    <3>2. /\ work'.actions \in [ActionIDs -> Intents \cup {NoIntent}]
          /\ work'.events \in Seq(Facts)
      BY <1>2, <2>2 DEF LogRows
    <3> QED BY <2>2, <3>1, <3>2 DEF LogRows
  <2>4. Prepared(rows, work', o)
    BY <1>2, <1>5, <2>2 DEF Prepared, Claiming, Registers
  <2>5. Filled(rows, work', o, 1 - 1)
    <3>1. 1 - 1 = 0
      OBVIOUS
    <3>2. Filled(rows, rows, o, 0)
      BY NothingFilled, Zenon
    <3>3. Filled(rows, work', o, 0)
      BY <2>2, <3>2, Zenon DEF Filled
    <3> QED BY <3>1, <3>3, Zenon
  <2>6. pc'[c] = "insert_events" /\ op' = op
    BY <2>1 DEF Moves, LInv, TypeInv
  <2>7. 1 \in 1 .. Len(o.events)
    BY <1>3
  <2>8. Transaction(c)'
    BY <1>1, <1>2, <2>4, <2>5, <2>6, <2>7 DEF Transaction
  <2>9. "insert_events" \in WritePCs /\ "insert_events" \in ConnectedPCs /\ "insert_events" \in SqlitePCs
    BY DEF WritePCs, ConnectedPCs, SqlitePCs
  <2>10. LInv'
    BY <1>1, <1>2, <1>4, <2>1, <2>3, <2>8, <2>9, QuietKeeps
  <2> QED BY <1>1, <2>10 DEF Implements
<1>6. CASE o.attemptID \in ToSet(work.attempts)
  <2>1. work' = work /\ Moves(c, "duplicate")
    BY <1>6, SqliteNames DEF Sqlite!InsertAttempt, Sqlite!Goto, Moves
  <2>2. pc'[c] = "duplicate" /\ op' = op
    BY <2>1 DEF Moves, LInv, TypeInv
  <2>3. Transaction(c)'
    BY <1>1, <1>2, <1>6, <2>2 DEF Transaction, Registers
  <2>4. "duplicate" \in WritePCs /\ "duplicate" \in ConnectedPCs /\ "duplicate" \in SqlitePCs
    BY DEF WritePCs, ConnectedPCs, SqlitePCs
  <2>5. LInv'
    BY <1>1, <1>2, <1>4, <2>1, <2>3, <2>4, QuietKeeps
  <2> QED BY <1>1, <2>5 DEF Implements
<1> QED BY <1>5, <1>6

\* The end of a write that was refused its claim.
LEMMA RollbackDuplicateStep ==
  ASSUME LInv, NEW c \in Requests, backend = "sqlite", UNCHANGED <<backend, op>>,
         Sqlite!RollbackDuplicate(c)
  PROVE  Implements(c)
<1>1. /\ pc[c] = "duplicate" /\ Moves(c, "done") /\ Sqlite!Release(c) /\ UNCHANGED <<rows, next>>
      /\ \/ answer' = [answer EXCEPT ![c] = [status |-> "duplicate", result |-> {}]]
         \/ answer' = [answer EXCEPT ![c] = [status |-> "error", result |-> {}]]
  BY DEF Sqlite!RollbackDuplicate, Sqlite!Goto, Sqlite!Answer, Moves
<1>2. answer[c] = NoAnswer /\ Duplicates(c) /\ rows' \in LogRows
  BY <1>1 DEF LInv, TypeInv, Transaction, EndPCs, Duplicates, Registrable
<1>3. Linearizes(c)
  BY <1>1, <1>2, Zenon DEF Linearizes, Answers
<1>4. pc[c] \in ConnectedPCs
  BY <1>1 DEF ConnectedPCs, WritePCs
<1>5. LInv'
  BY <1>1, <1>2, <1>3, <1>4, ReleaseKeeps
<1> QED BY <1>3, <1>5 DEF Implements

\* INSERT OR IGNORE of a fact.
LEMMA InsertEventStep ==
  ASSUME LInv, NEW c \in Requests, backend = "sqlite", UNCHANGED <<backend, op>>,
         Sqlite!InsertEvent(c)
  PROVE  Implements(c)
<1> DEFINE o == op[c]
           n == next[c] - 1
           w == IF c \in writer THEN work ELSE rows
           e == o.events[next[c]]
           known == {f \in ToSet(w.events) : EL!SameEventID(e, f)}
<1>1. pc[c] = "insert_events" /\ Sqlite!Lock(c) /\ UNCHANGED <<rows, conn>>
  BY DEF Sqlite!InsertEvent
<1>2. /\ work' = IF known = {} THEN [w EXCEPT !.events = Append(@, e)] ELSE w
      /\ \/ /\ \A f \in known : EL!equal(e, f)
            /\ next' = [next EXCEPT ![c] = @ + 1]
            /\ Moves(c, IF next[c] = Len(o.events) THEN "commit" ELSE "insert_events")
            /\ answer' = answer
         \/ /\ \E f \in known : ~EL!equal(e, f)
            /\ answer' = [answer EXCEPT ![c] = [status |-> "conflict", result |-> {}]]
            /\ Moves(c, "rollback")
            /\ next' = next
  <2>1. {f \in Sqlite!ToSet(Sqlite!Seen(c).events) : Sqlite!EL!SameEventID(e, f)} = known
    BY SqliteNames, Zenon DEF Sqlite!Seen
  <2>2. Sqlite!Seen(c) = w
    BY DEF Sqlite!Seen
  <2>3. \A f : Sqlite!EL!equal(e, f) <=> EL!equal(e, f)
    BY SqliteNames, Zenon
  <2> HIDE DEF known, w
  <2> QED BY <2>1, <2>2, <2>3 DEF Sqlite!InsertEvent, Sqlite!Refuse, Sqlite!Answer, Sqlite!Goto, Moves
<1>3. /\ answer[c] = NoAnswer /\ rows \in LogRows /\ w \in LogRows
      /\ next \in [Requests -> Nat] /\ next[c] \in 1 .. Len(o.events)
      /\ Filled(rows, w, o, n) /\ Prepared(rows, w, o)
  BY <1>1 DEF LInv, TypeInv, Transaction, EndPCs
<1>4. /\ o.events \in Seq(Facts) /\ n \in Nat /\ n < Len(o.events) /\ n + 1 = next[c]
      /\ e = o.events[n + 1]
  BY <1>3, OperationFields DEF LInv
<1>5. pc[c] \in ConnectedPCs /\ writer' = {c}
  BY <1>1 DEF ConnectedPCs, WritePCs, Sqlite!Lock
<1> HIDE DEF n, w, e
<1>6. CASE \A f \in known : EL!equal(e, f)
  <2> DEFINE label == IF next[c] = Len(o.events) THEN "commit" ELSE "insert_events"
  <2>1. Moves(c, label) /\ answer' = answer /\ next' = [next EXCEPT ![c] = @ + 1]
    BY <1>2, <1>6
  <2>2. work' = IF \E f \in ToSet(w.events) : EL!SameEventID(e, f) THEN w
                ELSE [w EXCEPT !.events = Append(@, e)]
    BY <1>2
  <2>3. \A f \in ToSet(w.events) : EL!SameEventID(e, f) => EL!equal(e, f)
    BY <1>6
  <2> HIDE DEF known
  <2>4. /\ work' \in LogRows /\ work'.actions = w.actions /\ work'.attempts = w.attempts
        /\ Filled(rows, work', o, n + 1)
    <3>1. Inserts(w, work', o.events[n + 1])
      BY <1>4, <2>2, <2>3, Zenon DEF Inserts
    <3> QED BY <1>3, <1>4, <3>1, FillNext, Zenon
  <2>5. Prepared(rows, work', o)
    BY <1>3, <2>4, Zenon DEF Prepared, Claiming, Registers
  <2>6. /\ next' \in [Requests -> Nat] /\ \A d \in Requests \ {c} : next'[d] = next[d]
        /\ next'[c] = next[c] + 1 /\ next'[c] - 1 = n + 1
    BY <1>3, <1>4, <2>1
  <2>7. /\ label \in {"commit", "insert_events"} /\ label \in WritePCs
        /\ label = "insert_events" => next'[c] \in 1 .. Len(o.events)
        /\ label = "commit" => next'[c] = Len(o.events) + 1
    BY <1>3, <1>4, <2>6 DEF WritePCs
  <2> HIDE DEF label
  <2>8. pc'[c] = label /\ op' = op /\ c \in writer'
    BY <1>5, <2>1 DEF Moves, LInv, TypeInv
  <2>9. Filled(rows', work', op'[c], next'[c] - 1) /\ Prepared(rows', work', op'[c])
    BY <1>1, <2>4, <2>5, <2>6, <2>8, Zenon
  <2>10. Transaction(c)'
    BY <1>3, <2>1, <2>7, <2>8, <2>9 DEF Transaction
  <2>11. LInv'
    BY <1>1, <1>5, <2>1, <2>4, <2>6, <2>7, <2>10, LockKeeps
  <2> QED BY <1>1, <2>1, <2>11 DEF Implements
<1>7. CASE \E f \in known : ~EL!equal(e, f)
  <2>1. /\ Moves(c, "rollback") /\ next' = next
        /\ answer' = [answer EXCEPT ![c] = [status |-> "conflict", result |-> {}]]
    BY <1>2, <1>7
  <2>2. work' = w
    BY <1>2, <1>7
  <2>3. ~Accepts(ToSet(rows.events), ToSet(o.events))
    BY <1>3, <1>4, <1>7, FillConflict
  <2>4. Conflicts(c)
    BY <1>3, <2>3 DEF Conflicts, Prepared, Claiming, Registers, Registrable
  <2>5. Linearizes(c)
    BY <1>1, <1>3, <2>1, <2>4, Zenon DEF Linearizes, Answers
  <2>6. pc'[c] = "rollback" /\ answer'[c].status = "conflict"
    BY <2>1 DEF Moves, LInv, TypeInv
  <2>7. Transaction(c)'
    BY <2>6 DEF Transaction, EndPCs
  <2>8. "rollback" \in WritePCs
    BY DEF WritePCs
  <2>9. next' \in [Requests -> Nat] /\ \A d \in Requests \ {c} : next'[d] = next[d]
    BY <1>3, <2>1
  <2>10. LInv'
    BY <1>1, <1>3, <1>5, <2>1, <2>2, <2>5, <2>7, <2>8, <2>9, LockKeeps
  <2> QED BY <2>5, <2>10 DEF Implements
<1> QED BY <1>6, <1>7

\* What is committed is all of the operation.
LEMMA CommitStores ==
  ASSUME LInv, NEW c \in Requests, pc[c] = "commit"
  PROVE  c \in writer /\ answer[c] = NoAnswer /\ (rows' = work => Stores(c))
<1>1. /\ c \in writer /\ answer[c] = NoAnswer /\ work \in LogRows
      /\ Filled(rows, work, op[c], next[c] - 1) /\ Prepared(rows, work, op[c])
      /\ next[c] = Len(op[c].events) + 1
  BY DEF LInv, TypeInv, Transaction, EndPCs
<1>2. op[c].events \in Seq(Facts)
  BY OperationFields DEF LInv
<1>3. next[c] - 1 = Len(op[c].events)
  BY <1>1, <1>2
<1> QED BY <1>1, <1>3, Zenon DEF Stores

\* The commit.
LEMMA CommitStep ==
  ASSUME LInv, NEW c \in Requests, backend = "sqlite", UNCHANGED <<backend, op>>,
         Sqlite!Commit(c)
  PROVE  Implements(c)
<1>1. /\ pc[c] = "commit" /\ Moves(c, "done") /\ Sqlite!Release(c) /\ next' = next /\ rows' = work
      /\ answer' = [answer EXCEPT ![c] =
                      [status |-> IF op[c].kind = "begin" THEN "claimed" ELSE "ok", result |-> {}]]
  BY DEF Sqlite!Commit, Sqlite!Goto, Sqlite!Answer, Moves
<1>2. c \in writer /\ answer[c] = NoAnswer /\ Stores(c)
  BY <1>1, CommitStores
<1>3. Linearizes(c)
  BY <1>1, <1>2, Zenon DEF Linearizes, Answers
<1>4. pc[c] \in ConnectedPCs /\ rows' \in LogRows
  BY <1>1 DEF ConnectedPCs, WritePCs, LInv, TypeInv
<1>5. LInv'
  BY <1>1, <1>2, <1>3, <1>4, ReleaseKeeps
<1> QED BY <1>3, <1>5 DEF Implements

\* A failure before the end: the caller is told, and the rollback is left.
LEMMA FailKeeps ==
  ASSUME LInv, NEW c \in Requests, backend = "sqlite", UNCHANGED <<backend, op>>,
         pc[c] \in ConnectedPCs, answer[c] = NoAnswer, Sqlite!Refuse(c, "error"),
         UNCHANGED <<conn, writer, work, next>>, rows' = rows \/ (c \in writer /\ Stores(c))
  PROVE  Implements(c)
<1>1. /\ Moves(c, "rollback")
      /\ answer' = [answer EXCEPT ![c] = [status |-> "error", result |-> {}]]
  BY DEF Sqlite!Refuse, Sqlite!Answer, Sqlite!Goto, Moves
<1>2. Linearizes(c)
  BY <1>1, Zenon DEF Linearizes, Answers
<1>3. pc'[c] = "rollback" /\ answer'[c].status = "error"
  BY <1>1 DEF Moves, LInv, TypeInv
<1>4. Transaction(c)'
  BY <1>3 DEF Transaction, EndPCs
<1>5. "rollback" \in WritePCs /\ "rollback" \in ConnectedPCs /\ "rollback" \in SqlitePCs
  BY DEF WritePCs, ConnectedPCs, SqlitePCs
<1>6. rows' \in LogRows /\ work' \in LogRows
  BY DEF LInv, TypeInv, Stores
<1>7. LInv'
  BY <1>1, <1>2, <1>4, <1>5, <1>6, QuietKeeps
<1> QED BY <1>2, <1>7 DEF Implements

\* The commit that reports an error, whether it worked or not.
LEMMA CommitFailsStep ==
  ASSUME LInv, NEW c \in Requests, backend = "sqlite", UNCHANGED <<backend, op>>,
         Sqlite!CommitFails(c)
  PROVE  Implements(c)
<1>1. /\ pc[c] = "commit" /\ (rows' = work \/ rows' = rows)
      /\ Sqlite!Refuse(c, "error") /\ UNCHANGED <<conn, writer, work, next>>
  BY DEF Sqlite!CommitFails, Sqlite!connVars
<1>2. c \in writer /\ answer[c] = NoAnswer /\ (rows' = work => Stores(c))
  BY <1>1, CommitStores
<1>3. pc[c] \in ConnectedPCs
  BY <1>1 DEF ConnectedPCs, WritePCs
<1> QED BY <1>1, <1>2, <1>3, FailKeeps

\* Any other statement that fails.
LEMMA StatementFailsStep ==
  ASSUME LInv, NEW c \in Requests, backend = "sqlite", UNCHANGED <<backend, op>>,
         Sqlite!StatementFails(c)
  PROVE  Implements(c)
<1>1. /\ pc[c] \in {"insert_action", "insert_attempt", "insert_events"} /\ rows' = rows
      /\ Sqlite!Refuse(c, "error") /\ UNCHANGED <<conn, writer, work, next>>
  BY DEF Sqlite!StatementFails, Sqlite!connVars
<1>2. answer[c] = NoAnswer
  BY <1>1 DEF LInv, Transaction, EndPCs
<1>3. pc[c] \in ConnectedPCs
  BY <1>1 DEF ConnectedPCs, WritePCs
<1> QED BY <1>1, <1>2, <1>3, FailKeeps

\* The deferred rollback.
LEMMA RollbackStep ==
  ASSUME LInv, NEW c \in Requests, backend = "sqlite", UNCHANGED <<backend, op>>,
         Sqlite!Rollback(c)
  PROVE  Implements(c)
<1>1. /\ pc[c] = "rollback" /\ Moves(c, "done") /\ Sqlite!Release(c)
      /\ UNCHANGED <<rows, answer, next>>
  BY DEF Sqlite!Rollback, Sqlite!Goto, Moves
<1>2. pc[c] \in ConnectedPCs /\ rows' \in LogRows
  BY <1>1 DEF ConnectedPCs, WritePCs, LInv, TypeInv
<1>3. LInv'
  BY <1>1, <1>2, ReleaseKeeps
<1> QED BY <1>1, <1>3 DEF Implements

\* The query of a reader.
LEMMA QueryStep ==
  ASSUME LInv, NEW c \in Requests, backend = "sqlite", UNCHANGED <<backend, op>>,
         Sqlite!Query(c)
  PROVE  Implements(c)
<1>1. /\ pc[c] = "query" /\ Moves(c, "rows") /\ UNCHANGED <<rows, answer, conn, writer, work, next>>
  BY DEF Sqlite!Query, Sqlite!Goto, Sqlite!connVars, Moves
<1>2. /\ pc'[c] = "rows" /\ op' = op /\ answer'[c] = NoAnswer /\ c \notin writer
      /\ op[c].kind \in {"events", "action", "attempts"}
  BY <1>1 DEF Moves, LInv, TypeInv, HoldInv, WritePCs, Transaction, EndPCs
<1>3. Transaction(c)'
  BY <1>2 DEF Transaction
<1>4. "rows" \in SqlitePCs /\ "rows" \in ConnectedPCs /\ pc[c] \in ConnectedPCs
  BY <1>1 DEF SqlitePCs, ConnectedPCs
<1>5. rows' \in LogRows /\ work' \in LogRows
  BY <1>1 DEF LInv, TypeInv
<1>6. LInv'
  BY <1>1, <1>2, <1>3, <1>4, <1>5, QuietKeeps
<1> QED BY <1>1, <1>6 DEF Implements

\* The row set of a reader, and its failure.
LEMMA ReadStep ==
  ASSUME LInv, NEW c \in Requests, backend = "sqlite", UNCHANGED <<backend, op>>,
         Sqlite!ReadRows(c) \/ Sqlite!ReadFails(c)
  PROVE  Implements(c)
<1>1. /\ pc[c] \in {"query", "rows"} /\ Moves(c, "done") /\ Sqlite!Release(c)
      /\ UNCHANGED <<rows, next>>
      /\ \/ answer' = [answer EXCEPT ![c] = [status |-> "read", result |-> Sqlite!ReadResult(c)]]
         \/ answer' = [answer EXCEPT ![c] = [status |-> "error", result |-> {}]]
  BY DEF Sqlite!ReadRows, Sqlite!ReadFails, Sqlite!Goto, Sqlite!Answer, Moves
<1>2. Sqlite!ReadResult(c) = ReadResult(c)
  BY SqliteNames, Zenon
<1>3. /\ answer[c] = NoAnswer /\ op[c].kind \in {"events", "action", "attempts"}
      /\ rows' \in LogRows
  BY <1>1 DEF LInv, TypeInv, Transaction, EndPCs
<1>4. Linearizes(c)
  BY <1>1, <1>2, <1>3, Zenon DEF Linearizes, Answers
<1>5. pc[c] \in ConnectedPCs
  BY <1>1 DEF ConnectedPCs
<1>6. LInv'
  BY <1>1, <1>3, <1>4, <1>5, ReleaseKeeps
<1> QED BY <1>4, <1>6 DEF Implements

\* Every step of the SQLite log.
LEMMA SqliteSteps ==
  ASSUME LInv, NEW c \in Requests, backend = "sqlite", Sqlite!Step(c), UNCHANGED <<backend, op>>
  PROVE  Implements(c)
BY ConnectStep, InsertActionStep, InsertAttemptStep, RollbackDuplicateStep, InsertEventStep,
   CommitStep, CommitFailsStep, StatementFailsStep, RollbackStep, QueryStep, ReadStep, Zenon
   DEF Sqlite!Step

\* A process dies.
LEMMA CrashStep ==
  ASSUME LInv, NEW p \in Processes, backend = "sqlite", UNCHANGED <<backend, op>>, Sqlite!Crash(p)
  PROVE  LInv' /\ UNCHANGED <<rows, answer>>
<1> DEFINE lost == {c \in Requests : Process[c] = p /\ pc[c] \notin {"idle", "done", "crashed"}}
<1>1. /\ pc' = [c \in Requests |-> IF c \in lost THEN "crashed" ELSE pc[c]]
      /\ conn' = [conn EXCEPT ![p] = {}]
      /\ writer' = writer \ lost
      /\ work' = IF writer \cap lost # {} THEN rows ELSE work
      /\ UNCHANGED <<rows, answer, next>>
  BY DEF Sqlite!Crash
<1>2. \A c \in Requests : pc'[c] = IF c \in lost THEN "crashed" ELSE pc[c]
  BY <1>1
<1>3. \A q \in Processes : conn'[q] = IF q = p THEN {} ELSE conn[q]
  BY <1>1 DEF LInv, TypeInv
<1>4. \A c \in Requests : Process[c] \in Processes
  BY ProcessAssumption
<1>5. \A c \in Requests : Process[c] = p => pc'[c] \in {"idle", "done", "crashed"}
  BY <1>2
<1>6. /\ \A c \in Requests : Process[c] # p => pc'[c] = pc[c]
      /\ \A c \in Requests : pc'[c] = pc[c] \/ (pc'[c] = "crashed" /\ c \in lost)
  BY <1>2
<1> HIDE DEF lost
<1>7. TypeInv'
  <2>1. "crashed" \in SqlitePCs
    BY DEF SqlitePCs
  <2>2. pc' \in [Requests -> MemoryPCs \cup SqlitePCs]
    BY <1>1, <2>1 DEF LInv, TypeInv
  <2>3. work' \in LogRows /\ writer' \in SUBSET Requests /\ conn' \in [Processes -> SUBSET Requests]
    BY <1>1 DEF LInv, TypeInv
  <2> QED BY <1>1, <2>2, <2>3 DEF LInv, TypeInv
<1>8. HoldInv'
  <2>1. /\ "crashed" \in SqlitePCs /\ \A l \in {"idle", "done", "crashed"} : l \notin ConnectedPCs
    BY DEF SqlitePCs, ConnectedPCs, WritePCs
  <2>2. \A c \in Requests : pc'[c] \in SqlitePCs
    BY <1>6, <2>1 DEF LInv, HoldInv
  <2>3. \A c \in Requests : c \in conn'[Process[c]] <=> pc'[c] \in ConnectedPCs
    BY <1>3, <1>4, <1>5, <1>6, <2>1 DEF LInv, HoldInv
  <2>4. /\ \A q \in Processes : \A c \in conn'[q] : Process[c] = q
        /\ \A q \in Processes : \A c, d \in conn'[q] : c = d
    BY <1>3 DEF LInv, HoldInv
  <2>5. \A c \in writer' : c \in Requests /\ c \in writer /\ pc'[c] = pc[c]
    BY <1>1, <1>6 DEF LInv, TypeInv
  <2>6. /\ \A c \in writer' : pc'[c] \in WritePCs
        /\ \A c, d \in writer' : c = d
    BY <2>5 DEF LInv, HoldInv
  <2> QED BY <2>2, <2>3, <2>4, <2>6 DEF HoldInv
<1>9. ASSUME NEW d \in Requests PROVE Transaction(d)'
  <2>1. CASE d \in lost
    <3>1. pc'[d] = "crashed"
      BY <1>2, <2>1
    <3> QED BY <3>1 DEF Transaction, EndPCs
  <2>2. CASE d \notin lost
    <3>1. pc'[d] = pc[d] /\ answer'[d] = answer[d] /\ next'[d] = next[d]
      BY <1>1, <1>2, <2>2
    <3>2. d \in writer' <=> d \in writer
      BY <1>1, <2>2
    <3>3. d \in writer => writer \cap lost = {}
      BY <2>2 DEF LInv, HoldInv
    <3>4. d \in writer => rows' = rows /\ work' = work
      BY <1>1, <3>3
    <3> QED BY <3>1, <3>2, <3>4, OtherTransactions
  <2> QED BY <2>1, <2>2
<1> QED BY <1>1, <1>7, <1>8, <1>9 DEF LInv

\* A caller begins.
LEMMA CallStep ==
  ASSUME LInv, NEW c \in Requests, Call(c)
  PROVE  LInv' /\ UNCHANGED <<rows, answer>>
<1> DEFINE label == IF backend = "memory" THEN "enter" ELSE "connect"
<1>1. /\ pc[c] = "idle" /\ Moves(c, label)
      /\ UNCHANGED <<rows, answer, conn, writer, work, next>>
  BY DEF Call, Goto, Moves
<1>2. /\ label \in {"enter", "connect"}
      /\ backend = "memory" => label \in MemoryPCs
      /\ backend = "sqlite" => label \in SqlitePCs
      /\ label \in MemoryPCs \cup SqlitePCs
      /\ label \notin ConnectedPCs /\ pc[c] \notin ConnectedPCs /\ pc[c] \notin WritePCs
  BY <1>1 DEF MemoryPCs, SqlitePCs, ConnectedPCs, WritePCs
<1> HIDE DEF label
<1>3. TypeInv'
  <2>1. /\ rows' \in LogRows /\ work' \in LogRows /\ conn' \in [Processes -> SUBSET Requests]
        /\ writer' \in SUBSET Requests /\ next' \in [Requests -> Nat] /\ TypeInv
    BY <1>1 DEF LInv, TypeInv
  <2> QED BY <1>1, <1>2, <2>1, TypeKept
<1>4. c \notin writer
  BY <1>2 DEF LInv, HoldInv
<1>5. HoldInv'
  BY <1>1, <1>2, <1>4, HoldKept
<1>6. ASSUME NEW d \in Requests PROVE Transaction(d)'
  <2>1. CASE d # c
    <3>1. pc'[d] = pc[d] /\ op' = op
      BY <1>1, <2>1 DEF Moves, LInv, TypeInv
    <3> QED BY <1>1, <3>1, OtherTransactions
  <2>2. CASE d = c
    <3>1. pc'[c] = label /\ answer'[c] = NoAnswer /\ next'[c] = 1
      BY <1>1 DEF Moves, LInv, TypeInv, Transaction, EndPCs
    <3> QED BY <1>2, <2>2, <3>1 DEF Transaction
  <2> QED BY <2>1, <2>2
<1> QED BY <1>1, <1>3, <1>5, <1>6 DEF LInv

------------------------------------------------------------------------------
(* Every behaviour.                                                        *)

\* What the callers see of a step.
Observed == op' = op /\ (UNCHANGED <<rows, answer>> \/ \E c \in Requests : Linearizes(c))

\* Every step keeps the invariant, and is nothing to the callers or the one
\* instant of an operation.
LEMMA EveryStep ==
  ASSUME LInv, [Next]_vars
  PROVE  LInv' /\ Observed
<1>1. ASSUME UNCHANGED vars PROVE LInv' /\ Observed
  <2>1. UNCHANGED <<backend, rows, op, pc, answer, conn, writer, work, next>>
    BY <1>1 DEF vars
  <2>2. TypeInv'
    BY <2>1 DEF LInv, TypeInv
  <2>3. HoldInv'
    BY <2>1 DEF LInv, HoldInv
  <2>4. ASSUME NEW d \in Requests PROVE Transaction(d)'
    BY <2>1, OtherTransactions
  <2> QED BY <2>1, <2>2, <2>3, <2>4 DEF LInv, Observed
<1>2. ASSUME NEW c \in Requests, Call(c) PROVE LInv' /\ Observed
  BY <1>2, CallStep DEF Observed, Call
<1>3. ASSUME NEW c \in Requests, ConnectFails(c) PROVE LInv' /\ Observed
  <2>1. Implements(c) /\ op' = op
    BY <1>3, ConnectFailsStep DEF ConnectFails
  <2> QED BY <2>1 DEF Implements, Observed
<1>4. ASSUME NEW c \in Requests, Step(c) PROVE LInv' /\ Observed
  <2>1. CASE backend = "memory"
    <3>1. Memory!Step(c) /\ UNCHANGED <<backend, op, conn, writer, work, next>>
      BY <1>4, <2>1 DEF Step
    <3> QED BY <2>1, <3>1, MemorySteps DEF Observed
  <2>2. CASE backend = "sqlite"
    <3>1. Sqlite!Step(c) /\ UNCHANGED <<backend, op>>
      BY <1>4, <2>2 DEF Step
    <3> QED BY <2>2, <3>1, SqliteSteps DEF Implements, Observed
  <2> QED BY <1>4, <2>1, <2>2 DEF Step
<1>5. ASSUME NEW p \in Processes, Crash(p) PROVE LInv' /\ Observed
  BY <1>5, CrashStep DEF Crash, Observed
<1> QED BY <1>1, <1>2, <1>3, <1>4, <1>5 DEF Next

\* The empty log.
LEMMA EmptyLogType == EmptyLog \in LogRows
BY DEF EmptyLog, LogRows

\* Nobody has been answered when nobody has begun.
LEMMA InitInv ==
  ASSUME Init PROVE LInv
<1>1. TypeInv
  <2>1. "idle" \in MemoryPCs /\ "none" \in Statuses
    BY DEF MemoryPCs, Statuses
  <2>2. rows \in LogRows /\ work \in LogRows
    BY EmptyLogType DEF Init
  <2>3. DOMAIN op = Requests /\ \A c \in Requests : op[c] \in Operations[c]
    BY DEF Init
  <2>4. /\ DOMAIN answer = Requests
        /\ \A c \in Requests :
             answer[c] = [status |-> answer[c].status, result |-> answer[c].result]
               /\ answer[c].status \in Statuses
    BY <2>1 DEF Init, NoAnswer
  <2> QED BY <2>1, <2>2, <2>3, <2>4 DEF Init, TypeInv
<1>2. HoldInv
  <2>1. "idle" \in MemoryPCs /\ "idle" \in SqlitePCs /\ "idle" \notin ConnectedPCs
    BY DEF MemoryPCs, SqlitePCs, ConnectedPCs, WritePCs
  <2> QED BY <2>1, ProcessAssumption DEF Init, HoldInv
<1>3. \A c \in Requests : Transaction(c)
  <2>1. ASSUME NEW c \in Requests PROVE pc[c] = "idle" /\ answer[c] = NoAnswer /\ next[c] = 1
    BY DEF Init
  <2> QED BY <2>1 DEF Transaction
<1> QED BY <1>1, <1>2, <1>3 DEF LInv

\* The invariant of both logs: who holds the connection and the write lock,
\* and how far every transaction is.
THEOREM LogsInductive == Spec => []LInv
<1>1. Init => LInv
  BY InitInv
<1>2. LInv /\ [Next]_vars => LInv'
  BY EveryStep
<1> QED BY <1>1, <1>2, PTL DEF Spec

\* Types: what is stored, what is answered, who holds what.  A process has one
\* connection, and the write lock is held through one.
THEOREM LogsTypeCorrect == Spec => []LogsTypeOK
<1>1. LInv => LogsTypeOK
  <2> SUFFICES ASSUME LInv PROVE LogsTypeOK
    OBVIOUS
  <2>1. ASSUME NEW r \in LogRows
        PROVE  /\ r.actions \in [ActionIDs -> Intents \cup {NoIntent}]
               /\ r.attempts \in Seq(AttemptIDs)
               /\ \A i \in DOMAIN r.events : r.events[i].kind \in EventKind
    <3>1. /\ r.actions \in [ActionIDs -> Intents \cup {NoIntent}]
          /\ r.attempts \in Seq(AttemptIDs)
          /\ \A i \in DOMAIN r.events : r.events[i] \in Facts
      BY <2>1 DEF LogRows
    <3> QED BY <3>1, FactIsRecord
  <2>2. ASSUME NEW p \in Processes
        PROVE  conn[p] \subseteq {c \in Requests : Process[c] = p} /\ Cardinality(conn[p]) <= 1
    <3>1. conn[p] \subseteq {c \in Requests : Process[c] = p}
      BY DEF LInv, TypeInv, HoldInv
    <3>2. CASE conn[p] = {}
      BY <3>1, <3>2, FS_EmptySet
    <3>3. ASSUME NEW c \in conn[p] PROVE Cardinality(conn[p]) <= 1
      <4>1. conn[p] = {c}
        BY DEF LInv, HoldInv
      <4>2. Cardinality({c}) = 1
        BY FS_Singleton, Zenon
      <4>3. Cardinality(conn[p]) = 1
        BY <4>1, <4>2, Zenon
      <4> QED BY <4>3
    <3> QED BY <3>1, <3>2, <3>3
  <2>3. writer \subseteq UNION {conn[p] : p \in Processes}
    <3>1. ASSUME NEW c \in writer PROVE Process[c] \in Processes /\ c \in conn[Process[c]]
      BY ProcessAssumption DEF LInv, TypeInv, HoldInv, ConnectedPCs
    <3> QED BY <3>1
  <2>4. backend \in Backends /\ rows \in LogRows /\ work \in LogRows /\ next \in [Requests -> Nat]
    BY DEF LInv, TypeInv
  <2>5. \A c \in Requests :
          answer[c].status \in {"none", "claimed", "duplicate", "conflict", "ok", "read", "error"}
    BY DEF LInv, TypeInv, Statuses
  <2> QED BY <2>1, <2>2, <2>3, <2>4, <2>5 DEF LogsTypeOK
<1> QED BY <1>1, LogsInductive, PTL

------------------------------------------------------------------------------
(* Claims are whole.                                                       *)

\* What an operation that takes effect adds, and that nothing goes away.
LEMMA StoresAdds ==
  ASSUME LInv, NEW c \in Requests, Stores(c)
  PROVE  /\ ToSet(rows'.events) = ToSet(rows.events) \cup ToSet(op[c].events)
         /\ Continues(rows.events, rows'.events)
         /\ Accepts(ToSet(rows.events), ToSet(op[c].events))
         /\ \/ /\ op[c].kind = "begin" /\ Registrable(c)
               /\ op[c].attemptID \notin ToSet(rows.attempts)
               /\ rows'.attempts = Append(rows.attempts, op[c].attemptID)
               /\ ToSet(rows'.attempts) = ToSet(rows.attempts) \cup {op[c].attemptID}
               /\ rows'.actions = [rows.actions EXCEPT ![op[c].action.id] = op[c].action.intent]
            \/ /\ op[c].kind = "append"
               /\ rows'.actions = rows.actions /\ rows'.attempts = rows.attempts
<1>1. op[c].events \in Seq(Facts) /\ op[c].attemptID \in AttemptIDs
  BY OperationFields DEF LInv
<1>2. FirstFacts(op[c], Len(op[c].events)) = ToSet(op[c].events)
  BY <1>1, AllFacts, Zenon
<1>3. /\ ToSet(rows'.events) = ToSet(rows.events) \cup ToSet(op[c].events)
      /\ Continues(rows.events, rows'.events)
      /\ Accepts(ToSet(rows.events), ToSet(op[c].events))
  BY <1>2, Zenon DEF Stores, Filled
<1>4. CASE op[c].kind = "begin"
  <2>1. Claiming(rows, rows', op[c])
    BY <1>4 DEF Stores, Prepared
  <2>2. rows.attempts \in Seq(AttemptIDs)
    BY DEF LInv, TypeInv, LogRows
  <2>3. ToSet(Append(rows.attempts, op[c].attemptID)) = ToSet(rows.attempts) \cup {op[c].attemptID}
    BY <1>1, <2>2, AppendToSet
  <2> QED BY <1>3, <1>4, <2>1, <2>3, Zenon DEF Claiming, Registers, Registrable
<1>5. CASE op[c].kind # "begin"
  BY <1>3, <1>5 DEF Stores, Prepared
<1> QED BY <1>4, <1>5

\* The claim of c is on disk.
OnDisk(c) ==
  /\ op[c].attemptID \in ToSet(rows.attempts)
  /\ ToSet(op[c].events) \subseteq ToSet(rows.events)
  /\ rows.actions[op[c].action.id] = op[c].action.intent

Begins == {c \in Requests : op[c].kind = "begin"}

\* The parts of ClaimIsWhole.
ToldClaims == \A c \in Begins : answer[c].status = "claimed" => OnDisk(c)

OwnedClaims ==
  \A a \in ToSet(rows.attempts) :
    \E c \in Begins : op[c].attemptID = a /\ OnDisk(c) /\ answer[c].status \in {"claimed", "error"}

StartedClaims ==
  \A e \in ToSet(rows.events) :
    e.kind = "attempt_started" => e.attemptID \in ToSet(rows.attempts)

ClaimedActions ==
  \A a \in ActionIDs : rows.actions[a] # NoIntent =>
    \E c \in Begins : op[c].action.id = a /\ op[c].attemptID \in ToSet(rows.attempts)

\* They are all of it.
LEMMA WholeParts ==
  ClaimIsWhole <=> ToldClaims /\ OwnedClaims /\ StartedClaims /\ ClaimedActions
BY Zenon DEF ClaimIsWhole, ToldClaims, OwnedClaims, StartedClaims, ClaimedActions, OnDisk, Begins

\* When nothing is stored, the one that is answered had no answer before.
LEMMA WholeUnstored ==
  ASSUME LInv, ClaimIsWhole, op' = op, rows' = rows, NEW c \in Requests, answer[c] = NoAnswer,
         \A d \in Requests : d # c => answer'[d] = answer[d],
         answer'[c].status # "claimed"
  PROVE  ClaimIsWhole'
<1>1. ToldClaims /\ OwnedClaims /\ StartedClaims /\ ClaimedActions
  BY WholeParts
<1>2. answer[c].status = "none"
  BY DEF NoAnswer
<1>3. \A d \in Requests : OnDisk(d) <=> OnDisk(d)'
  BY DEF OnDisk
<1>4. ToldClaims'
  BY <1>1, <1>3 DEF ToldClaims, Begins
<1>5. OwnedClaims'
  <2>1. \A d \in Requests : answer[d].status \in {"claimed", "error"} => answer'[d] = answer[d]
    BY <1>2
  <2> QED BY <1>1, <1>3, <2>1 DEF OwnedClaims, Begins
<1>6. StartedClaims' /\ ClaimedActions'
  BY <1>1 DEF StartedClaims, ClaimedActions, Begins
<1> QED BY <1>4, <1>5, <1>6, WholeParts, PTL

\* When an operation is stored, what was on disk still is: an intent is only
\* registered where there was none, or this one.
LEMMA OnDiskStays ==
  ASSUME LInv, op' = op, NEW c \in Requests, Stores(c), NEW d \in Requests, OnDisk(d)
  PROVE  OnDisk(d)'
<1>1. /\ ToSet(rows.events) \subseteq ToSet(rows'.events)
      /\ ToSet(rows.attempts) \subseteq ToSet(rows'.attempts)
  BY StoresAdds
<1>2. rows'.actions[op[d].action.id] = rows.actions[op[d].action.id]
  <2>1. op[d].action.id \in ActionIDs /\ op[d].action.intent \in Intents /\ op[c].action.id \in ActionIDs
    BY OperationFields DEF LInv
  <2>2. rows.actions \in [ActionIDs -> Intents \cup {NoIntent}]
    BY DEF LInv, TypeInv, LogRows
  <2>3. rows.actions[op[d].action.id] # NoIntent
    BY <2>1, NoIntentAssumption DEF OnDisk
  <2> QED BY <2>1, <2>2, <2>3, StoresAdds DEF Registrable
<1> QED BY <1>1, <1>2 DEF OnDisk

\* A stored operation keeps the claims whole.
LEMMA WholeStored ==
  ASSUME LInv, ClaimIsWhole, op' = op, NEW c \in Requests, Stores(c), answer[c] = NoAnswer,
         \A d \in Requests : d # c => answer'[d] = answer[d],
         answer'[c].status \in {IF op[c].kind = "begin" THEN "claimed" ELSE "ok", "error"}
  PROVE  ClaimIsWhole'
<1>1. ToldClaims /\ OwnedClaims /\ StartedClaims /\ ClaimedActions
  BY WholeParts
<1>2. \A d \in Requests : OnDisk(d) => OnDisk(d)'
  BY OnDiskStays
<1>3. op[c].kind = "begin" => OnDisk(c)'
  <2>1. ASSUME op[c].kind = "begin"
        PROVE  rows'.actions[op[c].action.id] = op[c].action.intent
    <3>1. op[c].action.id \in ActionIDs /\ rows.actions \in [ActionIDs -> Intents \cup {NoIntent}]
      BY OperationFields DEF LInv, TypeInv, LogRows
    <3> QED BY <2>1, <3>1, StoresAdds
  <2>2. op[c].kind = "begin" =>
          op[c].attemptID \in ToSet(rows'.attempts) /\ ToSet(op[c].events) \subseteq ToSet(rows'.events)
    BY StoresAdds
  <2> QED BY <2>1, <2>2 DEF OnDisk
<1>4. \A d \in Requests : answer[d].status \in {"claimed", "error"} => answer'[d] = answer[d]
  BY DEF NoAnswer
<1>5. ToldClaims'
  BY <1>1, <1>2, <1>3 DEF ToldClaims, Begins
<1>6. OwnedClaims'
  <2>1. ASSUME NEW a \in ToSet(rows.attempts)
        PROVE  \E d \in Begins' : /\ op'[d].attemptID = a /\ OnDisk(d)'
                                  /\ answer'[d].status \in {"claimed", "error"}
    <3>1. PICK d \in Begins : /\ op[d].attemptID = a /\ OnDisk(d)
                              /\ answer[d].status \in {"claimed", "error"}
      BY <1>1 DEF OwnedClaims
    <3>2. d \in Begins' /\ d \in Requests
      BY <3>1 DEF Begins
    <3> QED BY <1>2, <1>4, <3>1, <3>2
  <2>2. ASSUME op[c].kind = "begin"
        PROVE  /\ c \in Begins' /\ op'[c].attemptID = op[c].attemptID /\ OnDisk(c)'
               /\ answer'[c].status \in {"claimed", "error"}
    BY <1>3, <2>2 DEF Begins
  <2>3. ASSUME NEW a \in ToSet(rows'.attempts), a \notin ToSet(rows.attempts)
        PROVE  op[c].kind = "begin" /\ a = op[c].attemptID
    BY <2>3, StoresAdds
  <2>4. ASSUME NEW a \in ToSet(rows'.attempts)
        PROVE  \E d \in Begins' : /\ op'[d].attemptID = a /\ OnDisk(d)'
                                  /\ answer'[d].status \in {"claimed", "error"}
    BY <2>1, <2>2, <2>3, Zenon
  <2> QED BY <2>4, Zenon DEF OwnedClaims
<1>7. StartedClaims'
  <2>1. \A e \in ToSet(op[c].events) :
          IF op[c].kind = "begin" THEN e.attemptID = op[c].attemptID ELSE e.kind # "attempt_started"
    BY OperationIsValid DEF ValidOperation, LInv
  <2>2. ASSUME NEW e \in ToSet(rows'.events), e.kind = "attempt_started"
        PROVE  e.attemptID \in ToSet(rows'.attempts)
    <3>1. CASE e \in ToSet(rows.events)
      <4>1. e.attemptID \in ToSet(rows.attempts)
        BY <1>1, <2>2, <3>1 DEF StartedClaims
      <4>2. ToSet(rows.attempts) \subseteq ToSet(rows'.attempts)
        BY StoresAdds
      <4> QED BY <4>1, <4>2
    <3>2. CASE e \in ToSet(op[c].events)
      BY <2>1, <2>2, <3>2, StoresAdds
    <3> QED BY <3>1, <3>2, StoresAdds
  <2> QED BY <2>2, Zenon DEF StartedClaims
<1>8. ClaimedActions'
  <2>1. ToSet(rows.attempts) \subseteq ToSet(rows'.attempts)
    BY StoresAdds
  <2>2. ASSUME NEW a \in ActionIDs, rows'.actions[a] # NoIntent
        PROVE  \/ rows.actions[a] # NoIntent
               \/ op[c].kind = "begin" /\ op[c].action.id = a
                    /\ op[c].attemptID \in ToSet(rows'.attempts)
    <3>1. rows.actions \in [ActionIDs -> Intents \cup {NoIntent}]
      BY DEF LInv, TypeInv, LogRows
    <3> QED BY <2>2, <3>1, StoresAdds
  <2> QED BY <1>1, <2>1, <2>2 DEF ClaimedActions, Begins
<1> QED BY <1>5, <1>6, <1>7, <1>8, WholeParts, PTL

\* What an instant does to the answers, in the two cases.
LEMMA LinearizesCases ==
  ASSUME LInv, NEW c \in Requests, Linearizes(c)
  PROVE  /\ answer[c] = NoAnswer
         /\ \A d \in Requests : d # c => answer'[d] = answer[d]
         /\ \/ /\ Stores(c)
               /\ answer'[c].status \in {IF op[c].kind = "begin" THEN "claimed" ELSE "ok", "error"}
            \/ rows' = rows /\ answer'[c].status # "claimed"
<1>1. answer[c] = NoAnswer /\ \A d \in Requests : d # c => answer'[d] = answer[d]
  BY LinearizesAnswers DEF LInv
<1>2. \A status, result : Answers(c, status, result) => answer'[c].status = status
  BY DEF Answers, LInv, TypeInv
<1> QED BY <1>1, <1>2 DEF Linearizes

\* A claim is whole and has an owner: the attempt, the intent and the first
\* facts are stored together or not at all, whoever was told claimed has them
\* on disk, crashes or not, and a claim nobody was told of is that of a caller
\* who got an error.
THEOREM ClaimsAreWhole == Spec => []ClaimIsWhole
<1>1. Init => ClaimIsWhole
  <2> SUFFICES ASSUME Init PROVE ClaimIsWhole
    OBVIOUS
  <2>1. /\ ToSet(rows.attempts) = {} /\ ToSet(rows.events) = {}
        /\ \A a \in ActionIDs : rows.actions[a] = NoIntent
    BY DEF Init, EmptyLog, ToSet
  <2>2. \A c \in Requests : answer[c].status = "none"
    BY DEF Init, NoAnswer
  <2> QED BY <2>1, <2>2, WholeParts
          DEF ToldClaims, OwnedClaims, StartedClaims, ClaimedActions, Begins
<1>2. LInv /\ ClaimIsWhole /\ [Next]_vars => ClaimIsWhole'
  <2> SUFFICES ASSUME LInv, ClaimIsWhole, [Next]_vars PROVE ClaimIsWhole'
    OBVIOUS
  <2>1. Observed
    BY EveryStep
  <2>2. CASE UNCHANGED <<rows, answer>>
    BY <2>1, <2>2 DEF ClaimIsWhole, Observed
  <2>3. ASSUME NEW c \in Requests, Linearizes(c), op' = op PROVE ClaimIsWhole'
    BY <2>3, LinearizesCases, WholeStored, WholeUnstored, Zenon
  <2> QED BY <2>1, <2>2, <2>3 DEF Observed
<1> QED BY <1>1, <1>2, LogsInductive, PTL DEF Spec

------------------------------------------------------------------------------
(* Reads follow the append order.                                          *)

\* A sequence that another continues is a prefix of it.
LEMMA ContinuesPrefix ==
  ASSUME NEW T, NEW s \in Seq(T), NEW t \in Seq(T), Continues(s, t)
  PROVE  IsPrefix(s, t)
<1>1. Len(s) \in Nat /\ Len(t) \in Nat /\ DOMAIN s = 1 .. Len(s) /\ DOMAIN t = 1 .. Len(t)
  OBVIOUS
<1>2. Len(s) <= Len(t) /\ \A i \in 1 .. Len(s) : s[i] = t[i]
  BY <1>1 DEF Continues
<1>3. SubSeq(s, 1, Len(s)) = SubSeq(t, 1, Len(s))
  BY <1>1, <1>2
<1> QED BY <1>2, <1>3 DEF IsPrefix

\* Continuing is transitive.
LEMMA ContinuesTransitive ==
  ASSUME NEW s, NEW t, NEW u, Continues(s, t), Continues(t, u)
  PROVE  Continues(s, u)
BY DEF Continues

\* The log of facts and the list of attempts only grow at their ends.
LEMMA LogsContinue ==
  ASSUME LInv, NEW c \in Requests, Linearizes(c)
  PROVE  /\ Continues(rows.events, rows'.events) /\ Continues(rows.attempts, rows'.attempts)
         /\ rows'.events \in Seq(Facts) /\ rows'.attempts \in Seq(AttemptIDs)
<1>1. rows.events \in Seq(Facts) /\ rows.attempts \in Seq(AttemptIDs)
  BY DEF LInv, TypeInv, LogRows
<1>2. CASE rows' = rows
  BY <1>1, <1>2 DEF Continues
<1>3. CASE Stores(c)
  <2>1. rows'.events \in Seq(Facts) /\ rows'.attempts \in Seq(AttemptIDs)
    BY <1>3 DEF Stores, LogRows
  <2>2. Continues(rows.events, rows'.events)
    BY <1>3, StoresAdds
  <2>3. rows'.attempts = rows.attempts \/ rows'.attempts = Append(rows.attempts, op[c].attemptID)
    BY <1>3, StoresAdds
  <2>4. op[c].attemptID \in AttemptIDs
    BY OperationFields DEF LInv
  <2>5. Continues(rows.attempts, rows.attempts)
    BY DEF Continues
  <2>6. Continues(rows.attempts, Append(rows.attempts, op[c].attemptID))
    BY <1>1, <2>4, AppendToSet
  <2> QED BY <2>1, <2>2, <2>3, <2>5, <2>6, Zenon
<1> QED BY <1>2, <1>3, LinearizesCases, Zenon

\* A beginning of a log selects the same positions when the log grows.
LEMMA PositionsStay ==
  ASSUME NEW l \in Seq(Facts), NEW m \in Seq(Facts), Continues(l, m), NEW id, NEW n \in 0 .. Len(l)
  PROVE  /\ n \in 0 .. Len(m) /\ PositionsOf(m, id, n) = PositionsOf(l, id, n)
         /\ PositionsOf(l, id, n) \subseteq DOMAIN l
<1>1. /\ Len(l) \in Nat /\ Len(m) \in Nat /\ DOMAIN l = 1 .. Len(l) /\ DOMAIN m = 1 .. Len(m)
      /\ \A k \in 1 .. n : k \in DOMAIN l
  OBVIOUS
<1>2. Len(l) <= Len(m) /\ \A k \in 1 .. n : m[k] = l[k]
  BY <1>1 DEF Continues
<1> QED BY <1>1, <1>2 DEF PositionsOf

\* What a read returned is in the order of a beginning of the log.
EventsRead(c) ==
  \E n \in 0 .. Len(rows.events) : \A s \in answer[c].result :
    Lists(s, rows.events, PositionsOf(rows.events, op[c].attemptID, n))

AttemptsRead(c) ==
  \A s \in answer[c].result : s \in Seq(AttemptIDs) /\ Continues(s, rows.attempts)

ReadInv ==
  \A c \in Requests : answer[c].status = "read" =>
    /\ op[c].kind = "events" => EventsRead(c)
    /\ op[c].kind = "attempts" => AttemptsRead(c)

\* What has been read stays so.
LEMMA ReadStays ==
  ASSUME LInv, op' = op, NEW c \in Requests, Linearizes(c), NEW d \in Requests,
         answer'[d] = answer[d]
  PROVE  (EventsRead(d) => EventsRead(d)') /\ (AttemptsRead(d) => AttemptsRead(d)')
<1>1. /\ Continues(rows.events, rows'.events) /\ Continues(rows.attempts, rows'.attempts)
      /\ rows'.events \in Seq(Facts) /\ rows.events \in Seq(Facts)
  BY LogsContinue DEF LInv, TypeInv, LogRows
<1>2. ASSUME EventsRead(d) PROVE EventsRead(d)'
  <2> DEFINE l == rows.events
             m == rows'.events
             id == op[d].attemptID
  <2>1. PICK n \in 0 .. Len(l) : \A s \in answer[d].result : Lists(s, l, PositionsOf(l, id, n))
    BY <1>2 DEF EventsRead
  <2> HIDE DEF l, m, id
  <2>2. /\ n \in 0 .. Len(m) /\ PositionsOf(m, id, n) = PositionsOf(l, id, n)
        /\ PositionsOf(l, id, n) \subseteq DOMAIN l
    BY <1>1, PositionsStay DEF l, m
  <2>3. \A s \in answer[d].result : Lists(s, m, PositionsOf(l, id, n))
    BY <1>1, <2>1, <2>2, ListsContinues DEF l, m
  <2>4. \A s \in answer'[d].result : Lists(s, m, PositionsOf(m, id, n))
    BY <2>2, <2>3
  <2> QED BY <2>2, <2>4 DEF EventsRead, m, id
<1>3. ASSUME AttemptsRead(d) PROVE AttemptsRead(d)'
  <2>1. ASSUME NEW s \in answer[d].result
        PROVE  s \in Seq(AttemptIDs) /\ Continues(s, rows'.attempts)
    BY <1>1, <1>3, ContinuesTransitive, Zenon DEF AttemptsRead
  <2> QED BY <2>1 DEF AttemptsRead
<1> QED BY <1>2, <1>3

\* What is read now is in the order of the log.
LEMMA ReadNow ==
  ASSUME LInv, op' = op, NEW c \in Requests, Linearizes(c), answer'[c].status = "read"
  PROVE  (op[c].kind = "events" => EventsRead(c)') /\ (op[c].kind = "attempts" => AttemptsRead(c)')
<1>1. \A status, result : Answers(c, status, result) =>
        answer'[c].status = status /\ answer'[c].result = result
  BY DEF Answers, LInv, TypeInv
<1>2. rows' = rows /\ answer'[c].result = ReadResult(c)
  BY <1>1 DEF Linearizes
<1>3. rows.events \in Seq(Facts) /\ rows.attempts \in Seq(AttemptIDs)
  BY DEF LInv, TypeInv, LogRows
<1>4. ASSUME op[c].kind = "events" PROVE EventsRead(c)'
  <2> DEFINE l == rows.events
             read == EL!eventsByAttempt(l, op[c].attemptID)
  <2>1. answer'[c].result = {read}
    BY <1>2, <1>4 DEF ReadResult
  <2>2. Lists(read, l, PositionsOf(l, op[c].attemptID, Len(l)))
    BY <1>3, EventsByAttemptLists, Zenon
  <2>3. Len(l) \in 0 .. Len(l)
    BY <1>3
  <2> HIDE DEF read
  <2> QED BY <1>2, <2>1, <2>2, <2>3 DEF EventsRead
<1>5. ASSUME op[c].kind = "attempts" PROVE AttemptsRead(c)'
  <2>1. answer'[c].result = {rows.attempts}
    BY <1>2, <1>5 DEF ReadResult
  <2> QED BY <1>2, <1>3, <2>1 DEF AttemptsRead, Continues
<1> QED BY <1>4, <1>5

\* Reads are in append order, for ever: what EventsByAttempt or AttemptIDs
\* returned is what a beginning of the log gives at any later time.
THEOREM ReadsAreOrdered == Spec => []ReadsFollowAppendOrder
<1>1. Init => ReadInv
  BY DEF Init, NoAnswer, ReadInv
<1>2. LInv /\ ReadInv /\ [Next]_vars => ReadInv'
  <2> SUFFICES ASSUME LInv, ReadInv, [Next]_vars PROVE ReadInv'
    OBVIOUS
  <2>1. Observed
    BY EveryStep
  <2>2. CASE UNCHANGED <<rows, answer>>
    BY <2>1, <2>2 DEF ReadInv, EventsRead, AttemptsRead, Observed
  <2>3. ASSUME NEW c \in Requests, Linearizes(c), op' = op PROVE ReadInv'
    <3>1. ASSUME NEW d \in Requests, answer'[d].status = "read"
          PROVE  /\ op[d].kind = "events" => EventsRead(d)'
                 /\ op[d].kind = "attempts" => AttemptsRead(d)'
      <4>1. CASE d = c
        BY <2>3, <3>1, <4>1, ReadNow
      <4>2. CASE d # c
        <5>1. answer'[d] = answer[d]
          BY <2>3, <4>2, LinearizesCases
        <5> QED BY <2>3, <3>1, <5>1, ReadStays DEF ReadInv
      <4> QED BY <4>1, <4>2
    <3> QED BY <2>3, <3>1 DEF ReadInv
  <2> QED BY <2>1, <2>2, <2>3 DEF Observed
<1>3. LInv /\ ReadInv => ReadsFollowAppendOrder
  <2> SUFFICES ASSUME LInv, ReadInv, NEW c \in Requests, answer[c].status = "read"
               PROVE  /\ op[c].kind = "events" =>
                           \E n \in 0 .. Len(rows.events) : \A s \in answer[c].result :
                             Lists(s, rows.events,
                                   {k \in 1 .. n : rows.events[k].attemptID = op[c].attemptID})
                      /\ op[c].kind = "attempts" =>
                           \A s \in answer[c].result : IsPrefix(s, rows.attempts)
    BY Zenon DEF ReadsFollowAppendOrder
  <2>1. rows.attempts \in Seq(AttemptIDs)
    BY DEF LInv, TypeInv, LogRows
  <2>2. op[c].kind = "attempts" => \A s \in answer[c].result : IsPrefix(s, rows.attempts)
    BY <2>1, ContinuesPrefix DEF ReadInv, AttemptsRead
  <2>3. op[c].kind = "events" =>
          \E n \in 0 .. Len(rows.events) : \A s \in answer[c].result :
            Lists(s, rows.events, {k \in 1 .. n : rows.events[k].attemptID = op[c].attemptID})
    BY Zenon DEF ReadInv, EventsRead, PositionsOf
  <2> QED BY <2>2, <2>3
<1> QED BY <1>1, <1>2, <1>3, LogsInductive, PTL DEF Spec

------------------------------------------------------------------------------
(* The refinement.                                                         *)

\* The answers as the callers of the journal see them: no order among facts.
Unordered(result) == UNION {ToSet(s) : s \in result}

ToldAs(kind, ans) == IF kind # "events" THEN ans ELSE [ans EXCEPT !.result = Unordered(@)]

Told == [c \in Requests |-> ToldAs(op[c].kind, answer[c])]

\* The journal's operations on what is stored.
LEMMA JournalNames ==
  ASSUME NEW c
  PROVE  /\ Journal!Claimed = ToSet(rows.attempts)
         /\ Journal!Events(c) = ToSet(op[c].events)
         /\ Journal!preflight(Journal!Events(c)) <=>
              Accepts(ToSet(rows.events), ToSet(op[c].events))
         /\ Journal!ActionConflict(op[c].action) <=> ~Registrable(c)
<1>1. Journal!Claimed = ToSet(rows.attempts)
  BY DEF Journal!Claimed, ToSet
<1>2. Journal!Events(c) = ToSet(op[c].events)
  BY DEF Journal!Events, ToSet
<1>3. \A B : Journal!preflight(B) <=> Accepts(ToSet(rows.events), B)
  BY Zenon DEF Journal!preflight, Journal!SameEventID, Accepts, EL!SameEventID
<1>4. Journal!ActionConflict(op[c].action) <=> ~Registrable(c)
  BY DEF Journal!ActionConflict, Registrable
<1> QED BY <1>1, <1>2, <1>3, <1>4, Zenon

\* What the journal answers a claim.
LEMMA JournalBegins ==
  ASSUME NEW c
  PROVE  Journal!BeginResult(op[c].action, op[c].attemptID, Journal!Events(c)) =
           IF ~Registrable(c) THEN "conflict"
           ELSE IF op[c].attemptID \in ToSet(rows.attempts) THEN "duplicate"
           ELSE IF ~Accepts(ToSet(rows.events), ToSet(op[c].events)) THEN "conflict"
           ELSE "claimed"
<1> DEFINE accepted == Journal!preflight(Journal!Events(c))
           accepts == Accepts(ToSet(rows.events), ToSet(op[c].events))
           conflict == Journal!ActionConflict(op[c].action)
           known == op[c].attemptID \in Journal!Claimed
<1>1. Journal!BeginResult(op[c].action, op[c].attemptID, Journal!Events(c)) =
        IF conflict THEN "conflict" ELSE IF known THEN "duplicate"
        ELSE IF ~accepted THEN "conflict" ELSE "claimed"
  BY Zenon DEF Journal!BeginResult
<1>2. /\ accepted <=> accepts
      /\ conflict <=> ~Registrable(c)
      /\ known <=> op[c].attemptID \in ToSet(rows.attempts)
  BY JournalNames, Zenon
<1> HIDE DEF accepted, accepts, conflict, known
<1>3. Journal!BeginResult(op[c].action, op[c].attemptID, Journal!Events(c)) =
        IF ~Registrable(c) THEN "conflict"
        ELSE IF op[c].attemptID \in ToSet(rows.attempts) THEN "duplicate"
        ELSE IF ~accepts THEN "conflict" ELSE "claimed"
  BY <1>1, <1>2
<1> QED BY <1>3, Zenon DEF accepts

\* An answer of a log is the journal's.
LEMMA JournalAnswers ==
  ASSUME LInv, op' = op, NEW c \in Requests, NEW status, NEW result, Answers(c, status, result),
         NEW told, told = IF op[c].kind # "events" THEN result ELSE Unordered(result)
  PROVE  Journal!Answer(c, status, told)
<1>1. /\ answer[c] = [status |-> "none", result |-> {}]
      /\ answer'[c] = [status |-> status, result |-> result]
      /\ \A d \in Requests : d # c => answer'[d] = answer[d]
  BY DEF Answers, NoAnswer, LInv, TypeInv
<1>2. \A d \in Requests : Told[d] = ToldAs(op[d].kind, answer[d])
  BY Zenon DEF Told
<1>3. \A d \in Requests : Told'[d] = ToldAs(op[d].kind, answer'[d])
  BY Zenon DEF Told
<1>4. Told[c] = [status |-> "none", result |-> {}]
  <2>1. Unordered({}) = {}
    BY DEF Unordered
  <2>2. ToldAs(op[c].kind, [status |-> "none", result |-> {}]) = [status |-> "none", result |-> {}]
    BY <2>1 DEF ToldAs
  <2> QED BY <1>1, <1>2, <2>2, Zenon
<1>5. Told'[c] = [status |-> status, result |-> told]
  <2>1. ToldAs(op[c].kind, [status |-> status, result |-> result]) = [status |-> status, result |-> told]
    BY DEF ToldAs
  <2> QED BY <1>1, <1>3, <2>1, Zenon
<1>6. \A d \in Requests : d # c => Told'[d] = Told[d]
  BY <1>1, <1>2, <1>3, Zenon
<1>7. Told' = [Told EXCEPT ![c] = [status |-> status, result |-> told]]
  <2>1. /\ Told = [d \in Requests |-> Told[d]]
        /\ Told' = [d \in Requests |-> Told'[d]]
    BY Zenon DEF Told
  <2> HIDE DEF Told
  <2> QED BY <1>5, <1>6, <2>1
<1> QED BY <1>4, <1>7, Zenon DEF Journal!Answer, Journal!NoAnswer, Told, ToldAs, Unordered

\* A write is told a status and nothing else, and so is a failure.
LEMMA JournalStatus ==
  ASSUME LInv, op' = op, NEW c \in Requests, NEW status, Answers(c, status, {})
  PROVE  Journal!Answer(c, status, {})
<1>1. {} = IF op[c].kind # "events" THEN {} ELSE Unordered({})
  BY DEF Unordered
<1> QED BY <1>1, JournalAnswers, Zenon

\* An operation that takes effect is the journal's.
LEMMA JournalStores ==
  ASSUME LInv, op' = op, NEW c \in Requests, Stores(c)
  PROVE  \/ op[c].kind = "begin" /\ Journal!Claims(c)
         \/ op[c].kind = "append" /\ Journal!Appends(c)
<1>1. Accepts(ToSet(rows.events), ToSet(op[c].events))
  BY StoresAdds, Zenon
<1>2. Journal!Events(c) = ToSet(op[c].events)
  BY JournalNames, Zenon
<1>3. (ToSet(rows.events))' = ToSet(rows.events) \cup Journal!Events(c)
  BY <1>2, StoresAdds, Zenon
<1>4. CASE op[c].kind = "begin"
  <2>1. /\ Registrable(c) /\ op[c].attemptID \notin ToSet(rows.attempts)
        /\ (rows.attempts)' = Append(rows.attempts, op[c].attemptID)
        /\ (rows.actions)' = [rows.actions EXCEPT ![op[c].action.id] = op[c].action.intent]
    BY <1>4, StoresAdds
  <2>2. Journal!BeginResult(op[c].action, op[c].attemptID, Journal!Events(c)) = "claimed"
    BY <1>1, <2>1, JournalBegins, Zenon
  <2>3. Journal!BeginAttempt(op[c].action, op[c].attemptID, Journal!Events(c))
    BY <1>3, <2>1, <2>2, Zenon DEF Journal!BeginAttempt
  <2> QED BY <1>4, <2>3, Zenon DEF Journal!Claims
<1>5. CASE op[c].kind # "begin"
  <2>1. /\ op[c].kind = "append"
        /\ (rows.attempts)' = rows.attempts /\ (rows.actions)' = rows.actions
    BY <1>5, StoresAdds
  <2>2. Journal!preflight(Journal!Events(c))
    BY <1>1, JournalNames, Zenon
  <2>3. Journal!AppendAll(Journal!Events(c))
    BY <1>3, <2>1, <2>2, Zenon DEF Journal!AppendAll
  <2> QED BY <2>1, <2>3, Zenon DEF Journal!Appends
<1> QED BY <1>4, <1>5

\* What a reader of the journal gets.
LEMMA JournalReads ==
  ASSUME LInv, op' = op, rows' = rows, NEW c \in Requests,
         op[c].kind \in {"events", "action", "attempts"}, Answers(c, "read", ReadResult(c))
  PROVE  Journal!Read(c)
<1>1. UNCHANGED Journal!journal
  BY DEF Journal!journal
<1>2. PICK r : r = ReadResult(c)
  OBVIOUS
<1>3. Answers(c, "read", r)
  BY <1>2 DEF Answers
<1>4. PICK told : told = IF op[c].kind # "events" THEN r ELSE Unordered(r)
  OBVIOUS
<1>5. Journal!Answer(c, "read", told)
  BY <1>3, <1>4, JournalAnswers, Zenon
<1>6. CASE op[c].kind = "events"
  <2> DEFINE l == rows.events
             id == op[c].attemptID
             read == EL!eventsByAttempt(l, id)
             ks == PositionsOf(l, id, Len(l))
  <2>1. l \in Seq(Facts)
    BY DEF LInv, TypeInv, LogRows
  <2>2. Lists(read, l, ks)
    BY <2>1, EventsByAttemptLists, Zenon
  <2>3. ToSet(read) = {l[k] : k \in ks}
    BY <2>2, ListsSet
  <2>4. {l[k] : k \in ks} = {f \in ToSet(l) : f.attemptID = id}
    BY <2>1 DEF PositionsOf, ToSet
  <2>5. told = Unordered({read})
    BY <1>2, <1>4, <1>6 DEF ReadResult
  <2> HIDE DEF read, ks
  <2>6. Unordered({read}) = ToSet(read)
    BY DEF Unordered
  <2>7. Journal!EventsByAttempt(id) = {f \in ToSet(l) : f.attemptID = id}
    BY Zenon DEF Journal!EventsByAttempt
  <2>8. told = Journal!EventsByAttempt(id)
    BY <2>3, <2>4, <2>5, <2>6, <2>7, Zenon
  <2>9. Journal!Answer(c, "read", Journal!EventsByAttempt(op[c].attemptID))
    BY <1>5, <2>8, Zenon DEF Journal!Answer
  <2> QED BY <1>1, <1>6, <2>9, Zenon DEF Journal!Read
<1>7. CASE op[c].kind = "action"
  <2>1. told = {Journal!ActionByID(op[c].action.id)}
    BY <1>2, <1>4, <1>7 DEF ReadResult, Journal!ActionByID
  <2>2. Journal!Answer(c, "read", {Journal!ActionByID(op[c].action.id)})
    BY <1>5, <2>1, Zenon DEF Journal!Answer
  <2> QED BY <1>1, <1>7, <2>2, Zenon DEF Journal!Read
<1>8. CASE op[c].kind = "attempts"
  <2>1. told = {rows.attempts}
    BY <1>2, <1>4, <1>8 DEF ReadResult
  <2>2. Journal!Answer(c, "read", {rows.attempts})
    BY <1>5, <2>1, Zenon DEF Journal!Answer
  <2> QED BY <1>1, <1>8, <2>2, Zenon DEF Journal!Read
<1> QED BY <1>6, <1>7, <1>8

\* The instant of an operation is a step of the journal.
LEMMA JournalStep ==
  ASSUME LInv, op' = op, NEW c \in Requests, Linearizes(c)
  PROVE  Journal!ServiceNext
<1> DEFINE result == Journal!BeginResult(op[c].action, op[c].attemptID, Journal!Events(c))
<1>1. rows' = rows => UNCHANGED Journal!journal
  BY DEF Journal!journal
<1>2. ASSUME op[c].kind = "begin", Journal!Answer(c, result, {}),
             Journal!Claims(c) \/ (result # "claimed" /\ UNCHANGED Journal!journal)
      PROVE  Journal!Begin(c)
  BY <1>2, Zenon DEF Journal!Begin
<1>3. result = IF ~Registrable(c) THEN "conflict"
               ELSE IF op[c].attemptID \in ToSet(rows.attempts) THEN "duplicate"
               ELSE IF ~Accepts(ToSet(rows.events), ToSet(op[c].events)) THEN "conflict"
               ELSE "claimed"
  BY JournalBegins, Zenon
<1> HIDE DEF result
<1>4. CASE Stores(c) /\ Answers(c, IF op[c].kind = "begin" THEN "claimed" ELSE "ok", {})
  <2>1. CASE op[c].kind = "begin"
    <3>1. Journal!Claims(c)
      BY <1>4, <2>1, JournalStores
    <3>2. result = "claimed"
      BY <3>1, Zenon DEF Journal!Claims, Journal!BeginAttempt, result
    <3>3. Answers(c, "claimed", {})
      BY <1>4, <2>1
    <3>4. Journal!Answer(c, result, {})
      BY <3>2, <3>3, JournalStatus, Zenon
    <3>5. Journal!Begin(c)
      BY <1>2, <2>1, <3>1, <3>4, Zenon
    <3> QED BY <3>5, Zenon DEF Journal!ServiceNext
  <2>2. CASE op[c].kind # "begin"
    <3>1. op[c].kind = "append" /\ Journal!Appends(c)
      BY <1>4, <2>2, JournalStores
    <3>2. Answers(c, "ok", {})
      BY <1>4, <2>2
    <3>3. Journal!Answer(c, "ok", {})
      BY <3>2, JournalStatus, Zenon
    <3>4. Journal!AppendEvents(c)
      BY <3>1, <3>3, Zenon DEF Journal!AppendEvents
    <3> QED BY <3>4, Zenon DEF Journal!ServiceNext
  <2> QED BY <2>1, <2>2
<1>5. CASE (Stores(c) \/ rows' = rows) /\ Answers(c, "error", {})
  <2>1. Journal!Answer(c, "error", {})
    BY <1>5, JournalStatus, Zenon
  <2>2. Journal!Claims(c) \/ Journal!Appends(c) \/ UNCHANGED Journal!journal
    BY <1>1, <1>5, JournalStores, Zenon
  <2>3. Journal!Fail(c)
    BY <2>1, <2>2, Zenon DEF Journal!Fail
  <2> QED BY <2>3, Zenon DEF Journal!ServiceNext
<1>6. CASE rows' = rows /\ Conflicts(c) /\ Answers(c, "conflict", {})
  <2>1. Journal!Answer(c, "conflict", {})
    BY <1>6, JournalStatus, Zenon
  <2>2. CASE op[c].kind = "begin"
    <3>1. result = "conflict"
      BY <1>3, <1>6, <2>2 DEF Conflicts
    <3>2. Journal!Begin(c)
      <4>1. result # "claimed" /\ Journal!Answer(c, result, {})
        BY <2>1, <3>1
      <4> QED BY <1>1, <1>2, <1>6, <2>2, <4>1, Zenon
    <3> QED BY <3>2, Zenon DEF Journal!ServiceNext
  <2>3. CASE op[c].kind # "begin"
    <3>1. op[c].kind = "append" /\ ~Accepts(ToSet(rows.events), ToSet(op[c].events))
      BY <1>6, <2>3 DEF Conflicts
    <3>2. ~Journal!preflight(Journal!Events(c))
      BY <3>1, JournalNames, Zenon
    <3>3. Journal!AppendEvents(c)
      BY <1>1, <1>6, <2>1, <3>1, <3>2, Zenon DEF Journal!AppendEvents
    <3> QED BY <3>3, Zenon DEF Journal!ServiceNext
  <2> QED BY <2>2, <2>3
<1>7. CASE rows' = rows /\ Duplicates(c) /\ Answers(c, "duplicate", {})
  <2>1. Journal!Answer(c, "duplicate", {})
    BY <1>7, JournalStatus, Zenon
  <2>2. op[c].kind = "begin" /\ result = "duplicate"
    BY <1>3, <1>7 DEF Duplicates
  <2>3. result # "claimed" /\ Journal!Answer(c, result, {})
    BY <2>1, <2>2
  <2>4. Journal!Begin(c)
    BY <1>1, <1>2, <1>7, <2>2, <2>3, Zenon
  <2> QED BY <2>4, Zenon DEF Journal!ServiceNext
<1>8. CASE /\ rows' = rows /\ op[c].kind \in {"events", "action", "attempts"}
           /\ Answers(c, "read", ReadResult(c))
  <2>1. Journal!Read(c)
    BY <1>8, JournalReads, Zenon
  <2> QED BY <2>1, Zenon DEF Journal!ServiceNext
<1> QED BY <1>4, <1>5, <1>6, <1>7, <1>8, Zenon DEF Linearizes

\* The empty log is the empty journal.
LEMMA JournalInitially ==
  ASSUME Init PROVE Journal!ServiceInit
<1>1. /\ rows.actions = [a \in ActionIDs |-> NoIntent] /\ rows.attempts = <<>>
      /\ rows.events = <<>>
  BY DEF Init, EmptyLog
<1>2. ToSet(rows.events) = {}
  BY <1>1 DEF ToSet
<1>3. Journal!JournalInit
  BY <1>1, <1>2, Zenon DEF Journal!JournalInit
<1>4. Told = [c \in Requests |-> [status |-> "none", result |-> {}]]
  <2>1. Unordered({}) = {}
    BY DEF Unordered
  <2>2. \A kind : ToldAs(kind, [status |-> "none", result |-> {}]) = [status |-> "none", result |-> {}]
    BY <2>1 DEF ToldAs
  <2>3. \A c \in Requests : ToldAs(op[c].kind, answer[c]) = [status |-> "none", result |-> {}]
    BY <2>2 DEF Init, NoAnswer
  <2> QED BY <2>3 DEF Told
<1>5. op \in {o \in [Requests -> UNION {Operations[c] : c \in Requests}] :
               \A c \in Requests : o[c] \in Operations[c]}
  BY DEF Init
<1> QED BY <1>3, <1>4, <1>5, Zenon
        DEF Journal!ServiceInit, Journal!NoAnswer, Told, ToldAs, Unordered

\* Both logs are linearizable: every operation takes effect at one instant
\* between its call and its answer, and is told what the journal answers at
\* that instant, whatever the interleaving, the failures and the crashes.
THEOREM LogsImplementJournal == Spec => ImplementsJournal
<1>1. Init => Journal!ServiceInit
  BY JournalInitially
<1>2. LInv /\ [Next]_vars => [Journal!ServiceNext]_(Journal!serviceVars)
  <2> SUFFICES ASSUME LInv, [Next]_vars PROVE [Journal!ServiceNext]_(Journal!serviceVars)
    OBVIOUS
  <2>1. Observed
    BY EveryStep
  <2>2. CASE UNCHANGED <<rows, answer, op>>
    BY <2>2 DEF Journal!serviceVars, Journal!journal
  <2>3. ASSUME NEW c \in Requests, Linearizes(c), op' = op PROVE Journal!ServiceNext
    BY <2>3, JournalStep
  <2> QED BY <2>1, <2>2, <2>3, Zenon DEF Observed
<1> QED BY <1>1, <1>2, LogsInductive, PTL DEF Spec, ImplementsJournal, Journal!ServiceSpec

================================================================================
