------------------------------ MODULE EventLog ------------------------------
(***************************************************************************)
(* The algorithms of the memory event log on a sequence of facts in append *)
(* order: which batches it accepts, what it appends, what it returns.      *)
(***************************************************************************)
EXTENDS Naturals, Sequences

LOCAL INSTANCE SequencesExt

\* The fields deterministicEventID hashes.
SameEventID(e, f) ==
  /\ e.actionID = f.actionID
  /\ e.attemptID = f.attemptID
  /\ e.kind = f.kind
  /\ e.qualifier = f.qualifier

\* equal compares every field; the content stands for times and payload.
equal(e, f) == SameEventID(e, f) /\ e.content = f.content

\* No conflicting reuse of an EventID, in the log or within the batch.
preflight(log, batch) ==
  \A i \in DOMAIN batch :
    /\ \A j \in DOMAIN log : SameEventID(batch[i], log[j]) => equal(batch[i], log[j])
    /\ \A j \in DOMAIN batch : SameEventID(batch[i], batch[j]) => equal(batch[i], batch[j])

Stored(log, e) == \E i \in DOMAIN log : SameEventID(e, log[i])

\* A fact that is already there is skipped.
appendOne(log, e) == IF Stored(log, e) THEN log ELSE Append(log, e)

appendPrepared(log, batch) ==
  LET upTo[n \in 0 .. Len(batch)] ==
        IF n = 0 THEN log ELSE appendOne(upTo[n - 1], batch[n])
  IN upTo[Len(batch)]

\* Mutant: the newest fact comes first.
eventsNewestFirst(log, attemptID) ==
  Reverse(SelectSeq(log, LAMBDA e : e.attemptID = attemptID))

eventsByAttempt(log, attemptID) ==
  LET upTo[n \in 0 .. Len(log)] ==
        IF n = 0 THEN <<>>
        ELSE IF log[n].attemptID = attemptID THEN Append(upTo[n - 1], log[n])
        ELSE upTo[n - 1]
  IN upTo[Len(log)]
==============================================================================
