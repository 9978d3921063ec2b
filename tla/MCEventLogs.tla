---------------------------- MODULE MCEventLogs ----------------------------
(* A small instance of EventLogs: two callers in one process, one in another. *)
EXTENDS EventLogs

CONSTANTS x1, i1, i2, a1, a2, r1, r2, r3, p1, p2

E(id, kind, qualifier, content) ==
  [actionID |-> x1, attemptID |-> id, kind |-> kind, qualifier |-> qualifier,
   content |-> content]

Begin(intent, id, content) ==
  [kind |-> "begin", action |-> [id |-> x1, intent |-> intent], attemptID |-> id,
   events |-> <<E(id, "action_requested", "attempt", content),
                E(id, "attempt_started", "none", content)>>]

Append2(first, second, content) ==
  [kind |-> "append", action |-> [id |-> x1, intent |-> i1], attemptID |-> a1,
   events |-> <<E(a1, first, "none", r1), E(a1, second, "dispatch", content)>>]

Reads(kind) ==
  [kind |-> kind, action |-> [id |-> x1, intent |-> i1], attemptID |-> a1, events |-> <<>>]

\* Claims of one attempt by two callers, a claim under another intent, batches
\* that repeat or contradict each other's second fact, and the reads.
MCOperations ==
  LET acknowledged == Append2("provider_acknowledged", "effect_unverified", r1)
      observed == Append2("observation_recorded", "effect_unverified", r2)
  IN (r1 :> {Begin(i1, a1, r1), acknowledged, Reads("events")})
     @@ (r2 :> {Begin(i1, a1, r2), observed, Reads("attempts")})
     @@ (r3 :> {Begin(i1, a1, r2), Begin(i2, a2, r1), acknowledged, observed,
                Reads("events"), Reads("action")})

MCProcess == (r1 :> p1) @@ (r2 :> p1) @@ (r3 :> p2)
==============================================================================
