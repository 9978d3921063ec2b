-------------------------- MODULE AttemptLifecycle --------------------------
(***************************************************************************)
(* What Atoha promises about an attempt, without calls, steps or failures: *)
(* an attempt is claimed once, its request leaves at most once and only    *)
(* while nothing is on record about its dispatch, and what is put on       *)
(* record, once and for all, is true of the request.  "unknown" can always *)
(* be recorded, and nothing need be.                                       *)
(***************************************************************************)
CONSTANT AttemptIDs

VARIABLES
  claimed,              \* the attempts that were started
  sent,                 \* the requests that left, as <<attempt, identity>>
  known                 \* what is on record about each attempt's dispatch

lifecycle == <<claimed, sent, known>>

Knowledge == {"nothing", "unknown", "not_dispatched", "dispatched", "acknowledged"}

WasSent(a) == \E m \in sent : m[1] = a

Init ==
  /\ claimed = {}
  /\ sent = {}
  /\ known = [a \in AttemptIDs |-> "nothing"]

Claim(a) ==
  /\ a \notin claimed
  /\ claimed' = claimed \cup {a}
  /\ UNCHANGED <<sent, known>>

Send(a) ==
  /\ a \in claimed
  /\ ~WasSent(a)
  /\ known[a] = "nothing"
  /\ \E m \in sent' \ sent : m[1] = a /\ sent' = sent \cup {m}
  /\ UNCHANGED <<claimed, known>>

Record(a, status) ==
  /\ a \in claimed
  /\ known[a] = "nothing"
  /\ status = "not_dispatched" => ~WasSent(a)
  /\ status \in {"dispatched", "acknowledged"} => WasSent(a)
  /\ known' = [known EXCEPT ![a] = status]
  /\ UNCHANGED <<claimed, sent>>

Next ==
  \E a \in AttemptIDs :
    \/ Claim(a)
    \/ Send(a)
    \/ \E status \in Knowledge \ {"nothing"} : Record(a, status)

Spec == Init /\ [][Next]_lifecycle
==============================================================================
