---------------------------- MODULE CallService -----------------------------
(***************************************************************************)
(* What Broker::call and Broker::coordinate promise their callers, without *)
(* mailboxes, retries, parking or shards: a call takes effect at most      *)
(* once; a call that reports success has taken effect; a call that reports *)
(* MailboxUnavailable has not and never will; a call that reports          *)
(* ReplyTimeout may have taken effect or may still do so later.            *)
(***************************************************************************)
CONSTANTS Call

VARIABLES
  outcome,   \* per call: "none", "inflight", or what it returned
  applied    \* calls that have taken effect
serviceVars == <<outcome, applied>>

Init == outcome = [k \in Call |-> "none"] /\ applied = {}

Invoke(k) ==
  /\ outcome[k] = "none"
  /\ outcome' = [outcome EXCEPT ![k] = "inflight"]
  /\ UNCHANGED applied

Apply(k) ==
  /\ outcome[k] \in {"inflight", "ReplyTimeout"}
  /\ k \notin applied
  /\ applied' = applied \cup {k}
  /\ UNCHANGED outcome

Return(k, result) ==
  /\ outcome[k] = "inflight"
  /\ result = "Ok" => k \in applied
  /\ result = "MailboxUnavailable" => k \notin applied
  /\ outcome' = [outcome EXCEPT ![k] = result]
  /\ UNCHANGED applied

Next == \E k \in Call :
  \/ Invoke(k)
  \/ Apply(k)
  \/ \E result \in {"Ok", "MailboxUnavailable", "ReplyTimeout"} : Return(k, result)

Spec == Init /\ [][Next]_serviceVars
=============================================================================
