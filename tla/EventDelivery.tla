---------------------------- MODULE EventDelivery ----------------------------
(***************************************************************************)
(* What the transactional outbox promises, without relays, claims, locks   *)
(* or retries: an emitted event waits until it is settled; while it waits  *)
(* each kind of handler may take effect on it, at most once; it is settled *)
(* as published only after some handler took effect, or it is parked for a *)
(* human.  Settling is final.  Module EventOutbox implements this.         *)
(***************************************************************************)
CONSTANTS Events,   \* the rows that fms.event_outbox can hold
          Kinds     \* the kinds of event handler (one per relay shard)

VARIABLES outcome,  \* outcome[e]: where event e stands for its producer
          effects   \* effects[e][k]: how often handler kind k took effect on e

vars == <<outcome, effects>>

Init ==
  /\ outcome = [e \in Events |-> "absent"]
  /\ effects = [e \in Events |-> [k \in Kinds |-> 0]]

Emit(e) ==
  /\ outcome[e] = "absent"
  /\ outcome' = [outcome EXCEPT ![e] = "waiting"]
  /\ UNCHANGED effects

TakeEffect(e, k) ==
  /\ outcome[e] = "waiting"
  /\ effects[e][k] = 0
  /\ effects' = [effects EXCEPT ![e][k] = 1]
  /\ UNCHANGED outcome

(* A relay commits its whole batch at once, so any number of events can be *)
(* settled in one step.                                                    *)
Settle(published, parked) ==
  /\ published \cap parked = {}
  /\ \A e \in published \cup parked : outcome[e] = "waiting"
  /\ \A e \in published : \E k \in Kinds : effects[e][k] = 1
  /\ outcome' = [e \in Events |-> IF e \in published THEN "published"
                                  ELSE IF e \in parked THEN "parked"
                                  ELSE outcome[e]]
  /\ UNCHANGED effects

Next ==
  \/ \E e \in Events : Emit(e)
  \/ \E e \in Events, k \in Kinds : TakeEffect(e, k)
  \/ \E published, parked \in SUBSET Events : Settle(published, parked)

Spec == Init /\ [][Next]_vars
=============================================================================
