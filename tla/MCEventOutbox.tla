---------------------------- MODULE MCEventOutbox ----------------------------
(***************************************************************************)
(* Instances for TLC of the two halves of "exactly once": events delivered at *)
(* least once, and requests that may be sent again.  They share no state; the *)
(* initial state chooses one of them and the other rests, so that only its    *)
(* own fairness says anything.                                              *)
(***************************************************************************)
EXTENDS EventOutbox, IdempotencyKeys

VARIABLE part

allVars == <<part, vars, keysVars>>

DeliveryInit == part \in {"events", "keys"} /\ Init /\ KeysInit
EventsPart == part = "events" /\ Next /\ UNCHANGED <<part, keysVars>>
KeysPart == part = "keys" /\ KeysNext /\ UNCHANGED <<part, vars>>

DeliverySpec ==
  /\ DeliveryInit /\ [][EventsPart \/ KeysPart]_allVars
  /\ Fairness /\ \A r \in Requests : WF_keysVars(Serve(r))
EventsSpec == DeliveryInit /\ part = "events" /\ [][EventsPart]_allVars

(* Four event types that stand for the wiring in fms-jobs: one owned by the *)
(* maintenance relay and by webhook fan-out, one by notification and by     *)
(* webhook fan-out, one by notification alone, one by no relay.             *)
MCTypes == {"meter_threshold", "sla_breached", "assigned", "status_changed"}
MCKinds == {"pm", "notify", "webhook"}
JobsShards ==
  [pm |-> {"meter_threshold"},
   notify |-> {"sla_breached", "assigned"},
   webhook |-> {"meter_threshold", "sla_breached"}]

(* The same, with a notification relay that also claims a type its handler  *)
(* refuses: RelayConfig allows it, and event_types = None always does it.   *)
WiderShards == [JobsShards EXCEPT !.notify = @ \cup {"status_changed"}]

TwoEvents == {1, 2}
ThreeEvents == {1, 2, 3}
OneOfEach == <<"meter_threshold", "sla_breached">>
MixedEvents == <<"meter_threshold", "sla_breached", "status_changed">>

(* One process per loop, and a second process for one of them.              *)
ThreeRelays == {"pm1", "notify1", "webhook1"}
FourRelays == {"pm1", "notify1", "notify2", "webhook1"}
MCKindOfThree == [pm1 |-> "pm", notify1 |-> "notify", webhook1 |-> "webhook"]
MCKindOfFour == [pm1 |-> "pm", notify1 |-> "notify", notify2 |-> "notify",
                 webhook1 |-> "webhook"]

(* Two sends of one request, one with another body, and another user's      *)
(* request, all with one key string.                                        *)
FourRequests == {"r1", "r2", "r3", "r4"}
MCUserOf == [r1 |-> "ann", r2 |-> "ann", r3 |-> "ann", r4 |-> "bob"]
MCKeyOf == [r \in FourRequests |-> "k"]
MCBodyOf == [r1 |-> "b1", r2 |-> "b1", r3 |-> "b2", r4 |-> "b1"]
=============================================================================
