----------------------------- MODULE PmGenerator ------------------------------
(***************************************************************************)
(* fms-maintenance: plans become occurrences and work orders.  A scanner    *)
(* turns calendar plans that are due into orders, the outbox relay turns    *)
(* meter events into orders, and an API request generates the next one at   *)
(* once.  All three claim an occurrence by an INSERT ... ON CONFLICT DO      *)
(* NOTHING, which waits for an uncommitted row of the same key.  Plans are   *)
(* read without a lock and may be patched meanwhile.                        *)
(***************************************************************************)
EXTENDS Naturals, Sequences, FiniteSets

CONSTANTS
  Plans,       \* maintenance plans
  Assets,      \* assets, numbered in the order of their asset_code
  Targets,     \* Targets[p]: the assets plan p aims at
  Rules,       \* recurrence rules: [at |-> instants, count |-> COUNT or 0]
  FirstRule,   \* FirstRule[p]: the rule plan p is created with
  Lead,        \* generate_lead_days
  Batch,       \* ScanConfig.batch
  Scanners,    \* worker processes that run the calendar scan
  Requests,    \* server tasks that serve generate-now
  Relays,      \* relay tasks that deliver meter events
  Broken,      \* plans whose generation always fails (an unknown time zone)
  Events,      \* maintenance.meter_threshold_reached events
  EventPlans,  \* EventPlans[e]: maintenance_plan_ids, in order
  EventAt,     \* EventAt[e]: reading_at
  NoEvent,     \* the transaction serves no event
  MaxUpsets,   \* bound: changes by users and workers that die, together
  PmMaxTime    \* bound: the clock stops here

Workers == Scanners \cup Requests \cup Relays
Instants == 1..(PmMaxTime + Lead + 1)
Keys == [plan : Plans, asset : Assets, at : Instants]
Rule == [at : SUBSET Instants, count : Nat]

ASSUME PmAssumption ==
  /\ Assets \subseteq Nat /\ IsFiniteSet(Assets)
  /\ Targets \in [Plans -> SUBSET Assets]
  /\ Lead \in Nat /\ Batch \in Nat \ {0} /\ PmMaxTime \in Nat
  /\ MaxUpsets \in Nat
  /\ Rules \subseteq Rule
  /\ FirstRule \in [Plans -> Rules]
  /\ \A p \in Plans : FirstRule[p].at # {}
  /\ EventPlans \in [Events -> Seq(Plans)]
  /\ EventAt \in [Events -> Instants]
  /\ Scanners \cap (Requests \cup Relays) = {} /\ NoEvent \notin Events

VARIABLES
  day,      \* clock_timestamp(), in days
  plan,     \* plan[p]: a row of maintenance_plans
  occ,      \* occ[k]: the committed status of an occurrence
  orders,   \* orders[k]: how many committed work orders were created for k
  worked,   \* worked[k]: the work order of k has a completed_at
  listed,   \* listed[s]: what is left of the list scanner s fetched
  gen,      \* gen[w]: the open transaction of a worker
  event,    \* event[e]: not emitted yet, in the outbox, or published
  upsets    \* how many of MaxUpsets have happened

pmVars == <<day, plan, occ, orders, worked, listed, gen, event, upsets>>

-----------------------------------------------------------------------------
Least(S) == CHOOSE x \in S : \A y \in S : x <= y

(* The first instants of a rule from t on; with COUNT = c, at most c of them. *)
From(r, t) == {x \in r.at : x >= t}
First(r, t) == IF From(r, t) = {} THEN 0 ELSE Least(From(r, t))
(* schedule::expand restarts the rule at the due instant, so COUNT counts    *)
(* from there and ends the plan only when it is 1.                            *)
After(r, t) == IF r.count = 1 THEN 0 ELSE First(r, t + 1)

NoTx == [kind |-> "none"]
Tx == [kind : {"scan", "now", "meter", "ack"}, plan : Plans, rule : Rules, at : Instants,
       todo : SUBSET Assets, won : SUBSET Keys, rest : Seq(Plans),
       event : Events \cup {NoEvent}]
Reading(kind, p, at, won, rest, e) ==
  [kind |-> kind, plan |-> p, rule |-> plan[p].rule, at |-> at,
   todo |-> Targets[p], won |-> won, rest |-> rest, event |-> e]

PmTypeOK ==
  /\ day \in 0..PmMaxTime
  /\ plan \in [Plans -> [rule : Rules, due : Instants \cup {0},
                         active : BOOLEAN, patched : SUBSET {"rule", "active"}]]
  /\ occ \in [Keys -> {"NONE", "GENERATED", "COMPLETED", "SKIPPED"}]
  /\ orders \in [Keys -> Nat]
  /\ worked \in [Keys -> BOOLEAN]
  /\ listed \in [Scanners -> Seq(Plans)]
  /\ gen \in [Workers -> {NoTx} \cup Tx]
  /\ event \in [Events -> {"none", "pending", "published"}]
  /\ upsets \in 0..MaxUpsets

PmInit ==
  /\ day = 0
  /\ plan = [p \in Plans |-> [rule |-> FirstRule[p], due |-> First(FirstRule[p], 1),
                              active |-> TRUE, patched |-> {}]]
  /\ occ = [k \in Keys |-> "NONE"]
  /\ orders = [k \in Keys |-> 0]
  /\ worked = [k \in Keys |-> FALSE]
  /\ listed = [s \in Scanners |-> <<>>]
  /\ gen = [w \in Workers |-> NoTx]
  /\ event = [e \in Events |-> "none"]
  /\ upsets = 0

Upset == upsets < MaxUpsets /\ upsets' = upsets + 1

-----------------------------------------------------------------------------
(* The calendar scan                                                         *)

Overdue(p) == plan[p].active /\ plan[p].due # 0 /\ plan[p].due <= day + Lead
DuePlans == {p \in Plans : Overdue(p)}

(* ORDER BY next_due_at LIMIT batch: ties in any order.                      *)
Listing(q) ==
  /\ Len(q) = IF Cardinality(DuePlans) < Batch THEN Cardinality(DuePlans) ELSE Batch
  /\ \A i, j \in 1..Len(q) : i < j => q[i] # q[j] /\ plan[q[i]].due <= plan[q[j]].due
  /\ \A p \in DuePlans : (\A i \in 1..Len(q) : q[i] # p) =>
       \A i \in 1..Len(q) : plan[q[i]].due <= plan[p].due

ListDue(s) ==
  /\ gen[s] = NoTx /\ listed[s] = <<>> /\ DuePlans # {}
  /\ \E n \in 1..Batch : \E q \in [1..n -> DuePlans] :
       Listing(q) /\ listed' = [listed EXCEPT ![s] = q]
  /\ UNCHANGED <<day, plan, occ, orders, worked, gen, event, upsets>>

(* The plan is read again; any error ends the whole scan.                     *)
OpenListed(s) ==
  /\ gen[s] = NoTx /\ listed[s] # <<>>
  /\ LET p == Head(listed[s]) IN
       \/ /\ ~plan[p].active
          /\ listed' = [listed EXCEPT ![s] = Tail(@)]
          /\ UNCHANGED gen
       \/ /\ plan[p].active /\ (p \in Broken \/ plan[p].due = 0)
          /\ listed' = [listed EXCEPT ![s] = <<>>]
          /\ UNCHANGED gen
       \/ /\ plan[p].active /\ p \notin Broken /\ plan[p].due # 0
          /\ gen' = [gen EXCEPT ![s] = Reading("scan", p, plan[p].due, {}, <<>>, NoEvent)]
          /\ UNCHANGED listed
  /\ UNCHANGED <<day, plan, occ, orders, worked, event, upsets>>

-----------------------------------------------------------------------------
(* Claiming and creating, the same for every trigger                         *)

(* Plausible bug: look for the occurrence, then insert, without the key.        *)
HeldByNobody(k, w) == FALSE
Held(k, w) == \E v \in Workers \ {w} : gen[v].kind # "none" /\ k \in gen[v].won

(* The next asset: INSERT ... ON CONFLICT DO NOTHING, then the work order,    *)
(* its checklist and mark_generated, all uncommitted.                         *)
Claim(w) ==
  /\ gen[w].kind \in {"scan", "now", "meter"} /\ gen[w].todo # {}
  /\ LET a == Least(gen[w].todo)
         k == [plan |-> gen[w].plan, asset |-> a, at |-> gen[w].at]
     IN /\ ~Held(k, w)
        /\ gen' = [gen EXCEPT ![w] =
                     [gen[w] EXCEPT
                        !.todo = gen[w].todo \ {a},
                        !.won = gen[w].won \cup {x \in {k} : occ[x] = "NONE"}]]
  /\ UNCHANGED <<day, plan, occ, orders, worked, listed, event, upsets>>

(* What a committing transaction makes visible.                               *)
Publish(w) ==
  /\ occ' = [k \in Keys |-> IF k \in gen[w].won THEN "GENERATED" ELSE occ[k]]
  /\ orders' = [k \in Keys |-> IF k \in gen[w].won THEN orders[k] + 1 ELSE orders[k]]

(* Plausible bug: go on from today, not from the instant just generated.        *)
AdvanceFromToday(s) ==
  plan' = [plan EXCEPT ![gen[s].plan].due = First(gen[s].rule, day + 1)]
(* advance_plan writes the instant that follows the one that was read.        *)
Advance(s) ==
  plan' = [plan EXCEPT ![gen[s].plan].due = After(gen[s].rule, gen[s].at)]

FinishScan(s) ==
  /\ gen[s].kind = "scan" /\ gen[s].todo = {}
  /\ Publish(s)
  /\ Advance(s)
  /\ gen' = [gen EXCEPT ![s] = NoTx]
  /\ listed' = [listed EXCEPT ![s] = Tail(@)]
  /\ UNCHANGED <<day, worked, event, upsets>>

-----------------------------------------------------------------------------
(* POST /maintenance-plans/{planId}/generate-now                              *)

GenerateNow(w, p) ==
  /\ gen[w] = NoTx /\ plan[p].active /\ plan[p].due # 0
  /\ gen' = [gen EXCEPT ![w] = Reading("now", p, plan[p].due, {}, <<>>, NoEvent)]
  /\ UNCHANGED <<day, plan, occ, orders, worked, listed, event, upsets>>

FinishNow(w) ==
  /\ gen[w].kind = "now" /\ gen[w].todo = {}
  /\ Publish(w)
  /\ gen' = [gen EXCEPT ![w] = NoTx]
  /\ UNCHANGED <<day, plan, worked, listed, event, upsets>>

-----------------------------------------------------------------------------
(* Meter events, delivered at least once                                      *)

Emit(e) ==
  /\ event[e] = "none" /\ EventAt[e] <= day
  /\ event' = [event EXCEPT ![e] = "pending"]
  /\ UNCHANGED <<day, plan, occ, orders, worked, listed, gen, upsets>>

(* The next plan of the event that is still active, read when its turn comes. *)
NextPlan(w, won, rest, e) ==
  LET active == {i \in 1..Len(rest) : plan[rest[i]].active}
      i == Least(active)
  IN gen' = [gen EXCEPT ![w] =
       IF active = {}
       THEN [Reading("meter", rest[1], EventAt[e], won, <<>>, e) EXCEPT !.todo = {}]
       ELSE Reading("meter", rest[i], EventAt[e], won, SubSeq(rest, i + 1, Len(rest)), e)]

(* Plausible bug: the event is marked when it is claimed.                       *)
DeliverAtMostOnce(w, e) ==
  /\ gen[w] = NoTx /\ event[e] = "pending" /\ EventPlans[e] # <<>>
  /\ NextPlan(w, {}, EventPlans[e], e)
  /\ event' = [event EXCEPT ![e] = "published"]
  /\ UNCHANGED <<day, plan, occ, orders, worked, listed, upsets>>
Deliver(w, e) ==
  /\ gen[w] = NoTx /\ event[e] = "pending" /\ EventPlans[e] # <<>>
  /\ \A v \in Workers : gen[v].kind \in {"meter", "ack"} => gen[v].event # e
  /\ NextPlan(w, {}, EventPlans[e], e)
  /\ UNCHANGED <<day, plan, occ, orders, worked, listed, event, upsets>>

GoOn(w) ==
  /\ gen[w].kind = "meter" /\ gen[w].todo = {} /\ gen[w].rest # <<>>
  /\ NextPlan(w, gen[w].won, gen[w].rest, gen[w].event)
  /\ UNCHANGED <<day, plan, occ, orders, worked, listed, event, upsets>>

FinishMeter(w) ==
  /\ gen[w].kind = "meter" /\ gen[w].todo = {} /\ gen[w].rest = <<>>
  /\ Publish(w)
  /\ gen' = [gen EXCEPT ![w] = [@ EXCEPT !.kind = "ack", !.won = {}]]
  /\ UNCHANGED <<day, plan, worked, listed, event, upsets>>

(* The relay marks the event only after the handler has committed.            *)
Ack(w) ==
  /\ gen[w].kind = "ack"
  /\ event' = [event EXCEPT ![gen[w].event] = "published"]
  /\ gen' = [gen EXCEPT ![w] = NoTx]
  /\ UNCHANGED <<day, plan, occ, orders, worked, listed, upsets>>

-----------------------------------------------------------------------------
(* Everybody else                                                             *)

PatchRule(p, r) ==
  /\ p \notin Broken
  /\ plan' = [plan EXCEPT ![p] = [@ EXCEPT !.rule = r, !.due = First(r, day),
                                           !.patched = plan[p].patched \cup {"rule"}]]
  /\ Upset
  /\ UNCHANGED <<day, occ, orders, worked, listed, gen, event>>

PatchActive(p, b) ==
  /\ plan[p].active # b
  /\ plan' = [plan EXCEPT ![p] = [@ EXCEPT !.active = b,
                                           !.patched = plan[p].patched \cup {"active"}]]
  /\ Upset
  /\ UNCHANGED <<day, occ, orders, worked, listed, gen, event>>

(* Plausible bug: a status the table does not have.                            *)
SkipAsCancelled(k) ==
  /\ occ[k] = "GENERATED"
  /\ occ' = [occ EXCEPT ![k] = "CANCELLED"]
  /\ Upset
  /\ UNCHANGED <<day, plan, orders, worked, listed, gen, event>>
(* POST /maintenance-occurrences/{occurrenceId}/skip                          *)
Skip(k) ==
  /\ occ[k] = "GENERATED"
  /\ occ' = [occ EXCEPT ![k] = "SKIPPED"]
  /\ Upset
  /\ UNCHANGED <<day, plan, orders, worked, listed, gen, event>>

(* completed_at of the work order is set or cleared, and the trigger carries   *)
(* it over to the occurrence, whatever its status.                            *)
SetCompletion(k, b) ==
  /\ orders[k] > 0 /\ worked[k] # b
  /\ worked' = [worked EXCEPT ![k] = b]
  /\ occ' = [occ EXCEPT ![k] = IF b THEN "COMPLETED" ELSE "GENERATED"]
  /\ Upset
  /\ UNCHANGED <<day, plan, orders, listed, gen, event>>

Die(w) ==
  /\ gen[w].kind # "none"
  /\ gen' = [gen EXCEPT ![w] = NoTx]
  /\ listed' = IF w \in Scanners THEN [listed EXCEPT ![w] = <<>>] ELSE listed
  /\ Upset
  /\ UNCHANGED <<day, plan, occ, orders, worked, event>>

NextDay ==
  /\ day < PmMaxTime
  /\ day' = day + 1
  /\ UNCHANGED <<plan, occ, orders, worked, listed, gen, event, upsets>>

ScanStep(s) == ListDue(s) \/ OpenListed(s) \/ FinishScan(s)
Progress(w) == Claim(w) \/ FinishNow(w) \/ GoOn(w) \/ FinishMeter(w) \/ Ack(w)

PmNext ==
  \/ \E s \in Scanners : ScanStep(s)
  \/ \E w \in Workers : Progress(w) \/ Die(w)
  \/ \E w \in Requests, p \in Plans : GenerateNow(w, p)
  \/ \E w \in Relays, e \in Events : Deliver(w, e)
  \/ \E e \in Events : Emit(e)
  \/ \E p \in Plans, r \in Rules : PatchRule(p, r)
  \/ \E p \in Plans, b \in BOOLEAN : PatchActive(p, b)
  \/ \E k \in Keys : Skip(k)
  \/ \E k \in Keys, b \in BOOLEAN : SetCompletion(k, b)
  \/ NextDay

PmSpec == PmInit /\ [][PmNext]_pmVars

(* The scan loop never stops, an open transaction ends, and the relay keeps   *)
(* delivering; the clock and the users need not do anything.                   *)
PmFairness ==
  /\ \A s \in Scanners : WF_pmVars(ScanStep(s))
  /\ \A w \in Workers : WF_pmVars(Progress(w))
  /\ \A e \in Events : WF_pmVars(\E w \in Relays : Deliver(w, e))

PmFairSpec == PmSpec /\ PmFairness

-----------------------------------------------------------------------------
(* However often a plan is scanned, generated by hand or triggered by a        *)
(* redelivered event, and by however many workers, an asset gets at most one   *)
(* work order for one instant, and it has one exactly when the occurrence      *)
(* exists (uq_maintenance_occurrences is the only guard).                      *)
OneOrderPerInstant ==
  \A k \in Keys : orders[k] = IF occ[k] = "NONE" THEN 0 ELSE 1

(* Advancing a plan never jumps over an instant: every instant of its rule     *)
(* before next_due_at has an occurrence for each target, whatever scanners     *)
(* overlap, die or hold an old copy of the row.  Patched plans start over and  *)
(* are exempt.                                                                 *)
Covered(p, t) == \A a \in Targets[p] : occ[[plan |-> p, asset |-> a, at |-> t]] # "NONE"
Passed(p, t) == t \in plan[p].rule.at /\ (plan[p].due = 0 \/ t < plan[p].due)
NoInstantPassedOver ==
  \A p \in Plans, t \in Instants :
    "rule" \notin plan[p].patched /\ plan[p].rule.count = 0 /\ Passed(p, t) => Covered(p, t)

(* Every instant of a rule gets its orders, and gets them once.                 *)
InstantsAreServedOnce == OneOrderPerInstant /\ NoInstantPassedOver

(* The compliance report counts an occurrence as done exactly while its work   *)
(* order is done: skipping never hides finished work and reopening takes the   *)
(* completion back.                                                            *)
ComplianceFollowsWork ==
  \A k \in Keys : occ[k] = "COMPLETED" <=> worked[k]

(* The scan catches up: no plan that can be generated stays due for ever, so    *)
(* with NoInstantPassedOver every instant within the lead time gets its orders.  *)
ScanCatchesUp == []<>(\A p \in Plans \ Broken : ~Overdue(p))

(* A meter event is acknowledged only after each of its plans that was active    *)
(* all along has its work orders, whatever died or was delivered again.          *)
MeterEventIsCovered ==
  \A e \in Events : \A i \in 1..Len(EventPlans[e]) :
    event[e] = "published" /\ "active" \notin plan[EventPlans[e][i]].patched
      => Covered(EventPlans[e][i], EventAt[e])

(* No plan is forgotten, neither by the calendar nor by a meter.                *)
PlansAreServed == ScanCatchesUp /\ []MeterEventIsCovered

(* After a PATCH of the rule the next due instant belongs to the new rule.     *)
PatchedRuleHolds ==
  \A p \in Plans : plan[p].due # 0 => plan[p].due \in plan[p].rule.at
=============================================================================
