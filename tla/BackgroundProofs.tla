-------------------------- MODULE BackgroundProofs --------------------------
(***************************************************************************)
(* Theorems about the background work, each component for any of its sets  *)
(* and bounds: PmGenerator (plans, targets, rules, scanners, relays and    *)
(* events), ExportJobs (exports, relay tasks, mishaps), MeterReadings      *)
(* (posters, gateways, values), NotificationQueue (rows, dispatchers, deaths*)
(* and lost connections), Alarms (points, rules, batches, operators) and   *)
(* WorkerProcess (loops, requests to stop, panics).                        *)
(***************************************************************************)
EXTENDS MCBackground,
  WellFoundedInduction, FiniteSetTheorems, SequenceTheorems, TLAPS

-----------------------------------------------------------------------------
(* Preventive maintenance *)

(* The least element of a set of naturals, and the first instant of a rule.    *)
LEMMA LeastFacts ==
  ASSUME NEW S \in SUBSET Nat, S # {}
  PROVE  Least(S) \in S /\ \A y \in S : Least(S) <= y
<1>1. PICK x \in S : \A y \in S : ~(<<y, x>> \in OpToRel(<, Nat))
  BY WFMin, NatLessThanWellFounded
<1>2. \A y \in S : x <= y
  <2> SUFFICES ASSUME NEW y \in S PROVE x <= y
    OBVIOUS
  <2>1. x \in Nat /\ y \in Nat
    OBVIOUS
  <2>2. ~(y < x)
    BY <1>1, <2>1 DEF OpToRel
  <2> QED BY <2>1, <2>2
<1> QED BY <1>2 DEF Least

LEMMA FirstFacts ==
  ASSUME NEW r, r.at \subseteq Instants, NEW t \in Nat
  PROVE  /\ First(r, t) \in Instants \cup {0}
         /\ \A x \in r.at : t <= x => First(r, t) # 0 /\ First(r, t) <= x
         /\ First(r, t) # 0 => First(r, t) \in r.at /\ t <= First(r, t)
<1>1. Instants \subseteq Nat /\ 0 \notin Instants
  BY PmAssumption DEF Instants
<1>2. CASE From(r, t) = {}
  BY <1>2 DEF First, From
<1>3. CASE From(r, t) # {}
  <2>1. Least(From(r, t)) \in From(r, t) /\ \A y \in From(r, t) : Least(From(r, t)) <= y
    BY <1>1, <1>3, LeastFacts DEF From
  <2> QED BY <1>1, <1>3, <2>1 DEF First, From
<1> QED BY <1>2, <1>3

-----------------------------------------------------------------------------
(* The inductive invariant                                                    *)

OpenOf(w) == gen[w].kind # "none"
KeyOf(p, a, t) == [plan |-> p, asset |-> a, at |-> t]
Unpatched(p) == "rule" \notin plan[p].patched /\ plan[p].rule.count = 0

(* A scanner works on the head of its list.                                   *)
ScanIsListed ==
  \A w \in Workers : gen[w].kind = "scan" => w \in Scanners /\ listed[w] # <<>>

(* A transaction that goes through the plans of an event knows the event.       *)
MeterHasEvent == \A w \in Workers : gen[w].kind = "meter" => gen[w].event \in Events

(* What a transaction has claimed nobody has published or claimed.             *)
WonIsFree ==
  \A w \in Workers : OpenOf(w) => \A k \in gen[w].won : occ[k] = "NONE"
WonIsDisjoint ==
  \A v, w \in Workers : OpenOf(v) /\ OpenOf(w) /\ v # w => gen[v].won \cap gen[w].won = {}

(* The copy of a plan a scan works with was read when everything before it was *)
(* covered, and what it is done with is claimed or covered.                    *)
ScanGood(r) ==
  r.kind = "scan" =>
    /\ \A a \in Targets[r.plan] \ r.todo :
         KeyOf(r.plan, a, r.at) \in r.won \/ occ[KeyOf(r.plan, a, r.at)] # "NONE"
    /\ Unpatched(r.plan) =>
         /\ r.rule = plan[r.plan].rule
         /\ \A t \in r.rule.at : t < r.at => Covered(r.plan, t)

PmInv ==
  /\ PmTypeOK /\ ScanIsListed /\ MeterHasEvent /\ WonIsFree /\ WonIsDisjoint
  /\ \A w \in Workers : ScanGood(gen[w])
  /\ OneOrderPerInstant /\ ComplianceFollowsWork /\ NoInstantPassedOver

LEMMA KeyType ==
  ASSUME NEW p \in Plans, NEW a \in Targets[p], NEW t \in Instants
  PROVE  KeyOf(p, a, t) \in Keys /\ KeyOf(p, a, t) = [plan |-> p, asset |-> a, at |-> t]
BY PmAssumption DEF KeyOf, Keys

LEMMA RuleType ==
  ASSUME NEW r \in Rules
  PROVE  r.at \subseteq Instants /\ r.count \in Nat
BY PmAssumption DEF Rule

LEMMA TxType ==
  ASSUME PmTypeOK, NEW w \in Workers, OpenOf(w)
  PROVE  /\ gen[w] \in Tx
         /\ gen[w].kind \in {"scan", "now", "meter", "ack"}
         /\ gen[w].plan \in Plans /\ gen[w].rule \in Rules /\ gen[w].at \in Instants
         /\ gen[w].todo \subseteq Assets /\ gen[w].won \subseteq Keys
         /\ gen[w].rest \in Seq(Plans) /\ gen[w].event \in Events \cup {NoEvent}
<1>1. gen[w] \in Tx
  BY DEF PmTypeOK, OpenOf, NoTx
<1> QED BY <1>1 DEF Tx

LEMMA NoTxFacts == NoTx.kind = "none"
BY DEF NoTx

LEMMA InitPmInv == PmInit => PmInv
<1> SUFFICES ASSUME PmInit PROVE PmInv
  OBVIOUS
<1>1. \A w \in Workers : gen[w] = NoTx /\ ~OpenOf(w) /\ gen[w].kind = "none"
  BY DEF PmInit, OpenOf, NoTx
<1>2. ASSUME NEW p \in Plans
      PROVE  /\ FirstRule[p] \in Rules /\ First(FirstRule[p], 1) \in Instants \cup {0}
             /\ \A x \in FirstRule[p].at : 1 <= x /\ x \in Instants
             /\ \A x \in FirstRule[p].at :
                  First(FirstRule[p], 1) # 0 /\ First(FirstRule[p], 1) <= x
  <2>1. FirstRule[p] \in Rules
    BY PmAssumption
  <2>2. FirstRule[p].at \subseteq Instants
    BY <2>1, RuleType
  <2>3. \A x \in Instants : x \in Nat /\ 1 <= x
    BY PmAssumption DEF Instants
  <2> QED BY <2>1, <2>2, <2>3, FirstFacts
<1>3. PmTypeOK
  <2>1. plan \in [Plans -> [rule : Rules, due : Instants \cup {0},
                            active : BOOLEAN, patched : SUBSET {"rule", "active"}]]
    BY <1>2 DEF PmInit
  <2>2. occ \in [Keys -> {"NONE", "GENERATED", "COMPLETED", "SKIPPED"}]
    BY DEF PmInit
  <2>3. orders \in [Keys -> Nat] /\ event \in [Events -> {"none", "pending", "published"}]
    BY DEF PmInit
  <2>4. worked \in [Keys -> BOOLEAN]
    BY DEF PmInit
  <2>5. listed \in [Scanners -> Seq(Plans)]
    BY DEF PmInit
  <2>6. gen \in [Workers -> {NoTx} \cup Tx]
    BY DEF PmInit
  <2>7. day \in 0..PmMaxTime /\ upsets \in 0..MaxUpsets
    BY PmAssumption DEF PmInit
  <2> QED BY <2>1, <2>2, <2>3, <2>4, <2>5, <2>6, <2>7 DEF PmTypeOK
<1>4. ScanIsListed /\ MeterHasEvent /\ WonIsFree /\ WonIsDisjoint
      /\ \A w \in Workers : ScanGood(gen[w])
  BY <1>1 DEF ScanIsListed, MeterHasEvent, WonIsFree, WonIsDisjoint, ScanGood
<1>5. OneOrderPerInstant /\ ComplianceFollowsWork
  BY DEF PmInit, OneOrderPerInstant, ComplianceFollowsWork
<1>6. NoInstantPassedOver
  <2> SUFFICES ASSUME NEW p \in Plans, NEW t \in Instants, Passed(p, t) PROVE FALSE
    BY DEF NoInstantPassedOver
  <2>1. plan[p].rule = FirstRule[p] /\ plan[p].due = First(FirstRule[p], 1)
    BY DEF PmInit
  <2>2. t \in Nat /\ (plan[p].due = 0 \/ plan[p].due \in Nat)
    BY <1>2, <2>1, PmAssumption DEF Instants
  <2> QED BY <1>2, <2>1, <2>2 DEF Passed
<1> QED BY <1>3, <1>4, <1>5, <1>6 DEF PmInv

-----------------------------------------------------------------------------
(* A transaction opens, goes on or ends without publishing anything.           *)
LEMMA TxMoves ==
  ASSUME PmInv, NEW w \in Workers, NEW r \in {NoTx} \cup Tx, gen' = [gen EXCEPT ![w] = r],
         UNCHANGED <<plan, occ, orders, worked>>,
         day' \in 0..PmMaxTime, upsets' \in 0..MaxUpsets,
         listed' \in [Scanners -> Seq(Plans)],
         event' \in [Events -> {"none", "pending", "published"}],
         \A s \in Scanners \ {w} : listed'[s] = listed[s],
         r.kind = "scan" => w \in Scanners /\ listed'[w] # <<>>,
         r.kind # "none" => \A k \in r.won : /\ occ[k] = "NONE"
                                             /\ \A v \in Workers \ {w} : OpenOf(v) => k \notin gen[v].won,
         r.kind = "meter" => r.event \in Events,
         ScanGood(r)
  PROVE  PmInv'
<1>1. PmTypeOK'
  BY DEF PmInv, PmTypeOK
<1>2. gen'[w] = r /\ \A v \in Workers \ {w} : gen'[v] = gen[v]
  BY DEF PmInv, PmTypeOK
<1>3. ScanIsListed' /\ MeterHasEvent'
  BY <1>2 DEF PmInv, ScanIsListed, MeterHasEvent
<1>4. WonIsFree' /\ WonIsDisjoint'
  BY <1>2 DEF PmInv, WonIsFree, WonIsDisjoint, OpenOf
<1>5. \A v \in Workers : ScanGood(gen[v])'
  <2>1. ScanGood(gen[w])'
    BY <1>2 DEF ScanGood, Unpatched, Covered
  <2>2. \A v \in Workers \ {w} : ScanGood(gen[v])'
    BY <1>2 DEF PmInv, ScanGood, Unpatched, Covered
  <2> QED BY <2>1, <2>2
<1>6. OneOrderPerInstant' /\ ComplianceFollowsWork' /\ NoInstantPassedOver'
  BY DEF PmInv, OneOrderPerInstant, ComplianceFollowsWork, NoInstantPassedOver, Passed, Covered
<1> QED BY <1>1, <1>3, <1>4, <1>5, <1>6 DEF PmInv

(* The frame of a step that leaves the plans and the orders alone.             *)
LEMMA Frame ==
  ASSUME PmInv, UNCHANGED <<day, listed, event, upsets>>
  PROVE  /\ day' \in 0..PmMaxTime /\ upsets' \in 0..MaxUpsets
         /\ listed' \in [Scanners -> Seq(Plans)]
         /\ event' \in [Events -> {"none", "pending", "published"}]
BY DEF PmInv, PmTypeOK

LEMMA PlanType ==
  ASSUME PmTypeOK, NEW p \in Plans
  PROVE  /\ plan[p].rule \in Rules /\ plan[p].due \in Instants \cup {0}
         /\ plan[p].active \in BOOLEAN /\ plan[p].patched \subseteq {"rule", "active"}
BY DEF PmTypeOK

(* Steps on the lists only.                                                   *)
LEMMA ListsMove ==
  ASSUME PmInv, UNCHANGED <<plan, occ, orders, worked, gen>>,
         day' \in 0..PmMaxTime, upsets' \in 0..MaxUpsets,
         listed' \in [Scanners -> Seq(Plans)],
         event' \in [Events -> {"none", "pending", "published"}],
         \A s \in Scanners : gen[s].kind = "scan" => listed'[s] = listed[s]
  PROVE  PmInv'
<1>1. PmTypeOK'
  BY DEF PmInv, PmTypeOK
<1>2. ScanIsListed' /\ MeterHasEvent'
  BY DEF PmInv, ScanIsListed, MeterHasEvent
<1>3. WonIsFree' /\ WonIsDisjoint' /\ \A w \in Workers : ScanGood(gen[w])'
  BY DEF PmInv, WonIsFree, WonIsDisjoint, OpenOf, ScanGood, Unpatched, Covered
<1>4. OneOrderPerInstant' /\ ComplianceFollowsWork' /\ NoInstantPassedOver'
  BY DEF PmInv, OneOrderPerInstant, ComplianceFollowsWork, NoInstantPassedOver, Passed, Covered
<1> QED BY <1>1, <1>2, <1>3, <1>4 DEF PmInv

LEMMA ListDueStep ==
  ASSUME PmInv, NEW s \in Scanners, ListDue(s)
  PROVE  PmInv'
<1>1. PICK n \in 1..Batch : \E q \in [1..n -> DuePlans] : listed' = [listed EXCEPT ![s] = q]
  BY DEF ListDue
<1>2. PICK q \in [1..n -> DuePlans] : listed' = [listed EXCEPT ![s] = q]
  BY <1>1
<1>3. q \in Seq(Plans)
  BY PmAssumption DEF DuePlans
<1>4. gen[s].kind # "scan" /\ UNCHANGED <<day, plan, occ, orders, worked, gen, event, upsets>>
  BY DEF ListDue, NoTx
<1> QED BY <1>2, <1>3, <1>4, ListsMove DEF PmInv, PmTypeOK

LEMMA OtherListsStep ==
  ASSUME PmInv, NextDay \/ (\E e \in Events : Emit(e)) \/ UNCHANGED pmVars
  PROVE  PmInv'
<1>1. /\ UNCHANGED <<plan, occ, orders, worked, listed, gen>>
      /\ upsets' \in 0..MaxUpsets /\ listed' \in [Scanners -> Seq(Plans)]
  BY DEF NextDay, Emit, pmVars, PmInv, PmTypeOK
<1>2. day' \in 0..PmMaxTime
  BY PmAssumption DEF NextDay, Emit, pmVars, PmInv, PmTypeOK
<1>3. event' \in [Events -> {"none", "pending", "published"}]
  BY DEF NextDay, Emit, pmVars, PmInv, PmTypeOK
<1> QED BY <1>1, <1>2, <1>3, ListsMove

(* A scanner opens the plan at the head of its list, or drops it or the list.   *)
LEMMA OpenListedStep ==
  ASSUME PmInv, NEW s \in Scanners, OpenListed(s)
  PROVE  PmInv'
<1> DEFINE p == Head(listed[s])
<1>1. /\ gen[s].kind = "none" /\ listed[s] \in Seq(Plans) /\ listed[s] # <<>> /\ p \in Plans
      /\ Tail(listed[s]) \in Seq(Plans) /\ s \in Workers /\ PmTypeOK
      /\ UNCHANGED <<day, plan, occ, orders, worked, event, upsets>>
  BY DEF OpenListed, NoTx, PmInv, PmTypeOK, Workers
<1>2. CASE UNCHANGED gen /\ \/ listed' = [listed EXCEPT ![s] = Tail(listed[s])]
                            \/ listed' = [listed EXCEPT ![s] = <<>>]
  <2>1. PICK q \in Seq(Plans) : listed' = [listed EXCEPT ![s] = q]
    <3>1. <<>> \in Seq(Plans)
      OBVIOUS
    <3> QED BY <1>1, <1>2, <3>1
  <2>2. listed' \in [Scanners -> Seq(Plans)]
        /\ \A u \in Scanners : gen[u].kind = "scan" => listed'[u] = listed[u]
    BY <1>1, <2>1 DEF PmTypeOK
  <2> QED BY <1>1, <1>2, <2>2, ListsMove DEF PmTypeOK
<1>3. CASE /\ plan[p].due # 0 /\ UNCHANGED listed
           /\ gen' = [gen EXCEPT ![s] = Reading("scan", p, plan[p].due, {}, <<>>, NoEvent)]
  <2> DEFINE r == Reading("scan", p, plan[p].due, {}, <<>>, NoEvent)
  <2>1. plan[p].due \in Instants /\ plan[p].rule \in Rules
    BY <1>1, <1>3, PlanType
  <2>2. /\ r \in Tx /\ r.kind = "scan" /\ r.plan = p /\ r.rule = plan[p].rule
        /\ r.at = plan[p].due /\ r.todo = Targets[p] /\ r.won = {}
    <3>1. r = [kind |-> "scan", plan |-> p, rule |-> plan[p].rule, at |-> plan[p].due,
               todo |-> Targets[p], won |-> {}, rest |-> <<>>, event |-> NoEvent]
      BY DEF Reading
    <3>2. Targets[p] \subseteq Assets /\ <<>> \in Seq(Plans)
      BY <1>1, PmAssumption
    <3> HIDE DEF r, p
    <3> QED BY <1>1, <2>1, <3>1, <3>2 DEF Tx
  <2> HIDE DEF r, p
  <2>3. \A t \in plan[p].rule.at : t \in Instants
    BY <2>1, RuleType
  <2>4. ScanGood(r)
    BY <1>1, <2>2, <2>3 DEF ScanGood, Unpatched, PmInv, NoInstantPassedOver, Passed
  <2>5. gen' = [gen EXCEPT ![s] = r]
    BY <1>3 DEF r
  <2> QED BY <1>1, <1>3, <2>2, <2>4, <2>5, TxMoves, Frame
<1> QED BY <1>1, <1>2, <1>3 DEF OpenListed

LEMMA GenerateNowStep ==
  ASSUME PmInv, NEW w \in Requests, NEW p \in Plans, GenerateNow(w, p)
  PROVE  PmInv'
<1> DEFINE r == Reading("now", p, plan[p].due, {}, <<>>, NoEvent)
<1>1. /\ w \in Workers /\ PmTypeOK /\ plan[p].due # 0 /\ gen' = [gen EXCEPT ![w] = r]
      /\ UNCHANGED <<day, plan, occ, orders, worked, listed, event, upsets>>
  BY DEF GenerateNow, Workers, PmInv
<1>2. plan[p].due \in Instants
  BY <1>1, PlanType
<1>3. r \in Tx /\ r.kind = "now" /\ r.won = {}
  <2>1. r = [kind |-> "now", plan |-> p, rule |-> plan[p].rule, at |-> plan[p].due,
             todo |-> Targets[p], won |-> {}, rest |-> <<>>, event |-> NoEvent]
    BY DEF Reading
  <2>2. Targets[p] \subseteq Assets /\ <<>> \in Seq(Plans) /\ plan[p].rule \in Rules
    BY <1>1, PmAssumption, PlanType
  <2> HIDE DEF r
  <2> QED BY <1>2, <2>1, <2>2 DEF Tx
<1> HIDE DEF r
<1> QED BY <1>1, <1>3, TxMoves, Frame DEF ScanGood

(* The next asset is claimed unless an occurrence is there already.            *)
LEMMA ClaimStep ==
  ASSUME PmInv, NEW w \in Workers, Claim(w)
  PROVE  PmInv'
<1> DEFINE a == Least(gen[w].todo)
           k == [plan |-> gen[w].plan, asset |-> a, at |-> gen[w].at]
           W == gen[w].won \cup {x \in {k} : occ[x] = "NONE"}
           r == [gen[w] EXCEPT !.todo = gen[w].todo \ {a}, !.won = W]
<1>1. /\ gen[w].kind # "none" /\ gen[w].todo # {} /\ ~Held(k, w)
      /\ UNCHANGED <<day, plan, occ, orders, worked, listed, event, upsets>>
  BY DEF Claim
<1>2. gen' = [gen EXCEPT ![w] = r]
  BY DEF Claim
<1>3. /\ gen[w] \in Tx /\ gen[w].kind \in {"scan", "now", "meter", "ack"} /\ PmTypeOK
      /\ gen[w].plan \in Plans /\ gen[w].rule \in Rules /\ gen[w].at \in Instants
      /\ gen[w].todo \subseteq Assets /\ gen[w].won \subseteq Keys
  BY <1>1, TxType DEF OpenOf, PmInv
<1>4. a \in gen[w].todo
  BY <1>1, <1>3, LeastFacts, PmAssumption
<1>5. k \in Keys
  BY <1>3, <1>4 DEF Keys
<1>6. W \subseteq Keys /\ \A x \in W : occ[x] = "NONE" /\ (x \in gen[w].won \/ x = k)
  BY <1>1, <1>3, <1>5 DEF PmInv, WonIsFree, OpenOf
<1>7. \A x \in W : \A v \in Workers \ {w} : OpenOf(v) => x \notin gen[v].won
  BY <1>1, <1>6 DEF PmInv, WonIsDisjoint, Held, OpenOf
<1> HIDE DEF a, W
<1>8. /\ r \in Tx /\ r.kind = gen[w].kind /\ r.plan = gen[w].plan /\ r.rule = gen[w].rule
      /\ r.at = gen[w].at /\ r.todo = gen[w].todo \ {a} /\ r.won = W
      /\ r.event = gen[w].event
  BY <1>3, <1>6 DEF Tx
<1> HIDE DEF r
<1>9. k = KeyOf(gen[w].plan, a, gen[w].at) /\ (k \in W \/ occ[k] # "NONE")
      /\ gen[w].won \subseteq W
  BY DEF KeyOf, W
<1> HIDE DEF k
<1>10. ScanGood(r)
  BY <1>8, <1>9 DEF PmInv, ScanGood
<1>11. r.kind = "scan" => w \in Scanners /\ listed'[w] # <<>>
  BY <1>1, <1>8 DEF PmInv, ScanIsListed
<1>12. r.kind = "meter" => r.event \in Events
  BY <1>8 DEF PmInv, MeterHasEvent
<1> QED BY <1>1, <1>2, <1>6, <1>7, <1>8, <1>10, <1>11, <1>12, TxMoves, Frame

LEMMA DieStep ==
  ASSUME PmInv, NEW w \in Workers, Die(w)
  PROVE  PmInv'
<1>1. /\ gen' = [gen EXCEPT ![w] = NoTx]
      /\ listed' = IF w \in Scanners THEN [listed EXCEPT ![w] = <<>>] ELSE listed
      /\ UNCHANGED <<day, plan, occ, orders, worked, event>>
  BY DEF Die
<1>2. upsets' \in 0..MaxUpsets
  BY PmAssumption DEF Die, Upset, PmInv, PmTypeOK
<1>3. /\ listed' \in [Scanners -> Seq(Plans)]
      /\ \A s \in Scanners \ {w} : listed'[s] = listed[s]
  BY <1>1 DEF PmInv, PmTypeOK
<1> QED BY <1>1, <1>2, <1>3, NoTxFacts, TxMoves DEF PmInv, PmTypeOK, ScanGood

-----------------------------------------------------------------------------
(* A commit publishes what was claimed: an occurrence never disappears, and     *)
(* each of the new ones gets its only order.                                   *)
LEMMA PublishFacts ==
  ASSUME PmInv, NEW w \in Workers, OpenOf(w), Publish(w), UNCHANGED worked
  PROVE  /\ occ' \in [Keys -> {"NONE", "GENERATED", "COMPLETED", "SKIPPED"}]
         /\ orders' \in [Keys -> Nat]
         /\ \A k \in Keys : occ[k] # "NONE" => occ'[k] # "NONE"
         /\ \A k \in gen[w].won : occ'[k] # "NONE"
         /\ \A k \in Keys \ gen[w].won : occ'[k] = occ[k]
         /\ OneOrderPerInstant' /\ ComplianceFollowsWork'
<1>1. /\ occ' = [k \in Keys |-> IF k \in gen[w].won THEN "GENERATED" ELSE occ[k]]
      /\ orders' = [k \in Keys |-> IF k \in gen[w].won THEN orders[k] + 1 ELSE orders[k]]
      /\ gen[w].won \subseteq Keys /\ \A k \in gen[w].won : occ[k] = "NONE"
  BY TxType DEF Publish, PmInv, WonIsFree
<1>2. /\ occ \in [Keys -> {"NONE", "GENERATED", "COMPLETED", "SKIPPED"}]
      /\ orders \in [Keys -> Nat] /\ worked \in [Keys -> BOOLEAN]
  BY DEF PmInv, PmTypeOK
<1>3. /\ occ' \in [Keys -> {"NONE", "GENERATED", "COMPLETED", "SKIPPED"}]
      /\ orders' \in [Keys -> Nat]
  BY <1>1, <1>2
<1>4. OneOrderPerInstant'
  BY <1>1, <1>2 DEF PmInv, OneOrderPerInstant
<1>5. ComplianceFollowsWork'
  BY <1>1, <1>2 DEF PmInv, ComplianceFollowsWork
<1> QED BY <1>1, <1>3, <1>4, <1>5

LEMMA CoveredStays ==
  ASSUME \A k \in Keys : occ[k] # "NONE" => occ'[k] # "NONE",
         NEW p \in Plans, NEW t \in Instants, Covered(p, t)
  PROVE  Covered(p, t)'
BY KeyType DEF Covered, KeyOf

(* When a scan commits, its plan moves from the instant it has just covered to   *)
(* the next one of the rule; when another transaction does, no plan moves.      *)
LEMMA DueMoves ==
  ASSUME PmInv, NEW s \in Workers, gen[s].kind = "scan", gen[s].todo = {}, Publish(s),
         UNCHANGED worked, NEW p, p = gen[s].plan, NEW r, r = gen[s].rule,
         NEW n, n = gen[s].at, Unpatched(p),
         NEW t \in plan[p].rule.at, NEW d, d = After(r, n), d = 0 \/ t < d
  PROVE  Covered(p, t)'
<1>1. /\ OpenOf(s) /\ p \in Plans /\ r \in Rules /\ n \in Instants /\ PmTypeOK
      /\ r = plan[p].rule /\ r.count = 0
      /\ \A x \in r.at : x < n => Covered(p, x)
      /\ \A a \in Targets[p] : KeyOf(p, a, n) \in gen[s].won \/ occ[KeyOf(p, a, n)] # "NONE"
  BY TxType DEF OpenOf, PmInv, ScanGood, Unpatched
<1>2. r.at \subseteq Instants /\ \A x \in Instants \cup {0} : x \in Nat
  BY <1>1, RuleType, PmAssumption DEF Instants
<1>3. /\ t \in r.at /\ t \in Instants /\ t \in Nat /\ n \in Nat /\ n + 1 \in Nat
      /\ d = First(r, n + 1)
  BY <1>1, <1>2 DEF After
<1>4. t <= n
  <2>1. d \in Instants \cup {0}
    BY <1>2, <1>3, FirstFacts
  <2>2. n + 1 <= t => d # 0 /\ d <= t
    BY <1>2, <1>3, FirstFacts
  <2>3. d \in Nat
    BY <1>2, <2>1
  <2> QED BY <1>3, <2>2, <2>3
<1>5. /\ \A k \in Keys : occ[k] # "NONE" => occ'[k] # "NONE"
      /\ \A k \in gen[s].won : occ'[k] # "NONE"
  BY <1>1, PublishFacts
<1>6. CASE t < n
  <2>1. Covered(p, t)
    BY <1>1, <1>3, <1>6
  <2> QED BY <1>1, <1>3, <1>5, <2>1, CoveredStays
<1>7. CASE t = n
  <2>1. \A a \in Targets[p] : KeyOf(p, a, t) \in Keys /\ occ'[KeyOf(p, a, t)] # "NONE"
    BY <1>1, <1>3, <1>5, <1>7, KeyType
  <2> QED BY <2>1 DEF Covered, KeyOf
<1> QED BY <1>3, <1>4, <1>6, <1>7

LEMMA CommitStep ==
  ASSUME PmInv, NEW w \in Workers, OpenOf(w), Publish(w), gen[w].todo = {},
         NEW r \in {NoTx} \cup Tx, gen' = [gen EXCEPT ![w] = r], r.kind \in {"none", "ack"},
         r.kind = "ack" => r.won = {},
         UNCHANGED <<day, worked, event, upsets>>,
         listed' \in [Scanners -> Seq(Plans)],
         \A s \in Scanners \ {w} : listed'[s] = listed[s],
         \/ UNCHANGED plan
         \/ gen[w].kind = "scan" /\ Advance(w)
  PROVE  PmInv'
<1>1. gen'[w] = r /\ \A v \in Workers \ {w} : gen'[v] = gen[v]
  BY DEF PmInv, PmTypeOK
<1>2. /\ gen[w].plan \in Plans /\ gen[w].rule \in Rules /\ gen[w].at \in Instants
      /\ gen[w].won \subseteq Keys
  BY TxType DEF PmInv
<1>3. After(gen[w].rule, gen[w].at) \in Instants \cup {0}
  <2>1. gen[w].rule.at \subseteq Instants /\ gen[w].at + 1 \in Nat
    BY <1>2, RuleType, PmAssumption DEF Instants
  <2> QED BY <2>1, FirstFacts DEF After
<1>4. /\ plan' \in [Plans -> [rule : Rules, due : Instants \cup {0},
                              active : BOOLEAN, patched : SUBSET {"rule", "active"}]]
      /\ \A p \in Plans : /\ plan'[p].rule = plan[p].rule /\ plan'[p].patched = plan[p].patched
                          /\ \/ plan'[p].due = plan[p].due
                             \/ /\ p = gen[w].plan /\ gen[w].kind = "scan"
                                /\ plan'[p].due = After(gen[w].rule, gen[w].at)
  <2>1. CASE UNCHANGED plan
    BY <2>1 DEF PmInv, PmTypeOK
  <2>2. CASE gen[w].kind = "scan" /\ Advance(w)
    <3> DEFINE d == After(gen[w].rule, gen[w].at)
    <3>1. plan' = [plan EXCEPT ![gen[w].plan].due = d]
      BY <2>2 DEF Advance
    <3>2. d \in Instants \cup {0}
      BY <1>3
    <3> HIDE DEF d
    <3>3. plan \in [Plans -> [rule : Rules, due : Instants \cup {0},
                              active : BOOLEAN, patched : SUBSET {"rule", "active"}]]
      BY DEF PmInv, PmTypeOK
    <3>4. plan' \in [Plans -> [rule : Rules, due : Instants \cup {0},
                              active : BOOLEAN, patched : SUBSET {"rule", "active"}]]
      <4>1. PICK q : q = gen[w].plan
        OBVIOUS
      <4>2. q \in Plans /\ plan' = [plan EXCEPT ![q].due = d]
        BY <1>2, <3>1, <4>1
      <4>3. PICK planned : planned = [plan[q] EXCEPT !.due = d]
        OBVIOUS
      <4>4. planned \in [rule : Rules, due : Instants \cup {0}, active : BOOLEAN, patched : SUBSET {"rule", "active"}]
        <5>1. plan[q] \in [rule : Rules, due : Instants \cup {0}, active : BOOLEAN, patched : SUBSET {"rule", "active"}]
          BY <3>3, <4>2
        <5> QED BY <3>2, <4>3, <5>1
      <4>5. plan' = [plan EXCEPT ![q] = planned]
        BY <4>2, <4>3
      <4> QED BY <3>3, <4>2, <4>4, <4>5
    <3>5. \A p \in Plans : /\ plan'[p].rule = plan[p].rule /\ plan'[p].patched = plan[p].patched
                           /\ plan'[p].due = plan[p].due \/ (p = gen[w].plan /\ plan'[p].due = d)
      <4>1. PICK q : q = gen[w].plan
        OBVIOUS
      <4>2. q \in Plans /\ plan' = [plan EXCEPT ![q].due = d]
        BY <1>2, <3>1, <4>1
      <4> QED BY <3>3, <4>1, <4>2
    <3> QED BY <2>2, <3>4, <3>5 DEF d
  <2> QED BY <2>1, <2>2
<1>5. PmTypeOK'
  BY <1>4, PublishFacts DEF PmInv, PmTypeOK
<1>6. ScanIsListed' /\ MeterHasEvent'
  BY <1>1 DEF PmInv, ScanIsListed, MeterHasEvent
<1>7. WonIsFree' /\ WonIsDisjoint'
  <2>1. \A v \in Workers \ {w} : OpenOf(v) => gen[v].won \subseteq Keys \ gen[w].won
    BY TxType DEF PmInv, WonIsDisjoint
  <2>2. \A v \in Workers \ {w} : OpenOf(v) => \A k \in gen[v].won : occ'[k] = "NONE"
    BY <2>1, PublishFacts DEF PmInv, WonIsFree
  <2> QED BY <1>1, <2>2 DEF PmInv, WonIsFree, WonIsDisjoint, OpenOf
<1>8. ASSUME NEW v \in Workers \ {w}
      PROVE  ScanGood(gen[v])'
  <2> SUFFICES ASSUME gen[v].kind = "scan" PROVE ScanGood(gen[v])'
    BY <1>1 DEF ScanGood
  <2>1. /\ OpenOf(v) /\ gen[v].plan \in Plans /\ gen[v].at \in Instants /\ gen[v].rule \in Rules
        /\ gen[v].rule.at \subseteq Instants
    BY TxType, RuleType DEF PmInv, OpenOf
  <2>2. \A a \in Targets[gen[v].plan] \ gen[v].todo :
          KeyOf(gen[v].plan, a, gen[v].at) \in gen[v].won
            \/ occ'[KeyOf(gen[v].plan, a, gen[v].at)] # "NONE"
    BY <2>1, PublishFacts, KeyType DEF PmInv, ScanGood
  <2>3. Unpatched(gen[v].plan)' =>
          /\ gen[v].rule = plan'[gen[v].plan].rule
          /\ \A t \in gen[v].rule.at : t < gen[v].at => Covered(gen[v].plan, t)'
    BY <1>1, <1>4, <2>1, PublishFacts, CoveredStays DEF PmInv, ScanGood, Unpatched
  <2> QED BY <1>1, <2>2, <2>3 DEF ScanGood
<1>9. ScanGood(gen[w])'
  BY <1>1 DEF ScanGood
<1>10. NoInstantPassedOver'
  <2> SUFFICES ASSUME NEW p \in Plans, NEW t \in Instants,
                      "rule" \notin plan'[p].patched, plan'[p].rule.count = 0,
                      t \in plan'[p].rule.at, plan'[p].due = 0 \/ t < plan'[p].due
               PROVE  Covered(p, t)'
    BY DEF NoInstantPassedOver, Passed
  <2>1. CASE plan'[p].due = plan[p].due
    <3>1. Covered(p, t)
      BY <1>4, <2>1 DEF PmInv, NoInstantPassedOver, Passed
    <3> QED BY <3>1, PublishFacts, CoveredStays
  <2>2. CASE p = gen[w].plan /\ gen[w].kind = "scan"
             /\ plan'[p].due = After(gen[w].rule, gen[w].at)
    <3>1. Unpatched(p) /\ t \in plan[p].rule.at
      BY <1>4, <2>2 DEF Unpatched
    <3>2. plan'[p].due = 0 \/ t < plan'[p].due
      OBVIOUS
    <3> QED BY <2>2, <3>1, <3>2, DueMoves
  <2> QED BY <1>4, <2>1, <2>2
<1> QED BY <1>5, <1>6, <1>7, <1>8, <1>9, <1>10, PublishFacts DEF PmInv

LEMMA FinishStep ==
  ASSUME PmInv, NEW w \in Workers, (w \in Scanners /\ FinishScan(w)) \/ FinishNow(w)
  PROVE  PmInv'
<1>1. /\ OpenOf(w) /\ Publish(w) /\ gen[w].todo = {} /\ gen' = [gen EXCEPT ![w] = NoTx]
      /\ UNCHANGED <<day, worked, event, upsets>>
      /\ UNCHANGED plan \/ (gen[w].kind = "scan" /\ Advance(w))
  BY DEF FinishScan, FinishNow, OpenOf
<1>2. /\ listed' \in [Scanners -> Seq(Plans)]
      /\ \A s \in Scanners \ {w} : listed'[s] = listed[s]
  <2>1. CASE UNCHANGED listed
    BY <2>1 DEF PmInv, PmTypeOK
  <2>2. CASE w \in Scanners /\ FinishScan(w)
    <3>1. listed[w] \in Seq(Plans) /\ listed[w] # <<>> /\ listed \in [Scanners -> Seq(Plans)]
      BY <2>2 DEF FinishScan, PmInv, PmTypeOK, ScanIsListed
    <3>2. Tail(listed[w]) \in Seq(Plans)
      BY <3>1
    <3>3. listed' = [listed EXCEPT ![w] = Tail(listed[w])]
      BY <2>2 DEF FinishScan
    <3> QED BY <3>1, <3>2, <3>3
  <2> QED BY <2>1, <2>2 DEF FinishNow
<1> QED BY <1>1, <1>2, NoTxFacts, CommitStep

LEMMA FinishMeterStep ==
  ASSUME PmInv, NEW w \in Workers, FinishMeter(w)
  PROVE  PmInv'
<1> DEFINE r == [gen[w] EXCEPT !.kind = "ack", !.won = {}]
<1>1. /\ OpenOf(w) /\ Publish(w) /\ gen[w].todo = {} /\ gen' = [gen EXCEPT ![w] = r]
      /\ UNCHANGED <<day, plan, worked, listed, event, upsets>>
  BY DEF FinishMeter, OpenOf
<1>2. gen[w] \in Tx
  BY <1>1, TxType DEF PmInv
<1>3. r \in Tx /\ r.kind = "ack" /\ r.won = {}
  BY <1>2 DEF Tx
<1> HIDE DEF r
<1> QED BY <1>1, <1>3, CommitStep DEF PmInv, PmTypeOK

-----------------------------------------------------------------------------
(* Meter events                                                               *)

(* The transaction turns to the next plan of its event, with what it has won.   *)
MeterTurn(w, r, W, e) ==
  /\ r \in Tx /\ r.kind = "meter" /\ r.won = W /\ r.event = e
  /\ gen' = [gen EXCEPT ![w] = r]

LEMMA NextPlanFacts ==
  ASSUME PmTypeOK, NEW w, NEW W, W \in SUBSET Keys, NEW q \in Seq(Plans), q # <<>>,
         NEW e \in Events, NextPlan(w, W, q, e)
  PROVE  \E r : MeterTurn(w, r, W, e)
<1> DEFINE active == {i \in 1..Len(q) : plan[q[i]].active}
           i == Least(active)
           none == [Reading("meter", q[1], EventAt[e], W, <<>>, e) EXCEPT !.todo = {}]
           next == Reading("meter", q[i], EventAt[e], W, SubSeq(q, i + 1, Len(q)), e)
<1>1. gen' = [gen EXCEPT ![w] = IF active = {} THEN none ELSE next]
  BY DEF NextPlan
<1>2. Len(q) \in Nat /\ Len(q) # 0 /\ EventAt[e] \in Instants /\ <<>> \in Seq(Plans)
      /\ \A j \in 1..Len(q) : q[j] \in Plans
  BY PmAssumption
<1>3. \A p \in Plans : plan[p].rule \in Rules /\ Targets[p] \subseteq Assets
  BY PlanType, PmAssumption
<1>4. none \in Tx /\ none.kind = "meter" /\ none.won = W /\ none.event = e
  <2>1. q[1] \in Plans
    BY <1>2
  <2> DEFINE b == [kind |-> "meter", plan |-> q[1], rule |-> plan[q[1]].rule,
                   at |-> EventAt[e], todo |-> Targets[q[1]], won |-> W, rest |-> <<>>,
                   event |-> e]
  <2>2. b \in Tx /\ b.kind = "meter" /\ b.won = W /\ b.event = e
    BY <1>2, <1>3, <2>1 DEF Tx
  <2>3. none = [b EXCEPT !.todo = {}]
    BY DEF Reading
  <2> HIDE DEF b, none
  <2> QED BY <2>2, <2>3 DEF Tx
<1>5. ASSUME active # {} PROVE next \in Tx /\ next.kind = "meter" /\ next.won = W /\ next.event = e
  <2>1. i \in 1..Len(q)
    <3>1. active \in SUBSET Nat
      OBVIOUS
    <3>2. i \in active
      BY <1>5, <3>1, LeastFacts
    <3> QED BY <3>2
  <2> HIDE DEF i
  <2>2. SubSeq(q, i + 1, Len(q)) \in Seq(Plans) /\ q[i] \in Plans
    BY <1>2, <2>1
  <2> DEFINE rest == SubSeq(q, i + 1, Len(q))
  <2>3. next = [kind |-> "meter", plan |-> q[i], rule |-> plan[q[i]].rule, at |-> EventAt[e],
                todo |-> Targets[q[i]], won |-> W, rest |-> rest, event |-> e]
    BY DEF Reading
  <2> HIDE DEF rest, next
  <2>4. rest \in Seq(Plans)
    BY <2>2 DEF rest
  <2> QED BY <1>2, <1>3, <2>2, <2>3, <2>4 DEF Tx
<1> HIDE DEF none, next, active
<1> QED BY <1>1, <1>4, <1>5 DEF MeterTurn

LEMMA DeliverStep ==
  ASSUME PmInv, NEW w \in Relays, NEW e \in Events, Deliver(w, e)
  PROVE  PmInv'
<1>1. /\ w \in Workers /\ PmTypeOK /\ EventPlans[e] \in Seq(Plans) /\ EventPlans[e] # <<>>
      /\ NextPlan(w, {}, EventPlans[e], e)
      /\ UNCHANGED <<day, plan, occ, orders, worked, listed, event, upsets>>
  BY PmAssumption DEF Deliver, Workers, PmInv
<1>2. PICK r : MeterTurn(w, r, {}, e)
  <2>1. {} \in SUBSET Keys
    OBVIOUS
  <2> QED BY <1>1, <2>1, NextPlanFacts
<1> QED BY <1>1, <1>2, TxMoves, Frame DEF ScanGood, MeterTurn

LEMMA GoOnStep ==
  ASSUME PmInv, NEW w \in Workers, GoOn(w)
  PROVE  PmInv'
<1>1. /\ OpenOf(w) /\ PmTypeOK /\ NextPlan(w, gen[w].won, gen[w].rest, gen[w].event)
      /\ gen[w].rest # <<>>
      /\ UNCHANGED <<day, plan, occ, orders, worked, listed, event, upsets>>
  BY DEF GoOn, OpenOf, PmInv
<1>2. gen[w].won \in SUBSET Keys /\ gen[w].rest \in Seq(Plans) /\ gen[w].event \in Events
  BY <1>1, TxType DEF PmInv, MeterHasEvent, GoOn
<1>3. PICK r : MeterTurn(w, r, gen[w].won, gen[w].event)
  BY <1>1, <1>2, NextPlanFacts
<1>4. \A k \in r.won : /\ occ[k] = "NONE"
                       /\ \A v \in Workers \ {w} : OpenOf(v) => k \notin gen[v].won
  BY <1>1, <1>3 DEF PmInv, WonIsFree, WonIsDisjoint, MeterTurn
<1> QED BY <1>1, <1>2, <1>3, <1>4, TxMoves, Frame DEF ScanGood, MeterTurn

LEMMA AckStep ==
  ASSUME PmInv, NEW w \in Workers, Ack(w)
  PROVE  PmInv'
<1>1. /\ gen' = [gen EXCEPT ![w] = NoTx]
      /\ UNCHANGED <<day, plan, occ, orders, worked, listed, upsets>>
      /\ event' = [event EXCEPT ![gen[w].event] = "published"]
  BY DEF Ack
<1>2. event' \in [Events -> {"none", "pending", "published"}]
  BY <1>1 DEF PmInv, PmTypeOK
<1> QED BY <1>1, <1>2, NoTxFacts, TxMoves DEF PmInv, PmTypeOK, ScanGood

-----------------------------------------------------------------------------
(* Users                                                                      *)

(* A patched rule exempts its plan; switching a plan on or off changes nothing  *)
(* that was covered.                                                          *)
LEMMA PatchStep ==
  ASSUME PmInv, NEW p \in Plans,
         (\E r \in Rules : PatchRule(p, r)) \/ (\E b \in BOOLEAN : PatchActive(p, b))
  PROVE  PmInv'
<1>1. /\ UNCHANGED <<day, occ, orders, worked, listed, gen, event>>
      /\ upsets' \in 0..MaxUpsets
  <2>1. UNCHANGED <<day, occ, orders, worked, listed, gen, event>> /\ Upset
    BY DEF PatchRule, PatchActive
  <2>2. upsets' \in 0..MaxUpsets
    BY <2>1, PmAssumption DEF Upset, PmInv, PmTypeOK
  <2> QED BY <2>1, <2>2
<1>2. /\ plan' \in [Plans -> [rule : Rules, due : Instants \cup {0},
                              active : BOOLEAN, patched : SUBSET {"rule", "active"}]]
      /\ \A x \in Plans : "rule" \notin plan'[x].patched =>
           /\ "rule" \notin plan[x].patched
           /\ plan'[x].rule = plan[x].rule /\ plan'[x].due = plan[x].due
  <2> DEFINE T == [rule : Rules, due : Instants \cup {0},
                   active : BOOLEAN, patched : SUBSET {"rule", "active"}]
  <2>1. plan \in [Plans -> T] /\ plan[p] \in T
    BY DEF PmInv, PmTypeOK
  <2>2. CASE \E r \in Rules : PatchRule(p, r)
    <3> PICK r \in Rules : PatchRule(p, r)
      BY <2>2
    <3> DEFINE n == [plan[p] EXCEPT !.rule = r, !.due = First(r, day),
                                    !.patched = plan[p].patched \cup {"rule"}]
    <3>1. First(r, day) \in Instants \cup {0}
      <4>1. r.at \subseteq Instants /\ day \in Nat
        BY RuleType, PmAssumption DEF PmInv, PmTypeOK
      <4> QED BY <4>1, FirstFacts
    <3>2. n \in T /\ "rule" \in n.patched
      BY <2>1, <3>1
    <3>3. plan' = [plan EXCEPT ![p] = n]
      BY DEF PatchRule
    <3> HIDE DEF n, T
    <3> QED BY <2>1, <3>2, <3>3 DEF T
  <2>3. CASE \E b \in BOOLEAN : PatchActive(p, b)
    <3> PICK b \in BOOLEAN : PatchActive(p, b)
      BY <2>3
    <3> DEFINE n == [plan[p] EXCEPT !.active = b, !.patched = plan[p].patched \cup {"active"}]
    <3>1. n \in T /\ n.rule = plan[p].rule /\ n.due = plan[p].due
          /\ ("rule" \notin n.patched => "rule" \notin plan[p].patched)
      BY <2>1
    <3>2. plan' = [plan EXCEPT ![p] = n]
      BY DEF PatchActive
    <3> HIDE DEF n, T
    <3> QED BY <2>1, <3>1, <3>2 DEF T
  <2> QED BY <2>2, <2>3
<1>3. PmTypeOK' /\ ScanIsListed' /\ MeterHasEvent' /\ WonIsFree' /\ WonIsDisjoint'
  BY <1>1, <1>2
     DEF PmInv, PmTypeOK, ScanIsListed, MeterHasEvent, WonIsFree, WonIsDisjoint, OpenOf
<1>4. \A w \in Workers : ScanGood(gen[w])'
  <2> SUFFICES ASSUME NEW w \in Workers, gen[w].kind = "scan" PROVE ScanGood(gen[w])'
    BY <1>1 DEF ScanGood
  <2>1. gen[w].plan \in Plans /\ ScanGood(gen[w])
    BY TxType DEF PmInv, OpenOf
  <2>2. Unpatched(gen[w].plan)' =>
          /\ Unpatched(gen[w].plan)
          /\ plan'[gen[w].plan].rule = plan[gen[w].plan].rule
    BY <1>1, <1>2, <2>1 DEF Unpatched
  <2> QED BY <1>1, <2>1, <2>2 DEF ScanGood, Covered
<1>5. OneOrderPerInstant' /\ ComplianceFollowsWork' /\ NoInstantPassedOver'
  BY <1>1, <1>2
     DEF PmInv, OneOrderPerInstant, ComplianceFollowsWork, NoInstantPassedOver, Passed, Covered
<1> QED BY <1>3, <1>4, <1>5 DEF PmInv

(* Skipping, finishing and reopening change the status of an occurrence that     *)
(* exists, and keep it in step with its work order.                            *)
LEMMA OccurrenceStep ==
  ASSUME PmInv, NEW k \in Keys, Skip(k) \/ (\E b \in BOOLEAN : SetCompletion(k, b))
  PROVE  PmInv'
<1>1. /\ UNCHANGED <<day, plan, orders, listed, gen, event>>
      /\ upsets' \in 0..MaxUpsets
  BY PmAssumption DEF Skip, SetCompletion, Upset, PmInv, PmTypeOK
<1>2. /\ occ \in [Keys -> {"NONE", "GENERATED", "COMPLETED", "SKIPPED"}]
      /\ worked \in [Keys -> BOOLEAN] /\ orders \in [Keys -> Nat]
  BY DEF PmInv, PmTypeOK
<1>3. PICK s \in {"GENERATED", "COMPLETED", "SKIPPED"}, b \in BOOLEAN :
        /\ occ' = [occ EXCEPT ![k] = s] /\ worked' = [worked EXCEPT ![k] = b]
        /\ s = "COMPLETED" <=> b
  <2>1. CASE Skip(k)
    <3>1. worked' = [worked EXCEPT ![k] = worked[k]] /\ worked[k] \in BOOLEAN
      BY <1>2, <2>1 DEF Skip
    <3>2. ~worked[k]
      BY <2>1 DEF Skip, PmInv, ComplianceFollowsWork
    <3>3. occ' = [occ EXCEPT ![k] = "SKIPPED"]
      BY <2>1 DEF Skip
    <3> QED BY <3>1, <3>2, <3>3
  <2>2. CASE \E b \in BOOLEAN : SetCompletion(k, b)
    <3> PICK b \in BOOLEAN : SetCompletion(k, b)
      BY <2>2
    <3>1. worked' = [worked EXCEPT ![k] = b]
          /\ occ' = [occ EXCEPT ![k] = IF b THEN "COMPLETED" ELSE "GENERATED"]
      BY DEF SetCompletion
    <3> QED BY <3>1
  <2> QED BY <2>1, <2>2
<1>4. occ[k] # "NONE"
  BY <1>2 DEF Skip, SetCompletion, PmInv, OneOrderPerInstant
<1>5. /\ occ' \in [Keys -> {"NONE", "GENERATED", "COMPLETED", "SKIPPED"}]
      /\ \A x \in Keys : occ'[x] = "NONE" <=> occ[x] = "NONE"
  BY <1>2, <1>3, <1>4
<1>6. worked' \in [Keys -> BOOLEAN] /\ ComplianceFollowsWork'
  BY <1>2, <1>3 DEF PmInv, ComplianceFollowsWork
<1>7. PmTypeOK' /\ ScanIsListed' /\ MeterHasEvent'
  BY <1>1, <1>5, <1>6 DEF PmInv, PmTypeOK, ScanIsListed, MeterHasEvent
<1>8. WonIsFree' /\ WonIsDisjoint'
  BY <1>1, <1>5, TxType DEF PmInv, WonIsFree, WonIsDisjoint, OpenOf
<1>9. \A p \in Plans, t \in Instants : Covered(p, t) => Covered(p, t)'
  BY <1>5, CoveredStays
<1>10. \A w \in Workers : ScanGood(gen[w])'
  <2> SUFFICES ASSUME NEW w \in Workers, gen[w].kind = "scan" PROVE ScanGood(gen[w])'
    BY <1>1 DEF ScanGood
  <2>1. /\ gen[w].plan \in Plans /\ gen[w].at \in Instants /\ gen[w].rule \in Rules
        /\ gen[w].rule.at \subseteq Instants /\ ScanGood(gen[w])
    BY TxType, RuleType DEF PmInv, OpenOf
  <2>2. \A a \in Targets[gen[w].plan] : KeyOf(gen[w].plan, a, gen[w].at) \in Keys
    BY <2>1, KeyType
  <2> QED BY <1>1, <1>5, <1>9, <2>1, <2>2 DEF ScanGood, Unpatched
<1>11. OneOrderPerInstant'
  BY <1>1, <1>5 DEF PmInv, OneOrderPerInstant
<1>12. NoInstantPassedOver'
  BY <1>1, <1>9 DEF PmInv, NoInstantPassedOver, Passed
<1> QED BY <1>6, <1>7, <1>8, <1>10, <1>11, <1>12 DEF PmInv

-----------------------------------------------------------------------------
LEMMA NextPmInv == PmInv /\ [PmNext]_pmVars => PmInv'
<1> SUFFICES ASSUME PmInv, [PmNext]_pmVars PROVE PmInv'
  OBVIOUS
<1>1. Scanners \subseteq Workers
  BY DEF Workers
<1> QED BY <1>1, ListDueStep, OpenListedStep, OtherListsStep, GenerateNowStep, ClaimStep, DieStep,
           FinishStep, FinishMeterStep, DeliverStep, GoOnStep, AckStep, PatchStep, OccurrenceStep
        DEF PmNext, ScanStep, Progress

(* The inductive invariant holds in every reachable state.                    *)
THEOREM PmInvariant == PmSpec => []PmInv
BY InitPmInv, NextPmInv, PTL DEF PmSpec

(* Every variable keeps its type.                                            *)
THEOREM PmTyped == PmSpec => []PmTypeOK
<1>1. PmInv => PmTypeOK
  BY DEF PmInv
<1> QED BY PmInvariant, <1>1, PTL

(* However many scanners, requests and redelivered events generate it, an asset *)
(* has one order for an instant exactly when the occurrence exists.            *)
THEOREM OneOrder == PmSpec => []OneOrderPerInstant
<1>1. PmInv => OneOrderPerInstant
  BY DEF PmInv
<1> QED BY PmInvariant, <1>1, PTL

(* No instant of a rule is jumped over when a plan advances, with whatever       *)
(* overlapping scanners, stale copies and deaths.                              *)
THEOREM NothingPassedOver == PmSpec => []NoInstantPassedOver
<1>1. PmInv => NoInstantPassedOver
  BY DEF PmInv
<1> QED BY PmInvariant, <1>1, PTL

(* The two together.                                                          *)
THEOREM ServedOnce == PmSpec => []InstantsAreServedOnce
<1>1. OneOrderPerInstant /\ NoInstantPassedOver => InstantsAreServedOnce
  BY DEF InstantsAreServedOnce
<1> QED BY <1>1, OneOrder, NothingPassedOver, PTL

(* An occurrence is COMPLETED exactly while its work order is done.             *)
THEOREM ComplianceIsTrue == PmSpec => []ComplianceFollowsWork
<1>1. PmInv => ComplianceFollowsWork
  BY DEF PmInv
<1> QED BY PmInvariant, <1>1, PTL

-----------------------------------------------------------------------------
(* Exports *)

Told == {"COMPLETED", "FAILED"}
AtWork == {"running", "uploaded", "broken"}

(* A delivery that is past its upload has left the file, and one that is      *)
(* about to be acknowledged has told the user.  While no connection was lost, *)
(* every delivery holds its event, alone, and its job runs.                  *)
DeliveryInv(w) ==
  run[w].on =>
    /\ job[run[w].export] # "NONE"
    /\ run[w].step = "uploaded" => run[w].export \in file
    /\ run[w].step = "ok" => job[run[w].export] \in Told
    /\ run[w].held => notice[run[w].export].state = "pending"
    /\ ~lost => run[w].held
    /\ ~lost /\ run[w].step \in AtWork => job[run[w].export] = "RUNNING"
HeldAlone ==
  \A v, w \in Exporters :
    run[v].on /\ run[w].on /\ run[v].held /\ run[w].held /\ run[v].export = run[w].export
      => v = w

Requested ==
  \A x \in Exports :
    /\ notice[x].state # "none" => job[x] # "NONE"
    /\ notice[x].state \in {"none", "pending"} => notice[x].attempts < MaxAttempts

ExportInv ==
  /\ ExportTypeOK /\ Requested
  /\ \A w \in Exporters : DeliveryInv(w)
  /\ HeldAlone
  /\ PublishedIsTold

(* Nothing is requested at the start.                                       *)
LEMMA InitExportInv == ExportInit => ExportInv
<1> SUFFICES ASSUME ExportInit PROVE ExportInv
  OBVIOUS
<1>1. ExportTypeOK
  <2>1. [state |-> "none", attempts |-> 0]
          \in [state : {"none", "pending", "published", "parked"}, attempts : 0..MaxAttempts]
    BY ExportAssumption
  <2>2. notice \in [Exports -> [state : {"none", "pending", "published", "parked"},
                               attempts : 0..MaxAttempts]]
    BY <2>1 DEF ExportInit
  <2>3. run \in [Exporters -> {Resting} \cup Delivery]
    BY DEF ExportInit
  <2>4. job \in [Exports -> {"NONE", "PENDING", "RUNNING", "COMPLETED", "FAILED"}]
    BY DEF ExportInit
  <2>5. file \subseteq Exports /\ lost \in BOOLEAN
    BY DEF ExportInit
  <2>6. mishaps \in 0..MaxMishaps
    BY ExportAssumption DEF ExportInit
  <2> QED BY <2>2, <2>3, <2>4, <2>5, <2>6 DEF ExportTypeOK
<1>2. Requested /\ PublishedIsTold
  BY ExportAssumption DEF ExportInit, Requested, PublishedIsTold
<1>3. \A w \in Exporters : ~run[w].on
  BY DEF ExportInit, Resting
<1> QED BY <1>1, <1>2, <1>3 DEF ExportInv, DeliveryInv, HeldAlone

(* What the invariant says of a task that is busy.                            *)
LEMMA TasksAtWork ==
  ASSUME ExportInv, NEW w \in Exporters, run[w].on
  PROVE  /\ run[w] \in Delivery /\ run[w].export \in Exports /\ run[w].held \in BOOLEAN
         /\ DeliveryInv(w)
         /\ job[run[w].export] \in {"PENDING", "RUNNING", "COMPLETED", "FAILED"}
         /\ ExportTypeOK /\ file \subseteq Exports /\ mishaps \in 0..MaxMishaps
<1>1. run[w] \in Delivery /\ ExportTypeOK
  BY DEF ExportInv, ExportTypeOK, Resting
<1>2. run[w].export \in Exports /\ run[w].held \in BOOLEAN
  BY <1>1 DEF Delivery
<1>3. DeliveryInv(w)
  BY DEF ExportInv
<1> QED BY <1>1, <1>2, <1>3 DEF DeliveryInv, ExportTypeOK

(* A step of a delivery: only its own record and its own job move, and what   *)
(* the others rely on stays.                                                *)
LEMMA GoToType ==
  ASSUME ExportTypeOK, NEW w \in Exporters, run[w].on,
         NEW s \in {"claimed", "running", "uploaded", "broken", "ok", "err"}, GoTo(w, s)
  PROVE  /\ run' \in [Exporters -> {Resting} \cup Delivery]
         /\ run'[w] = [run[w] EXCEPT !.step = s] /\ run'[w].on /\ run'[w].step = s
         /\ run'[w].export = run[w].export /\ run'[w].held = run[w].held
         /\ run[w].export \in Exports /\ run[w].held \in BOOLEAN
         /\ \A v \in Exporters \ {w} : run'[v] = run[v]
<1>1. run[w] \in Delivery
  BY DEF ExportTypeOK, Resting
<1>2. run' = [run EXCEPT ![w] = [run[w] EXCEPT !.step = s]]
  BY DEF GoTo
<1>3. [run[w] EXCEPT !.step = s] \in Delivery
  BY <1>1 DEF Delivery
<1>4. run'[w] = [run[w] EXCEPT !.step = s]
  BY <1>2 DEF ExportTypeOK
<1>5. run'[w].on /\ run'[w].step = s /\ run'[w].export = run[w].export
      /\ run'[w].held = run[w].held /\ run[w].export \in Exports /\ run[w].held \in BOOLEAN
  BY <1>1, <1>4 DEF Delivery
<1> QED BY <1>2, <1>3, <1>4, <1>5 DEF ExportTypeOK

LEMMA DeliveryStep ==
  ASSUME ExportInv, NEW w \in Exporters, run[w].on,
         NEW s \in {"claimed", "running", "uploaded", "broken", "ok", "err"}, GoTo(w, s),
         UNCHANGED <<notice, lost>>, mishaps' \in 0..MaxMishaps,
         NEW x \in Exports, x = run[w].export,
         file \subseteq file', file' \subseteq Exports,
         job' \in [Exports -> {"NONE", "PENDING", "RUNNING", "COMPLETED", "FAILED"}],
         \A y \in Exports \ {x} : job'[y] = job[y],
         job[x] \in Told => job'[x] \in Told, job'[x] # "NONE",
         job'[x] = "COMPLETED" => x \in file',
         s = "uploaded" => x \in file',
         s = "ok" => job'[x] \in Told,
         ~lost /\ s \in AtWork => job'[x] = "RUNNING"
  PROVE  ExportInv'
<1>1. /\ run' \in [Exporters -> {Resting} \cup Delivery]
      /\ run'[w].on /\ run'[w].step = s /\ run'[w].export = x /\ run'[w].held = run[w].held
      /\ \A v \in Exporters \ {w} : run'[v] = run[v]
  BY GoToType DEF ExportInv
<1>2. ExportTypeOK'
  BY <1>1 DEF ExportInv, ExportTypeOK
<1>3. ASSUME NEW v \in Exporters \ {w}, run[v].on
      PROVE  /\ run[v].export \in Exports
             /\ ~lost => run[v].export # x
  <2>1. run[v] \in Delivery
    BY <1>3 DEF ExportInv, ExportTypeOK, Resting
  <2>2. ~lost => run[v].held /\ run[w].held
    BY <1>3 DEF ExportInv, DeliveryInv
  <2> QED BY <1>3, <2>1, <2>2 DEF Delivery, ExportInv, HeldAlone
<1>4. ASSUME NEW v \in Exporters \ {w}
      PROVE  DeliveryInv(v)'
  BY <1>1, <1>3 DEF ExportInv, DeliveryInv, Told
<1>5. DeliveryInv(w)'
  BY <1>1 DEF ExportInv, DeliveryInv
<1>6. HeldAlone'
  BY <1>1 DEF ExportInv, HeldAlone
<1>7. PublishedIsTold' /\ Requested'
  BY DEF ExportInv, PublishedIsTold, Requested, Told
<1> QED BY <1>2, <1>4, <1>5, <1>6, <1>7 DEF ExportInv

(* A finished job stays as it is, unless a connection was lost.               *)
Kept == \A x \in Exports : job[x] = "COMPLETED" /\ ~lost => job'[x] = "COMPLETED"

LEMMA StartRunStep ==
  ASSUME ExportInv, NEW w \in Exporters, StartRun(w)
  PROVE  ExportInv' /\ Kept
<1> DEFINE x == run[w].export
<1>1. /\ run[w].on /\ x \in Exports /\ mishaps' \in 0..MaxMishaps /\ UNCHANGED <<notice, lost>>
      /\ file \subseteq file' /\ file' \subseteq Exports
      /\ job[x] \in {"PENDING", "RUNNING", "COMPLETED", "FAILED"}
  BY TasksAtWork DEF StartRun, At
<1>2. CASE job[x] \in Unfinished /\ job' = [job EXCEPT ![x] = "RUNNING"] /\ GoTo(w, "running")
  BY <1>1, <1>2, DeliveryStep DEF ExportInv, ExportTypeOK, Unfinished, Told, Kept
<1>3. CASE job[x] \notin Unfinished /\ UNCHANGED job /\ GoTo(w, "ok")
  BY <1>1, <1>3, DeliveryStep
     DEF ExportInv, ExportTypeOK, PublishedIsTold, Unfinished, Told, AtWork, Kept
<1> QED BY <1>2, <1>3 DEF StartRun

LEMMA UploadStep ==
  ASSUME ExportInv, NEW w \in Exporters, Upload(w)
  PROVE  ExportInv' /\ Kept
<1> DEFINE x == run[w].export
<1>1. /\ run[w].on /\ x \in Exports /\ mishaps' \in 0..MaxMishaps /\ UNCHANGED <<job, notice, lost>>
      /\ file' = file \cup {x} /\ file' \subseteq Exports /\ GoTo(w, "uploaded")
      /\ job[x] # "NONE" /\ (~lost => job[x] = "RUNNING")
  BY TasksAtWork DEF Upload, At, DeliveryInv, AtWork
<1> QED BY <1>1, DeliveryStep DEF ExportInv, ExportTypeOK, Told, Kept

LEMMA CompleteRunStep ==
  ASSUME ExportInv, NEW w \in Exporters, CompleteRun(w)
  PROVE  ExportInv' /\ Kept
<1> DEFINE x == run[w].export
<1>1. /\ run[w].on /\ x \in Exports /\ mishaps' \in 0..MaxMishaps
      /\ UNCHANGED <<file, notice, lost>>
      /\ file' \subseteq Exports /\ GoTo(w, "ok") /\ x \in file
      /\ job' = [job EXCEPT ![x] = "COMPLETED"]
  BY TasksAtWork DEF CompleteRun, At, DeliveryInv
<1> QED BY <1>1, DeliveryStep DEF ExportInv, ExportTypeOK, Told, AtWork, Kept

LEMMA FailingStep ==
  ASSUME ExportInv, NEW w \in Exporters, CallFails(w) \/ RecordLost(w)
  PROVE  ExportInv' /\ Kept
<1> DEFINE x == run[w].export
<1>1. /\ run[w].on /\ x \in Exports /\ mishaps' \in 0..MaxMishaps
      /\ UNCHANGED <<job, file, notice, lost>> /\ file' \subseteq Exports
      /\ \/ GoTo(w, "err")
         \/ GoTo(w, "broken") /\ (~lost => job[x] = "RUNNING")
      /\ job[x] # "NONE"
  BY TasksAtWork, ExportAssumption DEF CallFails, RecordLost, Mishap, At, DeliveryInv, AtWork
<1>2. CASE GoTo(w, "err")
  BY <1>1, <1>2, DeliveryStep DEF ExportInv, ExportTypeOK, PublishedIsTold, AtWork, Kept
<1>3. CASE GoTo(w, "broken") /\ (~lost => job[x] = "RUNNING")
  BY <1>1, <1>3, DeliveryStep DEF ExportInv, ExportTypeOK, PublishedIsTold, AtWork, Kept
<1> QED BY <1>1, <1>2, <1>3

(* The job that failed was running, so nobody's result is overwritten.        *)
LEMMA RecordFailureStep ==
  ASSUME ExportInv, NEW w \in Exporters, RecordFailure(w)
  PROVE  ExportInv' /\ Kept
<1> DEFINE x == run[w].export
<1>1. /\ run[w].on /\ x \in Exports /\ mishaps' \in 0..MaxMishaps
      /\ UNCHANGED <<file, notice, lost>> /\ file' \subseteq Exports
      /\ GoTo(w, "err") /\ job' = [job EXCEPT ![x] = "FAILED"]
      /\ ~lost => job[x] = "RUNNING"
  BY TasksAtWork DEF RecordFailure, At, DeliveryInv, AtWork
<1> QED BY <1>1, DeliveryStep DEF ExportInv, ExportTypeOK, Told, AtWork, Kept

LEMMA RequestStep ==
  ASSUME ExportInv, NEW x \in Exports, RequestExport(x)
  PROVE  ExportInv' /\ Kept
<1>1. ExportTypeOK'
  BY DEF ExportInv, ExportTypeOK, RequestExport
<1>2. ASSUME NEW w \in Exporters, run[w].on
      PROVE  run[w].export \in Exports \ {x}
  BY <1>2, TasksAtWork DEF RequestExport
<1>4. \A w \in Exporters : DeliveryInv(w)'
  BY <1>2 DEF ExportInv, ExportTypeOK, DeliveryInv, RequestExport
<1>3. HeldAlone' /\ PublishedIsTold' /\ Requested' /\ Kept
  BY DEF ExportInv, ExportTypeOK, HeldAlone, PublishedIsTold, Requested, RequestExport, Kept
<1> QED BY <1>1, <1>3, <1>4 DEF ExportInv

LEMMA ClaimExportStep ==
  ASSUME ExportInv, NEW w \in Exporters, NEW x \in Exports, ClaimExport(w, x)
  PROVE  ExportInv' /\ Kept
<1> DEFINE d == [on |-> TRUE, export |-> x, held |-> TRUE, step |-> "claimed"]
<1>1. /\ d \in Delivery /\ run' = [run EXCEPT ![w] = d]
      /\ UNCHANGED <<job, file, notice, lost, mishaps>>
  BY DEF ClaimExport, Delivery
<1>2. ExportTypeOK'
  BY <1>1 DEF ExportInv, ExportTypeOK
<1>3. job[x] # "NONE"
  BY DEF ExportInv, Requested, ClaimExport
<1>4. run'[w] = d /\ \A v \in Exporters \ {w} : run'[v] = run[v]
  BY <1>1 DEF ExportInv, ExportTypeOK
<1>5. \A v \in Exporters : DeliveryInv(v)'
  <2>1. DeliveryInv(w)'
    BY <1>1, <1>3, <1>4 DEF DeliveryInv, AtWork, ClaimExport
  <2>2. \A v \in Exporters \ {w} : DeliveryInv(v)'
    BY <1>1, <1>4 DEF ExportInv, DeliveryInv
  <2> QED BY <2>1, <2>2
<1>6. HeldAlone'
  BY <1>1, <1>4 DEF ExportInv, HeldAlone, ClaimExport
<1>7. PublishedIsTold' /\ Requested' /\ Kept
  BY <1>1 DEF ExportInv, PublishedIsTold, Requested, Kept
<1> QED BY <1>2, <1>5, <1>6, <1>7 DEF ExportInv

(* Settling marks the event of whoever still holds it, and only a told user's  *)
(* event is published.                                                       *)
LEMMA NoticeOfEnd ==
  ASSUME ExportInv, NEW w \in Exporters, Settle(w) \/ KillExporter(w)
  PROVE  LET x == run[w].export IN
         /\ run[w].on /\ x \in Exports
         /\ notice' \in [Exports -> [state : {"none", "pending", "published", "parked"},
                                     attempts : 0..MaxAttempts]]
         /\ \A y \in Exports \ {x} : notice'[y] = notice[y]
         /\ notice'[x] # notice[x] => run[w].held /\ notice[x].state = "pending"
         /\ notice'[x].state = "published" => job[x] \in Told
         /\ notice'[x].state = "none" => notice[x].state = "none"
         /\ notice'[x].state \in {"none", "pending"} => notice'[x].attempts < MaxAttempts
<1> DEFINE x == run[w].export
<1>1. /\ run[w].on /\ x \in Exports /\ DeliveryInv(w) /\ ExportTypeOK /\ Requested
      /\ notice[x].state = "published" => job[x] \in Told
  <2>1. run[w].on
    BY DEF Settle, KillExporter, At
  <2> QED BY <2>1, TasksAtWork DEF ExportInv, PublishedIsTold, Told
<1>2. CASE UNCHANGED notice
  BY <1>1, <1>2 DEF ExportTypeOK, Requested
<1>3. CASE run[w].held /\ At(w, "ok") /\ notice' = [notice EXCEPT ![x].state = "published"]
  <2>1. notice[x].state = "pending" /\ job[x] \in Told
    BY <1>1, <1>3 DEF DeliveryInv, At
  <2>2. notice'[x] = [notice[x] EXCEPT !.state = "published"]
    BY <1>1, <1>3 DEF ExportTypeOK
  <2> QED BY <1>1, <1>3, <2>1, <2>2 DEF ExportTypeOK
<1>4. CASE run[w].held /\ notice' = [notice EXCEPT ![x] = Retried(notice[x].attempts)]
  <2>1. notice[x].state = "pending" /\ notice[x].attempts < MaxAttempts
        /\ notice[x].attempts \in Nat
    BY <1>1, <1>4 DEF DeliveryInv, Requested, ExportTypeOK
  <2> DEFINE r == Retried(notice[x].attempts)
  <2>2. /\ r.state \in {"parked", "pending"} /\ r.attempts \in 0..MaxAttempts
        /\ r.state = "pending" => r.attempts < MaxAttempts
        /\ r \in [state : {"none", "pending", "published", "parked"}, attempts : 0..MaxAttempts]
    BY <2>1, ExportAssumption DEF Retried
  <2>3. notice'[x] = r
    BY <1>1, <1>4 DEF ExportTypeOK
  <2> HIDE DEF r
  <2> QED BY <1>1, <1>4, <2>1, <2>2, <2>3 DEF ExportTypeOK
<1> QED BY <1>1, <1>2, <1>3, <1>4 DEF Settle, KillExporter

LEMMA EndStep ==
  ASSUME ExportInv, NEW w \in Exporters, Settle(w) \/ KillExporter(w)
  PROVE  ExportInv' /\ Kept
<1> DEFINE x == run[w].export
<1>1. /\ run' = [run EXCEPT ![w] = Resting]
      /\ UNCHANGED <<job, file, lost>> /\ mishaps' \in 0..MaxMishaps
  BY ExportAssumption DEF Settle, KillExporter, Mishap, ExportInv, ExportTypeOK
<1>2. run'[w] = Resting /\ \A v \in Exporters \ {w} : run'[v] = run[v]
  BY <1>1 DEF ExportInv, ExportTypeOK
<1>3. ExportTypeOK'
  BY <1>1, NoticeOfEnd DEF ExportInv, ExportTypeOK
<1>4. ASSUME NEW v \in Exporters \ {w}, run[v].on
      PROVE  /\ run[v].export \in Exports
             /\ run[v].held => notice'[run[v].export] = notice[run[v].export]
  <2>1. run[v] \in Delivery
    BY <1>4 DEF ExportInv, ExportTypeOK, Resting
  <2> QED BY <1>4, <2>1, NoticeOfEnd DEF Delivery, ExportInv, HeldAlone
<1>5. \A v \in Exporters : DeliveryInv(v)'
  BY <1>1, <1>2, <1>4 DEF ExportInv, DeliveryInv, Resting
<1>6. HeldAlone'
  BY <1>1, <1>2 DEF ExportInv, HeldAlone, Resting
<1>7. PublishedIsTold' /\ Requested' /\ Kept
  BY <1>1, NoticeOfEnd DEF ExportInv, PublishedIsTold, Requested, Told, Kept
<1> QED BY <1>3, <1>5, <1>6, <1>7 DEF ExportInv

(* A lost connection only loosens the hold.                                  *)
LEMMA LoseConnectionStep ==
  ASSUME ExportInv, NEW w \in Exporters, LoseConnection(w)
  PROVE  ExportInv' /\ Kept
<1> DEFINE d == [run[w] EXCEPT !.held = FALSE]
<1>1. /\ run[w] \in Delivery /\ UNCHANGED <<job, file, notice>> /\ lost'
      /\ lost' \in BOOLEAN /\ mishaps' \in 0..MaxMishaps /\ run' = [run EXCEPT ![w] = d]
  BY ExportAssumption DEF LoseConnection, Mishap, ExportInv, ExportTypeOK, Resting
<1>2. /\ d \in Delivery /\ ~d.held /\ d.on /\ d.step = run[w].step /\ d.export = run[w].export
  BY <1>1 DEF Delivery
<1>3. run'[w] = d /\ \A v \in Exporters \ {w} : run'[v] = run[v]
  BY <1>1 DEF ExportInv, ExportTypeOK
<1>4. ExportTypeOK'
  BY <1>1, <1>2 DEF ExportInv, ExportTypeOK
<1>5. run[w].on
  BY DEF LoseConnection
<1> HIDE DEF d
<1>6. \A v \in Exporters : DeliveryInv(v)'
  BY <1>1, <1>2, <1>3, <1>5 DEF ExportInv, DeliveryInv
<1>7. HeldAlone'
  BY <1>2, <1>3 DEF ExportInv, HeldAlone
<1>8. PublishedIsTold' /\ Requested' /\ Kept
  BY <1>1 DEF ExportInv, PublishedIsTold, Requested, Kept
<1> QED BY <1>4, <1>6, <1>7, <1>8 DEF ExportInv

LEMMA NextStep ==
  ASSUME ExportInv, [ExportNext]_exportVars
  PROVE  ExportInv' /\ Kept
<1>1. CASE UNCHANGED exportVars
  BY <1>1 DEF exportVars, ExportInv, ExportTypeOK, Requested, DeliveryInv, HeldAlone,
              PublishedIsTold, Kept
<1>2. CASE \E x \in Exports : RequestExport(x) \/ \E w \in Exporters : ClaimExport(w, x)
  BY <1>2, RequestStep, ClaimExportStep
<1>3. CASE \E w \in Exporters : ExportStep(w) \/ CallFails(w) \/ RecordLost(w)
                                \/ LoseConnection(w) \/ KillExporter(w)
  BY <1>3, StartRunStep, UploadStep, CompleteRunStep, FailingStep, RecordFailureStep,
     EndStep, LoseConnectionStep DEF ExportStep
<1> QED BY <1>1, <1>2, <1>3 DEF ExportNext

(* The inductive invariant holds in every reachable state.                    *)
THEOREM ExportInvariant == ExportSpec => []ExportInv
<1>1. ExportInv /\ [ExportNext]_exportVars => ExportInv'
  BY NextStep
<1> QED BY InitExportInv, <1>1, PTL DEF ExportSpec

(* Every variable keeps its type; the attempts of an event stay in bounds.     *)
THEOREM ExportsTyped == ExportSpec => []ExportTypeOK
<1>1. ExportInv => ExportTypeOK
  BY DEF ExportInv
<1> QED BY ExportInvariant, <1>1, PTL

(* An acknowledged event belongs to a job whose end the user is told, and a    *)
(* COMPLETED job has its file, whatever fails, dies or is delivered again.     *)
THEOREM AcknowledgedJobsAreTold == ExportSpec => []PublishedIsTold
<1>1. ExportInv => PublishedIsTold
  BY DEF ExportInv
<1> QED BY ExportInvariant, <1>1, PTL

(* Without a lost connection a redelivered event never undoes a finished job.  *)
THEOREM CompletedJobsAreKept == ExportSpec => CompletedIsKept
<1>1. ExportInv /\ [ExportNext]_exportVars
        => [\A x \in Exports : job[x] = "COMPLETED" /\ ~lost => job'[x] = "COMPLETED"]_exportVars
  BY NextStep DEF Kept
<1> QED BY ExportInvariant, <1>1, PTL DEF ExportSpec, CompletedIsKept

(* The answer that a job gives is there in time, true, and final.               *)
THEOREM HonestExports == ExportSpec => ExportsAreHonest
<1> QED BY AcknowledgedJobsAreTold, CompletedJobsAreKept, PTL DEF ExportsAreHonest

-----------------------------------------------------------------------------
(* Readings of a meter *)

Reporting == {t \in Tasks : task[t] # Free}

(* An open transaction: a stored one that moves the value is alone and not       *)
(* behind the row, one that does not is behind it; and while nothing wraps the    *)
(* computed value is the reported one.                                       *)
ReadingInv(t) ==
  task[t] # Free =>
    /\ task[t].step = "stored" => (task[t].hit <=> meter.readAt <= task[t].at)
    /\ task[t].step # "read" /\ meter.type # "DELTA" /\ Rollover = 0 => task[t].next = task[t].value
Moves(t) == task[t].step = "stored" /\ task[t].hit
HitAlone == \A t \in Tasks, u \in Tasks : Moves(t) /\ Moves(u) => t = u

(* Numbers are given once, and there are enough of them for the open ones.       *)
Numbered ==
  /\ IsFiniteSet(readings) /\ IsFiniteSet(refused)
  /\ Taken + Cardinality(Reporting) <= MaxReadings
  /\ \A r \in readings \cup refused : r.nr <= Taken

MeterInv ==
  /\ MeterTypeOK /\ Numbered /\ HitAlone
  /\ \A t \in Tasks : ReadingInv(t)
  /\ meter.readAt # 0 => readings # {}
  /\ CurrentIsLatest

LEMMA ReportingFinite == IsFiniteSet(Reporting) /\ Cardinality(Reporting) \in Nat
<1>1. IsFiniteSet(Tasks)
  BY MeterAssumption, FS_Union DEF Tasks
<1> QED BY <1>1, FS_Subset, FS_CardinalityType DEF Reporting

(* One task begins or ends its transaction.                                   *)
LEMMA ReportingSteps ==
  ASSUME MeterTypeOK, NEW t \in Tasks, NEW r, task' = [task EXCEPT ![t] = r]
  PROVE  /\ task[t] = Free /\ r # Free => Cardinality(Reporting') = Cardinality(Reporting) + 1
         /\ task[t] # Free /\ r = Free => Cardinality(Reporting') = Cardinality(Reporting) - 1
         /\ task[t] # Free /\ r # Free => Reporting' = Reporting
<1>1. /\ task'[t] = r
      /\ \A u \in Tasks \ {t} : task'[u] = task[u]
  BY DEF MeterTypeOK
<1>2. CASE task[t] = Free /\ r # Free
  <2>1. Reporting' = Reporting \cup {t} /\ t \notin Reporting
    BY <1>1, <1>2 DEF Reporting
  <2> QED BY <1>2, <2>1, ReportingFinite, FS_AddElement
<1>3. CASE task[t] # Free /\ r = Free
  <2>1. Reporting' = Reporting \ {t} /\ t \in Reporting
    BY <1>1, <1>3 DEF Reporting
  <2> QED BY <1>3, <2>1, ReportingFinite, FS_RemoveElement
<1>4. CASE task[t] # Free /\ r # Free
  BY <1>1, <1>4 DEF Reporting
<1> QED BY <1>2, <1>3, <1>4

LEMMA ReportingNonEmpty ==
  ASSUME NEW t \in Tasks, task[t] # Free
  PROVE  Cardinality(Reporting) \in Nat \ {0}
<1> QED BY ReportingFinite, FS_EmptySet DEF Reporting

LEMMA TakenIsCounted == IsFiniteSet(readings) /\ IsFiniteSet(refused) => Taken \in Nat
<1> QED BY FS_CardinalityType DEF Taken

(* A reading that is recorded, taken or refused, is a new one.                  *)
LEMMA Recorded ==
  ASSUME MeterTypeOK, Numbered, NEW r, r.nr = Taken + 1,
         \/ readings' = readings \cup {r} /\ UNCHANGED refused
         \/ refused' = refused \cup {r} /\ UNCHANGED readings,
         Cardinality(Reporting') = Cardinality(Reporting) - 1, Cardinality(Reporting) \in Nat
  PROVE  Numbered' /\ Taken \in Nat /\ Taken' = Taken + 1
<1>1. /\ Cardinality(readings) \in Nat /\ Cardinality(refused) \in Nat
      /\ Taken = Cardinality(readings) + Cardinality(refused)
      /\ Taken' = Cardinality(readings') + Cardinality(refused')
  BY FS_CardinalityType DEF Numbered, Taken
<1>2. Taken \in Nat
  BY <1>1
<1>3. \A q \in readings \cup refused : q.nr # Taken + 1
  <2> SUFFICES ASSUME NEW q \in readings \cup refused, q.nr = Taken + 1 PROVE FALSE
    OBVIOUS
  <2>1. q.nr <= Taken
    BY DEF Numbered
  <2> QED BY <1>2, <2>1
<1>4. r \notin readings /\ r \notin refused
  BY <1>3
<1>5. /\ IsFiniteSet(readings') /\ IsFiniteSet(refused')
      /\ Cardinality(readings') + Cardinality(refused') = Taken + 1
  <2>1. IsFiniteSet(readings) /\ IsFiniteSet(refused)
    BY DEF Numbered
  <2>2. CASE readings' = readings \cup {r} /\ UNCHANGED refused
    <3>1. IsFiniteSet(readings') /\ Cardinality(readings') = Cardinality(readings) + 1
      BY <1>4, <2>1, <2>2, FS_AddElement
    <3> QED BY <1>1, <2>1, <2>2, <3>1
  <2>3. CASE refused' = refused \cup {r} /\ UNCHANGED readings
    <3>1. IsFiniteSet(refused') /\ Cardinality(refused') = Cardinality(refused) + 1
      BY <1>4, <2>1, <2>3, FS_AddElement
    <3> QED BY <1>1, <2>1, <2>3, <3>1
  <2> QED BY <2>2, <2>3
<1>6. Taken' = Taken + 1
  BY <1>1, <1>5
<1>7. \A q \in readings' \cup refused' : q.nr <= Taken'
  <2> SUFFICES ASSUME NEW q \in readings' \cup refused' PROVE q.nr <= Taken'
    OBVIOUS
  <2>1. CASE q = r
    BY <1>2, <1>6, <2>1
  <2>2. CASE q \in readings \cup refused
    <3>1. q.nr <= Taken
      BY <2>2 DEF Numbered
    <3> QED BY <1>2, <1>6, <2>2, <3>1 DEF MeterTypeOK, MeterReading
  <2> QED BY <2>1, <2>2
<1>8. Taken' + Cardinality(Reporting') <= MaxReadings
  BY <1>2, <1>6 DEF Numbered
<1> QED BY <1>2, <1>5, <1>6, <1>7, <1>8 DEF Numbered

LEMMA InitMeterInv == MeterInit => MeterInv
<1> SUFFICES ASSUME MeterInit PROVE MeterInv
  OBVIOUS
<1>1. Reporting = {} /\ readings = {} /\ refused = {}
  BY DEF MeterInit, Reporting
<1>2. Numbered
  BY <1>1, FS_EmptySet, MeterAssumption DEF Numbered, Taken
<1>3. MeterTypeOK
  BY MeterAssumption DEF MeterInit, MeterTypeOK
<1>4. \A t \in Tasks : task[t] = Free /\ task[t].step = "free"
  BY DEF MeterInit, Free
<1>5. HitAlone /\ \A t \in Tasks : ReadingInv(t)
  <2>1. \A t \in Tasks : task[t].step # "stored"
    BY <1>4
  <2>2. HitAlone
    BY <2>1 DEF HitAlone, Moves
  <2>3. \A t \in Tasks : ReadingInv(t)
    BY <1>4 DEF ReadingInv
  <2> QED BY <2>2, <2>3
<1>6. CurrentIsLatest /\ meter.readAt = 0
  BY <1>1 DEF CurrentIsLatest, MeterInit
<1> QED BY <1>1, <1>2, <1>3, <1>5, <1>6 DEF MeterInv

(* A step of task t that leaves the row and what is recorded alone.              *)
LEMMA OpenSteps ==
  ASSUME MeterInv, NEW t \in Tasks, NEW r, task' = [task EXCEPT ![t] = r],
         UNCHANGED <<meter, readings, crossing, refused>>,
         r \in [step : {"read", "computed", "stored"}, value : 0..MaxValue, at : 1..MaxAt,
                old : Nat, next : Nat, hit : BOOLEAN],
         Taken + Cardinality(Reporting') <= MaxReadings,
         r.step = "stored" => (r.hit <=> meter.readAt <= r.at),
         r.step = "stored" /\ r.hit => \A u \in Tasks : task[u].step = "stored" => ~task[u].hit,
         r.step # "read" /\ meter.type # "DELTA" /\ Rollover = 0 => r.next = r.value
  PROVE  MeterInv'
<1>1. /\ task'[t] = r
      /\ \A u \in Tasks \ {t} : task'[u] = task[u]
  BY DEF MeterInv, MeterTypeOK
<1>2. MeterTypeOK'
  BY DEF MeterInv, MeterTypeOK
<1>3. Numbered'
  BY DEF MeterInv, Numbered, Taken
<1>4. HitAlone'
  <2> SUFFICES ASSUME NEW u \in Tasks, NEW w \in Tasks, Moves(u)', Moves(w)', u # w
               PROVE  FALSE
    BY DEF HitAlone
  <2>1. \A x \in Tasks \ {t} : Moves(x)' => Moves(x)
    BY <1>1 DEF Moves
  <2>2. Moves(t)' => \A x \in Tasks : ~Moves(x)
    BY <1>1 DEF Moves
  <2> QED BY <2>1, <2>2 DEF MeterInv, HitAlone
<1>5. \A u \in Tasks : ReadingInv(u)'
  BY <1>1 DEF MeterInv, ReadingInv
<1> QED BY <1>2, <1>3, <1>4, <1>5 DEF MeterInv, CurrentIsLatest

(* A transaction that ends leaves what held of the others.                       *)
LEMMA ClosedKeepsAlone ==
  ASSUME HitAlone, NEW t \in Tasks, task'[t] = Free, \A u \in Tasks \ {t} : task'[u] = task[u]
  PROVE  HitAlone'
<1>1. \A x \in Tasks : Moves(x)' => x # t /\ Moves(x)
  BY DEF Moves, Free
<1> QED BY <1>1 DEF HitAlone

LEMMA ReportKeeps ==
  ASSUME MeterInv, NEW t \in Tasks, NEW v \in 0..MaxValue, NEW a \in 1..MaxAt, Report(t, v, a)
  PROVE  MeterInv'
<1> DEFINE r == [step |-> "read", value |-> v, at |-> a, old |-> meter.last, next |-> 0, hit |-> FALSE]
<1>1. r # Free /\ r.step = "read"
  BY DEF Free
<1>2. Cardinality(Reporting') = Cardinality(Reporting) + 1
  BY <1>1, ReportingSteps DEF Report, MeterInv
<1>3. Taken + Cardinality(Reporting') <= MaxReadings
  BY <1>2, ReportingFinite, TakenIsCounted, MeterAssumption DEF Report, MeterInv, Numbered, Reporting
<1>4. meter.last \in Nat
  BY DEF MeterInv, MeterTypeOK
<1> HIDE DEF r
<1>5. r \in [step : {"read", "computed", "stored"}, value : 0..MaxValue, at : 1..MaxAt,
             old : Nat, next : Nat, hit : BOOLEAN]
  BY <1>4 DEF r
<1> QED BY <1>1, <1>3, <1>5, OpenSteps DEF Report, r

(* The function gives a number, and what was reported when nothing wraps.          *)
LEMMA NextValues ==
  ASSUME MeterTypeOK, NEW v \in 0..MaxValue, Accepts(v)
  PROVE  /\ NextValue(v) \in Nat
         /\ meter.type # "DELTA" /\ Rollover = 0 => NextValue(v) = v
<1>1. meter.last \in Nat /\ meter.type \in {"CUMULATIVE", "DELTA", "GAUGE"} /\ Rollover \in Nat
  BY MeterAssumption DEF MeterTypeOK
<1> QED BY <1>1 DEF NextValue, Accepts, Wraps

LEMMA ComputeKeeps ==
  ASSUME MeterInv, NEW t \in Tasks, Compute(t)
  PROVE  MeterInv'
<1> DEFINE r == task[t]
<1>0. /\ r # Free /\ r.step = "read"
      /\ r \in [step : {"read", "computed", "stored"}, value : 0..MaxValue, at : 1..MaxAt,
                old : Nat, next : Nat, hit : BOOLEAN]
  BY DEF MeterInv, MeterTypeOK, Compute, Free
<1>1. CASE Accepts(r.value) /\ task' = [task EXCEPT ![t].step = "computed", ![t].next = NextValue(r.value)]
           /\ UNCHANGED refused
  <2> DEFINE q == [r EXCEPT !.step = "computed", !.next = NextValue(r.value)]
  <2>1. task' = [task EXCEPT ![t] = q]
    BY <1>1 DEF MeterInv, MeterTypeOK
  <2>2. NextValue(r.value) \in Nat /\ (meter.type # "DELTA" /\ Rollover = 0 => NextValue(r.value) = r.value)
    BY <1>0, <1>1, NextValues DEF MeterInv
  <2>3. /\ q \in [step : {"read", "computed", "stored"}, value : 0..MaxValue, at : 1..MaxAt,
                  old : Nat, next : Nat, hit : BOOLEAN]
        /\ q.step = "computed" /\ q.next = NextValue(r.value) /\ q.value = r.value
    BY <1>0, <2>2
  <2>4. q # Free
    BY <2>3 DEF Free
  <2> HIDE DEF q, r
  <2>5. Reporting' = Reporting
    BY <1>0, <2>1, <2>4, ReportingSteps DEF MeterInv, r
  <2>6. Taken + Cardinality(Reporting') <= MaxReadings
    BY <2>5 DEF MeterInv, Numbered
  <2>7. q.step # "stored"
    BY <2>3
  <2>8. UNCHANGED <<meter, readings, crossing, refused>>
    BY <1>1 DEF Compute
  <2>9. q.step # "read" /\ meter.type # "DELTA" /\ Rollover = 0 => q.next = q.value
    BY <2>2, <2>3
  <2> QED BY <2>1, <2>3, <2>6, <2>7, <2>8, <2>9, OpenSteps
<1>2. CASE ~Accepts(r.value) /\ task' = [task EXCEPT ![t] = Free]
           /\ refused' = refused \cup {[value |-> r.value, at |-> r.at, last |-> meter.last,
                                       readAt |-> meter.readAt, nr |-> Taken + 1]}
  <2>1. /\ task'[t] = Free
        /\ \A u \in Tasks \ {t} : task'[u] = task[u]
    BY <1>2 DEF MeterInv, MeterTypeOK
  <2>2. Cardinality(Reporting') = Cardinality(Reporting) - 1 /\ Cardinality(Reporting) \in Nat
    BY <1>0, <1>2, ReportingSteps, ReportingFinite DEF MeterInv
  <2>3. Cardinality(Reporting) > 0
    BY <2>2, ReportingNonEmpty, <1>0
  <2>4. Numbered' /\ Taken \in Nat
    <3> DEFINE n == [value |-> r.value, at |-> r.at, last |-> meter.last,
                     readAt |-> meter.readAt, nr |-> Taken + 1]
    <3>1. n.nr = Taken + 1
      OBVIOUS
    <3>2. refused' = refused \cup {n} /\ UNCHANGED readings
      BY <1>2 DEF Compute
    <3> HIDE DEF n
    <3> QED BY <2>2, <3>1, <3>2, Recorded DEF MeterInv
  <2>5. Taken + 1 \in 1..MaxReadings
    BY <2>3, <2>4, <2>2, MeterAssumption DEF MeterInv, Numbered
  <2>6. MeterTypeOK'
    BY <1>0, <1>2, <2>5 DEF Compute, MeterInv, MeterTypeOK
  <2>7. HitAlone'
    BY <2>1, ClosedKeepsAlone DEF MeterInv
  <2>8. \A u \in Tasks : ReadingInv(u)'
    BY <2>1 DEF Compute, MeterInv, ReadingInv
  <2> QED BY <2>4, <2>6, <2>7, <2>8 DEF Compute, MeterInv, CurrentIsLatest
<1> QED BY <1>1, <1>2 DEF Compute

LEMMA StoreKeeps ==
  ASSUME MeterInv, NEW t \in Tasks, Store(t)
  PROVE  MeterInv'
<1> DEFINE r == task[t]
           q == [r EXCEPT !.step = "stored", !.hit = InTime(r.at)]
<1>0. /\ r # Free /\ r.step = "computed"
      /\ r \in [step : {"read", "computed", "stored"}, value : 0..MaxValue, at : 1..MaxAt,
                old : Nat, next : Nat, hit : BOOLEAN]
  BY DEF MeterInv, MeterTypeOK, Store, Free
<1>1. task' = [task EXCEPT ![t] = q]
  BY DEF MeterInv, MeterTypeOK, Store
<1>2. /\ q \in [step : {"read", "computed", "stored"}, value : 0..MaxValue, at : 1..MaxAt,
                old : Nat, next : Nat, hit : BOOLEAN]
      /\ q.step = "stored" /\ q.hit = InTime(r.at) /\ q.at = r.at
      /\ q.next = r.next /\ q.value = r.value
  <2>1. InTime(r.at) \in BOOLEAN
    BY DEF InTime
  <2> QED BY <1>0, <2>1
<1>3. q # Free
  BY <1>2 DEF Free
<1>4. meter.type # "DELTA" /\ Rollover = 0 => r.next = r.value
  BY <1>0 DEF MeterInv, ReadingInv
<1>5. InTime(r.at) => \A u \in Tasks : task[u].step = "stored" => ~task[u].hit
  BY DEF Store
<1> HIDE DEF q, r
<1>6. Reporting' = Reporting
  BY <1>0, <1>1, <1>3, ReportingSteps DEF MeterInv, r
<1>7. Taken + Cardinality(Reporting') <= MaxReadings
  BY <1>6 DEF MeterInv, Numbered
<1>8. q.hit <=> meter.readAt <= q.at
  BY <1>2 DEF InTime
<1>9. q.hit => \A u \in Tasks : task[u].step = "stored" => ~task[u].hit
  BY <1>2, <1>5
<1>10. UNCHANGED <<meter, readings, crossing, refused>>
  BY DEF Store
<1> QED BY <1>1, <1>2, <1>4, <1>7, <1>8, <1>9, <1>10, OpenSteps

LEMMA SaveKeeps ==
  ASSUME MeterInv, NEW t \in Tasks, Save(t)
  PROVE  MeterInv'
<1> DEFINE r == task[t]
           n == [value |-> r.value, at |-> r.at, nr |-> Taken + 1]
<1>0. /\ r # Free /\ r.step = "stored"
      /\ r \in [step : {"read", "computed", "stored"}, value : 0..MaxValue, at : 1..MaxAt,
                old : Nat, next : Nat, hit : BOOLEAN]
  BY DEF MeterInv, MeterTypeOK, Save, Free
<1>1. /\ meter' = IF r.hit THEN [meter EXCEPT !.last = r.next, !.readAt = r.at] ELSE meter
      /\ readings' = readings \cup {n} /\ UNCHANGED refused
      /\ task' = [task EXCEPT ![t] = Free]
      /\ crossing' \subseteq crossing \cup {r.at}
  BY DEF Save
<1>2. /\ task'[t] = Free
      /\ \A u \in Tasks \ {t} : task'[u] = task[u]
  BY <1>1 DEF MeterInv, MeterTypeOK
<1>3. /\ r.hit <=> meter.readAt <= r.at
      /\ meter.type # "DELTA" /\ Rollover = 0 => r.next = r.value
  BY <1>0 DEF MeterInv, ReadingInv
<1>4. n.value = r.value /\ n.at = r.at /\ n.nr = Taken + 1
  OBVIOUS
<1>5. Cardinality(Reporting') = Cardinality(Reporting) - 1 /\ Cardinality(Reporting) \in Nat \ {0}
  BY <1>0, <1>1, ReportingSteps, ReportingFinite, ReportingNonEmpty DEF MeterInv
<1> HIDE DEF n
<1>6. Numbered' /\ Taken \in Nat
  BY <1>1, <1>4, <1>5, Recorded DEF MeterInv
<1>7. Taken + 1 \in 1..MaxReadings
  BY <1>5, <1>6, MeterAssumption DEF MeterInv, Numbered
<1>8. meter \in [type : ReadingTypes, last : Nat, readAt : 0..MaxAt] /\ MaxAt \in Nat
  BY MeterAssumption DEF MeterInv, MeterTypeOK
<1>9. MeterTypeOK'
  <2>1. meter' \in [type : ReadingTypes, last : Nat, readAt : 0..MaxAt]
    <3>1. CASE r.hit
      <4>1. meter' = [meter EXCEPT !.last = r.next, !.readAt = r.at] /\ r.next \in Nat /\ r.at \in 0..MaxAt
        BY <1>0, <1>1, <1>8, <3>1
      <4> QED BY <1>8, <4>1
    <3>2. CASE ~r.hit
      BY <1>1, <1>8, <3>2
    <3> QED BY <3>1, <3>2
  <2>2. n \in MeterReading
    BY <1>0, <1>7 DEF n, MeterReading
  <2> QED BY <1>0, <1>1, <2>1, <2>2 DEF MeterInv, MeterTypeOK
<1>10. /\ meter'.type = meter.type /\ meter'.readAt >= meter.readAt /\ meter'.readAt >= r.at
       /\ r.hit => meter'.readAt = r.at /\ meter'.last = r.next
       /\ ~r.hit => meter' = meter
  BY <1>0, <1>1, <1>3, <1>8
<1> HIDE DEF r
<1>11. HitAlone'
  BY <1>2, ClosedKeepsAlone DEF MeterInv
<1>12. \A u \in Tasks : ReadingInv(u)'
  <2> SUFFICES ASSUME NEW u \in Tasks, task'[u] # Free PROVE ReadingInv(u)'
    BY DEF ReadingInv
  <2>1. u # t /\ task'[u] = task[u] /\ ReadingInv(u)
    BY <1>2 DEF MeterInv
  <2>2. task[u].step = "stored" /\ task[u].hit => ~r.hit
    BY <1>0, <2>1 DEF MeterInv, HitAlone, Moves, r
  <2>3. task[u].at \in 1..MaxAt /\ task[u].hit \in BOOLEAN
    BY <2>1 DEF MeterInv, MeterTypeOK
  <2>4. task[u].step = "stored" => (task[u].hit <=> meter'.readAt <= task[u].at)
    BY <1>8, <1>9, <1>10, <2>1, <2>2, <2>3 DEF ReadingInv, MeterTypeOK
  <2> QED BY <1>10, <2>1, <2>4 DEF ReadingInv
<1>13. CurrentIsLatest' /\ (meter'.readAt # 0 => readings' # {})
  <2>1. \A x \in readings : x.at \in 1..MaxAt /\ x.at <= meter.readAt
    BY DEF MeterInv, CurrentIsLatest, MeterTypeOK, MeterReading
  <2>2. meter'.readAt \in 0..MaxAt /\ r.at \in 1..MaxAt
    BY <1>0, <1>9 DEF MeterTypeOK
  <2>3. \A x \in readings' : x.at <= meter'.readAt
    BY <1>1, <1>4, <1>8, <1>10, <2>1, <2>2
  <2>4. meter'.readAt # 0
    BY <1>10, <2>2
  <2>5. ASSUME meter'.type # "DELTA", Rollover = 0
        PROVE  \E x \in readings' : x.at = meter'.readAt /\ x.value = meter'.last
    <3>1. CASE r.hit
      BY <1>1, <1>3, <1>4, <1>10, <2>5, <3>1
    <3>2. CASE ~r.hit
      <4>1. readings # {}
        BY <1>3, <3>2, <1>8, <2>2 DEF MeterInv
      <4> QED BY <1>1, <1>10, <2>5, <3>2, <4>1 DEF MeterInv, CurrentIsLatest
    <3> QED BY <3>1, <3>2
  <2>6. readings' # {}
    BY <1>1
  <2> QED BY <2>3, <2>4, <2>5, <2>6 DEF CurrentIsLatest
<1> QED BY <1>6, <1>9, <1>11, <1>12, <1>13 DEF MeterInv

LEMMA MeterInvIsKept == MeterInv /\ [MeterNext]_meterVars => MeterInv'
<1> SUFFICES ASSUME MeterInv, [MeterNext]_meterVars PROVE MeterInv'
  OBVIOUS
<1>1. CASE MeterNext
  BY <1>1, ReportKeeps, ComputeKeeps, StoreKeeps, SaveKeeps DEF MeterNext, Step
<1>2. CASE UNCHANGED meterVars
  <2>1. MeterTypeOK' /\ Numbered' /\ CurrentIsLatest' /\ (meter'.readAt # 0 => readings' # {})
    BY <1>2 DEF meterVars, MeterInv, MeterTypeOK, Numbered, Taken, Reporting, CurrentIsLatest
  <2>2. HitAlone'
    BY <1>2 DEF meterVars, MeterInv, HitAlone, Moves
  <2>3. \A u \in Tasks : ReadingInv(u)'
    BY <1>2 DEF meterVars, MeterInv, ReadingInv
  <2> QED BY <2>1, <2>2, <2>3 DEF MeterInv
<1> QED BY <1>1, <1>2

(* Every state the readings of a meter reach has the type.                       *)
THEOREM MeterTyped == MeterSpec => []MeterTypeOK
<1> QED BY InitMeterInv, MeterInvIsKept, PTL DEF MeterSpec, MeterInv

(* next_meter_value and the guarded UPDATE: however many tasks post and push        *)
(* readings, and however late, the row holds the value of the latest one.          *)
THEOREM LatestIsCurrent == MeterSpec => []CurrentIsLatest
<1> QED BY InitMeterInv, MeterInvIsKept, PTL DEF MeterSpec, MeterInv

-----------------------------------------------------------------------------
(* The notifications and their mails *)

Statuses == {"NONE", "QUEUED", "FAILED", "SENT", "SUPPRESSED", "READ"}
RowShape == [status : Statuses, tries : 0..MailAttempts, due : BOOLEAN]
Outcomes == UNION {[S -> Result] : S \in SUBSET Rows}
OpenRound == [on : {TRUE}, todo : SUBSET Rows, result : Outcomes]

(* A round touches rows that are open, no row twice, and none that another one touches. *)
RoundsAreApart ==
  /\ \A d \in Dispatchers, n \in Rows : Touches(d, n) => Open(n)
  /\ \A d \in Dispatchers, n \in Rows :
       round[d].on /\ n \in round[d].todo => n \notin DOMAIN round[d].result
  /\ \A c, d \in Dispatchers, n \in Rows : Touches(c, n) /\ Touches(d, n) => c = d

(* A mail that was taken is known to the row or to the open round, or something was lost. *)
Known(d, n) ==
  round[d].on /\ n \in DOMAIN round[d].result /\ round[d].result[n].status = "SENT"
Delivered(n) == row[n].status \in {"SENT", "SUPPRESSED", "READ"}
MailIsCounted(n) ==
  /\ accepted[n] <= 1 + losses
  /\ ~Delivered(n) /\ (\A d \in Dispatchers : ~Known(d, n)) => accepted[n] <= losses

MailInv ==
  /\ alert \in [Alerts -> {"none", "pending", "handled", "published"}]
  /\ row \in [Rows -> RowShape]
  /\ accepted \in [Rows -> Nat]
  /\ round \in [Dispatchers -> OpenRound \cup {Away}]
  /\ losses \in 0..MaxLosses
  /\ RoundsAreApart
  /\ \A n \in Rows : MailIsCounted(n)

LEMMA RoundFacts ==
  ASSUME MailInv, NEW d \in Dispatchers
  PROVE  /\ ~round[d].on => round[d] = Away
         /\ round[d].on =>
              /\ round[d] \in OpenRound /\ round[d].todo \subseteq Rows
              /\ DOMAIN round[d].result \subseteq Rows
              /\ \A n \in DOMAIN round[d].result : round[d].result[n] \in Result
<1>1. round[d] \in OpenRound \/ round[d] = Away
  BY DEF MailInv
<1>2. Away.on = FALSE
  BY DEF Away
<1>3. CASE round[d] \in OpenRound
  <2>1. round[d].on = TRUE /\ round[d].todo \subseteq Rows
    BY <1>3 DEF OpenRound
  <2>2. PICK S \in SUBSET Rows : round[d].result \in [S -> Result]
    BY <1>3 DEF OpenRound, Outcomes
  <2> QED BY <1>3, <2>1, <2>2
<1>4. CASE round[d] = Away
  BY <1>2, <1>4
<1> QED BY <1>1, <1>3, <1>4

(* The outcome of one mail is noted in its round: the round touches what it did.      *)
LEMMA NoteMoves ==
  ASSUME MailInv, NEW d \in Dispatchers, round[d].on, NEW n \in round[d].todo,
         NEW r \in Result, Note(d, n, r)
  PROVE  /\ round' \in [Dispatchers -> OpenRound \cup {Away}]
         /\ \A c \in Dispatchers : round'[c].on = round[c].on
         /\ \A c \in Dispatchers \ {d} : round'[c] = round[c]
         /\ round'[d].todo = round[d].todo \ {n}
         /\ DOMAIN round'[d].result = DOMAIN round[d].result \cup {n}
         /\ round'[d].result[n] = r
         /\ \A m \in DOMAIN round[d].result : m # n => round'[d].result[m] = round[d].result[m]
<1> DEFINE T == round[d].todo
           R == round[d].result
           new == [m \in DOMAIN R \cup {n} |-> IF m = n THEN r ELSE R[m]]
<1>1. /\ round[d] \in OpenRound /\ T \subseteq Rows /\ DOMAIN R \subseteq Rows
      /\ \A m \in DOMAIN R : R[m] \in Result
  BY RoundFacts
<1>2. DOMAIN new = DOMAIN R \cup {n} /\ new[n] = r /\ (\A m \in DOMAIN R : m # n => new[m] = R[m])
  OBVIOUS
<1>3. new \in Outcomes
  <2>1. new \in [DOMAIN R \cup {n} -> Result] /\ DOMAIN R \cup {n} \in SUBSET Rows
    BY <1>1
  <2> QED BY <2>1 DEF Outcomes
<1> DEFINE v == [[round[d] EXCEPT !.todo = T \ {n}] EXCEPT !.result = new]
<1>4. round' = [round EXCEPT ![d] = v]
  BY DEF Note, MailInv
<1> HIDE DEF R, new
<1>5. v \in OpenRound /\ v.on = TRUE /\ v.todo = T \ {n} /\ v.result = new
  BY <1>1, <1>3 DEF OpenRound
<1> HIDE DEF v
<1>6. round \in [Dispatchers -> OpenRound \cup {Away}]
  BY DEF MailInv
<1>7. /\ round' \in [Dispatchers -> OpenRound \cup {Away}]
      /\ round'[d] = v /\ \A c \in Dispatchers \ {d} : round'[c] = round[c]
  BY <1>4, <1>5, <1>6
<1>8. round[d].on = TRUE
  BY <1>1 DEF OpenRound
<1>9. \A c \in Dispatchers : round'[c].on = round[c].on
  BY <1>5, <1>7, <1>8
<1> QED BY <1>2, <1>5, <1>7, <1>9 DEF R

LEMMA NoteKeeps ==
  ASSUME MailInv, NEW d \in Dispatchers, round[d].on, NEW n \in round[d].todo,
         NEW r \in Result, Note(d, n, r), UNCHANGED row
  PROVE  /\ RoundsAreApart' /\ n \in Rows /\ accepted[n] <= losses
         /\ \A c \in Dispatchers, m \in Rows :
              Known(c, m)' <=> IF c = d /\ m = n THEN r.status = "SENT" ELSE Known(c, m)
<1>1. n \in Rows /\ round[d].todo \subseteq Rows
  BY RoundFacts
<1>2. ASSUME NEW c \in Dispatchers, NEW m \in Rows PROVE Touches(c, m)' <=> Touches(c, m)
  <2>1. CASE c = d
    BY <2>1, NoteMoves DEF Touches
  <2>2. CASE c # d
    BY <2>2, NoteMoves DEF Touches
  <2> QED BY <2>1, <2>2
<1>3. ASSUME NEW c \in Dispatchers, NEW m \in Rows, round'[c].on, m \in round'[c].todo
      PROVE  m \notin DOMAIN round'[c].result
  <2>1. CASE c = d
    BY <1>3, <2>1, NoteMoves DEF MailInv, RoundsAreApart
  <2>2. CASE c # d
    BY <1>3, <2>2, NoteMoves DEF MailInv, RoundsAreApart
  <2> QED BY <2>1, <2>2
<1>4. RoundsAreApart'
  <2>1. \A m \in Rows : Open(m)' <=> Open(m)
    BY DEF Open
  <2> QED BY <1>2, <1>3, <2>1 DEF MailInv, RoundsAreApart
<1>5. Touches(d, n) /\ n \notin DOMAIN round[d].result
  BY <1>1 DEF Touches, MailInv, RoundsAreApart
<1>6. \A c \in Dispatchers : ~Known(c, n)
  <2>1. ASSUME NEW c \in Dispatchers, Known(c, n) PROVE FALSE
    <3>1. Touches(c, n)
      BY <2>1 DEF Known, Touches
    <3>2. c = d
      BY <1>1, <1>5, <3>1 DEF MailInv, RoundsAreApart
    <3> QED BY <1>5, <2>1, <3>2 DEF Known
  <2> QED BY <2>1
<1>7. accepted[n] <= losses
  <2>1. ~Delivered(n)
    BY <1>1, <1>5 DEF MailInv, RoundsAreApart, Open, Delivered
  <2> QED BY <1>1, <1>6, <2>1 DEF MailInv, MailIsCounted
<1>8. ASSUME NEW c \in Dispatchers, NEW m \in Rows
      PROVE  Known(c, m)' <=> IF c = d /\ m = n THEN r.status = "SENT" ELSE Known(c, m)
  <2>1. CASE c = d /\ m = n
    BY <2>1, NoteMoves DEF Known
  <2>2. CASE c = d /\ m # n
    BY <2>2, NoteMoves DEF Known
  <2>3. CASE c # d
    BY <2>3, NoteMoves DEF Known
  <2> QED BY <2>1, <2>2, <2>3
<1> QED BY <1>1, <1>4, <1>7, <1>8

(* A round that is over touches nothing.                                          *)
LEMMA RoundEnds ==
  ASSUME MailInv, NEW d \in Dispatchers, round' = [round EXCEPT ![d] = Away]
  PROVE  /\ round' \in [Dispatchers -> OpenRound \cup {Away}]
         /\ \A c \in Dispatchers, n \in Rows :
              /\ Touches(c, n)' <=> c # d /\ Touches(c, n)
              /\ Known(c, n)' <=> c # d /\ Known(c, n)
         /\ \A c \in Dispatchers, n \in Rows :
              round'[c].on /\ n \in round'[c].todo => n \notin DOMAIN round'[c].result
<1>1. Away.on = FALSE
  BY DEF Away
<1>2. round' \in [Dispatchers -> OpenRound \cup {Away}]
  BY DEF MailInv
<1>3. round'[d] = Away /\ \A c \in Dispatchers \ {d} : round'[c] = round[c]
  BY DEF MailInv
<1>4. ASSUME NEW c \in Dispatchers, NEW n \in Rows
      PROVE  /\ Touches(c, n)' <=> c # d /\ Touches(c, n)
             /\ Known(c, n)' <=> c # d /\ Known(c, n)
             /\ round'[c].on /\ n \in round'[c].todo => n \notin DOMAIN round'[c].result
  <2>1. CASE c = d
    BY <1>1, <1>3, <2>1 DEF Touches, Known
  <2>2. CASE c # d
    BY <1>3, <2>2 DEF Touches, Known, MailInv, RoundsAreApart
  <2> QED BY <2>1, <2>2
<1> QED BY <1>2, <1>4

LEMMA InitMailInv == NotifyInit => MailInv
<1> SUFFICES ASSUME NotifyInit PROVE MailInv
  OBVIOUS
<1>1. NoRow \in RowShape /\ NoRow.status = "NONE"
  BY NotifyAssumption DEF NoRow, RowShape, Statuses
<1>2. /\ alert \in [Alerts -> {"none", "pending", "handled", "published"}]
      /\ row \in [Rows -> RowShape] /\ accepted \in [Rows -> Nat]
      /\ round \in [Dispatchers -> OpenRound \cup {Away}] /\ losses \in 0..MaxLosses
  BY <1>1, NotifyAssumption DEF NotifyInit
<1>3. \A d \in Dispatchers : ~round[d].on
  BY DEF NotifyInit, Away
<1>4. RoundsAreApart
  BY <1>3 DEF RoundsAreApart, Touches
<1>5. \A n \in Rows : MailIsCounted(n)
  BY DEF NotifyInit, MailIsCounted
<1> QED BY <1>2, <1>4, <1>5 DEF MailInv

LEMMA AlertKeeps ==
  ASSUME MailInv, NEW e \in Alerts, Raise(e) \/ Acknowledge(e) \/ LoseAcknowledge(e)
  PROVE  MailInv'
<1>1. /\ UNCHANGED <<row, accepted, round>> /\ (losses' = losses \/ losses' = losses + 1)
      /\ losses' \in 0..MaxLosses
      /\ alert' \in [Alerts -> {"none", "pending", "handled", "published"}]
  BY NotifyAssumption DEF Raise, Acknowledge, LoseAcknowledge, Accident, MailInv
<1>2. RoundsAreApart'
  BY <1>1 DEF MailInv, RoundsAreApart, Touches, Open
<1>3. ASSUME NEW n \in Rows PROVE MailIsCounted(n)'
  <2>1. /\ accepted'[n] = accepted[n] /\ accepted[n] \in Nat /\ losses \in Nat
        /\ accepted[n] <= 1 + losses
    BY <1>1, NotifyAssumption DEF MailInv, MailIsCounted
  <2>2. Delivered(n)' = Delivered(n) /\ \A d \in Dispatchers : Known(d, n)' = Known(d, n)
    BY <1>1 DEF Delivered, Known
  <2>3. ~Delivered(n) /\ (\A d \in Dispatchers : ~Known(d, n)) => accepted[n] <= losses
    BY DEF MailInv, MailIsCounted
  <2> HIDE DEF Delivered, Known
  <2>4. accepted[n] <= 1 + losses' /\ (accepted[n] <= losses => accepted[n] <= losses')
    BY <1>1, <2>1
  <2> QED BY <2>1, <2>2, <2>3, <2>4 DEF MailIsCounted
<1> QED BY <1>1, <1>2, <1>3 DEF MailInv

LEMMA FanOutKeeps ==
  ASSUME MailInv, NEW e \in Alerts, FanOut(e)
  PROVE  MailInv'
<1>1. /\ UNCHANGED <<accepted, round, losses>>
      /\ alert' \in [Alerts -> {"none", "pending", "handled", "published"}]
      /\ row' = [n \in Rows |-> IF n[1] = e /\ row[n] = NoRow THEN Inserted(n) ELSE row[n]]
  BY DEF FanOut, MailInv
<1>2. ASSUME NEW n \in Rows
      PROVE  Inserted(n) \in RowShape /\ Inserted(n).status \in {"SENT", "QUEUED"}
  BY NotifyAssumption DEF Inserted, RowShape, Statuses
<1>3. row \in [Rows -> RowShape]
  BY DEF MailInv
<1>4. row' \in [Rows -> RowShape]
  BY <1>1, <1>2, <1>3
<1>5. ASSUME NEW n \in Rows PROVE (Open(n) => Open(n)') /\ (Delivered(n) => Delivered(n)')
  <2>1. CASE row'[n] = row[n]
    BY <2>1 DEF Open, Delivered
  <2>2. CASE row[n] = NoRow
    BY <2>2 DEF Open, Delivered, NoRow
  <2> QED BY <1>1, <2>1, <2>2
<1>6. RoundsAreApart'
  BY <1>1, <1>5 DEF MailInv, RoundsAreApart, Touches
<1>7. \A n \in Rows : MailIsCounted(n)'
  BY <1>1, <1>5 DEF MailInv, MailIsCounted, Known
<1> QED BY <1>1, <1>4, <1>6, <1>7 DEF MailInv

LEMMA RowKeeps ==
  ASSUME MailInv, NEW n \in Rows, FallDue(n) \/ MarkRead(n)
  PROVE  MailInv'
<1>1. /\ UNCHANGED <<alert, accepted, round, losses>>
      /\ row \in [Rows -> RowShape]
      /\ row' = [row EXCEPT ![n].due = TRUE]
           \/ (row[n].status = "SENT" /\ row' = [row EXCEPT ![n].status = "READ"])
  BY DEF FallDue, MarkRead, MailInv
<1>2. /\ row' \in [Rows -> RowShape]
      /\ \A m \in Rows \ {n} : row'[m] = row[m]
      /\ row'[n].status = row[n].status \/ (row[n].status = "SENT" /\ row'[n].status = "READ")
  BY <1>1 DEF RowShape, Statuses
<1>3. ASSUME NEW m \in Rows PROVE (Open(m) => Open(m)') /\ (Delivered(m) => Delivered(m)')
  <2>1. CASE m = n
    BY <1>2, <2>1 DEF Open, Delivered
  <2>2. CASE m # n
    BY <1>2, <2>2 DEF Open, Delivered
  <2> QED BY <2>1, <2>2
<1>4. RoundsAreApart'
  BY <1>1, <1>3 DEF MailInv, RoundsAreApart, Touches
<1>5. \A m \in Rows : MailIsCounted(m)'
  BY <1>1, <1>3 DEF MailInv, MailIsCounted, Known
<1> QED BY <1>1, <1>2, <1>4, <1>5 DEF MailInv

LEMMA BeginRoundKeeps ==
  ASSUME MailInv, NEW d \in Dispatchers, BeginRound(d)
  PROVE  MailInv'
<1>1. PICK batch \in SUBSET Claimable :
        round' = [round EXCEPT ![d] = [on |-> TRUE, todo |-> batch,
                                       result |-> [n \in Sweepable |-> Swept(n)]]]
  BY DEF BeginRound
<1>2. ~round[d].on /\ (\A n \in Sweepable : Unlocked(n)) /\ UNCHANGED <<alert, row, accepted, losses>>
  BY DEF BeginRound
<1>3. \A n \in Sweepable : n \in Rows /\ Open(n) /\ Channel(n) \notin Transported
  BY DEF Sweepable
<1>4. \A n \in batch : n \in Rows /\ Open(n) /\ Unlocked(n) /\ Channel(n) \in Transported
  BY <1>1 DEF Claimable
<1> DEFINE outcome == [n \in Sweepable |-> Swept(n)]
           new == [on |-> TRUE, todo |-> batch, result |-> outcome]
<1>5. ASSUME NEW n \in Sweepable PROVE Swept(n) \in Result
  <2>1. row[n] \in RowShape /\ n \in Rows
    BY <1>3 DEF MailInv
  <2> QED BY <2>1 DEF Swept, Result, RowShape
<1>6. outcome \in [Sweepable -> Result] /\ Sweepable \in SUBSET Rows
  BY <1>3, <1>5
<1>7. DOMAIN outcome = Sweepable
  OBVIOUS
<1>8. ASSUME NEW n \in Sweepable PROVE outcome[n].status = "SENT" => ~Delivered(n)
  BY <1>3 DEF Delivered, Open
<1> HIDE DEF outcome
<1>9. new \in OpenRound
  <2>1. outcome \in Outcomes
    BY <1>6 DEF Outcomes
  <2> QED BY <1>3, <1>4, <2>1 DEF OpenRound
<1>10. new.on = TRUE /\ new.todo = batch /\ new.result = outcome
  OBVIOUS
<1>11. round \in [Dispatchers -> OpenRound \cup {Away}] /\ round' = [round EXCEPT ![d] = new]
  BY <1>1 DEF MailInv, outcome
<1> HIDE DEF new
<1>12. /\ round' \in [Dispatchers -> OpenRound \cup {Away}]
       /\ round'[d] = new /\ \A c \in Dispatchers \ {d} : round'[c] = round[c]
  BY <1>9, <1>11
<1>13. ASSUME NEW n \in Rows
       PROVE  /\ Touches(d, n)' <=> n \in batch \cup Sweepable
              /\ n \in batch \cup Sweepable => Open(n) /\ Unlocked(n)
              /\ n \in batch => n \notin Sweepable
  <2>1. Touches(d, n)' <=> n \in batch \cup Sweepable
    BY <1>7, <1>10, <1>12 DEF Touches
  <2> QED BY <1>2, <1>3, <1>4, <2>1
<1>14. ASSUME NEW c \in Dispatchers \ {d}, NEW n \in Rows
       PROVE  (Touches(c, n)' <=> Touches(c, n)) /\ (Known(c, n)' <=> Known(c, n))
  BY <1>12 DEF Touches, Known
<1>15. RoundsAreApart'
  <2>1. \A n \in Rows : Open(n)' <=> Open(n)
    BY <1>2 DEF Open
  <2>2. ASSUME NEW c \in Dispatchers, NEW n \in Rows, Touches(c, n)' PROVE Open(n)'
    <3>1. CASE c = d
      BY <1>13, <2>1, <2>2, <3>1
    <3>2. CASE c # d
      BY <1>14, <2>1, <2>2, <3>2 DEF MailInv, RoundsAreApart
    <3> QED BY <3>1, <3>2
  <2>3. ASSUME NEW c \in Dispatchers, NEW n \in Rows, round'[c].on, n \in round'[c].todo
        PROVE  n \notin DOMAIN round'[c].result
    <3>1. CASE c = d
      BY <1>7, <1>10, <1>12, <1>13, <2>3, <3>1
    <3>2. CASE c # d
      BY <1>12, <2>3, <3>2 DEF MailInv, RoundsAreApart
    <3> QED BY <3>1, <3>2
  <2>4. ASSUME NEW b \in Dispatchers, NEW c \in Dispatchers, NEW n \in Rows,
               Touches(b, n)', Touches(c, n)'
        PROVE  b = c
    <3>1. CASE b # d /\ c # d
      BY <1>14, <2>4, <3>1 DEF MailInv, RoundsAreApart
    <3>2. \A a \in Dispatchers : Unlocked(n) => ~Touches(a, n)
      BY DEF Unlocked
    <3>3. CASE b = d /\ c # d
      BY <1>13, <1>14, <2>4, <3>2, <3>3
    <3>4. CASE b # d /\ c = d
      BY <1>13, <1>14, <2>4, <3>2, <3>4
    <3> QED BY <3>1, <3>3, <3>4
  <2> QED BY <2>2, <2>3, <2>4 DEF RoundsAreApart
<1>16. ASSUME NEW n \in Rows PROVE MailIsCounted(n)'
  <2>1. MailIsCounted(n) /\ accepted'[n] = accepted[n] /\ losses' = losses /\ (Delivered(n)' <=> Delivered(n))
    BY <1>2 DEF MailInv, Delivered
  <2>2. ~Known(d, n)
    BY <1>2 DEF Known
  <2>3. (\A c \in Dispatchers : ~Known(c, n)') => \A c \in Dispatchers : ~Known(c, n)
    BY <1>14, <2>2
  <2> QED BY <2>1, <2>3 DEF MailIsCounted
<1> QED BY <1>2, <1>12, <1>15, <1>16 DEF MailInv

LEMMA AgainFits ==
  ASSUME MailInv, NEW n \in Rows
  PROVE  /\ Again(n) \in Result /\ Again(n).status # "SENT"
         /\ [row[n] EXCEPT !.status = "SENT"] \in Result
         /\ [row[n] EXCEPT !.status = "SENT"].status = "SENT"
         /\ [row[n] EXCEPT !.status = "SUPPRESSED"] \in Result
         /\ [row[n] EXCEPT !.status = "SUPPRESSED"].status # "SENT"
<1>1. row[n] \in RowShape
  BY DEF MailInv
<1>2. /\ [row[n] EXCEPT !.status = "SENT"] \in Result
      /\ [row[n] EXCEPT !.status = "SENT"].status = "SENT"
      /\ [row[n] EXCEPT !.status = "SUPPRESSED"] \in Result
      /\ [row[n] EXCEPT !.status = "SUPPRESSED"].status = "SUPPRESSED"
  BY <1>1 DEF RowShape, Result
<1>3. CASE row[n].tries + 1 >= MailAttempts
  BY <1>2, <1>3 DEF Again
<1>4. CASE ~(row[n].tries + 1 >= MailAttempts)
  <2>1. Again(n) = [status |-> "FAILED", tries |-> row[n].tries + 1, due |-> FALSE]
    BY <1>4 DEF Again
  <2>2. row[n].tries + 1 \in 0..MailAttempts
    BY <1>1, <1>4, NotifyAssumption DEF RowShape
  <2> QED BY <1>2, <2>1, <2>2 DEF Result
<1> QED BY <1>2, <1>3, <1>4

(* The server took the mail, and the round knows it or its answer was lost; or it took  *)
(* none.                                                                    *)
LEMMA MailKeeps ==
  ASSUME MailInv, NEW d \in Dispatchers, round[d].on, NEW n \in round[d].todo,
         MailAccepted(d, n) \/ MailRefused(d, n) \/ AnswerLost(d, n)
  PROVE  MailInv'
<1>1. n \in Rows
  BY RoundFacts
<1>2. PICK r \in Result :
        /\ Note(d, n, r)
        /\ \/ r.status = "SENT" /\ accepted' = [accepted EXCEPT ![n] = @ + 1] /\ losses' = losses
           \/ r.status # "SENT" /\ accepted' = accepted /\ losses' = losses
           \/ /\ r.status # "SENT" /\ accepted' = [accepted EXCEPT ![n] = @ + 1]
              /\ losses' = losses + 1
  <2>1. CASE MailAccepted(d, n)
    BY <1>1, <2>1, AgainFits DEF MailAccepted
  <2>2. CASE MailRefused(d, n)
    BY <1>1, <2>2, AgainFits DEF MailRefused
  <2>3. CASE AnswerLost(d, n)
    BY <1>1, <2>3, AgainFits DEF AnswerLost, Accident
  <2> QED BY <2>1, <2>2, <2>3
<1>3. UNCHANGED <<alert, row>> /\ losses' \in 0..MaxLosses /\ losses \in Nat
  BY NotifyAssumption DEF MailAccepted, MailRefused, AnswerLost, Accident, MailInv
<1>4. /\ RoundsAreApart' /\ accepted[n] <= losses
      /\ \A c \in Dispatchers, m \in Rows :
           Known(c, m)' <=> IF c = d /\ m = n THEN r.status = "SENT" ELSE Known(c, m)
  BY <1>2, <1>3, NoteKeeps
<1>5. round' \in [Dispatchers -> OpenRound \cup {Away}]
  BY <1>2, NoteMoves
<1>6. accepted \in [Rows -> Nat]
  BY DEF MailInv
<1>7. /\ accepted' \in [Rows -> Nat] /\ \A m \in Rows \ {n} : accepted'[m] = accepted[m]
      /\ \/ Known(d, n)' /\ accepted'[n] = accepted[n] + 1 /\ losses' = losses
         \/ accepted'[n] = accepted[n] /\ losses' = losses
         \/ accepted'[n] = accepted[n] + 1 /\ losses' = losses + 1
  <2>1. r.status = "SENT" => Known(d, n)'
    BY <1>1, <1>4
  <2> HIDE DEF Known
  <2> QED BY <1>1, <1>2, <1>6, <2>1
<1>8. ASSUME NEW m \in Rows PROVE MailIsCounted(m)'
  <2>1. Delivered(m)' <=> Delivered(m)
    BY <1>3 DEF Delivered
  <2>2. CASE m = n
    <3>1. accepted[n] \in Nat
      BY <1>1, <1>6
    <3>2. /\ accepted'[n] <= 1 + losses'
          /\ accepted'[n] <= losses' \/ Known(d, n)'
      BY <1>3, <1>4, <1>7, <3>1
    <3> QED BY <2>2, <3>2 DEF MailIsCounted
  <2>3. CASE m # n
    <3>1. accepted'[m] = accepted[m] /\ accepted[m] \in Nat /\ MailIsCounted(m)
      BY <1>6, <1>7, <2>3 DEF MailInv
    <3>2. \A c \in Dispatchers : Known(c, m)' <=> Known(c, m)
      BY <1>4, <2>3
    <3>3. losses' = losses \/ losses' = losses + 1
      BY <1>7
    <3>4. accepted[m] <= 1 + losses' /\ (accepted[m] <= losses => accepted[m] <= losses')
      BY <1>3, <3>1, <3>3 DEF MailIsCounted
    <3> QED BY <2>1, <3>1, <3>2, <3>4 DEF MailIsCounted
  <2> QED BY <2>2, <2>3
<1> QED BY <1>3, <1>4, <1>5, <1>7, <1>8 DEF MailInv

LEMMA CommitRoundKeeps ==
  ASSUME MailInv, NEW d \in Dispatchers, CommitRound(d)
  PROVE  MailInv'
<1> DEFINE R == round[d].result
<1>1. /\ round[d].on /\ UNCHANGED <<alert, accepted, losses>>
      /\ row' = [n \in Rows |-> IF n \in DOMAIN R THEN R[n] ELSE row[n]]
      /\ round' = [round EXCEPT ![d] = Away]
  BY DEF CommitRound
<1>2. DOMAIN R \subseteq Rows /\ \A n \in DOMAIN R : R[n] \in Result /\ Touches(d, n)
  BY <1>1, RoundFacts DEF Touches
<1>3. row' \in [Rows -> RowShape]
  <2>1. Result \subseteq RowShape /\ row \in [Rows -> RowShape]
    BY DEF Result, RowShape, Statuses, MailInv
  <2> QED BY <1>1, <1>2, <2>1
<1>4. /\ round' \in [Dispatchers -> OpenRound \cup {Away}]
      /\ \A c \in Dispatchers, n \in Rows :
              /\ Touches(c, n)' <=> c # d /\ Touches(c, n)
              /\ Known(c, n)' <=> c # d /\ Known(c, n)
      /\ \A c \in Dispatchers, n \in Rows :
              round'[c].on /\ n \in round'[c].todo => n \notin DOMAIN round'[c].result
  BY <1>1, RoundEnds
<1>5. ASSUME NEW n \in Rows, NEW c \in Dispatchers, c # d, Touches(c, n)
      PROVE  n \notin DOMAIN R
  BY <1>2, <1>5 DEF MailInv, RoundsAreApart
<1>6. \A n \in Rows : n \notin DOMAIN R => row'[n] = row[n]
  BY <1>1
<1>7. RoundsAreApart'
  <2>1. ASSUME NEW c \in Dispatchers, NEW n \in Rows, Touches(c, n)' PROVE Open(n)'
    <3>1. c # d /\ Touches(c, n)
      BY <1>4, <2>1
    <3>2. Open(n) /\ row'[n] = row[n]
      BY <1>5, <1>6, <3>1 DEF MailInv, RoundsAreApart
    <3> QED BY <3>2 DEF Open
  <2>2. ASSUME NEW b \in Dispatchers, NEW c \in Dispatchers, NEW n \in Rows,
               Touches(b, n)', Touches(c, n)'
        PROVE  b = c
    BY <1>4, <2>2 DEF MailInv, RoundsAreApart
  <2> QED BY <1>4, <2>1, <2>2 DEF RoundsAreApart
<1>8. ASSUME NEW n \in Rows PROVE MailIsCounted(n)'
  <2>1. MailIsCounted(n) /\ accepted'[n] = accepted[n] /\ losses' = losses
    BY <1>1 DEF MailInv
  <2>2. CASE n \in DOMAIN R
    <3>1. row'[n] = R[n] /\ R[n] \in Result /\ Touches(d, n)
      BY <1>1, <1>2, <2>2
    <3>2. \A c \in Dispatchers : c # d => ~Known(c, n)
      <4>1. \A c \in Dispatchers : Known(c, n) => Touches(c, n)
        BY DEF Known, Touches
      <4> QED BY <1>5, <2>2, <4>1
    <3>3. ~Delivered(n)
      BY <3>1 DEF MailInv, RoundsAreApart, Open, Delivered
    <3>4. ~Delivered(n)' => ~Known(d, n)
      BY <3>1 DEF Delivered, Known
    <3> QED BY <2>1, <3>2, <3>3, <3>4 DEF MailIsCounted
  <2>3. CASE n \notin DOMAIN R
    <3>1. row'[n] = row[n] /\ ~Known(d, n)
      BY <1>6, <2>3 DEF Known
    <3>2. (Delivered(n)' <=> Delivered(n)) /\ \A c \in Dispatchers : Known(c, n)' <=> Known(c, n)
      BY <1>4, <3>1 DEF Delivered
    <3> QED BY <2>1, <3>2 DEF MailIsCounted
  <2> QED BY <2>2, <2>3
<1> QED BY <1>1, <1>3, <1>4, <1>7, <1>8 DEF MailInv

LEMMA KillRoundKeeps ==
  ASSUME MailInv, NEW d \in Dispatchers, KillRound(d)
  PROVE  MailInv'
<1>1. /\ UNCHANGED <<alert, row, accepted>> /\ round' = [round EXCEPT ![d] = Away]
      /\ losses' = losses + 1 /\ losses' \in 0..MaxLosses /\ losses \in Nat
  BY NotifyAssumption DEF KillRound, Accident, MailInv
<1>2. /\ round' \in [Dispatchers -> OpenRound \cup {Away}]
      /\ \A c \in Dispatchers, n \in Rows : Touches(c, n)' <=> c # d /\ Touches(c, n)
      /\ \A c \in Dispatchers, n \in Rows :
              round'[c].on /\ n \in round'[c].todo => n \notin DOMAIN round'[c].result
  BY <1>1, RoundEnds
<1>3. RoundsAreApart'
  <2>1. \A n \in Rows : Open(n)' <=> Open(n)
    BY <1>1 DEF Open
  <2> QED BY <1>2, <2>1 DEF MailInv, RoundsAreApart
<1>4. ASSUME NEW n \in Rows PROVE MailIsCounted(n)'
  <2>1. accepted'[n] = accepted[n] /\ accepted[n] \in Nat /\ accepted[n] <= 1 + losses
    BY <1>1 DEF MailInv, MailIsCounted
  <2>2. accepted'[n] <= losses' /\ accepted'[n] <= 1 + losses'
    BY <1>1, <2>1
  <2> QED BY <2>2 DEF MailIsCounted
<1> QED BY <1>1, <1>2, <1>3, <1>4 DEF MailInv

LEMMA MailInvIsKept == MailInv /\ [NotifyNext]_notifyVars => MailInv'
<1> SUFFICES ASSUME MailInv, [NotifyNext]_notifyVars PROVE MailInv'
  OBVIOUS
<1>1. CASE \E e \in Alerts : Raise(e) \/ FanOut(e) \/ Acknowledge(e) \/ LoseAcknowledge(e)
  BY <1>1, AlertKeeps, FanOutKeeps
<1>2. CASE \E d \in Dispatchers : BeginRound(d) \/ SendMail(d) \/ CommitRound(d) \/ KillRound(d)
  BY <1>2, BeginRoundKeeps, MailKeeps, CommitRoundKeeps, KillRoundKeeps DEF SendMail
<1>3. CASE \E d \in Dispatchers : round[d].on /\ \E n \in round[d].todo : AnswerLost(d, n)
  BY <1>3, MailKeeps
<1>4. CASE \E n \in Rows : FallDue(n) \/ MarkRead(n)
  BY <1>4, RowKeeps
<1>5. CASE UNCHANGED notifyVars
  BY <1>5 DEF notifyVars, MailInv, RoundsAreApart, Touches, Open, MailIsCounted, Delivered, Known
<1> QED BY <1>1, <1>2, <1>3, <1>4, <1>5 DEF NotifyNext

(* fan_out_notifications and run_once: however many dispatchers work at once and however  *)
(* often an event is delivered, a mail goes out more than once only for every process    *)
(* that died and every answer that was lost.                                  *)
THEOREM MailIsSentOnce == NotifySpec => []MailOnceUnlessLoss
<1>1. MailInv => MailOnceUnlessLoss
  BY DEF MailInv, MailIsCounted, MailOnceUnlessLoss
<1> QED BY <1>1, InitMailInv, MailInvIsKept, PTL DEF NotifySpec

-----------------------------------------------------------------------------
(* Alarms of telemetry points                                                *)

FeedSteps == {"idle", "next", "rule", "insert", "dedupe", "open"}
OperatorSteps == {"idle", "suppress", "acknowledge", "read", "number", "link"}
Locks ==
  {Device(p) : p \in Points} \cup {RowOf(p) : p \in Points} \cup {Counter("AL"), Counter("WO")}
Drafts == UNION {[D -> AlarmRow] : D \in SUBSET Points}
Saved == [rows : Drafts, new : SUBSET WorkOrder, locks : SUBSET Locks]
TxnRecord ==
  [step : FeedSteps \cup OperatorSteps, todo : Seq(Points), at : Nat, rows : Drafts,
   new : SUBSET WorkOrder, locks : SUBSET Locks, ok : Seq(Points), saved : Saved]

HowOften(s, p) == Cardinality({i \in DOMAIN s : s[i] = p})
Nrs(set) == \A o \in set : o.nr <= Cardinality(set)

(* A row that a transaction has written but not committed.  It stays linked,    *)
(* to an order of its asset, and a suppression is either kept with no order of  *)
(* the rule, or over.                                                        *)
Follows(p, rec, new) ==
  /\ rec.status # "NONE"
  /\ alarm[p].order # 0 => rec.order = alarm[p].order
  /\ rec.order # 0 => \E o \in opened \cup new : o.nr = rec.order /\ AssetOf[o.of] = AssetOf[p]
  /\ alarm[p].status = "SUPPRESSED" =>
       \/ /\ rec.status = "SUPPRESSED" /\ rec.until = alarm[p].until
          /\ \A o \in new : o.of = p => o.by # "rule"
       \/ rec.status # "SUPPRESSED" /\ rec.woke >= alarm[p].until

(* What a transaction has written, now or at its savepoint, is locked by it.    *)
DraftFits(rows, new, locks) ==
  /\ IsFiniteSet(new) /\ (new # {} => Counter("WO") \in locks)
  /\ Nrs(opened \cup new)
  /\ \A p \in DOMAIN rows : RowOf(p) \in locks /\ Follows(p, rows[p], new)
  /\ \A o \in new : o.by = "rule" => o.of \in DOMAIN rows
  /\ \A p \in Points : RowOf(p) \in locks => alarm[p].status # "NONE" \/ Device(p) \in locks

(* The readings it has accepted are those it has counted; those of due are       *)
(* counted and not accepted yet.                                             *)
Tallied(rows, ok, due) ==
  \A p \in Points :
    IF p \in DOMAIN rows
    THEN /\ rows[p].count = alarm[p].count + HowOften(ok, p) + (IF p \in due THEN 1 ELSE 0)
         /\ p \in AutoOrder /\ rows[p].loud => rows[p].order # 0 \/ p \in due
    ELSE HowOften(ok, p) = 0

FeedFits(x) ==
  LET p == Head(x.todo) IN
  /\ x.step \in FeedSteps
  /\ x.step = "idle" => x.todo = <<>>
  /\ Tallied(x.rows, x.ok, IF x.step \in {"dedupe", "open"} THEN {p} ELSE {})
  /\ \A o \in x.new : o.by = "rule"
  /\ x.step \in {"rule", "insert", "dedupe", "open"} =>
       /\ x.todo # <<>> /\ Device(p) \in x.locks
       /\ x.saved.locks \subseteq x.locks /\ x.saved.new \subseteq x.new
       /\ DraftFits(x.saved.rows, x.saved.new, x.saved.locks)
       /\ Tallied(x.saved.rows, x.ok, {})
  /\ x.step = "insert" => p \notin DOMAIN x.rows /\ alarm[p].status = "NONE"
  /\ x.step \in {"dedupe", "open"} =>
       p \in DOMAIN x.rows /\ p \in AutoOrder /\ x.rows[p].status # "SUPPRESSED"

Awaits(x, o) ==
  /\ x.step = "link" /\ x.todo # <<>> /\ o.of = Head(x.todo)
  /\ o.nr = Cardinality(opened \cup x.new)
OperatorFits(x) ==
  /\ x.step \in OperatorSteps
  /\ Tallied(x.rows, x.ok, {})
  /\ x.ok = <<>>
  /\ \A i \in DOMAIN x.todo : alarm[x.todo[i]].status # "NONE"
  /\ \A o \in x.new :
       /\ o.by = "hand"
       /\ Awaits(x, o) \/ (o.of \in DOMAIN x.rows /\ x.rows[o.of].order = o.nr)
  /\ x.step = "link" => \E o \in x.new : Awaits(x, o)
  /\ x.step \in {"suppress", "acknowledge"} => x.rows = <<>> /\ x.new = {}

TaskFits(t, x) ==
  /\ x \in TxnRecord
  /\ DraftFits(x.rows, x.new, x.locks)
  /\ t \in Feeds => FeedFits(x)
  /\ t \in Operators => OperatorFits(x)

CommittedFits ==
  /\ alarm \in [Points -> AlarmRow] /\ heard \in [Points -> Nat]
  /\ opened \subseteq WorkOrder /\ IsFiniteSet(opened) /\ Nrs(opened)
  /\ \A p \in Points : alarm[p].status = "NONE" => alarm[p] = NoAlarm
  /\ AlarmsAreTrue

AlarmInv ==
  /\ CommittedFits
  /\ txn \in [AlarmTasks -> TxnRecord]
  /\ \A t \in AlarmTasks : TaskFits(t, txn[t])
  /\ \A t, u \in AlarmTasks : t # u => txn[t].locks \cap txn[u].locks = {}
  /\ ended \subseteq {o.nr : o \in opened}
  /\ used \in 0..MaxUsed /\ clock \in 0..AlarmMaxTime
-----------------------------------------------------------------------------
(* Elementary facts                                                          *)

LEMMA LocksDiffer ==
  /\ \A p, q : RowOf(p) = RowOf(q) => p = q
  /\ \A p, q : Device(p) = Device(q) => p = q
  /\ \A p, q : RowOf(p) # Device(q) /\ RowOf(p) # Counter(q) /\ Device(p) # Counter(q)
  /\ Counter("AL") # Counter("WO")
  /\ \A p \in Points : RowOf(p) \in Locks /\ Device(p) \in Locks
  /\ Counter("AL") \in Locks /\ Counter("WO") \in Locks
<1>1. /\ \A p, q : RowOf(p) = RowOf(q) => p = q
      /\ \A p, q : Device(p) = Device(q) => p = q
      /\ \A p, q : RowOf(p) # Device(q) /\ RowOf(p) # Counter(q) /\ Device(p) # Counter(q)
      /\ Counter("AL") # Counter("WO")
  BY DEF RowOf, Device, Counter
<1> QED BY <1>1 DEF Locks

LEMMA EmptyDraft == <<>> \in Drafts /\ DOMAIN <<>> = {}
<1>1. <<>> = [p \in {} |-> NoAlarm] /\ DOMAIN <<>> = {}
  OBVIOUS
<1> QED BY <1>1 DEF Drafts

LEMMA DraftRows ==
  ASSUME NEW rows \in Drafts
  PROVE  DOMAIN rows \subseteq Points /\ \A p \in DOMAIN rows : rows[p] \in AlarmRow
BY DEF Drafts

LEMMA WithFacts ==
  ASSUME NEW rows \in Drafts, NEW p \in Points, NEW rec \in AlarmRow
  PROVE  /\ With(rows, p, rec) \in Drafts
         /\ DOMAIN With(rows, p, rec) = DOMAIN rows \cup {p}
         /\ With(rows, p, rec)[p] = rec
         /\ \A q \in DOMAIN rows : q # p => With(rows, p, rec)[q] = rows[q]
<1>1. With(rows, p, rec) \in [DOMAIN rows \cup {p} -> AlarmRow]
  BY DraftRows DEF With
<1> QED BY <1>1, DraftRows DEF With, Drafts

LEMMA TodoFacts ==
  ASSUME NEW todo \in Seq(Points), todo # <<>>
  PROVE  /\ Head(todo) \in Points /\ Tail(todo) \in Seq(Points)
         /\ Head(todo) = todo[1] /\ 1 \in DOMAIN todo
         /\ \A i \in DOMAIN Tail(todo) : i + 1 \in DOMAIN todo /\ Tail(todo)[i] = todo[i + 1]
BY HeadTailProperties

LEMMA HowOftenType ==
  ASSUME NEW s \in Seq(Points), NEW p
  PROVE  HowOften(s, p) \in Nat
<1>1. IsFiniteSet(DOMAIN s)
  BY FS_Interval
<1> QED BY <1>1, FS_Subset, FS_CardinalityType DEF HowOften

LEMMA HowOftenAppend ==
  ASSUME NEW s \in Seq(Points), NEW q \in Points, NEW p
  PROVE  HowOften(Append(s, q), p) = HowOften(s, p) + (IF p = q THEN 1 ELSE 0)
<1> DEFINE old == {i \in DOMAIN s : s[i] = p}
           new == {i \in DOMAIN Append(s, q) : Append(s, q)[i] = p}
<1>1. IsFiniteSet(old) /\ Len(s) + 1 \notin old
  BY FS_Interval, FS_Subset
<1>2. CASE p = q
  <2>1. new = old \cup {Len(s) + 1}
    BY <1>2, AppendProperties
  <2> QED BY <2>1, <1>1, <1>2, FS_AddElement, HowOftenType DEF HowOften
<1>3. CASE p # q
  <2>1. new = old
    BY <1>3, AppendProperties
  <2>2. HowOften(Append(s, q), p) = HowOften(s, p)
    BY <2>1 DEF HowOften
  <2> QED BY <2>2, <1>3, HowOftenType
<1> QED BY <1>2, <1>3

LEMMA HowOftenNone == \A p : HowOften(<<>>, p) = 0
BY FS_EmptySet DEF HowOften

-----------------------------------------------------------------------------
(* What a transaction writes                                                 *)

LEMMA RowTypes == NoAlarm \in AlarmRow
BY DEF NoAlarm, AlarmRow

(* What a transaction sees of a point's alarm follows the committed row.     *)
LEMMA SeenFollows ==
  ASSUME CommittedFits, NEW rows \in Drafts, NEW new \in SUBSET WorkOrder, NEW locks,
         DraftFits(rows, new, locks), NEW p \in Points,
         NEW rec, rec = IF p \in DOMAIN rows THEN rows[p] ELSE alarm[p]
  PROVE  /\ rec \in AlarmRow
         /\ rec.status # "NONE" => Follows(p, rec, new)
         /\ rec.status = "NONE" => p \notin DOMAIN rows
<1>1. CASE p \in DOMAIN rows
  BY <1>1, DraftRows DEF DraftFits, Follows
<1>2. CASE p \notin DOMAIN rows
  <2>1. \A o \in new : o.of = p => o.by # "rule"
    BY <1>2 DEF DraftFits
  <2> QED BY <1>2, <2>1 DEF CommittedFits, AlarmsAreTrue, Follows
<1> QED BY <1>1, <1>2

LEMMA DraftWrites ==
  ASSUME NEW rows \in Drafts, NEW new, NEW locks, DraftFits(rows, new, locks),
         NEW p \in Points, NEW rec \in AlarmRow, Follows(p, rec, new), RowOf(p) \in locks
  PROVE  DraftFits(With(rows, p, rec), new, locks)
<1> DEFINE W == With(rows, p, rec)
<1>1. /\ DOMAIN W = DOMAIN rows \cup {p} /\ W[p] = rec
      /\ \A q \in DOMAIN rows : q # p => W[q] = rows[q]
  BY WithFacts
<1> HIDE DEF W
<1>2. \A q \in DOMAIN W : RowOf(q) \in locks /\ Follows(q, W[q], new)
  BY <1>1 DEF DraftFits
<1> QED BY <1>1, <1>2 DEF DraftFits, W

LEMMA DraftLocks ==
  ASSUME NEW rows, NEW new, NEW locks, DraftFits(rows, new, locks), NEW more,
         \A p \in Points : RowOf(p) \in more => alarm[p].status # "NONE" \/ Device(p) \in locks \cup more
  PROVE  DraftFits(rows, new, locks \cup more)
BY DEF DraftFits

LEMMA NextIsNew ==
  ASSUME IsFiniteSet(opened), NEW new, IsFiniteSet(new), Nrs(opened \cup new),
         opened \cup new \subseteq WorkOrder,
         NEW o \in WorkOrder, o.nr = Cardinality(opened \cup new) + 1
  PROVE  /\ IsFiniteSet(new \cup {o}) /\ o \notin opened \cup new
         /\ Cardinality(opened \cup (new \cup {o})) = o.nr
         /\ Nrs(opened \cup (new \cup {o}))
<1>1. IsFiniteSet(opened \cup new) /\ Cardinality(opened \cup new) \in Nat
  BY FS_Union, FS_CardinalityType
<1>2. o \notin opened \cup new
  BY <1>1 DEF Nrs
<1>3. opened \cup (new \cup {o}) = (opened \cup new) \cup {o}
  OBVIOUS
<1>4. Cardinality(opened \cup (new \cup {o})) = Cardinality(opened \cup new) + 1
  BY <1>1, <1>2, <1>3, FS_AddElement
<1>5. \A q \in opened \cup new : q.nr \in Nat
  BY DEF WorkOrder
<1>6. Nrs(opened \cup (new \cup {o}))
  BY <1>1, <1>4, <1>5 DEF Nrs
<1> QED BY <1>2, <1>4, <1>6, FS_AddElement

(* An order of the rule is opened for a row that is written and not suppressed. *)
LEMMA DraftOrders ==
  ASSUME CommittedFits, NEW rows \in Drafts, NEW new \in SUBSET WorkOrder, NEW locks,
         DraftFits(rows, new, locks),
         NEW o \in WorkOrder, o.nr = Cardinality(opened \cup new) + 1,
         o.by = "rule" => o.of \in DOMAIN rows /\ rows[o.of].status # "SUPPRESSED"
  PROVE  /\ DraftFits(rows, new \cup {o}, locks \cup {Counter("WO")})
         /\ Cardinality(opened \cup (new \cup {o})) = o.nr
<1>1. /\ IsFiniteSet(new \cup {o}) /\ Cardinality(opened \cup (new \cup {o})) = o.nr
      /\ Nrs(opened \cup (new \cup {o}))
  BY NextIsNew DEF CommittedFits, DraftFits
<1>2. ASSUME NEW p \in DOMAIN rows
      PROVE  Follows(p, rows[p], new \cup {o})
  BY DEF DraftFits, Follows
<1>3. \A p : RowOf(p) # Counter("WO") /\ Device(p) # Counter("WO")
  BY LocksDiffer
<1> QED BY <1>1, <1>2, <1>3 DEF DraftFits

LEMMA NoTxnFits ==
  ASSUME CommittedFits
  PROVE  \A t \in AlarmTasks : TaskFits(t, NoTxn)
<1>1. NoTxn \in TxnRecord
  BY EmptyDraft DEF NoTxn, TxnRecord, Saved, FeedSteps
<1>2. DraftFits(<<>>, {}, {})
  BY EmptyDraft, FS_EmptySet DEF DraftFits, CommittedFits
<1>3. Tallied(<<>>, <<>>, {})
  BY EmptyDraft, HowOftenNone DEF Tallied
<1>4. FeedFits(NoTxn)
  BY <1>3 DEF FeedFits, NoTxn, FeedSteps
<1>5. OperatorFits(NoTxn)
  BY <1>3, EmptyDraft DEF OperatorFits, NoTxn, OperatorSteps
<1> QED BY <1>1, <1>2, <1>4, <1>5 DEF TaskFits, NoTxn

-----------------------------------------------------------------------------
(* Steps of one task, and what a commit of one leaves to the others          *)

LEMMA DraftStands ==
  ASSUME NEW CONSTANT rows \in Drafts, NEW CONSTANT new, NEW CONSTANT locks,
         DraftFits(rows, new, locks),
         \A p \in Points : RowOf(p) \in locks => alarm'[p] = alarm[p],
         \A p \in Points : alarm[p].status # "NONE" => alarm'[p].status # "NONE",
         opened \subseteq opened', Nrs(opened'),
         Counter("WO") \in locks => opened' = opened
  PROVE  DraftFits(rows, new, locks)'
<1>1. Nrs(opened' \cup new)
  <2>1. CASE new = {}
    BY <2>1
  <2>2. CASE new # {}
    BY <2>2 DEF DraftFits, Nrs
  <2> QED BY <2>1, <2>2
<1>2. \A p \in DOMAIN rows : alarm'[p] = alarm[p]
  BY DraftRows DEF DraftFits
<1>3. ASSUME NEW CONSTANT p \in DOMAIN rows
      PROVE  Follows(p, rows[p], new)'
  BY <1>2 DEF DraftFits, Follows
<1>4. \A p \in Points : RowOf(p) \in locks => alarm'[p].status # "NONE" \/ Device(p) \in locks
  BY DEF DraftFits
<1> QED BY <1>1, <1>3, <1>4 DEF DraftFits, RowOf, Device, Counter, Nrs

LEMMA TallyStands ==
  ASSUME NEW CONSTANT rows \in Drafts, NEW CONSTANT ok, NEW CONSTANT due,
         Tallied(rows, ok, due), \A p \in DOMAIN rows : alarm'[p] = alarm[p]
  PROVE  Tallied(rows, ok, due)'
BY DEF Tallied, HowOften

LEMMA Bystander ==
  ASSUME NEW CONSTANT u \in AlarmTasks, NEW CONSTANT x, TaskFits(u, x),
         \A p \in Points : RowOf(p) \in x.locks => alarm'[p] = alarm[p],
         \A p \in Points : Device(p) \in x.locks /\ alarm[p].status = "NONE" => alarm'[p] = alarm[p],
         \A p \in Points : alarm[p].status # "NONE" => alarm'[p].status # "NONE",
         opened \subseteq opened', Nrs(opened'),
         Counter("WO") \in x.locks => opened' = opened
  PROVE  TaskFits(u, x)'
<1>1. x \in TxnRecord /\ x.rows \in Drafts /\ x.saved \in Saved /\ x.saved.rows \in Drafts
  BY DEF TaskFits, TxnRecord, Saved
<1>2. DraftFits(x.rows, x.new, x.locks)'
  BY <1>1, DraftStands DEF TaskFits
<1>3. \A p \in DOMAIN x.rows : alarm'[p] = alarm[p]
  BY <1>1, DraftRows DEF TaskFits, DraftFits
<1>4. ASSUME u \in Feeds
      PROVE  FeedFits(x)'
  <2> DEFINE due == IF x.step \in {"dedupe", "open"} THEN {Head(x.todo)} ELSE {}
  <2>0. FeedFits(x)
    BY <1>4 DEF TaskFits
  <2>1. Tallied(x.rows, x.ok, due)'
    BY <2>0, <1>1, <1>3, TallyStands DEF FeedFits
  <2>2. CASE x.step \in {"rule", "insert", "dedupe", "open"}
    <3>1. /\ x.saved.locks \subseteq x.locks /\ DraftFits(x.saved.rows, x.saved.new, x.saved.locks)
          /\ Tallied(x.saved.rows, x.ok, {}) /\ Device(Head(x.todo)) \in x.locks
          /\ x.todo # <<>> /\ x.saved.new \subseteq x.new
      BY <2>2, <2>0 DEF FeedFits
    <3>2. DraftFits(x.saved.rows, x.saved.new, x.saved.locks)'
      BY <3>1, <1>1, DraftStands
    <3>3. \A p \in DOMAIN x.saved.rows : alarm'[p] = alarm[p]
      BY <3>1, <1>1, DraftRows DEF DraftFits
    <3>4. Tallied(x.saved.rows, x.ok, {})'
      BY <3>1, <3>3, <1>1, TallyStands
    <3>5. Head(x.todo) \in Points
      BY <3>1, <1>1, TodoFacts DEF TxnRecord
    <3>6. x.step = "insert" =>
            Head(x.todo) \notin DOMAIN x.rows /\ alarm'[Head(x.todo)].status = "NONE"
      BY <3>1, <3>5, <2>0 DEF FeedFits
    <3>7. x.step \in {"dedupe", "open"} =>
            /\ Head(x.todo) \in DOMAIN x.rows /\ Head(x.todo) \in AutoOrder
            /\ x.rows[Head(x.todo)].status # "SUPPRESSED"
      BY <2>0 DEF FeedFits
    <3>8. (x.step = "idle" => x.todo = <<>>) /\ (\A o \in x.new : o.by = "rule")
            /\ x.step \in FeedSteps
      BY <2>0 DEF FeedFits
    <3> HIDE DEF due
    <3> QED BY <2>1, <3>1, <3>2, <3>4, <3>6, <3>7, <3>8 DEF FeedFits, Device, due
  <2>3. CASE x.step \notin {"rule", "insert", "dedupe", "open"}
    BY <2>3, <2>0, <2>1 DEF FeedFits
  <2> QED BY <2>2, <2>3
<1>5. ASSUME u \in Operators
      PROVE  OperatorFits(x)'
  <2>0. OperatorFits(x)
    BY <1>5 DEF TaskFits
  <2>1. Tallied(x.rows, x.ok, {})'
    BY <2>0, <1>1, <1>3, TallyStands DEF OperatorFits
  <2>2. \A i \in DOMAIN x.todo : alarm'[x.todo[i]].status # "NONE"
    <3>1. \A i \in DOMAIN x.todo : x.todo[i] \in Points
      BY <1>1 DEF TxnRecord
    <3> QED BY <3>1, <2>0 DEF OperatorFits
  <2>3. x.new # {} => opened' = opened
    BY DEF TaskFits, DraftFits
  <2>4. ASSUME NEW CONSTANT o \in x.new
        PROVE  Awaits(x, o)' <=> Awaits(x, o)
    BY <2>3 DEF Awaits
  <2> QED BY <2>0, <2>1, <2>2, <2>4 DEF OperatorFits
<1> QED BY <1>1, <1>2, <1>4, <1>5 DEF TaskFits

(* What fits a task goes on fitting it while nothing that is committed changes. *)
LEMMA FitsStill ==
  ASSUME UNCHANGED <<alarm, opened>>, NEW CONSTANT t \in AlarmTasks, NEW CONSTANT x, TaskFits(t, x)
  PROVE  TaskFits(t, x)'
<1>1. \A p, rec, fresh : Follows(p, rec, fresh) => Follows(p, rec, fresh)'
  BY DEF Follows
<1>2. \A rows, fresh, locks : DraftFits(rows, fresh, locks) => DraftFits(rows, fresh, locks)'
  <2> SUFFICES ASSUME NEW CONSTANT rows, NEW CONSTANT fresh, NEW CONSTANT locks,
                      DraftFits(rows, fresh, locks)
               PROVE  DraftFits(rows, fresh, locks)'
    OBVIOUS
  <2> QED BY <1>1 DEF DraftFits
<1>3. \A rows, ok, due : Tallied(rows, ok, due) => Tallied(rows, ok, due)'
  BY DEF Tallied
<1>4. \A o : Awaits(x, o)' <=> Awaits(x, o)
  BY DEF Awaits
<1>5. ASSUME FeedFits(x) PROVE FeedFits(x)'
  BY <1>2, <1>3, <1>5 DEF FeedFits
<1>6. ASSUME OperatorFits(x) PROVE OperatorFits(x)'
  BY <1>3, <1>4, <1>6 DEF OperatorFits
<1>7. x \in TxnRecord /\ DraftFits(x.rows, x.new, x.locks)
  BY DEF TaskFits
<1> QED
  BY <1>2, <1>5, <1>6, <1>7 DEF TaskFits

(* What a transaction becomes when it takes another step. *)
LEMMA StepWritten ==
  ASSUME NEW CONSTANT x \in TxnRecord, NEW CONSTANT step \in FeedSteps \cup OperatorSteps, NEW CONSTANT z,
         z = [x EXCEPT !.step = step]
  PROVE  /\ z \in TxnRecord /\ z.step = step /\ z.todo = x.todo /\ z.ok = x.ok /\ z.rows = x.rows
         /\ z.new = x.new /\ z.saved = x.saved /\ z.locks = x.locks /\ z.at = x.at
<1> USE DEF TxnRecord
<1>1. /\ z.step = step /\ z.todo = x.todo /\ z.ok = x.ok /\ z.rows = x.rows
      /\ z.new = x.new /\ z.saved = x.saved /\ z.locks = x.locks /\ z.at = x.at
  OBVIOUS
<1>2. z \in TxnRecord
  OBVIOUS
<1> QED
  BY <1>1, <1>2

(* What a transaction becomes when it writes rows. *)
LEMMA RowsWritten ==
  ASSUME NEW CONSTANT x \in TxnRecord, NEW CONSTANT rows \in Drafts, NEW CONSTANT z,
         z = [x EXCEPT !.rows = rows]
  PROVE  /\ z \in TxnRecord /\ z.step = x.step /\ z.todo = x.todo /\ z.ok = x.ok /\ z.rows = rows
         /\ z.new = x.new /\ z.saved = x.saved /\ z.locks = x.locks /\ z.at = x.at
<1> USE DEF TxnRecord
<1>1. /\ z.step = x.step /\ z.todo = x.todo /\ z.ok = x.ok /\ z.rows = rows
      /\ z.new = x.new /\ z.saved = x.saved /\ z.locks = x.locks /\ z.at = x.at
  OBVIOUS
<1>2. z \in TxnRecord
  OBVIOUS
<1> QED
  BY <1>1, <1>2

LEMMA TxnKeeps ==
  ASSUME AlarmInv, NEW CONSTANT t \in AlarmTasks, NEW CONSTANT new, TaskFits(t, new),
         txn' = [txn EXCEPT ![t] = new], used' \in 0..MaxUsed,
         UNCHANGED <<alarm, opened, ended, heard, clock>>,
         \A u \in AlarmTasks \ {t} : new.locks \cap txn[u].locks = {}
  PROVE  AlarmInv'
<1>1. new \in TxnRecord
  BY DEF TaskFits
<1>2. CommittedFits' /\ (ended \subseteq {o.nr : o \in opened})'
        /\ (used \in 0..MaxUsed /\ clock \in 0..AlarmMaxTime)'
  BY DEF AlarmInv, CommittedFits, AlarmsAreTrue
<1>3. txn' \in [AlarmTasks -> TxnRecord] /\ txn'[t] = new
        /\ \A u \in AlarmTasks \ {t} : txn'[u] = txn[u]
  BY <1>1 DEF AlarmInv
<1>4. ASSUME NEW CONSTANT u \in AlarmTasks, NEW CONSTANT x, TaskFits(u, x)
      PROVE  TaskFits(u, x)'
  BY <1>4, FitsStill
<1>5. \A u \in AlarmTasks : TaskFits(u, txn'[u])
  BY <1>3 DEF AlarmInv
<1>6. \A u \in AlarmTasks : TaskFits(u, txn[u])'
  <2> TAKE u \in AlarmTasks
  <2> PICK x : x = txn'[u]
    OBVIOUS
  <2>1. TaskFits(u, x)'
    BY <1>4, <1>5
  <2> QED BY <2>1
<1>7. \A v, u \in AlarmTasks : v # u => txn'[v].locks \cap txn'[u].locks = {}
  BY <1>3 DEF AlarmInv
<1> QED BY <1>2, <1>3, <1>6, <1>7 DEF AlarmInv

LEMMA DoKeeps ==
  ASSUME AlarmInv, NEW CONSTANT t \in AlarmTasks, NEW CONSTANT new, Do(t, new), TaskFits(t, new),
         \A u \in AlarmTasks \ {t} : new.locks \cap txn[u].locks = {}
  PROVE  AlarmInv'
<1>1. txn' = [txn EXCEPT ![t] = new] /\ UNCHANGED <<alarm, opened, ended, heard, clock>>
        /\ used' \in 0..MaxUsed
  BY DEF Do, Uncommitted, AlarmInv
<1> QED BY <1>1, TxnKeeps

LEMMA IdleKeeps ==
  ASSUME AlarmInv, NEW CONSTANT t \in AlarmTasks, Do(t, NoTxn)
  PROVE  AlarmInv'
<1>1. TaskFits(t, NoTxn) /\ NoTxn.locks = {}
  BY NoTxnFits DEF AlarmInv, NoTxn
<1> QED BY <1>1, DoKeeps

-----------------------------------------------------------------------------
(* Batches                                                                   *)

LEMMA TaskFacts ==
  ASSUME AlarmInv, NEW t \in AlarmTasks
  PROVE  /\ txn[t] \in TxnRecord /\ TaskFits(t, txn[t]) /\ CommittedFits
         /\ DraftFits(txn[t].rows, txn[t].new, txn[t].locks)
         /\ t \in Feeds => FeedFits(txn[t])
         /\ t \in Operators => OperatorFits(txn[t])
         /\ txn[t].rows \in Drafts /\ txn[t].new \in SUBSET WorkOrder
         /\ txn[t].todo \in Seq(Points) /\ txn[t].ok \in Seq(Points)
         /\ \A u \in AlarmTasks \ {t} : txn[t].locks \cap txn[u].locks = {}
BY DEF AlarmInv, TaskFits, TxnRecord

LEMMA TallyWith ==
  ASSUME CommittedFits, NEW rows \in Drafts, NEW ok \in Seq(Points), Tallied(rows, ok, {}),
         NEW p \in Points, NEW seen, seen = IF p \in DOMAIN rows THEN rows[p] ELSE alarm[p],
         NEW rec \in AlarmRow, rec.count = seen.count + 1
  PROVE  Tallied(With(rows, p, rec), ok, {p})
<1> DEFINE W == With(rows, p, rec)
<1>1. /\ DOMAIN W = DOMAIN rows \cup {p} /\ W[p] = rec
      /\ \A q \in DOMAIN rows : q # p => W[q] = rows[q]
  BY WithFacts
<1> HIDE DEF W
<1>2. HowOften(ok, p) \in Nat /\ alarm[p].count \in Nat
  BY HowOftenType DEF CommittedFits, AlarmRow
<1>3. W[p].count = alarm[p].count + HowOften(ok, p) + 1
  <2>1. CASE p \in DOMAIN rows
    BY <1>1, <1>2, <2>1 DEF Tallied
  <2>2. CASE p \notin DOMAIN rows
    BY <1>1, <1>2, <2>2 DEF Tallied
  <2> QED BY <2>1, <2>2
<1>4. ASSUME NEW q \in Points, q # p
      PROVE  IF q \in DOMAIN W
             THEN /\ W[q].count = alarm[q].count + HowOften(ok, q) + 0
                  /\ q \in AutoOrder /\ W[q].loud => W[q].order # 0
             ELSE HowOften(ok, q) = 0
  BY <1>1, <1>4 DEF Tallied
<1>5. Tallied(W, ok, {p})
  BY <1>1, <1>3, <1>4 DEF Tallied
<1> QED BY <1>5 DEF W

LEMMA AcceptedFits ==
  ASSUME CommittedFits, NEW g \in Feeds, NEW y \in TxnRecord, y.todo # <<>>,
         DraftFits(y.rows, y.new, y.locks), Tallied(y.rows, y.ok, {Head(y.todo)}),
         Head(y.todo) \in DOMAIN y.rows,
         Head(y.todo) \in AutoOrder /\ y.rows[Head(y.todo)].loud => y.rows[Head(y.todo)].order # 0,
         \A o \in y.new : o.by = "rule"
  PROVE  TaskFits(g, Accepted(y)) /\ Accepted(y).locks = y.locks
<1> DEFINE x == Accepted(y)
           p == Head(y.todo)
<1>1. p \in Points /\ Tail(y.todo) \in Seq(Points) /\ y.ok \in Seq(Points)
  BY TodoFacts DEF TxnRecord
<1>2. Append(y.ok, p) \in Seq(Points)
  BY <1>1, AppendProperties
<1>3. /\ x \in TxnRecord /\ x.step = "next" /\ x.todo = Tail(y.todo) /\ x.ok = Append(y.ok, p)
      /\ x.rows = y.rows /\ x.new = y.new /\ x.locks = y.locks
  BY <1>1, <1>2 DEF Accepted, TxnRecord, FeedSteps
<1>4. Tallied(x.rows, x.ok, {})
  <2> SUFFICES ASSUME NEW q \in Points
               PROVE  IF q \in DOMAIN x.rows
                      THEN /\ x.rows[q].count = alarm[q].count + HowOften(x.ok, q) + 0
                           /\ q \in AutoOrder /\ x.rows[q].loud => x.rows[q].order # 0
                      ELSE HowOften(x.ok, q) = 0
    BY DEF Tallied
  <2>1. HowOften(x.ok, q) = HowOften(y.ok, q) + (IF q = p THEN 1 ELSE 0)
    BY <1>1, <1>3, HowOftenAppend
  <2>2. HowOften(y.ok, q) \in Nat /\ alarm[q].count \in Nat
    BY <1>1, HowOftenType DEF CommittedFits, AlarmRow
  <2>3. IF q \in DOMAIN y.rows
        THEN /\ y.rows[q].count = alarm[q].count + HowOften(y.ok, q) + (IF q = p THEN 1 ELSE 0)
             /\ q \in AutoOrder /\ y.rows[q].loud => y.rows[q].order # 0 \/ q = p
        ELSE HowOften(y.ok, q) = 0
    BY DEF Tallied
  <2> HIDE DEF x, p
  <2>4. CASE q = p
    <3>1. q \in DOMAIN y.rows /\ (q \in AutoOrder /\ y.rows[q].loud => y.rows[q].order # 0)
      BY <2>4 DEF p
    <3>2. HowOften(x.ok, q) = HowOften(y.ok, q) + 1
      BY <2>1, <2>4
    <3>3. y.rows[q].count = alarm[q].count + HowOften(y.ok, q) + 1
      BY <2>3, <2>4, <3>1
    <3>4. x.rows[q].count = alarm[q].count + HowOften(x.ok, q) + 0
      BY <1>3, <2>2, <3>2, <3>3
    <3> QED BY <1>3, <3>1, <3>4
  <2>5. CASE q # p
    BY <1>3, <2>1, <2>2, <2>3, <2>5
  <2> QED BY <2>4, <2>5
<1> HIDE DEF x
<1>5. FeedFits(x)
  BY <1>3, <1>4 DEF FeedFits, FeedSteps
<1>6. TaskFits(g, x)
  BY <1>3, <1>5, AlarmAssumption DEF TaskFits
<1> QED BY <1>6, <1>3 DEF x

LEMMA IngestKeeps ==
  ASSUME AlarmInv, NEW CONSTANT g \in Feeds, NEW CONSTANT at \in 0..AlarmMaxTime, Ingest(g, at)
  PROVE  AlarmInv'
<1>1. g \in AlarmTasks /\ g \notin Operators
  BY AlarmAssumption DEF AlarmTasks
<1> PICK x : x = txn[g]
  OBVIOUS
<1> DEFINE p == Head(x.todo)
           safe == [rows |-> x.rows, new |-> x.new, locks |-> x.locks]
           y == [x EXCEPT !.step = "rule", !.at = at, !.saved = safe,
                          !.locks = @ \cup {Device(p)}]
<1>2. /\ x \in TxnRecord /\ CommittedFits /\ DraftFits(x.rows, x.new, x.locks) /\ FeedFits(x)
      /\ x.step = "next" /\ x.todo # <<>>
  BY <1>1, TaskFacts DEF Ingest, Busy
<1>3. p \in Points /\ Device(p) \in Locks
  BY <1>2, TodoFacts, LocksDiffer DEF TxnRecord
<1>4. Do(g, y) /\ ~HeldByOther(g, Device(p))
  BY DEF Ingest, Due
<1>11. safe \in Saved /\ at \in Nat
  BY <1>2, AlarmAssumption DEF TxnRecord, Saved
<1> HIDE DEF safe
<1>5. /\ y \in TxnRecord /\ y.step = "rule" /\ y.todo = x.todo /\ y.ok = x.ok
      /\ y.rows = x.rows /\ y.new = x.new /\ y.locks = x.locks \cup {Device(p)}
      /\ y.saved = safe
  BY <1>2, <1>3, <1>11 DEF TxnRecord, FeedSteps
<1> HIDE DEF y, p
<1> USE DEF safe
<1>6. DraftFits(y.rows, y.new, y.locks)
  <2>1. \A q : RowOf(q) # Device(p)
    BY LocksDiffer
  <2> QED BY <1>2, <1>5, <2>1, DraftLocks DEF DraftFits
<1>7. Tallied(x.rows, x.ok, {})
  BY <1>2 DEF FeedFits
<1>8. FeedFits(y)
  BY <1>2, <1>5, <1>7 DEF FeedFits, FeedSteps, p
<1>9. TaskFits(g, y)
  BY <1>1, <1>5, <1>6, <1>8 DEF TaskFits
<1>10. \A u \in AlarmTasks \ {g} : y.locks \cap txn[u].locks = {}
  BY <1>1, <1>4, <1>5, TaskFacts DEF HeldByOther
<1> QED BY <1>1, <1>4, <1>9, <1>10, DoKeeps

LEMMA RuleFacts ==
  ASSUME AlarmInv, NEW g \in Feeds, NEW x, x = txn[g],
         x.step \in {"rule", "insert", "dedupe", "open"}
  PROVE  /\ g \in AlarmTasks /\ g \notin Operators
         /\ x \in TxnRecord /\ x.rows \in Drafts /\ x.new \in SUBSET WorkOrder
         /\ x.todo \in Seq(Points) /\ x.todo # <<>> /\ x.ok \in Seq(Points) /\ x.at \in Nat
         /\ Head(x.todo) \in Points
         /\ CommittedFits /\ DraftFits(x.rows, x.new, x.locks) /\ FeedFits(x)
         /\ Device(Head(x.todo)) \in x.locks
         /\ Tallied(x.rows, x.ok, IF x.step \in {"dedupe", "open"} THEN {Head(x.todo)} ELSE {})
         /\ \A o \in x.new : o.by = "rule"
         /\ \A u \in AlarmTasks \ {g} : x.locks \cap txn[u].locks = {}
<1>1. g \in AlarmTasks /\ g \notin Operators
  BY AlarmAssumption DEF AlarmTasks
<1>2. x \in TxnRecord /\ FeedFits(x)
  BY <1>1, TaskFacts
<1> QED BY <1>1, <1>2, TaskFacts, TodoFacts DEF FeedFits, TxnRecord

(* A feed that goes on with the same reading keeps its savepoint.            *)
LEMMA FeedGoesOn ==
  ASSUME NEW g \in Feeds, NEW x, FeedFits(x), x.step \in {"rule", "insert", "dedupe", "open"},
         NEW y \in TxnRecord, y.step \in {"rule", "insert", "dedupe", "open"},
         y.todo = x.todo, y.ok = x.ok, y.saved = x.saved, x.locks \subseteq y.locks,
         x.new \subseteq y.new, \A o \in y.new : o.by = "rule",
         DraftFits(y.rows, y.new, y.locks),
         Tallied(y.rows, y.ok, IF y.step \in {"dedupe", "open"} THEN {Head(y.todo)} ELSE {}),
         y.step = "insert" => Head(y.todo) \notin DOMAIN y.rows /\ alarm[Head(y.todo)].status = "NONE",
         y.step \in {"dedupe", "open"} =>
           /\ Head(y.todo) \in DOMAIN y.rows /\ Head(y.todo) \in AutoOrder
           /\ y.rows[Head(y.todo)].status # "SUPPRESSED"
  PROVE  TaskFits(g, y)
<1>1. FeedFits(y)
  BY DEF FeedFits, FeedSteps
<1> QED BY <1>1, AlarmAssumption DEF TaskFits

LEMMA AwakeFits ==
  ASSUME CommittedFits, NEW p \in Points, NEW new, NEW rec \in AlarmRow, Follows(p, rec, new),
         NEW at \in Nat
  PROVE  /\ Counted(rec) \in AlarmRow /\ Counted(rec).count = rec.count + 1
         /\ Counted(rec).loud = rec.loud /\ Counted(rec).order = rec.order
         /\ Follows(p, Counted(rec), new)
         /\ ~Hushed(rec, at) =>
              /\ Awake(rec, at) \in AlarmRow /\ Awake(rec, at).count = rec.count + 1
              /\ Awake(rec, at).status # "SUPPRESSED" /\ Follows(p, Awake(rec, at), new)
<1>1. /\ Counted(rec) \in AlarmRow /\ Counted(rec).count = rec.count + 1
      /\ Counted(rec).loud = rec.loud /\ Counted(rec).order = rec.order
      /\ Counted(rec).status = rec.status /\ Counted(rec).until = rec.until
      /\ Counted(rec).woke = rec.woke
  BY DEF AlarmRow, Counted
<1>2. Follows(p, Counted(rec), new)
  BY <1>1 DEF Follows
<1>3. ASSUME ~Hushed(rec, at)
      PROVE  /\ Awake(rec, at) \in AlarmRow /\ Awake(rec, at).count = rec.count + 1
             /\ Awake(rec, at).status # "SUPPRESSED" /\ Follows(p, Awake(rec, at), new)
  <2> DEFINE w == Awake(rec, at)
  <2>1. CASE rec.status = "SUPPRESSED"
    <3>1. /\ w \in AlarmRow /\ w.count = rec.count + 1 /\ w.order = rec.order
          /\ w.status = "ACTIVE" /\ w.woke = at
      BY <1>1, <2>1 DEF AlarmRow, Awake
    <3>2. rec.until <= at
      BY <1>3, <2>1 DEF Hushed, AlarmRow
    <3>3. alarm[p].status = "SUPPRESSED" => at >= alarm[p].until
      BY <2>1, <3>2 DEF Follows
    <3> HIDE DEF w
    <3> QED BY <3>1, <3>3 DEF Follows, w
  <2>2. CASE rec.status # "SUPPRESSED"
    <3>1. /\ w \in AlarmRow /\ w.count = rec.count + 1 /\ w.order = rec.order
          /\ w.status = rec.status /\ w.woke = rec.woke
      BY <1>1, <2>2 DEF AlarmRow, Awake
    <3> HIDE DEF w
    <3> QED BY <3>1, <2>2 DEF Follows, w
  <2> QED BY <2>1, <2>2
<1> QED BY <1>1, <1>2, <1>3

(* Writing a row of a transaction.                                           *)
Put(x, p, rec) == [x EXCEPT !.rows = With(@, p, rec)]

LEMMA FindOpenKeeps ==
  ASSUME AlarmInv, NEW CONSTANT g \in Feeds, FindOpen(g)
  PROVE  AlarmInv'
<1>x. PICK x : x = txn[g]
  OBVIOUS
<1>p. PICK p : p = Head(x.todo)
  OBVIOUS
<1>rec. PICK rec : rec = Seen(g, p)
  OBVIOUS
<1>found. PICK found : found = IF rec.status = "NONE" THEN {} ELSE {RowOf(p)}
  OBVIOUS
<1>y. PICK y : y = [x EXCEPT !.locks = @ \cup found]
  OBVIOUS
<1>1. x.step = "rule" /\ RaiseAlarm(g, y, rec) /\ (found # {} => ~HeldByOther(g, RowOf(p)))
  BY <1>x, <1>p, <1>rec, <1>found, <1>y DEF FindOpen, Busy, Due
<1>2. /\ g \in AlarmTasks /\ g \notin Operators
      /\ x \in TxnRecord /\ x.rows \in Drafts /\ x.new \in SUBSET WorkOrder
      /\ x.todo \in Seq(Points) /\ x.todo # <<>> /\ x.ok \in Seq(Points) /\ x.at \in Nat
      /\ p \in Points /\ Device(p) \in x.locks /\ x.locks \subseteq Locks
      /\ CommittedFits /\ DraftFits(x.rows, x.new, x.locks) /\ FeedFits(x)
      /\ Tallied(x.rows, x.ok, {})
      /\ \A o \in x.new : o.by = "rule"
      /\ \A u \in AlarmTasks \ {g} : x.locks \cap txn[u].locks = {}
  BY <1>1, <1>x, <1>p, RuleFacts DEF TxnRecord
<1>3. rec = IF p \in DOMAIN x.rows THEN x.rows[p] ELSE alarm[p]
  BY <1>x, <1>rec DEF Seen
<1>4. /\ rec \in AlarmRow /\ (rec.status # "NONE" => Follows(p, rec, x.new))
      /\ (rec.status = "NONE" => p \notin DOMAIN x.rows)
  BY <1>2, <1>3, SeenFollows
<1>5. found \subseteq Locks
  BY <1>2, <1>found, LocksDiffer
<1>6. /\ y \in TxnRecord /\ y.step = "rule" /\ y.todo = x.todo /\ y.ok = x.ok /\ y.rows = x.rows
      /\ y.new = x.new /\ y.saved = x.saved /\ y.locks = x.locks \cup found /\ y.at = x.at
  BY <1>1, <1>2, <1>5, <1>y DEF TxnRecord
<1>7. DraftFits(y.rows, y.new, y.locks)
  <2>1. \A q : RowOf(q) \in found => q = p
    BY <1>found, LocksDiffer
  <2>2. \A q \in Points : RowOf(q) \in found => Device(q) \in x.locks \cup found
    BY <1>2, <2>1
  <2>3. DraftFits(x.rows, x.new, x.locks \cup found)
    BY <1>2, <2>2, DraftLocks
  <2> QED BY <1>6, <2>3
<1>8. \A u \in AlarmTasks \ {g} : y.locks \cap txn[u].locks = {}
  BY <1>1, <1>2, <1>6, <1>found DEF HeldByOther
<1>9. CASE rec.status = "NONE"
  <2> DEFINE z == [y EXCEPT !.step = "insert"]
  <2>1. Do(g, z)
    BY <1>1, <1>9 DEF RaiseAlarm
  <2>2. /\ z \in TxnRecord /\ z.step = "insert" /\ z.todo = x.todo /\ z.ok = x.ok /\ z.rows = x.rows
        /\ z.new = x.new /\ z.saved = x.saved /\ z.locks = y.locks
    BY <1>6 DEF TxnRecord, FeedSteps
  <2> HIDE DEF z
  <2>3. TaskFits(g, z)
    BY <1>1, <1>2, <1>3, <1>4, <1>6, <1>7, <1>9, <1>p, <2>2, FeedGoesOn
  <2> QED BY <1>2, <1>8, <2>1, <2>2, <2>3, DoKeeps
<1>10. ASSUME rec.status # "NONE", NEW CONSTANT w \in AlarmRow, Follows(p, w, x.new),
              w.count = rec.count + 1
       PROVE  /\ Put(y, p, w) \in TxnRecord /\ Put(y, p, w).step = "rule"
              /\ Put(y, p, w).todo = x.todo /\ Put(y, p, w).ok = x.ok
              /\ Put(y, p, w).new = x.new /\ Put(y, p, w).saved = x.saved
              /\ Put(y, p, w).locks = y.locks
              /\ Put(y, p, w).rows[p] = w /\ p \in DOMAIN Put(y, p, w).rows
              /\ DraftFits(Put(y, p, w).rows, Put(y, p, w).new, Put(y, p, w).locks)
              /\ Tallied(Put(y, p, w).rows, Put(y, p, w).ok, {p})
  <2>z. PICK z : z = Put(y, p, w)
    OBVIOUS
  <2>W. PICK W : W = With(x.rows, p, w)
    OBVIOUS
  <2>0. x.rows \in Drafts /\ p \in Points
    BY <1>2
  <2>1. W \in Drafts /\ W[p] = w /\ p \in DOMAIN W
    <3>1. /\ With(x.rows, p, w) \in Drafts /\ With(x.rows, p, w)[p] = w
          /\ DOMAIN With(x.rows, p, w) = DOMAIN x.rows \cup {p}
      BY <2>0, WithFacts
    <3> QED BY <3>1, <2>W
  <2>2. /\ z \in TxnRecord /\ z.step = "rule" /\ z.todo = x.todo /\ z.ok = x.ok
        /\ z.new = x.new /\ z.saved = x.saved /\ z.locks = y.locks /\ z.rows = W
    <3>1. y \in TxnRecord /\ y.rows = x.rows
      BY <1>6
    <3>2. z = [y EXCEPT !.rows = W]
      BY <2>z, <2>W, <3>1 DEF Put, TxnRecord
    <3>3. /\ z \in TxnRecord /\ z.step = y.step /\ z.todo = y.todo /\ z.ok = y.ok /\ z.rows = W
          /\ z.new = y.new /\ z.saved = y.saved /\ z.locks = y.locks
      BY <2>1, <3>1, <3>2, RowsWritten
    <3> QED BY <1>6, <3>3
  <2>3. RowOf(p) \in y.locks
    BY <1>6, <1>10, <1>found
  <2>4. DraftFits(W, y.new, y.locks)
    BY <1>2, <1>6, <1>7, <1>10, <2>W, <2>3, DraftWrites
  <2>5. Tallied(W, x.ok, {p})
    BY <1>2, <1>3, <1>10, <2>W, TallyWith
  <2>6. /\ z \in TxnRecord /\ z.step = "rule" /\ z.todo = x.todo /\ z.ok = x.ok
        /\ z.new = x.new /\ z.saved = x.saved /\ z.locks = y.locks
        /\ z.rows[p] = w /\ p \in DOMAIN z.rows
        /\ DraftFits(z.rows, z.new, z.locks) /\ Tallied(z.rows, z.ok, {p})
    <3>1. y.new = x.new
      BY <1>6
    <3>2. DraftFits(z.rows, z.new, z.locks)
      BY <2>2, <2>4, <3>1
    <3>3. Tallied(z.rows, z.ok, {p})
      BY <2>2, <2>5
    <3>4. z.rows[p] = w /\ p \in DOMAIN z.rows
      BY <2>1, <2>2
    <3> QED BY <2>2, <3>2, <3>3, <3>4
  <2> QED BY <2>6, <2>z
<1>11. CASE rec.status # "NONE" /\ Hushed(rec, x.at)
  <2>z. PICK z : z = Put(y, p, Counted(rec))
    OBVIOUS
  <2>1. Do(g, Accepted(z))
    BY <1>1, <1>6, <1>11, <1>x, <1>p, <2>z DEF RaiseAlarm, Due, Put
  <2>2. /\ Counted(rec) \in AlarmRow /\ Follows(p, Counted(rec), x.new)
        /\ Counted(rec).count = rec.count + 1
        /\ Counted(rec).loud = rec.loud /\ Counted(rec).order = rec.order
    <3>1. /\ CommittedFits /\ p \in Points /\ rec \in AlarmRow /\ Follows(p, rec, x.new) /\ x.at \in Nat
      BY <1>2, <1>4, <1>11
    <3> QED BY <3>1, AwakeFits
  <2>3. /\ z \in TxnRecord /\ z.todo = x.todo /\ z.new = x.new /\ z.locks = y.locks
        /\ z.rows[p] = Counted(rec) /\ p \in DOMAIN z.rows
        /\ DraftFits(z.rows, z.new, z.locks) /\ Tallied(z.rows, z.ok, {p})
    <3>w. PICK w : w = Counted(rec)
      OBVIOUS
    <3>1. w \in AlarmRow /\ Follows(p, w, x.new) /\ w.count = rec.count + 1
      BY <2>2, <3>w
    <3>2. z = Put(y, p, w) /\ rec.status # "NONE"
      BY <1>11, <2>z, <3>w
    <3> QED BY <1>10, <3>1, <3>2, <3>w
  <2>4. p \in AutoOrder /\ rec.loud => rec.order # 0
    BY <1>2, <1>3 DEF Tallied, CommittedFits, AlarmsAreTrue
  <2>5. TaskFits(g, Accepted(z)) /\ Accepted(z).locks = y.locks
    <3>1. z.todo # <<>> /\ Head(z.todo) = p /\ (\A o \in z.new : o.by = "rule")
      BY <1>2, <1>p, <2>3
    <3>2. p \in AutoOrder /\ z.rows[p].loud => z.rows[p].order # 0
      BY <2>2, <2>3, <2>4
    <3> QED BY <1>2, <2>3, <3>1, <3>2, AcceptedFits
  <2> QED BY <1>2, <1>8, <2>1, <2>5, DoKeeps
<1>12. CASE rec.status # "NONE" /\ ~Hushed(rec, x.at)
  <2>z. PICK z : z = Put(y, p, Awake(rec, x.at))
    OBVIOUS
  <2>1. Do(g, IF p \in AutoOrder THEN [z EXCEPT !.step = "dedupe"] ELSE Accepted(z))
    BY <1>1, <1>6, <1>12, <1>x, <1>p, <2>z DEF RaiseAlarm, Due, Put
  <2>2. /\ Awake(rec, x.at) \in AlarmRow /\ Follows(p, Awake(rec, x.at), x.new)
        /\ Awake(rec, x.at).count = rec.count + 1 /\ Awake(rec, x.at).status # "SUPPRESSED"
    <3>1. Follows(p, rec, x.new) /\ rec \in AlarmRow
      BY <1>4, <1>12
    <3>2. CommittedFits /\ p \in Points /\ x.at \in Nat
      BY <1>2
    <3>3. ~Hushed(rec, x.at)
      BY <1>12
    <3> QED BY <3>1, <3>2, <3>3, AwakeFits
  <2>3. /\ z \in TxnRecord /\ z.step = "rule" /\ z.todo = x.todo /\ z.ok = x.ok
        /\ z.new = x.new /\ z.saved = x.saved /\ z.locks = y.locks
        /\ z.rows[p] = Awake(rec, x.at) /\ p \in DOMAIN z.rows
        /\ DraftFits(z.rows, z.new, z.locks) /\ Tallied(z.rows, z.ok, {p})
    <3>1. PICK w : w = Awake(rec, x.at)
      OBVIOUS
    <3>2. w \in AlarmRow /\ Follows(p, w, x.new) /\ w.count = rec.count + 1
      BY <2>2, <3>1
    <3>3. z = Put(y, p, w) /\ rec.status # "NONE"
      BY <1>12, <2>z, <3>1
    <3>4. /\ z \in TxnRecord /\ z.step = "rule" /\ z.todo = x.todo /\ z.ok = x.ok
          /\ z.new = x.new /\ z.saved = x.saved /\ z.locks = y.locks
          /\ z.rows[p] = w /\ p \in DOMAIN z.rows
          /\ DraftFits(z.rows, z.new, z.locks) /\ Tallied(z.rows, z.ok, {p})
      BY <1>10, <3>2, <3>3
    <3> QED BY <3>1, <3>4
  <2>4. CASE p \in AutoOrder
    <3> DEFINE v == [z EXCEPT !.step = "dedupe"]
    <3>1. /\ v \in TxnRecord /\ v.step = "dedupe" /\ v.todo = x.todo /\ v.ok = x.ok /\ v.rows = z.rows
          /\ v.new = x.new /\ v.saved = x.saved /\ v.locks = y.locks
      <4>1. PICK s : s = "dedupe"
        OBVIOUS
      <4>2. s \in FeedSteps \cup OperatorSteps /\ v = [z EXCEPT !.step = s]
        BY <4>1 DEF FeedSteps
      <4> HIDE DEF v
      <4>3. z \in TxnRecord
        BY <2>3
      <4>5. x.todo = z.todo /\ x.ok = z.ok /\ x.new = z.new /\ x.saved = z.saved /\ y.locks = z.locks
        BY <2>3
      <4>4. /\ v \in TxnRecord /\ v.step = s /\ v.todo = z.todo /\ v.ok = z.ok /\ v.rows = z.rows
            /\ v.new = z.new /\ v.saved = z.saved /\ v.locks = z.locks
        BY <4>2, <4>3, StepWritten
      <4> QED BY <4>1, <4>4, <4>5
    <3>2. Do(g, v)
      BY <2>1, <2>4
    <3> HIDE DEF v
    <3>3. TaskFits(g, v)
      <4>1. PICK c : c = Head(x.todo) /\ c = p
        BY <1>p
      <4>2. /\ x.locks \subseteq v.locks /\ x.new \subseteq v.new /\ \A o \in v.new : o.by = "rule"
            /\ DraftFits(v.rows, v.new, v.locks) /\ Tallied(v.rows, v.ok, {Head(v.todo)})
        BY <1>2, <1>6, <2>3, <3>1, <4>1
      <4>3. /\ Head(v.todo) \in DOMAIN v.rows /\ Head(v.todo) \in AutoOrder
            /\ v.rows[Head(v.todo)].status # "SUPPRESSED"
        BY <2>2, <2>3, <2>4, <3>1, <4>1
      <4>4. FeedFits(x) /\ x.step \in {"rule", "insert", "dedupe", "open"} /\ g \in Feeds
        BY <1>1, <1>2
      <4>5. v \in TxnRecord /\ v.step = "dedupe" /\ v.todo = x.todo /\ v.ok = x.ok /\ v.saved = x.saved
        BY <3>1
      <4> QED BY <4>2, <4>3, <4>4, <4>5, FeedGoesOn
    <3> QED BY <1>2, <1>8, <3>1, <3>2, <3>3, DoKeeps
  <2>5. CASE p \notin AutoOrder
    <3>1. TaskFits(g, Accepted(z)) /\ Accepted(z).locks = y.locks
      BY <1>2, <1>p, <2>3, <2>5, AcceptedFits
    <3> QED BY <1>2, <1>8, <2>1, <2>5, <3>1, DoKeeps
  <2> QED BY <2>4, <2>5
<1> QED BY <1>9, <1>11, <1>12

LEMMA InsertAlarmKeeps ==
  ASSUME AlarmInv, NEW CONSTANT g \in Feeds, InsertAlarm(g)
  PROVE  AlarmInv'
<1>x. PICK x : x = txn[g]
  OBVIOUS
<1>p. PICK p : p = Head(x.todo)
  OBVIOUS
<1>w. PICK w : w = [NoAlarm EXCEPT !.status = "ACTIVE", !.count = 1, !.loud = TRUE]
  OBVIOUS
<1>W. PICK W : W = With(x.rows, p, w)
  OBVIOUS
<1>m. PICK more : more = {RowOf(p), Counter("AL")}
  OBVIOUS
<1>y. PICK y : y = [x EXCEPT !.rows = W, !.locks = @ \cup more]
  OBVIOUS
<1>1. /\ x.step = "insert" /\ ~HeldByOther(g, Counter("AL"))
      /\ Do(g, IF p \in AutoOrder THEN [y EXCEPT !.step = "dedupe"] ELSE Accepted(y))
  BY <1>x, <1>p, <1>w, <1>W, <1>m, <1>y DEF InsertAlarm, Busy, Due
<1>2. /\ g \in AlarmTasks /\ g \notin Operators
      /\ x \in TxnRecord /\ x.rows \in Drafts /\ x.new \in SUBSET WorkOrder
      /\ x.todo \in Seq(Points) /\ x.todo # <<>> /\ x.ok \in Seq(Points) /\ x.at \in Nat
      /\ p \in Points /\ Device(p) \in x.locks /\ x.locks \subseteq Locks
      /\ CommittedFits /\ DraftFits(x.rows, x.new, x.locks) /\ FeedFits(x)
      /\ Tallied(x.rows, x.ok, {})
      /\ \A o \in x.new : o.by = "rule"
      /\ \A u \in AlarmTasks \ {g} : x.locks \cap txn[u].locks = {}
  BY <1>1, <1>x, <1>p, RuleFacts DEF TxnRecord
<1>3. p \notin DOMAIN x.rows /\ alarm[p].status = "NONE"
  BY <1>1, <1>2, <1>p DEF FeedFits
<1>4. alarm[p] = NoAlarm
  BY <1>2, <1>3 DEF CommittedFits
<1>5. /\ w \in AlarmRow /\ w.status = "ACTIVE" /\ w.count = 1 /\ w.order = 0
  BY <1>w DEF AlarmRow, NoAlarm
<1>6. Follows(p, w, x.new)
  BY <1>4, <1>5 DEF Follows, NoAlarm
<1>7. w.count = alarm[p].count + 1
  BY <1>4, <1>5 DEF NoAlarm
<1>8. x.rows \in Drafts /\ p \in Points
  BY <1>2
<1>9. /\ With(x.rows, p, w) \in Drafts /\ With(x.rows, p, w)[p] = w
      /\ DOMAIN With(x.rows, p, w) = DOMAIN x.rows \cup {p}
  BY <1>5, <1>8, WithFacts
<1>10. W \in Drafts /\ W[p] = w /\ p \in DOMAIN W
  BY <1>9, <1>W
<1>11. more \subseteq Locks
  BY <1>2, <1>m, LocksDiffer
<1>12. /\ y \in TxnRecord /\ y.step = "insert" /\ y.todo = x.todo /\ y.ok = x.ok /\ y.rows = W
       /\ y.new = x.new /\ y.saved = x.saved /\ y.locks = x.locks \cup more
  BY <1>1, <1>2, <1>y, <1>10, <1>11 DEF TxnRecord
<1>13. DraftFits(y.rows, y.new, y.locks)
  <2>1. \A q \in Points : RowOf(q) \in more => Device(q) \in x.locks \cup more
    BY <1>2, <1>m, LocksDiffer
  <2>2. DraftFits(x.rows, x.new, x.locks \cup more)
    BY <1>2, <2>1, DraftLocks
  <2>3. RowOf(p) \in x.locks \cup more
    BY <1>m
  <2>4. DraftFits(With(x.rows, p, w), x.new, x.locks \cup more)
    BY <1>5, <1>6, <1>8, <2>2, <2>3, DraftWrites
  <2> QED BY <1>12, <1>W, <2>4
<1>14. Tallied(y.rows, y.ok, {p})
  <2>1. Tallied(With(x.rows, p, w), x.ok, {p})
    BY <1>2, <1>3, <1>5, <1>7, TallyWith
  <2> QED BY <1>12, <1>W, <2>1
<1>15. \A u \in AlarmTasks \ {g} : y.locks \cap txn[u].locks = {}
  <2> TAKE u \in AlarmTasks \ {g}
  <2>1. RowOf(p) \notin txn[u].locks
    <3>1. DraftFits(txn[u].rows, txn[u].new, txn[u].locks)
      BY TaskFacts
    <3> QED BY <1>2, <1>3, <3>1 DEF DraftFits
  <2>2. Counter("AL") \notin txn[u].locks
    BY <1>1 DEF HeldByOther
  <2> QED BY <1>2, <1>12, <1>m, <2>1, <2>2
<1>16. CASE p \in AutoOrder
  <2>z. PICK z : z = [y EXCEPT !.step = "dedupe"]
    OBVIOUS
  <2>1. /\ z \in TxnRecord /\ z.step = "dedupe" /\ z.todo = x.todo /\ z.ok = x.ok /\ z.rows = y.rows
        /\ z.new = x.new /\ z.saved = x.saved /\ z.locks = y.locks
    BY <1>12, <2>z DEF TxnRecord, FeedSteps
  <2>2. Head(z.todo) \in DOMAIN z.rows /\ z.rows[Head(z.todo)].status # "SUPPRESSED"
    BY <1>5, <1>10, <1>12, <1>p, <2>1
  <2>3. Tallied(z.rows, z.ok, {Head(z.todo)}) /\ DraftFits(z.rows, z.new, z.locks)
    BY <1>12, <1>13, <1>14, <1>p, <2>1
  <2>4. TaskFits(g, z)
    BY <1>1, <1>2, <1>12, <1>16, <1>p, <2>1, <2>2, <2>3, FeedGoesOn
  <2>5. Do(g, z)
    BY <1>1, <1>16, <2>z
  <2> QED BY <1>2, <1>15, <2>1, <2>4, <2>5, DoKeeps
<1>17. CASE p \notin AutoOrder
  <2>1. y.todo # <<>> /\ Head(y.todo) = p /\ (\A o \in y.new : o.by = "rule") /\ p \in DOMAIN y.rows
    BY <1>2, <1>10, <1>12, <1>p
  <2>2. TaskFits(g, Accepted(y)) /\ Accepted(y).locks = y.locks
    BY <1>2, <1>12, <1>13, <1>14, <1>17, <2>1, AcceptedFits
  <2> QED BY <1>1, <1>2, <1>15, <1>17, <2>2, DoKeeps
<1> QED BY <1>16, <1>17

LEMMA LinkedFits ==
  ASSUME CommittedFits, NEW p \in Points, NEW new, NEW rec \in AlarmRow, Follows(p, rec, new),
         NEW o \in opened \cup new, o \in WorkOrder, AssetOf[o.of] = AssetOf[p]
  PROVE  /\ Linked(rec, o.nr) \in AlarmRow /\ Follows(p, Linked(rec, o.nr), new)
         /\ Linked(rec, o.nr).order # 0 /\ Linked(rec, o.nr).count = rec.count
         /\ Linked(rec, o.nr).status = rec.status
<1>w. PICK w : w = Linked(rec, o.nr)
  OBVIOUS
<1>1. o.nr \in Nat /\ o.nr # 0
  BY DEF WorkOrder
<1>2. CASE rec.order = 0
  <2>1. /\ w \in AlarmRow /\ w.order = o.nr /\ w.count = rec.count /\ w.status = rec.status
        /\ w.until = rec.until /\ w.woke = rec.woke
    BY <1>1, <1>2, <1>w DEF AlarmRow, Linked
  <2>2. Follows(p, w, new)
    BY <1>2, <2>1 DEF Follows
  <2> QED BY <1>1, <1>w, <2>1, <2>2
<1>3. CASE rec.order # 0
  BY <1>3 DEF Linked
<1> QED BY <1>2, <1>3

(* Linking the row that is pending, and accepting the reading.               *)
Links(x, new, locks, nr) ==
  [x EXCEPT !.new = new, !.locks = locks,
            !.rows = With(x.rows, Head(x.todo), Linked(x.rows[Head(x.todo)], nr))]
MayLink(g, x, new, locks, o) ==
  /\ x = txn[g] /\ x.step \in {"dedupe", "open"}
  /\ new \in SUBSET WorkOrder /\ locks \in SUBSET Locks /\ x.new \subseteq new
  /\ (\A q \in new : q.by = "rule") /\ DraftFits(x.rows, new, locks)
  /\ o \in opened \cup new /\ AssetOf[o.of] = AssetOf[Head(x.todo)]
LEMMA LinkAccepts ==
  ASSUME AlarmInv, NEW CONSTANT g \in Feeds, NEW CONSTANT x, NEW CONSTANT new, NEW CONSTANT locks,
         NEW CONSTANT o, MayLink(g, x, new, locks, o)
  PROVE  /\ TaskFits(g, Accepted(Links(x, new, locks, o.nr)))
         /\ Accepted(Links(x, new, locks, o.nr)).locks = locks
<1>y. PICK y : y = Links(x, new, locks, o.nr)
  OBVIOUS
<1>p. PICK p : p = Head(x.todo)
  OBVIOUS
<1>0. /\ x = txn[g] /\ x.step \in {"dedupe", "open"}
      /\ new \in SUBSET WorkOrder /\ locks \in SUBSET Locks /\ x.new \subseteq new
      /\ (\A q \in new : q.by = "rule") /\ DraftFits(x.rows, new, locks)
      /\ o \in opened \cup new /\ AssetOf[o.of] = AssetOf[p]
  BY <1>p DEF MayLink
<1>1. /\ g \in AlarmTasks
      /\ x \in TxnRecord /\ x.rows \in Drafts /\ x.todo # <<>> /\ p \in Points
      /\ CommittedFits /\ FeedFits(x) /\ Tallied(x.rows, x.ok, {p})
  BY <1>0, <1>p, RuleFacts
<1>2. p \in DOMAIN x.rows
  BY <1>0, <1>1, <1>p DEF FeedFits
<1>3. x.rows[p] \in AlarmRow /\ Follows(p, x.rows[p], new) /\ RowOf(p) \in locks
  BY <1>0, <1>1, <1>2, DraftRows DEF DraftFits
<1>4. o \in WorkOrder /\ AssetOf[o.of] = AssetOf[p]
  BY <1>0, <1>1, <1>p DEF CommittedFits
<1>w. PICK w : w = Linked(x.rows[p], o.nr)
  OBVIOUS
<1>5. /\ w \in AlarmRow /\ Follows(p, w, new) /\ w.order # 0
      /\ w.count = x.rows[p].count
  BY <1>0, <1>1, <1>3, <1>4, <1>w, LinkedFits
<1>W. PICK W : W = With(x.rows, p, w)
  OBVIOUS
<1>6. /\ With(x.rows, p, w) \in Drafts /\ With(x.rows, p, w)[p] = w
      /\ DOMAIN With(x.rows, p, w) = DOMAIN x.rows \cup {p}
      /\ \A q \in DOMAIN x.rows : q # p => With(x.rows, p, w)[q] = x.rows[q]
  <2>1. x.rows \in Drafts /\ p \in Points /\ w \in AlarmRow
    BY <1>1, <1>5
  <2> QED BY <2>1, WithFacts
<1>7. /\ W \in Drafts /\ W[p] = w /\ DOMAIN W = DOMAIN x.rows
      /\ \A q \in DOMAIN x.rows : q # p => W[q] = x.rows[q]
  BY <1>2, <1>6, <1>W
<1>8. DraftFits(W, new, locks)
  <2>1. DraftFits(With(x.rows, p, w), new, locks)
    BY <1>0, <1>1, <1>3, <1>5, DraftWrites
  <2> QED BY <2>1, <1>W
<1>9. Tallied(W, x.ok, {p})
  <2>1. W[p].count = x.rows[p].count
    BY <1>5, <1>7
  <2> QED BY <1>1, <1>2, <1>7, <2>1 DEF Tallied
<1>10. /\ y \in TxnRecord /\ y.todo = x.todo /\ y.ok = x.ok /\ y.rows = W
       /\ y.new = new /\ y.locks = locks
  BY <1>0, <1>1, <1>p, <1>w, <1>W, <1>y, <1>7 DEF TxnRecord, Links
<1>11. /\ y.todo # <<>> /\ Head(y.todo) = p /\ y.rows[p].order # 0 /\ p \in DOMAIN y.rows
       /\ \A q \in y.new : q.by = "rule"
  BY <1>0, <1>1, <1>2, <1>5, <1>7, <1>10, <1>p
<1>12. DraftFits(y.rows, y.new, y.locks) /\ Tallied(y.rows, y.ok, {p})
  BY <1>8, <1>9, <1>10
<1> QED BY <1>1, <1>y, <1>10, <1>11, <1>12, AcceptedFits

LEMMA DedupeKeeps ==
  ASSUME AlarmInv, NEW CONSTANT g \in Feeds, Dedupe(g)
  PROVE  AlarmInv'
<1>x. PICK x : x = txn[g]
  OBVIOUS
<1>p. PICK p : p = Head(x.todo)
  OBVIOUS
<1>1. x.step = "dedupe"
  BY <1>x DEF Dedupe, Busy
<1>2. /\ g \in AlarmTasks /\ x \in TxnRecord /\ x.todo # <<>> /\ x.locks \in SUBSET Locks
      /\ x.new \in SUBSET WorkOrder /\ FeedFits(x) /\ DraftFits(x.rows, x.new, x.locks)
      /\ Tallied(x.rows, x.ok, {p}) /\ (\A o \in x.new : o.by = "rule")
      /\ \A u \in AlarmTasks \ {g} : x.locks \cap txn[u].locks = {}
  BY <1>1, <1>x, <1>p, RuleFacts DEF TxnRecord
<1>3. CASE Do(g, [x EXCEPT !.step = "open"])
  <2>y. PICK y : y = [x EXCEPT !.step = "open"]
    OBVIOUS
  <2>1. /\ y \in TxnRecord /\ y.step = "open" /\ y.todo = x.todo /\ y.ok = x.ok /\ y.rows = x.rows
        /\ y.new = x.new /\ y.saved = x.saved /\ y.locks = x.locks
    BY <1>2, <2>y DEF TxnRecord, FeedSteps
  <2>2. Head(y.todo) \in DOMAIN y.rows /\ Head(y.todo) \in AutoOrder
          /\ y.rows[Head(y.todo)].status # "SUPPRESSED"
    BY <1>1, <1>2, <2>1 DEF FeedFits
  <2>3. Tallied(y.rows, y.ok, {Head(y.todo)}) /\ DraftFits(y.rows, y.new, y.locks)
    BY <1>2, <1>p, <2>1
  <2>4. TaskFits(g, y)
    BY <1>1, <1>2, <2>1, <2>2, <2>3, FeedGoesOn
  <2> QED BY <1>2, <1>3, <2>y, <2>1, <2>4, DoKeeps
<1>4. ASSUME NEW CONSTANT o \in Recent(g, p),
             Do(g, Accepted([x EXCEPT !.rows = With(@, p, Linked(@[p], o.nr))]))
      PROVE  AlarmInv'
  <2>y. PICK y : y = [x EXCEPT !.new = x.new, !.locks = x.locks,
                               !.rows = With(x.rows, p, Linked(x.rows[p], o.nr))]
    OBVIOUS
  <2>1. y = [x EXCEPT !.rows = With(@, p, Linked(@[p], o.nr))]
    BY <1>2, <2>y DEF TxnRecord
  <2>2. o \in opened \cup x.new /\ AssetOf[o.of] = AssetOf[p]
    BY <1>4, <1>x DEF Recent, Visible
  <2>3. TaskFits(g, Accepted(y)) /\ Accepted(y).locks = x.locks
    <3>1. y = Links(x, x.new, x.locks, o.nr)
      BY <1>p, <2>y DEF Links
    <3>2. o \in opened \cup x.new /\ AssetOf[o.of] = AssetOf[Head(x.todo)]
      BY <1>p, <2>2
    <3>3. x.step \in {"dedupe", "open"} /\ x.new \in SUBSET WorkOrder /\ x.locks \in SUBSET Locks
            /\ DraftFits(x.rows, x.new, x.locks) /\ (\A q \in x.new : q.by = "rule")
      BY <1>1, <1>2
    <3>4. PICK new, locks : new = x.new /\ locks = x.locks
      OBVIOUS
    <3>5. /\ new \in SUBSET WorkOrder /\ locks \in SUBSET Locks /\ x.new \subseteq new
          /\ (\A q \in new : q.by = "rule") /\ DraftFits(x.rows, new, locks)
          /\ o \in opened \cup new
      BY <3>2, <3>3, <3>4
    <3>6. /\ TaskFits(g, Accepted(Links(x, new, locks, o.nr)))
          /\ Accepted(Links(x, new, locks, o.nr)).locks = locks
      <4>1. PICK r : r = o
        OBVIOUS
      <4>2. r \in opened \cup new /\ AssetOf[r.of] = AssetOf[Head(x.todo)]
        BY <3>2, <3>5, <4>1
      <4>3. x.step \in {"dedupe", "open"}
        BY <3>3
      <4>4. /\ TaskFits(g, Accepted(Links(x, new, locks, r.nr)))
            /\ Accepted(Links(x, new, locks, r.nr)).locks = locks
        <5>1. MayLink(g, x, new, locks, r)
          BY <1>x, <3>5, <4>2, <4>3 DEF MayLink
        <5> QED BY <5>1, LinkAccepts
      <4> QED BY <4>1, <4>4
    <3> QED BY <3>1, <3>4, <3>6
  <2> QED BY <1>2, <1>4, <2>1, <2>3, DoKeeps
<1> QED BY <1>x, <1>p, <1>3, <1>4 DEF Dedupe, Due

LEMMA OpenOrderKeeps ==
  ASSUME AlarmInv, NEW CONSTANT g \in Feeds, OpenOrder(g)
  PROVE  AlarmInv'
<1>x. PICK x : x = txn[g]
  OBVIOUS
<1>p. PICK p : p = Head(x.todo)
  OBVIOUS
<1>o. PICK o : o = [nr |-> NextNr(g), of |-> p, by |-> "rule", born |-> clock]
  OBVIOUS
<1>n. PICK new : new = x.new \cup {o}
  OBVIOUS
<1>l. PICK locks : locks = x.locks \cup {Counter("WO")}
  OBVIOUS
<1>y. PICK y : y = [x EXCEPT !.new = new, !.locks = locks,
                             !.rows = With(x.rows, p, Linked(x.rows[p], o.nr))]
  OBVIOUS
<1>1. x.step = "open" /\ ~HeldByOther(g, Counter("WO"))
  BY <1>x DEF OpenOrder, Busy
<1>2. /\ g \in AlarmTasks /\ x \in TxnRecord /\ x.rows \in Drafts /\ x.todo # <<>>
      /\ x.locks \in SUBSET Locks /\ p \in Points
      /\ x.new \in SUBSET WorkOrder /\ FeedFits(x) /\ DraftFits(x.rows, x.new, x.locks)
      /\ CommittedFits /\ (\A q \in x.new : q.by = "rule")
      /\ \A u \in AlarmTasks \ {g} : x.locks \cap txn[u].locks = {}
  BY <1>1, <1>x, <1>p, RuleFacts DEF TxnRecord
<1>3. Do(g, Accepted(y))
  <2>1. Do(g, Accepted([x EXCEPT !.new = @ \cup {o}, !.locks = @ \cup {Counter("WO")},
                                 !.rows = With(@, p, Linked(@[p], o.nr))]))
    BY <1>x, <1>p, <1>o DEF OpenOrder, Due
  <2> QED BY <2>1, <1>n, <1>l, <1>y
<1>4. NextNr(g) = Cardinality(opened \cup x.new) + 1 /\ NextNr(g) \in Nat \ {0}
  <2>1. IsFiniteSet(opened \cup x.new)
    BY <1>2, FS_Union DEF CommittedFits, DraftFits
  <2> QED BY <2>1, <1>x, FS_CardinalityType DEF NextNr, Visible
<1>5. /\ o \in WorkOrder /\ o.nr = Cardinality(opened \cup x.new) + 1 /\ o.of = p /\ o.by = "rule"
  BY <1>2, <1>4, <1>o DEF WorkOrder, AlarmInv
<1>6. p \in DOMAIN x.rows /\ x.rows[p].status # "SUPPRESSED"
  BY <1>1, <1>2, <1>p DEF FeedFits
<1>7. DraftFits(x.rows, new, locks)
  BY <1>2, <1>5, <1>6, <1>n, <1>l, DraftOrders
<1>8. new \in SUBSET WorkOrder /\ locks \in SUBSET Locks /\ x.new \subseteq new
        /\ (\A q \in new : q.by = "rule") /\ o \in opened \cup new /\ AssetOf[o.of] = AssetOf[p]
  BY <1>2, <1>5, <1>n, <1>l, LocksDiffer
<1>9. TaskFits(g, Accepted(y)) /\ Accepted(y).locks = locks
  <2>1. y = Links(x, new, locks, o.nr)
    BY <1>p, <1>y DEF Links
  <2>2. AssetOf[o.of] = AssetOf[Head(x.todo)] /\ x.step \in {"dedupe", "open"}
    BY <1>1, <1>p, <1>8
  <2>3. MayLink(g, x, new, locks, o)
    BY <1>x, <1>7, <1>8, <2>2 DEF MayLink
  <2> QED BY <2>1, <2>3, LinkAccepts
<1>10. \A u \in AlarmTasks \ {g} : Accepted(y).locks \cap txn[u].locks = {}
  BY <1>1, <1>2, <1>9, <1>l DEF HeldByOther
<1> QED BY <1>2, <1>3, <1>9, <1>10, DoKeeps

LEMMA FeedLosesDeadlock ==
  ASSUME AlarmInv, NEW CONSTANT g \in Feeds, LoseDeadlock(g)
  PROVE  AlarmInv'
<1>x. PICK x : x = txn[g]
  OBVIOUS
<1>1. g \in AlarmTasks /\ g \notin Operators
  BY AlarmAssumption DEF AlarmTasks
<1>2. /\ x \in TxnRecord /\ FeedFits(x) /\ x.todo \in Seq(Points)
      /\ DraftFits(x.rows, x.new, x.locks)
      /\ \A u \in AlarmTasks \ {g} : x.locks \cap txn[u].locks = {}
  BY <1>1, <1>x, TaskFacts
<1>3. x.todo # <<>>
  BY <1>x DEF LoseDeadlock, InDeadlock, StuckOn, Needs
<1>4. Tail(x.todo) \in Seq(Points)
  BY <1>2, <1>3, TodoFacts
<1>5. CASE x.step = "next"
  <2>y. PICK y : y = [x EXCEPT !.todo = Tail(@)]
    OBVIOUS
  <2>1. Do(g, y)
    BY <1>5, <1>x, <2>y DEF LoseDeadlock
  <2>2. /\ y \in TxnRecord /\ y.step = "next" /\ y.ok = x.ok /\ y.rows = x.rows
        /\ y.new = x.new /\ y.locks = x.locks
    BY <1>2, <1>4, <1>5, <2>y DEF TxnRecord
  <2>3. FeedFits(y)
    BY <1>2, <1>5, <2>2 DEF FeedFits, FeedSteps
  <2>4. TaskFits(g, y)
    BY <1>1, <1>2, <2>2, <2>3 DEF TaskFits
  <2> QED BY <1>1, <1>2, <2>1, <2>2, <2>4, DoKeeps
<1>6. CASE x.step # "next"
  <2>y. PICK y : y = Skipped(x)
    OBVIOUS
  <2>1. Do(g, y)
    BY <1>6, <1>x, <2>y DEF LoseDeadlock
  <2>2. x.step \in {"rule", "insert", "dedupe", "open"}
    BY <1>2, <1>3, <1>6 DEF FeedFits, FeedSteps
  <2>3. /\ x.saved.locks \subseteq x.locks /\ x.saved.new \subseteq x.new
        /\ DraftFits(x.saved.rows, x.saved.new, x.saved.locks)
        /\ Tallied(x.saved.rows, x.ok, {}) /\ (\A o \in x.new : o.by = "rule")
    BY <1>2, <2>2 DEF FeedFits
  <2>4. x.saved.rows \in Drafts /\ x.saved.new \in SUBSET WorkOrder /\ x.saved.locks \in SUBSET Locks
    BY <1>2 DEF TxnRecord, Saved
  <2>5. /\ y \in TxnRecord /\ y.step = "next" /\ y.ok = x.ok /\ y.rows = x.saved.rows
        /\ y.new = x.saved.new /\ y.locks = x.saved.locks
    BY <1>2, <1>4, <2>4, <2>y DEF TxnRecord, Skipped, FeedSteps
  <2>6. FeedFits(y)
    BY <2>3, <2>5 DEF FeedFits, FeedSteps
  <2>7. TaskFits(g, y)
    BY <1>1, <2>3, <2>5, <2>6 DEF TaskFits
  <2> QED BY <1>1, <1>2, <2>1, <2>3, <2>5, <2>7, DoKeeps
<1> QED BY <1>5, <1>6

LEMMA ReceiveKeeps ==
  ASSUME AlarmInv, NEW CONSTANT g \in Feeds, NEW CONSTANT batch \in Batches, Receive(g, batch)
  PROVE  AlarmInv'
<1>y. PICK y : y = [NoTxn EXCEPT !.step = "next", !.todo = batch]
  OBVIOUS
<1>1. g \in AlarmTasks /\ g \notin Operators /\ batch \in Seq(Points)
  BY AlarmAssumption DEF AlarmTasks
<1>2. TaskFits(g, NoTxn) /\ NoTxn \in TxnRecord /\ FeedFits(NoTxn)
  BY <1>1, NoTxnFits DEF AlarmInv, TaskFits
<1>3. /\ y \in TxnRecord /\ y.step = "next" /\ y.ok = NoTxn.ok /\ y.rows = NoTxn.rows
      /\ y.new = NoTxn.new /\ y.locks = NoTxn.locks /\ y.todo = batch
  BY <1>1, <1>2, <1>y DEF TxnRecord, FeedSteps
<1>4. NoTxn.step = "idle" /\ NoTxn.locks = {}
  BY DEF NoTxn
<1>5. FeedFits(y)
  BY <1>2, <1>3, <1>4 DEF FeedFits, FeedSteps
<1>6. TaskFits(g, y)
  BY <1>1, <1>2, <1>3, <1>5 DEF TaskFits
<1>7. txn[g] = NoTxn /\ used' = used + 1 /\ used < MaxUsed
        /\ UNCHANGED <<alarm, opened, ended, heard, clock>>
        /\ txn' = [txn EXCEPT ![g].step = "next", ![g].todo = batch]
  BY DEF Receive
<1>8. txn' = [txn EXCEPT ![g] = y]
  BY <1>1, <1>2, <1>7, <1>y DEF AlarmInv
<1>9. used' \in 0..MaxUsed
  BY <1>7, AlarmAssumption DEF AlarmInv
<1> QED BY <1>1, <1>3, <1>4, <1>6, <1>7, <1>8, <1>9, TxnKeeps

LEMMA CutOffKeeps ==
  ASSUME AlarmInv, NEW CONSTANT t \in AlarmTasks, CutOff(t)
  PROVE  AlarmInv'
<1>1. TaskFits(t, NoTxn) /\ NoTxn.locks = {}
  BY NoTxnFits DEF AlarmInv, NoTxn
<1>2. used' \in 0..MaxUsed
  BY AlarmAssumption DEF AlarmInv, CutOff
<1> QED BY <1>1, <1>2, TxnKeeps DEF CutOff

-----------------------------------------------------------------------------
(* Requests of people                                                        *)

LEMMA OperatorFacts ==
  ASSUME AlarmInv, NEW m \in Operators, NEW x, x = txn[m]
  PROVE  /\ m \in AlarmTasks /\ m \notin Feeds
         /\ x \in TxnRecord /\ x.rows \in Drafts /\ x.new \in SUBSET WorkOrder
         /\ x.todo \in Seq(Points) /\ x.ok \in Seq(Points) /\ x.locks \subseteq Locks
         /\ CommittedFits /\ DraftFits(x.rows, x.new, x.locks) /\ OperatorFits(x)
         /\ \A u \in AlarmTasks \ {m} : x.locks \cap txn[u].locks = {}
<1>1. m \in AlarmTasks /\ m \notin Feeds
  BY AlarmAssumption DEF AlarmTasks
<1> QED BY <1>1, TaskFacts DEF TxnRecord

LEMMA AskedKeeps ==
  ASSUME AlarmInv, NEW CONSTANT m \in Operators,
         NEW CONSTANT step \in {"suppress", "acknowledge", "read"}, NEW CONSTANT todo \in Seq(Points),
         \A i \in DOMAIN todo : alarm[todo[i]].status # "NONE", Asked(m, step, todo)
  PROVE  AlarmInv'
<1>y. PICK y : y = [NoTxn EXCEPT !.step = step, !.todo = todo]
  OBVIOUS
<1>1. m \in AlarmTasks /\ m \notin Feeds
  BY AlarmAssumption DEF AlarmTasks
<1>2. TaskFits(m, NoTxn) /\ NoTxn \in TxnRecord /\ OperatorFits(NoTxn)
  BY <1>1, NoTxnFits DEF AlarmInv, TaskFits
<1>3. NoTxn.rows = <<>> /\ NoTxn.new = {} /\ NoTxn.locks = {} /\ NoTxn.ok = <<>>
  BY DEF NoTxn
<1>4. /\ y \in TxnRecord /\ y.step = step /\ y.ok = NoTxn.ok /\ y.rows = NoTxn.rows
      /\ y.new = NoTxn.new /\ y.locks = NoTxn.locks /\ y.todo = todo
  BY <1>2, <1>y DEF TxnRecord, OperatorSteps
<1>5. OperatorFits(y)
  BY <1>2, <1>3, <1>4 DEF OperatorFits, OperatorSteps
<1>6. TaskFits(m, y)
  BY <1>1, <1>2, <1>4, <1>5 DEF TaskFits
<1>7. txn[m] = NoTxn /\ used' = used + 1 /\ used < MaxUsed
        /\ UNCHANGED <<alarm, opened, ended, heard, clock>>
        /\ txn' = [txn EXCEPT ![m].step = step, ![m].todo = todo]
  BY DEF Asked
<1>8. txn' = [txn EXCEPT ![m] = y]
  BY <1>1, <1>2, <1>7, <1>y DEF AlarmInv
<1>9. used' \in 0..MaxUsed
  BY <1>7, AlarmAssumption DEF AlarmInv
<1> QED BY <1>1, <1>3, <1>4, <1>6, <1>7, <1>8, <1>9, TxnKeeps

LEMMA AsksKeep ==
  ASSUME AlarmInv, NEW CONSTANT m \in Operators
  PROVE  /\ \A p \in Points : AskSuppress(m, p) \/ AskAcknowledge(m, p) \/ AskOrder(m, p) => AlarmInv'
         /\ \A todo \in Bijection(1..Cardinality(Gap), Gap) : Reconcile(m, todo) => AlarmInv'
<1>1. ASSUME NEW CONSTANT p \in Points, AskSuppress(m, p) \/ AskAcknowledge(m, p) \/ AskOrder(m, p)
      PROVE  AlarmInv'
  <2>1. <<p>> \in Seq(Points) /\ DOMAIN <<p>> = {1} /\ <<p>>[1] = p
    OBVIOUS
  <2>2. alarm[p].status # "NONE"
    BY <1>1 DEF AskSuppress, AskAcknowledge, AskOrder
  <2>3. \E step \in {"suppress", "acknowledge", "read"} : Asked(m, step, <<p>>)
    BY <1>1 DEF AskSuppress, AskAcknowledge, AskOrder
  <2> QED BY <2>1, <2>2, <2>3, AskedKeeps
<1>2. ASSUME NEW CONSTANT todo, todo \in Bijection(1..Cardinality(Gap), Gap), Reconcile(m, todo)
      PROVE  AlarmInv'
  <2>1. Gap \subseteq Points /\ \A p \in Gap : alarm[p].status # "NONE"
    BY AlarmAssumption DEF Gap
  <2>2. Cardinality(Gap) \in Nat
    BY <2>1, AlarmAssumption, FS_Subset, FS_CardinalityType
  <2>3. todo \in [1..Cardinality(Gap) -> Gap]
    BY <1>2 DEF Bijection, Injection
  <2>4. todo \in Seq(Points) /\ \A i \in DOMAIN todo : todo[i] \in Gap
    BY <2>1, <2>2, <2>3
  <2> QED BY <1>2, <2>1, <2>4, AskedKeeps DEF Reconcile
<1> QED BY <1>1, <1>2

LEMMA ReadAlarmKeeps ==
  ASSUME AlarmInv, NEW CONSTANT m \in Operators, ReadAlarm(m)
  PROVE  AlarmInv'
<1>x. PICK x : x = txn[m]
  OBVIOUS
<1>1. /\ m \in AlarmTasks /\ m \notin Feeds /\ x \in TxnRecord /\ x.todo \in Seq(Points)
      /\ OperatorFits(x) /\ DraftFits(x.rows, x.new, x.locks)
      /\ \A u \in AlarmTasks \ {m} : x.locks \cap txn[u].locks = {}
  BY <1>x, OperatorFacts
<1>2. x.step = "read" /\ x.todo # <<>>
  BY <1>x DEF ReadAlarm, Busy
<1>3. Tail(x.todo) \in Seq(Points) /\ \A i \in DOMAIN Tail(x.todo) : alarm[Tail(x.todo)[i]].status # "NONE"
  BY <1>1, <1>2, TodoFacts DEF OperatorFits
<1>4. CASE Do(m, [x EXCEPT !.todo = Tail(@)])
  <2>y. PICK y : y = [x EXCEPT !.todo = Tail(@)]
    OBVIOUS
  <2>1. /\ y \in TxnRecord /\ y.step = "read" /\ y.ok = x.ok /\ y.rows = x.rows
        /\ y.new = x.new /\ y.locks = x.locks /\ y.todo = Tail(x.todo)
    BY <1>1, <1>2, <1>3, <2>y DEF TxnRecord
  <2>2. OperatorFits(y)
    BY <1>1, <1>2, <1>3, <2>1 DEF OperatorFits, OperatorSteps, Awaits
  <2>3. TaskFits(m, y)
    BY <1>1, <2>1, <2>2 DEF TaskFits
  <2> QED BY <1>1, <1>4, <2>y, <2>1, <2>3, DoKeeps
<1>5. CASE Do(m, [x EXCEPT !.step = "number"])
  <2>y. PICK y : y = [x EXCEPT !.step = "number"]
    OBVIOUS
  <2>1. /\ y \in TxnRecord /\ y.step = "number" /\ y.ok = x.ok /\ y.rows = x.rows
        /\ y.new = x.new /\ y.locks = x.locks /\ y.todo = x.todo
    BY <1>1, <1>2, <2>y DEF TxnRecord, OperatorSteps
  <2>2. OperatorFits(y)
    BY <1>1, <1>2, <2>1 DEF OperatorFits, OperatorSteps, Awaits
  <2>3. TaskFits(m, y)
    BY <1>1, <2>1, <2>2 DEF TaskFits
  <2> QED BY <1>1, <1>5, <2>y, <2>1, <2>3, DoKeeps
<1>6. \/ Do(m, NoTxn) \/ Do(m, [x EXCEPT !.todo = Tail(@)]) \/ Do(m, [x EXCEPT !.step = "number"])
  BY <1>x DEF ReadAlarm
<1> QED BY <1>1, <1>4, <1>5, <1>6, IdleKeeps

LEMMA NumberKeeps ==
  ASSUME AlarmInv, NEW CONSTANT m \in Operators, Number(m)
  PROVE  AlarmInv'
<1>x. PICK x : x = txn[m]
  OBVIOUS
<1>p. PICK p : p = Head(x.todo)
  OBVIOUS
<1>o. PICK o : o = [nr |-> NextNr(m), of |-> p, by |-> "hand", born |-> clock]
  OBVIOUS
<1>y. PICK y : y = [x EXCEPT !.step = "link", !.new = @ \cup {o}, !.locks = @ \cup {Counter("WO")}]
  OBVIOUS
<1>1. /\ m \in AlarmTasks /\ m \notin Feeds /\ x \in TxnRecord /\ x.todo \in Seq(Points)
      /\ x.rows \in Drafts /\ x.new \in SUBSET WorkOrder /\ x.locks \subseteq Locks
      /\ CommittedFits /\ OperatorFits(x) /\ DraftFits(x.rows, x.new, x.locks)
      /\ \A u \in AlarmTasks \ {m} : x.locks \cap txn[u].locks = {}
  BY <1>x, OperatorFacts
<1>2. x.step = "number" /\ x.todo # <<>> /\ ~HeldByOther(m, Counter("WO")) /\ Do(m, y)
  BY <1>x, <1>p, <1>o, <1>y DEF Number, Busy, Due
<1>3. NextNr(m) = Cardinality(opened \cup x.new) + 1 /\ NextNr(m) \in Nat \ {0}
  <2>1. IsFiniteSet(opened \cup x.new)
    BY <1>1, FS_Union DEF CommittedFits, DraftFits
  <2> QED BY <2>1, <1>x, FS_CardinalityType DEF NextNr, Visible
<1>4. p \in Points
  BY <1>1, <1>2, <1>p, TodoFacts
<1>5. /\ o \in WorkOrder /\ o.nr = Cardinality(opened \cup x.new) + 1 /\ o.of = p /\ o.by = "hand"
  BY <1>3, <1>4, <1>o DEF WorkOrder, AlarmInv
<1>6. /\ DraftFits(x.rows, x.new \cup {o}, x.locks \cup {Counter("WO")})
      /\ Cardinality(opened \cup (x.new \cup {o})) = o.nr
  BY <1>1, <1>5, DraftOrders
<1>7. /\ y \in TxnRecord /\ y.step = "link" /\ y.ok = x.ok /\ y.rows = x.rows /\ y.todo = x.todo
      /\ y.new = x.new \cup {o} /\ y.locks = x.locks \cup {Counter("WO")}
  BY <1>1, <1>5, <1>y, LocksDiffer DEF TxnRecord, OperatorSteps
<1>8. Awaits(y, o)
  BY <1>2, <1>5, <1>6, <1>7, <1>p DEF Awaits
<1>9. \A q \in x.new : q.by = "hand" /\ q.of \in DOMAIN x.rows /\ x.rows[q.of].order = q.nr
  BY <1>1, <1>2 DEF OperatorFits, Awaits
<1>10. OperatorFits(y)
  BY <1>1, <1>5, <1>7, <1>8, <1>9 DEF OperatorFits, OperatorSteps
<1>11. TaskFits(m, y)
  BY <1>1, <1>6, <1>7, <1>10 DEF TaskFits
<1>12. \A u \in AlarmTasks \ {m} : y.locks \cap txn[u].locks = {}
  BY <1>1, <1>2, <1>7 DEF HeldByOther
<1> QED BY <1>1, <1>2, <1>11, <1>12, DoKeeps

LEMMA LinkByHandKeeps ==
  ASSUME AlarmInv, NEW CONSTANT m \in Operators, LinkByHand(m)
  PROVE  AlarmInv'
<1>x. PICK x : x = txn[m]
  OBVIOUS
<1>p. PICK p : p = Head(x.todo)
  OBVIOUS
<1>r. PICK rec : rec = Seen(m, p)
  OBVIOUS
<1>1. /\ m \in AlarmTasks /\ m \notin Feeds /\ x \in TxnRecord /\ x.todo \in Seq(Points)
      /\ x.rows \in Drafts /\ x.new \in SUBSET WorkOrder /\ x.locks \subseteq Locks
      /\ CommittedFits /\ OperatorFits(x) /\ DraftFits(x.rows, x.new, x.locks)
      /\ \A u \in AlarmTasks \ {m} : x.locks \cap txn[u].locks = {}
  BY <1>x, OperatorFacts
<1>2. x.step = "link" /\ x.todo # <<>> /\ ~HeldByOther(m, RowOf(p))
  BY <1>x, <1>p DEF LinkByHand, Busy, Due
<1>3. CASE rec.order # 0
  <2>1. Do(m, NoTxn)
    BY <1>3, <1>p, <1>r, <1>x DEF LinkByHand, Due
  <2> QED BY <1>1, <2>1, IdleKeeps
<1>4. CASE rec.order = 0
  <2>o. PICK o \in x.new : Awaits(x, o)
    BY <1>1, <1>2 DEF OperatorFits
  <2>w. PICK w : w = [rec EXCEPT !.order = NextNr(m) - 1]
    OBVIOUS
  <2>W. PICK W : W = With(x.rows, p, w)
    OBVIOUS
  <2>y. PICK y : y = [x EXCEPT !.step = "read", !.todo = Tail(@), !.locks = @ \cup {RowOf(p)},
                               !.rows = W]
    OBVIOUS
  <2>1. Do(m, y)
    BY <1>4, <1>p, <1>r, <1>x, <2>w, <2>W, <2>y DEF LinkByHand, Due
  <2>2. p \in Points /\ Tail(x.todo) \in Seq(Points)
          /\ (\A i \in DOMAIN Tail(x.todo) : alarm[Tail(x.todo)[i]].status # "NONE")
          /\ alarm[p].status # "NONE"
    BY <1>1, <1>2, <1>p, TodoFacts DEF OperatorFits
  <2>3. rec = IF p \in DOMAIN x.rows THEN x.rows[p] ELSE alarm[p]
    BY <1>x, <1>r DEF Seen
  <2>4. rec \in AlarmRow /\ Follows(p, rec, x.new)
    <3>1. /\ rec \in AlarmRow /\ (rec.status # "NONE" => Follows(p, rec, x.new))
          /\ (rec.status = "NONE" => p \notin DOMAIN x.rows)
      BY <1>1, <2>2, <2>3, SeenFollows
    <3> QED BY <2>2, <2>3, <3>1
  <2>5. Cardinality(opened \cup x.new) \in Nat
    BY <1>1, FS_Union, FS_CardinalityType DEF CommittedFits, DraftFits
  <2>6. NextNr(m) - 1 = o.nr /\ o.of = p /\ o \in WorkOrder
    BY <1>1, <1>x, <1>p, <2>o, <2>5 DEF NextNr, Visible, Awaits
  <2>7. /\ w \in AlarmRow /\ w.order = o.nr /\ w.status = rec.status /\ w.until = rec.until
        /\ w.count = rec.count /\ w.loud = rec.loud /\ w.woke = rec.woke /\ o.nr # 0
    BY <2>4, <2>6, <2>w DEF AlarmRow, WorkOrder
  <2>8. Follows(p, w, x.new)
    BY <1>4, <2>4, <2>6, <2>7, <2>o DEF Follows
  <2>9. /\ With(x.rows, p, w) \in Drafts /\ With(x.rows, p, w)[p] = w
        /\ DOMAIN With(x.rows, p, w) = DOMAIN x.rows \cup {p}
        /\ \A q \in DOMAIN x.rows : q # p => With(x.rows, p, w)[q] = x.rows[q]
    <3>1. x.rows \in Drafts /\ p \in Points /\ w \in AlarmRow
      BY <1>1, <2>2, <2>7
    <3> QED BY <3>1, WithFacts
  <2>10. /\ W \in Drafts /\ W[p] = w /\ DOMAIN W = DOMAIN x.rows \cup {p}
         /\ \A q \in DOMAIN x.rows : q # p => W[q] = x.rows[q]
    BY <2>9, <2>W
  <2>11. /\ y \in TxnRecord /\ y.step = "read" /\ y.ok = x.ok /\ y.rows = W /\ y.todo = Tail(x.todo)
         /\ y.new = x.new /\ y.locks = x.locks \cup {RowOf(p)}
    <3>1. PICK locks : locks = x.locks \cup {RowOf(p)}
      OBVIOUS
    <3>2. locks \in SUBSET Locks
      BY <1>1, <2>2, <3>1, LocksDiffer
    <3>3. y = [x EXCEPT !.step = "read", !.todo = Tail(x.todo), !.locks = locks, !.rows = W]
      BY <1>1, <2>y, <3>1 DEF TxnRecord
    <3>4. x \in TxnRecord /\ Tail(x.todo) \in Seq(Points) /\ W \in Drafts
      BY <1>1, <2>2, <2>10
    <3>5. PICK todo : todo = Tail(x.todo)
      OBVIOUS
    <3>6. /\ y.step = "read" /\ y.ok = x.ok /\ y.rows = W /\ y.todo = todo
          /\ y.new = x.new /\ y.locks = locks
      <4>1. y = [x EXCEPT !.step = "read", !.todo = todo, !.locks = locks, !.rows = W]
        BY <3>3, <3>5
      <4> QED BY <3>4, <4>1 DEF TxnRecord
    <3>7. y \in TxnRecord
      <4>1. y = [x EXCEPT !.step = "read", !.todo = todo, !.locks = locks, !.rows = W]
        BY <3>3, <3>5
      <4>2. "read" \in FeedSteps \cup OperatorSteps /\ todo \in Seq(Points)
        BY <3>4, <3>5 DEF OperatorSteps
      <4> QED BY <3>2, <3>4, <4>1, <4>2 DEF TxnRecord
    <3> QED BY <3>1, <3>5, <3>6, <3>7
  <2>12. DraftFits(W, x.new, x.locks \cup {RowOf(p)})
    <3>1. \A q \in Points : RowOf(q) \in {RowOf(p)} => alarm[q].status # "NONE"
      BY <2>2, LocksDiffer
    <3>2. DraftFits(x.rows, x.new, x.locks \cup {RowOf(p)})
      BY <1>1, <3>1, DraftLocks
    <3>3. DraftFits(With(x.rows, p, w), x.new, x.locks \cup {RowOf(p)})
      BY <1>1, <2>2, <2>7, <2>8, <3>2, DraftWrites
    <3> QED BY <3>3, <2>W
  <2>13. Tallied(W, x.ok, {})
    <3>1. Tallied(x.rows, x.ok, {}) /\ HowOften(x.ok, p) = 0
      BY <1>1, HowOftenNone DEF OperatorFits
    <3>2. W[p].count = alarm[p].count + HowOften(x.ok, p) + 0
      <4>1. alarm[p].count \in Nat
        BY <1>1, <2>2 DEF CommittedFits, AlarmRow
      <4> QED BY <2>2, <2>3, <2>7, <2>10, <3>1, <4>1 DEF Tallied
    <3>3. W[p].order # 0
      BY <2>7, <2>10
    <3> QED BY <3>1, <3>2, <3>3, <2>10 DEF Tallied
  <2>14. ASSUME NEW q \in x.new
         PROVE  q.by = "hand" /\ q.of \in DOMAIN W /\ W[q.of].order = q.nr
    <3>1. q.by = "hand" /\ (Awaits(x, q) \/ (q.of \in DOMAIN x.rows /\ x.rows[q.of].order = q.nr))
      BY <1>1 DEF OperatorFits
    <3>2. CASE Awaits(x, q)
      BY <1>p, <3>1, <3>2, <2>o, <2>6, <2>7, <2>10 DEF Awaits
    <3>3. CASE q.of \in DOMAIN x.rows /\ x.rows[q.of].order = q.nr
      <4>1. q.nr # 0
        BY <1>1 DEF WorkOrder
      <4>2. q.of # p
        BY <1>4, <2>3, <3>3, <4>1
      <4> QED BY <3>1, <3>3, <4>2, <2>10
    <3> QED BY <3>1, <3>2, <3>3
  <2>15. OperatorFits(y)
    BY <1>1, <2>2, <2>11, <2>13, <2>14 DEF OperatorFits, OperatorSteps
  <2>16. TaskFits(m, y)
    BY <1>1, <2>11, <2>12, <2>15 DEF TaskFits
  <2>17. \A u \in AlarmTasks \ {m} : y.locks \cap txn[u].locks = {}
    BY <1>1, <1>2, <2>11 DEF HeldByOther
  <2> QED BY <1>1, <2>1, <2>16, <2>17, DoKeeps
<1> QED BY <1>3, <1>4

-----------------------------------------------------------------------------
(* Commits                                                                   *)

Honoured ==
  \A p \in Points : alarm[p].status = "SUPPRESSED" =>
    \/ /\ alarm'[p].status = "SUPPRESSED"
       /\ \A o \in opened' \ opened : o.of = p => o.by # "rule"
    \/ alarm'[p].woke >= alarm[p].until

LEMMA NoTxnAlways == CommittedFits => \A t \in AlarmTasks : TaskFits(t, NoTxn)
BY NoTxnFits

LEMMA NoTxnFitsThen == CommittedFits' => \A t \in AlarmTasks : TaskFits(t, NoTxn)'
<1>1. (CommittedFits => \A t \in AlarmTasks : TaskFits(t, NoTxn))'
  BY NoTxnAlways, PTL
<1> QED BY <1>1

LEMMA OthersStay ==
  ASSUME AlarmInv, NEW CONSTANT t \in AlarmTasks, txn' = [txn EXCEPT ![t] = NoTxn],
         CommittedFits', opened \subseteq opened',
         \A p \in Points : alarm'[p] # alarm[p] =>
           \A u \in AlarmTasks \ {t} : /\ RowOf(p) \notin txn[u].locks
                                       /\ alarm[p].status = "NONE" => Device(p) \notin txn[u].locks,
         \A p \in Points : alarm[p].status # "NONE" => alarm'[p].status # "NONE",
         opened' # opened => \A u \in AlarmTasks \ {t} : Counter("WO") \notin txn[u].locks,
         UNCHANGED <<ended, used, clock>>
  PROVE  AlarmInv'
<1>1. Nrs(opened')
  BY DEF CommittedFits, Nrs
<1>2. txn' \in [AlarmTasks -> TxnRecord] /\ txn'[t] = NoTxn
        /\ \A u \in AlarmTasks \ {t} : txn'[u] = txn[u]
  <2>1. NoTxn \in TxnRecord
    BY NoTxnFits DEF AlarmInv, TaskFits
  <2> QED BY <2>1 DEF AlarmInv
<1>3. ASSUME NEW CONSTANT u \in AlarmTasks \ {t}
      PROVE  TaskFits(u, txn[u])'
  <2> PICK x : x = txn[u]
    OBVIOUS
  <2>1. TaskFits(u, x)
    BY DEF AlarmInv
  <2>2. \A p \in Points : RowOf(p) \in x.locks => alarm'[p] = alarm[p]
    OBVIOUS
  <2>3. \A p \in Points : Device(p) \in x.locks /\ alarm[p].status = "NONE" => alarm'[p] = alarm[p]
    OBVIOUS
  <2>4. Counter("WO") \in x.locks => opened' = opened
    OBVIOUS
  <2>5. TaskFits(u, x)'
    BY <1>1, <2>1, <2>2, <2>3, <2>4, Bystander
  <2>6. txn'[u] = x
    BY <1>2
  <2> QED BY <2>5, <2>6
<1>4. TaskFits(t, txn[t])'
  <2>1. TaskFits(t, NoTxn)'
    BY NoTxnFitsThen
  <2>2. txn'[t] = NoTxn
    BY <1>2
  <2> QED BY <2>1, <2>2
<1>5. \A v, u \in AlarmTasks : v # u => txn'[v].locks \cap txn'[u].locks = {}
  <2>1. NoTxn.locks = {}
    BY DEF NoTxn
  <2> QED BY <1>2, <2>1 DEF AlarmInv
<1>6. (ended \subseteq {o.nr : o \in opened})' /\ (used \in 0..MaxUsed /\ clock \in 0..AlarmMaxTime)'
  BY DEF AlarmInv
<1> QED BY <1>2, <1>3, <1>4, <1>5, <1>6 DEF AlarmInv

LEMMA CommitKeeps ==
  ASSUME AlarmInv, NEW CONSTANT t \in AlarmTasks, CommitAll(t),
         t \in Feeds => txn[t].step = "next", t \in Operators => txn[t].step = "read"
  PROVE  AlarmInv' /\ Honoured
<1>x. PICK x : x = txn[t]
  OBVIOUS
<1>1. /\ x \in TxnRecord /\ x.rows \in Drafts /\ x.new \in SUBSET WorkOrder /\ x.ok \in Seq(Points)
      /\ CommittedFits /\ DraftFits(x.rows, x.new, x.locks)
      /\ \A u \in AlarmTasks \ {t} : x.locks \cap txn[u].locks = {}
  BY <1>x, TaskFacts
<1>2. Tallied(x.rows, x.ok, {})
  <2>1. CASE t \in Feeds
    BY <1>x, <2>1, TaskFacts DEF FeedFits
  <2>2. CASE t \in Operators
    BY <1>x, <2>2, TaskFacts DEF OperatorFits
  <2> QED BY <2>1, <2>2 DEF AlarmTasks
<1>3. \A o \in x.new : o.by = "hand" => o.of \in DOMAIN x.rows /\ x.rows[o.of].order = o.nr
  <2>1. CASE t \in Feeds
    BY <1>x, <2>1, TaskFacts DEF FeedFits
  <2>2. CASE t \in Operators
    BY <1>x, <2>2, TaskFacts DEF OperatorFits, Awaits
  <2> QED BY <2>1, <2>2 DEF AlarmTasks
<1>4. /\ alarm' = [p \in Points |-> IF p \in DOMAIN x.rows THEN x.rows[p] ELSE alarm[p]]
      /\ opened' = opened \cup x.new
      /\ heard' = [p \in Points |-> heard[p] + HowOften(x.ok, p)]
      /\ txn' = [txn EXCEPT ![t] = NoTxn] /\ UNCHANGED <<ended, used, clock>>
  BY <1>x DEF CommitAll, Seen, Visible, HowOften
<1>5. \A p \in DOMAIN x.rows : /\ p \in Points /\ x.rows[p] \in AlarmRow
                               /\ RowOf(p) \in x.locks /\ Follows(p, x.rows[p], x.new)
  BY <1>1, DraftRows DEF DraftFits
<1>6. /\ alarm' \in [Points -> AlarmRow] /\ heard' \in [Points -> Nat]
      /\ opened' \subseteq WorkOrder
  BY <1>1, <1>4, <1>5, HowOftenType DEF CommittedFits
<1>7. IsFiniteSet(opened') /\ Nrs(opened')
  BY <1>1, <1>4, FS_Union DEF CommittedFits, DraftFits
<1>8. ASSUME NEW CONSTANT p \in Points
      PROVE  /\ alarm'[p].status = "NONE" => alarm'[p] = NoAlarm
             /\ alarm'[p].count = heard'[p]
             /\ p \in AutoOrder /\ alarm'[p].loud => alarm'[p].order # 0
             /\ \A o \in opened' : o.by = "hand" /\ o.of = p => alarm'[p].order = o.nr
             /\ alarm'[p].order # 0 =>
                  \E o \in opened' : o.nr = alarm'[p].order /\ AssetOf[o.of] = AssetOf[p]
  <2>1. /\ alarm[p].status = "NONE" => alarm[p] = NoAlarm
        /\ alarm[p].count = heard[p] /\ (p \in AutoOrder /\ alarm[p].loud => alarm[p].order # 0)
        /\ \A o \in opened : o.by = "hand" /\ o.of = p => alarm[p].order = o.nr
        /\ alarm[p].order # 0 =>
             \E o \in opened : o.nr = alarm[p].order /\ AssetOf[o.of] = AssetOf[p]
    BY <1>1 DEF CommittedFits, AlarmsAreTrue
  <2>2. HowOften(x.ok, p) \in Nat /\ heard[p] \in Nat
    BY <1>1, HowOftenType DEF CommittedFits
  <2>3. CASE p \in DOMAIN x.rows
    <3>1. alarm'[p] = x.rows[p] /\ Follows(p, x.rows[p], x.new)
      BY <1>4, <1>5, <2>3
    <3>2. alarm'[p].count = heard'[p]
      BY <1>2, <1>4, <2>1, <2>2, <2>3, <3>1 DEF Tallied
    <3>3. p \in AutoOrder /\ alarm'[p].loud => alarm'[p].order # 0
      BY <1>2, <2>3, <3>1 DEF Tallied
    <3>4. \A o \in opened : o.nr # 0
      BY <1>1 DEF CommittedFits, WorkOrder
    <3>5. \A o \in opened' : o.by = "hand" /\ o.of = p => alarm'[p].order = o.nr
      BY <1>3, <1>4, <2>1, <3>1, <3>4 DEF Follows
    <3> QED BY <1>4, <3>1, <3>2, <3>3, <3>5 DEF Follows
  <2>4. CASE p \notin DOMAIN x.rows
    <3>1. alarm'[p] = alarm[p]
      BY <1>4, <2>4
    <3>2. heard'[p] = heard[p]
      BY <1>2, <1>4, <2>2, <2>4 DEF Tallied
    <3>3. \A o \in opened' : o.by = "hand" /\ o.of = p => o \in opened
      BY <1>3, <1>4, <2>4
    <3> QED BY <1>4, <2>1, <3>1, <3>2, <3>3
  <2> QED BY <2>3, <2>4
<1>9. CommittedFits'
  BY <1>6, <1>7, <1>8 DEF CommittedFits, AlarmsAreTrue, NoAlarm, Nrs
<1>10. ASSUME NEW p \in Points, alarm'[p] # alarm[p], NEW u \in AlarmTasks \ {t}
       PROVE  /\ RowOf(p) \notin txn[u].locks
              /\ alarm[p].status = "NONE" => Device(p) \notin txn[u].locks
  <2>1. p \in DOMAIN x.rows
    BY <1>4, <1>10
  <2> QED BY <1>1, <1>5, <2>1 DEF DraftFits
<1>11. \A p \in Points : alarm[p].status # "NONE" => alarm'[p].status # "NONE"
  BY <1>4, <1>5 DEF Follows
<1>12. opened' # opened => \A u \in AlarmTasks \ {t} : Counter("WO") \notin txn[u].locks
  BY <1>1, <1>4 DEF DraftFits
<1>13. AlarmInv'
  BY <1>4, <1>9, <1>10, <1>11, <1>12, OthersStay
<1>14. ASSUME NEW p \in Points, alarm[p].status = "SUPPRESSED"
       PROVE  \/ /\ alarm'[p].status = "SUPPRESSED"
                 /\ \A o \in opened' \ opened : o.of = p => o.by # "rule"
              \/ alarm'[p].woke >= alarm[p].until
  <2>1. CASE p \in DOMAIN x.rows
    BY <1>4, <1>5, <1>14, <2>1 DEF Follows
  <2>2. CASE p \notin DOMAIN x.rows
    <3>1. \A o \in x.new : o.by = "rule" => o.of \in DOMAIN x.rows
      BY <1>1 DEF DraftFits
    <3> QED BY <1>4, <1>14, <2>2, <3>1
  <2> QED BY <2>1, <2>2
<1> QED BY <1>13, <1>14 DEF Honoured

(* The one UPDATE of a request that writes no other column than status and term. *)
LEMMA WriteKeeps ==
  ASSUME AlarmInv, NEW CONSTANT m \in Operators, NEW CONSTANT rec, Write(m, rec),
         txn[m].step \in {"suppress", "acknowledge"}, txn[m].todo # <<>>,
         NEW CONSTANT old, old = alarm[Head(txn[m].todo)],
         rec \in AlarmRow, rec.status # "NONE", rec.count = old.count, rec.loud = old.loud,
         rec.order = old.order, old.status = "SUPPRESSED" => rec.status = "SUPPRESSED"
  PROVE  AlarmInv' /\ Honoured
<1>p. PICK p : p = Head(txn[m].todo)
  OBVIOUS
<1>1. /\ m \in AlarmTasks /\ CommittedFits /\ OperatorFits(txn[m]) /\ txn[m].todo \in Seq(Points)
  BY OperatorFacts
<1>2. p \in Points /\ alarm[p].status # "NONE"
  BY <1>1, <1>p, TodoFacts DEF OperatorFits
<1>3. /\ ~HeldByOther(m, RowOf(p)) /\ alarm' = [alarm EXCEPT ![p] = rec]
      /\ txn' = [txn EXCEPT ![m] = NoTxn] /\ UNCHANGED <<opened, ended, heard, used, clock>>
  BY <1>p DEF Write, Due
<1>4. /\ alarm' \in [Points -> AlarmRow] /\ alarm'[p] = rec
      /\ \A q \in Points \ {p} : alarm'[q] = alarm[q]
  BY <1>1, <1>2, <1>3 DEF CommittedFits
<1>5. ASSUME NEW CONSTANT q \in Points
      PROVE  /\ alarm'[q].count = alarm[q].count /\ alarm'[q].loud = alarm[q].loud
             /\ alarm'[q].order = alarm[q].order
             /\ alarm'[q].status = "NONE" => alarm'[q] = alarm[q]
             /\ alarm[q].status # "NONE" => alarm'[q].status # "NONE"
             /\ alarm[q].status = "SUPPRESSED" => alarm'[q].status = "SUPPRESSED"
  <2>1. CASE q = p
    BY <1>2, <1>4, <1>p, <2>1
  <2>2. CASE q # p
    BY <1>4, <2>2
  <2> QED BY <2>1, <2>2
<1>6. CommittedFits'
  <2>1. \A q \in Points : alarm'[q].status = "NONE" => alarm'[q] = NoAlarm
    BY <1>1, <1>5 DEF CommittedFits
  <2>2. AlarmsAreTrue'
    BY <1>1, <1>3, <1>5 DEF CommittedFits, AlarmsAreTrue
  <2> QED BY <1>1, <1>3, <1>4, <2>1, <2>2 DEF CommittedFits
<1>7. \A q \in Points : alarm'[q] # alarm[q] =>
        \A u \in AlarmTasks \ {m} : /\ RowOf(q) \notin txn[u].locks
                                    /\ alarm[q].status = "NONE" => Device(q) \notin txn[u].locks
  BY <1>2, <1>3, <1>4 DEF HeldByOther
<1>8. AlarmInv'
  BY <1>1, <1>3, <1>5, <1>6, <1>7, OthersStay
<1>9. Honoured
  BY <1>3, <1>5 DEF Honoured
<1> QED BY <1>8, <1>9

LEMMA SuppressKeeps ==
  ASSUME AlarmInv, NEW CONSTANT m \in Operators, Suppress(m) \/ AcknowledgeAlarm(m)
  PROVE  AlarmInv' /\ Honoured
<1>o. PICK old : old = alarm[Head(txn[m].todo)]
  OBVIOUS
<1>1. txn[m].step \in {"suppress", "acknowledge"} /\ txn[m].todo # <<>>
  BY DEF Suppress, AcknowledgeAlarm, Busy
<1>2. old \in AlarmRow /\ old.status # "NONE"
  <2>1. CommittedFits /\ OperatorFits(txn[m]) /\ txn[m].todo \in Seq(Points)
    BY OperatorFacts
  <2> QED BY <1>1, <1>o, <2>1, TodoFacts DEF CommittedFits, OperatorFits
<1>3. CASE Suppress(m)
  <2>w. PICK w : w = [old EXCEPT !.status = "SUPPRESSED", !.until = clock + Hush]
    OBVIOUS
  <2>1. clock + Hush \in Nat
    BY AlarmAssumption DEF AlarmInv
  <2>2. /\ w \in AlarmRow /\ w.status = "SUPPRESSED" /\ w.count = old.count /\ w.loud = old.loud
        /\ w.order = old.order
    BY <1>2, <2>w, <2>1 DEF AlarmRow
  <2>3. Write(m, w)
    BY <1>3, <1>o, <2>w DEF Suppress, Due
  <2> QED BY <1>1, <1>o, <2>2, <2>3, WriteKeeps
<1>4. CASE AcknowledgeAlarm(m)
  <2>w. PICK w : w = [old EXCEPT !.status = IF @ = "ACTIVE" THEN "ACKNOWLEDGED" ELSE @]
    OBVIOUS
  <2>2. /\ w \in AlarmRow /\ w.status # "NONE" /\ w.count = old.count /\ w.loud = old.loud
        /\ w.order = old.order /\ (old.status = "SUPPRESSED" => w.status = "SUPPRESSED")
    BY <1>2, <2>w DEF AlarmRow
  <2>3. Write(m, w)
    BY <1>4, <1>o, <2>w DEF AcknowledgeAlarm, Due
  <2> QED BY <1>1, <1>o, <2>2, <2>3, WriteKeeps
<1> QED BY <1>3, <1>4

LEMMA OperatorLosesDeadlock ==
  ASSUME AlarmInv, NEW CONSTANT t \in AlarmTasks, t \notin Feeds, LoseDeadlock(t)
  PROVE  AlarmInv'
<1>1. Do(t, NoTxn)
  BY DEF LoseDeadlock
<1> QED BY <1>1, IdleKeeps

LEMMA EnvironmentKeeps ==
  ASSUME AlarmInv, AlarmTick \/ (\E o \in opened : EndOrder(o)) \/ UNCHANGED alarmVars
  PROVE  AlarmInv'
<1>1. UNCHANGED <<alarm, opened, heard, txn, used>>
        /\ ended' \subseteq {o.nr : o \in opened} /\ clock' \in 0..AlarmMaxTime
  BY AlarmAssumption DEF AlarmTick, EndOrder, alarmVars, AlarmInv
<1>2. CommittedFits'
  BY <1>1 DEF AlarmInv, CommittedFits, AlarmsAreTrue
<1>3. ASSUME NEW CONSTANT u \in AlarmTasks
      PROVE  TaskFits(u, txn[u])'
  <2> PICK x : x = txn[u]
    OBVIOUS
  <2>1. TaskFits(u, x)
    BY DEF AlarmInv
  <2>2. TaskFits(u, x)'
    <3>1. UNCHANGED <<alarm, opened>> /\ Nrs(opened)
      BY <1>1 DEF AlarmInv, CommittedFits
    <3> QED BY <2>1, <3>1, Bystander DEF Nrs
  <2>3. txn'[u] = x
    BY <1>1
  <2> QED BY <2>2, <2>3
<1> QED BY <1>1, <1>2, <1>3 DEF AlarmInv

LEMMA AlarmStarts == ASSUME AlarmInit PROVE AlarmInv
<1>1. PICK olds \in SUBSET AutoOrder : alarm = [p \in Points |->
        IF p \in olds THEN [NoAlarm EXCEPT !.status = "ACTIVE", !.count = 1] ELSE NoAlarm]
  BY DEF AlarmInit
<1>w. PICK w : w = [NoAlarm EXCEPT !.status = "ACTIVE", !.count = 1]
  OBVIOUS
<1>2. w \in AlarmRow /\ w.status = "ACTIVE" /\ w.count = 1 /\ w.order = 0 /\ w.loud = FALSE
  BY <1>w DEF NoAlarm, AlarmRow
<1>3. /\ NoAlarm \in AlarmRow /\ NoAlarm.status = "NONE" /\ NoAlarm.count = 0 /\ NoAlarm.order = 0
      /\ NoAlarm.loud = FALSE
  BY DEF NoAlarm, AlarmRow
<1>4. \A p \in Points : alarm[p] = w \/ alarm[p] = NoAlarm
  BY <1>1, <1>w
<1>5. alarm \in [Points -> AlarmRow]
  BY <1>1, <1>2, <1>3, <1>w
<1>6. CommittedFits
  <2>1. heard = [p \in Points |-> alarm[p].count] /\ opened = {}
    BY DEF AlarmInit
  <2>2. heard \in [Points -> Nat]
    BY <2>1, <1>5 DEF AlarmRow
  <2>3. IsFiniteSet(opened) /\ Nrs(opened)
    BY <2>1, FS_EmptySet DEF Nrs
  <2> QED BY <1>2, <1>3, <1>4, <1>5, <2>1, <2>2, <2>3 DEF CommittedFits, AlarmsAreTrue
<1>7. \A t \in AlarmTasks : TaskFits(t, NoTxn) /\ NoTxn \in TxnRecord /\ NoTxn.locks = {}
  BY <1>6, NoTxnFits DEF TaskFits, NoTxn
<1> QED BY <1>6, <1>7, AlarmAssumption DEF AlarmInit, AlarmInv

LEMMA AlarmStep == ASSUME AlarmInv, [AlarmNext]_alarmVars PROVE AlarmInv' /\ (Honoured \/ UNCHANGED alarmVars)
<1>1. ASSUME UNCHANGED alarm, UNCHANGED opened
      PROVE  Honoured
  BY <1>1 DEF Honoured
<1>2. ASSUME NEW CONSTANT g \in Feeds, FeedStep(g) \/ \E batch \in Batches : Receive(g, batch)
      PROVE  AlarmInv' /\ Honoured
  <2>1. g \in AlarmTasks /\ g \notin Operators
    BY AlarmAssumption DEF AlarmTasks
  <2>2. CASE CommitBatch(g)
    BY <2>1, <2>2, CommitKeeps DEF CommitBatch
  <2>3. CASE \E at \in 0..AlarmMaxTime : Ingest(g, at)
    BY <1>1, <2>3, IngestKeeps DEF Ingest, Do, Uncommitted
  <2>4. CASE FindOpen(g)
    BY <1>1, <2>4, FindOpenKeeps DEF FindOpen, RaiseAlarm, Do, Uncommitted
  <2>5. CASE InsertAlarm(g)
    BY <1>1, <2>5, InsertAlarmKeeps DEF InsertAlarm, Do, Uncommitted
  <2>6. CASE Dedupe(g)
    BY <1>1, <2>6, DedupeKeeps DEF Dedupe, Do, Uncommitted
  <2>7. CASE OpenOrder(g)
    BY <1>1, <2>7, OpenOrderKeeps DEF OpenOrder, Do, Uncommitted
  <2>8. CASE \E batch \in Batches : Receive(g, batch)
    BY <1>1, <2>8, ReceiveKeeps DEF Receive
  <2> QED BY <1>2, <2>2, <2>3, <2>4, <2>5, <2>6, <2>7, <2>8 DEF FeedStep
<1>3. ASSUME NEW CONSTANT m \in Operators, OperatorStep(m)
      PROVE  AlarmInv' /\ Honoured
  <2>1. m \in AlarmTasks /\ m \notin Feeds
    BY AlarmAssumption DEF AlarmTasks
  <2>2. CASE CommitOrders(m)
    BY <2>1, <2>2, CommitKeeps DEF CommitOrders
  <2>3. CASE Suppress(m) \/ AcknowledgeAlarm(m)
    BY <2>3, SuppressKeeps
  <2>4. CASE ReadAlarm(m)
    BY <1>1, <2>4, ReadAlarmKeeps DEF ReadAlarm, Do, Uncommitted
  <2>5. CASE Number(m)
    BY <1>1, <2>5, NumberKeeps DEF Number, Do, Uncommitted
  <2>6. CASE LinkByHand(m)
    BY <1>1, <2>6, LinkByHandKeeps DEF LinkByHand, Do, Uncommitted
  <2> QED BY <1>3, <2>2, <2>3, <2>4, <2>5, <2>6 DEF OperatorStep
<1>4. ASSUME NEW CONSTANT m \in Operators,
             \/ \E p \in Points : AskSuppress(m, p) \/ AskAcknowledge(m, p) \/ AskOrder(m, p)
             \/ \E todo \in Bijection(1..Cardinality(Gap), Gap) : Reconcile(m, todo)
      PROVE  AlarmInv' /\ Honoured
  <2>1. UNCHANGED alarm /\ UNCHANGED opened
    BY <1>4 DEF AskSuppress, AskAcknowledge, AskOrder, Reconcile, Asked
  <2> QED BY <1>1, <1>4, <2>1, AsksKeep
<1>5. ASSUME NEW CONSTANT t \in AlarmTasks, LoseDeadlock(t) \/ CutOff(t)
      PROVE  AlarmInv' /\ Honoured
  <2>1. UNCHANGED alarm /\ UNCHANGED opened
    BY <1>5 DEF LoseDeadlock, CutOff, Do, Uncommitted
  <2> QED BY <1>1, <1>5, <2>1, FeedLosesDeadlock, OperatorLosesDeadlock, CutOffKeeps
<1>6. CASE AlarmTick \/ \E o \in opened : EndOrder(o)
  BY <1>1, <1>6, EnvironmentKeeps DEF AlarmTick, EndOrder
<1>7. CASE UNCHANGED alarmVars
  BY <1>7, EnvironmentKeeps
<1> QED BY <1>2, <1>3, <1>4, <1>5, <1>6, <1>7 DEF AlarmNext

(* Every accepted reading is counted once, a rule that opens orders has linked every alarm *)
(* it raised, an order opened by hand is its alarm's, and a suppressed alarm is left alone *)
(* until a later reading, whatever batches, requests, deadlocks and cuts run side by side. *)
THEOREM BooksOfAlarmsAreSound == AlarmSpec => AlarmsAreSound
<1>1. AlarmInit => AlarmInv
  BY AlarmStarts
<1>2. AlarmInv /\ [AlarmNext]_alarmVars => AlarmInv'
  BY AlarmStep
<1>3. AlarmInv /\ [AlarmNext]_alarmVars => [Honoured]_alarmVars
  BY AlarmStep
<1>4. AlarmInv => AlarmsAreTrue
  BY DEF AlarmInv, CommittedFits
<1>5. ([][Honoured]_alarmVars) <=> SuppressionIsHonoured
  BY PTL DEF SuppressionIsHonoured, Honoured
<1> QED BY <1>1, <1>2, <1>3, <1>4, <1>5, PTL DEF AlarmSpec, AlarmsAreSound

-----------------------------------------------------------------------------
(* The worker process                                                        *)

(* main goes on when the loops it waits for are over, a panic has been counted,  *)
(* a handler is called for an event of the batch, and while the process runs     *)
(* nothing has been cut off.                                                 *)
LoopRecord == [at : Places, todo : 0..MaxWork, busy : BOOLEAN]
WorkerInv ==
  /\ loop \in [Loops -> LoopRecord]
  /\ panics \in 0..MaxPanics /\ main \in {"joining", "awaiting", "exited", "failed"}
  /\ main = "awaiting" => \A l \in Joined : loop[l].at = "ended"
  /\ main = "exited" => \A l \in Loops : loop[l].at = "ended"
  /\ main = "failed" => panics > 0
  /\ \A l \in Loops : loop[l].at = "panicked" => panics > 0
  /\ \A l \in Loops : loop[l].at \in {"handler", "handling"} => loop[l].todo > 0
  /\ Running => \A l \in Loops : loop[l].at # "cut"

LEMMA WorkerStarts == WorkerInit => WorkerInv
BY WorkerAssumption DEF WorkerInit, WorkerInv, LoopRecord, Places, Running

(* The loop that main awaits next is one of those that are open.               *)
LEMMA NextIsOpen ==
  ASSUME NEW set \in SUBSET (Loops \ Joined), set # {}
  PROVE  NextAwaited(set) \in set
<1>1. /\ DOMAIN Awaited = 1..3
      /\ Awaited[1] = "dispatcher" /\ Awaited[2] = "watchdog" /\ Awaited[3] = "push"
  BY DEF Awaited
<1>2. \A l \in set : \E i \in 1..3 : l.name = Awaited[i]
  BY <1>1 DEF Joined
<1> DEFINE Named(i) == {l \in set : l.name = Awaited[i]}
<1> DEFINE Foremost(l) ==
      \A k \in set : \E i, j \in 1..3 : i <= j /\ l.name = Awaited[i] /\ k.name = Awaited[j]
<1>3. \E l \in set : Foremost(l)
  <2>1. CASE Named(1) # {}
    <3>1. PICK l \in set : l.name = Awaited[1]
      BY <2>1
    <3> QED BY <1>2, <3>1
  <2>2. CASE Named(1) = {} /\ Named(2) # {}
    <3>1. PICK l \in set : l.name = Awaited[2]
      BY <2>2
    <3>2. \A k \in set : \E j \in 2..3 : k.name = Awaited[j]
      BY <1>2, <2>2
    <3> QED BY <3>1, <3>2
  <2>3. CASE Named(1) = {} /\ Named(2) = {}
    <3>1. \A k \in set : k.name = Awaited[3]
      BY <1>2, <2>3
    <3> QED BY <3>1
  <2> QED BY <2>1, <2>2, <2>3
<1>4. \E l \in set : \A k \in set :
        \E i, j \in DOMAIN Awaited : i <= j /\ l.name = Awaited[i] /\ k.name = Awaited[j]
  BY <1>1, <1>3
<1> QED BY <1>4 DEF NextAwaited

(* A step of a loop that is still at work moves it to another place.           *)
LEMMA MoveKeeps ==
  ASSUME WorkerInv, Running, NEW l \in Loops, ~Over(l), NEW new \in LoopRecord,
         new.at \notin {"panicked", "cut"}, new.at \in {"handler", "handling"} => new.todo > 0,
         Move(l, new)
  PROVE  WorkerInv'
<1>1. /\ loop' \in [Loops -> LoopRecord]
      /\ \A k \in Loops : loop'[k] = IF k = l THEN new ELSE loop[k]
      /\ main' = main /\ panics' = panics
  BY DEF WorkerInv, Move
<1>2. main = "awaiting" => l \notin Joined
  BY DEF WorkerInv, Over
<1>3. main = "awaiting" => \A k \in Joined : loop'[k].at = "ended"
  BY <1>1, <1>2 DEF WorkerInv, Joined
<1> QED BY <1>1, <1>3 DEF WorkerInv, Running

LEMMA LoopKeeps ==
  ASSUME WorkerInv, NEW l \in Loops, LoopStep(l) \/ TimeElapses(l)
  PROVE  WorkerInv'
<1>1. /\ loop[l] \in LoopRecord
      /\ loop[l].todo \in 0..MaxWork /\ loop[l].busy \in BOOLEAN /\ loop[l].at \in Places
      /\ MaxWork \in Nat
      /\ loop[l].at \in {"handler", "handling"} => loop[l].todo > 0
  BY WorkerAssumption DEF WorkerInv, LoopRecord
<1>g. ASSUME NEW place \in Places, place \notin {"panicked", "cut"},
             place \in {"handler", "handling"} => loop[l].todo > 0,
             Running, ~Over(l), GoesTo(l, place)
      PROVE  WorkerInv'
  <2>new. PICK new : new = [loop[l] EXCEPT !.at = place]
    OBVIOUS
  <2>1. new \in LoopRecord /\ new.at = place /\ new.todo = loop[l].todo
    BY <1>1, <2>new DEF LoopRecord
  <2>2. Move(l, new)
    BY <1>g, <2>new DEF GoesTo
  <2> QED BY <1>g, <2>1, <2>2, MoveKeeps
<1>m. ASSUME NEW place \in {"connect", "working"}, loop[l].todo > 0, Running, ~Over(l),
             Move(l, [loop[l] EXCEPT !.at = place, !.todo = @ - 1])
      PROVE  WorkerInv'
  <2>n. PICK n : n = loop[l].todo - 1
    OBVIOUS
  <2>1. n \in 0..MaxWork
    BY <1>1, <1>m, <2>n
  <2>new. PICK new : new = [loop[l] EXCEPT !.at = place, !.todo = n]
    OBVIOUS
  <2>2. new \in LoopRecord /\ new.at = place
    BY <1>1, <2>1, <2>new DEF LoopRecord, Places
  <2>3. Move(l, new)
    BY <1>1, <1>m, <2>n, <2>new DEF LoopRecord
  <2> QED BY <1>m, <2>2, <2>3, MoveKeeps
<1>2. CASE CheckSignal(l)
  <2>0. Running /\ ~Over(l)
    BY <1>2 DEF CheckSignal, Stands, Over
  <2>1. CASE signalled
    BY <1>2, <1>g, <2>0, <2>1 DEF CheckSignal, Places
  <2>2. CASE ~signalled
    <3>1. PICK n \in 0..MaxWork : Move(l, [at |-> "connect", todo |-> n, busy |-> n > 0])
      BY <1>1, <1>2, <2>2 DEF CheckSignal
    <3>new. PICK new : new = [at |-> "connect", todo |-> n, busy |-> n > 0]
      OBVIOUS
    <3>2. new \in LoopRecord /\ new.at = "connect"
      BY <1>1, <3>new DEF LoopRecord, Places
    <3> QED BY <2>0, <3>1, <3>2, <3>new, MoveKeeps
  <2> QED BY <2>1, <2>2
<1>3. CASE Connect(l) \/ HandlerConnects(l)
  <2>0. Running /\ ~Over(l)
    BY <1>3 DEF Connect, HandlerConnects, Stands, Over
  <2>1. \/ GoesTo(l, "working")
        \/ GoesTo(l, "handling") /\ loop[l].todo > 0
    BY <1>1, <1>3 DEF Connect, HandlerConnects, Stands
  <2> QED BY <1>g, <2>0, <2>1 DEF Places
<1>4. CASE NapEnds(l) \/ RoundFails(l) \/ Notice(l) \/ TimeElapses(l) \/ EndBatch(l)
  <2>0. Running /\ ~Over(l)
    BY <1>4 DEF NapEnds, RoundFails, Notice, TimeElapses, EndBatch, Stands, Over
  <2>1. GoesTo(l, "check") \/ GoesTo(l, "nap") \/ GoesTo(l, "sleep")
    BY <1>4 DEF NapEnds, RoundFails, Notice, TimeElapses, EndBatch, AfterFailure
  <2> QED BY <1>g, <2>0, <2>1 DEF Places
<1>5. CASE TimesOut(l)
  <2>1. CASE Stands(l, "connect") /\ GoesTo(l, AfterFailure(l))
    <3>1. GoesTo(l, "nap") \/ GoesTo(l, "sleep")
      BY <2>1 DEF AfterFailure
    <3>2. Running /\ ~Over(l)
      BY <2>1 DEF Stands, Over
    <3> QED BY <1>g, <3>1, <3>2 DEF Places
  <2>2. CASE Stands(l, "handler") /\ Move(l, [loop[l] EXCEPT !.at = "working", !.todo = @ - 1])
    <3>1. Running /\ ~Over(l) /\ loop[l].todo > 0
      BY <1>1, <2>2 DEF Stands, Over
    <3> QED BY <1>m, <2>2, <3>1
  <2> QED BY <1>5, <2>1, <2>2 DEF TimesOut
<1>6. CASE EndTransaction(l)
  <2>0. Running /\ ~Over(l)
    BY <1>6 DEF EndTransaction, Stands, Over
  <2>1. CASE loop[l].todo > 0
    BY <1>6, <1>m, <2>0, <2>1 DEF EndTransaction
  <2>2. CASE ~(loop[l].todo > 0)
    BY <1>6, <1>g, <2>0, <2>2 DEF EndTransaction, Places
  <2> QED BY <2>1, <2>2
<1>7. CASE CallHandler(l)
  <2>0. Running /\ ~Over(l) /\ loop[l].todo > 0 /\ GoesTo(l, "handler")
    BY <1>7 DEF CallHandler, Stands, Over
  <2> QED BY <1>g, <2>0 DEF Places
<1>8. CASE HandlerReturns(l)
  <2>0. Running /\ ~Over(l) /\ loop[l].todo > 0
    BY <1>1, <1>8 DEF HandlerReturns, Stands, Over
  <2> QED BY <1>8, <1>m, <2>0 DEF HandlerReturns
<1> QED BY <1>2, <1>3, <1>4, <1>5, <1>6, <1>7, <1>8 DEF LoopStep

LEMMA PanicKeeps ==
  ASSUME WorkerInv, NEW l \in Loops, Panic(l)
  PROVE  WorkerInv'
<1>1. /\ Running /\ ~Over(l) /\ panics < MaxPanics /\ panics' = panics + 1
      /\ main' = main
  BY DEF Panic, Stands, Over
<1>2. panics' \in 0..MaxPanics /\ panics' > 0
  BY <1>1, WorkerAssumption DEF WorkerInv
<1>3. loop[l] \in LoopRecord
  BY DEF WorkerInv
<1>new. PICK new : new = [loop[l] EXCEPT !.at = "panicked"]
  OBVIOUS
<1>4. new \in LoopRecord /\ new.at = "panicked"
  BY <1>3, <1>new DEF LoopRecord, Places
<1>5. /\ loop' \in [Loops -> LoopRecord]
      /\ \A k \in Loops : loop'[k] = IF k = l THEN new ELSE loop[k]
  BY <1>4, <1>new DEF Panic, WorkerInv
<1>6. main = "awaiting" => \A k \in Joined : loop'[k].at = "ended"
  BY <1>1, <1>5 DEF WorkerInv, Over, Joined
<1> QED BY <1>1, <1>2, <1>4, <1>5, <1>6 DEF WorkerInv, Running

(* The end cuts nothing off unless a loop has panicked.                        *)
LEMMA ReturnKeeps ==
  ASSUME WorkerInv, NEW how \in {"exited", "failed"}, Return(how),
         how = "failed" => panics > 0,
         how = "exited" => \A l \in Loops : loop[l].at = "ended"
  PROVE  WorkerInv'
<1>1. \A l \in Loops :
        /\ loop'[l] = IF Over(l) THEN loop[l]
                      ELSE [loop[l] EXCEPT !.at = IF Keeps(l) > 0 THEN "cut" ELSE "ended"]
        /\ loop[l] \in LoopRecord
  BY DEF Return, WorkerInv
<1>2. \A l \in Loops :
        /\ loop'[l] \in LoopRecord
        /\ Over(l) => loop'[l] = loop[l]
        /\ ~Over(l) => loop'[l].at \in {"cut", "ended"}
  BY <1>1 DEF LoopRecord, Places
<1>3. DOMAIN loop' = Loops /\ loop' = [l \in Loops |-> loop'[l]]
  BY DEF Return
<1>4. loop' \in [Loops -> LoopRecord]
  BY <1>2, <1>3
<1>5. main' = how /\ panics' = panics
  BY DEF Return
<1>6. how = "exited" => \A l \in Loops : loop'[l].at = "ended"
  BY <1>2 DEF Over
<1>7. \A l \in Loops :
        /\ loop'[l].at = "panicked" => panics > 0
        /\ loop'[l].at \notin {"handler", "handling"}
  BY <1>2 DEF WorkerInv, Over
<1> QED BY <1>4, <1>5, <1>6, <1>7 DEF WorkerInv, Running

LEMMA WorkerStep ==
  ASSUME WorkerInv, NoRoundIsCut, [WorkerNext]_workerVars
  PROVE  WorkerInv' /\ NoRoundIsCut'
<1>1. CASE Signal
  <2>1. UNCHANGED <<loop, main, panics>>
    BY <1>1 DEF Signal
  <2> QED BY <2>1 DEF WorkerInv, NoRoundIsCut, Running, Over, Joined
<1>2. CASE JoinAll
  <2>1. CASE Panicked(Joined)
    <3>1. Return("failed") /\ panics > 0
      BY <1>2, <2>1 DEF JoinAll, Panicked, Joined, WorkerInv
    <3>2. WorkerInv' /\ panics' = panics /\ panics # 0
      BY <3>1, ReturnKeeps DEF Return, WorkerInv
    <3> QED BY <3>2 DEF NoRoundIsCut
  <2>2. CASE ~Panicked(Joined)
    <3>1. /\ main' = "awaiting" /\ UNCHANGED <<loop, panics>> /\ Running
          /\ \A l \in Joined : loop[l].at = "ended"
      BY <1>2, <2>2 DEF JoinAll, Panicked, Over, Running
    <3> QED BY <3>1 DEF WorkerInv, NoRoundIsCut, Running, Joined
  <2> QED BY <2>1, <2>2
<1>3. CASE AwaitRest
  <2>o. PICK open : open = {l \in Loops \ Joined : loop[l].at # "ended"}
    OBVIOUS
  <2>1. /\ \A l \in Joined : loop[l].at = "ended"
        /\ IF open = {} THEN Return("exited")
           ELSE loop[NextAwaited(open)].at = "panicked" /\ Return("failed")
    BY <1>3, <2>o DEF AwaitRest, WorkerInv
  <2>2. CASE open # {}
    <3>1. NextAwaited(open) \in Loops
      BY <2>o, <2>2, NextIsOpen
    <3>2. Return("failed") /\ panics > 0
      BY <2>1, <2>2, <3>1 DEF WorkerInv
    <3>3. WorkerInv' /\ panics' = panics /\ panics # 0
      BY <3>2, ReturnKeeps DEF Return, WorkerInv
    <3> QED BY <3>3 DEF NoRoundIsCut
  <2>3. CASE open = {}
    <3>1. Return("exited") /\ \A l \in Loops : loop[l].at = "ended"
      BY <2>o, <2>1, <2>3
    <3>2. WorkerInv' /\ main' = "exited"
      BY <3>1, ReturnKeeps DEF Return
    <3> QED BY <3>2 DEF WorkerInv, NoRoundIsCut
  <2> QED BY <2>1, <2>2, <2>3
<1>4. CASE \E l \in Loops : LoopStep(l) \/ TimeElapses(l) \/ Panic(l)
  <2>1. PICK l \in Loops : LoopStep(l) \/ TimeElapses(l) \/ Panic(l)
    BY <1>4
  <2>2. WorkerInv'
    BY <2>1, LoopKeeps, PanicKeeps
  <2>3. Running
    BY <2>1 DEF LoopStep, TimeElapses, Panic, Stands, CheckSignal, Connect, NapEnds, RoundFails,
       TimesOut, EndTransaction, CallHandler, HandlerConnects, HandlerReturns, EndBatch, Notice
  <2>4. main' = main
    BY <2>1 DEF LoopStep, TimeElapses, Panic, Move, GoesTo, CheckSignal, Connect, NapEnds,
       RoundFails, TimesOut, EndTransaction, CallHandler, HandlerConnects, HandlerReturns,
       EndBatch, Notice
  <2> QED BY <2>2, <2>3, <2>4 DEF WorkerInv, NoRoundIsCut, Running
<1>5. CASE UNCHANGED workerVars
  BY <1>5 DEF workerVars, WorkerInv, NoRoundIsCut, Running, Joined
<1> QED BY <1>1, <1>2, <1>3, <1>4, <1>5 DEF WorkerNext

(* While no loop has panicked, the end of the process finds every round over: main   *)
(* waits for every loop, whatever the pool, the batches and the moment of Ctrl-C.    *)
THEOREM RoundsAreFinished == WorkerSpec => []NoRoundIsCut
<1>1. WorkerInit => WorkerInv /\ NoRoundIsCut
  BY WorkerStarts DEF WorkerInit, NoRoundIsCut
<1>2. WorkerInv /\ NoRoundIsCut /\ [WorkerNext]_workerVars => (WorkerInv /\ NoRoundIsCut)'
  BY WorkerStep
<1> QED BY <1>1, <1>2, PTL DEF WorkerSpec
-----------------------------------------------------------------------------
(* All the parts of the run together *)

(* The inductive invariants of the parts say what each of their variables holds: of    *)
(* notifications and mails,                                                    *)
LEMMA MailInvTyped == MailInv => NotifyTypeOK
<1> SUFFICES ASSUME MailInv PROVE NotifyTypeOK
  OBVIOUS
<1>1. ASSUME NEW d \in Dispatchers, round[d] # Away
      PROVE  /\ round[d].on
             /\ round[d].todo \subseteq Rows /\ DOMAIN round[d].result \subseteq Rows
             /\ \A n \in DOMAIN round[d].result : round[d].result[n] \in Result
  <2>1. round[d] \in OpenRound
    BY <1>1 DEF MailInv
  <2>2. round[d].on = TRUE /\ round[d].todo \subseteq Rows /\ round[d].result \in Outcomes
    BY <2>1 DEF OpenRound
  <2>3. PICK S \in SUBSET Rows : round[d].result \in [S -> Result]
    BY <2>2 DEF Outcomes
  <2> QED
    BY <2>2, <2>3
<1> QED
  BY <1>1 DEF MailInv, NotifyTypeOK, RowShape, Statuses

(* of alarms,                                                                  *)
LEMMA AlarmInvTyped == AlarmInv => AlarmTypeOK
<1> SUFFICES ASSUME AlarmInv PROVE AlarmTypeOK
  OBVIOUS
<1>1. ASSUME NEW t \in AlarmTasks
      PROVE  /\ txn[t].step \in {"idle", "next", "rule", "insert", "dedupe", "open",
                                 "suppress", "acknowledge", "read", "number", "link"}
             /\ txn[t].new \subseteq WorkOrder
             /\ DOMAIN txn[t].rows \subseteq Points
  <2>1. txn[t] \in TxnRecord
    BY DEF AlarmInv
  <2>2. txn[t].step \in FeedSteps \cup OperatorSteps /\ txn[t].new \subseteq WorkOrder /\ txn[t].rows \in Drafts
    BY <2>1 DEF TxnRecord
  <2>3. PICK D \in SUBSET Points : txn[t].rows \in [D -> AlarmRow]
    BY <2>2 DEF Drafts
  <2> QED
    BY <2>2, <2>3 DEF FeedSteps, OperatorSteps
<1> QED
  BY <1>1 DEF AlarmInv, CommittedFits, AlarmTypeOK

(* and of the worker process.                                                  *)
LEMMA WorkerInvTyped == WorkerInv /\ signalled \in BOOLEAN => WorkerTypeOK
<1> SUFFICES ASSUME WorkerInv, signalled \in BOOLEAN PROVE WorkerTypeOK
  OBVIOUS
<1>1. ASSUME NEW l \in Loops
      PROVE  loop[l].at \in Places /\ loop[l].todo \in 0..MaxWork /\ loop[l].busy \in BOOLEAN
  BY DEF WorkerInv, LoopRecord
<1> QED
  BY <1>1 DEF WorkerInv, WorkerTypeOK

(* The signal is never anything but given or not.                                 *)
LEMMA SignalIsBoolean == signalled \in BOOLEAN /\ [WorkerNext]_workerVars => signalled' \in BOOLEAN
<1> SUFFICES ASSUME signalled \in BOOLEAN, [WorkerNext]_workerVars PROVE signalled' \in BOOLEAN
  OBVIOUS
<1>1. ASSUME NEW l \in Loops, LoopStep(l) \/ TimeElapses(l) \/ Panic(l) PROVE signalled' = signalled
  <2>1. ASSUME NEW place, GoesTo(l, place) PROVE signalled' = signalled
    BY <2>1 DEF GoesTo, Move
  <2>2. ASSUME NEW new, Move(l, new) PROVE signalled' = signalled
    BY <2>2 DEF Move
  <2> QED
    BY <1>1, <2>1, <2>2
       DEF LoopStep, TimeElapses, Panic, CheckSignal, Connect, NapEnds, RoundFails, TimesOut,
           EndTransaction, CallHandler, HandlerConnects, HandlerReturns, EndBatch, Notice
<1>2. CASE Signal
  BY <1>2 DEF Signal
<1>3. CASE JoinAll \/ AwaitRest
  BY <1>3 DEF JoinAll, AwaitRest, Return
<1>4. CASE UNCHANGED workerVars
  BY <1>4 DEF workerVars
<1> QED
  BY <1>1, <1>2, <1>3, <1>4 DEF WorkerNext

(* A worker that has ended is in order, too.                                      *)
LEMMA WorkerRests == WorkerExited => WorkerInv /\ NoRoundIsCut
<1> SUFFICES ASSUME WorkerExited PROVE WorkerInv /\ NoRoundIsCut
  OBVIOUS
<1>1. \A l \in Loops : loop[l].at = "ended" /\ loop[l] = [at |-> "ended", todo |-> 0, busy |-> FALSE]
  BY DEF WorkerExited
<1>2. loop \in [Loops -> LoopRecord]
  BY WorkerAssumption DEF WorkerExited, LoopRecord, Places
<1> QED
  BY <1>1, <1>2, WorkerAssumption DEF WorkerExited, WorkerInv, NoRoundIsCut, Running

BackgroundInv ==
  /\ PmInv /\ MeterInv /\ ExportInv /\ MailInv /\ AlarmInv
  /\ WorkerInv /\ NoRoundIsCut /\ signalled \in BOOLEAN

(* A step of the run is a step of one part; every other part rests.                 *)
LEMMA BackgroundStep ==
  [Next]_<<part, pmVars, meterVars, exportVars, notifyVars, alarmVars, workerVars>> =>
    /\ [PmNext]_pmVars /\ [MeterNext]_meterVars /\ [ExportNext]_exportVars
    /\ [NotifyNext]_notifyVars /\ [AlarmNext]_alarmVars /\ [WorkerNext]_workerVars
  BY DEF Next, Maintenance, Meters, ExportPart, Notifications, AlarmPart, WorkerPart

(* It starts in order.                                                         *)
LEMMA BackgroundStarts == Init => BackgroundInv
<1> SUFFICES ASSUME Init PROVE BackgroundInv
  OBVIOUS
<1>1. PmInv /\ MeterInv /\ ExportInv /\ MailInv /\ AlarmInv
  BY InitPmInv, InitMeterInv, InitExportInv, InitMailInv, AlarmStarts DEF Init
<1>2. CASE part = "worker"
  <2>1. WorkerInit
    BY <1>2 DEF Init
  <2>2. WorkerInv
    BY <2>1, WorkerStarts
  <2>3. NoRoundIsCut /\ signalled \in BOOLEAN
    BY <2>1 DEF WorkerInit, NoRoundIsCut
  <2> QED
    BY <1>1, <2>2, <2>3 DEF BackgroundInv
<1>3. CASE part # "worker"
  <2>1. WorkerExited
    BY <1>3 DEF Init
  <2>2. signalled \in BOOLEAN
    BY <2>1 DEF WorkerExited
  <2> QED
    BY <1>1, <2>1, <2>2, WorkerRests DEF BackgroundInv
<1> QED
  BY <1>2, <1>3

(* It stays in order.                                                          *)
LEMMA BackgroundKeeps ==
  BackgroundInv /\ [Next]_<<part, pmVars, meterVars, exportVars, notifyVars, alarmVars, workerVars>>
    => BackgroundInv'
<1> SUFFICES ASSUME BackgroundInv,
                    [Next]_<<part, pmVars, meterVars, exportVars, notifyVars, alarmVars, workerVars>>
             PROVE  BackgroundInv'
  OBVIOUS
<1>1. /\ [PmNext]_pmVars /\ [MeterNext]_meterVars /\ [ExportNext]_exportVars
      /\ [NotifyNext]_notifyVars /\ [AlarmNext]_alarmVars /\ [WorkerNext]_workerVars
  BY BackgroundStep
<1>2. PmInv' /\ MeterInv' /\ MailInv'
  BY <1>1, NextPmInv, MeterInvIsKept, MailInvIsKept DEF BackgroundInv
<1>3. ExportInv'
  BY <1>1, NextStep DEF BackgroundInv
<1>4. AlarmInv'
  BY <1>1, AlarmStep DEF BackgroundInv
<1>5. WorkerInv' /\ NoRoundIsCut' /\ signalled' \in BOOLEAN
  BY <1>1, WorkerStep, SignalIsBoolean DEF BackgroundInv
<1> QED
  BY <1>2, <1>3, <1>4, <1>5 DEF BackgroundInv

(* Plans, meters, exports, mails, alarms and the worker's loops keep their types.     *)
THEOREM BackgroundTyped == Spec => []TypesOK
<1>1. BackgroundInv => TypesOK
  BY MailInvTyped, AlarmInvTyped, WorkerInvTyped
     DEF BackgroundInv, TypesOK, PmInv, MeterInv, ExportInv
<1> QED
  BY <1>1, BackgroundStarts, BackgroundKeeps, PTL DEF Spec

(* A mail goes out again only for a process that died or an answer that was lost, and   *)
(* the end of the process finds every round over unless a loop has panicked.        *)
THEOREM RoundsStayClean == Spec => []RoundsAreClean
<1>1. BackgroundInv => RoundsAreClean
  BY DEF BackgroundInv, RoundsAreClean, MailInv, MailIsCounted, MailOnceUnlessLoss
<1> QED
  BY <1>1, BackgroundStarts, BackgroundKeeps, PTL DEF Spec
=============================================================================
