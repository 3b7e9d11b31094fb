-------------------------- MODULE WorkOrdersProofs --------------------------
(***************************************************************************)
(* Proofs about WorkOrders for any orders, policies, bulk requests and     *)
(* bounds, and about WorkExecution for any orders, shelves, parts and      *)
(* tasks.                                                                  *)
(*                                                                         *)
(* Both versions of a row satisfy RowOK, which relates status, verdict and *)
(* times; the newer version Continues the committed one, so that a commit  *)
(* takes no breach back and judges nothing again.  Every write is either   *)
(* Applied(w, t, r) for a rule r that leaves t.status, or a mark of the    *)
(* sweep on a row that matches the WHERE clause: a lemma for each.         *)
(*                                                                         *)
(* The second half proves first that the library's sums over sets add up,  *)
(* each time by a smallest set where they would not, and then that what an *)
(* open transaction has read, taken and locked makes its commit true.      *)
(***************************************************************************)
EXTENDS WorkOrders, WorkExecution,
  FiniteSetTheorems, SequenceTheorems, WellFoundedInduction, TLAPS

USE WorkOrdersAssumption

-----------------------------------------------------------------------------
(* The catalogue.                                                          *)

(* What the proofs use of a rule, row by row of the seed.                  *)
RuleFact(r) ==
  /\ r.from \in Statuses \ {"absent"} /\ r.to \in Statuses \ {"absent"}
  /\ r.to = "COMPLETED" => r.from \notin Done
  /\ r.to \in {"VERIFIED", "CLOSED"} => r.from \in Done
  /\ r.from \in Done => r.to # r.from
  /\ r.from \in Done => r.to \in Done \/ r.action = "REOPEN"
  /\ r.action = "REOPEN" => r.from \in Done /\ r.to = "IN_PROGRESS"
  /\ r.to = "SLA_BREACHED" <=> r.action = "BREACH_SLA"
  /\ r.action = "BREACH_SLA" => "system" \in r.does
  /\ "set_responded" \in r.does => r.to = "ASSIGNED" /\ r.from \notin Done
  /\ r.to = "SUBMITTED" <=> r.action = "SUBMIT"

(* The members of Allow, field by field.                                   *)
LEMMA AllowFields ==
  ASSUME NEW S, NEW a, NEW to, NEW does, NEW r \in Allow(S, a, to, does)
  PROVE  r.from \in S /\ r.action = a /\ r.to = to /\ r.does = does
BY DEF Allow

(* The seeded catalogue has the facts.                                     *)
LEMMA RuleFacts == \A r \in Rules : RuleFact(r)
<1> SUFFICES ASSUME NEW r \in Rules PROVE RuleFact(r)
  OBVIOUS
<1> USE DEF RuleFact, Done, Statuses, Live, Open, Waiting, InProgress, Terminal
<1>1. CASE r \in ServiceRules
  BY <1>1 DEF ServiceRules
<1>2. CASE r \notin ServiceRules
  BY <1>2, AllowFields DEF Rules
<1> QED BY <1>1, <1>2

(* matched_rule returns a rule that leaves the given status by the given   *)
(* action, or none.                                                        *)
LEMMA MatchedIsMatching ==
  ASSUME NEW w, NEW status, NEW action,
         MatchedRule(w, status, action) # NoRule
  PROVE  MatchedRule(w, status, action) \in Matching(w, status, action)
<1> DEFINE m == Matching(w, status, action)
<1>1. m # {}
  BY DEF MatchedRule
<1>2. \E r \in m : r.type = "SERVICE" \/ m \cap ServiceRules = {}
  BY <1>1 DEF ServiceRules
<1> QED BY <1>1, <1>2 DEF MatchedRule

-----------------------------------------------------------------------------
(* One row.                                                                *)

RowOK(t, n) ==
  /\ t \in WorkOrder
  /\ t.completed_at # Never <=> t.status \in Done
  /\ t.completed_at # Never => t.completed_at <= n
  /\ t.status \in Done => t.sla \notin Watched
  /\ t.sla = "MET" => /\ t.completed_at # Never /\ t.resolution_due_at # Never
                      /\ t.completed_at <= t.resolution_due_at
  /\ t.sla = "RESPONSE_BREACHED" =>
       /\ t.response_due_at # Never /\ n > t.response_due_at
       /\ \/ t.first_responded_at = Never
          \/ t.first_responded_at > t.response_due_at
  /\ t.status = "SLA_BREACHED" => t.sla \in Breached
  /\ t.status = "absent" => t.sla = "ON_TRACK"

(* u may follow t at once for all that others see.                         *)
Continues(w, t, u) ==
  /\ t.sla \in Breached /\ u.sla \notin Breached =>
       t.status \in Done /\ u.status = "IN_PROGRESS"
  /\ t.status \in Done /\ u.status = t.status => u.sla = t.sla
  /\ u.status # t.status /\ t.status # "absent" =>
       \E r \in Rules : /\ r.from = t.status /\ r.to = u.status
                        /\ r \in Matching(w, r.from, r.action)

(* A row that is right stays right as time passes.                         *)
LEMMA RowLater ==
  ASSUME NEW n \in Nat, NEW k \in Nat, n <= k, NEW t, RowOK(t, n)
  PROVE  RowOK(t, k)
BY DEF RowOK, WorkOrder, Times

(* A row may stay as it is.                                                *)
LEMMA ContinuesSelf == \A w, t : Continues(w, t, t)
BY DEF Continues

(* transition_work_order: by any rule that leaves the status of t, except  *)
(* that only a breached order is escalated.                                *)
LEMMA AppliedOK ==
  ASSUME now \in Nat, NEW w, NEW t, RowOK(t, now),
         NEW r \in Rules, r \in Matching(w, t.status, r.action),
         r.action = "BREACH_SLA" => t.sla \in Breached
  PROVE  /\ RowOK(Applied(w, t, r), now)
         /\ Continues(w, t, Applied(w, t, r))
<1> DEFINE u == Applied(w, t, r)
<1>1. RuleFact(r) /\ r.from = t.status
  BY RuleFacts DEF Matching
<1>2. t \in WorkOrder
  BY DEF RowOK
<1>3. /\ u.status = r.to /\ u.sla = NextSla(w, t, r)
      /\ u.first_responded_at = IF Responds(t, r) THEN now
                                ELSE t.first_responded_at
      /\ u.completed_at = CompletedAt(t, r)
  BY DEF Applied
<1>4. FinalVerdict(t) \in SlaStates \ Watched
  BY <1>2 DEF FinalVerdict, WorkOrder, SlaStates, Breached, Watched
<1>5. u.sla \in SlaStates
  BY <1>2, <1>3, <1>4 DEF NextSla, SlaStates, WorkOrder
<1>6. u \in WorkOrder
  BY <1>1, <1>2, <1>5 DEF Applied, CompletedAt, Starts, WorkOrder, Times, RuleFact
<1>7. /\ u.completed_at # Never <=> u.status \in Done
      /\ u.completed_at # Never => u.completed_at <= now
  BY <1>1, <1>2, <1>3 DEF RowOK, CompletedAt, Reopens, RuleFact, Done
<1>8. u.status \in Done => u.sla \notin Watched
  BY <1>1, <1>3, <1>4 DEF RowOK, NextSla, Reopens, RuleFact, Done, Watched
<1>9. u.sla = "MET" => /\ u.completed_at # Never /\ u.resolution_due_at # Never
                       /\ u.completed_at <= u.resolution_due_at
  <2> SUFFICES ASSUME u.sla = "MET"
               PROVE  /\ u.completed_at # Never /\ u.resolution_due_at # Never
                      /\ u.completed_at <= u.resolution_due_at
    OBVIOUS
  <2>1. ~ Reopens(r) /\ ~ (r.to = "SUBMITTED")
    BY <1>1, <1>3 DEF NextSla, RowOK, Reopens, RuleFact, Done
  <2>2. u.resolution_due_at = t.resolution_due_at
    BY <2>1 DEF Applied, Starts, Submits
  <2>3. CASE r.to \in {"COMPLETED", "CLOSED"}
    <3>1. FinalVerdict(t) = "MET"
      BY <1>3, <2>1, <2>3 DEF NextSla
    <3>2. t.resolution_due_at # Never /\ now <= t.resolution_due_at
      BY <3>1 DEF FinalVerdict, Breached
    <3> QED
      BY <1>1, <1>2, <1>3, <1>7, <2>1, <2>2, <2>3, <3>2
      DEF WorkOrder, Times, Done, CompletedAt, RowOK
  <2>4. CASE r.to \notin {"COMPLETED", "CLOSED"}
    <3>1. t.sla = "MET"
      BY <1>3, <2>1, <2>4 DEF NextSla
    <3> QED
      BY <1>3, <2>1, <2>2, <2>4, <3>1 DEF RowOK, CompletedAt
  <2> QED BY <2>3, <2>4
<1>10. u.sla = "RESPONSE_BREACHED" =>
         /\ u.response_due_at # Never /\ now > u.response_due_at
         /\ \/ u.first_responded_at = Never
            \/ u.first_responded_at > u.response_due_at
  <2> SUFFICES ASSUME u.sla = "RESPONSE_BREACHED"
               PROVE  /\ u.response_due_at # Never /\ now > u.response_due_at
                      /\ \/ u.first_responded_at = Never
                         \/ u.first_responded_at > u.response_due_at
    OBVIOUS
  <2>1. \/ t.sla = "RESPONSE_BREACHED"
        \/ Responds(t, r) /\ Past(t.response_due_at)
    BY <1>3 DEF NextSla, FinalVerdict
  <2>2. t.response_due_at # Never /\ now > t.response_due_at
    BY <2>1 DEF RowOK, Past
  <2>3. u.response_due_at = t.response_due_at
    BY <2>2 DEF Applied
  <2>4. CASE Responds(t, r)
    BY <1>3, <2>2, <2>3, <2>4
  <2>5. CASE ~ Responds(t, r)
    BY <1>3, <2>1, <2>2, <2>3, <2>5 DEF RowOK
  <2> QED BY <2>4, <2>5
<1>11. u.status = "SLA_BREACHED" => u.sla \in Breached
  BY <1>1, <1>3 DEF NextSla, Reopens, RuleFact, Responds, Breached
<1>12. u.sla \notin Breached /\ t.sla \in Breached =>
         t.status \in Done /\ u.status = "IN_PROGRESS"
  BY <1>1, <1>3 DEF NextSla, Reopens, RuleFact, FinalVerdict, Breached
<1>13. Continues(w, t, u)
  BY <1>1, <1>3, <1>12 DEF Continues, RuleFact, Matching
<1> QED
  BY <1>1, <1>3, <1>6, <1>7, <1>8, <1>9, <1>10, <1>11, <1>13 DEF RowOK, RuleFact

(* A new row.                                                              *)
LEMMA AbsentOK == \A n : RowOK(Absent, n)
<1>1. Absent \in WorkOrder
  BY DEF Absent, WorkOrder, Times, Statuses, SlaStates
<1> QED BY <1>1 DEF Absent, RowOK, Done, Watched

LEMMA CreatedOK ==
  ASSUME now \in Nat, NEW w, NEW draft \in BOOLEAN
  PROVE  RowOK(Created(w, draft), now)
<1> DEFINE c == Created(w, draft)
<1>1. Absent \in WorkOrder /\ Absent.completed_at = Never /\ Absent.sla = "ON_TRACK"
  BY AbsentOK DEF RowOK, Absent
<1>2. c \in WorkOrder
  <2>1. now + ResponseTime \in Times /\ now + ResolutionTime \in Times
    BY DEF Times
  <2>2. {"DRAFT", "SUBMITTED"} \subseteq Statuses /\ "NOT_APPLICABLE" \in SlaStates
    BY DEF Statuses, Live, Open, SlaStates
  <2> QED BY <1>1, <2>1, <2>2 DEF Created, WorkOrder
<1>3. /\ c.completed_at = Never /\ c.status \in {"DRAFT", "SUBMITTED"}
      /\ c.sla \in {"ON_TRACK", "NOT_APPLICABLE"}
  BY <1>1 DEF Created, WorkOrder
<1> QED BY <1>2, <1>3 DEF RowOK, Done

(* A mark of the sweep: the row that matches is not done and not breached. *)
LEMMA MarkOK ==
  ASSUME now \in Nat, NEW w, NEW s, NEW t, RowOK(s, now), RowOK(t, now),
         Continues(w, s, t), NEW pc \in DOMAIN Statement, Hits(pc, t)
  PROVE  LET u == [t EXCEPT !.sla = Statement[pc].mark]
         IN  /\ RowOK(u, now) /\ Continues(w, s, u)
             /\ u.sla \in Breached \/ pc = "warn"
             /\ t.sla \notin Breached
<1> DEFINE u == [t EXCEPT !.sla = Statement[pc].mark]
<1>1. /\ t \in WorkOrder /\ t.sla \in Watched
      /\ pc = "respond" => Unanswered(t)
  BY DEF Hits, Watched, RowOK
<1>2. /\ t.status \notin Done /\ t.status # "SLA_BREACHED" /\ t.sla \notin Breached
  BY <1>1 DEF RowOK, Watched, Breached
<1>3. /\ u.sla \in {"RESPONSE_BREACHED", "RESOLUTION_BREACHED", "AT_RISK"}
      /\ u.sla = "RESPONSE_BREACHED" => pc = "respond"
      /\ u.sla \in Breached \/ pc = "warn"
  BY <1>1 DEF Statement, WorkOrder, Breached
<1>4. /\ u.status = t.status /\ u.completed_at = t.completed_at
      /\ u.response_due_at = t.response_due_at
      /\ u.resolution_due_at = t.resolution_due_at
      /\ u.first_responded_at = t.first_responded_at
  BY <1>1 DEF WorkOrder
<1>5. u \in WorkOrder
  BY <1>1, <1>3 DEF WorkOrder, SlaStates
<1>6. RowOK(u, now)
  BY <1>1, <1>2, <1>3, <1>4, <1>5 DEF RowOK, Unanswered, Past, Hits, StillLive,
     Live, Open, Waiting, InProgress
<1>7. Continues(w, s, u)
  BY <1>2, <1>3, <1>4 DEF Continues
<1> QED BY <1>2, <1>3, <1>6, <1>7

-----------------------------------------------------------------------------
(* The inductive invariant.                                                *)

RowsInv ==
  \A w \in Orders :
    /\ RowOK(row[w], now) /\ RowOK(tip[w], now) /\ Continues(w, row[w], tip[w])
    /\ lock[w] = None => tip[w] = row[w]

(* Until its escalation the sweep changes no status, and what it will      *)
(* escalate is marked and locked.                                          *)
SweepInv ==
  /\ \A w \in Orders :
       lock[w] = Sweeper /\ (sweep.pc # "escalate" \/ w \in sweep.marked) =>
         tip[w].status = row[w].status
  /\ \A w \in sweep.marked : lock[w] = Sweeper /\ tip[w].sla \in Breached

BulkInv ==
  \A b \in Bulks :
    bulk[b].pc = "apply" => bulk[b].left # <<>> /\ bulk[b].action # "BREACH_SLA"

WorkOrdersInv == TypeOK /\ RowsInv /\ SweepInv /\ BulkInv

(* The invariant holds at the start.                                       *)
LEMMA InitInv == Init => WorkOrdersInv
<1> SUFFICES ASSUME Init PROVE WorkOrdersInv
  OBVIOUS
<1>1. NewBulk \in BulkRequest
  BY DEF NewBulk, BulkRequest
<1>2. IdleSweep \in SweepState
  BY DEF IdleSweep, SweepState
<1>3. TypeOK
  BY <1>1, <1>2, AbsentOK DEF Init, TypeOK, RowOK, Holders
<1>4. RowsInv
  BY AbsentOK, ContinuesSelf DEF Init, RowsInv
<1>5. SweepInv /\ BulkInv
  BY DEF Init, SweepInv, BulkInv, IdleSweep, NewBulk
<1> QED BY <1>3, <1>4, <1>5 DEF WorkOrdersInv

-----------------------------------------------------------------------------
(* Each action keeps the invariant and lets every committed row continue.  *)

Steps == \A w \in Orders : Continues(w, row[w], row'[w])

(* Stuttering.                                                             *)
LEMMA UnchangedStep ==
  ASSUME WorkOrdersInv, UNCHANGED vars
  PROVE  WorkOrdersInv' /\ Steps
BY ContinuesSelf
DEF WorkOrdersInv, TypeOK, RowsInv, SweepInv, BulkInv, vars, Steps

(* A transaction that locks and writes one row.                            *)
LEMMA WriteAloneStep ==
  ASSUME WorkOrdersInv, NEW w \in Orders, NEW new, WriteAlone(w, new),
         RowOK(new, now), Continues(w, row[w], new)
  PROVE  WorkOrdersInv' /\ Steps
<1> USE DEF WorkOrdersInv, WriteAlone
<1>1. TypeOK'
  BY DEF TypeOK, RowOK
<1>2. /\ row' = [row EXCEPT ![w] = new] /\ tip' = [tip EXCEPT ![w] = new]
      /\ row \in [Orders -> WorkOrder] /\ tip \in [Orders -> WorkOrder]
      /\ UNCHANGED <<now, lock, bulk, sweep>> /\ lock[w] = None
  BY DEF TypeOK
<1>3. RowsInv'
  BY <1>2, ContinuesSelf DEF RowsInv
<1>4. SweepInv'
  BY <1>2 DEF SweepInv, TypeOK, SweepState
<1>5. BulkInv'
  BY <1>2 DEF BulkInv
<1>6. Steps
  BY <1>2, ContinuesSelf DEF Steps
<1> QED BY <1>1, <1>3, <1>4, <1>5, <1>6

(* Creation and single transition.                                         *)
LEMMA RequestStep ==
  ASSUME WorkOrdersInv, NEW w \in Orders, Create(w) \/ Transition(w)
  PROVE  WorkOrdersInv' /\ Steps
<1>1. now \in Nat /\ RowOK(row[w], now)
  BY DEF WorkOrdersInv, TypeOK, RowsInv
<1>2. CASE Create(w)
  <2>1. PICK draft \in BOOLEAN : WriteAlone(w, Created(w, draft))
    BY <1>2 DEF Create
  <2>2. Continues(w, row[w], Created(w, draft))
    BY <1>1, <1>2 DEF Create, Continues, RowOK, Breached, Done
  <2> QED BY <1>1, <2>1, <2>2, CreatedOK, WriteAloneStep
<1>3. CASE Transition(w)
  <2>1. PICK a \in Requested[w] :
          LET r == MatchedRule(w, row[w].status, a)
          IN  /\ r # NoRule /\ "system" \notin r.does
              /\ WriteAlone(w, Applied(w, row[w], r))
    BY <1>3 DEF Transition
  <2> DEFINE r == MatchedRule(w, row[w].status, a)
  <2>2. r \in Matching(w, row[w].status, a)
    BY <2>1, MatchedIsMatching
  <2>3. /\ r \in Rules /\ r \in Matching(w, row[w].status, r.action)
        /\ r.action # "BREACH_SLA"
    BY <2>1, <2>2, RuleFacts DEF Matching, RuleFact
  <2> HIDE DEF r
  <2> QED BY <1>1, <2>1, <2>3, AppliedOK, WriteAloneStep DEF r
<1> QED BY <1>2, <1>3

(* Steps of a transaction that writes no row.                              *)
LEMMA QuietStep ==
  ASSUME WorkOrdersInv, UNCHANGED <<now, row, tip, lock, sweep, aborts>>,
         bulk' \in [Bulks -> BulkRequest], BulkInv'
  PROVE  WorkOrdersInv' /\ Steps
BY ContinuesSelf
DEF WorkOrdersInv, TypeOK, RowsInv, SweepInv, Steps

(* A bulk request gives its item up.                                       *)
LEMMA SkipTyped ==
  ASSUME WorkOrdersInv, NEW b \in Bulks, bulk[b].left # <<>>, SkipItem(b)
  PROVE  bulk' \in [Bulks -> BulkRequest] /\ BulkInv'
<1>1. bulk[b] \in BulkRequest /\ bulk \in [Bulks -> BulkRequest]
  BY DEF WorkOrdersInv, TypeOK
<1>2. Tail(bulk[b].left) \in Seq(Orders)
  BY <1>1 DEF BulkRequest
<1>3. /\ bulk' \in [Bulks -> BulkRequest] /\ bulk'[b].pc = "check"
      /\ \A c \in Bulks \ {b} : bulk'[c] = bulk[c]
  BY <1>1, <1>2 DEF SkipItem, BulkRequest
<1> QED BY <1>3 DEF WorkOrdersInv, BulkInv

(* A bulk request begins.                                                  *)
LEMMA BeginBulkStep ==
  ASSUME WorkOrdersInv, NEW b \in Bulks, BeginBulk(b)
  PROVE  WorkOrdersInv' /\ Steps
<1>1. PICK a \in BulkActions, l \in BulkLists :
        bulk' = [bulk EXCEPT ![b].pc = "check", ![b].action = a, ![b].left = l]
  BY DEF BeginBulk
<1>2. bulk[b] \in BulkRequest /\ bulk \in [Bulks -> BulkRequest]
  BY DEF WorkOrdersInv, TypeOK
<1>3. /\ bulk' \in [Bulks -> BulkRequest] /\ bulk'[b].pc = "check"
      /\ \A c \in Bulks \ {b} : bulk'[c] = bulk[c]
  BY <1>1, <1>2 DEF BulkRequest
<1>4. BulkInv'
  BY <1>3 DEF WorkOrdersInv, BulkInv
<1> QED BY <1>3, <1>4, QuietStep DEF BeginBulk

(* The rule that is remembered is none of the system: nobody can ask for an *)
(* escalation.                                                             *)
LEMMA CheckItemStep ==
  ASSUME WorkOrdersInv, NEW b \in Bulks, CheckItem(b)
  PROVE  WorkOrdersInv' /\ Steps
<1> DEFINE r == MatchedRule(Item(b), Visible(b, Item(b)).status, bulk[b].action)
<1>1. CASE SkipItem(b)
  BY <1>1, SkipTyped, QuietStep DEF CheckItem
<1>2. CASE /\ r # NoRule /\ "system" \notin r.does
           /\ bulk' = [bulk EXCEPT ![b].pc = "apply", ![b].checked = r,
                                   ![b].used = NoRule]
  <2>1. bulk[b] \in BulkRequest /\ bulk \in [Bulks -> BulkRequest]
    BY DEF WorkOrdersInv, TypeOK
  <2>2. r \in Rules /\ r.action = bulk[b].action
    BY <1>2, MatchedIsMatching DEF Matching
  <2>3. bulk[b].action # "BREACH_SLA"
    BY <1>2, <2>2, RuleFacts DEF RuleFact
  <2> HIDE DEF r
  <2>4. /\ bulk' \in [Bulks -> BulkRequest]
        /\ bulk'[b].left = bulk[b].left /\ bulk'[b].action = bulk[b].action
        /\ \A c \in Bulks \ {b} : bulk'[c] = bulk[c]
    BY <1>2, <2>1, <2>2 DEF BulkRequest
  <2>5. BulkInv'
    BY <2>3, <2>4 DEF WorkOrdersInv, BulkInv, CheckItem
  <2> QED BY <2>4, <2>5, QuietStep DEF CheckItem
<1> QED BY <1>1, <1>2 DEF CheckItem

(* The rule that is applied is chosen from the locked row.                 *)
LEMMA ApplyItemStep ==
  ASSUME WorkOrdersInv, NEW b \in Bulks, ApplyItem(b)
  PROVE  WorkOrdersInv' /\ Steps
<1> DEFINE w == Item(b)
           r == MatchedRule(w, tip[w].status, bulk[b].action)
<1>1. /\ bulk[b] \in BulkRequest /\ bulk \in [Bulks -> BulkRequest]
      /\ bulk[b].left # <<>> /\ bulk[b].action # "BREACH_SLA"
  BY DEF WorkOrdersInv, TypeOK, BulkInv, ApplyItem
<1>2. w \in Orders /\ Tail(bulk[b].left) \in Seq(Orders)
  BY <1>1 DEF Item, BulkRequest
<1>3. CASE r = NoRule
  BY <1>1, <1>3, SkipTyped, QuietStep DEF ApplyItem
<1>4. CASE r # NoRule
  <2>1. r \in Rules /\ r \in Matching(w, tip[w].status, r.action)
        /\ r.action # "BREACH_SLA"
    BY <1>1, <1>4, MatchedIsMatching DEF Matching
  <2>2. /\ lock[w] = None /\ tip[w] = row[w] /\ RowOK(tip[w], now) /\ now \in Nat
    BY <1>2 DEF ApplyItem, WorkOrdersInv, RowsInv, TypeOK
  <2>3. RowOK(Applied(w, tip[w], r), now) /\ Continues(w, tip[w], Applied(w, tip[w], r))
    <3> HIDE DEF r
    <3> QED BY <2>1, <2>2, AppliedOK
  <2>4. /\ tip' = [tip EXCEPT ![w] = Applied(w, tip[w], r)]
        /\ lock' = [lock EXCEPT ![w] = b]
        /\ bulk' = [bulk EXCEPT ![b].pc = "check", ![b].left = Tail(@), ![b].used = r]
        /\ UNCHANGED <<now, row, sweep, aborts>>
    BY <1>4 DEF ApplyItem
  <2> DEFINE u == Applied(w, tip[w], r)
  <2> HIDE DEF r, u, w
  <2>5. /\ bulk' \in [Bulks -> BulkRequest] /\ bulk'[b].pc = "check"
        /\ \A c \in Bulks \ {b} : bulk'[c] = bulk[c]
    BY <1>1, <1>2, <2>1, <2>4 DEF BulkRequest
  <2>6. TypeOK'
    BY <1>2, <2>3, <2>4, <2>5 DEF WorkOrdersInv, TypeOK, RowOK, Holders, u
  <2>7. RowsInv'
    BY <1>2, <2>2, <2>3, <2>4 DEF WorkOrdersInv, TypeOK, RowsInv, u
  <2>8. SweepInv'
    BY <1>2, <2>2, <2>4 DEF WorkOrdersInv, TypeOK, SweepInv, SweepState
  <2>9. BulkInv'
    BY <2>5 DEF WorkOrdersInv, BulkInv
  <2> QED BY <2>4, <2>6, <2>7, <2>8, <2>9, ContinuesSelf DEF WorkOrdersInv, Steps
<1> QED BY <1>3, <1>4

(* COMMIT makes the newer versions of the rows of p visible.               *)
LEMMA CommitRowsStep ==
  ASSUME WorkOrdersInv, NEW p \in Holders, CommitRows(p), UNCHANGED now
  PROVE  /\ row' \in [Orders -> WorkOrder] /\ tip' \in [Orders -> WorkOrder]
         /\ lock' \in [Orders -> Holders \cup {None}]
         /\ RowsInv' /\ Steps
         /\ \A w \in Orders : /\ lock[w] # p => lock'[w] = lock[w] /\ row'[w] = row[w]
                              /\ lock[w] = p => lock'[w] = None
                              /\ tip'[w] = tip[w]
BY ContinuesSelf DEF WorkOrdersInv, TypeOK, RowsInv, CommitRows, Steps, Holders

(* The same for ROLLBACK.                                                  *)
LEMMA RollbackRowsStep ==
  ASSUME WorkOrdersInv, NEW p \in Holders, RollbackRows(p), UNCHANGED now
  PROVE  /\ row' \in [Orders -> WorkOrder] /\ tip' \in [Orders -> WorkOrder]
         /\ lock' \in [Orders -> Holders \cup {None}]
         /\ RowsInv' /\ Steps
         /\ \A w \in Orders : /\ lock[w] # p => lock'[w] = lock[w] /\ tip'[w] = tip[w]
                              /\ lock[w] = p => lock'[w] = None
                              /\ row'[w] = row[w]
BY ContinuesSelf DEF WorkOrdersInv, TypeOK, RowsInv, RollbackRows, Steps, Holders

(* A bulk request commits, or its connection is lost.                      *)
LEMMA EndBulkStep ==
  ASSUME WorkOrdersInv, NEW b \in Bulks, CommitBulk(b) \/ LoseBulk(b)
  PROVE  WorkOrdersInv' /\ Steps
<1>1. bulk \in [Bulks -> BulkRequest] /\ b \in Holders /\ b # Sweeper
  BY DEF WorkOrdersInv, TypeOK, Holders
<1>2. /\ bulk' \in [Bulks -> BulkRequest] /\ bulk'[b].pc = "done"
      /\ \A c \in Bulks \ {b} : bulk'[c] = bulk[c]
  <2>1. NewBulk \in BulkRequest
    BY DEF NewBulk, BulkRequest
  <2>2. /\ [NewBulk EXCEPT !.pc = "done"] \in BulkRequest
        /\ [NewBulk EXCEPT !.pc = "done"].pc = "done"
    BY <2>1 DEF BulkRequest
  <2> QED BY <1>1, <2>2 DEF CommitBulk, LoseBulk, EndBulk
<1>3. BulkInv'
  BY <1>2 DEF WorkOrdersInv, BulkInv
<1>4. UNCHANGED <<now, sweep, aborts>>
  BY DEF CommitBulk, LoseBulk
<1>5. CASE CommitBulk(b)
  <2>1. SweepInv'
    BY <1>1, <1>4, <1>5, CommitRowsStep
    DEF CommitBulk, WorkOrdersInv, SweepInv, TypeOK, SweepState
  <2> QED
    BY <1>1, <1>2, <1>3, <1>4, <1>5, <2>1, CommitRowsStep
    DEF CommitBulk, WorkOrdersInv, TypeOK
<1>6. CASE LoseBulk(b)
  <2>1. SweepInv'
    BY <1>1, <1>4, <1>6, RollbackRowsStep
    DEF LoseBulk, WorkOrdersInv, SweepInv, TypeOK, SweepState
  <2> QED
    BY <1>1, <1>2, <1>3, <1>4, <1>6, <2>1, RollbackRowsStep
    DEF LoseBulk, WorkOrdersInv, TypeOK
<1> QED BY <1>5, <1>6

(* Steps of the sweep that write no row.                                   *)
LEMMA QuietSweepStep ==
  ASSUME WorkOrdersInv, UNCHANGED <<now, row, tip, lock, bulk, aborts>>,
         sweep' \in SweepState, SweepInv'
  PROVE  WorkOrdersInv' /\ Steps
BY ContinuesSelf
DEF WorkOrdersInv, TypeOK, RowsInv, BulkInv, Steps

(* What a statement of the sweep finds.                                    *)
LEMMA SnapshotTyped ==
  ASSUME WorkOrdersInv, NEW pc
  PROVE  Snapshot(pc) \in SUBSET (Orders \X Statuses)
BY DEF Snapshot, Visible, WorkOrdersInv, TypeOK, WorkOrder

(* The statements of the sweep.                                            *)
LEMMA StatementDomain == DOMAIN Statement = {"respond", "resolve", "warn"}
BY DEF Statement

(* The statements that follow.                                             *)
LEMMA StatementNext ==
  \A pc \in DOMAIN Statement : Statement[pc].next \in {"resolve", "warn", "escalate"}
BY DEF Statement

(* The sweep begins, or takes its next snapshot.                           *)
LEMMA SweepMovesStep ==
  ASSUME WorkOrdersInv, BeginSweep \/ NextStatement
  PROVE  WorkOrdersInv' /\ Steps
<1>1. CASE BeginSweep
  <2>1. sweep' \in SweepState
    BY <1>1, SnapshotTyped, StatementDomain DEF BeginSweep, SweepState
  <2>2. SweepInv'
    BY <1>1 DEF BeginSweep, WorkOrdersInv, SweepInv
  <2> QED BY <1>1, <2>1, <2>2, QuietSweepStep DEF BeginSweep
<1>2. CASE NextStatement
  <2>1. PICK pc \in {"resolve", "warn", "escalate"} :
          sweep' = [sweep EXCEPT !.pc = pc,
                      !.todo = IF pc = "escalate" THEN {} ELSE Snapshot(pc)]
    BY <1>2, StatementNext DEF NextStatement
  <2>2. sweep \in SweepState
    BY DEF WorkOrdersInv, TypeOK
  <2>3. sweep' \in SweepState /\ sweep'.marked = sweep.marked
    BY <2>1, <2>2, SnapshotTyped, StatementDomain DEF SweepState
  <2>4. sweep.pc # "escalate"
    BY <1>2, StatementDomain DEF NextStatement
  <2>5. SweepInv'
    BY <1>2, <2>3, <2>4 DEF NextStatement, WorkOrdersInv, SweepInv
  <2> QED BY <1>2, <2>3, <2>5, QuietSweepStep DEF NextStatement
<1> QED BY <1>1, <1>2

(* A mark: the row was the committed one, or a mark of the same sweep on it. *)
LEMMA MarkRowStep ==
  ASSUME WorkOrdersInv, NEW w \in Orders, MarkRow(w)
  PROVE  WorkOrdersInv' /\ Steps
<1>1. PICK h \in sweep.todo :
        /\ h[1] = w /\ lock[w] \in {None, Sweeper}
        /\ IF tip[w].status = h[2] /\ Hits(sweep.pc, tip[w])
           THEN /\ tip' = [tip EXCEPT ![w].sla = Statement[sweep.pc].mark]
                /\ lock' = [lock EXCEPT ![w] = Sweeper]
                /\ sweep' = [sweep EXCEPT !.todo = @ \ {h},
                     !.marked = IF sweep.pc = "warn" THEN @ ELSE @ \cup {w}]
           ELSE /\ sweep' = [sweep EXCEPT !.todo = @ \ {h}]
                /\ UNCHANGED <<tip, lock>>
        /\ UNCHANGED <<now, row, bulk, aborts>>
  BY DEF MarkRow
<1>2. sweep \in SweepState /\ now \in Nat /\ Sweeper \in Holders
  BY DEF WorkOrdersInv, TypeOK, Holders
<1>3. CASE ~ (tip[w].status = h[2] /\ Hits(sweep.pc, tip[w]))
  <2>1. /\ sweep' \in SweepState
        /\ sweep'.pc = sweep.pc /\ sweep'.marked = sweep.marked
    BY <1>1, <1>2, <1>3 DEF SweepState
  <2>2. SweepInv'
    BY <1>1, <1>3, <2>1 DEF WorkOrdersInv, SweepInv
  <2> QED BY <1>1, <1>3, <2>1, <2>2, QuietSweepStep
<1>4. CASE tip[w].status = h[2] /\ Hits(sweep.pc, tip[w])
  <2> DEFINE u == [tip[w] EXCEPT !.sla = Statement[sweep.pc].mark]
  <2>1. sweep.pc \in DOMAIN Statement
    BY <1>4, StatementDomain DEF Hits
  <2>2. /\ RowOK(u, now) /\ Continues(w, row[w], u)
        /\ u.sla \in Breached \/ sweep.pc = "warn"
        /\ tip[w].sla \notin Breached
    BY <1>2, <1>4, <2>1, MarkOK DEF WorkOrdersInv, RowsInv
  <2>3. /\ tip' = [tip EXCEPT ![w] = u] /\ u.status = tip[w].status
        /\ u \in WorkOrder /\ tip \in [Orders -> WorkOrder]
    <3>1. tip \in [Orders -> WorkOrder] /\ tip[w] \in WorkOrder
      BY DEF WorkOrdersInv, TypeOK
    <3>2. u.status = tip[w].status
      BY <3>1 DEF WorkOrder
    <3>3. tip' = [tip EXCEPT ![w] = u]
      BY <1>1, <1>4, <3>1
    <3> QED BY <2>2, <3>1, <3>2, <3>3 DEF RowOK
  <2> HIDE DEF u
  <2>4. /\ sweep' \in SweepState /\ sweep'.pc = sweep.pc
        /\ sweep'.marked = IF sweep.pc = "warn" THEN sweep.marked
                           ELSE sweep.marked \cup {w}
    <3> DEFINE m == IF sweep.pc = "warn" THEN sweep.marked ELSE sweep.marked \cup {w}
    <3>1. sweep' = [sweep EXCEPT !.todo = sweep.todo \ {h}, !.marked = m]
      BY <1>1, <1>4
    <3>2. m \in SUBSET Orders /\ sweep.todo \ {h} \in SUBSET (Orders \X Statuses)
      BY <1>2 DEF SweepState
    <3> HIDE DEF m
    <3>3. sweep' \in SweepState /\ sweep'.pc = sweep.pc /\ sweep'.marked = m
      BY <1>2, <3>1, <3>2 DEF SweepState
    <3> QED BY <3>3 DEF m
  <2>5. lock' = [lock EXCEPT ![w] = Sweeper] /\ UNCHANGED <<now, row, bulk, aborts>>
    BY <1>1, <1>4
  <2>6. TypeOK'
    BY <1>2, <2>3, <2>4, <2>5 DEF WorkOrdersInv, TypeOK
  <2>7. RowsInv'
    BY <1>2, <2>2, <2>3, <2>5 DEF WorkOrdersInv, TypeOK, RowsInv, Holders
  <2>8. tip[w].status = row[w].status
    <3>1. CASE lock[w] = None
      BY <3>1 DEF WorkOrdersInv, RowsInv
    <3>2. CASE lock[w] = Sweeper
      BY <2>1, <3>2, StatementDomain DEF WorkOrdersInv, SweepInv
    <3> QED BY <1>1, <3>1, <3>2
  <2>9. SweepInv'
    <3>1. w \notin sweep.marked
      BY <2>2 DEF WorkOrdersInv, SweepInv
    <3>2. \A v \in Orders : v # w => lock'[v] = lock[v] /\ tip'[v] = tip[v]
      BY <2>3, <2>5 DEF WorkOrdersInv, TypeOK
    <3>3. lock'[w] = Sweeper /\ tip'[w] = u
      BY <2>3, <2>5 DEF WorkOrdersInv, TypeOK
    <3> QED
      BY <1>2, <2>2, <2>3, <2>4, <2>5, <2>8, <3>1, <3>2, <3>3
      DEF WorkOrdersInv, SweepInv, SweepState
  <2> QED
    BY <2>5, <2>6, <2>7, <2>9, ContinuesSelf DEF WorkOrdersInv, BulkInv, Steps
<1> QED BY <1>3, <1>4

(* An escalation: the row is marked and locked, its status still the       *)
(* committed one.                                                          *)
LEMMA EscalateStep ==
  ASSUME WorkOrdersInv, NEW w \in Orders, Escalate(w)
  PROVE  WorkOrdersInv' /\ Steps
<1> DEFINE r == MatchedRule(w, tip[w].status, "BREACH_SLA")
           u == IF r = NoRule THEN tip[w] ELSE Applied(w, tip[w], r)
<1>1. /\ sweep \in SweepState /\ now \in Nat /\ tip \in [Orders -> WorkOrder]
      /\ RowOK(tip[w], now) /\ Continues(w, row[w], tip[w])
      /\ lock[w] = Sweeper /\ tip[w].sla \in Breached
      /\ tip[w].status = row[w].status
  BY DEF Escalate, WorkOrdersInv, TypeOK, RowsInv, SweepInv
<1>2. /\ tip' = [tip EXCEPT ![w] = u] /\ UNCHANGED <<now, row, lock, bulk, aborts>>
      /\ sweep' = [sweep EXCEPT !.marked = @ \ {w}] /\ sweep.pc = "escalate"
  BY DEF Escalate
<1>3. RowOK(u, now) /\ Continues(w, row[w], u)
  <2>1. CASE r = NoRule
    BY <1>1, <2>1
  <2>2. CASE r # NoRule
    <3>1. r \in Rules /\ r.action = "BREACH_SLA" /\ r.from = tip[w].status
          /\ r \in Matching(w, tip[w].status, r.action)
      BY <2>2, MatchedIsMatching DEF Matching
    <3>2. u = Applied(w, tip[w], r)
      BY <2>2
    <3> HIDE DEF r, u
    <3>3. RowOK(u, now) /\ Continues(w, tip[w], u)
      BY <1>1, <3>1, <3>2, AppliedOK
    <3>4. r.to = "SLA_BREACHED"
      BY <3>1, RuleFacts DEF RuleFact
    <3>5. u.status = "SLA_BREACHED" /\ u.sla \in Breached
      BY <3>2, <3>3, <3>4 DEF Applied, RowOK
    <3> QED BY <1>1, <3>3, <3>5 DEF Continues, Done
  <2> QED BY <2>1, <2>2
<1> HIDE DEF u
<1>4. sweep' \in SweepState /\ sweep'.pc = "escalate"
      /\ sweep'.marked = sweep.marked \ {w}
  BY <1>1, <1>2 DEF SweepState
<1>5. TypeOK'
  BY <1>1, <1>2, <1>3, <1>4 DEF WorkOrdersInv, TypeOK, RowOK
<1>6. RowsInv'
  BY <1>1, <1>2, <1>3, StatementDomain DEF WorkOrdersInv, RowsInv
<1>7. SweepInv'
  BY <1>1, <1>2, <1>4 DEF WorkOrdersInv, SweepInv, SweepState
<1> QED
  BY <1>2, <1>5, <1>6, <1>7, ContinuesSelf DEF WorkOrdersInv, BulkInv, Steps

(* The end of a sweep frees every lock it holds.                           *)
LEMMA EndSweepStep ==
  ASSUME WorkOrdersInv, CommitSweep \/ LoseSweep \/ SweepVictim
  PROVE  WorkOrdersInv' /\ Steps
<1>1. /\ Sweeper \in Holders /\ IdleSweep \in SweepState /\ IdleSweep.marked = {}
      /\ sweep' = IdleSweep /\ UNCHANGED <<now, bulk>>
      /\ aborts' \in 0..MaxAborts /\ now \in Nat
  BY DEF Holders, IdleSweep, SweepState, CommitSweep, LoseSweep, SweepVictim,
     WorkOrdersInv, TypeOK
<1>2. ASSUME /\ row' \in [Orders -> WorkOrder] /\ tip' \in [Orders -> WorkOrder]
             /\ lock' \in [Orders -> Holders \cup {None}]
             /\ RowsInv' /\ Steps /\ \A w \in Orders : lock'[w] # Sweeper
      PROVE  WorkOrdersInv' /\ Steps
  <2>1. TypeOK'
    BY <1>1, <1>2 DEF WorkOrdersInv, TypeOK
  <2>2. SweepInv' /\ BulkInv'
    BY <1>1, <1>2 DEF WorkOrdersInv, SweepInv, BulkInv
  <2> QED BY <1>2, <2>1, <2>2 DEF WorkOrdersInv
<1>3. CASE CommitSweep
  <2>1. CommitRows(Sweeper)
    BY <1>3 DEF CommitSweep
  <2>2. \A w \in Orders : lock'[w] # Sweeper
    BY <2>1 DEF CommitRows
  <2> QED BY <1>1, <1>2, <2>1, <2>2, CommitRowsStep
<1>4. CASE LoseSweep \/ SweepVictim
  <2>1. RollbackRows(Sweeper)
    BY <1>4 DEF LoseSweep, SweepVictim
  <2>2. \A w \in Orders : lock'[w] # Sweeper
    BY <2>1 DEF RollbackRows
  <2> QED BY <1>1, <1>2, <2>1, <2>2, RollbackRowsStep
<1> QED BY <1>3, <1>4

(* Only a bulk request that waits for a row can be in a deadlock.          *)
LEMMA BulkVictimStep ==
  ASSUME WorkOrdersInv, NEW b \in Bulks, BulkVictim(b)
  PROVE  WorkOrdersInv' /\ Steps
<1>1. PICK cycle \in SUBSET Holders :
        b \in cycle /\ \A q \in cycle : \E u \in cycle : WaitsFor(q, u)
  BY DEF BulkVictim, Deadlocked
<1>2. WaitsOn(b) # {} /\ b # Sweeper
  BY <1>1 DEF WaitsFor
<1>3. bulk[b].left # <<>>
  BY <1>2 DEF WaitsOn, WorkOrdersInv, BulkInv
<1> QED BY <1>3, SkipTyped, QuietStep DEF BulkVictim

(* Time passes.                                                            *)
LEMMA TickStep ==
  ASSUME WorkOrdersInv, Tick
  PROVE  WorkOrdersInv' /\ Steps
<1>1. now \in Nat /\ now' \in 0..MaxTime /\ now <= now' /\ now' \in Nat
  BY DEF Tick, WorkOrdersInv, TypeOK
<1>2. TypeOK'
  BY <1>1 DEF Tick, WorkOrdersInv, TypeOK
<1>3. RowsInv'
  BY <1>1, RowLater DEF Tick, WorkOrdersInv, RowsInv
<1>4. SweepInv' /\ BulkInv' /\ Steps
  BY ContinuesSelf DEF Tick, WorkOrdersInv, SweepInv, BulkInv, Steps
<1> QED BY <1>2, <1>3, <1>4 DEF WorkOrdersInv

(* Every step.                                                             *)
LEMMA NextStep ==
  ASSUME WorkOrdersInv, [Next]_vars
  PROVE  WorkOrdersInv' /\ Steps
<1>1. CASE \E w \in Orders : Create(w) \/ Transition(w)
  BY <1>1, RequestStep
<1>2. CASE \E b \in Bulks : BulkStep(b) \/ LoseBulk(b)
  BY <1>2, BeginBulkStep, CheckItemStep, ApplyItemStep, EndBulkStep,
     BulkVictimStep DEF BulkStep
<1>3. CASE SweepStep \/ LoseSweep
  BY <1>3, SweepMovesStep, MarkRowStep, EscalateStep, EndSweepStep DEF SweepStep
<1>4. CASE Tick
  BY <1>4, TickStep
<1>5. CASE UNCHANGED vars
  BY <1>5, UnchangedStep
<1> QED BY <1>1, <1>2, <1>3, <1>4, <1>5 DEF Next

(* The inductive invariant holds throughout.                               *)
THEOREM Invariance == Spec => []WorkOrdersInv
<1>1. WorkOrdersInv /\ [Next]_vars => WorkOrdersInv'
  BY NextStep
<1> QED BY <1>1, InitInv, PTL DEF Spec

-----------------------------------------------------------------------------
(* The properties.                                                         *)

(* Type correctness of rows, bulk requests and the sweep.                  *)
THEOREM TypeCorrect == Spec => []TypeOK
<1>1. WorkOrdersInv => TypeOK
  BY DEF WorkOrdersInv
<1> QED BY <1>1, Invariance, PTL

(* The committed rows agree with themselves: completion time and status,   *)
(* MET and the deadline, a late response and its times, escalation and     *)
(* breach.                                                                 *)
THEOREM VerdictsAgree == Spec => []VerdictsHold
<1>1. WorkOrdersInv => DoneHasTime /\ MetMeansInTime
  BY DEF WorkOrdersInv, RowsInv, RowOK, DoneHasTime, MetMeansInTime
<1>2. WorkOrdersInv => LateResponseIsReal /\ EscalatedIsBreached
  BY DEF WorkOrdersInv, RowsInv, RowOK, LateResponseIsReal, EscalatedIsBreached, Past
<1>3. WorkOrdersInv => VerdictsHold
  BY <1>1, <1>2 DEF VerdictsHold
<1> QED BY <1>3, Invariance, PTL

(* No step takes a recorded breach back, except reopening.                 *)
THEOREM BreachesAreKept == Spec => BreachIsKept
<1>1. WorkOrdersInv /\ [Next]_vars =>
        [\A w \in Orders :
           Leaves(w, Breached) =>
             row[w].status \in Done /\ row'[w].status = "IN_PROGRESS"]_vars
  BY NextStep DEF Steps, Continues, Leaves
<1> QED BY <1>1, Invariance, PTL DEF Spec, BreachIsKept

(* No step changes the verdict of a completed order that keeps its status. *)
THEOREM DoneIsLeftAlone == Spec => SweepLeavesDoneAlone
<1>1. WorkOrdersInv /\ [Next]_vars =>
        [\A w \in Orders :
           row[w].status \in Done /\ row'[w].status = row[w].status =>
             row'[w].sla = row[w].sla]_vars
  BY NextStep DEF Steps, Continues
<1> QED BY <1>1, Invariance, PTL DEF Spec, SweepLeavesDoneAlone

(* The two together.                                                       *)
THEOREM VerdictsKept == Spec => VerdictsAreKept
<1>1. WorkOrdersInv /\ [Next]_vars =>
        [\A w \in Orders :
           /\ Leaves(w, Breached) =>
                row[w].status \in Done /\ row'[w].status = "IN_PROGRESS"
           /\ row[w].status \in Done /\ row'[w].status = row[w].status =>
                row'[w].sla = row[w].sla]_vars
  BY NextStep DEF Steps, Continues, Leaves
<1> QED BY <1>1, Invariance, PTL DEF Spec, VerdictsAreKept

(* Every committed status change is one rule of the catalogue.             *)
THEOREM TransitionsAreLegal == Spec => LegalTransitions
<1>1. WorkOrdersInv /\ [Next]_vars =>
        [\A w \in Orders :
           row'[w].status # row[w].status /\ row[w].status # "absent" =>
             \E r \in Rules : /\ r.from = row[w].status /\ r.to = row'[w].status
                              /\ r \in Matching(w, r.from, r.action)]_vars
  BY NextStep DEF Steps, Continues
<1> QED BY <1>1, Invariance, PTL DEF Spec, LegalTransitions

(* No step does what the catalogue or an earlier verdict forbids.          *)
THEOREM LawfulSteps == Spec => StepsAreLawful
<1> QED BY VerdictsKept, TransitionsAreLegal, PTL DEF StepsAreLawful
HIDE WorkOrdersAssumption

-----------------------------------------------------------------------------
(* Sums.  The library sums by recursion over subsets; the function exists, which   *)
(* is shown by a smallest subset for which it does not.                        *)

(* A nonempty set of finite sets has an element without a proper subset in it.    *)
LEMMA SmallestSet ==
  ASSUME NEW S, IsFiniteSet(S), NEW B \in SUBSET (SUBSET S), B # {}
  PROVE  \E m \in B : \A n \in B : n \subseteq m => n = m
<1> DEFINE Sizes == {Cardinality(m) : m \in B}
<1>1. \A m \in B : IsFiniteSet(m) /\ Cardinality(m) \in Nat
  BY FS_Subset, FS_CardinalityType
<1>2. Sizes \subseteq Nat /\ Sizes # {}
  BY <1>1
<1>3. PICK k \in Sizes : \A m \in Sizes : <<m, k>> \notin OpToRel(<, Nat)
  <2> HIDE DEF Sizes
  <2> QED
    BY <1>2, WFMin, NatLessThanWellFounded
<1>4. PICK m \in B : k = Cardinality(m)
  OBVIOUS
<1>5. ASSUME NEW n \in B, n \subseteq m PROVE n = m
  <2>1. Cardinality(n) <= Cardinality(m) /\ (Cardinality(m) = Cardinality(n) => m = n)
    BY <1>1, <1>5, FS_Subset
  <2>2. Cardinality(n) \in Nat /\ Cardinality(m) \in Nat /\ Cardinality(n) \in Sizes
    BY <1>1
  <2>3. ~(Cardinality(n) < Cardinality(m))
    BY <1>3, <1>4, <2>2 DEF OpToRel
  <2> QED
    BY <2>1, <2>2, <2>3
<1> QED
  BY <1>5

Chosen(s) == CHOOSE x \in s : TRUE
SumsUp(f, fun, S) ==
  f = [s \in SUBSET S |-> IF s = {} THEN 0 ELSE fun[Chosen(s)] + f[s \ {Chosen(s)}]]

(* Two functions that sum up agree wherever both are defined. *)
LEMMA SumsAgree ==
  ASSUME NEW fun, NEW A, NEW B, IsFiniteSet(A), NEW f, NEW g, SumsUp(f, fun, A), SumsUp(g, fun, B),
         NEW s \in (SUBSET A) \cap (SUBSET B)
  PROVE  f[s] = g[s]
<1> DEFINE Bad == {u \in (SUBSET A) \cap (SUBSET B) : f[u] # g[u]}
<1> SUFFICES ASSUME Bad # {} PROVE FALSE
  OBVIOUS
<1>1. PICK m \in Bad : \A n \in Bad : n \subseteq m => n = m
  <2>1. Bad \in SUBSET (SUBSET A)
    OBVIOUS
  <2> HIDE DEF Bad
  <2> QED
    BY <2>1, SmallestSet
<1>2. m \in SUBSET A /\ m \in SUBSET B /\ f[m] # g[m]
  OBVIOUS
<1>3. f[m] = IF m = {} THEN 0 ELSE fun[Chosen(m)] + f[m \ {Chosen(m)}]
  BY <1>2 DEF SumsUp
<1>4. g[m] = IF m = {} THEN 0 ELSE fun[Chosen(m)] + g[m \ {Chosen(m)}]
  BY <1>2 DEF SumsUp
<1>5. m # {}
  BY <1>2, <1>3, <1>4
<1>6. Chosen(m) \in m
  BY <1>5 DEF Chosen
<1>7. m \ {Chosen(m)} \in SUBSET A /\ m \ {Chosen(m)} \in SUBSET B /\ m \ {Chosen(m)} # m
      /\ m \ {Chosen(m)} \subseteq m
  BY <1>2, <1>6
<1>8. f[m \ {Chosen(m)}] = g[m \ {Chosen(m)}]
  BY <1>1, <1>7
<1> QED
  BY <1>2, <1>3, <1>4, <1>8

(* The same for the whole of the smaller set. *)
LEMMA SumsAgreeBelow ==
  ASSUME NEW fun, NEW S, NEW V \in SUBSET S, IsFiniteSet(V), NEW f, NEW g,
         SumsUp(g, fun, V), SumsUp(f, fun, S)
  PROVE  g[V] = f[V]
<1>1. V \in (SUBSET V) \cap (SUBSET S)
  OBVIOUS
<1> QED
  BY <1>1, SumsAgree

(* A finite set of numbers has a function that sums up its subsets. *)
LEMMA SumsExist ==
  ASSUME NEW fun, NEW S, IsFiniteSet(S), \A x \in S : fun[x] \in Int
  PROVE  \E f \in [SUBSET S -> Int] : SumsUp(f, fun, S)
<1> DEFINE Bad == {u \in SUBSET S : ~\E f \in [SUBSET u -> Int] : SumsUp(f, fun, u)}
<1> SUFFICES ASSUME Bad # {} PROVE FALSE
  <2>1. S \notin Bad => \E f \in [SUBSET S -> Int] : SumsUp(f, fun, S)
    OBVIOUS
  <2> QED
    BY <2>1
<1>1. PICK m \in Bad : \A n \in Bad : n \subseteq m => n = m
  <2>1. Bad \in SUBSET (SUBSET S)
    OBVIOUS
  <2> HIDE DEF Bad
  <2> QED
    BY <2>1, SmallestSet
<1> DEFINE Sol(u) == CHOOSE f \in [SUBSET u -> Int] : SumsUp(f, fun, u)
           Val(u) == IF u = {} THEN 0 ELSE fun[Chosen(u)] + Sol(u \ {Chosen(u)})[u \ {Chosen(u)}]
           g == [u \in SUBSET m |-> Val(u)]
<1>2. \A u \in SUBSET m : u # m => Sol(u) \in [SUBSET u -> Int] /\ SumsUp(Sol(u), fun, u)
  <2> TAKE u \in SUBSET m
  <2>1. u # m => u \notin Bad /\ u \in SUBSET S
    BY <1>1
  <2>2. u # m => \E f \in [SUBSET u -> Int] : SumsUp(f, fun, u)
    BY <2>1
  <2> HIDE DEF Bad
  <2> QED
    BY <2>2
<1>3. m \in SUBSET S /\ \A u \in SUBSET m : IsFiniteSet(u)
  BY FS_Subset
<1> HIDE DEF Bad, Sol
<1>4. ASSUME NEW u \in SUBSET m, u # {}
      PROVE  /\ Chosen(u) \in u /\ u \ {Chosen(u)} \in SUBSET m /\ u \ {Chosen(u)} # m
             /\ fun[Chosen(u)] \in Int
  <2>1. Chosen(u) \in u
    BY <1>4 DEF Chosen
  <2> QED
    BY <1>3, <2>1
<1>5. \A u \in SUBSET m : Val(u) \in Int
  <2> TAKE u \in SUBSET m
  <2>1. CASE u = {}
    BY <2>1
  <2>2. CASE u # {}
    <3> DEFINE v == u \ {Chosen(u)}
    <3>1. v \in SUBSET m /\ v # m /\ fun[Chosen(u)] \in Int
      BY <1>4, <2>2
    <3>2. Sol(v) \in [SUBSET v -> Int] /\ v \in SUBSET v
      BY <1>2, <3>1
    <3>3. Sol(v)[v] \in Int
      BY <3>2
    <3> QED
      BY <2>2, <3>1, <3>3
  <2> QED
    BY <2>1, <2>2
<1>6. ASSUME NEW u \in SUBSET m, u # m PROVE Sol(u)[u] = Val(u)
  <2>1. SumsUp(Sol(u), fun, u) /\ u \in SUBSET u
    BY <1>2, <1>6
  <2>2. Sol(u)[u] = IF u = {} THEN 0 ELSE fun[Chosen(u)] + Sol(u)[u \ {Chosen(u)}]
    BY <2>1 DEF SumsUp
  <2>3. CASE u = {}
    BY <2>2, <2>3
  <2>4. CASE u # {}
    <3> DEFINE v == u \ {Chosen(u)}
    <3>1. v \in SUBSET m /\ v # m
      BY <1>4, <2>4
    <3>2. SumsUp(Sol(v), fun, v)
      BY <1>2, <3>1
    <3>3. Sol(u)[v] = Sol(v)[v]
      <4>1. v \in (SUBSET u) \cap (SUBSET v) /\ IsFiniteSet(u)
        BY <1>3
      <4> HIDE DEF v
      <4> QED
        BY <2>1, <3>2, <4>1, SumsAgree
    <3> QED
      BY <2>2, <2>4, <3>3
  <2> QED
    BY <2>3, <2>4
<1>7. g \in [SUBSET m -> Int]
  BY <1>5
<1>8. SumsUp(g, fun, m)
  <2>1. ASSUME NEW u \in SUBSET m
        PROVE  Val(u) = IF u = {} THEN 0 ELSE fun[Chosen(u)] + g[u \ {Chosen(u)}]
    <3>1. CASE u = {}
      BY <3>1
    <3>2. CASE u # {}
      <4> DEFINE v == u \ {Chosen(u)}
      <4>1. v \in SUBSET m /\ v # m
        BY <1>4, <3>2
      <4>2. g[v] = Val(v)
        BY <4>1
      <4>3. Sol(v)[v] = Val(v)
        BY <1>6, <4>1
      <4> QED
        BY <3>2, <4>2, <4>3
    <3> QED
      BY <3>1, <3>2
  <2> HIDE DEF Val
  <2>2. g = [u \in SUBSET m |-> IF u = {} THEN 0 ELSE fun[Chosen(u)] + g[u \ {Chosen(u)}]]
    BY <2>1
  <2> QED
    BY <2>2 DEF SumsUp
<1> QED
  BY <1>7, <1>8 DEF Bad

(* The sum of a set is that of any element and of the rest.                     *)
Integral(fun, S) == IsFiniteSet(S) /\ \A x \in S : fun[x] \in Int
LEMMA SumRecurs ==
  ASSUME NEW fun, NEW S, Integral(fun, S)
  PROVE  /\ SumFunctionOnSet(fun, S) \in Int
         /\ S = {} => SumFunctionOnSet(fun, S) = 0
         /\ S # {} => SumFunctionOnSet(fun, S) = fun[Chosen(S)] + SumFunctionOnSet(fun, S \ {Chosen(S)})
<1> DEFINE Fun(U) == CHOOSE f : SumsUp(f, fun, U)
<1>1. \A U : SumFunctionOnSet(fun, U) = Fun(U)[U]
  BY DEF SumFunctionOnSet, FoldFunctionOnSet, MapThenFoldSet, SumsUp, Chosen
<1>2. PICK f \in [SUBSET S -> Int] : SumsUp(f, fun, S)
  BY SumsExist DEF Integral
<1>3. SumsUp(Fun(S), fun, S)
  BY <1>2
<1>4. Fun(S)[S] = f[S]
  BY <1>2, <1>3, SumsAgree DEF Integral
<1>5. f[S] \in Int
  BY <1>2
<1>6. f[S] = IF S = {} THEN 0 ELSE fun[Chosen(S)] + f[S \ {Chosen(S)}]
  BY <1>2 DEF SumsUp
<1>7. CASE S = {}
  BY <1>1, <1>4, <1>6, <1>7
<1>8. CASE S # {}
  <2> DEFINE V == S \ {Chosen(S)}
  <2>1. V \in SUBSET S
    OBVIOUS
  <2>2. IsFiniteSet(V) /\ \A x \in V : fun[x] \in Int
    BY <2>1, FS_Subset DEF Integral
  <2>3. \E g \in [SUBSET V -> Int] : SumsUp(g, fun, V)
    <3> HIDE DEF V
    <3> QED
      BY <2>2, SumsExist
  <2>4. SumsUp(Fun(V), fun, V)
    <3> HIDE DEF V
    <3> QED
      BY <2>3
  <2>5. Fun(V)[V] = f[V]
    <3>1. V \in SUBSET S /\ IsFiniteSet(V) /\ SumsUp(Fun(V), fun, V) /\ SumsUp(f, fun, S)
      BY <1>2, <2>1, <2>2, <2>4
    <3> HIDE DEF V, Fun
    <3> QED
      BY <3>1, SumsAgreeBelow
  <2>6. SumFunctionOnSet(fun, V) = f[V]
    BY <1>1, <2>5
  <2> QED
    BY <1>1, <1>4, <1>5, <1>6, <1>8, <2>6
<1> QED
  BY <1>7, <1>8

(* Parts of what can be summed can be summed. *)
LEMMA IntegralPart ==
  ASSUME NEW fun, NEW S, Integral(fun, S), NEW T \in SUBSET S
  PROVE  Integral(fun, T)
BY FS_Subset DEF Integral

(* The sum of a set is that of any element and of the rest. *)
LEMMA SumTakesOut ==
  ASSUME NEW fun, NEW S, Integral(fun, S), NEW x \in S
  PROVE  SumFunctionOnSet(fun, S) = fun[x] + SumFunctionOnSet(fun, S \ {x})
<1> DEFINE Sum(U) == SumFunctionOnSet(fun, U)
           Bad == {u \in SUBSET S : \E y \in u : Sum(u) # fun[y] + Sum(u \ {y})}
<1> HIDE DEF Sum
<1> SUFFICES ASSUME Bad # {} PROVE FALSE
  BY DEF Sum
<1>1. PICK m \in Bad : \A n \in Bad : n \subseteq m => n = m
  <2>1. Bad \in SUBSET (SUBSET S) /\ IsFiniteSet(S)
    BY DEF Integral
  <2> HIDE DEF Bad
  <2> QED
    BY <2>1, SmallestSet
<1>2. PICK y \in m : Sum(m) # fun[y] + Sum(m \ {y})
  OBVIOUS
<1>3. m \in SUBSET S
  OBVIOUS
<1>4. \A u \in SUBSET S :
        /\ Sum(u) \in Int
        /\ u # {} => Chosen(u) \in u /\ Sum(u) = fun[Chosen(u)] + Sum(u \ {Chosen(u)})
  BY IntegralPart, SumRecurs DEF Sum, Chosen
<1> DEFINE c == Chosen(m)
<1>5. c \in m /\ Sum(m) = fun[c] + Sum(m \ {c})
  BY <1>2, <1>3, <1>4
<1>6. c # y
  BY <1>2, <1>5
<1>7. \A u \in SUBSET S : u \subseteq m /\ u # m => \A z \in u : Sum(u) = fun[z] + Sum(u \ {z})
  BY <1>1
<1> HIDE DEF c, Bad
<1>8. Sum(m \ {c}) = fun[y] + Sum((m \ {c}) \ {y})
  BY <1>3, <1>5, <1>6, <1>7
<1>9. Sum(m \ {y}) = fun[c] + Sum((m \ {y}) \ {c})
  BY <1>2, <1>3, <1>5, <1>6, <1>7
<1>10. (m \ {c}) \ {y} = (m \ {y}) \ {c}
  OBVIOUS
<1>11. fun[c] \in Int /\ fun[y] \in Int /\ Sum((m \ {c}) \ {y}) \in Int
  BY <1>3, <1>4, <1>5 DEF Integral
<1> QED
  <2> DEFINE rest == Sum((m \ {c}) \ {y})
  <2>1. Sum(m) = fun[c] + (fun[y] + rest) /\ rest \in Int
    BY <1>5, <1>8, <1>11
  <2>2. Sum(m \ {y}) = fun[c] + rest
    BY <1>9, <1>10
  <2> HIDE DEF rest
  <2>3. fun[c] + (fun[y] + rest) = fun[y] + (fun[c] + rest)
    BY <1>11, <2>1
  <2> QED
    BY <1>2, <2>1, <2>2, <2>3

(* Functions that agree on a set have one sum.                                 *)
LEMMA SumsOfEquals ==
  ASSUME NEW fun, NEW gun, NEW S, Integral(fun, S), \A x \in S : fun[x] = gun[x]
  PROVE  SumFunctionOnSet(fun, S) = SumFunctionOnSet(gun, S)
<1> DEFINE Sum(f, U) == SumFunctionOnSet(f, U)
           Bad == {u \in SUBSET S : Sum(fun, u) # Sum(gun, u)}
<1> HIDE DEF Sum
<1> SUFFICES ASSUME Bad # {} PROVE FALSE
  BY DEF Sum
<1>1. PICK m \in Bad : \A n \in Bad : n \subseteq m => n = m
  <2>1. Bad \in SUBSET (SUBSET S) /\ IsFiniteSet(S)
    BY DEF Integral
  <2> HIDE DEF Bad
  <2> QED
    BY <2>1, SmallestSet
<1>2. m \in SUBSET S /\ Sum(fun, m) # Sum(gun, m)
  OBVIOUS
<1>3. Integral(fun, m) /\ Integral(gun, m)
  BY <1>2, IntegralPart DEF Integral
<1>4. m # {}
  BY <1>2, <1>3, SumRecurs DEF Sum
<1> DEFINE c == Chosen(m)
<1>5. c \in m
  BY <1>4 DEF Chosen
<1>6. Sum(fun, m) = fun[c] + Sum(fun, m \ {c}) /\ Sum(gun, m) = gun[c] + Sum(gun, m \ {c})
  BY <1>3, <1>4, SumRecurs DEF Sum
<1>7. Sum(fun, m \ {c}) = Sum(gun, m \ {c})
  BY <1>1, <1>2, <1>5
<1> QED
  BY <1>2, <1>5, <1>6, <1>7

(* One value changes: so does the sum.                                       *)
LEMMA SumMoves ==
  ASSUME NEW fun, NEW gun, NEW S, Integral(fun, S), NEW x \in S, gun[x] \in Int,
         \A y \in S \ {x} : gun[y] = fun[y]
  PROVE  /\ Integral(gun, S)
         /\ SumFunctionOnSet(gun, S) = SumFunctionOnSet(fun, S) + (gun[x] - fun[x])
<1>1. Integral(gun, S) /\ Integral(fun, S \ {x}) /\ S \ {x} \in SUBSET S
  BY IntegralPart DEF Integral
<1>2. SumFunctionOnSet(gun, S) = gun[x] + SumFunctionOnSet(gun, S \ {x})
      /\ SumFunctionOnSet(fun, S) = fun[x] + SumFunctionOnSet(fun, S \ {x})
  BY <1>1, SumTakesOut
<1>3. SumFunctionOnSet(fun, S \ {x}) = SumFunctionOnSet(gun, S \ {x})
  BY <1>1, SumsOfEquals
<1>4. SumFunctionOnSet(fun, S \ {x}) \in Int /\ fun[x] \in Int
  BY <1>1, SumRecurs DEF Integral
<1> QED
  BY <1>1, <1>2, <1>3, <1>4

(* A sum of zeros is zero. *)
LEMMA SumOfZeros ==
  ASSUME NEW fun, NEW S, IsFiniteSet(S), \A x \in S : fun[x] = 0
  PROVE  SumFunctionOnSet(fun, S) = 0
<1> DEFINE Sum(U) == SumFunctionOnSet(fun, U)
           Bad == {u \in SUBSET S : Sum(u) # 0}
<1> HIDE DEF Sum
<1> SUFFICES ASSUME Bad # {} PROVE FALSE
  BY DEF Sum
<1>1. PICK m \in Bad : \A n \in Bad : n \subseteq m => n = m
  <2>1. Bad \in SUBSET (SUBSET S)
    OBVIOUS
  <2> HIDE DEF Bad
  <2> QED
    BY <2>1, SmallestSet
<1>2. m \in SUBSET S /\ Sum(m) # 0
  OBVIOUS
<1>3. Integral(fun, m)
  BY <1>2, FS_Subset DEF Integral
<1>4. m # {}
  BY <1>2, <1>3, SumRecurs DEF Sum
<1> DEFINE c == Chosen(m)
<1>5. c \in m
  BY <1>4 DEF Chosen
<1>6. Sum(m) = fun[c] + Sum(m \ {c})
  BY <1>3, <1>4, SumRecurs DEF Sum
<1>7. Sum(m \ {c}) = 0
  BY <1>1, <1>2, <1>5
<1> QED
  BY <1>2, <1>5, <1>6, <1>7

-----------------------------------------------------------------------------
(* Sums over sequences of rows.                                              *)
LEMMA LeastNumber ==
  ASSUME NEW B \in SUBSET Nat, B # {}
  PROVE  \E k \in B : \A j \in B : k <= j
<1>1. PICK k \in B : \A j \in B : <<j, k>> \notin OpToRel(<, Nat)
  BY WFMin, NatLessThanWellFounded
<1>2. \A j \in B : ~(j < k)
  BY <1>1 DEF OpToRel
<1> QED
  BY <1>2

(* The places of a sequence are finitely many. *)
LEMMA IntervalsAreFinite == ASSUME NEW k \in Nat PROVE IsFiniteSet(1..k)
<1>1. 1 \in Int /\ k \in Int
  OBVIOUS
<1> QED
  BY <1>1, FS_Interval

(* A sum up to a place is the value there and the sum up to the place before. *)
LEMMA SumTakesLast ==
  ASSUME NEW fun, NEW j \in Nat, j >= 1, Integral(fun, 1..j)
  PROVE  SumFunctionOnSet(fun, 1..j) = fun[j] + SumFunctionOnSet(fun, 1..(j - 1))
<1> DEFINE S == 1..j
<1>1. j \in S /\ Integral(fun, S)
  OBVIOUS
<1>2. S \ {j} = 1..(j - 1)
  OBVIOUS
<1> HIDE DEF S
<1>3. SumFunctionOnSet(fun, S) = fun[j] + SumFunctionOnSet(fun, S \ {j})
  BY <1>1, SumTakesOut
<1> QED
  BY <1>2, <1>3 DEF S

(* A function on an interval that gives numbers has a number for its sum.       *)
LEMMA SumOnInterval ==
  ASSUME NEW n \in Nat, NEW fun \in [1..n -> Int]
  PROVE  Integral(fun, 1..n) /\ SumFunction(fun) = SumFunctionOnSet(fun, 1..n) /\ SumFunction(fun) \in Int
<1>1. DOMAIN fun = 1..n /\ \A i \in 1..n : fun[i] \in Int
  OBVIOUS
<1>2. Integral(fun, 1..n)
  BY <1>1, IntervalsAreFinite DEF Integral
<1>3. SumFunction(fun) = SumFunctionOnSet(fun, 1..n)
  BY <1>1 DEF SumFunction
<1>4. SumFunctionOnSet(fun, 1..n) \in Int
  BY <1>2, SumRecurs
<1> QED
  BY <1>2, <1>3, <1>4

(* One place changes: the sum moves by as much. *)
LEMMA OneMoves ==
  ASSUME NEW n \in Nat, NEW k \in 1..n, NEW a \in [1..n -> Int], NEW b \in [1..n -> Int],
         \A i \in (1..n) \ {k} : b[i] = a[i]
  PROVE  SumFunction(a) \in Int /\ SumFunction(b) = SumFunction(a) + (b[k] - a[k])
<1>1. PICK S : S = 1..n
  OBVIOUS
<1>2. Integral(a, S) /\ SumFunction(a) = SumFunctionOnSet(a, S) /\ SumFunction(a) \in Int
  BY <1>1, SumOnInterval
<1>3. SumFunction(b) = SumFunctionOnSet(b, S)
  BY <1>1, SumOnInterval
<1>4. k \in S /\ b[k] \in Int /\ \A i \in S \ {k} : b[i] = a[i]
  BY <1>1
<1>5. SumFunctionOnSet(b, S) = SumFunctionOnSet(a, S) + (b[k] - a[k])
  <2>1. Integral(a, S)
    BY <1>2
  <2> QED
    BY <1>4, <2>1, SumMoves
<1> QED
  BY <1>2, <1>3, <1>5

(* The m numbers of a with the n numbers of b after them are c. *)
Joined(m, n, a, b, c) ==
  /\ a \in [1..m -> Int] /\ b \in [1..n -> Int] /\ c \in [1..(m + n) -> Int]
  /\ \A i \in 1..m : c[i] = a[i]
  /\ \A j \in 1..n : c[m + j] = b[j]

(* The sum over joined sequences is the sum of their sums. *)
LEMMA SumOfJoined ==
  ASSUME NEW m \in Nat, NEW n \in Nat, NEW a, NEW b, NEW c, Joined(m, n, a, b, c)
  PROVE  SumFunction(c) = SumFunction(a) + SumFunction(b)
<1>0. /\ a \in [1..m -> Int] /\ b \in [1..n -> Int] /\ c \in [1..(m + n) -> Int]
      /\ \A i \in 1..m : c[i] = a[i]
      /\ \A j \in 1..n : c[m + j] = b[j]
  BY DEF Joined
<1> USE <1>0
<1> DEFINE Sum(f, U) == SumFunctionOnSet(f, U)
<1>1. SumFunction(a) = Sum(a, 1..m) /\ SumFunction(b) = Sum(b, 1..n) /\ SumFunction(c) = Sum(c, 1..(m + n))
  <2>1. DOMAIN a = 1..m /\ DOMAIN b = 1..n /\ DOMAIN c = 1..(m + n)
    OBVIOUS
  <2> QED
    BY <2>1 DEF SumFunction
<1>2. Integral(a, 1..m) /\ Integral(b, 1..n) /\ Integral(c, 1..(m + n))
  <2>1. m + n \in Nat
    OBVIOUS
  <2>2. IsFiniteSet(1..m) /\ IsFiniteSet(1..n) /\ IsFiniteSet(1..(m + n))
    BY <2>1, IntervalsAreFinite
  <2> QED
    BY <2>2 DEF Integral
<1>3. ASSUME NEW k \in 0..n
      PROVE  Integral(b, 1..k) /\ Integral(c, 1..(m + k))
  <2>1. 1..k \in SUBSET (1..n) /\ 1..(m + k) \in SUBSET (1..(m + n))
    OBVIOUS
  <2> QED
    BY <1>2, <2>1, IntegralPart
<1>4. \A k \in 0..n : Sum(b, 1..k) \in Int /\ Sum(c, 1..(m + k)) \in Int /\ Sum(a, 1..m) \in Int
  BY <1>2, <1>3, SumRecurs
<1> DEFINE Bad == {k \in 0..n : Sum(c, 1..(m + k)) # Sum(a, 1..m) + Sum(b, 1..k)}
<1>5. Bad = {}
  <2> SUFFICES ASSUME Bad # {} PROVE FALSE
    OBVIOUS
  <2>1. PICK k \in Bad : \A j \in Bad : k <= j
    <3>1. Bad \in SUBSET Nat
      OBVIOUS
    <3> HIDE DEF Bad
    <3> QED
      BY <3>1, LeastNumber
  <2>2. k \in 0..n /\ Sum(c, 1..(m + k)) # Sum(a, 1..m) + Sum(b, 1..k)
    OBVIOUS
  <2>3. CASE k = 0
    <3>1. 1..k = {} /\ 1..(m + k) = 1..m
      BY <2>3
    <3>2. Sum(b, 1..k) = 0
      BY <1>3, <2>2, <3>1, SumRecurs
    <3>3. Sum(c, 1..m) = Sum(a, 1..m)
      BY <1>2, SumsOfEquals
    <3>4. Sum(c, 1..(m + k)) = Sum(a, 1..m)
      BY <3>1, <3>3
    <3>5. Sum(a, 1..m) \in Int
      BY <1>4, <2>2
    <3> HIDE DEF Sum
    <3> QED
      BY <2>2, <3>2, <3>4, <3>5
  <2>4. CASE k # 0
    <3>1. k - 1 \in 0..n /\ k - 1 \notin Bad
      BY <2>1, <2>2, <2>4
    <3>2. Sum(c, 1..(m + (k - 1))) = Sum(a, 1..m) + Sum(b, 1..(k - 1))
      BY <3>1
    <3>0. k \in Nat /\ k >= 1
      BY <2>2, <2>4
    <3>3. m + k \in Nat /\ m + k >= 1 /\ (m + k) - 1 = m + (k - 1)
      BY <3>0
    <3>8. Integral(b, 1..k) /\ Integral(c, 1..(m + k))
      BY <1>3, <2>2
    <3>4. Sum(b, 1..k) = b[k] + Sum(b, 1..(k - 1))
      BY <3>0, <3>8, SumTakesLast
    <3>9. Sum(c, 1..(m + k)) = c[m + k] + Sum(c, 1..((m + k) - 1))
      BY <3>3, <3>8, SumTakesLast
    <3>5. Sum(c, 1..(m + k)) = c[m + k] + Sum(c, 1..(m + (k - 1)))
      BY <3>3, <3>9
    <3>6. c[m + k] = b[k] /\ b[k] \in Int
      BY <2>2, <2>4
    <3>7. Sum(a, 1..m) \in Int /\ Sum(b, 1..(k - 1)) \in Int
      BY <1>4, <3>1
    <3> HIDE DEF Sum
    <3> QED
      BY <2>2, <3>2, <3>4, <3>5, <3>6, <3>7
  <2> QED
    BY <2>3, <2>4
<1>6. n \in 0..n
  OBVIOUS
<1> HIDE DEF Sum
<1> QED
  BY <1>1, <1>5, <1>6

(* Rows of parts: what they add up to, and what they say was taken from a shelf.   *)
UseRow == [shelf : Shelves \cup {NoShelf}, quantity : Nat]
Quantities(rows) == [i \in DOMAIN rows |-> rows[i].quantity]
TakenFrom(rows, s) == [i \in DOMAIN rows |-> IF rows[i].shelf = s THEN rows[i].quantity ELSE 0]

(* Both are functions on the places of the rows, and their sums are what the model   *)
(* adds up.                                                                  *)
LEMMA AmountsOfRows ==
  ASSUME NEW rows \in Seq(UseRow), NEW s
  PROVE  /\ Len(rows) \in Nat /\ DOMAIN rows = 1..Len(rows)
         /\ Quantities(rows) \in [1..Len(rows) -> Int]
         /\ TakenFrom(rows, s) \in [1..Len(rows) -> Int]
         /\ \A i \in 1..Len(rows) : Quantities(rows)[i] = rows[i].quantity
         /\ \A i \in 1..Len(rows) :
              TakenFrom(rows, s)[i] = IF rows[i].shelf = s THEN rows[i].quantity ELSE 0
         /\ Total(rows) = SumFunction(Quantities(rows))
         /\ IssuedBy(rows, s) = SumFunction(TakenFrom(rows, s))
<1>1. Len(rows) \in Nat /\ DOMAIN rows = 1..Len(rows) /\ rows \in [1..Len(rows) -> UseRow]
  BY LenProperties
<1>2. PICK n : n = Len(rows)
  OBVIOUS
<1>3. \A i \in 1..n : rows[i].quantity \in Int
  BY <1>1, <1>2 DEF UseRow
<1>4. Quantities(rows) = [i \in 1..n |-> rows[i].quantity]
  BY <1>1, <1>2 DEF Quantities
<1>5. TakenFrom(rows, s) = [i \in 1..n |-> IF rows[i].shelf = s THEN rows[i].quantity ELSE 0]
  BY <1>1, <1>2 DEF TakenFrom
<1>6. Quantities(rows) \in [1..n -> Int] /\ \A i \in 1..n : Quantities(rows)[i] = rows[i].quantity
  BY <1>3, <1>4
<1>7. /\ TakenFrom(rows, s) \in [1..n -> Int]
      /\ \A i \in 1..n : TakenFrom(rows, s)[i] = IF rows[i].shelf = s THEN rows[i].quantity ELSE 0
  BY <1>3, <1>5
<1>8. Total(rows) = SumFunction(Quantities(rows)) /\ IssuedBy(rows, s) = SumFunction(TakenFrom(rows, s))
  BY DEF Total, IssuedBy, Quantities, TakenFrom
<1> QED
  BY <1>1, <1>2, <1>6, <1>7, <1>8

(* What rows add up to are numbers.                                          *)
LEMMA RowsAreSummed ==
  ASSUME NEW rows \in Seq(UseRow), NEW s
  PROVE  /\ Len(rows) \in Nat /\ DOMAIN rows = 1..Len(rows)
         /\ \A i \in 1..Len(rows) : rows[i] \in UseRow
         /\ Total(rows) \in Int /\ IssuedBy(rows, s) \in Int
<1>1. Len(rows) \in Nat /\ DOMAIN rows = 1..Len(rows) /\ \A i \in 1..Len(rows) : rows[i] \in UseRow
  BY LenProperties
<1>2. SumFunction(Quantities(rows)) \in Int /\ SumFunction(TakenFrom(rows, s)) \in Int
  BY AmountsOfRows, SumOnInterval
<1> QED
  BY <1>1, <1>2, AmountsOfRows

(* Rows that are appended add what they add up to. *)
LEMMA SumsOfJoinedRows ==
  ASSUME NEW rows \in Seq(UseRow), NEW more \in Seq(UseRow), NEW s
  PROVE  /\ Total(rows \o more) = Total(rows) + Total(more)
         /\ IssuedBy(rows \o more, s) = IssuedBy(rows, s) + IssuedBy(more, s)
<1>1. PICK all : all = rows \o more
  OBVIOUS
<1>2. PICK m, n : m = Len(rows) /\ n = Len(more)
  OBVIOUS
<1>3. /\ all \in Seq(UseRow) /\ Len(all) = m + n
      /\ \A i \in 1..m : all[i] = rows[i]
      /\ \A j \in 1..n : all[m + j] = more[j]
  BY <1>1, <1>2, ConcatProperties
<1>4. m \in Nat /\ n \in Nat
  BY <1>2, LenProperties
<1>5. \A i \in 1..m : i \in 1..(m + n)
  BY <1>4
<1>6. \A j \in 1..n : m + j \in 1..(m + n)
  BY <1>4
<1>7. Total(all) = Total(rows) + Total(more)
  <2>1. PICK a, b, c : a = Quantities(rows) /\ b = Quantities(more) /\ c = Quantities(all)
    OBVIOUS
  <2>2. a \in [1..m -> Int] /\ Total(rows) = SumFunction(a) /\ \A i \in 1..m : a[i] = rows[i].quantity
    BY <1>2, <2>1, AmountsOfRows
  <2>3. b \in [1..n -> Int] /\ Total(more) = SumFunction(b) /\ \A i \in 1..n : b[i] = more[i].quantity
    BY <1>2, <2>1, AmountsOfRows
  <2>4. c \in [1..(m + n) -> Int] /\ Total(all) = SumFunction(c) /\ \A i \in 1..(m + n) : c[i] = all[i].quantity
    BY <1>3, <2>1, AmountsOfRows
  <2>5. (\A i \in 1..m : c[i] = a[i]) /\ \A j \in 1..n : c[m + j] = b[j]
    <3>1. \A i \in 1..m : c[i] = a[i]
      BY <1>3, <1>5, <2>2, <2>4
    <3>2. ASSUME NEW i \in 1..n PROVE c[m + i] = b[i]
      BY <1>3, <1>6, <2>3, <2>4
    <3> QED
      BY <3>1, <3>2
  <2>6. Joined(m, n, a, b, c)
    BY <2>2, <2>3, <2>4, <2>5 DEF Joined
  <2>7. SumFunction(c) = SumFunction(a) + SumFunction(b)
    BY <1>4, <2>6, SumOfJoined
  <2> QED
    BY <2>2, <2>3, <2>4, <2>7
<1>8. IssuedBy(all, s) = IssuedBy(rows, s) + IssuedBy(more, s)
  <2>1. PICK a, b, c : a = TakenFrom(rows, s) /\ b = TakenFrom(more, s) /\ c = TakenFrom(all, s)
    OBVIOUS
  <2>2. /\ a \in [1..m -> Int] /\ IssuedBy(rows, s) = SumFunction(a)
        /\ \A i \in 1..m : a[i] = IF rows[i].shelf = s THEN rows[i].quantity ELSE 0
    BY <1>2, <2>1, AmountsOfRows
  <2>3. /\ b \in [1..n -> Int] /\ IssuedBy(more, s) = SumFunction(b)
        /\ \A i \in 1..n : b[i] = IF more[i].shelf = s THEN more[i].quantity ELSE 0
    BY <1>2, <2>1, AmountsOfRows
  <2>4. /\ c \in [1..(m + n) -> Int] /\ IssuedBy(all, s) = SumFunction(c)
        /\ \A i \in 1..(m + n) : c[i] = IF all[i].shelf = s THEN all[i].quantity ELSE 0
    BY <1>3, <2>1, AmountsOfRows
  <2>5. (\A i \in 1..m : c[i] = a[i]) /\ \A j \in 1..n : c[m + j] = b[j]
    <3>1. \A i \in 1..m : c[i] = a[i]
      BY <1>3, <1>5, <2>2, <2>4
    <3>2. ASSUME NEW i \in 1..n PROVE c[m + i] = b[i]
      BY <1>3, <1>6, <2>3, <2>4
    <3> QED
      BY <3>1, <3>2
  <2>6. Joined(m, n, a, b, c)
    BY <2>2, <2>3, <2>4, <2>5 DEF Joined
  <2>7. SumFunction(c) = SumFunction(a) + SumFunction(b)
    BY <1>4, <2>6, SumOfJoined
  <2> QED
    BY <2>2, <2>3, <2>4, <2>7
<1> QED
  BY <1>1, <1>7, <1>8

JobRow ==
  [service : BOOLEAN, status : JobStatuses, minutes : Int, parts : Int, invited : Nat,
   rated : BOOLEAN, done : SUBSET JobStatuses]
JobTx ==
  [kind : {"transition", "labour", "part", "rating"},
   step : {"mark", "lock", "labour", "part", "take", "sum", "commit", "rate"}, job : Jobs,
   lock : {"none", "share", "update", "all"}, action : {"", "BREACH_SLA"} \cup JobActions,
   minutes : Nat, parts : Seq(UsedParts), todo : SUBSET Shelves, taken : [Shelves -> Nat],
   rows : Seq(UseRow), sum : [minutes : Int, parts : Int], new : Seq(JobRow)]
ExecTyped ==
  /\ job \in [Jobs -> JobRow]
  /\ used \in [Jobs -> [minutes : Nat, parts : Seq(UseRow)]]
  /\ shelf \in [Shelves -> Int]
  /\ crew \in [Crew -> {NoJobTx} \cup JobTx]
  /\ crossed \subseteq Jobs /\ sent \in Nat

(* A row of an order, committed or not yet: invited once when a rule has asked.    *)
InvitedRight(j) ==
  j.invited = IF "IN_PROGRESS" \in j.done \/ (j.service /\ "COMPLETED" \in j.done) THEN 1 ELSE 0

(* How far a transaction is, what it has locked and what it has written.          *)
StepsRight(c) ==
  /\ c.kind = "rating" <=> c.step = "rate" \/ (c.step = "commit" /\ c.kind = "rating")
  /\ c.kind = "rating" => c.minutes = 0 /\ c.rows = <<>>
  /\ c.step \in {"mark", "lock"} => c.kind = "transition" /\ c.action # ""
  /\ c.step \in {"mark", "lock", "rate"} => c.new = <<>>
  /\ c.step = "rate" => c.lock = "none"
  /\ c.kind = "transition" /\ c.step \notin {"mark", "lock"} => c.lock = "all" /\ c.new # <<>>
  /\ c.kind \in {"labour", "part"} /\ c.step # "commit" => c.new = <<>>
  /\ c.kind = "labour" => c.minutes > 0
  /\ c.kind = "part" => c.parts # <<>> \/ c.rows # <<>>
  /\ c.step \in {"mark", "lock", "labour"} => c.rows = <<>>
  /\ c.minutes > 0 /\ c.step \notin {"mark", "lock", "labour"} => c.lock # "none"
  /\ c.rows # <<>> /\ c.step \in {"part", "sum"} => c.lock # "none"
  /\ c.step = "sum" => c.lock # "none"
  /\ c.step = "commit" => c.lock \in {"update", "all"} /\ c.new # <<>>
(* The sums it has read, and the totals it will commit, are true at the commit.       *)
SumsRight(c) ==
  /\ c.new # <<>> => InvitedRight(c.new[1])
  /\ c.new # <<>> /\ c.step # "commit" =>
       c.new[1].minutes = job[c.job].minutes /\ c.new[1].parts = job[c.job].parts
  /\ c.step = "sum" /\ c.job \notin crossed =>
       /\ c.sum.minutes = used[c.job].minutes + c.minutes
       /\ c.sum.parts = Total(used[c.job].parts) + Total(c.rows)
  /\ c.step = "commit" /\ c.job \notin crossed =>
       /\ c.new[1].minutes = used[c.job].minutes + c.minutes
       /\ c.new[1].parts = Total(used[c.job].parts) + Total(c.rows)
(* It takes from a shelf no more than is there, and no less than it writes down.       *)
Takes(c) ==
  LET last == c.rows[Len(c.rows)]
      want == Head(c.parts) IN
  /\ \A s \in Shelves : c.taken[s] <= shelf[s] /\ IssuedBy(c.rows, s) <= c.taken[s]
  /\ \A s \in Shelves : Alone(s) => IssuedBy(c.rows, s) = c.taken[s]
  /\ c.step = "take" =>
       /\ c.rows # <<>> /\ c.parts # <<>> /\ last.quantity = want[2]
       /\ \A s \in c.todo : PartOn[s] = want[1]
       /\ last.shelf # NoShelf => last.shelf \notin c.todo /\ PartOn[last.shelf] = want[1]
TxRight(c) == c # NoJobTx => StepsRight(c) /\ SumsRight(c) /\ Takes(c)
(* Two transactions.                                                        *)
Compatible(c, d) ==
  /\ c.job = d.job => ~Conflict(c.lock, d.lock)
  /\ c.kind \in {"labour", "part"} /\ d.kind \in {"labour", "part"} /\ c.job = d.job => c.job \in crossed
  /\ \A s \in Shelves : c.taken[s] = 0 \/ d.taken[s] = 0

ExecInv ==
  /\ ExecTyped
  /\ \A w \in Jobs : InvitedRight(job[w])
  /\ TotalsAreSums /\ StockIsTrue
  /\ \A t \in Crew : TxRight(crew[t])
  /\ \A t, u \in Crew : t # u => Compatible(crew[t], crew[u])

-----------------------------------------------------------------------------
(* The transaction of a task that rests.                                       *)
RestingTx ==
  [kind : {"none"}, step : {"idle"}, job : {0}, lock : {"none"}, action : {""}, minutes : Nat,
   parts : Seq(UsedParts), todo : SUBSET Shelves, taken : [Shelves -> Nat], rows : Seq(UseRow),
   sum : [minutes : Int, parts : Int], new : Seq(JobRow)]

(* The sums of a task that rests. *)
LEMMA ZeroSum == [minutes |-> 0, parts |-> 0] \in [minutes : Int, parts : Int]
OBVIOUS

LEMMA NoTxTyped ==
  /\ NoJobTx \in RestingTx /\ NoJobTx.lock = "none" /\ NoJobTx.rows = <<>> /\ NoJobTx.new = <<>>
  /\ NoJobTx.action = "" /\ NoJobTx.parts = <<>> /\ NoJobTx.minutes = 0
  /\ \A s \in Shelves : NoJobTx.taken[s] = 0
<1> DEFINE none == [s \in Shelves |-> 0]
           zero == [minutes |-> 0, parts |-> 0]
           e == <<>>
<1>1. none \in [Shelves -> Nat] /\ zero \in [minutes : Int, parts : Int]
  BY ZeroSum
<1>2. e \in Seq(UseRow) /\ e \in Seq(JobRow) /\ e \in Seq(UsedParts)
  BY EmptySeq
<1>3. NoJobTx = [kind |-> "none", step |-> "idle", job |-> 0, lock |-> "none", action |-> "", minutes |-> 0,
                 parts |-> e, todo |-> {}, taken |-> none, rows |-> e, sum |-> zero, new |-> e]
  BY DEF NoJobTx
<1> HIDE DEF none, zero, e
<1>4. NoJobTx \in RestingTx
  BY <1>1, <1>2, <1>3 DEF RestingTx
<1> QED
  BY <1>4 DEF NoJobTx

(* Which locks exclude each other, and that a stronger one excludes for a reason. *)
LEMMA ConflictFacts ==
  ASSUME NEW a \in {"none", "share", "update", "all"}, NEW b \in {"none", "share", "update", "all"}
  PROVE  /\ Conflict(a, b) <=> Conflict(b, a)
         /\ ~Conflict("none", b)
         /\ b # "none" => Conflict("all", b)
         /\ a \in {"update", "all"} /\ b \in {"update", "all"} => Conflict(a, b)
         /\ \A l \in {"share", "update", "all"} :
              /\ Stronger(a, l) \in {"share", "update", "all"}
              /\ Conflict(Stronger(a, l), b) => Conflict(a, b) \/ Conflict(l, b)
              /\ l = "update" => Stronger(a, l) \in {"update", "all"}
              /\ a = "all" => Stronger(a, l) = "all"
BY DEF Conflict, Stronger

(* Locks have four strengths. *)
LEMMA LockTyped ==
  ASSUME NEW d \in {NoJobTx} \cup JobTx PROVE d.lock \in {"none", "share", "update", "all"}
<1>1. CASE d = NoJobTx
  <2>1. NoJobTx.lock = "none"
    BY DEF NoJobTx
  <2> QED
    BY <1>1, <2>1
<1>2. CASE d \in JobTx
  BY <1>2 DEF JobTx
<1> QED
  BY <1>1, <1>2

(* What is taken from a shelf is a number. *)
LEMMA TakenIsANumber ==
  ASSUME NEW d \in {NoJobTx} \cup JobTx, NEW s \in Shelves PROVE d.taken[s] \in Nat
<1>1. CASE d = NoJobTx
  <2>1. NoJobTx.taken[s] = 0
    BY NoTxTyped
  <2> QED
    BY <1>1, <2>1
<1>2. CASE d \in JobTx
  <2>1. d.taken \in [Shelves -> Nat]
    BY <1>2 DEF JobTx
  <2> QED
    BY <2>1
<1> QED
  BY <1>1, <1>2

(* Two transactions are compatible whichever comes first. *)
LEMMA CompatibleIsMutual ==
  ASSUME NEW c \in {NoJobTx} \cup JobTx, NEW d \in {NoJobTx} \cup JobTx, Compatible(c, d)
  PROVE  Compatible(d, c)
<1>1. c.lock \in {"none", "share", "update", "all"} /\ d.lock \in {"none", "share", "update", "all"}
  BY LockTyped
<1>2. Conflict(c.lock, d.lock) <=> Conflict(d.lock, c.lock)
  BY <1>1, ConflictFacts
<1> QED
  BY <1>2 DEF Compatible

(* A task that rests is compatible with all others. *)
LEMMA RestsWithAll ==
  ASSUME NEW d \in {NoJobTx} \cup JobTx PROVE Compatible(NoJobTx, d)
<1>1. d.lock \in {"none", "share", "update", "all"}
  BY LockTyped
<1>2. NoJobTx.lock = "none" /\ NoJobTx.kind = "none" /\ \A s \in Shelves : NoJobTx.taken[s] = 0
  BY DEF NoJobTx
<1>3. ~Conflict("none", d.lock)
  BY <1>1, ConflictFacts
<1> QED
  BY <1>2, <1>3 DEF Compatible

(* What the invariant says of a transaction that is open. *)
LEMMA OpenTx ==
  ASSUME ExecInv, NEW t \in Crew, crew[t].step # "idle"
  PROVE  /\ crew[t] \in JobTx /\ StepsRight(crew[t]) /\ SumsRight(crew[t]) /\ Takes(crew[t])
         /\ crew[t].job \in Jobs
<1>1. NoJobTx.step = "idle"
  BY DEF NoJobTx
<1>2. crew[t] # NoJobTx /\ crew[t] \in JobTx
  BY <1>1 DEF ExecInv, ExecTyped
<1> QED
  BY <1>2 DEF ExecInv, TxRight, JobTx

(* A step of one transaction, before its commit.                              *)
LEMMA GoesOn ==
  ASSUME ExecInv, NEW t \in Crew, NEW n \in {NoJobTx} \cup JobTx, TxRight(n),
         crew' = [crew EXCEPT ![t] = n], UNCHANGED <<job, used, shelf, crossed>>, sent' \in Nat,
         \A u \in Crew \ {t} : Compatible(n, crew[u])
  PROVE  ExecInv'
<1>1. /\ crew' = [crew EXCEPT ![t] = n]
      /\ job' = job /\ used' = used /\ shelf' = shelf /\ crossed' = crossed
  OBVIOUS
<1>2. crew \in [Crew -> {NoJobTx} \cup JobTx]
  BY DEF ExecInv, ExecTyped
<1>3. crew'[t] = n /\ \A u \in Crew : u # t => crew'[u] = crew[u]
  BY <1>1, <1>2
<1>4. ExecTyped'
  BY <1>1, <1>2 DEF ExecInv, ExecTyped
<1>5. (\A w \in Jobs : InvitedRight(job[w]))' /\ TotalsAreSums' /\ StockIsTrue'
  BY <1>1 DEF ExecInv, TotalsAreSums, StockIsTrue, Issued, Alone
<1>6. ASSUME NEW c, TxRight(c) PROVE TxRight(c)'
  BY <1>1, <1>6 DEF TxRight, SumsRight, Takes, Alone
<1>7. ASSUME NEW c, NEW d, Compatible(c, d) PROVE Compatible(c, d)'
  BY <1>1, <1>7 DEF Compatible
<1>8. \A u \in Crew : TxRight(crew[u])'
  <2> TAKE u \in Crew
  <2>1. PICK c : c = crew'[u]
    OBVIOUS
  <2>2. TxRight(c)
    BY <1>3, <2>1 DEF ExecInv
  <2>3. TxRight(c)'
    BY <1>6, <2>2
  <2> QED
    BY <2>1, <2>3 DEF TxRight
<1>9. \A u, v \in Crew : u # v => Compatible(crew[u], crew[v])'
  <2> TAKE u, v \in Crew
  <2> HAVE u # v
  <2>1. PICK c : c = crew'[u]
    OBVIOUS
  <2>2. PICK d : d = crew'[v]
    OBVIOUS
  <2>3. Compatible(c, d)
    <3>1. CASE u = t
      BY <1>3, <2>1, <2>2, <3>1
    <3>2. CASE v = t
      <4>1. Compatible(d, c) /\ c \in {NoJobTx} \cup JobTx /\ d \in {NoJobTx} \cup JobTx
        BY <1>2, <1>3, <2>1, <2>2, <3>2
      <4> QED
        BY <4>1, CompatibleIsMutual
    <3>3. CASE u # t /\ v # t
      BY <1>3, <2>1, <2>2, <3>3 DEF ExecInv
    <3> QED
      BY <3>1, <3>2, <3>3
  <2>4. Compatible(c, d)'
    BY <1>7, <2>3
  <2> QED
    BY <2>1, <2>2, <2>4 DEF Compatible
<1> QED
  BY <1>4, <1>5, <1>8, <1>9 DEF ExecInv

(* A transaction that ends without a commit leaves everything true. *)
LEMMA Ends ==
  ASSUME ExecInv, NEW t \in Crew, crew' = [crew EXCEPT ![t] = NoJobTx],
         UNCHANGED <<job, used, shelf, crossed>>, sent' \in Nat
  PROVE  ExecInv'
<1>1. TxRight(NoJobTx)
  BY DEF TxRight
<1>2. \A u \in Crew \ {t} : Compatible(NoJobTx, crew[u])
  BY RestsWithAll DEF ExecInv, ExecTyped
<1> QED
  BY <1>1, <1>2, GoesOn

(* The same for an error of the request. *)
LEMMA Fail == ASSUME ExecInv, NEW t \in Crew, GoOn(t, NoJobTx) PROVE ExecInv'
<1>1. sent' \in Nat
  BY DEF GoOn, ExecInv, ExecTyped
<1> QED
  BY <1>1, Ends DEF GoOn

(* A step that keeps kind and order, and takes no lock that is not granted.        *)
LEMMA Advances ==
  ASSUME ExecInv, NEW t \in Crew, crew[t].step # "idle", NEW n \in JobTx, GoOn(t, n),
         n.job = crew[t].job, n.kind = crew[t].kind, StepsRight(n), SumsRight(n), Takes(n),
         \A u \in Crew \ {t} : crew[u].job = n.job => ~Conflict(n.lock, crew[u].lock),
         \A u \in Crew \ {t} : \A s \in Shelves : n.taken[s] = 0 \/ crew[u].taken[s] = 0
  PROVE  ExecInv'
<1>1. TxRight(n)
  BY DEF TxRight
<1>2. ASSUME NEW u \in Crew \ {t} PROVE Compatible(n, crew[u])
  <2>1. Compatible(crew[t], crew[u])
    BY DEF ExecInv
  <2> QED
    BY <2>1 DEF Compatible
<1>3. sent' \in Nat
  BY DEF GoOn, ExecInv, ExecTyped
<1> QED
  BY <1>1, <1>2, <1>3, GoesOn DEF GoOn

(* A lock that is granted conflicts with no other.                             *)
LEMMA GrantedLock ==
  ASSUME ExecInv, NEW t \in Crew, NEW l \in {"share", "update", "all"}, Grants(t, l)
  PROVE  \A u \in Crew \ {t} : crew[u].job = crew[t].job =>
           ~Conflict(l, crew[u].lock) /\ ~Conflict(Stronger(crew[t].lock, l), crew[u].lock)
<1> TAKE u \in Crew \ {t}
<1> HAVE crew[u].job = crew[t].job
<1>1. ~Conflict(l, crew[u].lock)
  BY DEF Grants, LockedBy
<1>2. Compatible(crew[t], crew[u])
  BY DEF ExecInv
<1>3. ~Conflict(crew[t].lock, crew[u].lock)
  BY <1>2 DEF Compatible
<1>4. crew[u] \in {NoJobTx} \cup JobTx /\ crew[t] \in {NoJobTx} \cup JobTx
  BY DEF ExecInv, ExecTyped
<1>5. crew[u].lock \in {"none", "share", "update", "all"} /\ crew[t].lock \in {"none", "share", "update", "all"}
  BY <1>4, LockTyped
<1> QED
  BY <1>1, <1>3, <1>5, ConflictFacts

(* A lock that is kept conflicts with no other, and so do the shelves. *)
LEMMA SameLock ==
  ASSUME ExecInv, NEW t \in Crew
  PROVE  /\ \A u \in Crew \ {t} : crew[u].job = crew[t].job => ~Conflict(crew[t].lock, crew[u].lock)
         /\ \A u \in Crew \ {t} : \A s \in Shelves : crew[t].taken[s] = 0 \/ crew[u].taken[s] = 0
<1>1. \A u \in Crew \ {t} : Compatible(crew[t], crew[u])
  BY DEF ExecInv
<1> QED
  BY <1>1 DEF Compatible

-----------------------------------------------------------------------------
(* The steps, one after the other.                                           *)
LEMMA RowAfter ==
  ASSUME NEW old \in JobRow, InvitedRight(old), NEW action, NEW rule \in Matched(old, action)
  PROVE  LET entry == Transitioned(old, rule) IN
         /\ entry \in JobRow /\ InvitedRight(entry)
         /\ entry.minutes = old.minutes /\ entry.parts = old.parts
<1> DEFINE entry == Transitioned(old, rule)
<1>1. /\ rule \in Catalogue(old.service) /\ rule.from = old.status
      /\ old.service \in BOOLEAN /\ old.done \subseteq JobStatuses /\ old.invited \in Nat
  BY DEF Matched, JobRow
<1>2. /\ rule.from \in JobStatuses /\ rule.to \in JobStatuses /\ rule.asks \in BOOLEAN
      /\ rule.asks <=> (\/ rule.from = "IN_PROGRESS" /\ rule.action \in {"COMPLETE", "CLOSE"}
                        \/ old.service /\ rule.from = "COMPLETED" /\ rule.action \in {"COMPLETE", "CLOSE"})
  <2>1. CASE \E s \in {"COMPLETED", "VERIFIED", "CLOSED"} : rule = Rule(s, "REOPEN", "IN_PROGRESS", FALSE)
    BY <2>1 DEF Rule, JobStatuses
  <2>2. CASE rule = Rule("IN_PROGRESS", "COMPLETE", "COMPLETED", TRUE)
    BY <2>2 DEF Rule, JobStatuses
  <2>3. CASE rule = Rule("COMPLETED", "CLOSE", "CLOSED", old.service)
    BY <1>1, <2>3 DEF Rule, JobStatuses
  <2>4. CASE rule = Rule("SLA_BREACHED", "COMPLETE", "COMPLETED", FALSE)
    BY <2>4 DEF Rule, JobStatuses
  <2>5. CASE rule = Rule("IN_PROGRESS", "BREACH_SLA", "SLA_BREACHED", FALSE)
    BY <2>5 DEF Rule, JobStatuses
  <2>6. CASE rule = Rule("SLA_BREACHED", "RESUME", "IN_PROGRESS", FALSE)
    BY <2>6 DEF Rule, JobStatuses
  <2>7. CASE rule = Rule("COMPLETED", "VERIFY", "VERIFIED", FALSE)
    BY <2>7 DEF Rule, JobStatuses
  <2>8. CASE rule = Rule("VERIFIED", "CLOSE", "CLOSED", FALSE)
    BY <2>8 DEF Rule, JobStatuses
  <2> QED
    BY <1>1, <2>1, <2>2, <2>3, <2>4, <2>5, <2>6, <2>7, <2>8 DEF Catalogue
<1> DEFINE done == IF rule.action \in {"COMPLETE", "CLOSE"} THEN old.done \cup {rule.from} ELSE old.done
<1>3. Invites(old, rule) \in Nat /\ done \subseteq JobStatuses
  BY <1>1, <1>2 DEF Invites
<1>4. /\ entry \in JobRow /\ entry.minutes = old.minutes /\ entry.parts = old.parts
      /\ entry.invited = Invites(old, rule) /\ entry.done = done /\ entry.service = old.service
  BY <1>2, <1>3 DEF Transitioned, JobRow
<1>5. InvitedRight(entry)
  <2>1. entry.invited = IF rule.asks /\ old.invited = 0 THEN 1 ELSE old.invited
    BY <1>4 DEF Invites
  <2>2. old.invited = IF "IN_PROGRESS" \in old.done \/ (old.service /\ "COMPLETED" \in old.done)
                      THEN 1 ELSE 0
    BY DEF InvitedRight
  <2> HIDE DEF entry
  <2>3. rule.asks => entry.invited = 1
    BY <2>1, <2>2
  <2>4. ~rule.asks => entry.invited = old.invited
    BY <2>1
  <2>5. rule.asks => "IN_PROGRESS" \in done \/ (old.service /\ "COMPLETED" \in done)
    BY <1>2
  <2>6. ASSUME ~rule.asks
        PROVE  /\ "IN_PROGRESS" \in done <=> "IN_PROGRESS" \in old.done
               /\ old.service => ("COMPLETED" \in done <=> "COMPLETED" \in old.done)
    BY <1>2, <2>6
  <2>7. old.invited = 1 => "IN_PROGRESS" \in done \/ (old.service /\ "COMPLETED" \in done)
    BY <2>2
  <2> HIDE DEF done
  <2> DEFINE Asked(service, statuses) ==
               "IN_PROGRESS" \in statuses \/ (service /\ "COMPLETED" \in statuses)
  <2>8. entry.invited = IF Asked(old.service, done) THEN 1 ELSE 0
    <3>1. CASE rule.asks
      BY <2>3, <2>5, <3>1
    <3>2. CASE ~rule.asks
      <4>1. /\ "IN_PROGRESS" \in done <=> "IN_PROGRESS" \in old.done
            /\ old.service => ("COMPLETED" \in done <=> "COMPLETED" \in old.done)
        BY <2>6, <3>2
      <4>2. Asked(old.service, done) <=> Asked(old.service, old.done)
        BY <1>1, <4>1
      <4> QED
        BY <2>2, <2>4, <3>2, <4>2
    <3> QED
      BY <3>1, <3>2
  <2> QED
    BY <1>4, <2>8 DEF InvitedRight
<1> QED
  BY <1>4, <1>5

(* LockJob keeps it, whatever rule is matched. *)
LEMMA LockKeeps == ASSUME ExecInv, NEW t \in Crew, LockJob(t) PROVE ExecInv'
<1> DEFINE c == crew[t]
           old == job[c.job]
<1>1. c.step = "lock" /\ Grants(t, "all")
  BY DEF LockJob
<1>2. CASE GoOn(t, NoJobTx)
  BY <1>2, Fail
<1>3. ASSUME NEW rule \in Matched(old, c.action),
             GoOn(t, [c EXCEPT !.step = "labour", !.lock = "all", !.new = <<Transitioned(old, rule)>>])
      PROVE  ExecInv'
  <2> DEFINE entry == Transitioned(old, rule)
             n == [c EXCEPT !.step = "labour", !.lock = "all", !.new = <<entry>>]
  <2>0. GoOn(t, n)
    BY <1>3
  <2>1. c \in JobTx /\ StepsRight(c) /\ Takes(c) /\ c.job \in Jobs
    BY <1>1, OpenTx
  <2>2. old \in JobRow /\ InvitedRight(old)
    BY <2>1 DEF ExecInv, ExecTyped
  <2>3. /\ c.kind = "transition" /\ c.rows = <<>>
    BY <1>1, <2>1 DEF StepsRight
  <2>4. entry \in JobRow /\ InvitedRight(entry) /\ entry.minutes = old.minutes /\ entry.parts = old.parts
    <3> HIDE DEF old
    <3> QED
      BY <2>2, RowAfter
  <2> HIDE DEF entry
  <2>5. /\ n \in JobTx /\ n.job = c.job /\ n.kind = c.kind /\ n.step = "labour" /\ n.lock = "all"
        /\ n.new = <<entry>> /\ n.minutes = c.minutes /\ n.parts = c.parts /\ n.rows = c.rows
        /\ n.taken = c.taken
    <3>1. <<entry>> \in Seq(JobRow)
      BY <2>4
    <3> QED
      BY <2>1, <3>1 DEF JobTx
  <2> HIDE DEF n
  <2>6. n.new # <<>> /\ n.new[1] = entry
    BY <2>5
  <2>7. StepsRight(n)
    BY <2>3, <2>5, <2>6 DEF StepsRight
  <2>8. SumsRight(n)
    BY <2>4, <2>5, <2>6 DEF SumsRight
  <2>9. Takes(n)
    BY <2>1, <2>5 DEF Takes
  <2> QED
    BY <1>1, <2>0, <2>5, <2>7, <2>8, <2>9, GrantedLock, SameLock, Advances
<1> QED
  BY <1>2, <1>3 DEF LockJob, Fails

(* MarkLate keeps it: the row is locked for the transition. *)
LEMMA MarkKeeps == ASSUME ExecInv, NEW t \in Crew, MarkLate(t) PROVE ExecInv'
<1> DEFINE c == crew[t]
           n == [c EXCEPT !.step = "lock", !.lock = "update"]
<1>1. c.step = "mark" /\ Grants(t, "update") /\ (GoOn(t, NoJobTx) \/ GoOn(t, n))
  BY DEF MarkLate, Fails
<1>2. c \in JobTx /\ StepsRight(c) /\ SumsRight(c) /\ Takes(c)
  BY <1>1, OpenTx
<1>3. /\ n \in JobTx /\ n.job = c.job /\ n.kind = c.kind /\ n.step = "lock" /\ n.lock = "update"
      /\ n.new = c.new /\ n.minutes = c.minutes /\ n.parts = c.parts /\ n.rows = c.rows
      /\ n.taken = c.taken /\ n.action = c.action
  BY <1>2 DEF JobTx
<1> HIDE DEF n
<1>4. StepsRight(n)
  BY <1>1, <1>2, <1>3 DEF StepsRight
<1>5. SumsRight(n) /\ Takes(n)
  BY <1>1, <1>2, <1>3 DEF SumsRight, Takes
<1> QED
  BY <1>1, <1>3, <1>4, <1>5, Fail, GrantedLock, SameLock, Advances

(* InsertLabour keeps the invariant. *)
LEMMA LabourKeeps == ASSUME ExecInv, NEW t \in Crew, InsertLabour(t) PROVE ExecInv'
<1> DEFINE c == crew[t]
           n0 == [c EXCEPT !.step = "part"]
           n1 == [c EXCEPT !.step = "part", !.lock = Stronger(@, "share")]
<1>1. /\ c.step = "labour"
      /\ IF c.minutes = 0 THEN GoOn(t, n0) ELSE Grants(t, "share") /\ GoOn(t, n1)
  BY DEF InsertLabour
<1>2. c \in JobTx /\ StepsRight(c) /\ SumsRight(c) /\ Takes(c)
  BY <1>1, OpenTx
<1>3. CASE c.minutes = 0
  <2>1. /\ n0 \in JobTx /\ n0.job = c.job /\ n0.kind = c.kind /\ n0.step = "part" /\ n0.lock = c.lock
        /\ n0.new = c.new /\ n0.minutes = c.minutes /\ n0.parts = c.parts /\ n0.rows = c.rows
        /\ n0.taken = c.taken
    BY <1>2 DEF JobTx
  <2> HIDE DEF n0
  <2>2. StepsRight(n0)
    BY <1>1, <1>2, <1>3, <2>1 DEF StepsRight
  <2>3. SumsRight(n0) /\ Takes(n0)
    BY <1>1, <1>2, <2>1 DEF SumsRight, Takes
  <2> QED
    BY <1>1, <1>3, <2>1, <2>2, <2>3, SameLock, Advances
<1>4. CASE c.minutes # 0
  <2>0. Stronger(c.lock, "share") \in {"share", "update", "all"}
        /\ (c.lock = "all" => Stronger(c.lock, "share") = "all")
    BY <1>2 DEF Stronger
  <2>1. /\ n1 \in JobTx /\ n1.job = c.job /\ n1.kind = c.kind /\ n1.step = "part"
        /\ n1.lock = Stronger(c.lock, "share")
        /\ n1.new = c.new /\ n1.minutes = c.minutes /\ n1.parts = c.parts /\ n1.rows = c.rows
        /\ n1.taken = c.taken
    BY <1>2, <2>0 DEF JobTx
  <2> HIDE DEF n1
  <2>2. StepsRight(n1)
    BY <1>1, <1>2, <2>0, <2>1 DEF StepsRight
  <2>3. SumsRight(n1) /\ Takes(n1)
    BY <1>1, <1>2, <2>1 DEF SumsRight, Takes
  <2> QED
    BY <1>1, <1>4, <2>1, <2>2, <2>3, GrantedLock, SameLock, Advances
<1> QED
  BY <1>3, <1>4

(* A row without a shelf is issued by none.                                    *)
LEMMA RowBrought ==
  ASSUME NEW rows \in Seq(UseRow), NEW entry \in UseRow, entry.shelf = NoShelf
  PROVE  /\ Append(rows, entry) \in Seq(UseRow) /\ Append(rows, entry) # <<>>
         /\ Append(rows, entry)[Len(Append(rows, entry))] = entry
         /\ \A s \in Shelves : IssuedBy(Append(rows, entry), s) = IssuedBy(rows, s)
<1>1. /\ Append(rows, entry) \in Seq(UseRow) /\ Append(rows, entry) # <<>>
      /\ Append(rows, entry)[Len(Append(rows, entry))] = entry
  OBVIOUS
<1>2. ASSUME NEW s \in Shelves PROVE IssuedBy(Append(rows, entry), s) = IssuedBy(rows, s)
  <2> DEFINE one == <<entry>>
  <2>1. one \in Seq(UseRow) /\ DOMAIN one = {1} /\ one[1].shelf # s
    BY UsesAssumption
  <2>2. Append(rows, entry) = rows \o one
    BY AppendIsConcat
  <2> HIDE DEF one
  <2>3. IssuedBy(rows \o one, s) = IssuedBy(rows, s) + IssuedBy(one, s)
    BY <2>1, SumsOfJoinedRows
  <2>4. IssuedBy(one, s) = 0
    <3> DEFINE b == [i \in DOMAIN one |-> IF one[i].shelf = s THEN one[i].quantity ELSE 0]
    <3>1. DOMAIN b = {1} /\ \A i \in {1} : b[i] = 0
      BY <2>1
    <3>2. IsFiniteSet({1})
      BY FS_Singleton
    <3>3. SumFunction(b) = SumFunctionOnSet(b, {1})
      BY <3>1 DEF SumFunction
    <3> HIDE DEF b
    <3>4. SumFunctionOnSet(b, {1}) = 0
      BY <3>1, <3>2, SumOfZeros
    <3> QED
      BY <3>3, <3>4 DEF b, IssuedBy
  <2>5. IssuedBy(rows, s) \in Int
    BY RowsAreSummed
  <2> QED
    BY <2>2, <2>3, <2>4, <2>5
<1> QED
  BY <1>1, <1>2

(* The last row gets its shelf.                                               *)
LEMMA RowFound ==
  ASSUME NEW rows \in Seq(UseRow), rows # <<>>, NEW s \in Shelves, rows[Len(rows)].shelf = NoShelf
  PROVE  LET new == [rows EXCEPT ![Len(rows)].shelf = s] IN
         /\ new \in Seq(UseRow) /\ new # <<>> /\ Len(new) = Len(rows)
         /\ new[Len(rows)].shelf = s /\ new[Len(rows)].quantity = rows[Len(rows)].quantity
         /\ IssuedBy(new, s) = IssuedBy(rows, s) + rows[Len(rows)].quantity
         /\ \A r \in Shelves \ {s} : IssuedBy(new, r) = IssuedBy(rows, r)
<1> DEFINE k == Len(rows)
           new == [rows EXCEPT ![k].shelf = s]
<1>0. k \in Nat
  BY LenProperties
<1>1. k \in 1..k /\ rows[k] \in UseRow
  OBVIOUS
<1>2. /\ [rows[k] EXCEPT !.shelf = s] \in UseRow
      /\ [rows[k] EXCEPT !.shelf = s].shelf = s /\ [rows[k] EXCEPT !.shelf = s].quantity = rows[k].quantity
  BY <1>1 DEF UseRow
<1>3. /\ new \in Seq(UseRow) /\ Len(new) = k /\ new[k] = [rows[k] EXCEPT !.shelf = s]
      /\ \A i \in 1..k : i # k => new[i] = rows[i]
  <2>1. PICK shelved : shelved = [rows[k] EXCEPT !.shelf = s]
    OBVIOUS
  <2>2. new = [rows EXCEPT ![k] = shelved] /\ shelved \in UseRow
    BY <1>2, <2>1
  <2> HIDE DEF new
  <2>3. new \in Seq(UseRow) /\ Len(new) = k /\ new[k] = shelved /\ \A i \in 1..k : i # k => new[i] = rows[i]
    BY <1>1, <2>2, ExceptSeq
  <2> QED BY <2>1, <2>3
<1>4. new # <<>> /\ DOMAIN new = 1..k /\ DOMAIN rows = 1..k /\ Len(new) = k
  BY <1>1, <1>3
<1> HIDE DEF new
<1>5. ASSUME NEW r \in Shelves
      PROVE  IssuedBy(new, r) = IssuedBy(rows, r) + (IF r = s THEN rows[k].quantity ELSE 0)
  <2>1. PICK a, b : a = TakenFrom(rows, r) /\ b = TakenFrom(new, r)
    OBVIOUS
  <2>2. /\ a \in [1..k -> Int] /\ IssuedBy(rows, r) = SumFunction(a)
        /\ \A i \in 1..k : a[i] = IF rows[i].shelf = r THEN rows[i].quantity ELSE 0
    BY <2>1, AmountsOfRows
  <2>3. /\ b \in [1..k -> Int] /\ IssuedBy(new, r) = SumFunction(b)
        /\ \A i \in 1..k : b[i] = IF new[i].shelf = r THEN new[i].quantity ELSE 0
    BY <1>3, <2>1, AmountsOfRows
  <2>4. a[k] = 0 /\ b[k] = IF r = s THEN rows[k].quantity ELSE 0
    <3>1. rows[k].shelf # r /\ new[k].shelf = s /\ new[k].quantity = rows[k].quantity
      BY <1>2, <1>3, UsesAssumption
    <3>2. a[k] = IF rows[k].shelf = r THEN rows[k].quantity ELSE 0
      BY <1>1, <2>2
    <3>3. b[k] = IF new[k].shelf = r THEN new[k].quantity ELSE 0
      BY <1>1, <2>3
    <3> QED BY <3>1, <3>2, <3>3
  <2>5. \A i \in (1..k) \ {k} : b[i] = a[i]
    BY <1>3, <2>2, <2>3
  <2> HIDE DEF k
  <2>6. a \in [1..k -> Int] /\ b \in [1..k -> Int]
    BY <2>2, <2>3
  <2>7. b[k] \in Int
    BY <1>1, <2>6
  <2>8. SumFunction(a) \in Int /\ SumFunction(b) = SumFunction(a) + (b[k] - a[k])
    BY <1>0, <1>1, <2>5, <2>6, OneMoves
  <2>10. b[k] - a[k] = b[k]
    BY <2>4, <2>7
  <2> QED
    BY <2>2, <2>3, <2>4, <2>8, <2>10
<1>6. \A r \in Shelves : IssuedBy(rows, r) \in Int
  BY RowsAreSummed
<1>7. /\ IssuedBy(new, s) = IssuedBy(rows, s) + rows[k].quantity
      /\ \A r \in Shelves \ {s} : IssuedBy(new, r) = IssuedBy(rows, r)
  <2> HIDE DEF k
  <2> QED
    BY <1>5, <1>6
<1>8. new[k].shelf = s /\ new[k].quantity = rows[k].quantity
  BY <1>2, <1>3
<1> QED
  BY <1>3, <1>4, <1>7, <1>8 DEF new

(* FindShelves keeps it: the new row names no shelf yet. *)
LEMMA FindKeeps == ASSUME ExecInv, NEW t \in Crew, FindShelves(t) PROVE ExecInv'
<1> DEFINE c == crew[t]
           want == Head(c.parts)
           entry == [shelf |-> NoShelf, quantity |-> want[2]]
           found == {s \in Shelves : PartOn[s] = want[1] /\ shelf[s] - c.taken[s] >= want[2]}
           n == [c EXCEPT !.step = "take", !.rows = Append(@, entry), !.todo = found]
<1>1. c.step = "part" /\ c.parts # <<>> /\ GoOn(t, n)
  BY DEF FindShelves
<1>2. c \in JobTx /\ StepsRight(c) /\ SumsRight(c) /\ Takes(c)
  BY <1>1, OpenTx
<1>3. want \in UsedParts /\ want[2] \in Nat
  <2>1. c.parts \in Seq(UsedParts)
    BY <1>2 DEF JobTx
  <2>2. want \in UsedParts
    BY <1>1, <2>1, HeadTailProperties
  <2> QED
    BY <2>2, UsesAssumption
<1>4. entry \in UseRow /\ entry.shelf = NoShelf /\ entry.quantity = want[2]
  BY <1>3 DEF UseRow
<1> HIDE DEF entry
<1> DEFINE rows == Append(c.rows, entry)
<1>5. /\ rows \in Seq(UseRow) /\ rows # <<>> /\ rows[Len(rows)] = entry
      /\ \A s \in Shelves : IssuedBy(rows, s) = IssuedBy(c.rows, s)
  BY <1>2, <1>4, RowBrought DEF JobTx
<1> HIDE DEF rows
<1>6. found \subseteq Shelves /\ \A s \in found : PartOn[s] = want[1]
  OBVIOUS
<1> HIDE DEF found
<1>7. /\ n \in JobTx /\ n.job = c.job /\ n.kind = c.kind /\ n.step = "take" /\ n.lock = c.lock
      /\ n.new = c.new /\ n.minutes = c.minutes /\ n.parts = c.parts /\ n.rows = rows
      /\ n.taken = c.taken /\ n.todo = found
  BY <1>2, <1>5, <1>6 DEF JobTx, rows
<1> HIDE DEF n
<1>8. StepsRight(n)
  BY <1>1, <1>2, <1>5, <1>7 DEF StepsRight
<1>9. SumsRight(n)
  BY <1>1, <1>2, <1>7 DEF SumsRight
<1>10. Takes(n)
  BY <1>1, <1>2, <1>4, <1>5, <1>6, <1>7 DEF Takes
<1> QED
  BY <1>1, <1>7, <1>8, <1>9, <1>10, SameLock, Advances

(* RecordUse keeps it, or ends the transaction. *)
LEMMA UseKeeps == ASSUME ExecInv, NEW t \in Crew, RecordUse(t) PROVE ExecInv'
<1> DEFINE c == crew[t]
           n == [c EXCEPT !.step = "part", !.parts = Tail(@), !.lock = Stronger(@, "share")]
<1>1. /\ c.step = "take"
      /\ GoOn(t, NoJobTx) \/ (Grants(t, "share") /\ GoOn(t, n))
  BY DEF RecordUse, Fails
<1>2. CASE GoOn(t, NoJobTx)
  BY <1>2, Fail
<1>3. CASE Grants(t, "share") /\ GoOn(t, n)
  <2>1. c \in JobTx /\ StepsRight(c) /\ SumsRight(c) /\ Takes(c)
    BY <1>1, OpenTx
  <2>2. c.parts # <<>> /\ c.rows # <<>>
    BY <1>1, <2>1 DEF Takes
  <2>3. Stronger(c.lock, "share") \in {"share", "update", "all"}
        /\ (c.lock = "all" => Stronger(c.lock, "share") = "all")
    BY <2>1 DEF Stronger
  <2>4. Tail(c.parts) \in Seq(UsedParts)
    <3>1. c.parts \in Seq(UsedParts)
      BY <2>1 DEF JobTx
    <3> QED
      BY <2>2, <3>1, HeadTailProperties
  <2>5. /\ n \in JobTx /\ n.job = c.job /\ n.kind = c.kind /\ n.step = "part"
        /\ n.lock = Stronger(c.lock, "share")
        /\ n.new = c.new /\ n.minutes = c.minutes /\ n.parts = Tail(c.parts) /\ n.rows = c.rows
        /\ n.taken = c.taken
    BY <2>1, <2>3, <2>4 DEF JobTx
  <2> HIDE DEF n
  <2>6. StepsRight(n)
    BY <1>1, <2>1, <2>2, <2>3, <2>5 DEF StepsRight
  <2>7. SumsRight(n)
    BY <1>1, <2>1, <2>5 DEF SumsRight
  <2>8. Takes(n)
    BY <2>1, <2>5 DEF Takes
  <2> QED
    BY <1>1, <1>3, <2>5, <2>6, <2>7, <2>8, GrantedLock, SameLock, Advances
<1> QED
  BY <1>1, <1>2, <1>3

(* TakeFrom keeps it: the shelf is tested again, and no other has taken from it. *)
LEMMA TakeKeeps == ASSUME ExecInv, NEW t \in Crew, NEW s \in Shelves, TakeFrom(t, s) PROVE ExecInv'
<1> DEFINE c == crew[t]
           want == Head(c.parts)
           k == Len(c.rows)
           rows == [c.rows EXCEPT ![k].shelf = IF @ = NoShelf THEN s ELSE @]
           n0 == [c EXCEPT !.todo = @ \ {s}]
           n1 == [c EXCEPT !.todo = @ \ {s}, !.taken[s] = @ + want[2], !.rows[k].shelf = IF @ = NoShelf THEN s ELSE @]
<1>1. /\ c.step = "take" /\ s \in c.todo /\ ~HeldShelf(t, s)
      /\ GoOn(t, IF Enough(t, s, want[2]) THEN n1 ELSE n0)
  BY DEF TakeFrom
<1>2. c \in JobTx /\ StepsRight(c) /\ SumsRight(c) /\ Takes(c)
  BY <1>1, OpenTx
<1>3. c.parts # <<>> /\ c.rows # <<>> /\ want \in UsedParts /\ want[2] \in Nat
      /\ c.rows[k].quantity = want[2] /\ PartOn[s] = want[1] /\ c.rows \in Seq(UseRow)
      /\ k \in 1..Len(c.rows) /\ c.rows[k] \in UseRow
  <2>1. c.parts # <<>> /\ c.rows # <<>> /\ c.rows[k].quantity = want[2] /\ PartOn[s] = want[1]
    BY <1>1, <1>2 DEF Takes
  <2>2. c.rows \in Seq(UseRow) /\ c.parts \in Seq(UsedParts)
    BY <1>2 DEF JobTx
  <2> QED
    BY <2>1, <2>2, UsesAssumption
<1>4. CASE ~Enough(t, s, want[2])
  <2>1. /\ n0 \in JobTx /\ n0.job = c.job /\ n0.kind = c.kind /\ n0.step = "take" /\ n0.lock = c.lock
        /\ n0.new = c.new /\ n0.minutes = c.minutes /\ n0.parts = c.parts /\ n0.rows = c.rows
        /\ n0.taken = c.taken /\ n0.todo = c.todo \ {s}
    BY <1>1, <1>2 DEF JobTx
  <2> HIDE DEF n0
  <2>2. StepsRight(n0)
    BY <1>1, <1>2, <2>1 DEF StepsRight
  <2>3. SumsRight(n0) /\ Takes(n0)
    BY <1>1, <1>2, <2>1 DEF SumsRight, Takes
  <2> QED
    BY <1>1, <1>4, <2>1, <2>2, <2>3, SameLock, Advances
<1>5. CASE Enough(t, s, want[2])
  <2> DEFINE taken == [c.taken EXCEPT ![s] = @ + want[2]]
  <2>1. /\ rows \in Seq(UseRow) /\ rows # <<>> /\ Len(rows) = k
        /\ rows[k].quantity = want[2] /\ rows[k].shelf # NoShelf
        /\ rows[k].shelf = IF c.rows[k].shelf = NoShelf THEN s ELSE c.rows[k].shelf
        /\ c.rows[k].shelf = NoShelf => IssuedBy(rows, s) = IssuedBy(c.rows, s) + want[2]
        /\ c.rows[k].shelf # NoShelf => IssuedBy(rows, s) = IssuedBy(c.rows, s)
        /\ \A r \in Shelves \ {s} : IssuedBy(rows, r) = IssuedBy(c.rows, r)
    <3>1. CASE c.rows[k].shelf = NoShelf
      <4> DEFINE new == [c.rows EXCEPT ![k].shelf = s]
      <4>1. rows = new
        BY <1>3, <3>1
      <4>2. /\ new \in Seq(UseRow) /\ new # <<>> /\ Len(new) = k
            /\ new[k].shelf = s /\ new[k].quantity = c.rows[k].quantity
            /\ IssuedBy(new, s) = IssuedBy(c.rows, s) + c.rows[k].quantity
            /\ \A r \in Shelves \ {s} : IssuedBy(new, r) = IssuedBy(c.rows, r)
        BY <1>3, <3>1, RowFound
      <4> HIDE DEF new, rows, k, want
      <4> QED
        BY <1>3, <3>1, <4>1, <4>2, UsesAssumption
    <3>2. CASE c.rows[k].shelf # NoShelf
      <4>1. rows = [c.rows EXCEPT ![k] = [c.rows[k] EXCEPT !.shelf = c.rows[k].shelf]]
        BY <1>3, <3>2
      <4>2. [c.rows[k] EXCEPT !.shelf = c.rows[k].shelf] = c.rows[k]
        BY <1>3 DEF UseRow
      <4>3. [c.rows EXCEPT ![k] = c.rows[k]] = c.rows
        BY <1>3
      <4>4. rows = c.rows
        BY <4>1, <4>2, <4>3
      <4> HIDE DEF rows
      <4>5. c.rows \in Seq(UseRow) /\ Len(rows) = k
        BY <1>3, <4>4
      <4> QED
        BY <1>3, <3>2, <4>4, <4>5
    <3> QED
      BY <3>1, <3>2
  <2>2. c.taken \in [Shelves -> Nat] /\ taken \in [Shelves -> Nat] /\ taken[s] = c.taken[s] + want[2]
        /\ \A r \in Shelves \ {s} : taken[r] = c.taken[r]
    <3>1. c.taken \in [Shelves -> Nat]
      BY <1>2 DEF JobTx
    <3>2. c.taken[s] + want[2] \in Nat
      BY <1>3, <3>1
    <3> QED
      BY <3>1, <3>2
  <2>3. n1 = [c EXCEPT !.todo = c.todo \ {s}, !.taken = taken, !.rows = rows]
    BY <1>2 DEF JobTx
  <2> HIDE DEF rows, taken, n1
  <2>4. /\ n1 \in JobTx /\ n1.job = c.job /\ n1.kind = c.kind /\ n1.step = "take" /\ n1.lock = c.lock
        /\ n1.new = c.new /\ n1.minutes = c.minutes /\ n1.parts = c.parts /\ n1.rows = rows
        /\ n1.taken = taken /\ n1.todo = c.todo \ {s}
    BY <1>1, <1>2, <2>1, <2>2, <2>3 DEF JobTx
  <2>5. StepsRight(n1)
    BY <1>1, <1>2, <2>1, <2>4 DEF StepsRight
  <2>6. SumsRight(n1)
    BY <1>1, <1>2, <2>4 DEF SumsRight
  <2>7. shelf[s] \in Int /\ taken[s] <= shelf[s]
    BY <1>3, <1>5, <2>2 DEF Enough, ExecInv, ExecTyped
  <2>8. \A r \in Shelves : IssuedBy(c.rows, r) \in Int
    BY <1>3, RowsAreSummed
  <2>9. \A r \in Shelves : taken[r] <= shelf[r] /\ IssuedBy(rows, r) <= taken[r]
    <3> TAKE r \in Shelves
    <3>1. c.taken[r] <= shelf[r] /\ IssuedBy(c.rows, r) <= c.taken[r] /\ c.taken[r] \in Nat
      BY <1>2, <2>2 DEF Takes
    <3>2. CASE r # s
      BY <2>1, <2>2, <3>1, <3>2
    <3>3. CASE r = s
      BY <1>3, <2>1, <2>2, <2>7, <2>8, <3>1, <3>3
    <3> QED
      BY <3>2, <3>3
  <2>10. \A r \in Shelves : Alone(r) => IssuedBy(rows, r) = taken[r]
    <3> TAKE r \in Shelves
    <3> HAVE Alone(r)
    <3>1. IssuedBy(c.rows, r) = c.taken[r]
      BY <1>2 DEF Takes
    <3>2. CASE r # s
      BY <2>1, <2>2, <3>1, <3>2
    <3>3. CASE r = s
      <4>1. c.rows[k].shelf = NoShelf
        <5> SUFFICES ASSUME c.rows[k].shelf # NoShelf PROVE FALSE
          OBVIOUS
        <5>1. c.rows[k].shelf \in Shelves /\ c.rows[k].shelf \notin c.todo /\ PartOn[c.rows[k].shelf] = want[1]
          BY <1>1, <1>2, <1>3 DEF Takes, UseRow
        <5> QED
          BY <1>1, <1>3, <3>3, <5>1 DEF Alone
      <4> QED
        BY <2>1, <2>2, <3>1, <3>3, <4>1
    <3> QED
      BY <3>2, <3>3
  <2>11. Takes(n1)
    <3>1. \A r \in n1.todo : PartOn[r] = want[1]
      BY <1>1, <1>2, <2>4 DEF Takes
    <3>2. rows[k].shelf \notin n1.todo /\ PartOn[rows[k].shelf] = want[1]
      BY <1>1, <1>2, <1>3, <2>1, <2>4 DEF Takes
    <3> QED
      BY <1>3, <2>1, <2>4, <2>9, <2>10, <3>1, <3>2 DEF Takes
  <2>12. \A u \in Crew \ {t} : \A r \in Shelves : taken[r] = 0 \/ crew[u].taken[r] = 0
    <3> TAKE u \in Crew \ {t}
    <3> TAKE r \in Shelves
    <3>1. CASE r # s
      BY <2>2, <3>1, SameLock
    <3>2. CASE r = s
      <4>1. ~(crew[u].taken[s] > 0)
        BY <1>1 DEF HeldShelf
      <4>2. crew[u].taken[s] \in Nat
        BY TakenIsANumber DEF ExecInv, ExecTyped
      <4> QED
        BY <3>2, <4>1, <4>2
    <3> QED
      BY <3>1, <3>2
  <2> QED
    BY <1>1, <1>5, <2>4, <2>5, <2>6, <2>11, <2>12, SameLock, Advances
<1> QED
  BY <1>4, <1>5

(* No rows add up to nothing. *)
LEMMA TotalOfNone == Total(<<>>) = 0 /\ \A s : IssuedBy(<<>>, s) = 0
<1>1. IsFiniteSet({})
  BY FS_EmptySet
<1>2. ASSUME NEW fun, DOMAIN fun = {} PROVE SumFunction(fun) = 0
  <2>1. SumFunctionOnSet(fun, {}) = 0
    BY <1>1, SumOfZeros
  <2> QED
    BY <1>2, <2>1 DEF SumFunction
<1> DEFINE a == [i \in DOMAIN <<>> |-> <<>>[i].quantity]
<1>3. DOMAIN <<>> = {}
  OBVIOUS
<1>4. DOMAIN a = {}
  BY <1>3
<1> HIDE DEF a
<1>5. SumFunction(a) = 0
  BY <1>2, <1>4
<1>6. ASSUME NEW s PROVE IssuedBy(<<>>, s) = 0
  <2> DEFINE b == [i \in DOMAIN <<>> |-> IF <<>>[i].shelf = s THEN <<>>[i].quantity ELSE 0]
  <2>1. DOMAIN b = {}
    BY <1>3
  <2> HIDE DEF b
  <2>2. SumFunction(b) = 0
    BY <1>2, <2>1
  <2> QED
    BY <2>2 DEF IssuedBy, b
<1> QED
  BY <1>5, <1>6 DEF Total, a

(* What the rows of an order add up to is a number.                            *)
LEMMA TotalsAreNumbers ==
  ASSUME ExecInv, NEW w \in Jobs
  PROVE  /\ used[w].parts \in Seq(UseRow) /\ used[w].minutes \in Nat
         /\ Total(used[w].parts) \in Int
<1>1. used[w].parts \in Seq(UseRow) /\ used[w].minutes \in Nat
  BY DEF ExecInv, ExecTyped
<1> QED
  BY <1>1, RowsAreSummed

(* SumRows keeps it: the sums are true when they are read. *)
LEMMA SumKeeps == ASSUME ExecInv, NEW t \in Crew, SumRows(t) PROVE ExecInv'
<1> DEFINE c == crew[t]
           sum == [minutes |-> used[c.job].minutes + c.minutes,
                   parts |-> Total(used[c.job].parts) + Total(c.rows)]
           n0 == [c EXCEPT !.step = "commit"]
           n1 == [c EXCEPT !.step = "sum", !.sum = sum]
<1>1. /\ c.step = "part" /\ c.parts = <<>>
      /\ (~Rolls(t) /\ GoOn(t, n0)) \/ GoOn(t, n1)
  BY DEF SumRows
<1>2. c \in JobTx /\ StepsRight(c) /\ SumsRight(c) /\ Takes(c) /\ c.job \in Jobs
  BY <1>1, OpenTx
<1>3. c.minutes \in Nat /\ c.rows \in Seq(UseRow) /\ c.kind \in {"transition", "labour", "part", "rating"}
  BY <1>2 DEF JobTx
<1>4. used[c.job].minutes \in Nat /\ Total(used[c.job].parts) \in Int /\ Total(c.rows) \in Int
  BY <1>2, <1>3, TotalsAreNumbers, RowsAreSummed
<1>5. CASE ~Rolls(t) /\ GoOn(t, n0)
  <2>1. c.minutes = 0 /\ c.rows = <<>>
    BY <1>3, <1>5 DEF Rolls
  <2>2. c.kind = "transition" /\ c.lock = "all" /\ c.new # <<>>
    BY <1>1, <1>2, <1>3, <2>1 DEF StepsRight
  <2>3. /\ n0 \in JobTx /\ n0.job = c.job /\ n0.kind = c.kind /\ n0.step = "commit" /\ n0.lock = c.lock
        /\ n0.new = c.new /\ n0.minutes = c.minutes /\ n0.parts = c.parts /\ n0.rows = c.rows
        /\ n0.taken = c.taken
    BY <1>2 DEF JobTx
  <2> HIDE DEF n0
  <2>4. StepsRight(n0)
    BY <2>1, <2>2, <2>3 DEF StepsRight
  <2>5. SumsRight(n0)
    <3>1. InvitedRight(c.new[1]) /\ c.new[1].minutes = job[c.job].minutes /\ c.new[1].parts = job[c.job].parts
      BY <1>1, <1>2, <2>2 DEF SumsRight
    <3>2. c.job \notin crossed => job[c.job].minutes = used[c.job].minutes
                                  /\ job[c.job].parts = Total(used[c.job].parts)
      BY <1>2 DEF ExecInv, TotalsAreSums
    <3>3. Total(c.rows) = 0
      BY <2>1, TotalOfNone
    <3> QED
      BY <1>4, <2>1, <2>3, <3>1, <3>2, <3>3 DEF SumsRight
  <2>6. Takes(n0)
    BY <1>2, <2>3 DEF Takes
  <2> QED
    BY <1>1, <1>5, <2>3, <2>4, <2>5, <2>6, SameLock, Advances
<1>6. CASE GoOn(t, n1)
  <2>1. sum \in [minutes : Int, parts : Int]
    BY <1>3, <1>4
  <2>2. sum.minutes = used[c.job].minutes + c.minutes /\ sum.parts = Total(used[c.job].parts) + Total(c.rows)
    OBVIOUS
  <2> HIDE DEF sum
  <2>3. /\ n1 \in JobTx /\ n1.job = c.job /\ n1.kind = c.kind /\ n1.step = "sum" /\ n1.lock = c.lock
        /\ n1.new = c.new /\ n1.minutes = c.minutes /\ n1.parts = c.parts /\ n1.rows = c.rows
        /\ n1.taken = c.taken /\ n1.sum = sum
    BY <1>2, <2>1 DEF JobTx
  <2> HIDE DEF n1
  <2>4. StepsRight(n1)
    <3>1. c.lock # "none"
      <4>1. CASE c.minutes = 0 /\ c.rows = <<>>
        BY <1>1, <1>2, <1>3, <4>1 DEF StepsRight
      <4>2. CASE ~(c.minutes = 0 /\ c.rows = <<>>)
        BY <1>1, <1>2, <1>3, <4>2 DEF StepsRight
      <4> QED
        BY <4>1, <4>2
    <3> QED
      BY <1>1, <1>2, <2>3, <3>1 DEF StepsRight
  <2>5. SumsRight(n1)
    BY <1>1, <1>2, <2>2, <2>3 DEF SumsRight
  <2>6. Takes(n1)
    BY <1>2, <2>3 DEF Takes
  <2> QED
    BY <1>1, <1>6, <2>3, <2>4, <2>5, <2>6, SameLock, Advances
<1> QED
  BY <1>1, <1>5, <1>6

(* RecomputeCosts keeps it: the totals are the sums it has read. *)
LEMMA RecomputeKeeps == ASSUME ExecInv, NEW t \in Crew, RecomputeCosts(t) PROVE ExecInv'
<1> DEFINE c == crew[t]
           old == IF c.new = <<>> THEN job[c.job] ELSE c.new[1]
           entry == WithTotals(t, old)
           n == [c EXCEPT !.step = "commit", !.lock = Stronger(@, "update"), !.new = <<entry>>]
<1>1. c.step = "sum" /\ Grants(t, "update") /\ GoOn(t, n)
  BY DEF RecomputeCosts
<1>2. c \in JobTx /\ StepsRight(c) /\ SumsRight(c) /\ Takes(c) /\ c.job \in Jobs
  BY <1>1, OpenTx
<1>3. old \in JobRow /\ InvitedRight(old)
  <2>1. CASE c.new = <<>>
    BY <1>2, <2>1 DEF ExecInv, ExecTyped
  <2>2. CASE c.new # <<>>
    <3>1. c.new \in Seq(JobRow)
      BY <1>2 DEF JobTx
    <3>2. c.new[1] \in JobRow
      BY <2>2, <3>1
    <3> QED
      BY <1>2, <2>2, <3>2 DEF SumsRight
  <2> QED
    BY <2>1, <2>2
<1> HIDE DEF old
<1>4. entry \in JobRow /\ InvitedRight(entry) /\ entry.minutes = c.sum.minutes /\ entry.parts = c.sum.parts
  <2>1. c.sum.minutes \in Int /\ c.sum.parts \in Int
    BY <1>2 DEF JobTx
  <2>2. /\ entry \in JobRow /\ entry.minutes = c.sum.minutes /\ entry.parts = c.sum.parts
        /\ entry.service = old.service /\ entry.done = old.done /\ entry.invited = old.invited
    BY <1>3, <2>1 DEF WithTotals, JobRow
  <2> HIDE DEF entry
  <2> QED
    BY <1>3, <2>2 DEF InvitedRight
<1> HIDE DEF entry
<1>5. /\ Stronger(c.lock, "update") \in {"update", "all"}
      /\ c.lock = "all" => Stronger(c.lock, "update") = "all"
  BY <1>2 DEF Stronger
<1>6. /\ n \in JobTx /\ n.job = c.job /\ n.kind = c.kind /\ n.step = "commit"
      /\ n.lock = Stronger(c.lock, "update")
      /\ n.new = <<entry>> /\ n.minutes = c.minutes /\ n.parts = c.parts /\ n.rows = c.rows
      /\ n.taken = c.taken
  <2>1. <<entry>> \in Seq(JobRow)
    BY <1>4
  <2> QED
    BY <1>2, <1>5, <2>1 DEF JobTx
<1> HIDE DEF n
<1>7. n.new # <<>> /\ n.new[1] = entry
  BY <1>6
<1>8. StepsRight(n)
  BY <1>1, <1>2, <1>5, <1>6, <1>7 DEF StepsRight
<1>9. SumsRight(n)
  BY <1>1, <1>2, <1>4, <1>6, <1>7 DEF SumsRight
<1>10. Takes(n)
  BY <1>2, <1>6 DEF Takes
<1> QED
  BY <1>1, <1>6, <1>8, <1>9, <1>10, GrantedLock, SameLock, Advances

(* Rate keeps it: no totals are touched. *)
LEMMA RateKeeps == ASSUME ExecInv, NEW t \in Crew, Rate(t) PROVE ExecInv'
<1> DEFINE c == crew[t]
           entry == [job[c.job] EXCEPT !.rated = TRUE]
           n == [c EXCEPT !.step = "commit", !.lock = "update", !.new = <<entry>>]
<1>1. c.step = "rate" /\ Grants(t, "update") /\ GoOn(t, n)
  BY DEF Rate
<1>2. c \in JobTx /\ StepsRight(c) /\ SumsRight(c) /\ Takes(c) /\ c.job \in Jobs
  BY <1>1, OpenTx
<1>3. c.kind = "rating" /\ c.minutes = 0 /\ c.rows = <<>>
  BY <1>1, <1>2 DEF StepsRight
<1>4. entry \in JobRow /\ InvitedRight(entry)
      /\ entry.minutes = job[c.job].minutes /\ entry.parts = job[c.job].parts
  <2>1. job[c.job] \in JobRow /\ InvitedRight(job[c.job])
    BY <1>2 DEF ExecInv, ExecTyped
  <2> QED
    BY <2>1 DEF JobRow, InvitedRight
<1> HIDE DEF entry
<1>5. /\ n \in JobTx /\ n.job = c.job /\ n.kind = c.kind /\ n.step = "commit" /\ n.lock = "update"
      /\ n.new = <<entry>> /\ n.minutes = c.minutes /\ n.parts = c.parts /\ n.rows = c.rows
      /\ n.taken = c.taken
  <2>1. <<entry>> \in Seq(JobRow)
    BY <1>4
  <2> QED
    BY <1>2, <2>1 DEF JobTx
<1> HIDE DEF n
<1>6. n.new # <<>> /\ n.new[1] = entry
  BY <1>5
<1>7. StepsRight(n)
  BY <1>3, <1>5, <1>6 DEF StepsRight
<1>8. SumsRight(n)
  <2>1. c.job \notin crossed => job[c.job].minutes = used[c.job].minutes
                                /\ job[c.job].parts = Total(used[c.job].parts)
    BY <1>2 DEF ExecInv, TotalsAreSums
  <2>2. Total(c.rows) = 0 /\ used[c.job].minutes \in Nat /\ Total(used[c.job].parts) \in Int
    BY <1>2, <1>3, TotalOfNone, TotalsAreNumbers
  <2> QED
    BY <1>3, <1>4, <1>5, <1>6, <2>1, <2>2 DEF SumsRight
<1>9. Takes(n)
  BY <1>2, <1>5 DEF Takes
<1> QED
  BY <1>1, <1>5, <1>7, <1>8, <1>9, GrantedLock, SameLock, Advances

(* A request that has arrived holds nothing yet.                               *)
LEMMA Arrives ==
  ASSUME ExecInv, NEW t \in Crew, NEW w \in Jobs, NEW new, NEW n \in JobTx, Send(t, w, new),
         n = [new EXCEPT !.job = w], n.job = w, n.kind = new.kind, n.lock = "none", n.rows = <<>>,
         n.new = <<>>, n.step \notin {"take", "sum", "commit"}, \A s \in Shelves : n.taken[s] = 0,
         StepsRight(n)
  PROVE  ExecInv'
<1>1. /\ crew' = [crew EXCEPT ![t] = n] /\ job' = job /\ used' = used /\ shelf' = shelf
      /\ sent' = sent + 1
      /\ crossed' = IF new.kind \in {"labour", "part"} /\ \E u \in Crew : Enters(u) /\ crew[u].job = w
                    THEN crossed \cup {w} ELSE crossed
  BY DEF Send
<1>2. crossed \subseteq crossed' /\ crossed' \subseteq Jobs
  BY <1>1 DEF ExecInv, ExecTyped
<1>3. crew \in [Crew -> {NoJobTx} \cup JobTx] /\ crew'[t] = n /\ \A u \in Crew : u # t => crew'[u] = crew[u]
  BY <1>1 DEF ExecInv, ExecTyped
<1>4. ExecTyped'
  BY <1>1, <1>2, <1>3 DEF ExecInv, ExecTyped
<1>5. (\A w1 \in Jobs : InvitedRight(job[w1]))' /\ StockIsTrue'
  BY <1>1 DEF ExecInv, StockIsTrue, Issued, Alone
<1>6. TotalsAreSums'
  BY <1>1, <1>2 DEF ExecInv, TotalsAreSums
<1>7. ASSUME NEW c, TxRight(c) PROVE TxRight(c)'
  BY <1>1, <1>2, <1>7 DEF TxRight, SumsRight, Takes, Alone
<1>8. ASSUME NEW c, NEW d, Compatible(c, d) PROVE Compatible(c, d)'
  BY <1>2, <1>8 DEF Compatible
<1>9. TxRight(n)'
  <2>1. \A s \in Shelves : IssuedBy(n.rows, s) = 0 /\ shelf[s] \in Int /\ shelf[s] >= 0
    BY TotalOfNone DEF ExecInv, ExecTyped, StockIsTrue
  <2>2. SumsRight(n)'
    BY DEF SumsRight
  <2>3. Takes(n)'
    BY <1>1, <2>1 DEF Takes
  <2> QED
    BY <2>2, <2>3 DEF TxRight
<1>10. ASSUME NEW u \in Crew, u # t PROVE Compatible(n, crew[u])' /\ Compatible(crew[u], n)'
  <2> DEFINE d == crew[u]
  <2>1. d.lock \in {"none", "share", "update", "all"} /\ crew'[u] = d
    BY <1>3, <1>10, LockTyped
  <2>2. ~Conflict("none", d.lock) /\ ~Conflict(d.lock, "none")
    BY <2>1, ConflictFacts
  <2>3. n.kind \in {"labour", "part"} /\ d.kind \in {"labour", "part"} /\ n.job = d.job => n.job \in crossed'
    BY <1>1 DEF Enters
  <2> QED
    BY <1>3, <2>1, <2>2, <2>3 DEF Compatible
<1>11. \A u \in Crew : TxRight(crew[u])'
  <2> TAKE u \in Crew
  <2>1. PICK c : c = crew'[u]
    OBVIOUS
  <2>2. TxRight(c)'
    BY <1>3, <1>7, <1>9, <2>1 DEF ExecInv
  <2> QED
    BY <2>1, <2>2 DEF TxRight
<1>12. \A u, v \in Crew : u # v => Compatible(crew[u], crew[v])'
  <2> TAKE u, v \in Crew
  <2> HAVE u # v
  <2>1. PICK c : c = crew'[u]
    OBVIOUS
  <2>2. PICK d : d = crew'[v]
    OBVIOUS
  <2>3. CASE u # t /\ v # t
    <3>1. Compatible(c, d)
      BY <1>3, <2>1, <2>2, <2>3 DEF ExecInv
    <3>2. Compatible(c, d)'
      BY <1>8, <3>1
    <3> QED
      BY <2>1, <2>2, <3>2 DEF Compatible
  <2>4. CASE u = t
    BY <1>3, <1>10, <2>4 DEF Compatible
  <2>5. CASE v = t
    BY <1>3, <1>10, <2>5 DEF Compatible
  <2> QED
    BY <2>3, <2>4, <2>5
<1> QED
  BY <1>4, <1>5, <1>6, <1>11, <1>12 DEF ExecInv

(* The five kinds of requests arrive: a transition. *)
LEMMA TransitionArrives ==
  ASSUME ExecInv, NEW t \in Crew, NEW w \in Jobs, NEW action \in JobActions,
         NEW minutes \in 0..1, NEW parts \in Uses, SendTransition(t, w, action, minutes, parts)
  PROVE  ExecInv'
<1> DEFINE new == [NoJobTx EXCEPT !.kind = "transition", !.step = "lock", !.action = action,
                                  !.minutes = minutes, !.parts = parts]
           n == [new EXCEPT !.job = w]
<1>1. Send(t, w, new)
  BY DEF SendTransition
<1>2. parts \in Seq(UsedParts) /\ minutes \in Nat
  BY UsesAssumption
<1>3. /\ n \in JobTx /\ n.job = w /\ n.kind = new.kind /\ n.kind = "transition" /\ n.step = "lock" /\ n.lock = "none"
      /\ n.rows = <<>> /\ n.new = <<>> /\ n.action = action /\ \A s \in Shelves : n.taken[s] = 0
  BY <1>2, NoTxTyped DEF RestingTx, JobTx
<1> HIDE DEF n
<1>4. StepsRight(n)
  <2>1. action # ""
    BY DEF JobActions
  <2> QED
    BY <1>3, <2>1 DEF StepsRight
<1> HIDE DEF new
<1> QED
  BY <1>1, <1>3, <1>4, Arrives DEF n

(* The sweep. *)
LEMMA SweepArrives ==
  ASSUME ExecInv, NEW t \in Crew, NEW w \in Jobs, SendSweep(t, w) PROVE ExecInv'
<1> DEFINE new == [NoJobTx EXCEPT !.kind = "transition", !.step = "mark", !.action = "BREACH_SLA"]
           n == [new EXCEPT !.job = w]
<1>1. Send(t, w, new)
  BY DEF SendSweep
<1>2. /\ n \in JobTx /\ n.job = w /\ n.kind = new.kind /\ n.kind = "transition" /\ n.step = "mark"
      /\ n.lock = "none" /\ n.action = "BREACH_SLA"
      /\ n.rows = <<>> /\ n.new = <<>> /\ n.minutes = NoJobTx.minutes /\ \A s \in Shelves : n.taken[s] = 0
  BY NoTxTyped DEF RestingTx, JobTx
<1> HIDE DEF n, new
<1>3. StepsRight(n)
  BY <1>2, NoTxTyped DEF StepsRight
<1> QED
  BY <1>1, <1>2, <1>3, Arrives DEF n

(* An entry of labour. *)
LEMMA LabourArrives ==
  ASSUME ExecInv, NEW t \in Crew, NEW w \in Jobs, SendLabour(t, w) PROVE ExecInv'
<1> DEFINE new == [NoJobTx EXCEPT !.kind = "labour", !.step = "labour", !.minutes = 1]
           n == [new EXCEPT !.job = w]
<1>1. Send(t, w, new)
  BY DEF SendLabour
<1>2. /\ n \in JobTx /\ n.job = w /\ n.kind = new.kind /\ n.kind = "labour" /\ n.step = "labour" /\ n.lock = "none"
      /\ n.rows = <<>> /\ n.new = <<>> /\ n.minutes = 1 /\ \A s \in Shelves : n.taken[s] = 0
  BY NoTxTyped DEF RestingTx, JobTx
<1> HIDE DEF n
<1>3. StepsRight(n)
  BY <1>2 DEF StepsRight
<1> HIDE DEF new
<1> QED
  BY <1>1, <1>2, <1>3, Arrives DEF n

(* An entry of a part. *)
LEMMA PartArrives ==
  ASSUME ExecInv, NEW t \in Crew, NEW w \in Jobs, NEW parts \in Uses, SendPart(t, w, parts) PROVE ExecInv'
<1> DEFINE new == [NoJobTx EXCEPT !.kind = "part", !.step = "labour", !.parts = parts]
           n == [new EXCEPT !.job = w]
<1>1. Send(t, w, new) /\ Len(parts) = 1
  BY DEF SendPart
<1>2. parts \in Seq(UsedParts) /\ parts # <<>>
  <2>1. parts \in Seq(UsedParts)
    BY ONLY UsesAssumption, parts \in Uses
  <2>2. Len(<<>>) = 0
    OBVIOUS
  <2>3. parts # <<>>
    BY ONLY <1>1, <2>2
  <2> QED BY ONLY <2>1, <2>3
<1>3. /\ n \in JobTx /\ n.job = w /\ n.kind = new.kind /\ n.kind = "part" /\ n.step = "labour" /\ n.lock = "none"
      /\ n.rows = <<>> /\ n.new = <<>> /\ n.minutes = NoJobTx.minutes /\ n.parts = parts /\ \A s \in Shelves : n.taken[s] = 0
  <2>1. PICK q : q = NoJobTx
    OBVIOUS
  <2>2. /\ q \in RestingTx /\ q.lock = "none" /\ q.rows = <<>> /\ q.new = <<>> /\ \A s \in Shelves : q.taken[s] = 0
    BY <2>1, NoTxTyped
  <2>3. n = [q EXCEPT !.kind = "part", !.step = "labour", !.parts = parts, !.job = w] /\ new.kind = "part"
    BY <2>1, <2>2 DEF RestingTx
  <2> HIDE DEF n, new
  <2>4. n \in JobTx
    BY <1>2, <2>2, <2>3 DEF RestingTx, JobTx
  <2>5. /\ n.job = w /\ n.kind = "part" /\ n.step = "labour" /\ n.lock = q.lock
        /\ n.rows = q.rows /\ n.new = q.new /\ n.minutes = q.minutes /\ n.parts = parts /\ n.taken = q.taken
    BY <2>2, <2>3 DEF RestingTx
  <2> QED
    BY <2>1, <2>2, <2>3, <2>4, <2>5
<1> HIDE DEF n
<1>4. StepsRight(n)
  BY <1>2, <1>3, NoTxTyped DEF StepsRight
<1> HIDE DEF new
<1> QED
  BY <1>1, <1>3, <1>4, Arrives DEF n

(* A rating. *)
LEMMA RatingArrives ==
  ASSUME ExecInv, NEW t \in Crew, NEW w \in Jobs, ReadForRating(t, w) PROVE ExecInv'
<1> DEFINE new == [NoJobTx EXCEPT !.kind = "rating", !.step = "rate"]
           n == [new EXCEPT !.job = w]
<1>1. Send(t, w, new)
  BY DEF ReadForRating
<1>2. /\ n \in JobTx /\ n.job = w /\ n.kind = new.kind /\ n.kind = "rating" /\ n.step = "rate" /\ n.lock = "none"
      /\ n.rows = <<>> /\ n.new = <<>> /\ n.minutes = NoJobTx.minutes /\ \A s \in Shelves : n.taken[s] = 0
  BY NoTxTyped DEF RestingTx, JobTx
<1> HIDE DEF n, new
<1>3. StepsRight(n)
  <2>1. n.minutes = 0
    BY <1>2, NoTxTyped
  <2> QED
    BY <1>2, <2>1 DEF StepsRight
<1> QED
  BY <1>1, <1>2, <1>3, Arrives DEF n

(* Deadlocks and lost connections keep the invariant. *)
LEMMA LossKeeps ==
  ASSUME ExecInv, NEW t \in Crew, LoseCycle(t) \/ LoseTask(t) PROVE ExecInv'
<1>1. CASE LoseCycle(t)
  BY <1>1, Fail DEF LoseCycle, Fails
<1>2. CASE LoseTask(t)
  <2>1. sent' \in Nat
    BY <1>2 DEF LoseTask, ExecInv, ExecTyped
  <2> QED
    BY <1>2, <2>1, Ends DEF LoseTask
<1> QED
  BY <1>1, <1>2

(* The commit writes the order, the rows and the shelves at once.                *)
Commits(t, c, entry) ==
  /\ job' = [job EXCEPT ![c.job] = entry]
  /\ used' = [used EXCEPT ![c.job] = [minutes |-> used[c.job].minutes + c.minutes,
                                      parts |-> used[c.job].parts \o c.rows]]
  /\ shelf' = [s \in Shelves |-> shelf[s] - c.taken[s]]
  /\ crew' = [crew EXCEPT ![t] = NoJobTx]
  /\ UNCHANGED <<crossed, sent>>

(* The same for a sum over the orders. *)
LEMMA SumShifts ==
  ASSUME NEW f, NEW g, Integral(f, Jobs), NEW w \in Jobs, g[w] \in Int /\ w \in Jobs /\ \A v \in Jobs \ {w} : g[v] = f[v]
  PROVE  SumFunctionOnSet(g, Jobs) = SumFunctionOnSet(f, Jobs) + (g[w] - f[w])
BY SumMoves

(* What a commit issues from a shelf is what its rows say.                      *)
LEMMA IssuedAtCommit ==
  ASSUME ExecInv, NEW w \in Jobs, NEW rows \in Seq(UseRow), NEW s \in Shelves,
         used' \in [Jobs -> [minutes : Nat, parts : Seq(UseRow)]],
         used'[w].parts = used[w].parts \o rows,
         \A v \in Jobs \ {w} : used'[v] = used[v]
  PROVE  Issued(s) \in Int /\ Issued(s)' = Issued(s) + IssuedBy(rows, s)
<1> DEFINE f == [v \in Jobs |-> IssuedBy(used[v].parts, s)]
           g == [v \in Jobs |-> IssuedBy(used'[v].parts, s)]
<1>1. \A v \in Jobs : used[v].parts \in Seq(UseRow) /\ used'[v].parts \in Seq(UseRow)
  BY DEF ExecInv, ExecTyped
<1>2. \A v \in Jobs : f[v] \in Int /\ g[v] \in Int
  BY <1>1, RowsAreSummed
<1>3. g[w] = f[w] + IssuedBy(rows, s) /\ IssuedBy(rows, s) \in Int
  <2>1. used[w].parts \in Seq(UseRow)
    BY <1>1
  <2>2. IssuedBy(used[w].parts \o rows, s) = IssuedBy(used[w].parts, s) + IssuedBy(rows, s)
    BY <2>1, SumsOfJoinedRows
  <2>3. g[w] = IssuedBy(used[w].parts \o rows, s) /\ f[w] = IssuedBy(used[w].parts, s)
    OBVIOUS
  <2> QED
    BY <2>2, <2>3, RowsAreSummed
<1>4. \A v \in Jobs \ {w} : g[v] = f[v]
  OBVIOUS
<1>5. Issued(s) = SumFunctionOnSet(f, Jobs) /\ Issued(s)' = SumFunctionOnSet(g, Jobs)
  <2>1. DOMAIN f = Jobs /\ DOMAIN g = Jobs
    OBVIOUS
  <2>2. Issued(s) = SumFunction(f) /\ Issued(s)' = SumFunction(g)
    BY DEF Issued
  <2> HIDE DEF f, g
  <2> QED
    BY <2>1, <2>2 DEF SumFunction
<1> HIDE DEF f, g
<1>6. Integral(f, Jobs)
  BY <1>2, ExecAssumption DEF Integral
<1>7. SumFunctionOnSet(g, Jobs) = SumFunctionOnSet(f, Jobs) + (g[w] - f[w])
  <2>1. g[w] \in Int /\ w \in Jobs /\ \A v \in Jobs \ {w} : g[v] = f[v]
    BY <1>2, <1>4
  <2> QED
    BY <1>6, <2>1, SumShifts
<1>8. SumFunctionOnSet(f, Jobs) \in Int
  BY <1>6, SumRecurs
<1> QED
  BY <1>2, <1>3, <1>5, <1>7, <1>8

(* Another transaction of the order is right after the commit: it has not read     *)
(* the sums yet, or the commit was a rating, which adds nothing to them.        *)
LEMMA OtherStaysRight ==
  ASSUME ExecInv, NEW t \in Crew, NEW entry \in JobRow, crew[t].step = "commit", Commits(t, crew[t], entry),
         NEW u \in Crew, u # t, crew[u] # NoJobTx
  PROVE  SumsRight(crew[u])' /\ Takes(crew[u])'
<1> DEFINE c == crew[t]
           d == crew[u]
           w == c.job
<1>1. c \in JobTx /\ StepsRight(c) /\ SumsRight(c) /\ Takes(c) /\ w \in Jobs
  BY OpenTx
<1>2. d \in JobTx /\ StepsRight(d) /\ SumsRight(d) /\ Takes(d) /\ Compatible(c, d)
  BY DEF ExecInv, ExecTyped, TxRight
<1>3. crew' = [crew EXCEPT ![t] = NoJobTx] /\ crossed' = crossed /\ crew'[u] = d /\ crew \in [Crew -> {NoJobTx} \cup JobTx]
  BY DEF Commits, ExecInv, ExecTyped
<1>4. job \in [Jobs -> JobRow] /\ used \in [Jobs -> [minutes : Nat, parts : Seq(UseRow)]] /\ shelf \in [Shelves -> Int]
  BY DEF ExecInv, ExecTyped
<1>5. /\ \A v \in Jobs \ {w} : job'[v] = job[v] /\ used'[v] = used[v]
      /\ used'[w].minutes = used[w].minutes + c.minutes /\ used'[w].parts = used[w].parts \o c.rows
      /\ \A s \in Shelves : shelf'[s] = shelf[s] - c.taken[s]
  BY <1>1, <1>4 DEF Commits
<1>6. Takes(d)'
  <2>1. ASSUME NEW s \in Shelves PROVE d.taken[s] <= shelf'[s]
    <3>1. c.taken[s] \in Nat /\ d.taken[s] \in Nat /\ shelf[s] \in Int
      BY <1>1, <1>2, <1>4, TakenIsANumber
    <3>2. c.taken[s] = 0 \/ d.taken[s] = 0
      BY <1>2 DEF Compatible
    <3>3. d.taken[s] <= shelf[s] /\ c.taken[s] <= shelf[s]
      BY <1>1, <1>2 DEF Takes
    <3>4. shelf'[s] = shelf[s] - c.taken[s]
      BY <1>5
    <3> QED
      BY <3>1, <3>2, <3>3, <3>4
  <2>2. PICK e : e = d
    OBVIOUS
  <2>3. \A s \in Shelves : e.taken[s] <= shelf'[s]
    BY <2>1, <2>2
  <2>4. Takes(e)
    BY <1>2, <2>2
  <2>5. Takes(e)'
    BY <2>3, <2>4 DEF Takes, Alone
  <2> QED
    BY <1>3, <2>2, <2>5 DEF Takes, Alone
<1>7. SumsRight(d)'
  <2>1. d.job # w => job'[d.job] = job[d.job] /\ used'[d.job] = used[d.job]
    BY <1>2, <1>5 DEF JobTx
  <2>2. d.job = w => d.lock \in {"none", "share"} /\ (c.lock = "all" => d.lock = "none")
    <3>1. c.lock \in {"update", "all"} /\ d.lock \in {"none", "share", "update", "all"}
      BY <1>1, <1>2 DEF StepsRight, JobTx
    <3>2. d.job = w => ~Conflict(c.lock, d.lock)
      BY <1>2 DEF Compatible
    <3> QED
      BY <3>1, <3>2 DEF Conflict
  <2>3. d.job = w => d.step # "commit" /\ d.new = <<>>
    BY <1>2, <2>2 DEF StepsRight, JobTx
  <2>4. d.job = w /\ d.step = "sum" /\ w \notin crossed =>
          used'[w].minutes = used[w].minutes /\ Total(used'[w].parts) = Total(used[w].parts)
    <3> SUFFICES ASSUME d.job = w, d.step = "sum", w \notin crossed
                 PROVE  used'[w].minutes = used[w].minutes /\ used'[w].parts = used[w].parts
      OBVIOUS
    <3>1. d.lock = "share" /\ d.kind \in {"labour", "part"}
      BY <1>2, <2>2 DEF StepsRight, JobTx
    <3>2. c.kind \notin {"labour", "part"}
      BY <1>2, <3>1 DEF Compatible
    <3>3. c.kind # "transition"
      BY <1>1, <2>2, <3>1 DEF StepsRight
    <3>4. c.kind = "rating"
      BY <1>1, <3>2, <3>3 DEF JobTx
    <3>5. c.minutes = 0 /\ c.rows = <<>>
      BY <1>1, <3>4 DEF StepsRight
    <3>6. used[w].parts \in Seq(UseRow) /\ used[w].minutes \in Nat
      BY <1>1, <1>4
    <3>7. used[w].parts \o <<>> = used[w].parts
      BY <3>6, ConcatEmptySeq
    <3> QED
      BY <1>5, <3>5, <3>6, <3>7
  <2>5. PICK e : e = d
    OBVIOUS
  <2>6. SumsRight(e)'
    <3>1. SumsRight(e)
      BY <1>2, <2>5
    <3>2. CASE e.job # w
      BY <1>3, <2>1, <2>5, <3>1, <3>2 DEF SumsRight
    <3>3. CASE e.job = w
      BY <1>3, <2>3, <2>4, <2>5, <3>1, <3>3 DEF SumsRight
    <3> QED
      BY <3>2, <3>3
  <2> QED
    BY <1>3, <2>5, <2>6 DEF SumsRight
<1> QED
  BY <1>6, <1>7

(* CommitJob keeps it: what was promised of the transaction becomes true of the order. *)
LEMMA CommitKeeps == ASSUME ExecInv, NEW t \in Crew, CommitJob(t) PROVE ExecInv'
<1> DEFINE c == crew[t]
           w == c.job
           entry == c.new[1]
<1>1. c.step = "commit"
  BY DEF CommitJob
<1>2. c \in JobTx /\ StepsRight(c) /\ SumsRight(c) /\ Takes(c) /\ w \in Jobs
  BY <1>1, OpenTx
<1>3. c.minutes \in Nat /\ c.rows \in Seq(UseRow) /\ c.new \in Seq(JobRow) /\ c.taken \in [Shelves -> Nat]
  BY <1>2 DEF JobTx
<1>4. c.new # <<>> /\ entry \in JobRow /\ InvitedRight(entry)
  <2>1. c.new # <<>>
    BY <1>1, <1>2 DEF StepsRight
  <2> QED
    BY <1>2, <1>3, <2>1 DEF SumsRight
<1>5. job \in [Jobs -> JobRow] /\ used \in [Jobs -> [minutes : Nat, parts : Seq(UseRow)]] /\ shelf \in [Shelves -> Int]
      /\ crew \in [Crew -> {NoJobTx} \cup JobTx]
  BY DEF ExecInv, ExecTyped
<1>6. Commits(t, c, entry)
  <2>1. used' = [used EXCEPT ![w].minutes = @ + c.minutes, ![w].parts = @ \o c.rows]
    BY DEF CommitJob
  <2>2. used' = [used EXCEPT ![w] = [minutes |-> used[w].minutes + c.minutes, parts |-> used[w].parts \o c.rows]]
    <3> DEFINE m == used[w].minutes + c.minutes
               p == used[w].parts \o c.rows
    <3>1. used[w] \in [minutes : Nat, parts : Seq(UseRow)] /\ w \in DOMAIN used
      BY <1>2, <1>5
    <3>2. used' = [used EXCEPT ![w] = [[used[w] EXCEPT !.minutes = m] EXCEPT !.parts = p]]
      BY <2>1, <3>1
    <3> HIDE DEF m, p
    <3>3. [[used[w] EXCEPT !.minutes = m] EXCEPT !.parts = p] = [minutes |-> m, parts |-> p]
      <4>1. PICK r \in [minutes : Nat, parts : Seq(UseRow)] : r = used[w]
        BY <3>1
      <4>2. [r EXCEPT !.minutes = m] = [minutes |-> m, parts |-> r.parts]
        OBVIOUS
      <4>3. [[minutes |-> m, parts |-> r.parts] EXCEPT !.parts = p] = [minutes |-> m, parts |-> p]
        OBVIOUS
      <4> QED
        BY <4>1, <4>2, <4>3
    <3> QED
      BY <3>2, <3>3 DEF m, p
  <2> QED
    BY <1>4, <2>2 DEF CommitJob, Commits
<1> DEFINE sum == [minutes |-> used[w].minutes + c.minutes, parts |-> used[w].parts \o c.rows]
<1>7. sum \in [minutes : Nat, parts : Seq(UseRow)]
  <2>1. used[w].minutes \in Nat /\ used[w].parts \in Seq(UseRow)
    BY <1>2, <1>5
  <2>2. used[w].parts \o c.rows \in Seq(UseRow)
    BY <1>3, <2>1, ConcatProperties
  <2> QED
    BY <1>3, <2>1, <2>2
<1>8. /\ job' = [job EXCEPT ![w] = entry] /\ used' = [used EXCEPT ![w] = sum]
      /\ shelf' = [s \in Shelves |-> shelf[s] - c.taken[s]]
      /\ crew' = [crew EXCEPT ![t] = NoJobTx] /\ crossed' = crossed /\ sent' = sent
  BY <1>6 DEF Commits
<1>9. sum.minutes = used[w].minutes + c.minutes /\ sum.parts = used[w].parts \o c.rows
  OBVIOUS
<1> HIDE DEF sum
<1>10. ExecTyped'
  <2>1. \A s \in Shelves : shelf[s] - c.taken[s] \in Int
    BY <1>3, <1>5
  <2> QED
    BY <1>2, <1>4, <1>5, <1>7, <1>8, <2>1 DEF ExecInv, ExecTyped
<1>11. (\A v \in Jobs : InvitedRight(job[v]))'
  BY <1>2, <1>4, <1>5, <1>8 DEF ExecInv, InvitedRight
<1>12. TotalsAreSums'
  <2> SUFFICES ASSUME NEW v \in Jobs \ crossed
               PROVE  job'[v].minutes = used'[v].minutes /\ job'[v].parts = Total(used'[v].parts)
    BY <1>8 DEF TotalsAreSums
  <2>1. CASE v # w
    BY <1>5, <1>8, <2>1 DEF ExecInv, TotalsAreSums
  <2>2. CASE v = w
    <3>1. entry.minutes = used[w].minutes + c.minutes /\ entry.parts = Total(used[w].parts) + Total(c.rows)
      BY <1>1, <1>2, <2>2 DEF SumsRight
    <3>2. Total(used[w].parts \o c.rows) = Total(used[w].parts) + Total(c.rows)
      BY <1>2, <1>3, <1>5, SumsOfJoinedRows
    <3> QED
      BY <1>2, <1>5, <1>8, <1>9, <2>2, <3>1, <3>2
  <2> QED
    BY <2>1, <2>2
<1>13. StockIsTrue'
  <2> SUFFICES ASSUME NEW s \in Shelves
               PROVE  /\ shelf'[s] >= 0 /\ shelf'[s] + Issued(s)' <= Stocked[s]
                      /\ Alone(s) => shelf'[s] + Issued(s)' = Stocked[s]
    BY DEF StockIsTrue, Alone
  <2>1. Issued(s) \in Int /\ Issued(s)' = Issued(s) + IssuedBy(c.rows, s)
    <3>1. used' \in [Jobs -> [minutes : Nat, parts : Seq(UseRow)]]
      BY <1>10 DEF ExecTyped
    <3>2. used'[w].parts = used[w].parts \o c.rows /\ \A v \in Jobs \ {w} : used'[v] = used[v]
      BY <1>2, <1>5, <1>8, <1>9
    <3> QED
      BY <1>2, <1>3, <3>1, <3>2, IssuedAtCommit
  <2>2. IssuedBy(c.rows, s) \in Int /\ c.taken[s] \in Nat /\ shelf[s] \in Int /\ Stocked[s] \in Nat
    BY <1>3, <1>5, RowsAreSummed, ExecAssumption
  <2>3. c.taken[s] <= shelf[s] /\ IssuedBy(c.rows, s) <= c.taken[s] /\ (Alone(s) => IssuedBy(c.rows, s) = c.taken[s])
    BY <1>2 DEF Takes
  <2>4. shelf[s] + Issued(s) <= Stocked[s] /\ (Alone(s) => shelf[s] + Issued(s) = Stocked[s])
    BY DEF ExecInv, StockIsTrue
  <2>5. shelf'[s] = shelf[s] - c.taken[s]
    BY <1>8
  <2> QED
    BY <2>1, <2>2, <2>3, <2>4, <2>5
<1>14. crew'[t] = NoJobTx /\ \A u \in Crew : u # t => crew'[u] = crew[u]
  BY <1>5, <1>8
<1>15. \A u \in Crew : TxRight(crew[u])'
  <2> TAKE u \in Crew
  <2>1. CASE crew'[u] = NoJobTx
    BY <2>1 DEF TxRight
  <2>2. CASE crew'[u] # NoJobTx
    <3>1. u # t /\ crew[u] # NoJobTx /\ crew'[u] = crew[u]
      BY <1>14, <2>2
    <3>2. SumsRight(crew[u])' /\ Takes(crew[u])'
      BY <1>1, <1>4, <1>6, <3>1, OtherStaysRight
    <3>3. StepsRight(crew[u])'
      BY <3>1 DEF ExecInv, TxRight, StepsRight
    <3> QED
      BY <3>2, <3>3 DEF TxRight
  <2> QED
    BY <2>1, <2>2
<1>16. \A u, v \in Crew : u # v => Compatible(crew[u], crew[v])'
  <2> TAKE u, v \in Crew
  <2> HAVE u # v
  <2>1. PICK a : a = crew'[u]
    OBVIOUS
  <2>2. PICK b : b = crew'[v]
    OBVIOUS
  <2>3. a \in {NoJobTx} \cup JobTx /\ b \in {NoJobTx} \cup JobTx
    BY <1>5, <1>14, <2>1, <2>2
  <2>4. Compatible(a, b)
    <3>1. CASE a = NoJobTx
      BY <2>3, <3>1, RestsWithAll
    <3>2. CASE b = NoJobTx
      <4>1. Compatible(b, a)
        BY <2>3, <3>2, RestsWithAll
      <4> QED
        BY <2>3, <4>1, CompatibleIsMutual
    <3>3. CASE a # NoJobTx /\ b # NoJobTx
      BY <1>14, <2>1, <2>2, <3>3 DEF ExecInv
    <3> QED
      BY <3>1, <3>2, <3>3
  <2>5. Compatible(a, b)'
    BY <1>8, <2>4 DEF Compatible
  <2> QED
    BY <2>1, <2>2, <2>5 DEF Compatible
<1> QED
  BY <1>10, <1>11, <1>12, <1>13, <1>15, <1>16 DEF ExecInv

-----------------------------------------------------------------------------
(* It holds at the beginning. *)
LEMMA ExecBegins == ASSUME ExecInit PROVE ExecInv
<1>0. PICK service \in SUBSET Jobs :
        job = [w \in Jobs |-> [service |-> w \in service, status |-> "IN_PROGRESS", minutes |-> 0,
                              parts |-> 0, invited |-> 0, rated |-> FALSE, done |-> {}]]
  BY DEF ExecInit
<1>1. /\ used = [w \in Jobs |-> [minutes |-> 0, parts |-> <<>>]]
      /\ shelf = Stocked /\ crew = [t \in Crew |-> NoJobTx] /\ crossed = {} /\ sent = 0
  BY DEF ExecInit
<1>2. Stocked \in [Shelves -> Nat]
  BY ExecAssumption
<1>3. ExecTyped
  <2>1. \A w \in Jobs : job[w] \in JobRow
    BY <1>0 DEF JobRow, JobStatuses
  <2>2. \A w \in Jobs : used[w] \in [minutes : Nat, parts : Seq(UseRow)]
    <3> DEFINE e == <<>>
    <3>1. e \in Seq(UseRow)
      BY EmptySeq
    <3>2. \A w \in Jobs : used[w] = [minutes |-> 0, parts |-> e]
      BY <1>1
    <3> HIDE DEF e
    <3> QED
      BY <3>1, <3>2
  <2>3. job \in [Jobs -> JobRow] /\ used \in [Jobs -> [minutes : Nat, parts : Seq(UseRow)]]
    BY <1>0, <1>1, <2>1, <2>2
  <2> QED
    BY <1>1, <1>2, <2>3 DEF ExecTyped
<1>4. \A w \in Jobs : InvitedRight(job[w])
  BY <1>0 DEF InvitedRight
<1>5. TotalsAreSums
  BY <1>0, <1>1, TotalOfNone DEF TotalsAreSums
<1>6. StockIsTrue
  <2> SUFFICES ASSUME NEW s \in Shelves PROVE Issued(s) = 0
    BY <1>1, <1>2 DEF StockIsTrue
  <2> DEFINE f == [w \in Jobs |-> IssuedBy(used[w].parts, s)]
  <2>1. \A w \in Jobs : f[w] = 0
    BY <1>1, TotalOfNone
  <2>2. DOMAIN f = Jobs /\ Issued(s) = SumFunction(f)
    BY DEF Issued
  <2> HIDE DEF f
  <2>3. SumFunctionOnSet(f, Jobs) = 0
    BY <2>1, SumOfZeros, ExecAssumption
  <2> QED
    BY <2>2, <2>3 DEF SumFunction
<1>7. \A t \in Crew : TxRight(crew[t])
  BY <1>1 DEF TxRight
<1>8. \A t, u \in Crew : t # u => Compatible(crew[t], crew[u])
  BY <1>1, RestsWithAll
<1> QED
  BY <1>3, <1>4, <1>5, <1>6, <1>7, <1>8 DEF ExecInv

(* Every step keeps it. *)
LEMMA ExecKeeps == ExecInv /\ [ExecNext]_execVars => ExecInv'
<1> SUFFICES ASSUME ExecInv, [ExecNext]_execVars PROVE ExecInv'
  OBVIOUS
<1>1. CASE UNCHANGED execVars
  <2>1. job' = job /\ used' = used /\ shelf' = shelf /\ crew' = crew /\ crossed' = crossed /\ sent' = sent
    BY <1>1 DEF execVars
  <2>2. ExecTyped' /\ (\A w \in Jobs : InvitedRight(job[w]))' /\ TotalsAreSums'
    BY <2>1 DEF ExecInv, ExecTyped, TotalsAreSums
  <2>3. StockIsTrue'
    BY <2>1 DEF ExecInv, StockIsTrue, Issued, Alone
  <2>4. (\A t \in Crew : TxRight(crew[t]))'
    BY <2>1 DEF ExecInv, TxRight, SumsRight, Takes
  <2>5. (\A t, u \in Crew : t # u => Compatible(crew[t], crew[u]))'
    BY <2>1 DEF ExecInv, Compatible
  <2> QED
    BY <2>2, <2>3, <2>4, <2>5 DEF ExecInv
<1>2. ASSUME NEW t \in Crew, NEW w \in Jobs, NEW action \in JobActions,
             NEW minutes \in 0..1, NEW parts \in Uses, SendTransition(t, w, action, minutes, parts)
      PROVE  ExecInv'
  BY <1>2, TransitionArrives
<1>3. ASSUME NEW t \in Crew, NEW w \in Jobs,
             \/ SendSweep(t, w) \/ SendLabour(t, w) \/ ReadForRating(t, w)
             \/ \E parts \in Uses : SendPart(t, w, parts)
      PROVE  ExecInv'
  BY <1>3, SweepArrives, LabourArrives, RatingArrives, PartArrives
<1>4. ASSUME NEW t \in Crew,
             MarkLate(t) \/ LockJob(t) \/ InsertLabour(t) \/ FindShelves(t) \/ RecordUse(t)
      PROVE  ExecInv'
  BY <1>4, MarkKeeps, LockKeeps, LabourKeeps, FindKeeps, UseKeeps
<1>5. ASSUME NEW t \in Crew, NEW s \in Shelves, TakeFrom(t, s) PROVE ExecInv'
  BY <1>5, TakeKeeps
<1>6. ASSUME NEW t \in Crew,
             SumRows(t) \/ RecomputeCosts(t) \/ CommitJob(t) \/ Rate(t) \/ LoseCycle(t) \/ LoseTask(t)
      PROVE  ExecInv'
  BY <1>6, SumKeeps, RecomputeKeeps, CommitKeeps, RateKeeps, LossKeeps
<1> QED
  BY <1>1, <1>2, <1>3, <1>4, <1>5, <1>6 DEF ExecNext

-----------------------------------------------------------------------------
(* Amounts of work are never negative.                                        *)

(* A sum of natural numbers is one.                                           *)
LEMMA SumOfNaturals ==
  ASSUME NEW fun, NEW S, Integral(fun, S), \A x \in S : fun[x] \in Nat
  PROVE  SumFunctionOnSet(fun, S) \in Nat
<1> DEFINE Sum(U) == SumFunctionOnSet(fun, U)
           Bad == {u \in SUBSET S : Sum(u) \notin Nat}
<1> HIDE DEF Sum
<1> SUFFICES ASSUME Bad # {} PROVE FALSE
  BY DEF Sum
<1>1. PICK m \in Bad : \A n \in Bad : n \subseteq m => n = m
  <2>1. Bad \in SUBSET (SUBSET S) /\ IsFiniteSet(S)
    BY DEF Integral
  <2> HIDE DEF Bad
  <2> QED
    BY <2>1, SmallestSet
<1>2. Integral(fun, m) /\ Sum(m) \notin Nat /\ m \in SUBSET S
  BY IntegralPart
<1>3. m # {}
  <2>1. m = {} => Sum(m) = 0
    BY <1>2, SumRecurs DEF Sum
  <2> QED
    BY <1>2, <2>1
<1> DEFINE c == Chosen(m)
<1>4. c \in m
  BY <1>3 DEF Chosen
<1>5. Sum(m) = fun[c] + Sum(m \ {c})
  BY <1>2, <1>3, SumRecurs DEF Sum
<1>6. Sum(m \ {c}) \in Nat
  BY <1>1, <1>2, <1>4
<1>7. fun[c] \in Nat
  BY <1>2, <1>4
<1> HIDE DEF c
<1> QED
  BY <1>2, <1>5, <1>6, <1>7

(* So is the quantity of rows of parts.                                       *)
LEMMA TotalIsNatural == ASSUME NEW rows \in Seq(UseRow) PROVE Total(rows) \in Nat
<1>1. DOMAIN rows = 1..Len(rows) /\ Len(rows) \in Nat /\ \A i \in 1..Len(rows) : rows[i] \in UseRow
  BY RowsAreSummed
<1> DEFINE q == [i \in DOMAIN rows |-> rows[i].quantity]
<1>2. DOMAIN q = 1..Len(rows) /\ \A i \in 1..Len(rows) : q[i] \in Nat
  BY <1>1 DEF UseRow
<1> HIDE DEF q
<1>3. Integral(q, 1..Len(rows))
  BY <1>1, <1>2, IntervalsAreFinite DEF Integral
<1>4. SumFunctionOnSet(q, DOMAIN q) \in Nat
  BY <1>2, <1>3, SumOfNaturals
<1> QED
  BY <1>4 DEF q, Total, SumFunction

Amounts(c) ==
  /\ c.sum.minutes \in Nat /\ c.sum.parts \in Nat
  /\ c.new # <<>> => c.new[1].minutes \in Nat /\ c.new[1].parts \in Nat
AmountsInv ==
  /\ sent \in 0..MaxSent
  /\ \A w \in Jobs : job[w].minutes \in Nat /\ job[w].parts \in Nat
  /\ \A t \in Crew : Amounts(crew[t])

(* A task that rests has no amounts.                                          *)
LEMMA NoAmounts == Amounts(NoJobTx)
<1>1. NoJobTx.sum = [minutes |-> 0, parts |-> 0] /\ NoJobTx.new = <<>>
  BY DEF NoJobTx
<1> QED
  BY <1>1 DEF Amounts

(* A task moves on within its transaction.                                     *)
LEMMA AmountsGoOn ==
  ASSUME ExecInv, AmountsInv, NEW t \in Crew, NEW n, GoOn(t, n), Amounts(n)
  PROVE  AmountsInv'
<1>1. crew \in [Crew -> {NoJobTx} \cup JobTx]
  BY DEF ExecInv, ExecTyped
<1>2. \A u \in Crew : crew'[u] = IF u = t THEN n ELSE crew[u]
  BY <1>1 DEF GoOn
<1>3. job' = job /\ sent' = sent
  BY DEF GoOn
<1>4. ASSUME NEW u \in Crew PROVE Amounts(crew[u])'
  BY <1>2 DEF AmountsInv, Amounts
<1> QED
  BY <1>3, <1>4 DEF AmountsInv

(* A request comes.                                                           *)
LEMMA AmountsArrive ==
  ASSUME ExecInv, AmountsInv, NEW t \in Crew, NEW w \in Jobs, NEW new, NEW n, Send(t, w, new),
         n = [new EXCEPT !.job = w], n.sum = NoJobTx.sum, n.new = NoJobTx.new
  PROVE  AmountsInv'
<1>1. /\ crew' = [crew EXCEPT ![t] = n] /\ job' = job
      /\ sent' = sent + 1 /\ sent < MaxSent
  BY DEF Send
<1>2. crew \in [Crew -> {NoJobTx} \cup JobTx]
  BY DEF ExecInv, ExecTyped
<1>3. sent' \in 0..MaxSent
  BY <1>1, ExecAssumption DEF AmountsInv
<1>4. Amounts(n)
  BY NoAmounts DEF Amounts
<1>5. ASSUME NEW u \in Crew PROVE Amounts(crew[u])'
  BY <1>1, <1>2, <1>4 DEF AmountsInv, Amounts
<1> QED
  BY <1>1, <1>3, <1>5 DEF AmountsInv

(* A transition with its labour and parts,                                        *)
LEMMA TransitionAmounts ==
  ASSUME ExecInv, AmountsInv, NEW t \in Crew, NEW w \in Jobs, NEW action, NEW minutes, NEW parts,
         SendTransition(t, w, action, minutes, parts)
  PROVE  AmountsInv'
<1> DEFINE new == [NoJobTx EXCEPT !.kind = "transition", !.step = "lock", !.action = action,
                                  !.minutes = minutes, !.parts = parts]
           n == [new EXCEPT !.job = w]
<1>1. Send(t, w, new)
  BY DEF SendTransition
<1>2. n.sum = NoJobTx.sum /\ n.new = NoJobTx.new
  BY NoTxTyped DEF RestingTx
<1> HIDE DEF n
<1>3. n = [new EXCEPT !.job = w]
  BY DEF n
<1> HIDE DEF new
<1> QED
  BY <1>1, <1>2, <1>3, AmountsArrive

(* labour, parts or a rating.                                                    *)
LEMMA EntryAmounts ==
  ASSUME ExecInv, AmountsInv, NEW t \in Crew, NEW w \in Jobs, NEW new, Send(t, w, new),
         new.sum = NoJobTx.sum, new.new = NoJobTx.new
  PROVE  AmountsInv'
<1> DEFINE n == [new EXCEPT !.job = w]
<1>1. n.sum = new.sum /\ n.new = new.new
  OBVIOUS
<1>2. n = [new EXCEPT !.job = w]
  OBVIOUS
<1> HIDE DEF n
<1> QED
  BY <1>1, <1>2, AmountsArrive

(* Any of these requests.                                                       *)
LEMMA RequestAmounts ==
  ASSUME ExecInv, AmountsInv, NEW t \in Crew, NEW w \in Jobs,
         \/ SendSweep(t, w) \/ SendLabour(t, w) \/ ReadForRating(t, w)
         \/ \E parts \in Uses : SendPart(t, w, parts)
  PROVE  AmountsInv'
<1>1. CASE SendLabour(t, w)
  <2> DEFINE new == [NoJobTx EXCEPT !.kind = "labour", !.step = "labour", !.minutes = 1]
  <2>1. Send(t, w, new) /\ new.sum = NoJobTx.sum /\ new.new = NoJobTx.new
    BY <1>1, NoTxTyped DEF SendLabour, RestingTx
  <2> HIDE DEF new
  <2> QED
    BY <2>1, EntryAmounts
<1>2. CASE ReadForRating(t, w)
  <2> DEFINE new == [NoJobTx EXCEPT !.kind = "rating", !.step = "rate"]
  <2>1. Send(t, w, new) /\ new.sum = NoJobTx.sum /\ new.new = NoJobTx.new
    BY <1>2, NoTxTyped DEF ReadForRating, RestingTx
  <2> HIDE DEF new
  <2> QED
    BY <2>1, EntryAmounts
<1>3. ASSUME NEW parts \in Uses, SendPart(t, w, parts) PROVE AmountsInv'
  <2> DEFINE new == [NoJobTx EXCEPT !.kind = "part", !.step = "labour", !.parts = parts]
  <2>1. Send(t, w, new) /\ new.sum = NoJobTx.sum /\ new.new = NoJobTx.new
    BY <1>3, NoTxTyped DEF SendPart, RestingTx
  <2> HIDE DEF new
  <2> QED
    BY <2>1, EntryAmounts
<1>4. CASE SendSweep(t, w)
  <2> DEFINE new == [NoJobTx EXCEPT !.kind = "transition", !.step = "mark", !.action = "BREACH_SLA"]
  <2>1. Send(t, w, new) /\ new.sum = NoJobTx.sum /\ new.new = NoJobTx.new
    BY <1>4, NoTxTyped DEF SendSweep, RestingTx
  <2> HIDE DEF new
  <2> QED
    BY <2>1, EntryAmounts
<1> QED
  BY <1>1, <1>2, <1>3, <1>4

(* A transaction that goes on keeps what it has, or takes over natural numbers.       *)
LEMMA OpenAmounts ==
  ASSUME ExecInv, AmountsInv, NEW t \in Crew, crew[t].step # "idle"
  PROVE  /\ crew[t] \in JobTx /\ Amounts(crew[t])
         /\ crew[t].new # <<>> => crew[t].new[1] \in JobRow
         /\ job[crew[t].job] \in JobRow
         /\ job[crew[t].job].minutes \in Nat /\ job[crew[t].job].parts \in Nat
<1>1. crew[t] \in JobTx /\ crew[t].job \in Jobs
  BY OpenTx
<1>2. crew[t].new \in Seq(JobRow)
  BY <1>1 DEF JobTx
<1>3. crew[t].new # <<>> => crew[t].new[1] \in JobRow
  BY <1>2
<1> QED
  BY <1>1, <1>3 DEF AmountsInv, ExecInv, ExecTyped

(* The lock and the transition,                                                   *)
LEMMA LockAmounts ==
  ASSUME ExecInv, AmountsInv, NEW t \in Crew, LockJob(t) \/ MarkLate(t) PROVE AmountsInv'
<1> DEFINE c == crew[t]
           old == job[c.job]
<1>1. c.step # "idle"
  BY DEF LockJob, MarkLate
<1>2. c \in JobTx /\ Amounts(c) /\ old \in JobRow /\ old.minutes \in Nat /\ old.parts \in Nat
  BY <1>1, OpenAmounts
<1>3. ASSUME NEW rule,
             GoOn(t, [c EXCEPT !.step = "labour", !.lock = "all", !.new = <<Transitioned(old, rule)>>])
      PROVE  AmountsInv'
  <2> DEFINE entry == Transitioned(old, rule)
             n == [c EXCEPT !.step = "labour", !.lock = "all", !.new = <<entry>>]
  <2>1. GoOn(t, n)
    BY <1>3
  <2>2. entry.minutes = old.minutes /\ entry.parts = old.parts
    BY <1>2 DEF Transitioned, JobRow
  <2> HIDE DEF entry
  <2>3. n.sum = c.sum /\ n.new = <<entry>>
    BY <1>2 DEF JobTx
  <2>4. n.new[1] = entry
    BY <2>3
  <2> HIDE DEF n
  <2>5. Amounts(n)
    BY <1>2, <2>2, <2>3, <2>4 DEF Amounts
  <2> QED
    BY <2>1, <2>5, AmountsGoOn
<1>4. CASE GoOn(t, NoJobTx)
  BY <1>4, NoAmounts, AmountsGoOn
<1>5. CASE GoOn(t, [c EXCEPT !.step = "lock", !.lock = "update"])
  <2> DEFINE n == [c EXCEPT !.step = "lock", !.lock = "update"]
  <2>1. n.sum = c.sum /\ n.new = c.new /\ GoOn(t, n)
    BY <1>2, <1>5 DEF JobTx
  <2> HIDE DEF n
  <2>2. Amounts(n)
    BY <1>2, <2>1 DEF Amounts
  <2> QED
    BY <2>1, <2>2, AmountsGoOn
<1> QED
  BY <1>3, <1>4, <1>5 DEF LockJob, MarkLate, Fails

(* the rows of labour and of parts,                                                *)
LEMMA RowAmounts ==
  ASSUME ExecInv, AmountsInv, NEW t \in Crew,
         InsertLabour(t) \/ FindShelves(t) \/ RecordUse(t) \/ \E s \in Shelves : TakeFrom(t, s)
  PROVE  AmountsInv'
<1> DEFINE c == crew[t]
<1>1. c.step # "idle"
  BY DEF InsertLabour, FindShelves, RecordUse, TakeFrom
<1>2. c \in JobTx /\ Amounts(c)
  BY <1>1, OpenAmounts
<1>3. ASSUME NEW n, GoOn(t, n), n.sum = c.sum, n.new = c.new PROVE AmountsInv'
  <2>1. Amounts(n)
    BY <1>2, <1>3 DEF Amounts
  <2> QED
    BY <1>3, <2>1, AmountsGoOn
<1>4. CASE InsertLabour(t)
  <2> DEFINE m == [c EXCEPT !.step = "part"]
             n == [c EXCEPT !.step = "part", !.lock = Stronger(@, "share")]
  <2>1. GoOn(t, m) \/ GoOn(t, n)
    BY <1>4 DEF InsertLabour
  <2>2. m.sum = c.sum /\ m.new = c.new /\ n.sum = c.sum /\ n.new = c.new
    BY <1>2 DEF JobTx
  <2> HIDE DEF m, n
  <2> QED
    BY <1>3, <2>1, <2>2
<1>5. CASE FindShelves(t)
  <2> DEFINE want == Head(c.parts)
             n == [c EXCEPT !.step = "take", !.rows = Append(@, [shelf |-> NoShelf, quantity |-> want[2]]),
                   !.todo = {s \in Shelves : PartOn[s] = want[1] /\ shelf[s] - c.taken[s] >= want[2]}]
  <2>1. GoOn(t, n)
    BY <1>5 DEF FindShelves
  <2>2. n.sum = c.sum /\ n.new = c.new
    BY <1>2 DEF JobTx
  <2> HIDE DEF n
  <2> QED
    BY <1>3, <2>1, <2>2
<1>6. CASE RecordUse(t)
  <2> DEFINE n == [c EXCEPT !.step = "part", !.parts = Tail(@), !.lock = Stronger(@, "share")]
  <2>1. GoOn(t, n) \/ GoOn(t, NoJobTx)
    BY <1>6 DEF RecordUse, Fails
  <2>2. n.sum = c.sum /\ n.new = c.new
    BY <1>2 DEF JobTx
  <2> HIDE DEF n
  <2> QED
    BY <1>3, <2>1, <2>2, NoAmounts, AmountsGoOn
<1>7. ASSUME NEW s \in Shelves, TakeFrom(t, s) PROVE AmountsInv'
  <2> DEFINE want == Head(c.parts)
             m == [c EXCEPT !.todo = @ \ {s}]
             n == [c EXCEPT !.todo = @ \ {s}, !.taken[s] = @ + want[2],
                            !.rows[Len(c.rows)].shelf = IF @ = NoShelf THEN s ELSE @]
  <2>1. GoOn(t, m) \/ GoOn(t, n)
    BY <1>7 DEF TakeFrom
  <2>2. m.sum = c.sum /\ m.new = c.new /\ n.sum = c.sum /\ n.new = c.new
    BY <1>2 DEF JobTx
  <2> HIDE DEF m, n
  <2> QED
    BY <1>3, <2>1, <2>2
<1> QED
  BY <1>4, <1>5, <1>6, <1>7

(* the sums,                                                                   *)
LEMMA SumAmounts == ASSUME ExecInv, AmountsInv, NEW t \in Crew, SumRows(t) PROVE AmountsInv'
<1> DEFINE c == crew[t]
           sums == [minutes |-> used[c.job].minutes + c.minutes,
                    parts |-> Total(used[c.job].parts) + Total(c.rows)]
           m == [c EXCEPT !.step = "commit"]
           n == [c EXCEPT !.step = "sum", !.sum = sums]
<1>1. c.step = "part" /\ (GoOn(t, m) \/ GoOn(t, n))
  BY DEF SumRows
<1>2. c \in JobTx /\ Amounts(c) /\ c.job \in Jobs
  BY <1>1, OpenAmounts, OpenTx
<1>3. c.minutes \in Nat /\ c.rows \in Seq(UseRow)
  BY <1>2 DEF JobTx
<1>4. used[c.job].minutes \in Nat /\ used[c.job].parts \in Seq(UseRow)
  BY <1>2 DEF ExecInv, ExecTyped
<1>5. Total(used[c.job].parts) \in Nat /\ Total(c.rows) \in Nat
  BY <1>3, <1>4, TotalIsNatural
<1>6. sums.minutes \in Nat /\ sums.parts \in Nat
  <2>1. sums.minutes = used[c.job].minutes + c.minutes
        /\ sums.parts = Total(used[c.job].parts) + Total(c.rows)
    OBVIOUS
  <2> HIDE DEF sums, c
  <2> QED
    BY <1>3, <1>4, <1>5, <2>1
<1> HIDE DEF sums
<1>7. m.sum = c.sum /\ m.new = c.new /\ n.sum = sums /\ n.new = c.new
  BY <1>2 DEF JobTx
<1> HIDE DEF m, n
<1>8. Amounts(m) /\ Amounts(n)
  BY <1>2, <1>6, <1>7 DEF Amounts
<1> QED
  BY <1>1, <1>8, AmountsGoOn

(* the new totals and the new rating.                                              *)
LEMMA TotalAmounts ==
  ASSUME ExecInv, AmountsInv, NEW t \in Crew, RecomputeCosts(t) \/ Rate(t) PROVE AmountsInv'
<1> DEFINE c == crew[t]
           old == IF c.new = <<>> THEN job[c.job] ELSE c.new[1]
<1>1. c.step # "idle"
  BY DEF RecomputeCosts, Rate
<1>2. /\ c \in JobTx /\ Amounts(c) /\ old \in JobRow
      /\ job[c.job] \in JobRow /\ job[c.job].minutes \in Nat /\ job[c.job].parts \in Nat
  BY <1>1, OpenAmounts
<1>3. CASE RecomputeCosts(t)
  <2> DEFINE entry == WithTotals(t, old)
             n == [c EXCEPT !.step = "commit", !.lock = Stronger(@, "update"), !.new = <<entry>>]
  <2>1. GoOn(t, n)
    BY <1>3 DEF RecomputeCosts
  <2>2. entry.minutes = c.sum.minutes /\ entry.parts = c.sum.parts
    BY <1>2 DEF WithTotals, JobRow
  <2> HIDE DEF entry
  <2>3. n.sum = c.sum /\ n.new = <<entry>>
    BY <1>2 DEF JobTx
  <2>4. n.new[1] = entry
    BY <2>3
  <2> HIDE DEF n
  <2>5. Amounts(n)
    BY <1>2, <2>2, <2>3, <2>4 DEF Amounts
  <2> QED
    BY <2>1, <2>5, AmountsGoOn
<1>4. CASE Rate(t)
  <2> DEFINE entry == [job[c.job] EXCEPT !.rated = TRUE]
             n == [c EXCEPT !.step = "commit", !.lock = "update", !.new = <<entry>>]
  <2>1. GoOn(t, NoJobTx) \/ GoOn(t, n)
    BY <1>4 DEF Rate, Fails
  <2>2. entry.minutes = job[c.job].minutes /\ entry.parts = job[c.job].parts
    BY <1>2 DEF JobRow
  <2> HIDE DEF entry
  <2>3. n.sum = c.sum /\ n.new = <<entry>>
    BY <1>2 DEF JobTx
  <2>4. n.new[1] = entry
    BY <2>3
  <2> HIDE DEF n
  <2>5. Amounts(n)
    BY <1>2, <2>2, <2>3, <2>4 DEF Amounts
  <2> QED
    BY <2>1, <2>5, NoAmounts, AmountsGoOn
<1> QED
  BY <1>3, <1>4

(* The commit, or the end without one.                                            *)
LEMMA EndAmounts ==
  ASSUME ExecInv, AmountsInv, NEW t \in Crew, CommitJob(t) \/ LoseTask(t) PROVE AmountsInv'
<1>1. crew' = [crew EXCEPT ![t] = NoJobTx] /\ crew \in [Crew -> {NoJobTx} \cup JobTx]
  BY DEF CommitJob, LoseTask, ExecInv, ExecTyped
<1>2. ASSUME NEW u \in Crew PROVE Amounts(crew[u])'
  <2>1. crew'[u] = NoJobTx \/ crew'[u] = crew[u]
    BY <1>1
  <2>2. PICK n : n = crew'[u] /\ Amounts(n)
    BY <2>1, NoAmounts DEF AmountsInv
  <2> QED
    BY <2>2 DEF Amounts
<1>3. CASE CommitJob(t)
  <2> DEFINE c == crew[t]
  <2>1. c.step = "commit"
    BY <1>3 DEF CommitJob
  <2>2. c.job \in Jobs /\ Amounts(c)
    BY <2>1, OpenAmounts, OpenTx
  <2>3. job' = job \/ (c.new # <<>> /\ job' = [job EXCEPT ![c.job] = c.new[1]])
    BY <1>3 DEF CommitJob
  <2>4. \A w \in Jobs : job'[w].minutes \in Nat /\ job'[w].parts \in Nat
    BY <2>2, <2>3 DEF Amounts, AmountsInv, ExecInv, ExecTyped
  <2>5. sent' = sent
    BY <1>3 DEF CommitJob
  <2> QED
    BY <1>2, <2>4, <2>5 DEF AmountsInv
<1>4. CASE LoseTask(t)
  <2>1. job' = job /\ sent' = sent + 1 /\ sent < MaxSent
    BY <1>4 DEF LoseTask
  <2> QED
    BY <1>2, <2>1, ExecAssumption DEF AmountsInv
<1> QED
  BY <1>3, <1>4

(* No step makes an amount negative.                                             *)
LEMMA AmountsKeep == ExecInv /\ AmountsInv /\ [ExecNext]_execVars => AmountsInv'
<1> SUFFICES ASSUME ExecInv, AmountsInv, [ExecNext]_execVars PROVE AmountsInv'
  OBVIOUS
<1>1. CASE UNCHANGED execVars
  BY <1>1 DEF execVars, AmountsInv, Amounts
<1>2. ASSUME NEW t \in Crew, NEW w \in Jobs, NEW action \in JobActions,
             NEW minutes \in 0..1, NEW parts \in Uses, SendTransition(t, w, action, minutes, parts)
      PROVE  AmountsInv'
  BY <1>2, TransitionAmounts
<1>3. ASSUME NEW t \in Crew, NEW w \in Jobs,
             \/ SendSweep(t, w) \/ SendLabour(t, w) \/ ReadForRating(t, w)
             \/ \E parts \in Uses : SendPart(t, w, parts)
      PROVE  AmountsInv'
  BY <1>3, RequestAmounts
<1>4. ASSUME NEW t \in Crew,
             \/ InsertLabour(t) \/ FindShelves(t) \/ RecordUse(t)
             \/ \E s \in Shelves : TakeFrom(t, s)
      PROVE  AmountsInv'
  BY <1>4, RowAmounts
<1>5. ASSUME NEW t \in Crew, MarkLate(t) \/ LockJob(t) \/ SumRows(t) \/ RecomputeCosts(t) \/ Rate(t) PROVE AmountsInv'
  BY <1>5, LockAmounts, SumAmounts, TotalAmounts
<1>6. ASSUME NEW t \in Crew, CommitJob(t) \/ LoseCycle(t) \/ LoseTask(t) PROVE AmountsInv'
  BY <1>6, EndAmounts, NoAmounts, AmountsGoOn DEF LoseCycle, Fails
<1> QED
  BY <1>1, <1>2, <1>3, <1>4, <1>5, <1>6 DEF ExecNext

(* They hold at the beginning.                                                  *)
LEMMA AmountsBegin == ExecInit => ExecInv /\ AmountsInv
<1> SUFFICES ASSUME ExecInit PROVE AmountsInv
  BY ExecBegins
<1>1. sent \in 0..MaxSent
  BY ExecAssumption DEF ExecInit
<1>2. \A w \in Jobs : job[w].minutes \in Nat /\ job[w].parts \in Nat
  BY DEF ExecInit
<1>3. \A t \in Crew : Amounts(crew[t])
  BY NoAmounts DEF ExecInit
<1> QED
  BY <1>1, <1>2, <1>3 DEF AmountsInv

(* No shelf is ever below zero, and no total: the types of the execution of orders.  *)
LEMMA ExecInvTyped == ExecInv /\ AmountsInv => ExecTypeOK
<1> SUFFICES ASSUME ExecInv, AmountsInv PROVE ExecTypeOK
  OBVIOUS
<1>1. ASSUME NEW w \in Jobs
      PROVE  /\ job[w].status \in JobStatuses
             /\ job[w].minutes \in Nat /\ job[w].parts \in Nat /\ job[w].invited \in Nat
             /\ job[w].rated \in BOOLEAN /\ used[w].minutes \in Nat
  BY DEF ExecInv, ExecTyped, JobRow, AmountsInv
<1>2. shelf \in [Shelves -> Nat]
  BY DEF ExecInv, ExecTyped, StockIsTrue
<1>3. \A t \in Crew : crew[t].lock \in {"none", "share", "update", "all"}
  <2>1. \A t \in Crew : crew[t] \in {NoJobTx} \cup JobTx
    BY DEF ExecInv, ExecTyped
  <2> QED
    BY <2>1, LockTyped
<1> QED
  BY <1>1, <1>2, <1>3 DEF ExecTypeOK, ExecInv, ExecTyped, AmountsInv

(* Whatever is done to orders at the same time, and dies on the way: no more of a   *)
(* part is issued than was in stock and nothing falls below zero, the totals of an     *)
(* order are the sums of its rows unless two entries without its lock overlapped, and   *)
(* the requester is invited to rate when a rule that asks has been taken, and once.  *)
THEOREM BooksOfWorkAreTrue == ExecSpec => []ExecutionIsTrue
<1>1. ExecInv /\ AmountsInv /\ [ExecNext]_execVars => ExecInv' /\ AmountsInv'
  BY ExecKeeps, AmountsKeep
<1>2. ExecInv => StockIsTrue /\ TotalsAreSums /\ InvitedOnce
  BY DEF ExecInv, InvitedOnce, InvitedRight
<1>3. ExecInv /\ AmountsInv => ExecutionIsTrue
  BY <1>2, ExecInvTyped DEF ExecutionIsTrue
<1> QED
  BY AmountsBegin, <1>1, <1>3, PTL DEF ExecSpec
=============================================================================
