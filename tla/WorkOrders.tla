----------------------------- MODULE WorkOrders -----------------------------
(***************************************************************************)
(* Work orders, their state machine and their SLA clock: the catalogue of  *)
(* legal transitions (008), fms.transition_work_order (044), the trigger   *)
(* that starts the clock (038), POST /work-orders, POST .../transitions,   *)
(* POST /work-orders:bulk-transition and the SLA sweep of the workers      *)
(* (036), which marks overdue orders and escalates them in one long        *)
(* transaction.                                                            *)
(*                                                                         *)
(* Only what the SLA verdict and the choice of a rule depend on is kept of *)
(* an order: people, parts, costs and texts are left out.  A row has a     *)
(* committed version, and a newer one while a transaction holds its lock.  *)
(* A single transition locks its row first and touches no other, so it is  *)
(* one step; the bulk request and the sweep hold many rows and are split   *)
(* at every point where another transaction can come between.              *)
(***************************************************************************)
EXTENDS Naturals, FiniteSets, Sequences

CONSTANTS
  Orders,          \* the work orders
  ServiceOrders,   \* those of work_order_type SERVICE
  Measured,        \* those for which resolve_sla_policy finds a policy
  ResponseTime,    \* response_minutes of the policy
  ResolutionTime,  \* resolution_minutes of the policy
  WarnTime,        \* AT_RISK starts so long before resolution_due_at
  Requested,       \* Requested[w]: the actions that clients ask of w
  Bulks,           \* bulk requests
  BulkActions,     \* the actions they ask for
  BulkLists,       \* work_order_ids: sequences without repetition
  Sweeper,         \* the worker that runs sweep_sla_states
  None,            \* no lock holder
  Never,           \* a NULL timestamp
  MaxTime,         \* bound: the last instant
  MaxAborts        \* bound: connections of the sweep that are lost

ASSUME WorkOrdersAssumption ==
  /\ ServiceOrders \subseteq Orders /\ Measured \subseteq Orders
  /\ {ResponseTime, ResolutionTime, WarnTime, MaxTime, MaxAborts} \subseteq Nat
  /\ BulkLists \subseteq Seq(Orders)
  /\ \A l \in BulkLists : \A i, j \in DOMAIN l : l[i] = l[j] => i = j
  /\ Sweeper \notin Bulks /\ None \notin Bulks \cup {Sweeper}
  /\ Never \notin Nat

VARIABLES
  now,     \* the clock
  row,     \* row[w]: the committed version of w
  tip,     \* tip[w]: its newest version, uncommitted while w is locked
  lock,    \* lock[w]: the transaction that holds the row lock of w
  bulk,    \* bulk[b]: progress of bulk request b
  sweep,   \* progress of the sweep
  aborts   \* sweeps lost so far

vars == <<now, row, tip, lock, bulk, sweep, aborts>>

-----------------------------------------------------------------------------
(* The catalogue.                                                          *)

Open       == {"DRAFT", "SUBMITTED", "APPROVED", "ASSIGNED", "SCHEDULED"}
Waiting    == {"PENDING_APPROVAL", "ON_HOLD", "WAITING_PARTS", "WAITING_VENDOR"}
InProgress == {"IN_PROGRESS", "COMPLETED", "VERIFIED", "SLA_BREACHED"}
Terminal   == {"CLOSED", "CANCELLED", "REJECTED"}
Live       == Open \cup Waiting \cup InProgress
Statuses   == Live \cup Terminal \cup {"absent"}

SlaStates == {"NOT_APPLICABLE", "ON_TRACK", "AT_RISK", "MET",
              "RESPONSE_BREACHED", "RESOLUTION_BREACHED"}
Breached  == {"RESPONSE_BREACHED", "RESOLUTION_BREACHED"}
Watched   == {"ON_TRACK", "AT_RISK"}

(* One row of work_order_transitions_allowed per status in from.           *)
Allow(from, action, to, does) ==
  {[type |-> "any", from |-> f, action |-> action, to |-> to, does |-> does] :
     f \in from}

(* The rules of SERVICE orders go before those of every type.              *)
ServiceRules ==
  {[type |-> "SERVICE", from |-> "SUBMITTED", action |-> "ACCEPT",
    to |-> "ASSIGNED", does |-> {"set_responded"}],
   [type |-> "SERVICE", from |-> "COMPLETED", action |-> "CLOSE",
    to |-> "CLOSED", does |-> {"request_satisfaction"}]}

(* "system" stands for required_permission NULL with actor SYSTEM;         *)
(* set_responded and compute_sla always come together.                     *)
Rules ==
       Allow({"DRAFT"}, "SUBMIT", "SUBMITTED", {})
  \cup Allow({"SUBMITTED"}, "REQUEST_APPROVAL", "PENDING_APPROVAL", {})
  \cup Allow({"SUBMITTED", "APPROVED"}, "ASSIGN", "ASSIGNED", {"set_responded"})
  \cup Allow({"SUBMITTED"}, "AUTO_ASSIGN", "ASSIGNED", {"system", "set_responded"})
  \cup Allow({"SUBMITTED", "PENDING_APPROVAL"}, "REJECT", "REJECTED", {})
  \cup Allow({"PENDING_APPROVAL"}, "APPROVE", "APPROVED", {})
  \cup Allow({"DRAFT", "SUBMITTED", "APPROVED", "IN_PROGRESS", "ON_HOLD",
           "SLA_BREACHED"}, "CANCEL", "CANCELLED", {})
  \cup Allow({"ASSIGNED", "SCHEDULED"}, "CANCEL", "CANCELLED", {"release_assignee"})
  \cup Allow({"ASSIGNED"}, "SCHEDULE", "SCHEDULED", {})
  \cup Allow({"ASSIGNED", "SCHEDULED"}, "REASSIGN", "ASSIGNED", {})
  \cup Allow({"ASSIGNED", "SCHEDULED"}, "START_WORK", "IN_PROGRESS", {})
  \cup Allow({"IN_PROGRESS"}, "HOLD", "ON_HOLD", {})
  \cup Allow({"IN_PROGRESS"}, "WAIT_PARTS", "WAITING_PARTS", {})
  \cup Allow({"IN_PROGRESS"}, "WAIT_VENDOR", "WAITING_VENDOR", {})
  \cup Allow({"IN_PROGRESS"}, "COMPLETE", "COMPLETED", {"request_satisfaction"})
  \cup Allow({"SLA_BREACHED"}, "COMPLETE", "COMPLETED", {})
  \cup Allow({"ON_HOLD", "WAITING_PARTS", "WAITING_VENDOR", "SLA_BREACHED"},
          "RESUME", "IN_PROGRESS", {})
  \cup Allow({"COMPLETED"}, "VERIFY", "VERIFIED", {})
  \cup Allow({"COMPLETED", "VERIFIED"}, "CLOSE", "CLOSED", {})
  \cup Allow({"COMPLETED", "VERIFIED", "CLOSED"}, "REOPEN", "IN_PROGRESS",
          {"increment_reopen"})
  \cup Allow({"ASSIGNED", "IN_PROGRESS"}, "BREACH_SLA", "SLA_BREACHED", {"system"})
  \cup ServiceRules

NoRule == [type |-> "none", from |-> "absent", action |-> "none",
           to |-> "absent", does |-> {}]

Matching(w, status, action) ==
  {r \in Rules : /\ r.from = status /\ r.action = action
                 /\ r.type = "SERVICE" => w \in ServiceOrders}

(* matched_rule and transition_work_order choose in the same order.        *)
MatchedRule(w, status, action) ==
  LET m == Matching(w, status, action)
  IN  IF m = {} THEN NoRule
      ELSE CHOOSE r \in m : r.type = "SERVICE" \/ m \cap ServiceRules = {}

-----------------------------------------------------------------------------
(* The rows.                                                               *)

Times == Nat \cup {Never}

WorkOrder == [status: Statuses, sla: SlaStates, policy: BOOLEAN,
              response_due_at: Times, resolution_due_at: Times,
              first_responded_at: Times, completed_at: Times]

Absent == [status |-> "absent", sla |-> "ON_TRACK", policy |-> FALSE,
           response_due_at |-> Never, resolution_due_at |-> Never,
           first_responded_at |-> Never, completed_at |-> Never]

(* A new row: the clock of a draft does not run; an order without a policy *)
(* has nothing to miss.                                                    *)
Created(w, draft) ==
  IF draft THEN [Absent EXCEPT !.status = "DRAFT"]
  ELSE IF w \in Measured
       THEN [Absent EXCEPT !.status = "SUBMITTED", !.policy = TRUE,
                           !.response_due_at = now + ResponseTime,
                           !.resolution_due_at = now + ResolutionTime]
       ELSE [Absent EXCEPT !.status = "SUBMITTED", !.sla = "NOT_APPLICABLE"]

Past(due) == due # Never /\ now > due

Submits(t, r) ==
  t.status = "DRAFT" /\ r.to = "SUBMITTED" /\ t.resolution_due_at = Never
Reopens(r) == r.action = "REOPEN"
Responds(t, r) ==
  /\ "set_responded" \in r.does /\ "system" \notin r.does
  /\ t.first_responded_at = Never

(* v_policy: the policy that this transition starts a clock for, if any.   *)
Starts(w, t, r) ==
  \/ Submits(t, r) /\ (t.policy \/ w \in Measured)
  \/ Reopens(r) /\ t.policy

(* Plausible bug: a verdict that the CHECK constraint does not know (the   *)
(* one that team_workload counts).                                         *)
UnknownVerdict(t) ==
  IF t.sla \in Breached THEN t.sla
  ELSE IF t.resolution_due_at = Never THEN "NOT_APPLICABLE"
  ELSE IF now <= t.resolution_due_at THEN "MET" ELSE "BREACHED"

FinalVerdict(t) ==
  IF t.sla \in Breached THEN t.sla
  ELSE IF t.resolution_due_at = Never THEN "NOT_APPLICABLE"
  ELSE IF now <= t.resolution_due_at THEN "MET" ELSE "RESOLUTION_BREACHED"

(* Plausible bug: REOPEN does not start a new measurement (before 032).    *)
SlaKeptByReopen(w, t, r) ==
  IF Responds(t, r) /\ Past(t.response_due_at) THEN "RESPONSE_BREACHED"
  ELSE IF r.to \in {"COMPLETED", "CLOSED"} THEN FinalVerdict(t)
  ELSE t.sla

NextSla(w, t, r) ==
  IF Reopens(r) THEN (IF Starts(w, t, r) THEN "ON_TRACK" ELSE "NOT_APPLICABLE")
  ELSE IF Responds(t, r) /\ Past(t.response_due_at) THEN "RESPONSE_BREACHED"
  ELSE IF r.to \in {"COMPLETED", "CLOSED"} THEN FinalVerdict(t)
  ELSE t.sla

(* Plausible bug: REOPEN keeps completed_at (before 044).                  *)
CompletedOnce(t, r) == IF r.to = "COMPLETED" THEN now ELSE t.completed_at

CompletedAt(t, r) ==
  IF r.to = "COMPLETED" THEN now
  ELSE IF Reopens(r) THEN Never ELSE t.completed_at

(* transition_work_order: the UPDATE, every expression over the old row.   *)
Applied(w, t, r) ==
  [status |-> r.to,
   sla |-> NextSla(w, t, r),
   policy |-> t.policy \/ Starts(w, t, r),
   response_due_at |->
     IF Submits(t, r) /\ Starts(w, t, r) /\ t.response_due_at = Never
     THEN now + ResponseTime ELSE t.response_due_at,
   resolution_due_at |->
     IF Starts(w, t, r) THEN now + ResolutionTime ELSE t.resolution_due_at,
   first_responded_at |-> IF Responds(t, r) THEN now ELSE t.first_responded_at,
   completed_at |-> CompletedAt(t, r)]

-----------------------------------------------------------------------------
(* Transactions.                                                           *)

Holders == Bulks \cup {Sweeper}

(* What a statement of p sees when it starts.                              *)
Visible(p, w) == IF lock[w] = p THEN tip[w] ELSE row[w]

CommitRows(p) ==
  /\ row' = [w \in Orders |-> IF lock[w] = p THEN tip[w] ELSE row[w]]
  /\ lock' = [w \in Orders |-> IF lock[w] = p THEN None ELSE lock[w]]
  /\ UNCHANGED tip

RollbackRows(p) ==
  /\ tip' = [w \in Orders |-> IF lock[w] = p THEN row[w] ELSE tip[w]]
  /\ lock' = [w \in Orders |-> IF lock[w] = p THEN None ELSE lock[w]]
  /\ UNCHANGED row

NewBulk == [pc |-> "new", action |-> "none", left |-> <<>>,
            checked |-> NoRule, used |-> NoRule]
IdleSweep == [pc |-> "idle", todo |-> {}, marked |-> {}]

Init ==
  /\ now = 0
  /\ row = [w \in Orders |-> Absent]
  /\ tip = row
  /\ lock = [w \in Orders |-> None]
  /\ bulk = [b \in Bulks |-> NewBulk]
  /\ sweep = IdleSweep
  /\ aborts = 0

-----------------------------------------------------------------------------
(* Requests for one order.                                                 *)

WriteAlone(w, new) ==
  /\ lock[w] = None
  /\ row' = [row EXCEPT ![w] = new]
  /\ tip' = [tip EXCEPT ![w] = new]
  /\ UNCHANGED <<now, lock, bulk, sweep, aborts>>

Create(w) ==
  /\ row[w].status = "absent"
  /\ \E draft \in BOOLEAN : WriteAlone(w, Created(w, draft))

(* The lock comes before every read, so the rule checked for permission    *)
(* and required fields is the rule applied.  System rules are refused.     *)
Transition(w) ==
  \E a \in Requested[w] :
    LET r == MatchedRule(w, row[w].status, a)
    IN  /\ r # NoRule
        /\ "system" \notin r.does
        /\ WriteAlone(w, Applied(w, row[w], r))

-----------------------------------------------------------------------------
(* POST /work-orders:bulk-transition: one transaction, a savepoint around  *)
(* each order.  Here nothing locks the row before it is read.              *)

Item(b) == Head(bulk[b].left)

BeginBulk(b) ==
  /\ bulk[b].pc = "new"
  /\ \E a \in BulkActions, l \in BulkLists :
       bulk' = [bulk EXCEPT ![b].pc = "check", ![b].action = a, ![b].left = l]
  /\ UNCHANGED <<now, row, tip, lock, sweep, aborts>>

SkipItem(b) ==
  bulk' = [bulk EXCEPT ![b].pc = "check", ![b].left = Tail(@),
                       ![b].checked = NoRule, ![b].used = NoRule]

(* repo::get and matched_rule: permission and required fields are judged   *)
(* by this rule.                                                           *)
CheckItem(b) ==
  /\ bulk[b].pc = "check" /\ bulk[b].left # <<>>
  /\ LET r == MatchedRule(Item(b), Visible(b, Item(b)).status, bulk[b].action)
     IN  IF r = NoRule \/ "system" \in r.does
         THEN SkipItem(b)
         ELSE bulk' = [bulk EXCEPT ![b].pc = "apply", ![b].checked = r,
                                   ![b].used = NoRule]
  /\ UNCHANGED <<now, row, tip, lock, sweep, aborts>>

(* Plausible bug: transition_work_order does not read the row itself; the  *)
(* rule that was checked is applied.                                       *)
ApplyCheckedRule(b) ==
  /\ bulk[b].pc = "apply"
  /\ LET w == Item(b)
     IN  /\ lock[w] = None
         /\ tip' = [tip EXCEPT ![w] = Applied(w, tip[w], bulk[b].checked)]
         /\ lock' = [lock EXCEPT ![w] = b]
         /\ bulk' = [bulk EXCEPT ![b].pc = "check", ![b].left = Tail(@),
                                 ![b].used = bulk[b].checked]
  /\ UNCHANGED <<now, row, sweep, aborts>>

(* apply_transition_fields waits for the row lock, transition_work_order   *)
(* chooses a rule again from the row as it is now; error 23514 rolls back  *)
(* to the savepoint.                                                       *)
ApplyItem(b) ==
  /\ bulk[b].pc = "apply"
  /\ LET w == Item(b)
         r == MatchedRule(w, tip[w].status, bulk[b].action)
     IN  /\ lock[w] = None
         /\ IF r = NoRule
            THEN SkipItem(b) /\ UNCHANGED <<tip, lock>>
            ELSE /\ tip' = [tip EXCEPT ![w] = Applied(w, tip[w], r)]
                 /\ lock' = [lock EXCEPT ![w] = b]
                 /\ bulk' = [bulk EXCEPT ![b].pc = "check", ![b].left = Tail(@),
                                         ![b].used = r]
  /\ UNCHANGED <<now, row, sweep, aborts>>

EndBulk(b) ==
  bulk' = [bulk EXCEPT ![b] = [NewBulk EXCEPT !.pc = "done"]]

CommitBulk(b) ==
  /\ bulk[b].pc = "check" /\ bulk[b].left = <<>>
  /\ EndBulk(b) /\ CommitRows(b)
  /\ UNCHANGED <<now, sweep, aborts>>

(* The connection is lost.                                                 *)
LoseBulk(b) ==
  /\ bulk[b].pc \in {"check", "apply"}
  /\ EndBulk(b) /\ RollbackRows(b)
  /\ UNCHANGED <<now, sweep, aborts>>

-----------------------------------------------------------------------------
(* sweep_sla_states: three UPDATEs, then BREACH_SLA for every order that   *)
(* the first two marked, all in the transaction of SlaWatchdog::run_once.  *)

Statement ==
  [respond |-> [mark |-> "RESPONSE_BREACHED", next |-> "resolve"],
   resolve |-> [mark |-> "RESOLUTION_BREACHED", next |-> "warn"],
   warn |-> [mark |-> "AT_RISK", next |-> "escalate"]]

(* Plausible bug: WAITING is missing from the list of categories.          *)
StillOpenOrInProgress(t) == t.status \in Open \cup InProgress

StillLive(t) == t.status \in Live

(* Plausible bug: the first UPDATE without first_responded_at IS NULL.     *)
ResponseOverdue(t) == Past(t.response_due_at)

Unanswered(t) == t.first_responded_at = Never /\ Past(t.response_due_at)

NearDue(t) ==
  /\ t.resolution_due_at # Never
  /\ now < t.resolution_due_at /\ now + WarnTime >= t.resolution_due_at

(* The WHERE clause of each UPDATE.                                        *)
Hits(pc, t) ==
  /\ StillLive(t)
  /\ \/ pc = "respond" /\ t.sla \in Watched /\ Unanswered(t)
     \/ pc = "resolve" /\ t.sla \in Watched /\ Past(t.resolution_due_at)
     \/ pc = "warn" /\ t.sla = "ON_TRACK" /\ t.policy /\ NearDue(t)

(* The snapshot of a statement: each row that matches, with the status it  *)
(* was joined on.                                                          *)
Snapshot(pc) ==
  {<<w, Visible(Sweeper, w).status>> :
     w \in {v \in Orders : Hits(pc, Visible(Sweeper, v))}}

BeginSweep ==
  /\ sweep.pc = "idle"
  /\ sweep' = [pc |-> "respond", todo |-> Snapshot("respond"), marked |-> {}]
  /\ UNCHANGED <<now, row, tip, lock, bulk, aborts>>

(* Plausible bug: the list to escalate takes in the orders at risk.        *)
MarkRowForEscalation(w) ==
  \E h \in sweep.todo :
    /\ h[1] = w /\ lock[w] \in {None, Sweeper}
    /\ IF tip[w].status = h[2] /\ Hits(sweep.pc, tip[w])
       THEN /\ tip' = [tip EXCEPT ![w].sla = Statement[sweep.pc].mark]
            /\ lock' = [lock EXCEPT ![w] = Sweeper]
            /\ sweep' = [sweep EXCEPT !.todo = @ \ {h}, !.marked = @ \cup {w}]
       ELSE /\ sweep' = [sweep EXCEPT !.todo = @ \ {h}]
            /\ UNCHANGED <<tip, lock>>
    /\ UNCHANGED <<now, row, bulk, aborts>>

(* Plausible bug: select first, then update by id without testing again.   *)
MarkListedRow(w) ==
  \E h \in sweep.todo :
    /\ h[1] = w /\ lock[w] \in {None, Sweeper}
    /\ tip' = [tip EXCEPT ![w].sla = Statement[sweep.pc].mark]
    /\ lock' = [lock EXCEPT ![w] = Sweeper]
    /\ sweep' = [sweep EXCEPT !.todo = @ \ {h},
         !.marked = IF sweep.pc = "warn" THEN @ ELSE @ \cup {w}]
    /\ UNCHANGED <<now, row, bulk, aborts>>

(* One row of the UPDATE: wait for its lock, then test the condition again *)
(* on its newest version.                                                  *)
MarkRow(w) ==
  \E h \in sweep.todo :
    /\ h[1] = w /\ lock[w] \in {None, Sweeper}
    /\ IF tip[w].status = h[2] /\ Hits(sweep.pc, tip[w])
       THEN /\ tip' = [tip EXCEPT ![w].sla = Statement[sweep.pc].mark]
            /\ lock' = [lock EXCEPT ![w] = Sweeper]
            /\ sweep' = [sweep EXCEPT !.todo = @ \ {h},
                 !.marked = IF sweep.pc = "warn" THEN @ ELSE @ \cup {w}]
       ELSE /\ sweep' = [sweep EXCEPT !.todo = @ \ {h}]
            /\ UNCHANGED <<tip, lock>>
    /\ UNCHANGED <<now, row, bulk, aborts>>

NextStatement ==
  /\ sweep.pc \in DOMAIN Statement /\ sweep.todo = {}
  /\ LET pc == Statement[sweep.pc].next
     IN  sweep' = [sweep EXCEPT !.pc = pc,
                     !.todo = IF pc = "escalate" THEN {} ELSE Snapshot(pc)]
  /\ UNCHANGED <<now, row, tip, lock, bulk, aborts>>

(* An order that has no BREACH_SLA rule in its status stays where it is.   *)
Escalate(w) ==
  /\ sweep.pc = "escalate" /\ w \in sweep.marked
  /\ LET r == MatchedRule(w, tip[w].status, "BREACH_SLA")
     IN  tip' = [tip EXCEPT ![w] = IF r = NoRule THEN @ ELSE Applied(w, @, r)]
  /\ sweep' = [sweep EXCEPT !.marked = @ \ {w}]
  /\ UNCHANGED <<now, row, lock, bulk, aborts>>

CommitSweep ==
  /\ sweep.pc = "escalate" /\ sweep.marked = {}
  /\ sweep' = IdleSweep /\ CommitRows(Sweeper)
  /\ UNCHANGED <<now, bulk, aborts>>

LoseSweep ==
  /\ sweep.pc # "idle" /\ aborts < MaxAborts
  /\ aborts' = aborts + 1
  /\ sweep' = IdleSweep /\ RollbackRows(Sweeper)
  /\ UNCHANGED <<now, bulk>>

-----------------------------------------------------------------------------
(* PostgreSQL's deadlock detector.  A bulk request waits for its item, the *)
(* sweep for any row its scan has still to visit.                          *)

WaitsOn(p) ==
  IF p = Sweeper THEN {h[1] : h \in sweep.todo}
  ELSE IF bulk[p].pc = "apply" THEN {Item(p)} ELSE {}

WaitsFor(p, q) == p # q /\ \E w \in WaitsOn(p) : lock[w] = q

Deadlocked(p) ==
  \E cycle \in SUBSET Holders :
    p \in cycle /\ \A q \in cycle : \E u \in cycle : WaitsFor(q, u)

(* In a bulk request the error ends at the savepoint of the item.          *)
BulkVictim(b) ==
  /\ Deadlocked(b)
  /\ SkipItem(b)
  /\ UNCHANGED <<now, row, tip, lock, sweep, aborts>>

(* In the sweep it ends the transaction; the next round starts afresh.     *)
SweepVictim ==
  /\ Deadlocked(Sweeper)
  /\ sweep' = IdleSweep /\ RollbackRows(Sweeper)
  /\ UNCHANGED <<now, bulk, aborts>>

-----------------------------------------------------------------------------
Tick ==
  /\ now < MaxTime
  /\ now' = now + 1
  /\ UNCHANGED <<row, tip, lock, bulk, sweep, aborts>>

BulkStep(b) == BeginBulk(b) \/ CheckItem(b) \/ ApplyItem(b) \/ CommitBulk(b)
               \/ BulkVictim(b)
SweepStep == \/ BeginSweep \/ NextStatement \/ CommitSweep \/ SweepVictim
             \/ \E w \in Orders : MarkRow(w) \/ Escalate(w)

Next ==
  \/ \E w \in Orders : Create(w) \/ Transition(w)
  \/ \E b \in Bulks : BulkStep(b) \/ LoseBulk(b)
  \/ SweepStep \/ LoseSweep
  \/ Tick

Spec == Init /\ [][Next]_vars

(* The sweep loop runs again every minute; a bulk request that has begun   *)
(* is served to its end, and PostgreSQL hands a lock that is released to   *)
(* the transaction that waits for it.  Clients owe nothing.                *)
Fairness ==
  /\ WF_vars(SweepStep)
  /\ \A b \in Bulks : /\ WF_vars(bulk[b].pc # "new" /\ BulkStep(b))
                      /\ SF_vars(ApplyItem(b))

FairSpec == Spec /\ Fairness

-----------------------------------------------------------------------------
(* Properties.                                                             *)

Done == {"COMPLETED", "VERIFIED", "CLOSED"}

BulkRequest == [pc: {"new", "check", "apply", "done"},
                action: BulkActions \cup {"none"}, left: Seq(Orders),
                checked: Rules \cup {NoRule}, used: Rules \cup {NoRule}]

SweepState == [pc: DOMAIN Statement \cup {"idle", "escalate"},
               todo: SUBSET (Orders \X Statuses), marked: SUBSET Orders]

(* Types of the rows, of the bulk requests and of the sweep.  The states   *)
(* of sla_state are those of its CHECK constraint.                         *)
TypeOK ==
  /\ now \in 0..MaxTime /\ aborts \in 0..MaxAborts
  /\ row \in [Orders -> WorkOrder] /\ tip \in [Orders -> WorkOrder]
  /\ lock \in [Orders -> Holders \cup {None}]
  /\ bulk \in [Bulks -> BulkRequest]
  /\ sweep \in SweepState

(* An order carries a completion time exactly while it is completed,       *)
(* verified or closed: the query with which 044 checks itself, and its     *)
(* converse.  Reopening must clear what completing wrote.                  *)
DoneHasTime ==
  \A w \in Orders : row[w].completed_at # Never <=> row[w].status \in Done

(* MET says that the work was done by resolution_due_at, and that there    *)
(* was such a time: the verdict that 004 gave to every order.              *)
MetMeansInTime ==
  \A w \in Orders :
    row[w].sla = "MET" =>
      /\ row[w].completed_at # Never /\ row[w].resolution_due_at # Never
      /\ row[w].completed_at <= row[w].resolution_due_at

(* RESPONSE_BREACHED, whether the sweep wrote it or a late assignment did, *)
(* says that nobody had answered by response_due_at.                       *)
LateResponseIsReal ==
  \A w \in Orders :
    row[w].sla = "RESPONSE_BREACHED" =>
      /\ Past(row[w].response_due_at)
      /\ \/ row[w].first_responded_at = Never
         \/ row[w].first_responded_at > row[w].response_due_at

(* Only orders that missed a target are escalated: the third UPDATE of the *)
(* sweep, which warns, must not feed the list that is escalated.           *)
EscalatedIsBreached ==
  \A w \in Orders : row[w].status = "SLA_BREACHED" => row[w].sla \in Breached

(* The four together: what an order's row says of its SLA agrees with its  *)
(* times and its status.                                                   *)
VerdictsHold == DoneHasTime /\ MetMeansInTime /\ LateResponseIsReal /\ EscalatedIsBreached

Leaves(w, S) == row[w].sla \in S /\ row'[w].sla \notin S

(* A recorded breach stays recorded until the order is reopened, also when *)
(* a bulk request read the order before the sweep marked it.               *)
BreachIsKept ==
  [][\A w \in Orders :
       Leaves(w, Breached) =>
         row[w].status \in Done /\ row'[w].status = "IN_PROGRESS"]_vars

(* The sweep does not judge a completed order again: its verdict changes   *)
(* only in a transition, although the sweep may have listed the order      *)
(* before it was completed.                                                *)
SweepLeavesDoneAlone ==
  [][\A w \in Orders :
       row[w].status \in Done /\ row'[w].status = row[w].status =>
         row'[w].sla = row[w].sla]_vars

(* Both in one: a verdict moves only as far as it may, although sweeps and *)
(* bulk requests act on what they read earlier.                            *)
VerdictsAreKept ==
  [][\A w \in Orders :
       /\ Leaves(w, Breached) =>
            row[w].status \in Done /\ row'[w].status = "IN_PROGRESS"
       /\ row[w].status \in Done /\ row'[w].status = row[w].status =>
            row'[w].sla = row[w].sla]_vars

(* Every status change that others see is one rule of the catalogue, of a  *)
(* type that fits the order, whatever a request has read before it got the *)
(* lock.                                                                   *)
LegalTransitions ==
  [][\A w \in Orders :
       row'[w].status # row[w].status /\ row[w].status # "absent" =>
         \E r \in Rules : /\ r.from = row[w].status /\ r.to = row'[w].status
                          /\ r \in Matching(w, r.from, r.action)]_vars

(* No step does to an order what the catalogue or an earlier verdict       *)
(* forbids, although requests and sweeps act on what they read earlier.    *)
StepsAreLawful == VerdictsAreKept /\ LegalTransitions

Overdue(t) == t.status \in Live /\ t.sla \in Watched /\ Past(t.resolution_due_at)

(* An order does not stay overdue and unmarked for ever, although sweeps   *)
(* are lost or fall victim to a deadlock, unless its status changes again  *)
(* and again: a row whose status changed between the snapshot of a round   *)
(* and the lock is passed over in that round.                              *)
OverdueIsMarked ==
  \A w \in Orders :
    <>[]Overdue(row[w]) => []<><<row'[w].status # row[w].status>>_row

(* "Whether it was achieved" is settled at completion (sla_sweep_slice.rs, *)
(* 032): until it is reopened, a completed order keeps its verdict.        *)
VerdictIsFinal ==
  [][\A w \in Orders :
       row[w].status \in Done /\ row'[w].status \in Done =>
         row'[w].sla = row[w].sla]_vars

(* The rule whose permission and required fields were checked is the rule  *)
(* that the database applied (repo.rs, matched_rule).                      *)
CheckedRuleIsApplied ==
  \A b \in Bulks : bulk[b].used # NoRule => bulk[b].used = bulk[b].checked

=============================================================================
