----------------------------- MODULE WorkExecution -----------------------------
(***************************************************************************)
(* What is recorded while an order is worked on: labour, parts from stock,   *)
(* the invitation to rate and the rating.                                   *)
(*                                                                         *)
(* A transition locks its order first (FOR UPDATE) and may bring labour and    *)
(* parts; an entry of labour or of a part is a request of its own that locks   *)
(* nothing, but for the foreign key of the row it inserts (FOR KEY SHARE) and  *)
(* for the UPDATE of the totals at its end (FOR NO KEY UPDATE).  READ           *)
(* COMMITTED; a sub-select keeps the snapshot of its statement.              *)
(***************************************************************************)
EXTENDS Naturals, Sequences, FiniteSets, Functions

CONSTANTS
  Jobs,        \* work orders of one facility
  Shelves,     \* rows of part_stock: a part in one place of the facility
  PartOn,      \* PartOn[s]: the part of a row
  Stocked,     \* Stocked[s]: the quantity at the beginning
  Uses,        \* bound: the parts a request uses, sequences of <<part, quantity>>
  Crew,        \* server tasks
  MaxSent      \* bound: requests and lost connections

ASSUME ExecAssumption ==
  /\ IsFiniteSet(Jobs) /\ IsFiniteSet(Shelves) /\ IsFiniteSet(Crew)
  /\ Stocked \in [Shelves -> Nat]
  /\ DOMAIN PartOn = Shelves
  /\ MaxSent \in Nat

VARIABLES
  job,      \* job[w]: the committed order, its totals and its rating
  used,     \* used[w]: committed rows: minutes of labour, parts, each with its shelf
  shelf,    \* shelf[s]: committed quantity_on_hand
  crew,     \* crew[t]: the open transaction of a task
  crossed,  \* history: orders of which two unlocked entries were open together
  sent

execVars == <<job, used, shelf, crew, crossed, sent>>

NoShelf == "none"

UsedParts == UNION {Range(parts) : parts \in Uses}
ASSUME UsesAssumption ==
  /\ NoShelf \notin Shelves
  /\ Uses \subseteq Seq(UsedParts)
  /\ \A use \in UsedParts : use[2] \in Nat \ {0}

NoJobTx ==
  [kind |-> "none", step |-> "idle", job |-> 0, lock |-> "none", action |-> "", minutes |-> 0,
   parts |-> <<>>, todo |-> {}, taken |-> [s \in Shelves |-> 0], rows |-> <<>>,
   sum |-> [minutes |-> 0, parts |-> 0], new |-> <<>>]

JobStatuses == {"IN_PROGRESS", "SLA_BREACHED", "COMPLETED", "VERIFIED", "CLOSED"}
JobActions == {"COMPLETE", "RESUME", "VERIFY", "CLOSE", "REOPEN"}

Total(rows) == SumFunction([i \in DOMAIN rows |-> rows[i].quantity])

ExecTypeOK ==
  /\ \A w \in Jobs :
       /\ job[w].status \in JobStatuses
       /\ job[w].minutes \in Nat /\ job[w].parts \in Nat /\ job[w].invited \in Nat
       /\ job[w].rated \in BOOLEAN /\ used[w].minutes \in Nat
  /\ shelf \in [Shelves -> Nat]
  /\ \A t \in Crew : crew[t].lock \in {"none", "share", "update", "all"}
  /\ crossed \subseteq Jobs /\ sent \in 0..MaxSent

ExecInit ==
  /\ \E service \in SUBSET Jobs :
       job = [w \in Jobs |-> [service |-> w \in service, status |-> "IN_PROGRESS", minutes |-> 0,
                             parts |-> 0, invited |-> 0, rated |-> FALSE, done |-> {}]]
  /\ used = [w \in Jobs |-> [minutes |-> 0, parts |-> <<>>]]
  /\ shelf = Stocked
  /\ crew = [t \in Crew |-> NoJobTx]
  /\ crossed = {}
  /\ sent = 0

-----------------------------------------------------------------------------
(* Row locks of orders by strength, and of the rows of part_stock.             *)
Conflict(a, b) ==
  \/ a = "all" /\ b # "none"
  \/ b = "all" /\ a # "none"
  \/ a = "update" /\ b = "update"
LockedBy(t, w) == IF crew[t].job = w THEN crew[t].lock ELSE "none"
Grants(t, lock) == \A u \in Crew \ {t} : ~Conflict(lock, LockedBy(u, crew[t].job))
Stronger(a, b) == IF "all" \in {a, b} THEN "all" ELSE IF "update" \in {a, b} THEN "update" ELSE "share"
HeldShelf(t, s) == \E u \in Crew \ {t} : crew[u].taken[s] > 0

GoOn(t, new) == crew' = [crew EXCEPT ![t] = new] /\ UNCHANGED <<job, used, shelf, crossed, sent>>
Fails(t) == GoOn(t, NoJobTx)

(* A request arrives: a transition with its labour and parts, or an entry.      *)
Enters(t) == crew[t].kind \in {"labour", "part"}
Send(t, w, new) ==
  /\ crew[t] = NoJobTx /\ sent < MaxSent
  /\ sent' = sent + 1
  /\ crew' = [crew EXCEPT ![t] = [new EXCEPT !.job = w]]
  /\ crossed' = IF new.kind \in {"labour", "part"} /\ \E u \in Crew : Enters(u) /\ crew[u].job = w
                THEN crossed \cup {w} ELSE crossed
  /\ UNCHANGED <<job, used, shelf>>
SendTransition(t, w, action, minutes, parts) ==
  Send(t, w, [NoJobTx EXCEPT !.kind = "transition", !.step = "lock", !.action = action,
                             !.minutes = minutes, !.parts = parts])
(* A round of the SLA sweep comes to this order, which may be due at any time.    *)
SendSweep(t, w) ==
  Send(t, w, [NoJobTx EXCEPT !.kind = "transition", !.step = "mark", !.action = "BREACH_SLA"])
SendLabour(t, w) ==
  Send(t, w, [NoJobTx EXCEPT !.kind = "labour", !.step = "labour", !.minutes = 1])
SendPart(t, w, parts) ==
  /\ Len(parts) = 1
  /\ Send(t, w, [NoJobTx EXCEPT !.kind = "part", !.step = "labour", !.parts = parts])

-----------------------------------------------------------------------------
(* The catalogue for orders that are worked on, by the type of the order: of two   *)
(* rules the one of the type is taken.  `asks` is request_satisfaction.           *)
Rule(from, action, to, asks) == [from |-> from, action |-> action, to |-> to, asks |-> asks]
Catalogue(service) ==
  {Rule("IN_PROGRESS", "COMPLETE", "COMPLETED", TRUE),
   Rule("SLA_BREACHED", "COMPLETE", "COMPLETED", FALSE),
   Rule("IN_PROGRESS", "BREACH_SLA", "SLA_BREACHED", FALSE),
   Rule("SLA_BREACHED", "RESUME", "IN_PROGRESS", FALSE),
   Rule("COMPLETED", "VERIFY", "VERIFIED", FALSE),
   Rule("COMPLETED", "CLOSE", "CLOSED", service),
   Rule("VERIFIED", "CLOSE", "CLOSED", FALSE)}
  \cup {Rule(s, "REOPEN", "IN_PROGRESS", FALSE) : s \in {"COMPLETED", "VERIFIED", "CLOSED"}}
Matched(old, action) == {r \in Catalogue(old.service) : r.from = old.status /\ r.action = action}

(* Plausible bug: an invitation for every completion.                          *)
InvitesAgain(old, rule) == IF rule.asks THEN old.invited + 1 ELSE old.invited

(* fms.request_satisfaction: the existing notification is the evidence.         *)
Invites(old, rule) == IF rule.asks /\ old.invited = 0 THEN 1 ELSE old.invited

(* done: history, the statuses in which the order was when it was completed or    *)
(* closed.                                                                  *)
Transitioned(old, rule) ==
  [old EXCEPT !.status = rule.to, !.invited = Invites(old, rule),
              !.done = IF rule.action \in {"COMPLETE", "CLOSE"} THEN @ \cup {rule.from} ELSE @]

(* The sweep marks what is late by an UPDATE, and the transition follows.         *)
MarkLate(t) ==
  LET c == crew[t] IN
  /\ c.step = "mark" /\ Grants(t, "update")
  /\ IF job[c.job].status # "IN_PROGRESS" THEN Fails(t)
     ELSE GoOn(t, [c EXCEPT !.step = "lock", !.lock = "update"])

(* The lock, the rule of the status under the lock, the transition and its      *)
(* side effects; what it wrote is in `new` until the commit.                  *)
LockJob(t) ==
  LET c == crew[t]
      old == job[c.job] IN
  /\ c.step = "lock" /\ Grants(t, "all")
  /\ \/ Matched(old, c.action) = {} /\ Fails(t)
     \/ \E rule \in Matched(old, c.action) :
          GoOn(t, [c EXCEPT !.step = "labour", !.lock = "all", !.new = <<Transitioned(old, rule)>>])

(* The rows of labour: the foreign key takes a share of the order's row.        *)
InsertLabour(t) ==
  LET c == crew[t] IN
  /\ c.step = "labour"
  /\ IF c.minutes = 0 THEN GoOn(t, [c EXCEPT !.step = "part"])
     ELSE Grants(t, "share") /\ GoOn(t, [c EXCEPT !.step = "part", !.lock = Stronger(@, "share")])

(* record_part_usage, one part after the other: the conditional UPDATE finds      *)
(* its rows, and takes from each one that still has enough, waiting for others. *)
FindShelves(t) ==
  LET c == crew[t]
      want == Head(c.parts) IN
  /\ c.step = "part" /\ c.parts # <<>>
  /\ GoOn(t, [c EXCEPT !.step = "take", !.rows = Append(@, [shelf |-> NoShelf, quantity |-> want[2]]),
       !.todo = {s \in Shelves : PartOn[s] = want[1] /\ shelf[s] - c.taken[s] >= want[2]}])

Enough(t, s, quantity) == shelf[s] - crew[t].taken[s] >= quantity

TakeFrom(t, s) ==
  LET c == crew[t]
      want == Head(c.parts) IN
  /\ c.step = "take" /\ s \in c.todo /\ ~HeldShelf(t, s)
  /\ GoOn(t, IF Enough(t, s, want[2])
             THEN [c EXCEPT !.todo = @ \ {s}, !.taken[s] = @ + want[2],
                            !.rows[Len(c.rows)].shelf = IF @ = NoShelf THEN s ELSE @]
             ELSE [c EXCEPT !.todo = @ \ {s}])

(* No row with enough: 409 if the part is in stock at all, otherwise the        *)
(* contractor has brought it.                                               *)
RecordUse(t) ==
  LET c == crew[t]
      want == Head(c.parts) IN
  /\ c.step = "take" /\ c.todo = {}
  /\ IF c.rows[Len(c.rows)].shelf = NoShelf /\ want[1] \in Range(PartOn) THEN Fails(t)
     ELSE /\ Grants(t, "share")
          /\ GoOn(t, [c EXCEPT !.step = "part", !.parts = Tail(@), !.lock = Stronger(@, "share")])

(* recompute_costs: the sums are sub-selects of the UPDATE, taken before it      *)
(* waits for the order's row.  A transition without labour and parts has none,    *)
(* unless the request says so: no minutes, an empty list.                       *)
Rolls(t) == crew[t].minutes > 0 \/ crew[t].rows # <<>>
RollsNothing(t) == ~Rolls(t) /\ crew[t].action \in JobActions
SumRows(t) ==
  LET c == crew[t] IN
  /\ c.step = "part" /\ c.parts = <<>>
  /\ \/ ~Rolls(t) /\ GoOn(t, [c EXCEPT !.step = "commit"])
     \/ /\ Rolls(t) \/ RollsNothing(t)
        /\ GoOn(t, [c EXCEPT !.step = "sum",
                             !.sum = [minutes |-> used[c.job].minutes + c.minutes,
                                      parts |-> Total(used[c.job].parts) + Total(c.rows)]])

(* Plausible bug: the sums are added to what is there.                         *)
WithTotalsAdded(t, old) ==
  [old EXCEPT !.minutes = @ + crew[t].sum.minutes, !.parts = @ + crew[t].sum.parts]
WithTotals(t, old) ==
  [old EXCEPT !.minutes = crew[t].sum.minutes, !.parts = crew[t].sum.parts]

RecomputeCosts(t) ==
  LET c == crew[t]
      old == IF c.new = <<>> THEN job[c.job] ELSE c.new[1] IN
  /\ c.step = "sum" /\ Grants(t, "update")
  /\ GoOn(t, [c EXCEPT !.step = "commit", !.lock = Stronger(@, "update"),
                       !.new = <<WithTotals(t, old)>>])

CommitJob(t) ==
  LET c == crew[t] IN
  /\ c.step = "commit"
  /\ job' = IF c.new = <<>> THEN job ELSE [job EXCEPT ![c.job] = c.new[1]]
  /\ used' = [used EXCEPT ![c.job].minutes = @ + c.minutes, ![c.job].parts = @ \o c.rows]
  /\ shelf' = [s \in Shelves |-> shelf[s] - c.taken[s]]
  /\ crew' = [crew EXCEPT ![t] = NoJobTx]
  /\ UNCHANGED <<crossed, sent>>

-----------------------------------------------------------------------------
(* POST /satisfaction: status and score are read in a CTE, the UPDATE waits for  *)
(* the row and does not read them again.                                     *)
ReadForRating(t, w) ==
  /\ job[w].status \in {"COMPLETED", "CLOSED"}
  /\ Send(t, w, [NoJobTx EXCEPT !.kind = "rating", !.step = "rate"])
Rate(t) ==
  LET c == crew[t] IN
  /\ c.step = "rate" /\ Grants(t, "update")
  /\ GoOn(t, [c EXCEPT !.step = "commit", !.lock = "update",
                       !.new = <<[job[c.job] EXCEPT !.rated = TRUE]>>])

-----------------------------------------------------------------------------
(* Who waits for whom; PostgreSQL ends a transaction of a cycle.  A connection  *)
(* may be lost at any time.                                                 *)
AsksFor(t) ==
  CASE crew[t].step = "lock" -> "all"
    [] crew[t].step = "mark" -> "update"
    [] crew[t].step = "labour" /\ crew[t].minutes > 0 -> "share"
    [] crew[t].step = "take" /\ crew[t].todo = {} -> "share"
    [] crew[t].step \in {"sum", "rate"} -> "update"
    [] OTHER -> "none"
AwaitsOn(t, u) ==
  t # u /\ \/ Conflict(AsksFor(t), LockedBy(u, crew[t].job))
           \/ crew[t].step = "take" /\ \E s \in crew[t].todo : crew[u].taken[s] > 0
LoseCycle(t) ==
  /\ \E cycle \in SUBSET Crew :
       t \in cycle /\ \A v \in cycle : \E u \in cycle : AwaitsOn(v, u)
  /\ Fails(t)
LoseTask(t) ==
  /\ crew[t] # NoJobTx /\ sent < MaxSent
  /\ sent' = sent + 1
  /\ crew' = [crew EXCEPT ![t] = NoJobTx]
  /\ UNCHANGED <<job, used, shelf, crossed>>

ExecNext ==
  \E t \in Crew :
    \/ \E w \in Jobs :
         \/ \E action \in JobActions, minutes \in 0..1, parts \in Uses :
              SendTransition(t, w, action, minutes, parts)
         \/ SendSweep(t, w) \/ SendLabour(t, w) \/ ReadForRating(t, w)
         \/ \E parts \in Uses : SendPart(t, w, parts)
    \/ MarkLate(t) \/ LockJob(t) \/ InsertLabour(t) \/ FindShelves(t) \/ RecordUse(t)
    \/ \E s \in Shelves : TakeFrom(t, s)
    \/ SumRows(t) \/ RecomputeCosts(t) \/ CommitJob(t) \/ Rate(t)
    \/ LoseCycle(t) \/ LoseTask(t)

ExecSpec == ExecInit /\ [][ExecNext]_execVars

-----------------------------------------------------------------------------
(* Parts kept in one place: what was issued and what is on hand is what there   *)
(* was.  In several places never more is issued than was there.              *)
IssuedBy(rows, s) ==
  SumFunction([i \in DOMAIN rows |-> IF rows[i].shelf = s THEN rows[i].quantity ELSE 0])
Issued(s) == SumFunction([w \in Jobs |-> IssuedBy(used[w].parts, s)])
Alone(s) == \A r \in Shelves \ {s} : PartOn[r] # PartOn[s]
StockIsTrue ==
  \A s \in Shelves :
    /\ shelf[s] >= 0 /\ shelf[s] + Issued(s) <= Stocked[s]
    /\ Alone(s) => shelf[s] + Issued(s) = Stocked[s]

(* The totals of an order are the sums of its rows, whatever transitions and     *)
(* entries have met, and died, unless two entries without the lock overlapped.  *)
TotalsAreSums ==
  \A w \in Jobs \ crossed :
    job[w].minutes = used[w].minutes /\ job[w].parts = Total(used[w].parts)

(* The requester is invited to rate when an order in progress is completed, or a   *)
(* SERVICE order is closed that nobody verified; once, however often it is           *)
(* reopened, escalated and done again, and never for anything else.              *)
InvitedOnce ==
  \A w \in Jobs :
    job[w].invited =
      IF "IN_PROGRESS" \in job[w].done \/ (job[w].service /\ "COMPLETED" \in job[w].done)
      THEN 1 ELSE 0

ExecutionIsTrue == ExecTypeOK /\ StockIsTrue /\ TotalsAreSums /\ InvitedOnce

(* Violated: the totals are the sums of the rows.                             *)
TotalsNeverDrift ==
  \A w \in Jobs : job[w].minutes = used[w].minutes /\ job[w].parts = Total(used[w].parts)

(* Violated: what leaves the shelves of a part is what was issued.              *)
IssuedOnce == \A s \in Shelves : shelf[s] + Issued(s) = Stocked[s]

(* Violated: whose order is done is invited to rate it (satisfaction.rs:10); not if *)
(* the sweep has escalated it before it was completed.                          *)
DoneIsInvited ==
  \A w \in Jobs : job[w].status \in {"COMPLETED", "VERIFIED", "CLOSED"} => job[w].invited = 1

(* Violated: an order is rated only while it is done.                          *)
RatedWhenDone == [][\A w \in Jobs :
  job'[w].rated /\ ~job[w].rated => job[w].status # "IN_PROGRESS"]_execVars
=============================================================================
