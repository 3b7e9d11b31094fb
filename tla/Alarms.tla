------------------------------- MODULE Alarms ---------------------------------
(***************************************************************************)
(* fms-asset: telemetry batches raise alarms and open work orders by rule,   *)
(* people acknowledge, suppress and link alarms by hand.                    *)
(*                                                                         *)
(* A batch is one transaction with a savepoint around every reading; it      *)
(* keeps the row of each device, each alarm it raised and the counters of    *)
(* document numbers until it commits.  A request that opens a work order     *)
(* takes the counter first and the alarm afterwards: the two directions can  *)
(* meet, and PostgreSQL aborts one statement.  Every reading here exceeds    *)
(* its threshold, every point has one rule and a device of its own; readings *)
(* that fire nothing touch no row of this module.                           *)
(***************************************************************************)
EXTENDS Naturals, Sequences, FiniteSets, Functions

CONSTANTS
  Points,     \* telemetry points, each with an active THRESHOLD rule
  AssetOf,    \* AssetOf[p]: the asset of the point's device
  AutoOrder,  \* points whose rule has auto_create_work_order
  Feeds,      \* server tasks serving POST /telemetry:batch-ingest
  Operators,  \* server tasks serving the requests of people
  Window,     \* dedupe_window_minutes
  Hush,       \* duration_minutes of a suppression
  Batches,    \* bound: the batches that are sent, sequences of points
  MaxUsed,    \* bound: batches, requests and lost connections
  AlarmMaxTime \* bound: the clock

AlarmTasks == Feeds \cup Operators

ASSUME AlarmAssumption ==
  /\ IsFiniteSet(Points) /\ AutoOrder \subseteq Points /\ Points \subseteq DOMAIN AssetOf
  /\ Feeds \cap Operators = {}
  /\ Window \in Nat /\ Hush \in Nat \ {0} /\ Batches \subseteq Seq(Points)
  /\ MaxUsed \in Nat /\ AlarmMaxTime \in Nat

VARIABLES
  alarm,   \* alarm[p]: the committed open alarm of a point
  opened,  \* committed work orders raised by an alarm
  ended,   \* numbers of the orders in a terminal status
  heard,   \* heard[p]: committed readings of a point
  txn,     \* txn[t]: the open transaction of a task
  used,    \* batches, requests and cuts so far
  clock    \* clock_timestamp()

alarmVars == <<alarm, opened, ended, heard, txn, used, clock>>

NoAlarm == [status |-> "NONE", until |-> 0, order |-> 0, count |-> 0, loud |-> FALSE,
             woke |-> 0]
NoTxn ==
  [step |-> "idle", todo |-> <<>>, at |-> 0, rows |-> <<>>, new |-> {}, locks |-> {},
   ok |-> <<>>, saved |-> [rows |-> <<>>, new |-> {}, locks |-> {}]]

AlarmRow ==
  [status : {"NONE", "ACTIVE", "ACKNOWLEDGED", "SUPPRESSED"}, until : Nat,
   order : Nat, count : Nat, loud : BOOLEAN, woke : Nat]
WorkOrder ==
  [nr : Nat \ {0}, of : Points, by : {"rule", "hand"}, born : 0..AlarmMaxTime]

AlarmTypeOK ==
  /\ alarm \in [Points -> AlarmRow]
  /\ opened \subseteq WorkOrder /\ ended \subseteq {o.nr : o \in opened}
  /\ heard \in [Points -> Nat]
  /\ \A t \in AlarmTasks :
       /\ txn[t].step \in {"idle", "next", "rule", "insert", "dedupe", "open",
                           "suppress", "acknowledge", "read", "number", "link"}
       /\ txn[t].new \subseteq WorkOrder
       /\ DOMAIN txn[t].rows \subseteq Points
  /\ used \in 0..MaxUsed
  /\ clock \in 0..AlarmMaxTime

(* An alarm may be older than its rule's auto_create_work_order and unlinked. *)
AlarmInit ==
  /\ \E old \in SUBSET AutoOrder :
       alarm = [p \in Points |->
         IF p \in old THEN [NoAlarm EXCEPT !.status = "ACTIVE", !.count = 1] ELSE NoAlarm]
  /\ heard = [p \in Points |-> alarm[p].count]
  /\ opened = {} /\ ended = {}
  /\ txn = [t \in AlarmTasks |-> NoTxn]
  /\ used = 0
  /\ clock = 0

-----------------------------------------------------------------------------
(* Locks: the row of a device, the row of an alarm, the two counters of         *)
(* document numbers (alarms, work orders).                                  *)
Device(p) == <<"device", p>>
RowOf(p) == <<"alarm", p>>
Counter(c) == <<"counter", c>>
HeldByOther(t, l) == \E u \in AlarmTasks \ {t} : l \in txn[u].locks

(* What a transaction sees: committed rows and its own.                       *)
Seen(t, p) == IF p \in DOMAIN txn[t].rows THEN txn[t].rows[p] ELSE alarm[p]
With(rows, p, row) == [q \in DOMAIN rows \cup {p} |-> IF q = p THEN row ELSE rows[q]]
Visible(t) == opened \cup txn[t].new
NextNr(t) == Cardinality(Visible(t)) + 1
Due(t) == Head(txn[t].todo)

Busy(t, step) == txn[t].step = step /\ txn[t].todo # <<>>
Uncommitted == UNCHANGED <<alarm, opened, ended, heard, used, clock>>
Do(t, new) == txn' = [txn EXCEPT ![t] = new] /\ Uncommitted

CommitAll(t) ==
  /\ alarm' = [p \in Points |-> Seen(t, p)]
  /\ opened' = Visible(t)
  /\ heard' = [p \in Points |-> heard[p] +
                 Cardinality({i \in DOMAIN txn[t].ok : txn[t].ok[i] = p})]
  /\ txn' = [txn EXCEPT ![t] = NoTxn]
  /\ UNCHANGED <<ended, used, clock>>

-----------------------------------------------------------------------------
(* POST /telemetry:batch-ingest                                               *)
Receive(g, batch) ==
  /\ txn[g] = NoTxn /\ used < MaxUsed
  /\ used' = used + 1
  /\ txn' = [txn EXCEPT ![g].step = "next", ![g].todo = batch]
  /\ UNCHANGED <<alarm, opened, ended, heard, clock>>

(* SAVEPOINT, ingest_telemetry, and the evaluation of the point's rule.       *)
Ingest(g, at) ==
  LET t == txn[g] IN
  /\ g \in Feeds /\ Busy(g, "next")
  /\ ~HeldByOther(g, Device(Due(g)))
  /\ Do(g, [t EXCEPT !.step = "rule", !.at = at,
                      !.saved = [rows |-> t.rows, new |-> t.new, locks |-> t.locks],
                      !.locks = @ \cup {Device(Due(g))}])

(* RELEASE SAVEPOINT: the reading is accepted.                                *)
Accepted(t) == [t EXCEPT !.step = "next", !.todo = Tail(@), !.ok = Append(@, Head(t.todo))]

(* raise_alarm, the alarm that is already open: SELECT ... FOR UPDATE.  During *)
(* a suppression the reading is only counted.                                 *)
Hushed(row, at) == row.status = "SUPPRESSED" /\ row.until > at
Counted(row) == [row EXCEPT !.count = @ + 1]
Awake(row, at) ==
  LET loud == [Counted(row) EXCEPT !.loud = TRUE] IN
  IF row.status = "SUPPRESSED"
  THEN [loud EXCEPT !.status = "ACTIVE", !.until = 0, !.woke = at] ELSE loud

RaiseAlarm(g, t, row) ==
  LET p == Due(g)
      woken == [t EXCEPT !.rows = With(@, p, Awake(row, t.at))] IN
  Do(g, IF row.status = "NONE" THEN [t EXCEPT !.step = "insert"]
        ELSE IF Hushed(row, t.at) THEN Accepted([t EXCEPT !.rows = With(@, p, Counted(row))])
        ELSE IF p \in AutoOrder THEN [woken EXCEPT !.step = "dedupe"]
        ELSE Accepted(woken))
(* Plausible bug: the alarm is read without FOR UPDATE.                        *)
FindOpenUnlocked(g) == Busy(g, "rule") /\ RaiseAlarm(g, txn[g], Seen(g, Due(g)))
FindOpen(g) ==
  LET row == RowOf(Due(g))
      found == IF Seen(g, Due(g)).status = "NONE" THEN {} ELSE {row} IN
  /\ Busy(g, "rule") /\ (found # {} => ~HeldByOther(g, row))
  /\ RaiseAlarm(g, [txn[g] EXCEPT !.locks = @ \cup found], Seen(g, Due(g)))

(* raise_alarm, a new alarm: the counter of alarm numbers stays locked.       *)
InsertAlarm(g) ==
  LET t == txn[g]
      p == Due(g)
      row == [NoAlarm EXCEPT !.status = "ACTIVE", !.count = 1, !.loud = TRUE]
      new == [t EXCEPT !.rows = With(@, p, row), !.locks = @ \cup {RowOf(p), Counter("AL")}] IN
  /\ Busy(g, "insert") /\ ~HeldByOther(g, Counter("AL"))
  /\ Do(g, IF p \in AutoOrder THEN [new EXCEPT !.step = "dedupe"] ELSE Accepted(new))

(* raise_alarm, the work order: an open one of the asset within the window is *)
(* taken, else one is inserted; the alarm is linked unless it has a link.     *)
Recent(t, p) ==
  {o \in Visible(t) : /\ AssetOf[o.of] = AssetOf[p]
                      /\ o.nr \notin ended
                      /\ o.born + Window > clock}
Linked(row, nr) == IF row.order = 0 THEN [row EXCEPT !.order = nr] ELSE row
Dedupe(g) ==
  LET t == txn[g]
      p == Due(g) IN
  /\ Busy(g, "dedupe")
  /\ \/ /\ Recent(g, p) = {}
        /\ Do(g, [t EXCEPT !.step = "open"])
     \/ \E o \in Recent(g, p) :
          /\ \A other \in Recent(g, p) : other.nr <= o.nr
          /\ Do(g, Accepted([t EXCEPT !.rows = With(@, p, Linked(@[p], o.nr))]))
OpenOrder(g) ==
  LET t == txn[g]
      p == Due(g)
      o == [nr |-> NextNr(g), of |-> p, by |-> "rule", born |-> clock] IN
  /\ Busy(g, "open") /\ ~HeldByOther(g, Counter("WO"))
  /\ Do(g, Accepted([t EXCEPT !.new = @ \cup {o}, !.locks = @ \cup {Counter("WO")},
                              !.rows = With(@, p, Linked(@[p], o.nr))]))

CommitBatch(g) == g \in Feeds /\ txn[g].step = "next" /\ txn[g].todo = <<>> /\ CommitAll(g)

-----------------------------------------------------------------------------
(* Requests of people.  suppress and acknowledge read the status first.       *)
Asked(m, step, todo) ==
  /\ txn[m] = NoTxn /\ used < MaxUsed
  /\ used' = used + 1
  /\ txn' = [txn EXCEPT ![m].step = step, ![m].todo = todo]
  /\ UNCHANGED <<alarm, opened, ended, heard, clock>>
AskSuppress(m, p) == alarm[p].status # "NONE" /\ Asked(m, "suppress", <<p>>)
AskAcknowledge(m, p) ==
  alarm[p].status \in {"ACTIVE", "ACKNOWLEDGED"} /\ Asked(m, "acknowledge", <<p>>)
AskOrder(m, p) == alarm[p].status # "NONE" /\ Asked(m, "read", <<p>>)

(* The gap: alarms that should have had an order and have none.               *)
Gap == {p \in AutoOrder : alarm[p].order = 0 /\ alarm[p].status \in {"ACTIVE", "ACKNOWLEDGED"}}
Reconcile(m, todo) == Gap # {} /\ Asked(m, "read", todo)

(* One UPDATE, which waits for the row, and the commit.                       *)
Write(m, row) ==
  /\ ~HeldByOther(m, RowOf(Due(m)))
  /\ alarm' = [alarm EXCEPT ![Due(m)] = row]
  /\ txn' = [txn EXCEPT ![m] = NoTxn]
  /\ UNCHANGED <<opened, ended, heard, used, clock>>
Suppress(m) ==
  /\ Busy(m, "suppress")
  /\ Write(m, [alarm[Due(m)] EXCEPT !.status = "SUPPRESSED", !.until = clock + Hush])
AcknowledgeAlarm(m) ==
  /\ Busy(m, "acknowledge")
  /\ Write(m, [alarm[Due(m)] EXCEPT !.status = IF @ = "ACTIVE" THEN "ACKNOWLEDGED" ELSE @])

(* create_work_order_from_alarm, for one alarm or for each of the gap.        *)
ReadAlarm(m) ==
  LET t == txn[m] IN
  /\ Busy(m, "read")
  /\ IF Seen(m, Due(m)).order # 0
     THEN Do(m, IF Tail(t.todo) = <<>> /\ t.new = {} THEN NoTxn ELSE [t EXCEPT !.todo = Tail(@)])
     ELSE Do(m, [t EXCEPT !.step = "number"])
Number(m) ==
  LET t == txn[m]
      o == [nr |-> NextNr(m), of |-> Due(m), by |-> "hand", born |-> clock] IN
  /\ Busy(m, "number") /\ ~HeldByOther(m, Counter("WO"))
  /\ Do(m, [t EXCEPT !.step = "link", !.new = @ \cup {o}, !.locks = @ \cup {Counter("WO")}])

(* The conditional UPDATE: whoever comes second gets 40001 and rolls back.    *)
LinkByHand(m) ==
  LET t == txn[m]
      p == Due(m) IN
  /\ Busy(m, "link") /\ ~HeldByOther(m, RowOf(p))
  /\ Do(m, IF Seen(m, p).order # 0 THEN NoTxn
           ELSE [t EXCEPT !.step = "read", !.todo = Tail(@), !.locks = @ \cup {RowOf(p)},
                          !.rows = With(@, p, [Seen(m, p) EXCEPT !.order = NextNr(m) - 1])])

CommitOrders(m) == txn[m].step = "read" /\ txn[m].todo = <<>> /\ CommitAll(m)

-----------------------------------------------------------------------------
(* Which lock a task needs next, and PostgreSQL's deadlock detector.          *)
Needs(t) ==
  LET s == txn[t].step IN
  IF txn[t].todo = <<>> THEN {} ELSE
  CASE s = "next" -> {Device(Due(t))}
    [] s = "rule" -> IF Seen(t, Due(t)).status = "NONE" THEN {} ELSE {RowOf(Due(t))}
    [] s = "insert" -> {Counter("AL")}
    [] s \in {"open", "number"} -> {Counter("WO")}
    [] s \in {"suppress", "acknowledge", "link"} -> {RowOf(Due(t))}
    [] OTHER -> {}
StuckOn(t, u) == t # u /\ Needs(t) \cap txn[u].locks # {}
InDeadlock(t) ==
  \E cycle \in SUBSET AlarmTasks :
    t \in cycle /\ \A v \in cycle : \E u \in cycle : StuckOn(v, u)

(* ROLLBACK TO SAVEPOINT: the batch goes on without the reading; a request    *)
(* fails as a whole.                                                          *)
Skipped(t) ==
  [t EXCEPT !.step = "next", !.todo = Tail(@), !.rows = t.saved.rows, !.new = t.saved.new,
            !.locks = t.saved.locks]
LoseDeadlock(t) ==
  /\ InDeadlock(t)
  /\ Do(t, IF t \notin Feeds THEN NoTxn
           ELSE IF txn[t].step = "next" THEN [txn[t] EXCEPT !.todo = Tail(@)]
           ELSE Skipped(txn[t]))

CutOff(t) ==
  /\ txn[t] # NoTxn /\ used < MaxUsed
  /\ used' = used + 1
  /\ txn' = [txn EXCEPT ![t] = NoTxn]
  /\ UNCHANGED <<alarm, opened, ended, heard, clock>>

EndOrder(o) ==
  /\ o.nr \notin ended
  /\ ended' = ended \cup {o.nr}
  /\ UNCHANGED <<alarm, opened, heard, txn, used, clock>>

AlarmTick ==
  /\ clock < AlarmMaxTime
  /\ clock' = clock + 1
  /\ UNCHANGED <<alarm, opened, ended, heard, txn, used>>

FeedStep(g) ==
  \/ \E at \in 0..AlarmMaxTime : Ingest(g, at)
  \/ FindOpen(g) \/ InsertAlarm(g) \/ Dedupe(g) \/ OpenOrder(g) \/ CommitBatch(g)
OperatorStep(m) ==
  Suppress(m) \/ AcknowledgeAlarm(m) \/ ReadAlarm(m) \/ Number(m) \/ LinkByHand(m)
    \/ CommitOrders(m)

AlarmNext ==
  \/ \E g \in Feeds :
       FeedStep(g) \/ \E batch \in Batches : Receive(g, batch)
  \/ \E m \in Operators :
       \/ OperatorStep(m)
       \/ \E p \in Points : AskSuppress(m, p) \/ AskAcknowledge(m, p) \/ AskOrder(m, p)
       \/ \E todo \in Bijection(1..Cardinality(Gap), Gap) : Reconcile(m, todo)
  \/ \E t \in AlarmTasks : LoseDeadlock(t) \/ CutOff(t)
  \/ \E o \in opened : EndOrder(o)
  \/ AlarmTick

AlarmSpec == AlarmInit /\ [][AlarmNext]_alarmVars

-----------------------------------------------------------------------------
(* Suppressed or not, every accepted reading is counted, once; a rule that    *)
(* opens work orders has linked the alarm of every reading it did not hush;   *)
(* an order opened by hand is the one its alarm points to, whoever else       *)
(* wanted to open one; and a link leads to an order of the alarm's asset.     *)
AlarmsAreTrue ==
  \A p \in Points :
    /\ alarm[p].count = heard[p]
    /\ p \in AutoOrder /\ alarm[p].loud => alarm[p].order # 0
    /\ \A o \in opened : o.by = "hand" /\ o.of = p => alarm[p].order = o.nr
    /\ alarm[p].order # 0 =>
         \E o \in opened : o.nr = alarm[p].order /\ AssetOf[o.of] = AssetOf[p]

(* A suppression ends, and a rule opens an order for its alarm, only with a   *)
(* reading that was observed after its term, although the request and the     *)
(* batches run side by side.                                                  *)
SuppressionIsHonoured ==
  [][\A p \in Points : alarm[p].status = "SUPPRESSED" =>
       \/ /\ alarm'[p].status = "SUPPRESSED"
          /\ \A o \in opened' \ opened : o.of = p => o.by # "rule"
       \/ alarm'[p].woke >= alarm[p].until]_alarmVars

(* Both: the books of an alarm are true, and a suppressed one is left alone.   *)
AlarmsAreSound == []AlarmsAreTrue /\ SuppressionIsHonoured

(* Violated: two batches look for an open order of the asset before either    *)
(* has committed its own.                                                     *)
OneOpenOrderPerAsset ==
  \A o, q \in opened :
    o # q /\ o.by = "rule" /\ q.by = "rule" /\ AssetOf[o.of] = AssetOf[q.of]
      /\ {o.nr, q.nr} \cap ended = {} =>
      o.born + Window <= q.born \/ q.born + Window <= o.born
=============================================================================
