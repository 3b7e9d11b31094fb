--------------------------- MODULE WebhookDelivery ---------------------------
(***************************************************************************)
(* The webhook loop (fms_worker::webhook): notifications rows of channel   *)
(* WEBHOOK, the subscriptions they point to, and the dispatchers of one or *)
(* more fms-jobs processes that drain them.                                *)
(*                                                                         *)
(* One round is one transaction: lock a batch of due rows of active        *)
(* subscriptions (SKIP LOCKED), park the rows of inactive ones, POST each  *)
(* row of the batch and record the result on the subscription, commit.     *)
(* The row locks of PostgreSQL are part of the model: parking waits for    *)
(* rows that another round holds, recording waits for the subscription row *)
(* and keeps it locked until the round ends.  When rounds wait for each    *)
(* other PostgreSQL aborts one of them.                                    *)
(***************************************************************************)
EXTENDS Naturals, FiniteSets

CONSTANTS
  Rows,         \* ids of notifications rows, in the order a scan meets them
  Subs,         \* webhook subscriptions
  Workers,      \* webhook loops, one per process
  SubOf,        \* SubOf[n]: the subscription that row n is for
  BatchSize,    \* WebhookConfig.batch_size
  MaxAttempts,  \* WebhookConfig.max_attempts
  MaxFailures,  \* WebhookConfig.max_consecutive_failures
  MaxAborts,    \* bound: rounds lost to a crash or a connection error
  MaxUpserts,   \* bound: calls of POST /webhooks on existing subscriptions
  NoWorker      \* the holder of an unlocked subscription row

ASSUME WebhookAssumption ==
  /\ Rows \subseteq Nat
  /\ SubOf \in [Rows -> Subs]
  /\ {BatchSize, MaxAttempts, MaxFailures} \subseteq Nat \ {0}
  /\ {MaxAborts, MaxUpserts} \subseteq Nat
  /\ NoWorker \notin Workers

VARIABLES
  status,     \* status[n]: the committed status, "absent" before the insert
  attempts,   \* attempts[n]: attempt_count
  due,        \* due[n]: scheduled_for <= clock_timestamp()
  sub,        \* sub[s]: the committed subscription row
  pending,    \* pending[s]: the row as written by the round that locks it
  holder,     \* holder[s]: the round that locks the subscription row
  phase,      \* phase[w]: where the round of w stands
  locked,     \* locked[w]: the notifications rows that the round locks
  toPark,     \* toPark[w]: rows its park statement has still to visit
  toSend,     \* toSend[w]: rows of its batch that are not processed yet
  reply,      \* reply[w]: the answer to the POST it has not recorded yet
  mark,       \* mark[w][n]: the uncommitted status, or "none"
  accepted,   \* accepted[n]: requests for row n answered with 2xx
  aborts,     \* rounds lost to a crash or a connection error
  upserts     \* calls of POST /webhooks

rowVars == <<status, attempts, due>>
roundVars == <<phase, locked, toPark, toSend, reply, mark>>
vars == <<rowVars, sub, pending, holder, roundVars, accepted, aborts, upserts>>

Subscription == [active : BOOLEAN, failures : Nat]
Replies == {"ok", "permanent", "transient"}
NoReply == [row |-> 0, result |-> "none"]
Queued == {"QUEUED", "FAILED"}
NoMarks == [n \in Rows |-> "none"]

TypeOK ==
  /\ status \in [Rows -> Queued \cup {"absent", "SENT", "SUPPRESSED"}]
  /\ attempts \in [Rows -> 0..(MaxAttempts - 1)]
  /\ due \in [Rows -> BOOLEAN]
  /\ sub \in [Subs -> Subscription]
  /\ pending \in [Subs -> Subscription]
  /\ holder \in [Subs -> Workers \cup {NoWorker}]
  /\ phase \in [Workers -> {"idle", "claimed", "parking", "sending"}]
  /\ locked \in [Workers -> SUBSET Rows]
  /\ toPark \in [Workers -> SUBSET Rows]
  /\ toSend \in [Workers -> SUBSET Rows]
  /\ reply \in [Workers -> {NoReply} \cup [row : Rows, result : Replies]]
  /\ mark \in [Workers -> [Rows -> {"none", "SENT", "FAILED", "SUPPRESSED"}]]
  /\ accepted \in [Rows -> Nat]
  /\ aborts \in 0..MaxAborts
  /\ upserts \in 0..MaxUpserts

Init ==
  /\ status = [n \in Rows |-> "absent"]
  /\ attempts = [n \in Rows |-> 0]
  /\ due = [n \in Rows |-> FALSE]
  /\ sub = [s \in Subs |-> [active |-> TRUE, failures |-> 0]]
  /\ pending = sub
  /\ holder = [s \in Subs |-> NoWorker]
  /\ phase = [w \in Workers |-> "idle"]
  /\ locked = [w \in Workers |-> {}]
  /\ toPark = [w \in Workers |-> {}]
  /\ toSend = [w \in Workers |-> {}]
  /\ reply = [w \in Workers |-> NoReply]
  /\ mark = [w \in Workers |-> NoMarks]
  /\ accepted = [n \in Rows |-> 0]
  /\ aborts = 0
  /\ upserts = 0

-----------------------------------------------------------------------------
(* fanout_webhooks inserts rows for active subscriptions only.             *)
FanOut(n) ==
  /\ status[n] = "absent"
  /\ sub[SubOf[n]].active
  /\ status' = [status EXCEPT ![n] = "QUEUED"]
  /\ due' = [due EXCEPT ![n] = TRUE]
  /\ UNCHANGED <<attempts, sub, pending, holder, roundVars, accepted, aborts, upserts>>

BackoffElapses(n) ==
  /\ status[n] = "FAILED"
  /\ ~due[n]
  /\ due' = [due EXCEPT ![n] = TRUE]
  /\ UNCHANGED <<status, attempts, sub, pending, holder, roundVars, accepted, aborts, upserts>>

(* POST /webhooks for an existing url with is_active given.  The UPDATE    *)
(* waits while a round holds the row; it does not touch the counter.       *)
Upsert(s, active) ==
  /\ upserts < MaxUpserts
  /\ holder[s] = NoWorker
  /\ sub' = [sub EXCEPT ![s].active = active]
  /\ pending' = [pending EXCEPT ![s].active = active]
  /\ upserts' = upserts + 1
  /\ UNCHANGED <<rowVars, holder, roundVars, accepted, aborts>>

LockedByOther(w, n) == \E v \in Workers \ {w} : n \in locked[v]

(* Mutant: FOR UPDATE SKIP LOCKED is missing from the claim.               *)
ClaimableIgnoringLocks(w) ==
  {n \in Rows : /\ status[n] \in Queued
                /\ due[n]
                /\ sub[SubOf[n]].active}

Claimable(w) ==
  {n \in Rows : /\ status[n] \in Queued
                /\ due[n]
                /\ sub[SubOf[n]].active
                /\ ~LockedByOther(w, n)}

(* The rows that the park statement selects: due or not, locked or not.    *)
Parkable == {n \in Rows : status[n] \in Queued /\ ~sub[SubOf[n]].active}

(* A round that finds nothing to send or park changes nothing.             *)
Claim(w) ==
  /\ phase[w] = "idle"
  /\ Claimable(w) # {} \/ Parkable # {}
  /\ \E batch \in SUBSET Claimable(w) :
        /\ Cardinality(batch) <= BatchSize
        /\ batch = Claimable(w) \/ Cardinality(batch) = BatchSize
        /\ (\E n \in batch : status[n] = "QUEUED")
              => \A n \in Claimable(w) \ batch : status[n] = "QUEUED"
        /\ locked' = [locked EXCEPT ![w] = batch]
        /\ toSend' = [toSend EXCEPT ![w] = batch]
  /\ phase' = [phase EXCEPT ![w] = "claimed"]
  /\ UNCHANGED <<rowVars, sub, pending, holder, toPark, reply, mark, accepted,
                 aborts, upserts>>

(* Mutant: the park statement is missing.                                  *)
SkipParking(w) ==
  /\ phase[w] = "claimed"
  /\ toPark' = [toPark EXCEPT ![w] = {}]
  /\ phase' = [phase EXCEPT ![w] = "parking"]
  /\ UNCHANGED <<rowVars, sub, pending, holder, locked, toSend, reply, mark,
                 accepted, aborts, upserts>>

(* The UPDATE that parks takes its snapshot after the claim: it can select *)
(* rows of the round's own batch.                                          *)
StartPark(w) ==
  /\ phase[w] = "claimed"
  /\ toPark' = [toPark EXCEPT ![w] = Parkable]
  /\ phase' = [phase EXCEPT ![w] = "parking"]
  /\ UNCHANGED <<rowVars, sub, pending, holder, locked, toSend, reply, mark,
                 accepted, aborts, upserts>>

NextToPark(w) == CHOOSE n \in toPark[w] : \A m \in toPark[w] : n <= m

(* It locks the rows one by one, waiting for other rounds, and rechecks    *)
(* the status of a row it waited for.                                      *)
ParkRow(w) ==
  /\ phase[w] = "parking"
  /\ toPark[w] # {}
  /\ LET n == NextToPark(w) IN
       /\ ~LockedByOther(w, n)
       /\ toPark' = [toPark EXCEPT ![w] = @ \ {n}]
       /\ IF status[n] \in Queued
          THEN /\ locked' = [locked EXCEPT ![w] = @ \cup {n}]
               /\ mark' = [mark EXCEPT ![w][n] = "SUPPRESSED"]
          ELSE UNCHANGED <<locked, mark>>
  /\ UNCHANGED <<rowVars, sub, pending, holder, phase, toSend, reply, accepted,
                 aborts, upserts>>

ParkDone(w) ==
  /\ phase[w] = "parking"
  /\ toPark[w] = {}
  /\ phase' = [phase EXCEPT ![w] = "sending"]
  /\ UNCHANGED <<rowVars, sub, pending, holder, locked, toPark, toSend, reply,
                 mark, accepted, aborts, upserts>>

(* One POST and its answer.  The subscription is not looked at again.      *)
Deliver(w, n) ==
  /\ phase[w] = "sending"
  /\ reply[w] = NoReply
  /\ n \in toSend[w]
  /\ \E result \in Replies :
       /\ reply' = [reply EXCEPT ![w] = [row |-> n, result |-> result]]
       /\ accepted' = IF result = "ok" THEN [accepted EXCEPT ![n] = @ + 1] ELSE accepted
  /\ toSend' = [toSend EXCEPT ![w] = @ \ {n}]
  /\ UNCHANGED <<rowVars, sub, pending, holder, phase, locked, toPark, mark, aborts, upserts>>

(* Mutant: every failed POST is final and reported as delivered.           *)
MarkSentAnyway(n, result) == IF result = "transient" THEN "FAILED" ELSE "SENT"

(* Mutant: the give-up comparison forgets the attempt just made.           *)
RetryOnceMore(n, result) ==
  CASE result = "ok" -> "SENT"
    [] result = "permanent" -> "SUPPRESSED"
    [] result = "transient" ->
         IF attempts[n] >= MaxAttempts THEN "SUPPRESSED" ELSE "FAILED"

(* The status that the answer to a POST gives its row.                     *)
MarkFor(n, result) ==
  CASE result = "ok" -> "SENT"
    [] result = "permanent" -> "SUPPRESSED"
    [] result = "transient" ->
         IF attempts[n] + 1 >= MaxAttempts THEN "SUPPRESSED" ELSE "FAILED"

(* Mutant: the threshold is compared with the count before this failure.   *)
ThresholdOffByOne(r, result) ==
  IF result = "ok" THEN [r EXCEPT !.failures = 0]
  ELSE [active |-> r.active /\ r.failures < MaxFailures,
        failures |-> r.failures + 1]

(* Mutant: is_active is computed from the count alone.                     *)
RecomputeActive(r, result) ==
  IF result = "ok" THEN [active |-> TRUE, failures |-> 0]
  ELSE [active |-> r.failures + 1 < MaxFailures, failures |-> r.failures + 1]

(* record_webhook_result on the row it finds after waiting for the lock.   *)
Recorded(r, result) ==
  IF result = "ok" THEN [r EXCEPT !.failures = 0]
  ELSE [active |-> r.active /\ r.failures + 1 < MaxFailures,
        failures |-> r.failures + 1]

(* The result is written to the row of the batch and to its subscription.  *)
Record(w) ==
  /\ reply[w] # NoReply
  /\ LET n == reply[w].row
         s == SubOf[n]
     IN /\ holder[s] \in {w, NoWorker}
        /\ mark' = [mark EXCEPT ![w][n] = MarkFor(n, reply[w].result)]
        /\ pending' = [pending EXCEPT ![s] = Recorded(@, reply[w].result)]
        /\ holder' = [holder EXCEPT ![s] = w]
  /\ reply' = [reply EXCEPT ![w] = NoReply]
  /\ UNCHANGED <<rowVars, sub, phase, locked, toPark, toSend, accepted,
                 aborts, upserts>>

Release(w) ==
  /\ holder' = [s \in Subs |-> IF holder[s] = w THEN NoWorker ELSE holder[s]]
  /\ phase' = [phase EXCEPT ![w] = "idle"]
  /\ locked' = [locked EXCEPT ![w] = {}]
  /\ toPark' = [toPark EXCEPT ![w] = {}]
  /\ toSend' = [toSend EXCEPT ![w] = {}]
  /\ reply' = [reply EXCEPT ![w] = NoReply]
  /\ mark' = [mark EXCEPT ![w] = NoMarks]

Commit(w) ==
  /\ phase[w] = "sending"
  /\ toSend[w] = {}
  /\ reply[w] = NoReply
  /\ status' = [n \in Rows |-> IF mark[w][n] = "none" THEN status[n] ELSE mark[w][n]]
  /\ attempts' = [n \in Rows |-> IF mark[w][n] = "FAILED"
                                 THEN attempts[n] + 1 ELSE attempts[n]]
  /\ due' = [n \in Rows |-> due[n] /\ mark[w][n] = "none"]
  /\ sub' = [s \in Subs |-> IF holder[s] = w THEN pending[s] ELSE sub[s]]
  /\ Release(w)
  /\ UNCHANGED <<pending, accepted, aborts, upserts>>

Rollback(w) ==
  /\ pending' = [s \in Subs |-> IF holder[s] = w THEN sub[s] ELSE pending[s]]
  /\ Release(w)
  /\ UNCHANGED <<rowVars, sub, accepted, upserts>>

Abort(w) ==
  /\ phase[w] # "idle"
  /\ aborts < MaxAborts
  /\ aborts' = aborts + 1
  /\ Rollback(w)

WaitsFor(w, v) ==
  /\ v # w
  /\ \/ /\ phase[w] = "parking"
        /\ toPark[w] # {}
        /\ NextToPark(w) \in locked[v]
     \/ /\ reply[w] # NoReply
        /\ holder[SubOf[reply[w].row]] = v

Deadlocked(w) ==
  \E cycle \in SUBSET Workers :
     w \in cycle /\ \A v \in cycle : \E u \in cycle : WaitsFor(v, u)

(* PostgreSQL's deadlock detector: error 40P01 in one of the rounds.       *)
DeadlockVictim(w) ==
  /\ Deadlocked(w)
  /\ Rollback(w)
  /\ UNCHANGED aborts

Step(w) ==
  \/ Claim(w) \/ StartPark(w) \/ ParkRow(w) \/ ParkDone(w)
  \/ \E n \in Rows : Deliver(w, n)
  \/ Record(w) \/ Commit(w) \/ DeadlockVictim(w)

Next ==
  \/ \E n \in Rows : FanOut(n) \/ BackoffElapses(n)
  \/ \E s \in Subs, active \in BOOLEAN : Upsert(s, active)
  \/ \E w \in Workers : Step(w) \/ Abort(w)

Spec == Init /\ [][Next]_vars

(* The loops never stop, requests time out, the deadlock detector runs;    *)
(* nobody is obliged to call POST /webhooks.  PostgreSQL queues the        *)
(* waiters of a lock, so a round that waits for a row again and again gets *)
(* it in the end: strong fairness for the two statements that wait.        *)
Fairness ==
  /\ \A n \in Rows : WF_vars(BackoffElapses(n))
  /\ \A w \in Workers : WF_vars(Step(w)) /\ SF_vars(ParkRow(w)) /\ SF_vars(Record(w))

FairSpec == Spec /\ Fairness

-----------------------------------------------------------------------------
(* What FOR UPDATE SKIP LOCKED and the waiting park statement give: no row *)
(* is in two open rounds.                                                  *)
RowLocksExclusive ==
  \A v, w \in Workers : v # w => locked[v] \cap locked[w] = {}

(* A row is SENT only if the endpoint answered a request for it with 2xx,  *)
(* whatever rounds were rolled back and whichever statement wrote last.    *)
SentWasAccepted == \A n \in Rows : status[n] = "SENT" => accepted[n] > 0

(* Several rounds record on one subscription; no failure is lost on the    *)
(* way to the threshold: a subscription that nobody re-enabled is active   *)
(* only below it.                                                          *)
ActiveBelowThreshold ==
  upserts = 0 => \A s \in Subs : sub[s].active => sub[s].failures < MaxFailures

(* What the rows and the counters say is true although rounds overlap, are *)
(* rolled back and deadlock.                                               *)
BooksAreTrue == RowLocksExclusive /\ SentWasAccepted /\ ActiveBelowThreshold

(* A round that was under way when the customer disabled the subscription  *)
(* does not turn it on again when it commits.                              *)
OnlyUpsertEnables ==
  [][\A s \in Subs : ~sub[s].active /\ sub'[s].active => upserts' > upserts]_vars

(* Every queued row is sent or parked in the end: neither retries, nor a   *)
(* disabled subscription, nor rounds that deadlock keep it for ever.       *)
EventuallySettled ==
  \A n \in Rows : status[n] = "QUEUED" ~> status[n] \in {"SENT", "SUPPRESSED"}

(* Several instances run in parallel without sending a row twice, as long  *)
(* as no round is lost to a crash.                                         *)
NoDuplicateWithoutCrash == aborts = 0 => \A n \in Rows : accepted[n] <= 1
=============================================================================
