----------------------------- MODULE EventOutbox -----------------------------
(***************************************************************************)
(* The transactional outbox (fms.event_outbox) and the relays that drain   *)
(* it (fms_worker::run_once).  Every relay loop of fms-jobs owns a shard,  *)
(* a list of event types; it claims a batch of due rows in one transaction *)
(* with FOR UPDATE SKIP LOCKED, calls its handler on each, and commits all *)
(* status changes together.  A handler commits its own work in a separate  *)
(* transaction, so an aborted relay transaction leaves effects behind.     *)
(*                                                                         *)
(* Time is abstracted: a row is either due or in backoff, and a backoff    *)
(* ends at any moment.  Within one priority class (FAILED rows sort before *)
(* PENDING ones) the claim order by available_at is left open.             *)
(***************************************************************************)
EXTENDS Naturals, FiniteSets

CONSTANTS
  Events,       \* the rows the outbox can hold
  Types,        \* the event types
  Relays,       \* running relay loops, over all processes
  Kinds,        \* the kinds of relay loop that fms-jobs starts
  TypeOf,       \* TypeOf[e]: the event_type of row e
  KindOf,       \* KindOf[r]: the kind of relay r
  ShardOf,      \* ShardOf[k]: RelayConfig.event_types of kind k
  Handled,      \* Handled[k]: the types for which handles() answers true
  BatchSize,    \* RelayConfig.batch_size
  MaxAttempts,  \* RelayConfig.max_attempts
  MaxAborts     \* bound: how many relay transactions are aborted

ASSUME OutboxAssumption ==
  /\ TypeOf \in [Events -> Types]
  /\ KindOf \in [Relays -> Kinds]
  /\ ShardOf \in [Kinds -> SUBSET Types]
  /\ Handled \in [Kinds -> SUBSET Types]
  /\ BatchSize \in Nat \ {0}
  /\ MaxAttempts \in Nat \ {0}
  /\ MaxAborts \in Nat

VARIABLES
  status,    \* status[e]: the status column, "absent" before the INSERT
  attempts,  \* attempts[e]: attempt_count
  due,       \* due[e]: available_at <= clock_timestamp()
  claim,     \* claim[r]: the rows locked by the open transaction of relay r
  mark,      \* mark[r][e]: the uncommitted status r wrote for e, or "none"
  effects,   \* effects[e][k]: rows the handler of kind k committed for e
  aborts     \* relay transactions aborted so far

vars == <<status, attempts, due, claim, mark, effects, aborts>>

Statuses == {"absent", "PENDING", "FAILED", "PUBLISHED", "SKIPPED"}
Marks == {"none", "PUBLISHED", "FAILED", "SKIPPED"}

TypeOK ==
  /\ status \in [Events -> Statuses]
  /\ attempts \in [Events -> Nat]
  /\ due \in [Events -> BOOLEAN]
  /\ claim \in [Relays -> SUBSET Events]
  /\ mark \in [Relays -> [Events -> Marks]]
  /\ effects \in [Events -> [Kinds -> Nat]]
  /\ aborts \in Nat

NoMarks == [e \in Events |-> "none"]

Init ==
  /\ status = [e \in Events |-> "absent"]
  /\ attempts = [e \in Events |-> 0]
  /\ due = [e \in Events |-> FALSE]
  /\ claim = [r \in Relays |-> {}]
  /\ mark = [r \in Relays |-> NoMarks]
  /\ effects = [e \in Events |-> [k \in Kinds |-> 0]]
  /\ aborts = 0

-----------------------------------------------------------------------------
(* emit_event inserts the row in the producer's transaction; it becomes    *)
(* visible to relays when that transaction commits.                        *)
EmitEvent(e) ==
  /\ status[e] = "absent"
  /\ status' = [status EXCEPT ![e] = "PENDING"]
  /\ due' = [due EXCEPT ![e] = TRUE]
  /\ UNCHANGED <<attempts, claim, mark, effects, aborts>>

BackoffElapses(e) ==
  /\ status[e] = "FAILED"
  /\ ~due[e]
  /\ due' = [due EXCEPT ![e] = TRUE]
  /\ UNCHANGED <<status, attempts, claim, mark, effects, aborts>>

(* Mutant: the claim query without SKIP LOCKED (and without FOR UPDATE).   *)
ClaimableIgnoringLocks(r) ==
  {e \in Events : /\ status[e] \in {"PENDING", "FAILED"}
                  /\ due[e]
                  /\ TypeOf[e] \in ShardOf[KindOf[r]]}

(* The rows the claim query of relay r can lock: in its shard, unsettled,  *)
(* due, and not locked by another relay (SKIP LOCKED).                     *)
Claimable(r) ==
  {e \in Events : /\ status[e] \in {"PENDING", "FAILED"}
                  /\ due[e]
                  /\ TypeOf[e] \in ShardOf[KindOf[r]]
                  /\ \A q \in Relays : e \notin claim[q]}

(* ORDER BY status puts 'FAILED' before 'PENDING'; LIMIT cuts the batch.   *)
IsBatch(batch, rows) ==
  /\ batch \subseteq rows
  /\ batch # {}
  /\ batch = rows \/ Cardinality(batch) = BatchSize
  /\ Cardinality(batch) <= BatchSize
  /\ (\E e \in batch : status[e] = "PENDING")
        => \A e \in rows \ batch : status[e] = "PENDING"

Claim(r) ==
  /\ claim[r] = {}
  /\ \E batch \in SUBSET Claimable(r) :
        /\ IsBatch(batch, Claimable(r))
        /\ claim' = [claim EXCEPT ![r] = batch]
  /\ UNCHANGED <<status, attempts, due, mark, effects, aborts>>

Unprocessed(r) == {e \in claim[r] : mark[r][e] = "none"}

(* Mutant: the fan-out inserts without ON CONFLICT DO NOTHING.             *)
InsertAgain(e, k) == effects' = [effects EXCEPT ![e][k] = @ + 1]

(* The handler's inserts carry ON CONFLICT DO NOTHING on a key that holds  *)
(* the source event, so a replay adds nothing.                             *)
InsertOnce(e, k) ==
  effects' = [effects EXCEPT ![e][k] = IF @ = 0 THEN 1 ELSE @]

(* Mutant: an event nobody handles is reported as delivered.               *)
PretendHandled(r, e) ==
  /\ e \in Unprocessed(r)
  /\ TypeOf[e] \notin Handled[KindOf[r]]
  /\ mark' = [mark EXCEPT ![r][e] = "PUBLISHED"]
  /\ UNCHANGED <<status, attempts, due, claim, effects, aborts>>

SkipUnhandled(r, e) ==
  /\ e \in Unprocessed(r)
  /\ TypeOf[e] \notin Handled[KindOf[r]]
  /\ mark' = [mark EXCEPT ![r][e] = "SKIPPED"]
  /\ UNCHANGED <<status, attempts, due, claim, effects, aborts>>

HandleOk(r, e) ==
  /\ e \in Unprocessed(r)
  /\ TypeOf[e] \in Handled[KindOf[r]]
  /\ InsertOnce(e, KindOf[r])
  /\ mark' = [mark EXCEPT ![r][e] = "PUBLISHED"]
  /\ UNCHANGED <<status, attempts, due, claim, aborts>>

(* Mutant: the give-up comparison forgets the attempt just made.           *)
GiveUpLate(r, e) ==
  /\ e \in Unprocessed(r)
  /\ TypeOf[e] \in Handled[KindOf[r]]
  /\ InsertOnce(e, KindOf[r]) \/ UNCHANGED effects
  /\ mark' = [mark EXCEPT ![r][e] =
                IF attempts[e] >= MaxAttempts THEN "SKIPPED" ELSE "FAILED"]
  /\ UNCHANGED <<status, attempts, due, claim, aborts>>

(* Mutant: an Err is logged and the event marked as done.                  *)
SwallowErr(r, e) ==
  /\ e \in Unprocessed(r)
  /\ TypeOf[e] \in Handled[KindOf[r]]
  /\ InsertOnce(e, KindOf[r]) \/ UNCHANGED effects
  /\ mark' = [mark EXCEPT ![r][e] = "PUBLISHED"]
  /\ UNCHANGED <<status, attempts, due, claim, aborts>>

(* The handler returns Err.  Its own transaction may or may not have       *)
(* committed: a connection lost during COMMIT looks like a failure.        *)
HandleErr(r, e) ==
  /\ e \in Unprocessed(r)
  /\ TypeOf[e] \in Handled[KindOf[r]]
  /\ InsertOnce(e, KindOf[r]) \/ UNCHANGED effects
  /\ mark' = [mark EXCEPT ![r][e] =
                IF attempts[e] + 1 >= MaxAttempts THEN "SKIPPED" ELSE "FAILED"]
  /\ UNCHANGED <<status, attempts, due, claim, aborts>>

(* Mutant: the loop over the batch ends early (break for continue), and    *)
(* the rest of the claim is written back as it is.                         *)
CommitUnprocessed(r) ==
  /\ claim[r] # {}
  /\ status' = [e \in Events |-> IF e \in claim[r] THEN mark[r][e] ELSE status[e]]
  /\ attempts' = [e \in Events |-> IF e \in claim[r] /\ mark[r][e] = "FAILED"
                                   THEN attempts[e] + 1 ELSE attempts[e]]
  /\ due' = [e \in Events |-> IF e \in claim[r] THEN FALSE ELSE due[e]]
  /\ claim' = [claim EXCEPT ![r] = {}]
  /\ mark' = [mark EXCEPT ![r] = NoMarks]
  /\ UNCHANGED <<effects, aborts>>

(* Mutant: the FAILED update forgets attempt_count.                        *)
CommitWithoutCounting(r) ==
  /\ claim[r] # {}
  /\ Unprocessed(r) = {}
  /\ status' = [e \in Events |-> IF e \in claim[r] THEN mark[r][e] ELSE status[e]]
  /\ due' = [e \in Events |-> IF e \in claim[r] THEN FALSE ELSE due[e]]
  /\ claim' = [claim EXCEPT ![r] = {}]
  /\ mark' = [mark EXCEPT ![r] = NoMarks]
  /\ UNCHANGED <<attempts, effects, aborts>>

Commit(r) ==
  /\ claim[r] # {}
  /\ Unprocessed(r) = {}
  /\ status' = [e \in Events |-> IF e \in claim[r] THEN mark[r][e] ELSE status[e]]
  /\ attempts' = [e \in Events |-> IF e \in claim[r] /\ mark[r][e] = "FAILED"
                                   THEN attempts[e] + 1 ELSE attempts[e]]
  /\ due' = [e \in Events |-> IF e \in claim[r] THEN FALSE ELSE due[e]]
  /\ claim' = [claim EXCEPT ![r] = {}]
  /\ mark' = [mark EXCEPT ![r] = NoMarks]
  /\ UNCHANGED <<effects, aborts>>

(* The process dies, or a statement of the relay transaction fails and `?` *)
(* drops the transaction: the locks go, the marks are rolled back, what    *)
(* handlers committed stays.  The loop (or a new process) tries again.     *)
Abort(r) ==
  /\ claim[r] # {}
  /\ aborts < MaxAborts
  /\ aborts' = aborts + 1
  /\ claim' = [claim EXCEPT ![r] = {}]
  /\ mark' = [mark EXCEPT ![r] = NoMarks]
  /\ UNCHANGED <<status, attempts, due, effects>>

ProcessOne(r) ==
  \E e \in Events : SkipUnhandled(r, e) \/ HandleOk(r, e) \/ HandleErr(r, e)

Next ==
  \/ \E e \in Events : EmitEvent(e) \/ BackoffElapses(e)
  \/ \E r \in Relays : Claim(r) \/ ProcessOne(r) \/ Commit(r) \/ Abort(r)

Spec == Init /\ [][Next]_vars

(* run_until_shutdown loops for ever and every handler call returns; the   *)
(* clock moves on.  Nothing obliges a producer to emit or a relay to fail. *)
Fairness ==
  /\ \A e \in Events : WF_vars(BackoffElapses(e))
  /\ \A r \in Relays : WF_vars(Claim(r)) /\ WF_vars(ProcessOne(r)) /\ WF_vars(Commit(r))

FairSpec == Spec /\ Fairness

-----------------------------------------------------------------------------
(* No row is in the open transactions of two relays at once, whatever      *)
(* shards they have: what FOR UPDATE SKIP LOCKED is there for.             *)
ClaimsExclusive ==
  \A r, q \in Relays : r # q => claim[r] \cap claim[q] = {}

(* A row reads PUBLISHED only if a relay that owns its type called its     *)
(* handler and the handler's work is committed, through any number of      *)
(* aborted relay transactions.                                             *)
PublishedMeansHandled ==
  \A e \in Events : status[e] = "PUBLISHED" =>
     \E k \in Kinds : /\ TypeOf[e] \in ShardOf[k] \cap Handled[k]
                      /\ effects[e][k] # 0

(* The relay is at-least-once; the handlers are idempotent.  Together:     *)
(* however often an event is replayed, a handler leaves its rows once.     *)
EffectOnce == \A e \in Events, k \in Kinds : effects[e][k] <= 1

(* A row is parked as SKIPPED only after MaxAttempts failed calls          *)
(* (attempt_count then shows one less, mark_skipped does not write it) or  *)
(* because a relay owns a type its handler refuses; a row that waits for a *)
(* retry has failed at least once and fewer than MaxAttempts times.        *)
ParkedOnlyWhenExhausted ==
  \A e \in Events :
    /\ status[e] = "SKIPPED" =>
         \/ attempts[e] + 1 = MaxAttempts
         \/ \E k \in Kinds : TypeOf[e] \in ShardOf[k] \ Handled[k]
    /\ status[e] = "FAILED" => attempts[e] \in 1..(MaxAttempts - 1)

(* What at-least-once delivery through a table must give: relays never     *)
(* share a row, what is published was handled, handlers take effect once,  *)
(* and rows are given up only at the end of their attempts.                *)
DeliveryIsSound ==
  ClaimsExclusive /\ PublishedMeansHandled /\ EffectOnce /\ ParkedOnlyWhenExhausted

(* Every kind of handler that subscribes to a type sees every event of it. *)
AllConsumersServed ==
  \A e \in Events : status[e] = "PUBLISHED" =>
     \A k \in Kinds : TypeOf[e] \in ShardOf[k] \cap Handled[k] => effects[e][k] # 0

(* A settled row is never claimed, retried or rewritten again.             *)
SettledIsFinal ==
  [][\A e \in Events : status[e] \in {"PUBLISHED", "SKIPPED"}
        => status'[e] = status[e] /\ attempts'[e] = attempts[e]]_vars

(* Each event whose type some relay owns is eventually published or        *)
(* parked: a handler that keeps failing cannot hold it for ever.           *)
EventuallySettled ==
  \A e \in Events :
     (status[e] = "PENDING" /\ \E r \in Relays : TypeOf[e] \in ShardOf[KindOf[r]])
        ~> status[e] \in {"PUBLISHED", "SKIPPED"}

-----------------------------------------------------------------------------
(* The outbox implements the delivery contract: a row waits while it is    *)
(* PENDING or FAILED.                                                      *)
OutcomeOf(s) == CASE s = "absent" -> "absent"
                  [] s \in {"PENDING", "FAILED"} -> "waiting"
                  [] s = "PUBLISHED" -> "published"
                  [] s = "SKIPPED" -> "parked"

Delivery == INSTANCE EventDelivery WITH
              outcome <- [e \in Events |-> OutcomeOf(status[e])]

ImplementsDelivery == Delivery!Spec
=============================================================================
