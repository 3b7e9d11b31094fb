---------------------------- MODULE OutboxProofs ----------------------------
(***************************************************************************)
(* Theorems about EventOutbox and IdempotencyKeys: any events, relays,       *)
(* shards, batch sizes, attempt limits and aborts; any requests, users, keys, *)
(* crashes, lost responses and expiries.  OutboxInv and IdemInv are the      *)
(* inductive invariants; the step simulation of EventDelivery follows from   *)
(* the first.                                                                *)
(***************************************************************************)
EXTENDS EventOutbox, IdempotencyKeys,
  TLAPS

-----------------------------------------------------------------------------
(* The outbox and its relays *)

(* A relay holds only unsettled rows of its own shard, and has written a   *)
(* mark only for rows it holds.                                            *)
ClaimsAreOwn ==
  \A r \in Relays, e \in Events :
    /\ e \in claim[r] => /\ status[e] \in {"PENDING", "FAILED"}
                         /\ TypeOf[e] \in ShardOf[KindOf[r]]
    /\ mark[r][e] # "none" => e \in claim[r]

(* Each uncommitted mark already has the reason that the committed status  *)
(* will need.                                                              *)
MarksJustified ==
  \A r \in Relays, e \in Events :
    /\ mark[r][e] = "PUBLISHED" => /\ TypeOf[e] \in Handled[KindOf[r]]
                                   /\ effects[e][KindOf[r]] # 0
    /\ mark[r][e] = "FAILED" => attempts[e] + 1 < MaxAttempts
    /\ mark[r][e] = "SKIPPED" => \/ attempts[e] + 1 = MaxAttempts
                                 \/ TypeOf[e] \notin Handled[KindOf[r]]

AttemptsBelowMax == \A e \in Events : attempts[e] \in 0..(MaxAttempts - 1)

OutboxInv ==
  /\ TypeOK
  /\ ClaimsExclusive
  /\ ClaimsAreOwn
  /\ MarksJustified
  /\ AttemptsBelowMax
  /\ PublishedMeansHandled
  /\ EffectOnce
  /\ ParkedOnlyWhenExhausted

-----------------------------------------------------------------------------
(* The state before any event was emitted satisfies the invariant.         *)
LEMMA InitOutboxInv == Init => OutboxInv
BY OutboxAssumption
   DEF Init, OutboxInv, TypeOK, NoMarks, Statuses, Marks, ClaimsExclusive,
       ClaimsAreOwn, MarksJustified, AttemptsBelowMax, PublishedMeansHandled,
       EffectOnce, ParkedOnlyWhenExhausted

(* The idempotent insert keeps the effect counters typed, never above one, *)
(* never lowers one, and leaves the counter it names at one.               *)
LEMMA InsertOnceEffect ==
  ASSUME effects \in [Events -> [Kinds -> Nat]], EffectOnce,
         NEW e \in Events, NEW k \in Kinds, InsertOnce(e, k)
  PROVE  /\ effects' \in [Events -> [Kinds -> Nat]]
         /\ EffectOnce'
         /\ effects'[e][k] = 1
         /\ \A f \in Events, l \in Kinds :
               effects[f][l] # 0 => effects'[f][l] # 0
BY DEF InsertOnce, EffectOnce

(* What the three handler outcomes have in common: one row of the relay's  *)
(* claim gets a justified mark, and effects only grow.                     *)
LEMMA MarkKeepsInv ==
  ASSUME OutboxInv, NEW r \in Relays, NEW e \in Events, NEW m \in Marks \ {"none"},
         e \in Unprocessed(r),
         mark' = [mark EXCEPT ![r][e] = m],
         effects' \in [Events -> [Kinds -> Nat]],
         EffectOnce',
         \A f \in Events, l \in Kinds : effects[f][l] # 0 => effects'[f][l] # 0,
         UNCHANGED <<status, attempts, due, claim, aborts>>,
         m = "PUBLISHED" => /\ TypeOf[e] \in Handled[KindOf[r]]
                            /\ effects'[e][KindOf[r]] # 0,
         m = "FAILED" => attempts[e] + 1 < MaxAttempts,
         m = "SKIPPED" => \/ attempts[e] + 1 = MaxAttempts
                          \/ TypeOf[e] \notin Handled[KindOf[r]]
  PROVE  OutboxInv'
<1> USE OutboxAssumption DEF OutboxInv, Unprocessed
<1>1. TypeOK'
  BY DEF TypeOK, Marks
<1>2. ClaimsExclusive' /\ AttemptsBelowMax' /\ ParkedOnlyWhenExhausted'
  BY DEF ClaimsExclusive, AttemptsBelowMax, ParkedOnlyWhenExhausted
<1>3. ClaimsAreOwn'
  BY DEF ClaimsAreOwn, TypeOK
<1>4. MarksJustified'
  <2> SUFFICES ASSUME NEW q \in Relays, NEW f \in Events
               PROVE  /\ mark'[q][f] = "PUBLISHED" =>
                           /\ TypeOf[f] \in Handled[KindOf[q]]
                           /\ effects'[f][KindOf[q]] # 0
                      /\ mark'[q][f] = "FAILED" => attempts'[f] + 1 < MaxAttempts
                      /\ mark'[q][f] = "SKIPPED" =>
                           \/ attempts'[f] + 1 = MaxAttempts
                           \/ TypeOf[f] \notin Handled[KindOf[q]]
    BY DEF MarksJustified
  <2>1. CASE q = r /\ f = e
    <3>1. mark'[q][f] = m
      BY <2>1 DEF TypeOK
    <3> QED BY <2>1, <3>1
  <2>2. CASE ~(q = r /\ f = e)
    <3>1. mark'[q][f] = mark[q][f]
      BY <2>2 DEF TypeOK
    <3>2. KindOf[q] \in Kinds
      OBVIOUS
    <3> QED BY <3>1, <3>2 DEF MarksJustified
  <2> QED BY <2>1, <2>2
<1>5. PublishedMeansHandled'
  BY DEF PublishedMeansHandled
<1> QED BY <1>1, <1>2, <1>3, <1>4, <1>5

(* Ending a transaction without writing statuses: the locks and the marks  *)
(* go, everything else stays.                                              *)
LEMMA AbortKeepsInv ==
  ASSUME OutboxInv, NEW r \in Relays, Abort(r)
  PROVE  OutboxInv'
BY OutboxAssumption
   DEF Abort, OutboxInv, TypeOK, NoMarks, Marks, ClaimsExclusive, ClaimsAreOwn,
       MarksJustified, AttemptsBelowMax, PublishedMeansHandled, EffectOnce,
       ParkedOnlyWhenExhausted

(* SKIP LOCKED: a claim takes only rows that no other relay holds.         *)
LEMMA ClaimKeepsInv ==
  ASSUME OutboxInv, NEW r \in Relays, Claim(r)
  PROVE  OutboxInv'
<1>1. PICK batch \in SUBSET Claimable(r) :
         /\ claim' = [claim EXCEPT ![r] = batch]
         /\ UNCHANGED <<status, attempts, due, mark, effects, aborts>>
  BY DEF Claim
<1>2. /\ batch \subseteq Events
      /\ \A e \in batch : /\ status[e] \in {"PENDING", "FAILED"}
                          /\ TypeOf[e] \in ShardOf[KindOf[r]]
                          /\ \A q \in Relays : e \notin claim[q]
  BY DEF Claimable
<1>3. TypeOK'
  BY <1>1, <1>2 DEF OutboxInv, TypeOK
<1>4. ClaimsExclusive'
  BY <1>1, <1>2 DEF OutboxInv, TypeOK, ClaimsExclusive
<1>5. ClaimsAreOwn'
  <2>1. claim[r] = {}
    BY DEF Claim
  <2> QED BY <1>1, <1>2, <2>1 DEF OutboxInv, TypeOK, ClaimsAreOwn
<1>6. /\ MarksJustified' /\ AttemptsBelowMax' /\ PublishedMeansHandled'
      /\ EffectOnce' /\ ParkedOnlyWhenExhausted'
  BY <1>1 DEF OutboxInv, MarksJustified, AttemptsBelowMax, PublishedMeansHandled,
              EffectOnce, ParkedOnlyWhenExhausted
<1> QED BY <1>3, <1>4, <1>5, <1>6 DEF OutboxInv

(* A commit turns the marks of one claim into statuses; no other relay     *)
(* holds those rows, so no other mark loses its justification.             *)
LEMMA CommitKeepsInv ==
  ASSUME OutboxInv, NEW r \in Relays, Commit(r)
  PROVE  OutboxInv'
<1> USE OutboxAssumption DEF OutboxInv
<1>1. \A e \in Events : e \in claim[r] => mark[r][e] \in Marks \ {"none"}
  BY DEF Commit, Unprocessed, TypeOK
<1>2. \A e \in Events : e \notin claim[r] =>
         status'[e] = status[e] /\ attempts'[e] = attempts[e]
  BY DEF Commit
<1>3. \A e \in Events : e \in claim[r] =>
         /\ status'[e] = mark[r][e]
         /\ attempts'[e] = IF mark[r][e] = "FAILED" THEN attempts[e] + 1 ELSE attempts[e]
  BY DEF Commit
<1>4. /\ effects' = effects
      /\ claim' = [claim EXCEPT ![r] = {}]
      /\ mark' = [mark EXCEPT ![r] = NoMarks]
  BY DEF Commit
<1>5. TypeOK'
  <2>1. status' \in [Events -> Statuses]
    BY <1>1 DEF Commit, TypeOK, Statuses, Marks
  <2>2. attempts' \in [Events -> Nat]
    BY DEF Commit, TypeOK
  <2>3. due' \in [Events -> BOOLEAN]
    <3>1. \A e \in Events : (IF e \in claim[r] THEN FALSE ELSE due[e]) \in BOOLEAN
      BY DEF TypeOK
    <3> QED BY <3>1, Zenon DEF Commit
  <2>4. claim' \in [Relays -> SUBSET Events] /\ mark' \in [Relays -> [Events -> Marks]]
    BY DEF Commit, TypeOK, NoMarks, Marks
  <2> QED BY <2>1, <2>2, <2>3, <2>4 DEF Commit, TypeOK
<1>6. ClaimsExclusive'
  BY <1>4 DEF ClaimsExclusive, TypeOK
<1>7. \A q \in Relays, e \in Events :
         /\ e \in claim'[q] => e \notin claim[r] /\ e \in claim[q]
         /\ mark'[q][e] # "none" => e \in claim'[q] /\ mark'[q][e] = mark[q][e]
  BY <1>4 DEF ClaimsExclusive, ClaimsAreOwn, TypeOK, NoMarks
<1>8. ClaimsAreOwn'
  BY <1>2, <1>7 DEF ClaimsAreOwn
<1>9. MarksJustified'
  <2> SUFFICES ASSUME NEW q \in Relays, NEW e \in Events, mark'[q][e] # "none"
               PROVE  /\ mark'[q][e] = "PUBLISHED" =>
                           /\ TypeOf[e] \in Handled[KindOf[q]]
                           /\ effects'[e][KindOf[q]] # 0
                      /\ mark'[q][e] = "FAILED" => attempts'[e] + 1 < MaxAttempts
                      /\ mark'[q][e] = "SKIPPED" =>
                           \/ attempts'[e] + 1 = MaxAttempts
                           \/ TypeOf[e] \notin Handled[KindOf[q]]
    BY DEF MarksJustified
  <2>1. mark'[q][e] = mark[q][e] /\ attempts'[e] = attempts[e]
    BY <1>2, <1>7
  <2> QED BY <1>4, <2>1 DEF MarksJustified
<1>10. AttemptsBelowMax'
  <2> SUFFICES ASSUME NEW e \in Events
               PROVE  attempts'[e] \in 0..(MaxAttempts - 1)
    BY DEF AttemptsBelowMax
  <2>1. attempts[e] \in 0..(MaxAttempts - 1)
    BY DEF AttemptsBelowMax
  <2>2. CASE e \in claim[r] /\ mark[r][e] = "FAILED"
    <3>1. attempts'[e] = attempts[e] + 1 /\ attempts[e] + 1 < MaxAttempts
      BY <2>2, <1>3 DEF MarksJustified
    <3> QED BY <2>1, <3>1
  <2>3. CASE ~(e \in claim[r] /\ mark[r][e] = "FAILED")
    BY <2>1, <2>3, <1>2, <1>3
  <2> QED BY <2>2, <2>3
<1>11. PublishedMeansHandled'
  <2> SUFFICES ASSUME NEW e \in Events, status'[e] = "PUBLISHED"
               PROVE  \E k \in Kinds : /\ TypeOf[e] \in ShardOf[k] \cap Handled[k]
                                       /\ effects'[e][k] # 0
    BY DEF PublishedMeansHandled
  <2>1. CASE e \in claim[r]
    BY <2>1, <1>3, <1>4 DEF ClaimsAreOwn, MarksJustified
  <2>2. CASE e \notin claim[r]
    BY <2>2, <1>2, <1>4 DEF PublishedMeansHandled
  <2> QED BY <2>1, <2>2
<1>12. ParkedOnlyWhenExhausted'
  <2> SUFFICES ASSUME NEW e \in Events
               PROVE  /\ status'[e] = "SKIPPED" =>
                           \/ attempts'[e] + 1 = MaxAttempts
                           \/ \E k \in Kinds : TypeOf[e] \in ShardOf[k] \ Handled[k]
                      /\ status'[e] = "FAILED" => attempts'[e] \in 1..(MaxAttempts - 1)
    BY DEF ParkedOnlyWhenExhausted
  <2>1. CASE e \in claim[r]
    BY <2>1, <1>3 DEF ClaimsAreOwn, MarksJustified, AttemptsBelowMax, TypeOK
  <2>2. CASE e \notin claim[r]
    BY <2>2, <1>2 DEF ParkedOnlyWhenExhausted
  <2> QED BY <2>1, <2>2
<1>13. EffectOnce'
  BY <1>4 DEF EffectOnce
<1> QED BY <1>5, <1>6, <1>8, <1>9, <1>10, <1>11, <1>12, <1>13

(* Every step of the outbox preserves the invariant.                       *)
LEMMA NextKeepsInv == OutboxInv /\ [Next]_vars => OutboxInv'
<1> SUFFICES ASSUME OutboxInv, [Next]_vars PROVE OutboxInv'
  OBVIOUS
<1>1. ASSUME NEW e \in Events, EmitEvent(e) PROVE OutboxInv'
  <2>1. TypeOK'
    BY <1>1 DEF EmitEvent, OutboxInv, TypeOK, Statuses
  <2>2. \A f \in Events : status'[f] # status[f] =>
           status[f] = "absent" /\ status'[f] = "PENDING"
    BY <1>1 DEF EmitEvent, OutboxInv, TypeOK
  <2>3. UNCHANGED <<attempts, claim, mark, effects>>
    BY <1>1 DEF EmitEvent
  <2>4. ClaimsAreOwn'
    BY <2>2, <2>3 DEF OutboxInv, ClaimsAreOwn
  <2>5. ClaimsExclusive' /\ MarksJustified' /\ AttemptsBelowMax' /\ EffectOnce'
    BY <2>3 DEF OutboxInv, ClaimsExclusive, MarksJustified, AttemptsBelowMax, EffectOnce
  <2>6. PublishedMeansHandled' /\ ParkedOnlyWhenExhausted'
    BY <2>2, <2>3 DEF OutboxInv, PublishedMeansHandled, ParkedOnlyWhenExhausted
  <2> QED BY <2>1, <2>4, <2>5, <2>6 DEF OutboxInv
<1>2. ASSUME NEW e \in Events, BackoffElapses(e) PROVE OutboxInv'
  <2>1. TypeOK'
    BY <1>2 DEF BackoffElapses, OutboxInv, TypeOK
  <2> QED BY <1>2, <2>1 DEF BackoffElapses, OutboxInv, ClaimsExclusive, ClaimsAreOwn,
              MarksJustified, AttemptsBelowMax, PublishedMeansHandled, EffectOnce,
              ParkedOnlyWhenExhausted
<1>3. ASSUME NEW r \in Relays, Claim(r) PROVE OutboxInv'
  BY <1>3, ClaimKeepsInv
<1>4. ASSUME NEW r \in Relays, NEW e \in Events, SkipUnhandled(r, e) PROVE OutboxInv'
  <2>1. /\ mark' = [mark EXCEPT ![r][e] = "SKIPPED"]
        /\ e \in Unprocessed(r)
        /\ TypeOf[e] \notin Handled[KindOf[r]]
        /\ UNCHANGED <<status, attempts, due, claim, effects, aborts>>
    BY <1>4 DEF SkipUnhandled
  <2>2. effects' \in [Events -> [Kinds -> Nat]] /\ EffectOnce'
    BY <2>1 DEF OutboxInv, TypeOK, EffectOnce
  <2> QED BY <2>1, <2>2, MarkKeepsInv DEF Marks
<1>5. ASSUME NEW r \in Relays, NEW e \in Events, HandleOk(r, e) PROVE OutboxInv'
  <2>1. /\ mark' = [mark EXCEPT ![r][e] = "PUBLISHED"]
        /\ e \in Unprocessed(r)
        /\ TypeOf[e] \in Handled[KindOf[r]]
        /\ InsertOnce(e, KindOf[r])
        /\ UNCHANGED <<status, attempts, due, claim, aborts>>
    BY <1>5 DEF HandleOk
  <2>2. KindOf[r] \in Kinds
    BY OutboxAssumption
  <2>3. /\ effects' \in [Events -> [Kinds -> Nat]]
        /\ EffectOnce'
        /\ effects'[e][KindOf[r]] = 1
        /\ \A f \in Events, l \in Kinds : effects[f][l] # 0 => effects'[f][l] # 0
    BY <2>1, <2>2, InsertOnceEffect DEF OutboxInv, TypeOK
  <2>4. "PUBLISHED" \in Marks \ {"none"} /\ effects'[e][KindOf[r]] # 0
    BY <2>3 DEF Marks
  <2> QED BY <2>1, <2>3, <2>4, MarkKeepsInv
<1>6. ASSUME NEW r \in Relays, NEW e \in Events, HandleErr(r, e) PROVE OutboxInv'
  <2> DEFINE m == IF attempts[e] + 1 >= MaxAttempts THEN "SKIPPED" ELSE "FAILED"
  <2>1. /\ mark' = [mark EXCEPT ![r][e] = m]
        /\ e \in Unprocessed(r)
        /\ InsertOnce(e, KindOf[r]) \/ UNCHANGED effects
        /\ UNCHANGED <<status, attempts, due, claim, aborts>>
    BY <1>6 DEF HandleErr
  <2>2. KindOf[r] \in Kinds
    BY OutboxAssumption
  <2>3. /\ effects' \in [Events -> [Kinds -> Nat]]
        /\ EffectOnce'
        /\ \A f \in Events, l \in Kinds : effects[f][l] # 0 => effects'[f][l] # 0
    <3>1. CASE InsertOnce(e, KindOf[r])
      BY <3>1, <2>2, InsertOnceEffect DEF OutboxInv, TypeOK
    <3>2. CASE UNCHANGED effects
      BY <3>2 DEF OutboxInv, TypeOK, EffectOnce
    <3> QED BY <2>1, <3>1, <3>2
  <2>4. /\ m \in Marks \ {"none"}
        /\ m # "PUBLISHED"
        /\ m = "FAILED" => attempts[e] + 1 < MaxAttempts
        /\ m = "SKIPPED" => attempts[e] + 1 = MaxAttempts
    <3>1. attempts[e] \in 0..(MaxAttempts - 1)
      BY DEF OutboxInv, AttemptsBelowMax
    <3> QED BY <3>1, OutboxAssumption DEF Marks
  <2> HIDE DEF m
  <2> QED BY <2>1, <2>3, <2>4, MarkKeepsInv
<1>7. ASSUME NEW r \in Relays, Commit(r) PROVE OutboxInv'
  BY <1>7, CommitKeepsInv
<1>8. ASSUME NEW r \in Relays, Abort(r) PROVE OutboxInv'
  BY <1>8, AbortKeepsInv
<1>9. CASE UNCHANGED vars
  BY <1>9 DEF vars, OutboxInv, TypeOK, ClaimsExclusive, ClaimsAreOwn, MarksJustified,
              AttemptsBelowMax, PublishedMeansHandled, EffectOnce,
              ParkedOnlyWhenExhausted
<1> QED BY <1>1, <1>2, <1>3, <1>4, <1>5, <1>6, <1>7, <1>8, <1>9 DEF Next, ProcessOne

(* OutboxInv holds in every reachable state.                               *)
THEOREM OutboxInvariant == Spec => []OutboxInv
BY InitOutboxInv, NextKeepsInv, PTL DEF Spec

(* Type correctness of the outbox.                                         *)
THEOREM TypeCorrect == Spec => []TypeOK
<1>1. OutboxInv => TypeOK
  BY DEF OutboxInv
<1> QED BY <1>1, OutboxInvariant, PTL

(* FOR UPDATE SKIP LOCKED: no row is ever in two open relay transactions.  *)
THEOREM ClaimsAreExclusive == Spec => []ClaimsExclusive
<1>1. OutboxInv => ClaimsExclusive
  BY DEF OutboxInv
<1> QED BY <1>1, OutboxInvariant, PTL

(* A row marked PUBLISHED was handled by a relay that owns its type, in    *)
(* spite of aborted transactions and replays.                              *)
THEOREM PublishedWasHandled == Spec => []PublishedMeansHandled
<1>1. OutboxInv => PublishedMeansHandled
  BY DEF OutboxInv
<1> QED BY <1>1, OutboxInvariant, PTL

(* A replayed event takes effect once per kind of handler.                 *)
THEOREM EffectsAreOnce == Spec => []EffectOnce
<1>1. OutboxInv => EffectOnce
  BY DEF OutboxInv
<1> QED BY <1>1, OutboxInvariant, PTL

(* No row is parked before its attempts are used up, unless its relay does *)
(* not handle its type; the retry counter stays within its limit.          *)
THEOREM ParkedWhenExhausted == Spec => []ParkedOnlyWhenExhausted
<1>1. OutboxInv => ParkedOnlyWhenExhausted
  BY DEF OutboxInv
<1> QED BY <1>1, OutboxInvariant, PTL

(* The four together, through any interleaving of relays, aborts, retries  *)
(* and replays.                                                            *)
THEOREM DeliverySound == Spec => []DeliveryIsSound
<1>1. OutboxInv => DeliveryIsSound
  BY DEF OutboxInv, DeliveryIsSound
<1> QED BY <1>1, OutboxInvariant, PTL

(* The condition that fms-jobs must meet and does not: no type in the      *)
(* shards of two kinds.  It is sufficient for every subscribed handler to  *)
(* see every published event.                                              *)
THEOREM DisjointShardsServeAll ==
  ASSUME \A k, l \in Kinds : k # l => ShardOf[k] \cap ShardOf[l] = {}
  PROVE  Spec => []AllConsumersServed
<1>1. OutboxInv => AllConsumersServed
  BY DEF OutboxInv, PublishedMeansHandled, AllConsumersServed
<1> QED BY <1>1, OutboxInvariant, PTL

-----------------------------------------------------------------------------
(* A step changes a settled row in no way: only Commit writes statuses,    *)
(* and it writes only rows of a claim, which are unsettled.                *)
LEMMA StepKeepsSettled ==
  ASSUME OutboxInv, [Next]_vars, NEW e \in Events,
         status[e] \in {"PUBLISHED", "SKIPPED"}
  PROVE  status'[e] = status[e] /\ attempts'[e] = attempts[e]
<1>1. ASSUME NEW f \in Events, EmitEvent(f)
      PROVE  status'[e] = status[e] /\ attempts'[e] = attempts[e]
  BY <1>1 DEF EmitEvent, OutboxInv, TypeOK
<1>2. ASSUME NEW r \in Relays, Commit(r)
      PROVE  status'[e] = status[e] /\ attempts'[e] = attempts[e]
  <2>1. e \notin claim[r]
    BY DEF OutboxInv, ClaimsAreOwn
  <2> QED BY <1>2, <2>1 DEF Commit
<1>3. CASE UNCHANGED <<status, attempts>>
  BY <1>3
<1> QED
  BY <1>1, <1>2, <1>3 DEF Next, ProcessOne, BackoffElapses, Claim, SkipUnhandled,
     HandleOk, HandleErr, Abort, vars

(* A settled row is never rewritten, in particular not by a relay that     *)
(* claimed it before another one committed.                                *)
THEOREM SettledRowsAreFinal == Spec => SettledIsFinal
<1>1. OutboxInv /\ [Next]_vars =>
        [\A e \in Events : status[e] \in {"PUBLISHED", "SKIPPED"}
           => status'[e] = status[e] /\ attempts'[e] = attempts[e]]_vars
  BY StepKeepsSettled
<1> QED BY <1>1, OutboxInvariant, PTL DEF Spec, SettledIsFinal

-----------------------------------------------------------------------------
(* The contract's outcome for each status.                                 *)
LEMMA OutcomeOfStatus ==
  /\ OutcomeOf("absent") = "absent"
  /\ OutcomeOf("PENDING") = "waiting"
  /\ OutcomeOf("FAILED") = "waiting"
  /\ OutcomeOf("PUBLISHED") = "published"
  /\ OutcomeOf("SKIPPED") = "parked"
BY DEF OutcomeOf

(* The initial state of the outbox is one of the delivery contract.        *)
LEMMA InitImplements == Init => Delivery!Init
BY OutcomeOfStatus DEF Init, Delivery!Init

(* A mark on one row is a step of the contract: the handler took effect on *)
(* a waiting event, or nothing visible happened.                           *)
LEMMA HandlerStepImplements ==
  ASSUME OutboxInv, NEW r \in Relays, NEW e \in Events, e \in claim[r],
         InsertOnce(e, KindOf[r]) \/ UNCHANGED effects,
         UNCHANGED status
  PROVE  [Delivery!Next]_(Delivery!vars)
<1>1. KindOf[r] \in Kinds
  BY OutboxAssumption
<1>2. CASE UNCHANGED effects
  BY <1>2 DEF Delivery!vars
<1>3. CASE InsertOnce(e, KindOf[r]) /\ effects[e][KindOf[r]] = 0
  <2>1. OutcomeOf(status[e]) = "waiting"
    BY OutcomeOfStatus DEF OutboxInv, ClaimsAreOwn, TypeOK
  <2>2. effects' = [effects EXCEPT ![e][KindOf[r]] = 1]
    BY <1>1, <1>3 DEF InsertOnce, OutboxInv, TypeOK
  <2>3. Delivery!TakeEffect(e, KindOf[r])
    BY <1>3, <2>1, <2>2 DEF Delivery!TakeEffect
  <2> QED BY <1>1, <2>3 DEF Delivery!Next
<1>4. CASE InsertOnce(e, KindOf[r]) /\ effects[e][KindOf[r]] # 0
  <2>1. effects' = effects
    BY <1>1, <1>4 DEF InsertOnce, OutboxInv, TypeOK
  <2> QED BY <2>1 DEF Delivery!vars
<1> QED BY <1>2, <1>3, <1>4

(* The commit of a relay settles the rows of its claim that were handled   *)
(* or given up; a row marked FAILED goes on waiting.                       *)
LEMMA CommitImplements ==
  ASSUME OutboxInv, NEW r \in Relays, Commit(r)
  PROVE  Delivery!Next
<1> DEFINE published == {e \in claim[r] : mark[r][e] = "PUBLISHED"}
           parked    == {e \in claim[r] : mark[r][e] = "SKIPPED"}
<1>1. \A e \in Events : e \in claim[r] =>
         /\ status[e] \in {"PENDING", "FAILED"}
         /\ mark[r][e] \in {"PUBLISHED", "FAILED", "SKIPPED"}
         /\ status'[e] = mark[r][e]
  BY DEF Commit, Unprocessed, OutboxInv, TypeOK, Marks, ClaimsAreOwn
<1>2. \A e \in Events : e \notin claim[r] => status'[e] = status[e]
  BY DEF Commit
<1>3. published \in SUBSET Events /\ parked \in SUBSET Events
  BY DEF OutboxInv, TypeOK
<1>4. \A e \in published : \E k \in Kinds : effects[e][k] = 1
  <2> SUFFICES ASSUME NEW e \in published
               PROVE  effects[e][KindOf[r]] = 1 /\ KindOf[r] \in Kinds
    OBVIOUS
  <2>1. e \in Events /\ KindOf[r] \in Kinds /\ mark[r][e] = "PUBLISHED"
    BY <1>3, OutboxAssumption
  <2>2. effects[e][KindOf[r]] \in Nat /\ effects[e][KindOf[r]] <= 1
    BY <2>1 DEF OutboxInv, TypeOK, EffectOnce
  <2>3. effects[e][KindOf[r]] # 0
    BY <2>1 DEF OutboxInv, MarksJustified
  <2> QED BY <2>1, <2>2, <2>3
<1>5. \A e \in Events :
         OutcomeOf(status'[e]) = IF e \in published THEN "published"
                                 ELSE IF e \in parked THEN "parked"
                                 ELSE OutcomeOf(status[e])
  <2> SUFFICES ASSUME NEW e \in Events
               PROVE  OutcomeOf(status'[e]) = IF e \in published THEN "published"
                                              ELSE IF e \in parked THEN "parked"
                                              ELSE OutcomeOf(status[e])
    OBVIOUS
  <2>1. CASE e \notin claim[r]
    BY <2>1, <1>2
  <2>2. CASE e \in claim[r] /\ mark[r][e] = "PUBLISHED"
    BY <2>2, <1>1, OutcomeOfStatus
  <2>3. CASE e \in claim[r] /\ mark[r][e] = "SKIPPED"
    BY <2>3, <1>1, OutcomeOfStatus
  <2>4. CASE e \in claim[r] /\ mark[r][e] = "FAILED"
    BY <2>4, <1>1, OutcomeOfStatus
  <2> QED BY <2>1, <2>2, <2>3, <2>4, <1>1
<1>6. \A e \in published \cup parked : OutcomeOf(status[e]) = "waiting"
  BY <1>1, <1>3, OutcomeOfStatus
<1>7. effects' = effects
  BY DEF Commit
<1>8. published \cap parked = {}
  OBVIOUS
<1> HIDE DEF published, parked
<1>9. Delivery!Settle(published, parked)
  BY <1>3, <1>4, <1>5, <1>6, <1>7, <1>8 DEF Delivery!Settle
<1> QED BY <1>3, <1>9 DEF Delivery!Next

(* Each step of the outbox is a step of the delivery contract or changes   *)
(* nothing that it sees.                                                   *)
LEMMA NextImplements ==
  OutboxInv /\ [Next]_vars => [Delivery!Next]_(Delivery!vars)
<1> SUFFICES ASSUME OutboxInv, [Next]_vars PROVE [Delivery!Next]_(Delivery!vars)
  OBVIOUS
<1>1. ASSUME NEW e \in Events, EmitEvent(e) PROVE Delivery!Next
  <2>1. /\ OutcomeOf(status[e]) = "absent"
        /\ effects' = effects
        /\ [f \in Events |-> OutcomeOf(status'[f])]
             = [[f \in Events |-> OutcomeOf(status[f])] EXCEPT ![e] = "waiting"]
    BY <1>1, OutcomeOfStatus DEF EmitEvent, OutboxInv, TypeOK
  <2>2. Delivery!Emit(e)
    BY <2>1 DEF Delivery!Emit
  <2> QED BY <2>2 DEF Delivery!Next
<1>2. ASSUME NEW r \in Relays, NEW e \in Events, HandleOk(r, e) \/ HandleErr(r, e)
      PROVE  [Delivery!Next]_(Delivery!vars)
  <2>1. /\ e \in claim[r]
        /\ InsertOnce(e, KindOf[r]) \/ UNCHANGED effects
        /\ UNCHANGED status
    BY <1>2 DEF HandleOk, HandleErr, Unprocessed
  <2> QED BY <2>1, HandlerStepImplements
<1>3. ASSUME NEW r \in Relays, Commit(r) PROVE Delivery!Next
  BY <1>3, CommitImplements
<1>4. CASE UNCHANGED <<status, effects>>
  BY <1>4 DEF Delivery!vars
<1> QED
  BY <1>1, <1>2, <1>3, <1>4
     DEF Next, ProcessOne, BackoffElapses, Claim, SkipUnhandled, Abort, vars

(* The relays with their claims, retries, aborts and replays implement the *)
(* delivery contract of EventDelivery.                                     *)
THEOREM OutboxImplementsDelivery == Spec => ImplementsDelivery
BY InitImplements, OutboxInvariant, NextImplements, PTL
   DEF Spec, ImplementsDelivery, Delivery!Spec

-----------------------------------------------------------------------------
(* Idempotency keys *)

(* An open request is the writer of its row, no response is stored there   *)
(* yet, and the other way round.                                           *)
OpenIsWriter ==
  \A r \in Requests :
     pc[r] \in Open <=> writer[PrimaryKey(r)] = r

WriterHasFreshRow ==
  \A p \in Rows : writer[p] # NoRequest =>
     PrimaryKey(writer[p]) = p /\ row[p] = NoRequest

(* A row stores the response of a request with its primary key; a request  *)
(* that is about to be replayed found such a row with its own body.        *)
RowIsOwn ==
  \A p \in Rows : row[p] # NoRequest => PrimaryKey(row[p]) = p

ReplayFoundRow ==
  \A r \in Requests : pc[r] = "replay" =>
     /\ row[PrimaryKey(r)] # NoRequest
     /\ BodyOf[row[PrimaryKey(r)]] = BodyOf[r]

(* Only a request that is done has an answer.                              *)
AnswerIsFinal ==
  \A r \in Requests : pc[r] # "done" => reply[r] = "none"

IdemInv ==
  /\ KeysTypeOK
  /\ AnswerIsFinal
  /\ OpenIsWriter
  /\ WriterHasFreshRow
  /\ RowIsOwn
  /\ ReplayFoundRow
  /\ OneWritePerKey
  /\ ReplayIsOfSameBody
  /\ ReplayIsOfSameUser
  /\ ReplayIsAuthorized

-----------------------------------------------------------------------------
(* Facts about primary keys: they index the rows, and equal keys mean the  *)
(* same user.                                                              *)
LEMMA PrimaryKeyFacts ==
  /\ \A r \in Requests : PrimaryKey(r) \in Rows
  /\ \A q, r \in Requests : PrimaryKey(q) = PrimaryKey(r) => UserOf[q] = UserOf[r]
BY DEF PrimaryKey, Rows

(* The empty system satisfies the invariant.                               *)
LEMMA InitIdemInv == KeysInit => IdemInv
BY IdempotencyAssumption, PrimaryKeyFacts
   DEF KeysInit, IdemInv, KeysTypeOK, AnswerIsFinal, OpenIsWriter, WriterHasFreshRow, RowIsOwn,
       ReplayFoundRow, OneWritePerKey, ReplayIsOfSameBody, ReplayIsOfSameUser,
        ReplayIsAuthorized,
       Answers, Open

(* What ReleaseRow(r) does to the rows: r gives up its own, nothing else.  *)
LEMMA ReleaseRowFacts ==
  ASSUME NEW r \in Requests, KeysTypeOK, OpenIsWriter, WriterHasFreshRow, ReleaseRow(r)
  PROVE  /\ writer' \in [Rows -> Requests \cup {NoRequest}]
         /\ \A p \in Rows : writer'[p] # r
         /\ \A p \in Rows : writer[p] # r => writer'[p] = writer[p]
         /\ \A p \in Rows : writer'[p] # NoRequest => writer'[p] = writer[p]
BY IdempotencyAssumption, PrimaryKeyFacts
   DEF ReleaseRow, KeysTypeOK, OpenIsWriter, WriterHasFreshRow

(* Every step preserves the invariant: one step per action, under it one   *)
(* for every conjunct that the action can disturb.                         *)
LEMMA StepIdemInv == IdemInv /\ [KeysNext]_keysVars => IdemInv'
<1> SUFFICES ASSUME IdemInv, [KeysNext]_keysVars
             PROVE  IdemInv'
  OBVIOUS
<1> USE IdempotencyAssumption, PrimaryKeyFacts
<1>0. /\ KeysTypeOK /\ AnswerIsFinal /\ OpenIsWriter /\ WriterHasFreshRow /\ RowIsOwn
      /\ ReplayFoundRow /\ OneWritePerKey
      /\ ReplayIsOfSameBody /\ ReplayIsOfSameUser /\ ReplayIsAuthorized
  BY DEF IdemInv
<1>1. ASSUME NEW r \in Requests, Post(r)
      PROVE  IdemInv'
  <2>1. KeysTypeOK'
    BY <1>0, <1>1 DEF Post, Goto, Answers, Open, bounds, KeysTypeOK
  <2>2. AnswerIsFinal'
    BY <1>0, <1>1 DEF Post, Goto, Answers, Open, KeysTypeOK, AnswerIsFinal
  <2>3. OpenIsWriter'
    BY <1>0, <1>1 DEF Post, Goto, Answers, Open, KeysTypeOK, OpenIsWriter
  <2>4. ReplayFoundRow'
    BY <1>0, <1>1 DEF Post, Goto, Answers, Open, KeysTypeOK, ReplayFoundRow
  <2>5. /\ WriterHasFreshRow' /\ RowIsOwn' /\ OneWritePerKey' /\ ReplayIsOfSameBody'
        /\ ReplayIsOfSameUser' /\ ReplayIsAuthorized'
    BY <1>0, <1>1 DEF Post, WriterHasFreshRow, RowIsOwn, OneWritePerKey,
       ReplayIsOfSameBody, ReplayIsOfSameUser, ReplayIsAuthorized
  <2>6. QED
    BY <2>1, <2>2, <2>3, <2>4, <2>5 DEF IdemInv
<1>2. ASSUME NEW r \in Requests, Begin(r)
      PROVE  IdemInv'
  <2>1. KeysTypeOK'
    BY <1>0, <1>2 DEF Begin, Goto, Answer, Answers, Open, bounds, KeysTypeOK
  <2>2. AnswerIsFinal'
    BY <1>0, <1>2 DEF Begin, Goto, Answer, Answers, Open, KeysTypeOK, AnswerIsFinal
  <2>3. OpenIsWriter'
    BY <1>0, <1>2 DEF Begin, Goto, Answer, Answers, Open, KeysTypeOK, OpenIsWriter
  <2>4. ReplayFoundRow'
    BY <1>0, <1>2 DEF Begin, Goto, Answer, Answers, Open, KeysTypeOK, ReplayFoundRow, SameBody
  <2>5. ReplayIsOfSameBody'
    BY <1>0, <1>2 DEF Begin, Goto, Answer, Answers, Open, KeysTypeOK, AnswerIsFinal,
       ReplayIsOfSameBody
  <2>6. ReplayIsAuthorized'
    BY <1>0, <1>2 DEF Begin, Goto, Answer, Answers, Open, KeysTypeOK, AnswerIsFinal,
       ReplayIsAuthorized
  <2>7. WriterHasFreshRow' /\ RowIsOwn' /\ OneWritePerKey' /\ ReplayIsOfSameUser'
    BY <1>0, <1>2 DEF Begin, WriterHasFreshRow, RowIsOwn, OneWritePerKey, ReplayIsOfSameUser
  <2>8. QED
    BY <2>1, <2>2, <2>3, <2>4, <2>5, <2>6, <2>7 DEF IdemInv
<1>3. ASSUME NEW r \in Requests, Insert(r)
      PROVE  IdemInv'
  <2>1. KeysTypeOK'
    BY <1>0, <1>3 DEF Insert, Goto, Answers, Open, bounds, KeysTypeOK
  <2>2. AnswerIsFinal'
    BY <1>0, <1>3 DEF Insert, Goto, Answers, Open, KeysTypeOK, AnswerIsFinal
  <2>3. OpenIsWriter'
    BY <1>0, <1>3 DEF Insert, Goto, Answers, Open, KeysTypeOK, OpenIsWriter
  <2>4. WriterHasFreshRow'
    BY <1>0, <1>3 DEF Insert, Goto, Answers, Open, KeysTypeOK, OpenIsWriter, WriterHasFreshRow
  <2>5. ReplayFoundRow'
    BY <1>0, <1>3 DEF Insert, Goto, Answers, Open, KeysTypeOK, ReplayFoundRow
  <2>6. /\ RowIsOwn' /\ OneWritePerKey' /\ ReplayIsOfSameBody'
        /\ ReplayIsOfSameUser' /\ ReplayIsAuthorized'
    BY <1>0, <1>3 DEF Insert, RowIsOwn, OneWritePerKey, ReplayIsOfSameBody,
       ReplayIsOfSameUser, ReplayIsAuthorized
  <2>7. QED
    BY <2>1, <2>2, <2>3, <2>4, <2>5, <2>6 DEF IdemInv
<1>4. ASSUME NEW r \in Requests, Authorize(r)
      PROVE  IdemInv'
  <2>1. KeysTypeOK'
    <3>1. checked' \in [Requests -> BOOLEAN]
      BY <1>0, <1>4, Zenon DEF Authorize, KeysTypeOK
    <3>2. QED
      BY <1>0, <1>4, <3>1, ReleaseRowFacts DEF Authorize, Goto, Answer, Answers, Open,
         bounds, KeysTypeOK
  <2>2. AnswerIsFinal'
    BY <1>0, <1>4, ReleaseRowFacts DEF Authorize, Goto, Answer, Answers, Open, KeysTypeOK,
       AnswerIsFinal
  <2>3. OpenIsWriter'
    BY <1>0, <1>4, ReleaseRowFacts DEF Authorize, Goto, Answer, Answers, Open, KeysTypeOK,
       OpenIsWriter
  <2>4. WriterHasFreshRow'
    BY <1>0, <1>4, ReleaseRowFacts DEF Authorize, Goto, Answer, Answers, Open, KeysTypeOK,
       OpenIsWriter, WriterHasFreshRow
  <2>5. ReplayFoundRow'
    BY <1>0, <1>4, ReleaseRowFacts DEF Authorize, Goto, Answer, Answers, Open, KeysTypeOK,
       ReplayFoundRow
  <2>6. ReplayIsOfSameBody'
    BY <1>0, <1>4, ReleaseRowFacts DEF Authorize, Goto, Answer, Answers, Open, KeysTypeOK,
       AnswerIsFinal, ReplayIsOfSameBody
  <2>7. ReplayIsAuthorized'
    BY <1>0, <1>4, ReleaseRowFacts DEF Authorize, Goto, Answer, Answers, Open, KeysTypeOK,
       AnswerIsFinal, ReplayIsAuthorized
  <2>8. RowIsOwn' /\ OneWritePerKey' /\ ReplayIsOfSameUser'
    BY <1>0, <1>4 DEF Authorize, RowIsOwn, OneWritePerKey, ReplayIsOfSameUser
  <2>9. QED
    BY <2>1, <2>2, <2>3, <2>4, <2>5, <2>6, <2>7, <2>8 DEF IdemInv
<1>5. ASSUME NEW r \in Requests, Replay(r)
      PROVE  IdemInv'
  <2>1. KeysTypeOK'
    <3>1. checked' \in [Requests -> BOOLEAN]
      BY <1>0, <1>5, Zenon DEF Replay, KeysTypeOK
    <3>2. pc' \in [Requests -> {"idle", "begin", "insert", "replay", "done"} \cup Open]
      <4>1. PICK s \in {"idle", "begin", "insert", "replay", "done"} \cup Open : pc' = [pc EXCEPT ![r] = s]
        BY <1>5 DEF Replay, Goto, Answer
      <4> QED BY <1>0, <4>1 DEF KeysTypeOK
    <3>3. reply' \in [Requests -> Answers \cup {"none"}]
      BY <1>0, <1>5 DEF Replay, Answer, Answers, KeysTypeOK
    <3>4. source' \in [Requests -> Requests \cup {NoRequest}]
      <4>1. row[PrimaryKey(r)] \in Requests \cup {NoRequest}
        BY <1>0, PrimaryKeyFacts DEF KeysTypeOK
      <4> QED BY <1>0, <1>5, <4>1 DEF Replay, KeysTypeOK
    <3>5. QED
      BY <1>0, <1>5, <3>1, <3>2, <3>3, <3>4 DEF Replay, bounds, KeysTypeOK
  <2>2. AnswerIsFinal'
    BY <1>0, <1>5 DEF Replay, Goto, Answer, Answers, Open, KeysTypeOK, AnswerIsFinal
  <2>3. OpenIsWriter'
    BY <1>0, <1>5 DEF Replay, Goto, Answer, Answers, Open, KeysTypeOK, OpenIsWriter
  <2>4. ReplayFoundRow'
    BY <1>0, <1>5 DEF Replay, Goto, Answer, Answers, Open, KeysTypeOK, ReplayFoundRow
  <2>5. ReplayIsOfSameBody'
    BY <1>0, <1>5 DEF Replay, Goto, Answer, Answers, Open, KeysTypeOK, AnswerIsFinal,
       ReplayIsOfSameBody, ReplayFoundRow
  <2>6. ReplayIsOfSameUser'
    BY <1>0, <1>5 DEF Replay, Goto, Answer, Answers, Open, KeysTypeOK, ReplayIsOfSameUser,
       ReplayFoundRow, RowIsOwn
  <2>7. ReplayIsAuthorized'
    BY <1>0, <1>5 DEF Replay, Goto, Answer, Answers, Open, KeysTypeOK, AnswerIsFinal,
       ReplayIsAuthorized
  <2>8. WriterHasFreshRow' /\ RowIsOwn' /\ OneWritePerKey'
    BY <1>0, <1>5 DEF Replay, WriterHasFreshRow, RowIsOwn, OneWritePerKey
  <2>9. QED
    BY <2>1, <2>2, <2>3, <2>4, <2>5, <2>6, <2>7, <2>8 DEF IdemInv
<1>6. ASSUME NEW r \in Requests, Refuse(r)
      PROVE  IdemInv'
  <2>1. KeysTypeOK'
    BY <1>0, <1>6, ReleaseRowFacts DEF Refuse, Goto, Answer, Answers, Open, bounds, KeysTypeOK
  <2>2. AnswerIsFinal'
    BY <1>0, <1>6, ReleaseRowFacts DEF Refuse, Goto, Answer, Answers, Open, KeysTypeOK,
       AnswerIsFinal
  <2>3. OpenIsWriter'
    BY <1>0, <1>6, ReleaseRowFacts DEF Refuse, Goto, Answer, Answers, Open, KeysTypeOK,
       OpenIsWriter
  <2>4. WriterHasFreshRow'
    BY <1>0, <1>6, ReleaseRowFacts DEF Refuse, Goto, Answer, Answers, Open, KeysTypeOK,
       OpenIsWriter, WriterHasFreshRow
  <2>5. ReplayFoundRow'
    BY <1>0, <1>6, ReleaseRowFacts DEF Refuse, Goto, Answer, Answers, Open, KeysTypeOK,
       ReplayFoundRow
  <2>6. ReplayIsOfSameBody'
    BY <1>0, <1>6, ReleaseRowFacts DEF Refuse, Goto, Answer, Answers, Open, KeysTypeOK,
       AnswerIsFinal, ReplayIsOfSameBody
  <2>7. ReplayIsAuthorized'
    BY <1>0, <1>6, ReleaseRowFacts DEF Refuse, Goto, Answer, Answers, Open, KeysTypeOK,
       AnswerIsFinal, ReplayIsAuthorized
  <2>8. RowIsOwn' /\ OneWritePerKey' /\ ReplayIsOfSameUser'
    BY <1>0, <1>6 DEF Refuse, RowIsOwn, OneWritePerKey, ReplayIsOfSameUser
  <2>9. QED
    BY <2>1, <2>2, <2>3, <2>4, <2>5, <2>6, <2>7, <2>8 DEF IdemInv
<1>7. ASSUME NEW r \in Requests, CommitKey(r)
      PROVE  IdemInv'
  <2>1. KeysTypeOK'
    <3>1. row[PrimaryKey(r)] = NoRequest
      BY <1>0, <1>7 DEF CommitKey, Open, OpenIsWriter, WriterHasFreshRow
    <3>2. writes[r] = 0
      BY <1>0, <3>1 DEF OneWritePerKey
    <3>3. writes' \in [Requests -> 0..1]
      BY <1>0, <1>7, <3>2 DEF CommitKey, KeysTypeOK
    <3>4. reply' \in [Requests -> Answers \cup {"none"}] /\ lost' \in Nat
      BY <1>0, <1>7 DEF CommitKey, Answer, Answers, KeysTypeOK
    <3>5. QED
      BY <1>0, <1>7, <3>3, <3>4, ReleaseRowFacts DEF CommitKey, Goto, Answer, Open, KeysTypeOK
  <2>2. AnswerIsFinal'
    BY <1>0, <1>7, ReleaseRowFacts DEF CommitKey, Goto, Answer, Answers, Open, KeysTypeOK,
       AnswerIsFinal
  <2>3. OpenIsWriter'
    BY <1>0, <1>7, ReleaseRowFacts DEF CommitKey, Goto, Answer, Answers, Open, KeysTypeOK,
       OpenIsWriter
  <2>4. WriterHasFreshRow'
    BY <1>0, <1>7, ReleaseRowFacts DEF CommitKey, Goto, Answer, Answers, Open, KeysTypeOK,
       OpenIsWriter, WriterHasFreshRow
  <2>5. RowIsOwn'
    BY <1>0, <1>7, ReleaseRowFacts DEF CommitKey, Goto, Answer, Answers, Open, KeysTypeOK, RowIsOwn
  <2>6. ReplayFoundRow'
    BY <1>0, <1>7, ReleaseRowFacts DEF CommitKey, Goto, Answer, Answers, Open, KeysTypeOK,
       ReplayFoundRow, OpenIsWriter, WriterHasFreshRow
  <2>7. OneWritePerKey'
    BY <1>0, <1>7, ReleaseRowFacts DEF CommitKey, Goto, Answer, Answers, Open, KeysTypeOK,
       OneWritePerKey, OpenIsWriter, WriterHasFreshRow
  <2>8. ReplayIsOfSameBody'
    BY <1>0, <1>7, ReleaseRowFacts DEF CommitKey, Goto, Answer, Answers, Open, KeysTypeOK,
       AnswerIsFinal, ReplayIsOfSameBody
  <2>9. ReplayIsAuthorized'
    BY <1>0, <1>7, ReleaseRowFacts DEF CommitKey, Goto, Answer, Answers, Open, KeysTypeOK,
       AnswerIsFinal, ReplayIsAuthorized
  <2>10. ReplayIsOfSameUser'
    BY <1>0, <1>7 DEF CommitKey, ReplayIsOfSameUser
  <2>11. QED
    BY <2>1, <2>2, <2>3, <2>4, <2>5, <2>6, <2>7, <2>8, <2>9, <2>10 DEF IdemInv
<1>8. ASSUME NEW r \in Requests, Crash(r)
      PROVE  IdemInv'
  <2>1. KeysTypeOK'
    BY <1>0, <1>8, ReleaseRowFacts DEF Crash, Goto, Answers, Open, bounds, KeysTypeOK
  <2>2. AnswerIsFinal'
    BY <1>0, <1>8, ReleaseRowFacts DEF Crash, Goto, Answers, Open, KeysTypeOK, AnswerIsFinal
  <2>3. OpenIsWriter'
    BY <1>0, <1>8, ReleaseRowFacts DEF Crash, Goto, Answers, Open, KeysTypeOK, OpenIsWriter
  <2>4. WriterHasFreshRow'
    BY <1>0, <1>8, ReleaseRowFacts DEF Crash, Goto, Answers, Open, KeysTypeOK, OpenIsWriter,
       WriterHasFreshRow
  <2>5. ReplayFoundRow'
    BY <1>0, <1>8, ReleaseRowFacts DEF Crash, Goto, Answers, Open, KeysTypeOK, ReplayFoundRow
  <2>6. /\ RowIsOwn' /\ OneWritePerKey' /\ ReplayIsOfSameBody'
        /\ ReplayIsOfSameUser' /\ ReplayIsAuthorized'
    BY <1>0, <1>8 DEF Crash, RowIsOwn, OneWritePerKey, ReplayIsOfSameBody,
       ReplayIsOfSameUser, ReplayIsAuthorized
  <2>7. QED
    BY <2>1, <2>2, <2>3, <2>4, <2>5, <2>6 DEF IdemInv
<1>9. ASSUME NEW u \in Users, ChangeRole(u)
      PROVE  IdemInv'
  BY <1>0, <1>9
     DEF IdemInv, ChangeRole, KeysTypeOK, AnswerIsFinal, OpenIsWriter, WriterHasFreshRow,
         RowIsOwn,
         ReplayFoundRow, OneWritePerKey, ReplayIsOfSameBody, ReplayIsOfSameUser,
         ReplayIsAuthorized
<1>10. ASSUME NEW p \in Rows, Expire(p)
       PROVE  IdemInv'
  BY <1>0, <1>10
     DEF IdemInv, Expire, KeysTypeOK, AnswerIsFinal, OpenIsWriter, WriterHasFreshRow, RowIsOwn,
         ReplayFoundRow, OneWritePerKey, ReplayIsOfSameBody, ReplayIsOfSameUser,
         ReplayIsAuthorized
<1>11. CASE UNCHANGED keysVars
  BY <1>0, <1>11
     DEF IdemInv, keysVars, bounds, KeysTypeOK, AnswerIsFinal, OpenIsWriter, WriterHasFreshRow,
         RowIsOwn,
         ReplayFoundRow, OneWritePerKey, ReplayIsOfSameBody, ReplayIsOfSameUser,
         ReplayIsAuthorized
<1>12. QED
  BY <1>1, <1>2, <1>3, <1>4, <1>5, <1>6, <1>7, <1>8, <1>9, <1>10, <1>11 DEF KeysNext, Serve

-----------------------------------------------------------------------------
(* The invariant holds in every reachable state.                           *)
THEOREM IdempotencyInvariant == KeysSpec => []IdemInv
BY InitIdemInv, StepIdemInv, PTL DEF KeysSpec

(* Type correctness: in particular no request commits its write twice.     *)
THEOREM KeysTyped == KeysSpec => []KeysTypeOK
BY IdempotencyInvariant, PTL DEF IdemInv

(* begin, the handler and complete in one transaction: under one key at most *)
(* one business write is committed, and the stored row is that write's.    *)
THEOREM OneWrite == KeysSpec => []OneWritePerKey
BY IdempotencyInvariant, PTL DEF IdemInv

(* begin compares request_hash: a replay answers the body it was stored for. *)
THEOREM ReplaySameBody == KeysSpec => []ReplayIsOfSameBody
BY IdempotencyInvariant, PTL DEF IdemInv

(* Migration 025 puts the user into the primary key: no response crosses   *)
(* from one user to another.                                               *)
THEOREM ReplaySameUser == KeysSpec => []ReplayIsOfSameUser
BY IdempotencyInvariant, PTL DEF IdemInv

(* PendingReplay::release comes after require_permission in every try.     *)
THEOREM ReplayAuthorized == KeysSpec => []ReplayIsAuthorized
BY IdempotencyInvariant, PTL DEF IdemInv

(* The three together.                                                      *)
THEOREM ReplayRightful == KeysSpec => []ReplayIsRightful
<1>1. IdemInv => ReplayIsRightful
  BY DEF IdemInv, ReplayIsRightful
<1>2. QED
  BY <1>1, IdempotencyInvariant, PTL

(* The promise of the header Idempotency-Key as a whole.                     *)
THEOREM KeysHonoured == KeysSpec => []KeysAreHonoured
<1>1. OneWritePerKey /\ ReplayIsRightful => KeysAreHonoured
  BY DEF KeysAreHonoured
<1>2. QED
  BY <1>1, OneWrite, ReplayRightful, PTL

(* Whoever holds an uncommitted key is at a point where it can still commit *)
(* or roll back: no crash and no refusal leaves a key locked.              *)
THEOREM KeysAreReleased == KeysSpec => []NoKeyLeftLocked
<1>1. IdemInv => NoKeyLeftLocked
  BY DEF IdemInv, KeysTypeOK, OpenIsWriter, WriterHasFreshRow, NoKeyLeftLocked
<1>2. QED
  BY <1>1, IdempotencyInvariant, PTL
-----------------------------------------------------------------------------
(* The keys implement the promise of module KeyPromise.                     *)

(* A request that is about to write has passed the permission check.          *)
AuthorizedIsChecked == \A r \in Requests : pc[r] = "authorized" => checked[r]

(* No step of another request, no crash and no change of roles takes the check *)
(* back: begin is the only step that does.                                  *)
LEMMA AuthorizedStaysChecked ==
  ASSUME KeysTypeOK, AuthorizedIsChecked, [KeysNext]_keysVars
  PROVE  AuthorizedIsChecked'
<1> USE DEF KeysTypeOK, AuthorizedIsChecked, Open, Goto, Answer
<1>1. ASSUME NEW r \in Requests, Post(r) \/ Begin(r) \/ Insert(r) \/ Refuse(r) \/ CommitKey(r) \/ Crash(r)
      PROVE  AuthorizedIsChecked'
  <2>1. \A q \in Requests : pc'[q] = "authorized" => q # r /\ pc[q] = "authorized"
    BY <1>1 DEF Post, Begin, Insert, Refuse, CommitKey, Crash
  <2>2. \A q \in Requests : q # r => checked'[q] = checked[q]
    BY <1>1 DEF Post, Begin, Insert, Refuse, CommitKey, Crash
  <2> QED BY <2>1, <2>2, Zenon DEF AuthorizedIsChecked
<1>2. ASSUME NEW r \in Requests, Authorize(r)
      PROVE  AuthorizedIsChecked'
  <2>1. \A q \in Requests : q # r => pc'[q] = pc[q] /\ checked'[q] = checked[q]
    BY <1>2 DEF Authorize
  <2>2. pc'[r] = "authorized" => allowed[UserOf[r]]
    BY <1>2 DEF Authorize
  <2>3. checked'[r] = allowed[UserOf[r]]
    BY <1>2, Zenon DEF Authorize
  <2> QED BY <2>1, <2>2, <2>3, Zenon DEF AuthorizedIsChecked
<1>3. ASSUME NEW r \in Requests, Replay(r)
      PROVE  AuthorizedIsChecked'
  <2>1. \A q \in Requests : q # r => pc'[q] = pc[q] /\ checked'[q] = checked[q]
    BY <1>3 DEF Replay
  <2>2. pc'[r] = "done"
    BY <1>3 DEF Replay
  <2> QED BY <2>1, <2>2, Zenon DEF AuthorizedIsChecked
<1>4. CASE (\E u \in Users : ChangeRole(u)) \/ (\E p \in Rows : Expire(p)) \/ UNCHANGED keysVars
  BY <1>4 DEF ChangeRole, Expire, keysVars
<1> QED
  BY <1>1, <1>2, <1>3, <1>4 DEF KeysNext, Serve

(* What the promise asks of the row of a request, in terms of its primary key. *)
LEMMA PromiseOfRow ==
  ASSUME NEW r \in Requests
  PROVE  /\ Promise!Free(r) <=> row[PrimaryKey(r)] = NoRequest
         /\ Promise!SameBody(r) <=> BodyOf[row[PrimaryKey(r)]] = BodyOf[r]
         /\ Promise!Permitted(r) <=> allowed[UserOf[r]]
         /\ [q \in Requests |-> PrimaryKey(q)][r] = PrimaryKey(r)
BY DEF Promise!Free, Promise!SameBody, Promise!Permitted

(* The empty table is one in which nobody has written.                       *)
LEMMA InitPromise == KeysInit => Promise!Init
BY DEF KeysInit, Promise!Init

(* Every step is a step of the promise or hidden: only the commit writes, and  *)
(* under a key nobody else has written; an answer says what is in the table.  *)
LEMMA NextPromise ==
  ASSUME IdemInv, AuthorizedIsChecked, [KeysNext]_keysVars
  PROVE  [Promise!Next]_(Promise!vars)
<1>0. /\ KeysTypeOK /\ AnswerIsFinal /\ OpenIsWriter /\ WriterHasFreshRow /\ ReplayFoundRow
  BY DEF IdemInv
<1>1. ASSUME NEW r \in Requests, pc[r] # "done" PROVE Promise!Unanswered(r)
  BY <1>0, <1>1 DEF AnswerIsFinal, Promise!Unanswered
<1>2. ASSUME NEW r \in Requests, Begin(r) PROVE Promise!Next
  <2>1. Promise!Unanswered(r)  BY <1>1, <1>2 DEF Begin
  <2>2. Promise!Check(r, FALSE)  BY <1>2 DEF Begin, Promise!Check
  <2>3. UNCHANGED <<row, source, allowed>>  BY <1>2 DEF Begin
  <2>4. CASE UNCHANGED reply
    BY <2>1, <2>2, <2>3, <2>4 DEF Promise!TryAgain, Promise!Next
  <2>5. CASE ~UNCHANGED reply
    <3>1. /\ row[PrimaryKey(r)] # NoRequest /\ BodyOf[row[PrimaryKey(r)]] # BodyOf[r]
          /\ reply' = [reply EXCEPT ![r] = "key_reused"]
      BY <1>2, <2>5 DEF Begin, SameBody, Answer
    <3>2. Promise!RefuseReuse(r)
      BY <2>1, <2>2, <2>3, <3>1, PromiseOfRow DEF Promise!RefuseReuse, Promise!Answer
    <3> QED BY <3>2 DEF Promise!Next
  <2> QED BY <2>4, <2>5
<1>3. ASSUME NEW r \in Requests, Authorize(r) PROVE Promise!Next
  <2>1. Promise!Unanswered(r)  BY <1>1, <1>3 DEF Authorize
  <2>2. UNCHANGED <<row, source, allowed>>  BY <1>3 DEF Authorize
  <2>3. CASE allowed[UserOf[r]] = TRUE
    <3>1. Promise!Check(r, TRUE) /\ UNCHANGED reply  BY <1>3, <2>3 DEF Authorize, Promise!Check
    <3>2. Promise!Clear(r)  BY <2>1, <2>2, <2>3, <3>1, PromiseOfRow DEF Promise!Clear
    <3> QED BY <3>2 DEF Promise!Next
  <2>4. CASE allowed[UserOf[r]] = FALSE
    <3>1. Promise!Check(r, FALSE) /\ Promise!Answer(r, "denied")
      BY <1>3, <2>1, <2>4 DEF Authorize, Answer, Promise!Check, Promise!Answer
    <3>2. Promise!Deny(r)  BY <2>2, <2>4, <3>1, PromiseOfRow DEF Promise!Deny
    <3> QED BY <3>2 DEF Promise!Next
  <2>5. UserOf[r] \in Users  BY IdempotencyAssumption
  <2> QED BY <1>0, <2>3, <2>4, <2>5 DEF KeysTypeOK
<1>4. ASSUME NEW r \in Requests, Replay(r) PROVE Promise!Next
  <2>1. Promise!Unanswered(r)  BY <1>1, <1>4 DEF Replay
  <2>2. UNCHANGED <<row, allowed>>  BY <1>4 DEF Replay
  <2>3. CASE allowed[UserOf[r]] = TRUE
    <3>1. Promise!Check(r, TRUE) /\ Promise!Answer(r, "replayed")
      BY <1>4, <2>1, <2>3 DEF Replay, Answer, Promise!Check, Promise!Answer
    <3>2. row[PrimaryKey(r)] # NoRequest /\ BodyOf[row[PrimaryKey(r)]] = BodyOf[r]
      BY <1>0, <1>4 DEF Replay, ReplayFoundRow
    <3>3. source' = [source EXCEPT ![r] = row[PrimaryKey(r)]]
      BY <1>4, <2>3 DEF Replay
    <3>4. Promise!TellAgain(r)
      BY <2>2, <2>3, <3>1, <3>2, <3>3, PromiseOfRow DEF Promise!TellAgain
    <3> QED BY <3>4 DEF Promise!Next
  <2>4. CASE allowed[UserOf[r]] = FALSE
    <3>1. Promise!Check(r, FALSE) /\ Promise!Answer(r, "denied") /\ UNCHANGED source
      BY <1>4, <2>1, <2>4 DEF Replay, Answer, Promise!Check, Promise!Answer
    <3>2. Promise!Deny(r)  BY <2>2, <2>4, <3>1, PromiseOfRow DEF Promise!Deny
    <3> QED BY <3>2 DEF Promise!Next
  <2>5. UserOf[r] \in Users  BY IdempotencyAssumption
  <2> QED BY <1>0, <2>3, <2>4, <2>5 DEF KeysTypeOK
<1>5. ASSUME NEW r \in Requests, pc[r] \in Open PROVE row[PrimaryKey(r)] = NoRequest
  BY <1>0, <1>5, PrimaryKeyFacts, IdempotencyAssumption DEF OpenIsWriter, WriterHasFreshRow
<1>6. ASSUME NEW r \in Requests, Refuse(r) PROVE Promise!Next
  <2>1. Promise!Unanswered(r)  BY <1>1, <1>6 DEF Refuse
  <2>2. row[PrimaryKey(r)] = NoRequest  BY <1>5, <1>6 DEF Refuse, Open
  <2>3. Promise!Fail(r)
    BY <1>6, <2>1, <2>2, PromiseOfRow DEF Refuse, Answer, Promise!Fail, Promise!Answer
  <2> QED BY <2>3 DEF Promise!Next
<1>7. ASSUME NEW r \in Requests, CommitKey(r) PROVE Promise!Next
  <2>1. Promise!Unanswered(r)  BY <1>1, <1>7 DEF CommitKey
  <2>2. row[PrimaryKey(r)] = NoRequest  BY <1>5, <1>7 DEF CommitKey, Open
  <2>3. checked[r]  BY <1>7 DEF CommitKey, AuthorizedIsChecked
  <2>4. /\ row' = [row EXCEPT ![PrimaryKey(r)] = r] /\ UNCHANGED <<source, allowed, checked>>
        /\ reply' = [reply EXCEPT ![r] = "created"] \/ UNCHANGED reply
    BY <1>7 DEF CommitKey, Answer
  <2>5. Promise!Write(r)
    BY <2>1, <2>2, <2>3, <2>4, PromiseOfRow DEF Promise!Write, Promise!Answer
  <2> QED BY <2>5 DEF Promise!Next
<1>8. ASSUME NEW u \in Users, ChangeRole(u) PROVE Promise!Next
  BY <1>8 DEF ChangeRole, Promise!ChangeRole, Promise!Next
<1>9. CASE \/ \E r \in Requests : Post(r) \/ Insert(r) \/ Crash(r)
           \/ \E p \in Rows : Expire(p)
           \/ UNCHANGED keysVars
  BY <1>9 DEF Post, Insert, Crash, Expire, keysVars, Promise!vars
<1> QED
  BY <1>2, <1>3, <1>4, <1>6, <1>7, <1>8, <1>9 DEF KeysNext, Serve

(* begin, the handlers and complete keep the promise of the key, whatever is     *)
(* sent again, lost, revoked or expired.                                     *)
THEOREM KeysImplementPromise == KeysSpec => ImplementsPromise
<1>1. KeysInit => AuthorizedIsChecked
  BY DEF KeysInit, AuthorizedIsChecked
<1>2. IdemInv /\ AuthorizedIsChecked /\ [KeysNext]_keysVars => AuthorizedIsChecked'
  BY AuthorizedStaysChecked DEF IdemInv
<1>3. KeysSpec => []AuthorizedIsChecked
  BY <1>1, <1>2, IdempotencyInvariant, PTL DEF KeysSpec
<1> QED
  BY <1>3, InitPromise, NextPromise, IdempotencyInvariant, PTL
     DEF KeysSpec, ImplementsPromise, Promise!Spec
=============================================================================
