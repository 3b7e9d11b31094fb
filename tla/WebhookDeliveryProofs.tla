------------------------ MODULE WebhookDeliveryProofs ------------------------
(***************************************************************************)
(* The books of the webhook loop for any rows, subscriptions, dispatchers  *)
(* and limits: what a round has not committed is confined to the rows it   *)
(* locks, and what it holds of a subscription never turns it on.           *)
(***************************************************************************)
EXTENDS WebhookDelivery, WellFoundedInduction, TLAPS

(* A round confines itself to rows it locks, and what it will write is true.   *)
RoundInv(w) ==
  /\ phase[w] = "idle" => reply[w] = NoReply /\ mark[w] = NoMarks
  /\ toSend[w] \subseteq locked[w]
  /\ reply[w] # NoReply => reply[w].row \in locked[w]
  /\ reply[w].result = "ok" => accepted[reply[w].row] > 0
  /\ \A n \in Rows :
       /\ mark[w][n] # "none" => n \in locked[w]
       /\ mark[w][n] = "SENT" => accepted[n] > 0
       /\ mark[w][n] = "FAILED" => attempts[n] + 1 < MaxAttempts

BelowThreshold(r) == r.active => r.failures < MaxFailures

SubInv(s) ==
  /\ pending[s].active => sub[s].active
  /\ upserts = 0 => BelowThreshold(sub[s]) /\ BelowThreshold(pending[s])

IInv ==
  /\ TypeOK
  /\ RowLocksExclusive
  /\ SentWasAccepted
  /\ \A w \in Workers : RoundInv(w)
  /\ \A s \in Subs : SubInv(s)

LEMMA InitIInv == Init => IInv
<1> SUFFICES ASSUME Init PROVE IInv
  OBVIOUS
<1>1. TypeOK
  BY WebhookAssumption DEF Init, TypeOK, Queued, Subscription, NoMarks
<1>2. RowLocksExclusive /\ SentWasAccepted
  BY DEF Init, RowLocksExclusive, SentWasAccepted
<1>3. ASSUME NEW w \in Workers PROVE RoundInv(w)
  BY WebhookAssumption DEF Init, RoundInv, NoReply, NoMarks
<1>4. ASSUME NEW s \in Subs PROVE SubInv(s)
  BY WebhookAssumption DEF Init, SubInv, BelowThreshold
<1> QED BY <1>1, <1>2, <1>3, <1>4 DEF IInv

(* What the rounds, and what the rows and subscriptions, keep when the other is   *)
(* left alone.                                                                *)
LEMMA RoundsUnchanged ==
  ASSUME IInv, UNCHANGED <<attempts, roundVars>>, \A n \in Rows : accepted'[n] >= accepted[n],
         accepted' \in [Rows -> Nat]
  PROVE  RowLocksExclusive' /\ \A w \in Workers : RoundInv(w)'
<1>1. RowLocksExclusive'
  BY DEF IInv, RowLocksExclusive, roundVars
<1>2. ASSUME NEW w \in Workers PROVE RoundInv(w)'
  <2>1. \A n \in Rows : accepted[n] > 0 => accepted'[n] > 0
    BY DEF IInv, TypeOK
  <2>2. reply[w].result = "ok" => reply[w].row \in Rows
    BY DEF IInv, TypeOK, NoReply
  <2> QED BY <1>2, <2>1, <2>2 DEF IInv, RoundInv, roundVars, TypeOK
<1> QED BY <1>1, <1>2

LEMMA SubsUnchanged ==
  ASSUME IInv, UNCHANGED <<sub, pending, upserts>>
  PROVE  \A s \in Subs : SubInv(s)'
<1> QED BY DEF IInv, SubInv, BelowThreshold

LEMMA FanOutKeeps ==
  ASSUME IInv, NEW n \in Rows, FanOut(n)
  PROVE  IInv'
<1>1. TypeOK'
  BY DEF FanOut, IInv, TypeOK, Queued, roundVars
<1>2. SentWasAccepted'
  BY DEF FanOut, IInv, TypeOK, SentWasAccepted
<1>3. RowLocksExclusive' /\ \A w \in Workers : RoundInv(w)'
  BY RoundsUnchanged DEF FanOut, IInv, TypeOK
<1> QED BY <1>1, <1>2, <1>3, SubsUnchanged DEF FanOut, IInv

LEMMA BackoffKeeps ==
  ASSUME IInv, NEW n \in Rows, BackoffElapses(n)
  PROVE  IInv'
<1>1. TypeOK'
  BY DEF BackoffElapses, IInv, TypeOK, roundVars
<1>2. SentWasAccepted'
  BY DEF BackoffElapses, IInv, SentWasAccepted
<1>3. RowLocksExclusive' /\ \A w \in Workers : RoundInv(w)'
  BY RoundsUnchanged DEF BackoffElapses, IInv, TypeOK
<1> QED BY <1>1, <1>2, <1>3, SubsUnchanged DEF BackoffElapses, IInv

LEMMA UpsertKeeps ==
  ASSUME IInv, NEW s \in Subs, NEW active \in BOOLEAN, Upsert(s, active)
  PROVE  IInv'
<1>1. TypeOK'
  <2>1. /\ sub' \in [Subs -> Subscription]
        /\ pending' \in [Subs -> Subscription]
    <3>1. ASSUME NEW x \in Subscription PROVE [x EXCEPT !.active = active] \in Subscription
      BY DEF Subscription
    <3>2. sub \in [Subs -> Subscription] /\ pending \in [Subs -> Subscription]
      BY DEF IInv, TypeOK
    <3>3. [sub[s] EXCEPT !.active = active] \in Subscription /\ [pending[s] EXCEPT !.active = active] \in Subscription
      BY <3>1, <3>2
    <3>4. /\ sub' = [sub EXCEPT ![s].active = active]
          /\ pending' = [pending EXCEPT ![s].active = active]
      BY DEF Upsert
    <3> QED BY <3>2, <3>3, <3>4
  <2>2. upserts' \in 0..MaxUpserts
    BY WebhookAssumption DEF Upsert, IInv, TypeOK
  <2> QED BY <2>1, <2>2 DEF Upsert, IInv, TypeOK, rowVars, roundVars
<1>2. SentWasAccepted'
  BY DEF Upsert, IInv, SentWasAccepted, rowVars
<1>3. RowLocksExclusive' /\ \A w \in Workers : RoundInv(w)'
  BY RoundsUnchanged DEF Upsert, IInv, TypeOK, rowVars
<1>4. ASSUME NEW t \in Subs PROVE SubInv(t)'
  <2>1. upserts' # 0
    BY DEF Upsert, IInv, TypeOK
  <2>2. pending'[t].active => sub'[t].active
    BY DEF Upsert, IInv, TypeOK, SubInv, Subscription
  <2> QED BY <2>1, <2>2 DEF SubInv
<1> QED BY <1>1, <1>2, <1>3, <1>4 DEF IInv

LEMMA ClaimKeeps ==
  ASSUME IInv, NEW w \in Workers, Claim(w)
  PROVE  IInv'
<1>1. PICK batch \in SUBSET Claimable(w) :
           /\ locked' = [locked EXCEPT ![w] = batch]
           /\ toSend' = [toSend EXCEPT ![w] = batch]
  BY DEF Claim
<1>2. batch \subseteq Rows /\ \A n \in batch : ~LockedByOther(w, n)
  BY DEF Claimable
<1>3. TypeOK'
  BY <1>1, <1>2 DEF Claim, IInv, TypeOK, rowVars
<1>4. SentWasAccepted'
  BY DEF Claim, IInv, SentWasAccepted, rowVars
<1>5. RowLocksExclusive'
  BY <1>1, <1>2 DEF IInv, TypeOK, RowLocksExclusive, LockedByOther
<1>6. ASSUME NEW v \in Workers PROVE RoundInv(v)'
  <2>1. CASE v = w
    <3>1. reply[w] = NoReply /\ mark[w] = NoMarks
      BY DEF Claim, IInv, RoundInv
    <3> QED BY <1>1, <2>1, <3>1 DEF Claim, IInv, TypeOK, RoundInv, NoReply, NoMarks
  <2>2. CASE v # w
    BY <1>1, <2>2 DEF Claim, IInv, TypeOK, RoundInv, rowVars
  <2> QED BY <2>1, <2>2
<1> QED BY <1>3, <1>4, <1>5, <1>6, SubsUnchanged DEF Claim, IInv

(* A round that only moves on: its locks, its answer and its marks stay.           *)
LEMMA PhaseKeeps ==
  ASSUME IInv, NEW w \in Workers, NEW p \in {"claimed", "parking", "sending"},
         phase' = [phase EXCEPT ![w] = p], toPark' \in [Workers -> SUBSET Rows],
         UNCHANGED <<rowVars, sub, pending, holder, locked, toSend, reply, mark, accepted,
                     aborts, upserts>>
  PROVE  IInv'
<1>1. TypeOK'
  BY DEF IInv, TypeOK, rowVars
<1>2. SentWasAccepted' /\ RowLocksExclusive'
  BY DEF IInv, SentWasAccepted, RowLocksExclusive, rowVars
<1>3. ASSUME NEW v \in Workers PROVE RoundInv(v)'
  BY DEF IInv, TypeOK, RoundInv, rowVars
<1> QED BY <1>1, <1>2, <1>3, SubsUnchanged DEF IInv

LEMMA StartParkKeeps ==
  ASSUME IInv, NEW w \in Workers, StartPark(w)
  PROVE  IInv'
<1>1. toPark' \in [Workers -> SUBSET Rows]
  BY DEF StartPark, Parkable, IInv, TypeOK
<1> QED BY <1>1, PhaseKeeps DEF StartPark

LEMMA ParkDoneKeeps ==
  ASSUME IInv, NEW w \in Workers, ParkDone(w)
  PROVE  IInv'
<1>1. toPark' \in [Workers -> SUBSET Rows]
  BY DEF ParkDone, IInv, TypeOK
<1> QED BY <1>1, PhaseKeeps DEF ParkDone

LEMMA LeastElement ==
  ASSUME NEW S, S \subseteq Nat, S # {}
  PROVE  \E n \in S : \A m \in S : n <= m
<1>1. PICK n \in S : \A m \in S : <<m, n>> \notin OpToRel(<, Nat)
  <2> HIDE DEF OpToRel
  <2> QED BY NatLessThanWellFounded, WFMin
<1>2. \A m \in S : ~(m < n)
  BY <1>1 DEF OpToRel
<1> QED BY <1>2

LEMMA NextIsToPark ==
  ASSUME TypeOK, NEW w \in Workers, toPark[w] # {}
  PROVE  NextToPark(w) \in toPark[w]
<1> QED BY LeastElement, WebhookAssumption DEF TypeOK, NextToPark

(* The park statement takes a lock before it writes, and never one of another       *)
(* round.                                                                    *)
LEMMA ParkRowKeeps ==
  ASSUME IInv, NEW w \in Workers, ParkRow(w)
  PROVE  IInv'
<1> DEFINE n == NextToPark(w)
<1>1. /\ ~LockedByOther(w, n)
      /\ toPark' = [toPark EXCEPT ![w] = @ \ {n}]
      /\ \/ UNCHANGED <<locked, mark>>
         \/ /\ status[n] \in Queued
            /\ locked' = [locked EXCEPT ![w] = @ \cup {n}]
            /\ mark' = [mark EXCEPT ![w][n] = "SUPPRESSED"]
  BY DEF ParkRow
<1>2. /\ UNCHANGED <<rowVars, sub, pending, holder, phase, toSend, reply, accepted, aborts, upserts>>
      /\ phase[w] = "parking"
  BY DEF ParkRow
<1> HIDE DEF n
<1>3. SentWasAccepted'
  BY <1>2 DEF IInv, SentWasAccepted, rowVars
<1>4. toPark' \in [Workers -> SUBSET Rows]
  BY <1>1 DEF IInv, TypeOK
<1>5. CASE UNCHANGED <<locked, mark>>
  <2>1. phase' = [phase EXCEPT ![w] = "parking"]
    BY <1>2 DEF IInv, TypeOK
  <2> QED BY <1>2, <1>4, <1>5, <2>1, PhaseKeeps
<1>6. CASE /\ status[n] \in Queued
           /\ locked' = [locked EXCEPT ![w] = @ \cup {n}]
           /\ mark' = [mark EXCEPT ![w][n] = "SUPPRESSED"]
  <2>1. n \in Rows
    BY NextIsToPark DEF ParkRow, IInv, TypeOK, n
  <2>2. TypeOK'
    BY <1>2, <1>4, <1>6, <2>1 DEF IInv, TypeOK, rowVars
  <2>3. RowLocksExclusive'
    BY <1>1, <1>6 DEF IInv, TypeOK, RowLocksExclusive, LockedByOther
  <2>4. ASSUME NEW v \in Workers PROVE RoundInv(v)'
    <3>1. CASE v = w
      <4>1. locked'[w] = locked[w] \cup {n}
        BY <1>6 DEF IInv, TypeOK
      <4>2. \A m \in Rows : mark'[w][m] = IF m = n THEN "SUPPRESSED" ELSE mark[w][m]
        BY <1>6, <2>1 DEF IInv, TypeOK
      <4> QED BY <1>2, <3>1, <4>1, <4>2 DEF IInv, RoundInv, rowVars
    <3>2. CASE v # w
      <4>1. locked'[v] = locked[v] /\ mark'[v] = mark[v]
        BY <1>6, <3>2 DEF IInv, TypeOK
      <4> QED BY <1>2, <4>1 DEF IInv, RoundInv, rowVars
    <3> QED BY <3>1, <3>2
  <2> QED BY <1>2, <1>3, <2>2, <2>3, <2>4, SubsUnchanged DEF IInv
<1> QED BY <1>1, <1>5, <1>6

LEMMA DeliverKeeps ==
  ASSUME IInv, NEW w \in Workers, NEW n \in Rows, Deliver(w, n)
  PROVE  IInv'
<1>1. PICK result \in Replies :
           /\ reply' = [reply EXCEPT ![w] = [row |-> n, result |-> result]]
           /\ accepted' = IF result = "ok" THEN [accepted EXCEPT ![n] = @ + 1] ELSE accepted
  BY DEF Deliver
<1>2. /\ accepted' \in [Rows -> Nat]
      /\ \A m \in Rows : accepted'[m] >= accepted[m]
      /\ result = "ok" => accepted'[n] > 0
  BY <1>1 DEF IInv, TypeOK
<1>3. TypeOK'
  BY <1>1, <1>2 DEF Deliver, IInv, TypeOK, rowVars
<1>4. \A m \in Rows : accepted[m] > 0 => accepted'[m] > 0
  BY <1>2 DEF IInv, TypeOK
<1>5. SentWasAccepted'
  BY <1>4 DEF Deliver, IInv, SentWasAccepted, rowVars
<1>6. RowLocksExclusive'
  BY DEF Deliver, IInv, RowLocksExclusive
<1>7. ASSUME NEW v \in Workers PROVE RoundInv(v)'
  <2>1. \A m \in Rows : mark[v][m] = "SENT" => accepted'[m] > 0
    BY <1>4 DEF IInv, RoundInv
  <2>2. toSend'[v] \subseteq locked[v]
    BY DEF Deliver, IInv, TypeOK, RoundInv
  <2>3. CASE v = w
    <3>1. /\ reply'[w] = [row |-> n, result |-> result]
          /\ phase'[w] # "idle"
          /\ n \in locked[w]
      BY <1>1 DEF Deliver, IInv, TypeOK, RoundInv
    <3>2. reply'[w].row = n /\ reply'[w].result = result
      BY <3>1
    <3> QED BY <1>2, <2>1, <2>2, <2>3, <3>1, <3>2 DEF Deliver, IInv, RoundInv, rowVars
  <2>4. CASE v # w
    <3>1. reply'[v] = reply[v]
      BY <1>1, <2>4 DEF IInv, TypeOK
    <3>2. reply[v].result = "ok" => reply[v].row \in Rows /\ accepted[reply[v].row] > 0
      BY DEF IInv, TypeOK, NoReply, RoundInv
    <3> QED BY <1>4, <2>1, <2>2, <3>1, <3>2 DEF Deliver, IInv, RoundInv, rowVars
  <2> QED BY <2>3, <2>4
<1> QED BY <1>3, <1>5, <1>6, <1>7, SubsUnchanged DEF Deliver, IInv

LEMMA RecordKeeps ==
  ASSUME IInv, NEW w \in Workers, Record(w)
  PROVE  IInv'
<1> DEFINE n == reply[w].row
           result == reply[w].result
           s == SubOf[n]
<1>1. /\ mark' = [mark EXCEPT ![w][n] = MarkFor(n, result)]
      /\ pending' = [pending EXCEPT ![s] = Recorded(@, result)]
      /\ holder' = [holder EXCEPT ![s] = w]
      /\ reply' = [reply EXCEPT ![w] = NoReply]
      /\ UNCHANGED <<rowVars, sub, phase, locked, toPark, toSend, accepted, aborts, upserts>>
  BY DEF Record
<1>2. /\ n \in Rows /\ result \in Replies /\ s \in Subs /\ n \in locked[w]
      /\ result = "ok" => accepted[n] > 0
  BY WebhookAssumption DEF Record, IInv, TypeOK, RoundInv
<1>3. phase[w] # "idle"
  BY DEF Record, IInv, RoundInv
<1> HIDE DEF n, result, s
<1>4. /\ MarkFor(n, result) \in {"SENT", "FAILED", "SUPPRESSED"}
      /\ MarkFor(n, result) = "SENT" => accepted[n] > 0
      /\ MarkFor(n, result) = "FAILED" => attempts[n] + 1 < MaxAttempts
  <2>1. attempts[n] \in Nat /\ MaxAttempts \in Nat
    BY <1>2, WebhookAssumption DEF IInv, TypeOK
  <2> QED BY <1>2, <2>1 DEF MarkFor, Replies
<1>5. \A r \in Subscription :
         /\ Recorded(r, result) \in Subscription
         /\ Recorded(r, result).active => r.active
         /\ BelowThreshold(r) => BelowThreshold(Recorded(r, result))
  <2> SUFFICES ASSUME NEW r \in Subscription
               PROVE  /\ Recorded(r, result) \in Subscription
                      /\ Recorded(r, result).active => r.active
                      /\ BelowThreshold(r) => BelowThreshold(Recorded(r, result))
    OBVIOUS
  <2>1. CASE result = "ok"
    <3>1. Recorded(r, result) = [r EXCEPT !.failures = 0]
      BY <2>1 DEF Recorded
    <3> QED BY <3>1, WebhookAssumption DEF Subscription, BelowThreshold
  <2>2. CASE result # "ok"
    <3> DEFINE stays == r.active /\ r.failures + 1 < MaxFailures
    <3>1. Recorded(r, result) = [active |-> stays, failures |-> r.failures + 1]
      BY <2>2 DEF Recorded
    <3>2. stays \in BOOLEAN /\ (stays => r.active /\ r.failures + 1 < MaxFailures)
      OBVIOUS
    <3>3. r.failures + 1 \in Nat
      BY DEF Subscription
    <3> HIDE DEF stays
    <3>4. Recorded(r, result).active = stays /\ Recorded(r, result).failures = r.failures + 1
      BY <3>1
    <3> QED BY <3>1, <3>2, <3>3, <3>4 DEF Subscription, BelowThreshold
  <2> QED BY <2>1, <2>2
<1>6. TypeOK'
  BY <1>1, <1>2, <1>4, <1>5 DEF IInv, TypeOK, rowVars
<1>7. SentWasAccepted' /\ RowLocksExclusive'
  BY <1>1 DEF IInv, SentWasAccepted, RowLocksExclusive, rowVars
<1>8. ASSUME NEW v \in Workers PROVE RoundInv(v)'
  <2>1. CASE v = w
    <3>1. reply'[w] = NoReply /\ NoReply.result # "ok"
      BY <1>1 DEF IInv, TypeOK, NoReply
    <3>2. \A m \in Rows : mark'[w][m] = IF m = n THEN MarkFor(n, result) ELSE mark[w][m]
      BY <1>1, <1>2 DEF IInv, TypeOK
    <3> QED BY <1>1, <1>2, <1>3, <1>4, <2>1, <3>1, <3>2 DEF IInv, RoundInv, rowVars
  <2>2. CASE v # w
    <3>1. reply'[v] = reply[v] /\ mark'[v] = mark[v]
      BY <1>1, <2>2 DEF IInv, TypeOK
    <3> QED BY <1>1, <3>1 DEF IInv, RoundInv, rowVars
  <2> QED BY <2>1, <2>2
<1>9. ASSUME NEW t \in Subs PROVE SubInv(t)'
  <2>1. pending[t] \in Subscription
    BY DEF IInv, TypeOK
  <2>2. pending'[t] = pending[t] \/ pending'[t] = Recorded(pending[t], result)
    BY <1>1 DEF IInv, TypeOK
  <2>3. /\ pending'[t].active => pending[t].active
        /\ BelowThreshold(pending[t]) => BelowThreshold(pending'[t])
    BY <1>5, <2>1, <2>2
  <2>4. BelowThreshold(sub[t])' <=> BelowThreshold(sub[t])
    BY <1>1 DEF BelowThreshold
  <2>5. BelowThreshold(pending[t])' <=> BelowThreshold(pending'[t])
    BY DEF BelowThreshold
  <2> QED BY <1>1, <2>3, <2>4, <2>5 DEF IInv, SubInv
<1> QED BY <1>6, <1>7, <1>8, <1>9 DEF IInv

(* The end of a round: its locks go, the others keep theirs.                      *)
LEMMA ReleaseLocks ==
  ASSUME IInv, NEW w \in Workers, Release(w), UNCHANGED accepted,
         \A n \in Rows : attempts'[n] # attempts[n] => n \in locked[w]
  PROVE  /\ RowLocksExclusive'
         /\ \A v \in Workers : RoundInv(v)'
<1>1. RowLocksExclusive'
  BY DEF Release, IInv, TypeOK, RowLocksExclusive
<1>2. ASSUME NEW v \in Workers PROVE RoundInv(v)'
  <2>1. CASE v = w
    <3>1. /\ reply'[v] = NoReply /\ mark'[v] = NoMarks
          /\ toSend'[v] = {} /\ NoReply.result # "ok"
          /\ \A n \in Rows : NoMarks[n] = "none"
      BY <2>1 DEF Release, IInv, TypeOK, NoReply, NoMarks
    <3> QED BY <3>1 DEF RoundInv
  <2>2. CASE v # w
    <3>1. /\ reply'[v] = reply[v] /\ mark'[v] = mark[v] /\ phase'[v] = phase[v]
          /\ toSend'[v] = toSend[v] /\ locked'[v] = locked[v]
      BY <2>2 DEF Release, IInv, TypeOK
    <3>2. \A n \in locked[v] : n \notin locked[w]
      BY <2>2 DEF IInv, RowLocksExclusive
    <3>3. \A n \in Rows : mark[v][n] = "FAILED" => attempts'[n] = attempts[n]
      BY <3>2 DEF IInv, RoundInv
    <3> QED BY <3>1, <3>3 DEF IInv, RoundInv
  <2> QED BY <2>1, <2>2
<1> QED BY <1>1, <1>2

LEMMA ReleaseTypes ==
  ASSUME TypeOK, NEW w \in Workers, Release(w)
  PROVE  /\ holder' \in [Subs -> Workers \cup {NoWorker}]
         /\ phase' \in [Workers -> {"idle", "claimed", "parking", "sending"}]
         /\ locked' \in [Workers -> SUBSET Rows]
         /\ toPark' \in [Workers -> SUBSET Rows]
         /\ toSend' \in [Workers -> SUBSET Rows]
         /\ reply' \in [Workers -> {NoReply} \cup [row : Rows, result : Replies]]
         /\ mark' \in [Workers -> [Rows -> {"none", "SENT", "FAILED", "SUPPRESSED"}]]
<1> QED BY DEF TypeOK, Release, NoMarks

LEMMA CommitKeeps ==
  ASSUME IInv, NEW w \in Workers, Commit(w)
  PROVE  IInv'
<1>1. /\ status' = [n \in Rows |-> IF mark[w][n] = "none" THEN status[n] ELSE mark[w][n]]
      /\ attempts' = [n \in Rows |-> IF mark[w][n] = "FAILED"
                                     THEN attempts[n] + 1 ELSE attempts[n]]
      /\ due' = [n \in Rows |-> due[n] /\ mark[w][n] = "none"]
      /\ sub' = [s \in Subs |-> IF holder[s] = w THEN pending[s] ELSE sub[s]]
      /\ Release(w) /\ UNCHANGED <<pending, accepted, aborts, upserts>>
  BY DEF Commit
<1>2. TypeOK'
  <2>1. status' \in [Rows -> Queued \cup {"absent", "SENT", "SUPPRESSED"}]
    BY <1>1 DEF IInv, TypeOK, Queued
  <2>2. attempts' \in [Rows -> 0..(MaxAttempts - 1)]
    <3>1. \A n \in Rows : /\ attempts[n] \in 0..(MaxAttempts - 1)
                          /\ mark[w][n] = "FAILED" => attempts[n] + 1 < MaxAttempts
      BY DEF IInv, TypeOK, RoundInv
    <3> QED BY <1>1, <3>1, WebhookAssumption
  <2>3. due' \in [Rows -> BOOLEAN]
    BY <1>1
  <2>4. sub' \in [Subs -> Subscription]
    BY <1>1 DEF IInv, TypeOK
  <2> QED BY <1>1, <2>1, <2>2, <2>3, <2>4, ReleaseTypes DEF IInv, TypeOK
<1>3. SentWasAccepted'
  BY <1>1 DEF IInv, SentWasAccepted, RoundInv
<1>4. \A n \in Rows : attempts'[n] # attempts[n] => n \in locked[w]
  BY <1>1 DEF IInv, RoundInv
<1>5. ASSUME NEW s \in Subs PROVE SubInv(s)'
  BY <1>1 DEF IInv, SubInv, BelowThreshold
<1> QED BY <1>1, <1>2, <1>3, <1>4, <1>5, ReleaseLocks DEF IInv

LEMMA RollbackKeeps ==
  ASSUME IInv, NEW w \in Workers, Rollback(w), aborts' \in 0..MaxAborts
  PROVE  IInv'
<1>1. /\ pending' = [s \in Subs |-> IF holder[s] = w THEN sub[s] ELSE pending[s]]
      /\ Release(w) /\ UNCHANGED <<rowVars, sub, accepted, upserts>>
  BY DEF Rollback
<1>2. TypeOK'
  BY <1>1, ReleaseTypes DEF IInv, TypeOK, rowVars
<1>3. SentWasAccepted'
  BY <1>1 DEF IInv, SentWasAccepted, rowVars
<1>4. \A n \in Rows : attempts'[n] # attempts[n] => n \in locked[w]
  BY <1>1 DEF rowVars
<1>5. ASSUME NEW s \in Subs PROVE SubInv(s)'
  BY <1>1 DEF IInv, SubInv, BelowThreshold
<1> QED BY <1>1, <1>2, <1>3, <1>4, <1>5, ReleaseLocks DEF IInv

LEMMA StepKeeps ==
  ASSUME IInv, NEW w \in Workers, Step(w)
  PROVE  IInv'
<1>1. CASE Claim(w) \/ StartPark(w) \/ ParkRow(w) \/ ParkDone(w)
  BY <1>1, ClaimKeeps, StartParkKeeps, ParkRowKeeps, ParkDoneKeeps
<1>2. CASE Record(w) \/ Commit(w) \/ \E n \in Rows : Deliver(w, n)
  BY <1>2, RecordKeeps, CommitKeeps, DeliverKeeps
<1>3. CASE DeadlockVictim(w)
  <2>1. aborts' \in 0..MaxAborts
    BY <1>3 DEF DeadlockVictim, IInv, TypeOK
  <2> QED BY <1>3, <2>1, RollbackKeeps DEF DeadlockVictim
<1> QED BY <1>1, <1>2, <1>3 DEF Step

LEMMA AbortKeeps ==
  ASSUME IInv, NEW w \in Workers, Abort(w)
  PROVE  IInv'
<1>1. aborts' \in 0..MaxAborts
  BY WebhookAssumption DEF Abort, IInv, TypeOK
<1> QED BY <1>1, RollbackKeeps DEF Abort

LEMMA IInvIsKept == IInv /\ [Next]_vars => IInv'
<1> SUFFICES ASSUME IInv, [Next]_vars PROVE IInv'
  OBVIOUS
<1>1. CASE Next
  BY <1>1, FanOutKeeps, BackoffKeeps, UpsertKeeps, StepKeeps, AbortKeeps DEF Next
<1>2. CASE UNCHANGED vars
  <2>1. TypeOK' /\ SentWasAccepted'
    BY <1>2 DEF vars, rowVars, roundVars, IInv, TypeOK, SentWasAccepted
  <2>2. RowLocksExclusive' /\ \A w \in Workers : RoundInv(w)'
    BY <1>2, RoundsUnchanged DEF vars, rowVars, IInv, TypeOK
  <2> QED BY <1>2, <2>1, <2>2, SubsUnchanged DEF vars, IInv
<1> QED BY <1>1, <1>2

LEMMA BooksHold == IInv => BooksAreTrue
<1> SUFFICES ASSUME IInv PROVE BooksAreTrue
  OBVIOUS
<1>1. ActiveBelowThreshold
  BY DEF IInv, SubInv, BelowThreshold, ActiveBelowThreshold
<1> QED BY <1>1 DEF IInv, BooksAreTrue

(* Every state the rounds, crashes and deadlocks of the loop reach has the type;    *)
(* so no row is tried more often than max_attempts.                              *)
THEOREM TypeCorrect == Spec => []TypeOK
<1>1. IInv => TypeOK
  BY DEF IInv
<1> QED BY <1>1, InitIInv, IInvIsKept, PTL DEF Spec

(* claim_webhook_batch, record_webhook_result and the three ways a round ends:      *)
(* overlapping rounds lock different rows, SENT means the endpoint took it, and no *)
(* failure is lost on the way to the threshold.                                  *)
THEOREM BooksStayTrue == Spec => []BooksAreTrue
<1> QED BY InitIInv, IInvIsKept, BooksHold, PTL DEF Spec

(* Only POST /webhooks turns a subscription on.                                   *)
LEMMA EnablingSteps ==
  ASSUME IInv, [Next]_vars, NEW s \in Subs, ~sub[s].active, sub'[s].active
  PROVE  upserts' > upserts
<1>1. ASSUME NEW t \in Subs, NEW active \in BOOLEAN, Upsert(t, active)
      PROVE  upserts' > upserts
  BY <1>1 DEF Upsert, IInv, TypeOK
<1>2. ASSUME NEW w \in Workers, Commit(w)
      PROVE  FALSE
  BY <1>2 DEF Commit, IInv, SubInv
<1>3. ASSUME UNCHANGED sub
      PROVE  FALSE
  BY <1>3
<1>4. CASE Next
  <2>1. CASE \E n \in Rows : FanOut(n) \/ BackoffElapses(n)
    BY <1>3, <2>1 DEF FanOut, BackoffElapses
  <2>2. CASE \E t \in Subs, active \in BOOLEAN : Upsert(t, active)
    BY <1>1, <2>2
  <2>3. CASE \E w \in Workers : Step(w) \/ Abort(w)
    BY <1>2, <1>3, <2>3 DEF Step, Abort, Claim, StartPark, ParkRow, ParkDone, Deliver, Record,
                            DeadlockVictim, Rollback
  <2> QED BY <1>4, <2>1, <2>2, <2>3 DEF Next
<1> QED BY <1>3, <1>4 DEF vars

(* A round that was under way when a subscription was disabled does not turn it on    *)
(* again: is_active AND ... in record_webhook_result.                             *)
THEOREM OnlyUpsertTurnsOn == Spec => OnlyUpsertEnables
<1>1. IInv /\ [Next]_vars =>
        [\A s \in Subs : ~sub[s].active /\ sub'[s].active => upserts' > upserts]_vars
  BY EnablingSteps
<1> QED BY <1>1, InitIInv, IInvIsKept, PTL DEF Spec, OnlyUpsertEnables
=============================================================================
