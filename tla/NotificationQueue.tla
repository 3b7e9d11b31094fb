---------------------------- MODULE NotificationQueue ----------------------------
(***************************************************************************)
(* Notifications.  The relay fans an event out to rows, one per recipient    *)
(* and channel of its template; the handler commits on its own, so the event *)
(* may be delivered again.  Dispatchers then work in rounds, each one        *)
(* transaction: rows of channels nobody transports are suppressed, a batch   *)
(* of e-mails is claimed with SKIP LOCKED and sent one by one, and the       *)
(* results become visible when the round commits.                            *)
(***************************************************************************)
EXTENDS Naturals, FiniteSets

CONSTANTS
  Alerts,       \* outbox events whose rule says notify
  Recipients,   \* users the rule resolves to
  Channels,     \* channels the template exists for
  Dispatchers,  \* processes that run the dispatcher
  MailBatch,    \* DispatcherConfig.batch_size
  MailAttempts, \* DispatcherConfig.max_attempts
  MaxLosses     \* bound: processes that die and answers that are lost

Rows == Alerts \X Recipients \X Channels
Channel(n) == n[3]

ASSUME NotifyAssumption ==
  /\ Channels \subseteq {"IN_APP", "EMAIL", "WEBHOOK", "SMS", "PUSH"}
  /\ MailBatch \in Nat \ {0} /\ MailAttempts \in Nat \ {0} /\ MaxLosses \in Nat

VARIABLES
  alert,     \* alert[e]: state of the outbox event
  row,       \* row[n]: a row of notifications, with attempt_count and whether it is due
  accepted,  \* accepted[n]: how often the mail server took the mail of n
  round,     \* round[d]: the open transaction of a dispatcher
  losses     \* how many of MaxLosses have happened

notifyVars == <<alert, row, accepted, round, losses>>

NoRow == [status |-> "NONE", tries |-> 0, due |-> FALSE]
Away == [on |-> FALSE]
Result == [status : {"SENT", "FAILED", "SUPPRESSED"}, tries : 0..MailAttempts, due : BOOLEAN]

NotifyTypeOK ==
  /\ alert \in [Alerts -> {"none", "pending", "handled", "published"}]
  /\ row \in [Rows -> [status : {"NONE", "QUEUED", "FAILED", "SENT", "SUPPRESSED", "READ"},
                       tries : 0..MailAttempts, due : BOOLEAN]]
  /\ accepted \in [Rows -> Nat]
  /\ \A d \in Dispatchers : round[d] = Away \/
       /\ round[d].on
       /\ round[d].todo \subseteq Rows /\ DOMAIN round[d].result \subseteq Rows
       /\ \A n \in DOMAIN round[d].result : round[d].result[n] \in Result
  /\ losses \in 0..MaxLosses

NotifyInit ==
  /\ alert = [e \in Alerts |-> "none"]
  /\ row = [n \in Rows |-> NoRow]
  /\ accepted = [n \in Rows |-> 0]
  /\ round = [d \in Dispatchers |-> Away]
  /\ losses = 0

Accident == losses < MaxLosses /\ losses' = losses + 1

-----------------------------------------------------------------------------
(* A transition writes its event.                                              *)
Raise(e) ==
  /\ alert[e] = "none"
  /\ alert' = [alert EXCEPT ![e] = "pending"]
  /\ UNCHANGED <<row, accepted, round, losses>>

(* fan_out_notifications: an IN_APP row is the notification and is SENT at     *)
(* once, the others wait; rows that exist are left alone.                      *)
Inserted(n) ==
  [status |-> IF Channel(n) = "IN_APP" THEN "SENT" ELSE "QUEUED", tries |-> 0, due |-> TRUE]
FanOut(e) ==
  /\ alert[e] = "pending"
  /\ row' = [n \in Rows |-> IF n[1] = e /\ row[n] = NoRow THEN Inserted(n) ELSE row[n]]
  /\ alert' = [alert EXCEPT ![e] = "handled"]
  /\ UNCHANGED <<accepted, round, losses>>

(* The relay's own transaction: published, or lost and delivered again.        *)
Acknowledge(e) ==
  /\ alert[e] = "handled"
  /\ alert' = [alert EXCEPT ![e] = "published"]
  /\ UNCHANGED <<row, accepted, round, losses>>
LoseAcknowledge(e) ==
  /\ alert[e] = "handled"
  /\ alert' = [alert EXCEPT ![e] = "pending"]
  /\ Accident
  /\ UNCHANGED <<row, accepted, round>>

-----------------------------------------------------------------------------
(* run_once                                                                    *)

Open(n) == row[n].status \in {"QUEUED", "FAILED"}
Transported == {"EMAIL"}
SelfDelivering == {"IN_APP"}
OtherLoop == {"WEBHOOK"}
Sweepable == {n \in Rows : Open(n) /\ Channel(n) \notin Transported \cup OtherLoop}
Swept(n) ==
  [row[n] EXCEPT !.status = IF Channel(n) \in SelfDelivering THEN "SENT" ELSE "SUPPRESSED"]

Touches(d, n) == round[d].on /\ (n \in round[d].todo \/ n \in DOMAIN round[d].result)
(* Plausible bug: the claim without FOR UPDATE SKIP LOCKED.                     *)
UnlockedAlways(n) == TRUE
Unlocked(n) == \A d \in Dispatchers : ~Touches(d, n)
Claimable == {n \in Rows : Channel(n) \in Transported /\ Open(n) /\ row[n].due /\ Unlocked(n)}

(* The updates of the rows that need no server wait for another round's; the   *)
(* claim skips locked rows.                                                    *)
BeginRound(d) ==
  /\ ~round[d].on
  /\ \A n \in Sweepable : Unlocked(n)
  /\ \E batch \in SUBSET Claimable :
       /\ Cardinality(batch) = MailBatch
            \/ (batch = Claimable /\ Cardinality(batch) < MailBatch)
       /\ batch # {} \/ Sweepable # {}
       /\ round' = [round EXCEPT ![d] =
            [on |-> TRUE, todo |-> batch,
             result |-> [n \in Sweepable |-> Swept(n)]]]
  /\ UNCHANGED <<alert, row, accepted, losses>>

Note(d, n, r) ==
  round' = [round EXCEPT ![d].todo = @ \ {n},
              ![d].result = [m \in DOMAIN @ \cup {n} |-> IF m = n THEN r ELSE @[m]]]

(* A failure that may pass: try again later, or give up.                       *)
Again(n) ==
  IF row[n].tries + 1 >= MailAttempts
  THEN [row[n] EXCEPT !.status = "SUPPRESSED"]
  ELSE [status |-> "FAILED", tries |-> row[n].tries + 1, due |-> FALSE]

MailAccepted(d, n) ==
  /\ accepted' = [accepted EXCEPT ![n] = @ + 1]
  /\ Note(d, n, [row[n] EXCEPT !.status = "SENT"])
  /\ UNCHANGED <<alert, row, losses>>

(* The recipient has no address or the mail is refused for good (PERMANENT:),   *)
(* or refused for now.                                                         *)
MailRefused(d, n) ==
  /\ \E r \in {[row[n] EXCEPT !.status = "SUPPRESSED"], Again(n)} : Note(d, n, r)
  /\ UNCHANGED <<alert, row, accepted, losses>>

(* The server took the mail but its answer did not arrive.                     *)
AnswerLost(d, n) ==
  /\ accepted' = [accepted EXCEPT ![n] = @ + 1]
  /\ Note(d, n, Again(n))
  /\ Accident
  /\ UNCHANGED <<alert, row>>

SendMail(d) ==
  /\ round[d].on
  /\ \E n \in round[d].todo : MailAccepted(d, n) \/ MailRefused(d, n)

CommitRound(d) ==
  /\ round[d].on /\ round[d].todo = {}
  /\ row' = [n \in Rows |-> IF n \in DOMAIN round[d].result THEN round[d].result[n] ELSE row[n]]
  /\ round' = [round EXCEPT ![d] = Away]
  /\ UNCHANGED <<alert, accepted, losses>>

KillRound(d) ==
  /\ round[d].on
  /\ round' = [round EXCEPT ![d] = Away]
  /\ Accident
  /\ UNCHANGED <<alert, row, accepted>>

(* scheduled_for comes.                                                        *)
FallDue(n) ==
  /\ row[n].status = "FAILED" /\ ~row[n].due
  /\ row' = [row EXCEPT ![n].due = TRUE]
  /\ UNCHANGED <<alert, accepted, round, losses>>

(* POST /notifications/{notificationId}/read, for an id of the user's inbox    *)
MarkRead(n) ==
  /\ Channel(n) = "IN_APP" /\ row[n].status = "SENT"
  /\ row' = [row EXCEPT ![n].status = "READ"]
  /\ UNCHANGED <<alert, accepted, round, losses>>

NotifyNext ==
  \/ \E e \in Alerts : Raise(e) \/ FanOut(e) \/ Acknowledge(e) \/ LoseAcknowledge(e)
  \/ \E d \in Dispatchers : BeginRound(d) \/ SendMail(d) \/ CommitRound(d) \/ KillRound(d)
  \/ \E d \in Dispatchers : round[d].on /\ \E n \in round[d].todo : AnswerLost(d, n)
  \/ \E n \in Rows : FallDue(n) \/ MarkRead(n)

NotifySpec == NotifyInit /\ [][NotifyNext]_notifyVars

(* Loops keep running, a round that was begun goes on, and time passes.        *)
NotifyFairness ==
  /\ \A e \in Alerts : WF_notifyVars(FanOut(e)) /\ WF_notifyVars(Acknowledge(e))
  /\ \A d \in Dispatchers : WF_notifyVars(BeginRound(d) \/ SendMail(d) \/ CommitRound(d))
  /\ \A n \in Rows : WF_notifyVars(FallDue(n))

NotifyFairSpec == NotifySpec /\ NotifyFairness

-----------------------------------------------------------------------------
(* A mail goes out twice only when something died or an answer was lost: neither  *)
(* several dispatchers nor an event that is delivered again repeat it.            *)
MailOnceUnlessLoss == \A n \in Rows : accepted[n] <= 1 + losses

(* Every notification of a template ends: in the inbox, with the mail server, or  *)
(* suppressed with a reason.                                                     *)
Served(n) == Channel(n) = "WEBHOOK" \/ row[n].status \in {"SENT", "SUPPRESSED", "READ"}
EveryoneIsServed ==
  \A e \in Alerts : alert[e] = "pending" ~> \A n \in Rows : n[1] = e => Served(n)
=============================================================================
